SPECIFICATION Spec
CHECK_DEADLOCK FALSE
CONSTANTS
  kMaxRecord = 20
  kMagicUs = 27
  kMagicNs = 30
  ByteBase = 4
  MicrosPerSec = 2
  NanosPerMicro = 3
  Sizes <- MCSizes
  Stamps <- MCStamps
  Nets = {1, 101}
INVARIANTS
  FedAsWritten
  NothingLeftUnfed
  FinishedAtTheLastFrame
  TimesKeepOrder
PROPERTIES
  ReplayEnds
