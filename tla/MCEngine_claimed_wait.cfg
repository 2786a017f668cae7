SPECIFICATION Spec
CHECK_DEADLOCK FALSE
CONSTANTS
  AddressBits = 2
  Routes <- MCRoutes
  Rules <- ForbidSsh
  syn_us = 1
  established_tcp_us = 3
  established_udp_us = 2
  closing_us = 1
  NatEnabled = FALSE
  FirstPort = 1
  LastPort = 3
  Midstream = FALSE
  kSweepInterval = 2
  kMaxL7Bytes = 4096
  Segments <- SplitSegments
  Unparsed <- NoneUnparsed
  Times = {0}
  ClockStepsBack = FALSE
  MaxPackets = 4
  TimeWrap = 8
INVARIANTS
  GivesUpAfterTheWait
