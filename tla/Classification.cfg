SPECIFICATION ClassifySpec
CHECK_DEADLOCK FALSE
CONSTANTS
  Sizes = {0, 4, 5, 8, 9, 42, 43, 44, 46, 48, 49, 53, 54, 58, 60, 62, 66, 71}
  Lengths8 = {0, 1, 255}
  Lengths16 = {0, 1, 4, 5, 6, 8, 9, 13, 53, 65535}
  kMaxLabels = 2
  kMaxLabel = 1
  Byte = {0, 1, 2}
  MaxTail = 9
  Ports = {53, 443, 5353}
INVARIANTS
  ReadsInBounds
  FoundNameIsWhole
  ClassifiesAsAbstract
PROPERTIES
    ClassifyReturns
