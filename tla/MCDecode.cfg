SPECIFICATION Spec
CHECK_DEADLOCK FALSE
CONSTANTS
  Frames <- MCFrames
INVARIANTS
  ReadsStayInFrame
  PayloadIsWhatWasSent
  CountedAsExpected
PROPERTY TruncationIsHarmless
