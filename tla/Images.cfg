CONSTANTS
  MaxLength = 40
  MaxInputBytes = 38
  MaxSegment = 12
  Sides <- MCSides
  FrameSides <- MCFrameSides
SPECIFICATION FairSpec
INVARIANT FitIsAccepted
PROPERTIES InBounds Answered
CHECK_DEADLOCK FALSE
