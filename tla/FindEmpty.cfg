CONSTANTS
  MaxLength = 40
  MaxInputBytes = 38
  MaxSegment = 12
  Sides <- MCSides
  FrameSides <- MCFrameSides
SPECIFICATION Spec
INVARIANT NoEmptyFrame
CHECK_DEADLOCK FALSE
