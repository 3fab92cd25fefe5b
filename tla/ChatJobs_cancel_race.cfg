SPECIFICATION Spec
CONSTANTS
  j1 = j1
  Jobs <- MCOneJob
INVARIANT CancelBeatsFinish
CHECK_DEADLOCK FALSE
