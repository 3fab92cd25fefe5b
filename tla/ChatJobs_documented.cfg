SPECIFICATION FairSpec
CONSTANTS
  j1 = j1
  Jobs <- MCOneJob
PROPERTY DocumentedLifecycle
CHECK_DEADLOCK FALSE
