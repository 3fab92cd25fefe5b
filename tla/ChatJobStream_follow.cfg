SPECIFICATION FairStreamSpec
CONSTANTS
  j1 = j1
  Jobs <- MCJobs
  MaxIters = 2
INVARIANTS
  
  ThreadExitSettlesRow
  StreamIsPrefix
  TerminalFrameStays
PROPERTIES
  OnlyRunningJobsGenerate
  LifecycleSpec
  JobsSettle
  FollowerLearnsOutcome
CHECK_DEADLOCK FALSE
