SPECIFICATION Spec
CONSTANTS
  Callers = {c1, c2}
  LastStep = 2
  NoStep = NoStep
  Fallback <- MCFallback
  MaxAttempts = 1
  Budgets = {1, 3}
  PatchTo = {"executing", "paused"}
  MaxCalls = 7
  MaxOverlaps = 1
SYMMETRY CallerSymmetry
INVARIANTS OneStepRuns BudgetHolds FailuresAreBounded
PROPERTIES SecondReportIsIdle
CHECK_DEADLOCK FALSE
