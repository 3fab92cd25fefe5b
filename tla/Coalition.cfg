SPECIFICATION Spec
CONSTANTS
  ann = ann
  bob = bob
  cyd = cyd
  w1 = w1
  w2 = w2
  o1 = o1
  None = None
  Agents = {ann, bob, cyd}
  Roles <- MCRoles
  Phases <- MCPhases
  Required <- MCRequired
  RoleOrder <- MCRoleOrder
  Assigned <- MCAssigned
  Restart = 2
  MaxRounds = 4
  Sessions <- MCSessions
  Workers <- MCWorkers
  Outsiders <- MCOutsiders
  Attempts = 3
  MaxTrouble = 2
  MaxOutside = 1
INVARIANTS EveryPhaseHasEntry ContributionInItsPhase ReportMeansCompleted
PROPERTIES CoalitionEnds
CHECK_DEADLOCK FALSE
