SPECIFICATION ReviewSpec
CONSTANTS
  Clis = {c1, c2}
  Findings = {f}
  max_rounds = 2
  MaxWorkflows = 2
  MaxReplies = 1
  MaxFaults = 3
INVARIANTS RoundsCountedOnce OneEntryPerRound VoteIsOfThisRound
PROPERTY RoundEnds
CHECK_DEADLOCK FALSE
