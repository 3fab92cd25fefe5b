SPECIFICATION Spec
CONSTANTS
  Processes = {api1, api2}
  gemini_cli = gemini_cli
  codex = codex
  opencode = opencode
  Paid <- MCPaid
  Ranked <- MCRanked
  Connected <- MCPaid
  Explorable = {codex}
  None = None
  MaxTurns = 2
SYMMETRY ProcessSymmetry
INVARIANTS CooledIsSkipped WalkIsContained MarksAreEarned
CHECK_DEADLOCK FALSE
