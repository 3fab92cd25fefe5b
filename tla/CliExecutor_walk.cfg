SPECIFICATION Spec
CONSTANTS
  claude_code = claude_code
  codex = codex
  copilot_cli = copilot_cli
  opencode = opencode
  None = None
  Platforms <- MCPlatforms
  Registered <- MCRegistered
  Chains <- MCChains
  Lineages <- MCLineages
INVARIANTS
  WalkFollowsTable
  AuthProblemIsReported
  HooksTellWalk
CHECK_DEADLOCK FALSE
