SPECIFICATION Spec
CONSTANTS
  Callers = {endpoint1, activity1}
  Endpoints = {endpoint1}
  a1 = a1
  a2 = a2
  Agents = {a1, a2}
  None = None
  FallbackOf <- MCFallbackOf
  Credentialed = {a1}
  RedisAnswers = {TRUE}
  Rewrites = {"online"}
  MAX_ATTEMPTS = 2
  BREAKER_THRESHOLD = 2
  MaxCalls = 3
INVARIANTS OpenIsEarned EnoughFailuresOpen HiddenWhileOpen LogTellsCall
PROPERTY CallsReturn
CHECK_DEADLOCK FALSE
