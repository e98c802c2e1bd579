CONSTANTS
  a = a
  a2 = a2
  b = b
  envA = envA
  envB = envB
  v1 = v1
  v2 = v2
  r1 = r1
  r2 = r2
  r3 = r3
  None = None
  Names = {envA, envB}
  NameOf <- Owner
  AliasOf <- Successor
  Outside <- Anything
  Modes = {"default", "custom"}
  Ids = {a, a2, b}
  Versions = {0}
  Views = {v1, v2}
  Reloads = {r1, r2}
  MaxRetries = 2
  MaxTriggers = 3
SPECIFICATION LiveSpec
INVARIANTS TypeOK PinnedTabShowsItsEnv StaleAnswerRetried
PROPERTY RetriesDieOut
CHECK_DEADLOCK FALSE
