CONSTANTS
  a = a
  a2 = a2
  b = b
  envA = envA
  envB = envB
  v1 = v1
  v2 = v2
  r1 = r1
  r2 = r2
  r3 = r3
  None = None
  Names = {envA, envB}
  NameOf <- Owner
  AliasOf <- Successor
  Outside <- Nothing
  Modes = {"default", "custom"}
  Ids = {a, a2, b}
  Versions = {0}
  Views = {v1}
  Reloads = {r1, r2}
  MaxRetries = 1
  MaxTriggers = 2
SPECIFICATION Spec
INVARIANT SwitchedTabShowsItsEnv
CHECK_DEADLOCK FALSE
