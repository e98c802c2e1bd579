CONSTANTS
  None = None
  Latest = 2
  MaxBases = 2
  MaxTables = 2
  MaxCalls = 3
  Gets = {g1}
  g1 = g1
  Calls = {"create", "delete", "migrate", "backup", "restore", "wipe"}
  Faults = {"fail", "dashboard"}
SPECIFICATION Spec
INVARIANTS TypeOK DatabaseIntact CacheMatches DeletionUndoable
PROPERTIES CallsAreTransactions
CHECK_DEADLOCK FALSE
