CONSTANTS
  StartVersions = {0}
  Faults = {"call", "crash"}
SPECIFICATION SchemaSpec
INVARIANTS ReadersDecode SchemaMatchesVersion
PROPERTIES RecordedIsTrue
