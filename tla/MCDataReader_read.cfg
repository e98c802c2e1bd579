CONSTANTS
  StartVersions = {1}
  Faults = {"call"}
  r1 = r1
  Readers = {r1}
  Kinds = {"events", "info", "files"}
  PageSize = 2
  InitialRows <- FewRows
  EditedTables = {"events"}
  MaxEdits = 1
  MaxId = 4
  HiddenEvents = {}
  StartOf <- Starts
  EndOf <- Ends
  PeopleOf <- Hosts
  FilesOf <- Attached
SPECIFICATION LiveSpec
INVARIANTS TypeOK GrowingListsComplete NothingListedTwice ScheduleInOrder UndisturbedAnswersAgree
PROPERTIES ReadsEnd
