CONSTANTS
  i1 = i1
  o1 = o1
  i2 = i2
  b1 = b1
  b2 = b2
  n1 = n1
  n2 = n2
  None = None
  Ids = {i1}
  OtherIds = {o1}
  Browsers = {b1}
  Announcements = {n1,n2}
  MaxEndpoints = 2
  Faults = {"call", "send", "evict"}
SPECIFICATION LiveSpec
INVARIANTS TypeOK FlagMeansStored FanOutComplete
PROPERTY AudienceNotified
CHECK_DEADLOCK FALSE
