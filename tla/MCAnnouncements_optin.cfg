CONSTANTS
  i1 = i1
  o1 = o1
  i2 = i2
  b1 = b1
  b2 = b2
  n1 = n1
  n2 = n2
  None = None
  Ids = {i1, i2}
  OtherIds = {}
  Browsers = {b1, b2}
  Announcements = {n1}
  MaxEndpoints = 1
  Faults = {}
SPECIFICATION Spec
INVARIANT OptedInNotified
CHECK_DEADLOCK FALSE
