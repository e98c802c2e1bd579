CONSTANTS
  i1 = i1
  i2 = i2
  d1 = d1
  d2 = d2
  r1 = r1
  r2 = r2
  r3 = r3
  p1 = p1
  p2 = p2
  Requests = {r1, r2}
  Publishers = {p1}
  Isolates = {i1, i2}
  Datacenters = {d1, d2}
  IsolateOf <- SlotHome
  DatacenterOf <- TwoDatacenters
  MaxVersion = 1
  WarmStart = FALSE
  Faults = {"kvWrite", "edgeWrite", "upstream", "kvLag", "cancel", "recycle"}
  Operations = {"webhook"}
SPECIFICATION LiveSpec
PROPERTY Converges
