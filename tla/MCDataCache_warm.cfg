CONSTANTS
  i1 = i1
  i2 = i2
  d1 = d1
  d2 = d2
  r1 = r1
  r2 = r2
  r3 = r3
  p1 = p1
  p2 = p2
  Requests = {r1, r2, r3}
  Publishers = {}
  Isolates = {i1}
  Datacenters = {d1}
  IsolateOf <- SlotHome
  DatacenterOf <- OneDatacenter
  MaxVersion = 3
  WarmStart = TRUE
  Faults = {"kvWrite", "edgeWrite", "upstream", "cancel", "recycle"}
  Operations = {"webhook"}
SPECIFICATION Spec
INVARIANT UpstreamLoad
PROPERTY KVForward
