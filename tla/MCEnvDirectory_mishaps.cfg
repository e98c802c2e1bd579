CONSTANTS
  e1 = e1
  e2 = e2
  i1 = i1
  i2 = i2
  i3 = i3
  d1 = d1
  d2 = d2
  None = None
  Envs = {e1, e2}
  Ids = {i1, i2, i3}
  Domains = {d1, d2}
  MayUse <- OwnAndShared
SPECIFICATION Spec
SYMMETRY Symmetry
INVARIANTS TypeOK CurrentLinkResolves ReverseImpliesForward LinksLeadHome
