SPECIFICATION Spec

CONSTANTS
  Bonds = {b1, b2}
  SessionIds = {s1, s2}
  OrderIds = {o1}
  Threads = {t1, t2}
  MaxStamp = 1
  MaxRequests = 4
  None = None

SYMMETRY DeploySymmetry

INVARIANTS
  ItemOrderIsItsOwn
  CompletedHasNoPending
  SingleActiveSession
  OfferedIsUnordered

