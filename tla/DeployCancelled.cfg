SPECIFICATION Spec

CONSTANTS
  Bonds = {b1, b2}
  SessionIds = {s1}
  OrderIds = {o1}
  Threads = {t1}
  MaxStamp = 1
  MaxRequests = 2
  None = None

INVARIANTS
  FilledIsExecuted
