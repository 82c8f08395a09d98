SPECIFICATION FairSpec
CONSTANTS
  c1 = c1 c2 = c2 k1 = k1 k2 = k2 k3 = k3 r1 = r1 r2 = r2
  Client = {c1, c2}
  Socket = {k1, k2}
  Request = {r1}
  MaxAttempts = 2
  None = None
INVARIANTS OneLine LineIsKept StatusIsTrue WaitsOnItsConnection
PROPERTIES DiallingEnds ImplementsLine
CHECK_DEADLOCK FALSE
