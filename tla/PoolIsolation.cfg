SPECIFICATION Spec
CONSTANTS
  t1 = t1  t2 = t2  k1 = k1  k2 = k2  r1 = r1  r2 = r2  x1 = x1  x2 = x2
  Tenants = {t1, t2}
  Conns = {k1, k2}
  Requests = {r1, r2}
  Rows = {x1, x2}
  NoTenant = NoTenant  NoConn = NoConn
SYMMETRY Symmetry
INVARIANTS Isolation StandoffsAreOfLookups
CHECK_DEADLOCK FALSE
