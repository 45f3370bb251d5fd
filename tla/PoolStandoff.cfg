SPECIFICATION LiveSpec
CONSTANTS
  t1 = t1  t2 = t2  k1 = k1  k2 = k2  r1 = r1  r2 = r2  x1 = x1  x2 = x2
  Tenants = {}
  Conns = {k1, k2}
  Requests = {r1, r2}
  Rows = {}
  NoTenant = NoTenant  NoConn = NoConn
PROPERTY ConnectionsServed
CHECK_DEADLOCK FALSE
