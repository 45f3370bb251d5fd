SPECIFICATION LiveSpec
CONSTANTS
  c1 = c1  c2 = c2  p1 = p1  p2 = p2  s1 = s1  s2 = s2
  Clients = {c1}
  Posts = {p1, p2}
  Streams = {s1}
  SendCap = 1
  BroadcastCap = 1
  MaxMessages = 4
PROPERTIES PostersGoOn DeadSocketsLeave
CHECK_DEADLOCK FALSE
