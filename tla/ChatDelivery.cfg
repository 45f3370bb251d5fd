SPECIFICATION Spec
CONSTANTS
  c1 = c1  c2 = c2  p1 = p1  p2 = p2  s1 = s1  s2 = s2
  Clients = {c1, c2}
  Posts = {p1}
  Streams = {s1, s2}
  SendCap = 1
  BroadcastCap = 1
  MaxMessages = 3
SYMMETRY Symmetry
INVARIANTS NoPanic
PROPERTIES FeedSpec
CHECK_DEADLOCK FALSE
