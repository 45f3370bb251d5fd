SPECIFICATION Spec
CONSTANTS
  u1 = u1  u2 = u2  c1 = c1  c2 = c2  b1 = b1  b2 = b2
  o1 = o1  o2 = o2  o3 = o3  w1 = w1  w2 = w2  w3 = w3  p1 = p1
  Users = {u1}
  Courses = {c1, c2}
  Bundles = {b1}
  Plans = {}
  Orders = {o1, o2}
  Workers = {w1, w2}
  Amounts = {}
  BundleCourses <- AllCourses
  NoUser = NoUser  NoProduct = NoProduct  NoOrder = NoOrder  NoCourse = NoCourse
  MaxFaults = 1
  MaxResets = 0
SYMMETRY Symmetry
INVARIANT PaidImpliesEnrolled
CHECK_DEADLOCK FALSE
