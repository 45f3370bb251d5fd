SPECIFICATION Spec
CONSTANTS
  Scenes = {"subscription", "referral", "test", "fee", "attendance", "homework",
    "device", "enrolment", "curriculum", "media", "gateway", "notice", "showcase", "coupon", "build"}
  Subs = {"s1", "s2"}  FreePlans = {"free"}  PaidPlans = {"gold"}  Checkouts = {"r1", "r2"}
  Days = 1  LastDay = 2  MaxLosses = 1
  Referrers = {"u1"}  Newcomers = {"s1", "s2"}  Visits = {"r1", "r2"}  MaxEvents = 3  MaxMishaps = 1
  Questions = {"q1"}  Attempts = {"a1"}  Sittings = {"r1", "r2"}  Marks = 4  NegativeMarks = 1  MaxUnread = 1
  FeeCalls = {"r1", "r2"}  FeeTotals = {200}  FeeCounts = {0, 3}  MaxPaid = 130  MaxGlitches = 1
  Watched = {0, 2}  MinWatchedForAuto = 2  MinWatchedForViewed = 1
  TeacherMarks = {"present", "excused"}  MaxReports = 2  MaxQRCodes = 1
  Texts = {"v1", "v2"}  Doubts = {"d1"}  MaxDesk = 2  MaxUpsets = 1
  Phones = {"p1", "p2", "p3"}  Owners = {"u1", "u2"}  Launches = {"r1", "r2"}  MaxActiveDevices = 1  MaxBreakdowns = 1
  Courses = {"c1"}  Batches = {"b1"}  Students = {"s1", "s2"}  Enrolling = {"r1", "r2"}  MaxSeats = 3  MaxSlips = 1
  Nodes = {"n1", "n2", "n3"}  Lectures = {"l1"}  Viewers = {"s1"}  Seconds = {0, 1}
  Categories = {"x1"}  Slugs = {"jee"}
  Files = {"f1", "f2"}  Places = {"h1"}  Uploads = {"r1", "r2"}  MaxAccidents = 1  MaxDownloads = 1
  Ours = {"u1", "u2"}  Theirs = {"v1"}  Classes = {"c1"}  Notes = {"n1"}
  Articles = {"a1"}  Faqs = {"q1"}  Pages = {"s1"}  Banners = {"b1"}  Leads = {"l1"}  Editors = {"e1", "e2"}
  Codes = {"k1"}  Discounts = {30, 150}  Caps = {10}  Minima = {40}  Amounts = {40}  Goods = {"c1"}  Quoting = {"r1"}
  Builds = {"k1"}
  Ids = {"id", "export"}  Strays <- StrayPaths
INVARIANTS
  TypeOK AccessIsPaidFor UsesCountEvents ResultIsOfAnswers NoCreditLost NothingSlipsOffTheDesk
  DevicesBounded NobodyUncounted ProgressIsFurthest RowsHaveFiles AdminDoors
  NoticesStayHome SwitchesHold PublishedIsBuilt EvidenceStays
CHECK_DEADLOCK FALSE
