SPECIFICATION Spec
CONSTANTS
  a1 = a1  a2 = a2  k1 = k1  r1 = r1  r2 = r2  t1 = t1  u1 = u1
  Keys = {k1}
  Calls = {r1, r2}
  Burst = 3  Cost = 2  Patience = 5  Lag = 1  MaxTime = 9
  Requests = {r1, r2}
  Accounts = {a1, a2}
  Tenants = {t1}
  DefaultTenant = t1
  MaxAttempts = 2  MaxSends = 1  MaxCodes = 2  MaxFaults = 1
  Users = {u1}
  FirstAdmin = u1
  Exchanges = {r1, r2}
  AccessLife = 2  Delay = 1  MaxClock = 5
  TenantIds = {a1, a2}
  Names = {"Rajan"}
  OrgCodes = {"RAJAN24", "RAJAN25"}
  Onboardings = {r1, r2}
  Domains = {"rajan.in"}
  MaxBreaks = 1
  Kids = {k1}  SignIns = {r1, r2}  MaxAges = {1, 2}  FetchTimeout = 1  MaxCertTime = 5
  Plans = {"basic", "pro"}  Screens = {r1, r2}  KeptFor = 2  LookupLag = 1  MaxLookupTime = 5
  People = {a1, a2}  Numbers = {"p1"}  Imports = {r1, r2}  SheetRoles = {"instructor"}
  MaxRows = 1  MaxTroubles = 1
SYMMETRY Symmetry
INVARIANTS
  TypeOK WindowBudget GuessesBounded LogoutSticks RoleCatchesUp WelcomedAreComplete
  CertsAreRecent AnswersAreRecent ImportsAddUp
CHECK_DEADLOCK FALSE
