---------------------------- MODULE TenantLookup ----------------------------
(***************************************************************************)
(* The login screen asks who an org code belongs to before anybody has     *)
(* signed in.  The answer is kept in Redis for five minutes; what changes  *)
(* the row meanwhile does not remove it, and a request that has read the   *)
(* row may write its answer after later requests have read a newer one.    *)
(***************************************************************************)
EXTENDS Integers, FiniteSets, FiniteSetsExt

CONSTANTS
  Plans,         \* what an answer says of a tenant
  Screens,       \* lookups in flight at one time
  KeptFor,       \* the TTL of an answer (5 minutes)
  LookupLag,     \* how long a lookup takes at most
  MaxLookupTime  \* bound of the run: the clock stops there

ASSUME LookupAssumptions ==
  KeptFor \in Nat /\ LookupLag \in Nat /\ MaxLookupTime \in Nat /\ IsFiniteSet(Plans) /\ Plans # {}

VARIABLES
  lookupClock,
  tenant,        \* the row of tenants
  wasLast,       \* when the row last gave each answer
  kept,          \* the key tenant:org:<code>
  screen,        \* where each lookup is, and what it has read
  oldest         \* how long ago the oldest answer given had ceased to be true

lookupVars == <<lookupClock, tenant, wasLast, kept, screen, oldest>>

NotKept == [plan |-> "none", until |-> 0]
NoScreen == [at |-> "idle", plan |-> "none", since |-> 0]

LookupTypeOK ==
  /\ lookupClock \in 0..MaxLookupTime
  /\ tenant \in [plan : Plans, active : BOOLEAN] /\ wasLast \in [Plans -> 0..MaxLookupTime]
  /\ kept \in [plan : Plans \cup {"none"}, until : 0..MaxLookupTime + KeptFor]
  /\ screen \in [Screens -> [at : {"idle", "read", "keep"}, plan : Plans \cup {"none"}, since : 0..MaxLookupTime]]
  /\ oldest \in 0..MaxLookupTime

LookupInit ==
  /\ lookupClock = 0 /\ tenant \in [plan : Plans, active : {TRUE}]
  /\ wasLast = [p \in Plans |-> 0] /\ kept = NotKept
  /\ screen = [r \in Screens |-> NoScreen] /\ oldest = 0

-----------------------------------------------------------------------------
Says(plan) == tenant.active /\ tenant.plan = plan
Age(plan) == IF Says(plan) THEN 0 ELSE lookupClock - wasLast[plan]

AnswerWith(r, plan) ==
  /\ screen' = [screen EXCEPT ![r] = NoScreen]
  /\ oldest' = Max({oldest, Age(plan)})

\* Mutant of Expiry: the answer is kept until somebody removes it.
Never(now) == MaxLookupTime + KeptFor
Expiry(now) == now + KeptFor

Hit == kept.plan # "none" /\ lookupClock < kept.until

\* A read of Redis that fails is a miss.
LookupByOrgCode(r) ==
  /\ screen[r].at = "idle"
  /\ \/ Hit /\ AnswerWith(r, kept.plan)
     \/ screen' = [screen EXCEPT ![r] = [at |-> "read", plan |-> "none", since |-> lookupClock]] /\ UNCHANGED oldest
  /\ UNCHANGED <<lookupClock, tenant, wasLast, kept>>

\* Only a tenant that is active is found, and that nobody is found is not kept.
GetTenant(r) ==
  /\ screen[r].at = "read"
  /\ screen' = [screen EXCEPT ![r] = IF tenant.active THEN [@ EXCEPT !.at = "keep", !.plan = tenant.plan] ELSE NoScreen]
  /\ UNCHANGED <<lookupClock, tenant, wasLast, kept, oldest>>

\* The error of the write is ignored.
KeepAnswer(r) ==
  /\ screen[r].at = "keep"
  /\ kept' \in {kept, [plan |-> screen[r].plan, until |-> Expiry(lookupClock)]}
  /\ AnswerWith(r, screen[r].plan)
  /\ UNCHANGED <<lookupClock, tenant, wasLast>>

\* The platform's admins change plan and status, and what is kept stays.  UpdateBranding alone
\* would remove it, but no policy of the database lets a tenant's admin change the row.
ChangeTenant ==
  /\ tenant' \in [plan : Plans, active : BOOLEAN] /\ tenant' # tenant
  /\ wasLast' = IF tenant.active THEN [wasLast EXCEPT ![tenant.plan] = lookupClock] ELSE wasLast
  /\ UNCHANGED <<lookupClock, kept, screen, oldest>>

LookupTick ==
  /\ lookupClock < MaxLookupTime /\ lookupClock' = lookupClock + 1
  /\ \A r \in Screens : screen[r].at # "idle" => lookupClock < screen[r].since + LookupLag
  /\ UNCHANGED <<tenant, wasLast, kept, screen, oldest>>

LookupNext ==
  \/ \E r \in Screens : LookupByOrgCode(r) \/ GetTenant(r) \/ KeepAnswer(r)
  \/ ChangeTenant \/ LookupTick

LookupSpec == LookupInit /\ [][LookupNext]_lookupVars

-----------------------------------------------------------------------------
\* Whatever the order in which lookups read the row and write their answers, the login screen is
\* never told what has not been true for longer than an answer is kept and a lookup takes: a
\* suspended tenant disappears from it without anybody removing the answer (tenants/service.go:68-112).
AnswersAreRecent == oldest <= KeptFor + LookupLag
=============================================================================
