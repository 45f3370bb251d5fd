------------------------------- MODULE Tenancy -------------------------------
(***************************************************************************)
(* The tenants: a coaching centre that onboards itself from the public     *)
(* form, and the super admins who create tenants, suspend them, change     *)
(* their plan, their features and their domain.                            *)
(*                                                                         *)
(* Onboarding is a sequence of statements on one connection in no          *)
(* transaction, some of whose errors are ignored: other onboardings run in *)
(* between, and the server may stop between any two of them.               *)
(***************************************************************************)
EXTENDS Integers, FiniteSets

CONSTANTS
  TenantIds,    \* rows of tenants there is room for
  Names,        \* names of coaching centres
  OrgCodes,     \* codes the prefix of a name and four digits can give
  Onboardings,  \* requests in flight at one time
  Domains,
  MaxBreaks     \* bound of the run: statements that fail, and crashes

ASSUME TenancyAssumptions == MaxBreaks \in Nat

VARIABLES
  tenants,
  onboarding,  \* where each onboarding is, and what it has allocated
  breaks

tenancyVars == <<tenants, onboarding, breaks>>

TenantStatuses == {"active", "trial", "suspended"}
NoTenant == [status |-> "none", code |-> "none", slug |-> <<"none", 0>>,
             admin |-> FALSE, member |-> FALSE, features |-> FALSE, owner |-> FALSE,
             domain |-> "none", welcomed |-> FALSE, decided |-> FALSE, missed |-> {}]
\* The statements of an onboarding whose errors are ignored.
Ignored == {"member", "features", "plan"}
NoOnboarding == [at |-> "idle", code |-> "none", slug |-> <<"none", 0>>, tenant |-> "none"]

TenancyTypeOK ==
  \* welcomed: the form was answered with the org code; decided: a super admin has acted;
  \* missed: statements of its onboarding that have failed
  /\ tenants \in [TenantIds -> [status : TenantStatuses \cup {"none"},
                                code : OrgCodes \cup {"none"}, slug : (Names \cup {"none"}) \X {0, 1},
                                admin : BOOLEAN, member : BOOLEAN, features : BOOLEAN, owner : BOOLEAN,
                                domain : Domains \cup {"none"},
                                welcomed : BOOLEAN, decided : BOOLEAN, missed : SUBSET Ignored]]
  /\ onboarding \in [Onboardings -> [at : {"idle", "tenant", "admin", "member", "features", "plan", "answer"},
                                     code : OrgCodes \cup {"none"}, slug : (Names \cup {"none"}) \X {0, 1},
                                     tenant : TenantIds \cup {"none"}]]
  /\ breaks \in 0 .. MaxBreaks

TenancyInit ==
  /\ tenants = [t \in TenantIds |-> NoTenant]
  /\ onboarding = [o \in Onboardings |-> NoOnboarding]
  /\ breaks = 0

-----------------------------------------------------------------------------
Rows == {t \in TenantIds : tenants[t].status # "none"}
Active == {t \in TenantIds : tenants[t].status = "active"}

\* The queries see active tenants only, the unique indexes all of them.
GetTenantByOrgCode(c) == {t \in Active : tenants[t].code = c}
GetTenantBySlug(s) == {t \in Active : tenants[t].slug = s}
Unique(c, s) == \A t \in Rows : tenants[t].code # c /\ tenants[t].slug # s

Break == breaks < MaxBreaks /\ breaks' = breaks + 1
NoBreak == UNCHANGED breaks

\* A new row, active until something says otherwise.
CreateTenant(t, c, s, owned) ==
  [tenants EXCEPT ![t] = [NoTenant EXCEPT !.status = "active", !.code = c,
                            !.slug = s, !.owner = owned]]

-----------------------------------------------------------------------------
(* POST /tenants/onboard *)

\* allocOrgCode and allocSlug: a code no query finds, and the slug of the name, or with a
\* suffix when a query finds that.
Allocate(o, name, c, s) ==
  /\ onboarding[o].at = "idle"
  /\ GetTenantByOrgCode(c) = {} /\ GetTenantBySlug(s) = {}
  /\ s = <<name, 0>> \/ (s = <<name, 1>> /\ GetTenantBySlug(<<name, 0>>) # {})
  /\ onboarding' = [onboarding EXCEPT ![o] = [NoOnboarding EXCEPT !.at = "tenant", !.code = c, !.slug = s]]
  /\ UNCHANGED <<tenants, breaks>>

InsertTenant(o) ==
  /\ onboarding[o].at = "tenant"
  /\ IF Unique(onboarding[o].code, onboarding[o].slug)
     THEN \E t \in TenantIds \ Rows :
            /\ tenants' = CreateTenant(t, onboarding[o].code, onboarding[o].slug, FALSE)
            /\ onboarding' = [onboarding EXCEPT ![o].at = "admin", ![o].tenant = t]
     ELSE UNCHANGED tenants /\ onboarding' = [onboarding EXCEPT ![o] = NoOnboarding]
  /\ UNCHANGED breaks

\* A statement of the onboarding that sets one field of the row, or fails; an error that is
\* ignored goes on, the other one is the answer.
Statement(o, at, next, row) ==
  /\ onboarding[o].at = at
  /\ \/ /\ NoBreak /\ tenants' = [tenants EXCEPT ![onboarding[o].tenant] = row]
        /\ onboarding' = [onboarding EXCEPT ![o].at = next]
     \/ /\ Break /\ at \in Ignored
        /\ tenants' = [tenants EXCEPT ![onboarding[o].tenant].missed = @ \cup {at}]
        /\ onboarding' = [onboarding EXCEPT ![o].at = next]
     \/ /\ Break /\ at \notin Ignored
        /\ onboarding' = [onboarding EXCEPT ![o] = NoOnboarding]
        /\ UNCHANGED tenants

Row(o) == tenants[onboarding[o].tenant]
CreateAdmin(o) == Statement(o, "admin", "member", [Row(o) EXCEPT !.admin = TRUE])
AddTenantUser(o) == Statement(o, "member", "features", [Row(o) EXCEPT !.member = TRUE])
UpsertTenantFeatures(o) == Statement(o, "features", "plan", [Row(o) EXCEPT !.features = TRUE])
StartTrial(o) == Statement(o, "plan", "answer", [Row(o) EXCEPT !.status = "trial"])

\* Mutant of Welcome: the form is answered as soon as the admin exists.
WelcomeEarly(o) ==
  /\ onboarding[o].at \in {"member", "answer"}
  /\ tenants' = [tenants EXCEPT ![onboarding[o].tenant].welcomed = TRUE]
  /\ onboarding' = [onboarding EXCEPT ![o] = NoOnboarding]
  /\ UNCHANGED breaks

\* The answer: "your org code is ..., log in here".
Welcome(o) ==
  /\ onboarding[o].at = "answer"
  /\ tenants' = [tenants EXCEPT ![onboarding[o].tenant].welcomed = TRUE]
  /\ onboarding' = [onboarding EXCEPT ![o] = NoOnboarding]
  /\ UNCHANGED breaks

Crash(o) ==
  /\ onboarding[o].at # "idle" /\ Break
  /\ onboarding' = [onboarding EXCEPT ![o] = NoOnboarding]
  /\ UNCHANGED tenants

-----------------------------------------------------------------------------
(* The super admins *)

\* POST /tenants: owned by the super admin who asks.
Create(t, c, s) ==
  /\ t \notin Rows /\ Unique(c, s)
  /\ tenants' = [CreateTenant(t, c, s, TRUE) EXCEPT ![t].features = TRUE, ![t].decided = TRUE]
  /\ UNCHANGED <<onboarding, breaks>>

\* UpdateTenantPlan with any status, and with it Suspend and Reactivate: what the status was
\* makes no difference.
UpdateTenantPlan(t, status) ==
  /\ t \in Rows
  /\ tenants' = [tenants EXCEPT ![t].status = status, ![t].decided = TRUE]
  /\ UNCHANGED <<onboarding, breaks>>

\* The flags are replaced by those of the body, whether or not a row had them.
SetFeatures(t) ==
  /\ t \in Rows
  /\ tenants' = [tenants EXCEPT ![t].features = TRUE]
  /\ UNCHANGED <<onboarding, breaks>>

\* The unique index refuses a domain another tenant has; "none" detaches.
SetCustomDomain(t, d) ==
  /\ t \in Rows /\ \A u \in Rows \ {t} : d = "none" \/ tenants[u].domain # d
  /\ tenants' = [tenants EXCEPT ![t].domain = d]
  /\ UNCHANGED <<onboarding, breaks>>

-----------------------------------------------------------------------------
\* The routes: a form without its fields, an id or a body that cannot be read, change nothing.
SelfServeOnboard ==
  \E o \in Onboardings, name \in Names, c \in OrgCodes, i \in {0, 1} : Allocate(o, name, c, <<name, i>>)
HandleCreateTenant ==
  \E t \in TenantIds, name \in Names, c \in OrgCodes, i \in {0, 1} : Create(t, c, <<name, i>>)
Suspend == \E t \in TenantIds : UpdateTenantPlan(t, "suspended")
Reactivate == \E t \in TenantIds : UpdateTenantPlan(t, "active")
\* A plan without a status makes the tenant active.
UpdatePlan == \E t \in TenantIds, status \in TenantStatuses : UpdateTenantPlan(t, status)
HandleSetFeatures == \E t \in TenantIds : SetFeatures(t)
HandleSetCustomDomain == \E t \in TenantIds, d \in Domains \cup {"none"} : SetCustomDomain(t, d)

TenancyNext ==
  \/ SelfServeOnboard
  \/ \E o \in Onboardings :
       \/ InsertTenant(o) \/ CreateAdmin(o) \/ AddTenantUser(o) \/ UpsertTenantFeatures(o)
       \/ StartTrial(o) \/ Welcome(o) \/ Crash(o)
  \/ HandleCreateTenant \/ Suspend \/ Reactivate \/ UpdatePlan \/ HandleSetCustomDomain
  \/ HandleSetFeatures

TenancySpec == TenancyInit /\ [][TenancyNext]_tenancyVars

-----------------------------------------------------------------------------
\* Signing in starts with the org code (auth/service.go:99-108).
CanSignIn(t) == tenants[t].admin /\ t \in GetTenantByOrgCode(tenants[t].code)

\* No order of two onboardings and no decision taken while one runs leaves half a tenant behind a
\* welcome: whoever has been welcomed has a tenant with an admin, and what else it lacks is only what
\* a statement of its own onboarding should have set whose error was ignored
\* (tenants/service.go:278-292).  Until a super admin decides on it the tenant is on trial.  The
\* welcome says to log in (tenants/service.go:299), and the admin of a tenant on trial cannot: login
\* finds active tenants only (sql/queries/tenants.sql:10), so that before anybody decides the only
\* ones who get in are those whose trial failed to begin.
WelcomedAreComplete ==
  \A t \in Rows : tenants[t].welcomed =>
    /\ tenants[t].admin
    /\ tenants[t].member \/ "member" \in tenants[t].missed
    /\ tenants[t].features \/ "features" \in tenants[t].missed
    /\ ~tenants[t].decided =>
         IF "plan" \in tenants[t].missed THEN CanSignIn(t) ELSE tenants[t].status = "trial" /\ ~CanSignIn(t)
=============================================================================
