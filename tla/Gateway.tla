------------------------------ MODULE Gateway -------------------------------
(***************************************************************************)
(* The way of a request through the server: routes and the middleware of   *)
(* groups are tried in the order in which main registers them, the first   *)
(* route that matches answers, and a group's middleware runs for every     *)
(* path below its prefix that nothing registered earlier has answered.     *)
(* Guards read the token, refuse by role, and give the request the session *)
(* settings by which the policies of the database choose its rows.         *)
(***************************************************************************)
EXTENDS Naturals, Sequences, FiniteSets

CONSTANTS
  Ids,      \* what clients write for a parameter of a route
  Strays    \* what they write after /admin besides routes

VARIABLES
  request,   \* the request being served
  audits     \* whether it has been recorded in audit_logs

gatewayVars == <<request, audits>>

Roles == {"student", "instructor", "admin", "super_admin"}
Callers == Roles \cup {"none", "bad"}   \* what the token says, if there is one that is valid

-----------------------------------------------------------------------------
(* The table of main.  A path is a sequence of segments, of which the first, its root, is never *)
(* a parameter of a route and others may be, written ":"; routes next to each other with the    *)
(* same guards are one entry.                                                                   *)

Signed == <<"auth">>
InTenant == <<"auth", "tenant">>
Metered == <<"auth", "tenant", "rate">>
Trading == <<"auth", "tenant", "rate", "admin">>
Managing == <<"auth", "tenant", "admin">>
Teaching == <<"auth", "tenant", "staff">>
Learning == <<"auth", "tenant", "student">>
Platform == <<"auth", "super">>
NoGuards == <<>>

On(verb, prefix, tails, guards) ==
  <<[verb |-> verb, root |-> Head(prefix), paths |-> {Tail(prefix) \o t : t \in tails}, guards |-> guards]>>
At1(verb, prefix, guards) == On(verb, prefix, {<<>>}, guards)
Group(prefix, guards) == At1("USE", prefix, guards)

PublicRoutes ==
  On("GET", <<"public", "tenants", "by-code", ":">>, {<<>>}, <<"lookup">>)
  \o On("POST", <<"public">>, {<<"tenants", "onboard">>, <<"leads">>, <<"leads", ":", "booking-intent">>}, NoGuards)
  \o On("GET", <<"public">>, {<<"posts">>, <<"posts", ":">>, <<"faqs">>, <<"pages", ":">>}, NoGuards)
  \o At1("GET", <<"share", "courses", ":", "poster.png">>, NoGuards)

PurchaseRoutes ==
  At1("GET", <<"referrals", "me">>, Metered)
  \o At1("POST", <<"courses", ":", "buy">>, Metered \o <<"student">>)
  \o At1("POST", <<"payments", "verify">>, Metered)
  \o At1("GET", <<"bundles">>, Metered)
  \o At1("POST", <<"bundles", ":", "buy">>, Metered \o <<"student">>)
  \o At1("POST", <<"bundles", "verify">>, Metered)
  \o At1("GET", <<"admin", "leads">>, Platform)
  \o Group(<<"devices">>, Metered)
  \o At1("POST", <<"devices", "register">>, NoGuards) \o At1("DELETE", <<"devices", ":">>, NoGuards)
  \o Group(<<"coupons">>, Metered) \o At1("POST", <<"coupons", "apply">>, NoGuards)

CouponDesk ==
  Group(<<"admin", "coupons">>, Trading)
  \o On("POST", <<"admin", "coupons">>, {<<>>}, NoGuards) \o At1("GET", <<"admin", "coupons">>, NoGuards)
  \o At1("PATCH", <<"admin", "coupons", ":", "active">>, NoGuards) \o At1("DELETE", <<"admin", "coupons", ":">>, NoGuards)
MoneyDesk ==
  On("POST", <<"admin">>, {<<"users", "bulk-import">>, <<"refunds">>}, Trading)
  \o At1("GET", <<"admin", "payments">>, Trading)
BundleDesk ==
  Group(<<"admin", "bundles">>, Trading)
  \o At1("GET", <<"admin", "bundles">>, NoGuards) \o At1("POST", <<"admin", "bundles">>, NoGuards)
  \o At1("PATCH", <<"admin", "bundles", ":", "active">>, NoGuards) \o At1("DELETE", <<"admin", "bundles", ":">>, NoGuards)
ScheduleDesk ==
  Group(<<"admin", "class-schedules">>, Trading)
  \o At1("POST", <<"admin", "class-schedules">>, NoGuards) \o At1("GET", <<"admin", "class-schedules">>, NoGuards)
  \o At1("PATCH", <<"admin", "class-schedules", ":", "active">>, NoGuards)
  \o At1("DELETE", <<"admin", "class-schedules", ":">>, NoGuards)
ShopAdminRoutes ==
  CouponDesk \o MoneyDesk \o BundleDesk
  \o At1("POST", <<"admin", "notifications">>, Trading)
  \o At1("PATCH", <<"tests", ":", "publish">>, Metered \o <<"staff">>)
  \o ScheduleDesk

PlatformDesk ==
  Group(<<"admin", "platform">>, Platform)
  \o On("GET", <<"admin", "platform">>, {<<"stats">>, <<"audit">>, <<"tenants">>, <<"tenants", ":", "features">>,
        <<"tenants", ":", "build-config">>, <<"builds">>}, NoGuards)
  \o On("POST", <<"admin", "platform">>, {<<"tenants", ":", "suspend">>, <<"tenants", ":", "reactivate">>,
        <<"tenants", ":", "impersonate">>, <<"tenants", ":", "razorpay", "create">>, <<"tenants", ":", "build">>,
        <<"whatsapp", "broadcast">>}, NoGuards)
  \o On("PUT", <<"admin", "platform", "tenants", ":">>, {<<"plan">>, <<"features">>, <<"razorpay">>, <<"domain">>}, NoGuards)
  \o At1("PATCH", <<"admin", "platform", "builds", ":">>, NoGuards)
CmsDesk ==
  Group(<<"admin", "cms">>, Platform)
  \o On("GET", <<"admin", "cms">>, {<<"posts">>, <<"faqs">>, <<"pages">>, <<"pages", ":">>}, NoGuards)
  \o On("POST", <<"admin", "cms">>, {<<"posts">>, <<"faqs">>}, NoGuards)
  \o On("PATCH", <<"admin", "cms">>, {<<"posts", ":">>, <<"faqs", ":">>}, NoGuards)
  \o On("DELETE", <<"admin", "cms">>, {<<"posts", ":">>, <<"faqs", ":">>}, NoGuards)
  \o At1("PUT", <<"admin", "cms", "pages", ":">>, NoGuards)
PlatformRoutes ==
  At1("POST", <<"webhooks", "razorpay">>, NoGuards)
  \o Group(<<"tenants">>, Metered)
  \o On("GET", <<"tenants", "me">>, {<<>>, <<"features">>}, NoGuards)
  \o At1("PUT", <<"tenants", "me", "branding">>, <<"admin">>)
  \o At1("POST", <<"admin", "tenants">>, Platform)
  \o PlatformDesk
  \o At1("POST", <<"webhooks", "codemagic">>, NoGuards)
  \o At1("PATCH", <<"admin", "leads", ":">>, Platform)
  \o CmsDesk

AccountRoutes ==
  On("POST", <<"auth">>, {<<"register", "student">>, <<"register", "instructor">>, <<"otp", "send">>,
     <<"otp", "verify">>, <<"google">>}, <<"lookup">>)
  \o On("POST", <<"auth">>, {<<"login">>, <<"refresh">>, <<"forgot-password">>, <<"reset-password">>,
        <<"verify-email">>}, NoGuards)
  \o On("POST", <<"auth">>, {<<"logout">>, <<"verify-email", "start">>}, Signed)
  \o At1("GET", <<"auth", "me">>, InTenant)
  \o At1("POST", <<"auth", "register", "admin">>, <<"auth", "admin", "tenant">>)
  \o On("POST", <<"auth", "link">>, {<<"phone">>, <<"google">>}, InTenant)
  \o Group(<<"users">>, InTenant)
  \o At1("GET", <<"users", "profile">>, NoGuards) \o At1("PUT", <<"users", "profile">>, NoGuards)
  \o At1("POST", <<"users", "me", "onboarding">>, NoGuards) \o At1("GET", <<"users">>, <<"admin">>)
  \o At1("GET", <<"streams", "live">>, NoGuards) \o At1("GET", <<"streams", ":">>, <<"optional">>)
  \o On("POST", <<"streams">>, {<<>>, <<":", "start">>, <<":", "end">>}, Teaching)
  \o At1("GET", <<"recordings", "my">>, Teaching) \o At1("POST", <<"recordings", "upload">>, Teaching)
  \o On("GET", <<"recordings">>, {<<":">>, <<":", "url">>, <<"stream", ":">>}, Learning)
  \o At1("GET", <<"chat", "ws", ":">>, NoGuards)
  \o At1("POST", <<"chat", ":", "send">>, InTenant) \o At1("GET", <<"chat", ":", "history">>, InTenant)

\* A resource that everybody may read and staff may change.
Resource(name, reads, deleters) ==
  On("GET", <<name>>, reads, NoGuards) \o At1("POST", <<name>>, Teaching)
  \o At1("PUT", <<name, ":">>, Teaching) \o At1("DELETE", <<name, ":">>, deleters)

CourseRoutes ==
  At1("GET", <<"exam-categories">>, NoGuards)
  \o On("POST", <<"exam-categories">>, {<<>>}, <<"auth", "admin">>)
  \o At1("PUT", <<"exam-categories", ":">>, <<"auth", "admin">>)
  \o At1("DELETE", <<"exam-categories", ":">>, <<"auth", "admin">>)
  \o Resource("courses", {<<>>, <<":">>}, Managing)
  \o At1("GET", <<"batches", "course", ":">>, NoGuards) \o At1("GET", <<"batches", "my">>, Teaching)
  \o Resource("batches", {<<":">>}, Managing)
  \o Group(<<"enrollments">>, InTenant)
  \o At1("POST", <<"enrollments">>, NoGuards) \o At1("GET", <<"enrollments", "my">>, NoGuards)
  \o At1("DELETE", <<"enrollments", ":">>, NoGuards)
  \o At1("GET", <<"courses", ":", "enrollments">>, Metered \o <<"staff">>)
  \o At1("POST", <<"admin", "enrollments">>, Trading)
  \o Resource("subjects", {<<"course", ":">>, <<":">>}, Teaching)
  \o Resource("chapters", {<<"subject", ":">>, <<":">>}, Teaching)
  \o Resource("topics", {<<"chapter", ":">>, <<":">>}, Teaching)
  \o Resource("lectures", {<<>>, <<":">>}, Teaching)
  \o At1("POST", <<"lectures", "watch">>, InTenant) \o At1("GET", <<"lectures", "history", "my">>, InTenant)
  \o At1("POST", <<"uploads">>, <<"auth", "staff">>)
  \o At1("POST", <<"materials", "upload">>, Teaching)
  \o On("GET", <<"materials">>, {<<"chapter", ":">>, <<"topic", ":">>, <<":">>}, NoGuards)
  \o At1("GET", <<"materials", ":", "download">>, InTenant) \o At1("DELETE", <<"materials", ":">>, Teaching)

TestRoutes ==
  At1("GET", <<"tests">>, NoGuards) \o At1("GET", <<"tests", ":">>, InTenant)
  \o On("POST", <<"tests">>, {<<>>, <<"questions">>}, Teaching) \o At1("PUT", <<"tests", ":">>, Teaching)
  \o On("DELETE", <<"tests">>, {<<":">>, <<"questions", ":">>}, Teaching)
  \o On("POST", <<"tests">>, {<<":", "attempts">>, <<"attempts", "answer">>, <<"attempts", ":", "submit">>}, InTenant)
  \o On("GET", <<"tests", "attempts">>, {<<"my">>, <<":">>}, InTenant)
  \o Group(<<"doubts">>, InTenant)
  \o At1("POST", <<"doubts">>, NoGuards) \o At1("GET", <<"doubts", "my">>, NoGuards)
  \o At1("GET", <<"doubts", "pending">>, <<"staff">>)
  \o On("GET", <<"doubts">>, {<<"lecture", ":">>, <<":">>}, NoGuards)
  \o At1("POST", <<"doubts", "answer">>, <<"staff">>) \o At1("POST", <<"doubts", "answers", ":", "accept">>, NoGuards)
  \o At1("DELETE", <<"doubts", ":">>, NoGuards)
  \o At1("GET", <<"subscriptions", "plans">>, NoGuards) \o At1("POST", <<"subscriptions", "plans">>, Managing)
  \o On("POST", <<"subscriptions">>, {<<"checkout">>, <<"verify">>, <<":", "cancel">>}, InTenant)
  \o On("GET", <<"subscriptions">>, {<<"me">>, <<"history">>}, InTenant)
  \o At1("POST", <<"subscriptions", "webhook">>, NoGuards)
  \o Group(<<"analytics">>, InTenant)
  \o On("GET", <<"analytics">>, {<<"me">>, <<"weak-topics">>, <<"difficulty">>, <<"recent-attempts">>}, NoGuards)
  \o At1("GET", <<"analytics", "tenant", "dashboard">>, <<"tenant", "rate", "admin">>)
  \o At1("GET", <<"search">>, NoGuards) \o At1("GET", <<"banners">>, NoGuards)
  \o At1("POST", <<"downloads", "variants">>, Teaching)
  \o At1("GET", <<"downloads", "lectures", ":", "variants">>, NoGuards)
  \o At1("POST", <<"downloads", "token">>, InTenant) \o At1("GET", <<"downloads", "fetch">>, NoGuards)

ClassroomRoutes ==
  Group(<<"attendance">>, InTenant)
  \o At1("POST", <<"attendance", "auto">>, NoGuards)
  \o On("POST", <<"attendance">>, {<<"manual">>, <<"lecture", ":", "bulk">>}, <<"staff">>)
  \o On("GET", <<"attendance">>, {<<"lecture", ":">>, <<"low">>, <<"batch", ":", "export">>}, <<"staff">>)
  \o On("GET", <<"attendance", "my">>, {<<>>, <<"stats">>, <<"subjects">>, <<"monthly">>}, NoGuards)
  \o At1("POST", <<"attendance", "qr", ":">>, <<"staff">>)
  \o At1("POST", <<"attendance", "qr", "check-in">>, NoGuards)
  \o At1("POST", <<"assignments">>, Teaching) \o At1("GET", <<"assignments", "mine">>, Teaching)
  \o At1("GET", <<"assignments", "my-submissions">>, InTenant) \o At1("POST", <<"assignments", "submit">>, InTenant)
  \o At1("POST", <<"assignments", "submissions", ":", "grade">>, Teaching)
  \o On("GET", <<"assignments">>, {<<"batch", ":">>, <<"course", ":">>, <<":">>}, InTenant)
  \o At1("PUT", <<"assignments", ":">>, Teaching) \o At1("DELETE", <<"assignments", ":">>, Teaching)
  \o At1("GET", <<"assignments", ":", "submissions">>, Teaching)
  \o At1("GET", <<"assignments", ":", "my-submission">>, InTenant)
  \o Group(<<"notifications">>, InTenant)
  \o On("GET", <<"notifications">>, {<<>>, <<"unread-count">>}, NoGuards)
  \o On("POST", <<"notifications">>, {<<"read-all">>, <<":", "read">>}, NoGuards)
  \o At1("DELETE", <<"notifications", ":">>, NoGuards)
  \o On("GET", <<"announcements">>, {<<>>, <<"batch", ":">>, <<"course", ":">>}, NoGuards)
  \o At1("POST", <<"announcements">>, Teaching) \o At1("DELETE", <<"announcements", ":">>, Managing)
  \o Group(<<"fees">>, InTenant)
  \o On("POST", <<"fees">>, {<<"structures">>, <<"assign">>}, <<"admin">>)
  \o On("GET", <<"fees">>, {<<"structures", "course", ":">>, <<"my">>, <<":", "installments">>}, NoGuards)
  \o On("GET", <<"fees">>, {<<"pending">>, <<"installments", "overdue">>, <<"revenue">>}, <<"admin">>)
  \o On("POST", <<"fees", "installments">>, {<<"pay">>, <<"verify">>}, NoGuards)
  \o Group(<<"bookmarks">>, InTenant)
  \o At1("POST", <<"bookmarks">>, NoGuards) \o On("GET", <<"bookmarks">>, {<<>>, <<"lecture", ":">>}, NoGuards)
  \o At1("DELETE", <<"bookmarks", ":">>, NoGuards)

\* The group of the tenant's admins comes last, and its audit after its routes.
AdminRoutes ==
  Group(<<"admin">>, Managing)
  \o On("GET", <<"admin">>, {<<"dashboard">>, <<"users">>, <<"users", "export">>, <<"attendance", "batches">>,
        <<"courses", "pending">>, <<"audit">>, <<"banners">>}, NoGuards)
  \o On("PUT", <<"admin">>, {<<"users", ":">>, <<"banners", ":">>}, NoGuards)
  \o On("POST", <<"admin">>, {<<"users", ":", "role">>, <<"users", ":", "active">>, <<"users", ":", "password">>,
        <<"courses", ":", "approve">>, <<"courses", ":", "reject">>, <<"notifications", "send">>, <<"banners">>,
        <<"banners", ":", "active">>}, NoGuards)
  \o On("DELETE", <<"admin">>, {<<"users", ":">>, <<"banners", ":">>}, NoGuards)
  \o Group(<<"admin">>, <<"audit">>)
RtmpRoutes ==
  On("GET", <<"rtmp">>, {<<"auth">>, <<"done">>, <<"record-done">>}, NoGuards)
  \o On("POST", <<"rtmp">>, {<<"auth">>, <<"done">>, <<"record-done">>}, NoGuards)

\* Mutant of Table: the group of the tenant's admins is registered with the shop's.
AdminFirst ==
  PublicRoutes \o PurchaseRoutes \o ShopAdminRoutes \o AdminRoutes \o PlatformRoutes \o AccountRoutes \o CourseRoutes
  \o TestRoutes \o ClassroomRoutes \o RtmpRoutes
Table ==
  PublicRoutes \o PurchaseRoutes \o ShopAdminRoutes \o PlatformRoutes \o AccountRoutes \o CourseRoutes
  \o TestRoutes \o ClassroomRoutes \o AdminRoutes \o RtmpRoutes

Routes == {i \in DOMAIN Table : Table[i].verb # "USE"}

-----------------------------------------------------------------------------
(* Matching *)

MatchesHere(pattern, path) == \A k \in DOMAIN pattern : pattern[k] \in {":", path[k]}
Answers(i, verb, root, path) ==
  /\ Table[i].root = root
  /\ \E pattern \in Table[i].paths :
       IF Table[i].verb = "USE"
       THEN Len(pattern) <= Len(path) /\ MatchesHere(pattern, path)
       ELSE Table[i].verb = verb /\ Len(pattern) = Len(path) /\ MatchesHere(pattern, path)

\* The entry tried after entry i, or 0.
NextEntry(i, verb, root, path) ==
  LET left == {j \in DOMAIN Table : j > i /\ Answers(j, verb, root, path)}
  IN IF left = {} THEN 0 ELSE CHOOSE j \in left : \A k \in left : j <= k

-----------------------------------------------------------------------------
(* A request *)

Filled(pattern, id) == [k \in DOMAIN pattern |-> IF pattern[k] = ":" THEN id ELSE pattern[k]]

Fresh(who, verb, root, path, aim) ==
  [who |-> who, verb |-> verb, root |-> root, path |-> path, aim |-> aim, entry |-> 0, guards |-> <<>>,
   role |-> "none", session |-> "none", audited |-> FALSE, status |-> "walking"]
NoRequest == [Fresh("none", "GET", "none", <<>>, 0) EXCEPT !.status = "idle"]

GatewayTypeOK ==
  /\ request.who \in Callers /\ request.role \in Roles \cup {"none"}
  /\ request.session \in {"none", "tenant", "super", "lookup"}
  /\ request.status \in {"idle", "walking", "guarded", "refused", "throttled", "handled", "missing"}
  /\ audits \in BOOLEAN

GatewayInit == request = NoRequest /\ audits = FALSE

\* Somebody uses a route, or any path below /admin.
Arrives(who) ==
  /\ request.status = "idle"
  /\ \/ \E i \in Routes : \E pattern \in Table[i].paths, id \in Ids :
          request' = Fresh(who, Table[i].verb, Table[i].root, Filled(pattern, id), i)
     \/ \E verb \in {"GET", "POST"}, path \in Strays : request' = Fresh(who, verb, "admin", path, 0)
  /\ UNCHANGED audits

\* c.Next: the next entry that matches.
Walk ==
  /\ request.status = "walking"
  /\ LET i == NextEntry(request.entry, request.verb, request.root, request.path) IN
       request' = IF i = 0 THEN [request EXCEPT !.status = "missing"]
                  ELSE [request EXCEPT !.entry = i, !.guards = Table[i].guards, !.status = "guarded"]
  /\ UNCHANGED audits

Guard(g) == request.status = "guarded" /\ request.guards # <<>> /\ Head(request.guards) = g
Passed == [request EXCEPT !.guards = Tail(@)]
Refused == [request EXCEPT !.status = "refused"]

AuthMiddleware ==
  /\ Guard("auth")
  /\ request' = IF request.who \in Roles THEN [Passed EXCEPT !.role = request.who] ELSE Refused
  /\ UNCHANGED audits
\* A token that is missing or not valid is no reason to refuse.
OptionalAuthMiddleware ==
  /\ Guard("optional")
  /\ request' = IF request.who \in Roles THEN [Passed EXCEPT !.role = request.who] ELSE Passed
  /\ UNCHANGED audits

Allowed == [admin |-> {"admin"}, staff |-> {"instructor", "admin"}, student |-> {"student", "instructor", "admin"}]
RoleMiddleware ==
  /\ \E kind \in DOMAIN Allowed :
       Guard(kind) /\ request' = IF request.role \in Allowed[kind] THEN Passed ELSE Refused
  /\ UNCHANGED audits

\* Every account has a tenant, and so has every token.
TenantContext ==
  /\ Guard("tenant")
  /\ request' = IF request.role = "none" THEN Refused ELSE [Passed EXCEPT !.session = "tenant"]
  /\ UNCHANGED audits
SuperAdminContext ==
  /\ Guard("super")
  /\ request' = IF request.role = "super_admin" THEN [Passed EXCEPT !.session = "super"] ELSE Refused
  /\ UNCHANGED audits
PublicLookupContext ==
  /\ Guard("lookup")
  /\ request' = [Passed EXCEPT !.session = "lookup"]
  /\ UNCHANGED audits

\* The bucket of the tenant may be empty, see TokenBucket.
TenantRateLimit ==
  /\ Guard("rate")
  /\ request' \in {Passed, [request EXCEPT !.status = "throttled"]}
  /\ UNCHANGED audits

\* Audit lets the request through and looks at it again when it comes back.
Audit ==
  /\ Guard("audit")
  /\ request' = [Passed EXCEPT !.audited = TRUE]
  /\ UNCHANGED audits
Changing == {"POST", "PUT", "DELETE", "PATCH"}
ToRecord == request.audited /\ request.verb \in Changing /\ request.role # "none"
AuditReturns ==
  /\ request.status \in {"missing", "handled"} /\ ToRecord
  /\ audits' = TRUE /\ request' = [request EXCEPT !.audited = FALSE]
\* The answer is sent.
Answer ==
  /\ request.status \in {"refused", "throttled", "handled", "missing"} /\ ~ToRecord
  /\ request' = NoRequest /\ audits' = FALSE

\* Behind the last guard of a route is its handler, behind that of a group the next entry.
Through ==
  /\ request.status = "guarded" /\ request.guards = <<>>
  /\ request' = [request EXCEPT !.status = IF Table[request.entry].verb = "USE" THEN "walking" ELSE "handled"]
  /\ UNCHANGED audits

GatewayNext ==
  \/ \E who \in Callers : Arrives(who)
  \/ Walk \/ Through \/ AuthMiddleware \/ OptionalAuthMiddleware \/ RoleMiddleware \/ TenantContext
  \/ SuperAdminContext \/ PublicLookupContext \/ TenantRateLimit \/ Audit \/ AuditReturns \/ Answer

GatewaySpec == GatewayInit /\ [][GatewayNext]_gatewayVars

-----------------------------------------------------------------------------
InAdmin == request.root = "admin"
Below(word) == InAdmin /\ Len(request.path) > 0 /\ request.path[1] = word

\* Whoever reaches a handler below /admin is staff of the tenant, or of the platform where the
\* routes are the platform's, with the session that goes with it; and nothing that lies on the way
\* to a route of /admin/platform refuses platform staff, which depends on the order of registration
\* (main.go:331-962).
AdminDoors ==
  /\ request.status = "handled" /\ InAdmin
       => \/ request.who = "admin" /\ request.session = "tenant" /\ ~Below("platform") /\ ~Below("cms")
          \/ request.who = "super_admin" /\ request.session = "super"
  /\ request.who = "super_admin" /\ request.aim # 0 /\ Below("platform") => request.status # "refused"
=============================================================================
