------------------------------ MODULE RlsPool ------------------------------
(***************************************************************************)
(* The connection pool every request shares, and row-level security, which *)
(* is all that keeps tenants apart.  A policy looks at settings of the     *)
(* SESSION, and sessions outlive requests: the pool's BeforeAcquire hook   *)
(* sets them again from the context of each call.                          *)
(*                                                                         *)
(* A request first passes CustomDomain, which takes a connection for a     *)
(* lookup by host name and gives it back when the request is over; then a  *)
(* middleware attaches the context, and the handler's queries take one     *)
(* connection after another.                                               *)
(***************************************************************************)
EXTENDS Naturals

CONSTANTS
  Tenants,
  Conns,      \* the pool: DB_MAX_CONNS connections
  Requests,   \* requests in flight
  Rows,       \* rows of the tenant-scoped tables
  NoTenant, NoConn

ASSUME PoolAssumptions == NoTenant \notin Tenants /\ NoConn \notin Conns /\ Rows \cap Tenants = {}

VARIABLES
  guc,      \* app.tenant_id, app.is_super_admin, app.is_public_lookup of each session
  held,     \* the connections a request has taken
  conn,     \* the one its current query or transaction uses
  pc, kind,
  ctx,      \* the values its context carries
  owner,    \* tenant_id of every row; NoTenant before it is inserted
  touched   \* rows and tenant records the handler has read or written

reqVars == <<pc, kind, ctx>>
vars == <<guc, held, conn, reqVars, owner, touched>>

Kinds == {"tenant", "super", "lookup", "open", "onboard"}
Contexts == [tenant : Tenants \cup {NoTenant}, super : BOOLEAN, lookup : BOOLEAN]

\* What context.Background() carries, and a new session has.
Blank == [tenant |-> NoTenant, super |-> FALSE, lookup |-> FALSE]

TypeOK ==
  /\ guc \in [Conns -> Contexts]
  /\ held \in [Requests -> SUBSET Conns]
  /\ conn \in [Requests -> Conns \cup {NoConn}]
  /\ pc \in [Requests -> {"idle", "arrive", "route", "run", "wait", "hold"}]
  /\ \A r \in Requests : pc[r] = "hold" <=> conn[r] # NoConn
  /\ kind \in [Requests -> Kinds]
  /\ ctx \in [Requests -> Contexts]
  /\ owner \in [Rows -> Tenants \cup {NoTenant}]
  /\ touched \in [Requests -> SUBSET (Rows \cup Tenants)]

Init ==
  /\ guc = [c \in Conns |-> Blank]
  /\ held = [r \in Requests |-> {}]
  /\ conn = [r \in Requests |-> NoConn]
  /\ pc = [r \in Requests |-> "idle"]
  /\ kind = [r \in Requests |-> "open"]
  /\ ctx = [r \in Requests |-> Blank]
  /\ owner = [x \in Rows |-> NoTenant]
  /\ touched = [r \in Requests |-> {}]

-----------------------------------------------------------------------------
(* The pool *)

Free(c) == \A r \in Requests : c \notin held[r]

\* Mutant of BeforeAcquire: what the context does not carry is not cleared.
BeforeAcquireKeeping(c, k) ==
  [tenant |-> IF k.tenant = NoTenant THEN guc[c].tenant ELSE k.tenant,
   super |-> k.super \/ guc[c].super,
   lookup |-> k.lookup \/ guc[c].lookup]

\* The settings of session c once the hook has run for a call with context k.
BeforeAcquire(c, k) == k

\* A connection reaches its age limit, or the hook fails on it: the pool closes it and
\* opens another.
Reconnect(c) ==
  /\ Free(c)
  /\ guc' = [guc EXCEPT ![c] = Blank]
  /\ UNCHANGED <<held, conn, reqVars, owner, touched>>

-----------------------------------------------------------------------------
(* The chain of middleware *)

Arrive(r) ==
  /\ pc[r] = "idle"
  /\ pc' = [pc EXCEPT ![r] = "arrive"]
  /\ UNCHANGED <<guc, held, conn, kind, ctx, owner, touched>>

\* The connection is released by a defer: after the rest of the chain.
CustomDomain(r, c) ==
  /\ pc[r] = "arrive" /\ Free(c)
  /\ held' = [held EXCEPT ![r] = {c}]
  /\ guc' = [guc EXCEPT ![c] = [BeforeAcquire(c, Blank) EXCEPT !.lookup = TRUE]]
  /\ pc' = [pc EXCEPT ![r] = "route"]
  /\ UNCHANGED <<conn, kind, ctx, owner, touched>>

\* The request names no host, or the pool gives an error: it goes on without a lookup.
SkipCustomDomain(r) ==
  /\ pc[r] = "arrive"
  /\ pc' = [pc EXCEPT ![r] = "route"]
  /\ UNCHANGED <<guc, held, conn, kind, ctx, owner, touched>>

\* The request reaches its handler as one of kind k with context x.
Route(r, k, x) ==
  /\ pc[r] = "route"
  /\ pc' = [pc EXCEPT ![r] = "run"]
  /\ kind' = [kind EXCEPT ![r] = k]
  /\ ctx' = [ctx EXCEPT ![r] = x]
  /\ UNCHANGED <<guc, held, conn, owner, touched>>

TenantContext(r, t) == Route(r, "tenant", [Blank EXCEPT !.tenant = t])
SuperAdminContext(r) == Route(r, "super", [Blank EXCEPT !.super = TRUE])
PublicLookupContext(r) == Route(r, "lookup", [Blank EXCEPT !.lookup = TRUE])

\* A route without such a middleware, or a handler that uses context.Background().
NoContext(r) == Route(r, "open", Blank)
Onboard(r) == Route(r, "onboard", Blank)

Finish(r) ==
  /\ pc[r] = "run"
  /\ pc' = [pc EXCEPT ![r] = "idle"]
  /\ held' = [held EXCEPT ![r] = {}]
  /\ kind' = [kind EXCEPT ![r] = "open"]
  /\ ctx' = [ctx EXCEPT ![r] = Blank]
  /\ touched' = [touched EXCEPT ![r] = {}]
  /\ UNCHANGED <<guc, conn, owner>>

-----------------------------------------------------------------------------
(* The handler *)

\* A sign-in that has found the tenant of an org code goes on as that tenant.
WithTenant(r, t) ==
  /\ pc[r] = "run" /\ kind[r] = "lookup"
  /\ ctx[r].tenant = NoTenant /\ t \in touched[r]
  /\ ctx' = [ctx EXCEPT ![r].tenant = t]
  /\ UNCHANGED <<guc, held, conn, pc, kind, owner, touched>>

\* A query, or a transaction, asks the pool for a connection.
Ask(r) ==
  /\ pc[r] = "run"
  /\ pc' = [pc EXCEPT ![r] = "wait"]
  /\ UNCHANGED <<guc, held, conn, kind, ctx, owner, touched>>

Acquire(r, c) ==
  /\ pc[r] = "wait" /\ Free(c)
  /\ held' = [held EXCEPT ![r] = @ \cup {c}]
  /\ conn' = [conn EXCEPT ![r] = c]
  /\ guc' = [guc EXCEPT ![c] = BeforeAcquire(c, ctx[r])]
  /\ pc' = [pc EXCEPT ![r] = "hold"]
  /\ UNCHANGED <<kind, ctx, owner, touched>>

\* The peer closed the connection, or no session could be opened: the query fails.
AcquireFails(r) ==
  /\ pc[r] = "wait"
  /\ pc' = [pc EXCEPT ![r] = "run"]
  /\ UNCHANGED <<guc, held, conn, kind, ctx, owner, touched>>

\* SelfServeOnboard makes the session it holds a super admin's.
Elevate(r) ==
  /\ pc[r] = "hold" /\ kind[r] = "onboard"
  /\ guc' = [guc EXCEPT ![conn[r]].super = TRUE]
  /\ UNCHANGED <<held, conn, reqVars, owner, touched>>

\* The rows the policies let a session see, and the rows of the tenants table.
Visible(g) ==
  {x \in Rows : owner[x] # NoTenant /\ (g.super \/ owner[x] = g.tenant)}
    \cup {t \in Tenants : g.super \/ g.lookup \/ t = g.tenant}

Query(r) ==
  /\ pc[r] = "hold"
  /\ touched' = [touched EXCEPT ![r] = @ \cup Visible(guc[conn[r]])]
  /\ UNCHANGED <<guc, held, conn, reqVars, owner>>

WithCheck(g, t) == g.super \/ t = g.tenant

\* The handler names the tenant; the policy's WITH CHECK has the last word.
Insert(r, x, t) ==
  /\ pc[r] = "hold"
  /\ owner[x] = NoTenant
  /\ WithCheck(guc[conn[r]], t)
  /\ owner' = [owner EXCEPT ![x] = t]
  /\ touched' = [touched EXCEPT ![r] = @ \cup {x}]
  /\ UNCHANGED <<guc, held, conn, reqVars>>

\* Mutant of Release: rows that are never closed keep their connection.
ReleaseLeaks(r) ==
  /\ pc[r] = "hold"
  /\ conn' = [conn EXCEPT ![r] = NoConn]
  /\ pc' = [pc EXCEPT ![r] = "run"]
  /\ UNCHANGED <<guc, held, kind, ctx, owner, touched>>

\* The session keeps its settings.
Release(r) ==
  /\ pc[r] = "hold"
  /\ held' = [held EXCEPT ![r] = @ \ {conn[r]}]
  /\ conn' = [conn EXCEPT ![r] = NoConn]
  /\ pc' = [pc EXCEPT ![r] = "run"]
  /\ UNCHANGED <<guc, kind, ctx, owner, touched>>

-----------------------------------------------------------------------------

Dispatch(r) ==
  \/ \E t \in Tenants : TenantContext(r, t)
  \/ SuperAdminContext(r) \/ PublicLookupContext(r) \/ NoContext(r) \/ Onboard(r)

Handle(r) ==
  \/ \E t \in Tenants : WithTenant(r, t)
  \/ Ask(r) \/ AcquireFails(r)
  \/ \E c \in Conns : Acquire(r, c)
  \/ Elevate(r) \/ Query(r)
  \/ \E x \in Rows, t \in Tenants : Insert(r, x, t)
  \/ Release(r)

Next ==
  \/ \E r \in Requests :
       \/ Arrive(r) \/ SkipCustomDomain(r) \/ Dispatch(r) \/ Handle(r) \/ Finish(r)
       \/ \E c \in Conns : CustomDomain(r, c)
  \/ \E c \in Conns : Reconnect(c)

Spec == Init /\ [][Next]_vars

\* Requests run on, a handler makes finitely many queries, and the pool serves those that
\* wait for a connection in turn.  No acquisition has a deadline.
Fairness ==
  \A r \in Requests :
    /\ WF_vars(Dispatch(r)) /\ WF_vars(Release(r)) /\ SF_vars(Finish(r))
    /\ SF_vars(\E c \in Conns : CustomDomain(r, c))
    /\ SF_vars(\E c \in Conns : Acquire(r, c))

LiveSpec == Spec /\ Fairness
-----------------------------------------------------------------------------
(* Correctness *)

\* What a request is entitled to, whichever sessions its queries happened to run in.
Entitled(r) ==
  IF kind[r] \in {"super", "onboard"} THEN Rows \cup Tenants
  ELSE {x \in Rows : owner[x] # NoTenant /\ owner[x] = ctx[r].tenant}
         \cup (IF kind[r] = "lookup" THEN Tenants ELSE Tenants \cap {ctx[r].tenant})

\* No request reads or writes another tenant's rows, and one without a context touches
\* nothing, although sessions pass from request to request with their settings, also the
\* elevated ones ("the safe default is no access, not leftover access").
Isolation == \A r \in Requests : touched[r] \subseteq Entitled(r)

\* Everybody in flight waits for a connection, and there is none.
Standoff ==
  /\ \E r \in Requests : pc[r] # "idle"
  /\ \A r \in Requests : pc[r] \in {"idle", "arrive", "wait"}
  /\ \A c \in Conns : ~Free(c)

\* Nothing but CustomDomain makes requests wait for each other, however many there are: when all
\* that are in flight wait and no connection is free, every connection is the one that a request
\* which passed CustomDomain keeps through the chain (customdomain.go:36-40), and nothing else,
\* while its handler asks for another.  A handler never asks while it has one of its own.
StandoffsAreOfLookups ==
  Standoff => \A c \in Conns : \E r \in Requests : pc[r] = "wait" /\ held[r] = {c}

\* Every request that asks for a connection gets one: when the pool is exhausted "new requests
\* will start queuing on Acquire()" (docker/observability/alert-rules.yml:66-68), as long as no
\* connection leaks and no query runs for ever.
ConnectionsServed ==
  \A r \in Requests : (pc[r] \in {"arrive", "wait"}) ~> (pc[r] \notin {"arrive", "wait"})
=============================================================================
