--------------------------- MODULE RlsPoolProofs ---------------------------
(***************************************************************************)
(* Proofs about RlsPool, for any tenants, requests and connections.        *)
(***************************************************************************)
EXTENDS RlsPool, TLAPS

-----------------------------------------------------------------------------
(* The inductive invariant *)

\* A connection is taken by one request at a time.
Exclusive == \A r, s \in Requests : r # s => held[r] \cap held[s] = {}

AtMostOne(S) == \A c, d \in S : c = d

\* What a request has taken, by how far it is: CustomDomain's connection, if any, and the
\* connection of the query it is in.
Taken(r) ==
  /\ pc[r] \in {"idle", "arrive"} => held[r] = {}
  /\ pc[r] \in {"route", "run", "wait"} => AtMostOne(held[r])
  /\ pc[r] = "hold" => conn[r] \in held[r] /\ AtMostOne(held[r] \ {conn[r]})

\* The session a query runs in has the settings of the request's own context.
Session(r) ==
  pc[r] = "hold" =>
    /\ guc[conn[r]].tenant = ctx[r].tenant
    /\ guc[conn[r]].lookup = ctx[r].lookup
    /\ guc[conn[r]].super => ctx[r].super \/ kind[r] = "onboard"

\* Only the middleware for it attaches a context that opens more than one tenant.
Granted(r) ==
  /\ ctx[r].super => kind[r] = "super"
  /\ ctx[r].lookup => kind[r] = "lookup"

\* Nothing is read before the request reaches its handler.
Untouched(r) == pc[r] \in {"idle", "arrive", "route"} => touched[r] = {}

PerRequest ==
  \A r \in Requests : Taken(r) /\ Session(r) /\ Granted(r) /\ Untouched(r)

IInv == TypeOK /\ Exclusive /\ PerRequest /\ Isolation

-----------------------------------------------------------------------------

LEMMA BlankTyped == Blank \in Contexts
BY DEF Blank, Contexts

LEMMA InitHolds == Init => IInv
<1> SUFFICES ASSUME Init PROVE IInv
    OBVIOUS
<1>1. TypeOK
    BY PoolAssumptions, BlankTyped DEF Init, TypeOK, Kinds
<1>2. Exclusive /\ Isolation
    BY DEF Init, Exclusive, Isolation
<1>3. PerRequest
    BY DEF Init, PerRequest, Taken, Session, Granted, Untouched, Blank
<1> QED  BY <1>1, <1>2, <1>3 DEF IInv

\* What every step leaves of the invariant about requests it does not concern.
LEMMA Others ==
  ASSUME NEW r \in Requests, PerRequest, TypeOK,
         pc'[r] = pc[r], held'[r] = held[r], conn'[r] = conn[r], kind'[r] = kind[r],
         ctx'[r] = ctx[r], touched'[r] = touched[r],
         conn[r] \in held[r] => guc'[conn[r]] = guc[conn[r]]
  PROVE  Taken(r)' /\ Session(r)' /\ Granted(r)' /\ Untouched(r)'
<1>1. Taken(r) /\ Session(r) /\ Granted(r) /\ Untouched(r)
    BY DEF PerRequest
<1>2. Taken(r)'
    BY <1>1 DEF Taken
<1>3. Session(r)'
    <2> SUFFICES ASSUME pc[r] = "hold" PROVE Session(r)'
        BY DEF Session
    <2>1. conn[r] \in held[r]
        BY <1>1 DEF Taken
    <2> QED  BY <1>1, <2>1 DEF Session
<1>4. Granted(r)' /\ Untouched(r)'
    BY <1>1 DEF Granted, Untouched
<1> QED  BY <1>2, <1>3, <1>4

\* Whatever a session lets a request see, the request is entitled to.
LEMMA VisibleEntitled ==
  ASSUME IInv, NEW r \in Requests, pc[r] = "hold"
  PROVE  Visible(guc[conn[r]]) \subseteq Entitled(r)
<1>1. Session(r) /\ Granted(r)
    BY DEF IInv, PerRequest
<1> DEFINE g == guc[conn[r]]
<1>2. g.tenant = ctx[r].tenant /\ g.lookup = ctx[r].lookup
    BY <1>1 DEF Session
<1>3. g.super => kind[r] \in {"super", "onboard"}
    BY <1>1 DEF Session, Granted
<1>4. g.lookup => kind[r] = "lookup"
    BY <1>1, <1>2 DEF Granted
<1> QED  BY <1>2, <1>3, <1>4 DEF Visible, Entitled

\* Entitlements depend on the request's own kind and context and grow with the tables.
LEMMA IsolationKept ==
  ASSUME Isolation, NEW r \in Requests,
         touched'[r] = touched[r], kind'[r] = kind[r], ctx'[r] = ctx[r],
         \A x \in Rows : owner[x] # NoTenant => owner'[x] = owner[x]
  PROVE  touched'[r] \subseteq Entitled(r)'
BY DEF Isolation, Entitled

-----------------------------------------------------------------------------
(* Each action preserves the invariant *)

LEMMA ReconnectStep ==
  ASSUME IInv, NEW c \in Conns, Reconnect(c)  PROVE IInv'
<1> USE DEF IInv, Reconnect, reqVars
<1>1. TypeOK'
    BY BlankTyped DEF TypeOK
<1>2. Exclusive' /\ Isolation'
    BY DEF Exclusive, Isolation, Entitled
<1>3. ASSUME NEW r \in Requests
      PROVE  Taken(r)' /\ Session(r)' /\ Granted(r)' /\ Untouched(r)'
    <2>1. conn[r] \in held[r] => guc'[conn[r]] = guc[conn[r]]
        BY DEF Free, TypeOK
    <2> QED  BY <2>1, Others
<1> QED  BY <1>1, <1>2, <1>3 DEF PerRequest

LEMMA ArriveStep ==
  ASSUME IInv, NEW r \in Requests, Arrive(r)  PROVE IInv'
<1> USE DEF IInv, Arrive
<1>1. TypeOK'
    BY DEF TypeOK
<1>2. Exclusive' /\ Isolation'
    BY DEF Exclusive, Isolation, Entitled
<1>3. ASSUME NEW s \in Requests
      PROVE  Taken(s)' /\ Session(s)' /\ Granted(s)' /\ Untouched(s)'
    <2>1. CASE s = r
        BY <2>1 DEF PerRequest, Taken, Session, Granted, Untouched, TypeOK
    <2>2. CASE s # r
        BY <2>2, Others DEF TypeOK
    <2> QED  BY <2>1, <2>2
<1> QED  BY <1>1, <1>2, <1>3 DEF PerRequest

LEMMA CustomDomainStep ==
  ASSUME IInv, NEW r \in Requests, NEW c \in Conns, CustomDomain(r, c)  PROVE IInv'
<1> DEFINE g == [BeforeAcquire(c, Blank) EXCEPT !.lookup = TRUE]
<1>1. g \in Contexts
    BY BlankTyped DEF BeforeAcquire, Contexts, Blank
<1> USE DEF IInv, CustomDomain
<1>2. TypeOK'
    <2>1. guc' \in [Conns -> Contexts]
        BY <1>1 DEF TypeOK
    <2> QED  BY <2>1 DEF TypeOK
<1>3. Exclusive'
    BY DEF Exclusive, Free, TypeOK
<1>4. Isolation'
    BY DEF Isolation, Entitled
<1>5. ASSUME NEW s \in Requests
      PROVE  Taken(s)' /\ Session(s)' /\ Granted(s)' /\ Untouched(s)'
    <2>1. CASE s = r
        BY <2>1 DEF PerRequest, Taken, AtMostOne, Session, Granted, Untouched, TypeOK
    <2>2. CASE s # r
        <3>1. conn[s] \in held[s] => guc'[conn[s]] = guc[conn[s]]
            BY DEF Free, TypeOK
        <3> QED  BY <2>2, <3>1, Others DEF TypeOK
    <2> QED  BY <2>1, <2>2
<1> QED  BY <1>2, <1>3, <1>4, <1>5 DEF PerRequest

LEMMA SkipCustomDomainStep ==
  ASSUME IInv, NEW r \in Requests, SkipCustomDomain(r)  PROVE IInv'
<1> USE DEF IInv, SkipCustomDomain
<1>1. TypeOK'
    BY DEF TypeOK
<1>2. Exclusive' /\ Isolation'
    BY DEF Exclusive, Isolation, Entitled
<1>3. ASSUME NEW s \in Requests
      PROVE  Taken(s)' /\ Session(s)' /\ Granted(s)' /\ Untouched(s)'
    <2>1. CASE s = r
        BY <2>1 DEF PerRequest, Taken, AtMostOne, Session, Granted, Untouched, TypeOK
    <2>2. CASE s # r
        BY <2>2, Others DEF TypeOK
    <2> QED  BY <2>1, <2>2
<1> QED  BY <1>1, <1>2, <1>3 DEF PerRequest

LEMMA RouteStep ==
  ASSUME IInv, NEW r \in Requests, NEW k \in Kinds, NEW x \in Contexts, Route(r, k, x),
         x.super => k = "super", x.lookup => k = "lookup"
  PROVE  IInv'
<1> USE DEF IInv, Route
<1>1. TypeOK'
    BY DEF TypeOK
<1>2. Exclusive'
    BY DEF Exclusive
<1>3. ASSUME NEW s \in Requests  PROVE touched'[s] \subseteq Entitled(s)'
    <2>1. CASE s = r
        BY <2>1 DEF PerRequest, Untouched
    <2>2. CASE s # r
        BY <2>2, IsolationKept DEF TypeOK
    <2> QED  BY <2>1, <2>2
<1>4. ASSUME NEW s \in Requests
      PROVE  Taken(s)' /\ Session(s)' /\ Granted(s)' /\ Untouched(s)'
    <2>1. CASE s = r
        BY <2>1 DEF PerRequest, Taken, Session, Granted, Untouched, TypeOK
    <2>2. CASE s # r
        BY <2>2, Others DEF TypeOK
    <2> QED  BY <2>1, <2>2
<1> QED  BY <1>1, <1>2, <1>3, <1>4 DEF PerRequest, Isolation

LEMMA DispatchStep ==
  ASSUME IInv, NEW r \in Requests, Dispatch(r)  PROVE IInv'
<1>1. ASSUME NEW t \in Tenants, TenantContext(r, t)  PROVE IInv'
    <2> DEFINE x == [Blank EXCEPT !.tenant = t]
    <2>1. x \in Contexts /\ ~ x.super /\ ~ x.lookup
        BY DEF Blank, Contexts
    <2> QED  BY <1>1, <2>1, RouteStep DEF TenantContext, Kinds
<1>2. CASE SuperAdminContext(r)
    <2> DEFINE x == [Blank EXCEPT !.super = TRUE]
    <2>1. x \in Contexts /\ ~ x.lookup
        BY DEF Blank, Contexts
    <2> QED  BY <1>2, <2>1, RouteStep DEF SuperAdminContext, Kinds
<1>3. CASE PublicLookupContext(r)
    <2> DEFINE x == [Blank EXCEPT !.lookup = TRUE]
    <2>1. x \in Contexts /\ ~ x.super
        BY DEF Blank, Contexts
    <2> QED  BY <1>3, <2>1, RouteStep DEF PublicLookupContext, Kinds
<1>4. Blank \in Contexts /\ ~ Blank.super /\ ~ Blank.lookup
    BY BlankTyped DEF Blank
<1>5. CASE NoContext(r)
    BY <1>4, <1>5, RouteStep DEF NoContext, Kinds
<1>6. CASE Onboard(r)
    BY <1>4, <1>6, RouteStep DEF Onboard, Kinds
<1> QED  BY <1>1, <1>2, <1>3, <1>5, <1>6 DEF Dispatch

LEMMA FinishStep ==
  ASSUME IInv, NEW r \in Requests, Finish(r)  PROVE IInv'
<1> USE DEF IInv, Finish
<1>1. TypeOK'
    BY BlankTyped DEF TypeOK, Kinds
<1>2. Exclusive'
    BY DEF Exclusive, TypeOK
<1>3. ASSUME NEW s \in Requests  PROVE touched'[s] \subseteq Entitled(s)'
    <2>1. CASE s = r
        BY <2>1 DEF TypeOK
    <2>2. CASE s # r
        BY <2>2, IsolationKept DEF TypeOK
    <2> QED  BY <2>1, <2>2
<1>4. ASSUME NEW s \in Requests
      PROVE  Taken(s)' /\ Session(s)' /\ Granted(s)' /\ Untouched(s)'
    <2>1. CASE s = r
        BY <2>1 DEF Taken, Session, Granted, Untouched, TypeOK, Blank
    <2>2. CASE s # r
        BY <2>2, Others DEF TypeOK
    <2> QED  BY <2>1, <2>2
<1> QED  BY <1>1, <1>2, <1>3, <1>4 DEF PerRequest, Isolation

LEMMA WithTenantStep ==
  ASSUME IInv, NEW r \in Requests, NEW t \in Tenants, WithTenant(r, t)  PROVE IInv'
<1> DEFINE x == [ctx[r] EXCEPT !.tenant = t]
<1>1. /\ x \in Contexts /\ x.super = ctx[r].super /\ x.lookup = ctx[r].lookup
      /\ ctx' = [ctx EXCEPT ![r] = x]
    <2>1. ctx[r] \in Contexts
        BY DEF IInv, TypeOK
    <2> QED  BY <2>1 DEF WithTenant, Contexts
<1> USE DEF IInv, WithTenant
<1>2. TypeOK'
    BY <1>1 DEF TypeOK
<1>3. Exclusive'
    BY DEF Exclusive
<1>4. ASSUME NEW s \in Requests  PROVE touched'[s] \subseteq Entitled(s)'
    <2>1. CASE s = r
        <3>1. touched[r] \subseteq Tenants
            BY DEF Isolation, Entitled
        <3> QED  BY <2>1, <3>1 DEF Entitled
    <2>2. CASE s # r
        BY <2>2, <1>1, IsolationKept DEF TypeOK
    <2> QED  BY <2>1, <2>2
<1>5. ASSUME NEW s \in Requests
      PROVE  Taken(s)' /\ Session(s)' /\ Granted(s)' /\ Untouched(s)'
    <2>1. CASE s = r
        BY <2>1, <1>1 DEF PerRequest, Taken, Session, Granted, Untouched, TypeOK
    <2>2. CASE s # r
        BY <2>2, <1>1, Others DEF TypeOK
    <2> QED  BY <2>1, <2>2
<1> QED  BY <1>2, <1>3, <1>4, <1>5 DEF PerRequest, Isolation

LEMMA AskStep ==
  ASSUME IInv, NEW r \in Requests, Ask(r)  PROVE IInv'
<1> USE DEF IInv, Ask
<1>1. TypeOK'
    BY DEF TypeOK
<1>2. Exclusive' /\ Isolation'
    BY DEF Exclusive, Isolation, Entitled
<1>3. ASSUME NEW s \in Requests
      PROVE  Taken(s)' /\ Session(s)' /\ Granted(s)' /\ Untouched(s)'
    <2>1. CASE s = r
        BY <2>1 DEF PerRequest, Taken, Session, Granted, Untouched, TypeOK
    <2>2. CASE s # r
        BY <2>2, Others DEF TypeOK
    <2> QED  BY <2>1, <2>2
<1> QED  BY <1>1, <1>2, <1>3 DEF PerRequest

LEMMA AcquireStep ==
  ASSUME IInv, NEW r \in Requests, NEW c \in Conns, Acquire(r, c)  PROVE IInv'
<1>1. BeforeAcquire(c, ctx[r]) = ctx[r] /\ ctx[r] \in Contexts
    BY DEF IInv, TypeOK, BeforeAcquire
<1> USE DEF IInv, Acquire
<1>2. TypeOK'
    <2>1. guc' \in [Conns -> Contexts]
        BY <1>1 DEF TypeOK
    <2> QED  BY <2>1, PoolAssumptions DEF TypeOK
<1>3. Exclusive'
    BY DEF Exclusive, Free, TypeOK
<1>4. Isolation'
    BY DEF Isolation, Entitled
<1>5. ASSUME NEW s \in Requests
      PROVE  Taken(s)' /\ Session(s)' /\ Granted(s)' /\ Untouched(s)'
    <2>1. CASE s = r
        <3>1. Taken(r)'
            <4>1. AtMostOne(held[r]) /\ c \notin held[r]
                BY DEF PerRequest, Taken, Free
            <4>2. held'[r] = held[r] \cup {c} /\ conn'[r] = c /\ pc'[r] = "hold"
                BY DEF TypeOK
            <4> QED  BY <4>1, <4>2 DEF Taken, AtMostOne
        <3>2. Session(r)'
            BY <1>1 DEF Session, TypeOK
        <3> QED  BY <2>1, <3>1, <3>2 DEF PerRequest, Granted, Untouched, TypeOK
    <2>2. CASE s # r
        <3>1. conn[s] \in held[s] => guc'[conn[s]] = guc[conn[s]]
            BY DEF Free, TypeOK
        <3> QED  BY <2>2, <3>1, Others DEF TypeOK
    <2> QED  BY <2>1, <2>2
<1> QED  BY <1>2, <1>3, <1>4, <1>5 DEF PerRequest

LEMMA AcquireFailsStep ==
  ASSUME IInv, NEW r \in Requests, AcquireFails(r)  PROVE IInv'
<1> USE DEF IInv, AcquireFails
<1>1. TypeOK'
    BY DEF TypeOK
<1>2. Exclusive' /\ Isolation'
    BY DEF Exclusive, Isolation, Entitled
<1>3. ASSUME NEW s \in Requests
      PROVE  Taken(s)' /\ Session(s)' /\ Granted(s)' /\ Untouched(s)'
    <2>1. CASE s = r
        BY <2>1 DEF PerRequest, Taken, Session, Granted, Untouched, TypeOK
    <2>2. CASE s # r
        BY <2>2, Others DEF TypeOK
    <2> QED  BY <2>1, <2>2
<1> QED  BY <1>1, <1>2, <1>3 DEF PerRequest

LEMMA ElevateStep ==
  ASSUME IInv, NEW r \in Requests, Elevate(r)  PROVE IInv'
<1> DEFINE g == [guc[conn[r]] EXCEPT !.super = TRUE]
<1>1. /\ conn[r] \in Conns /\ conn[r] \in held[r]
      /\ guc[conn[r]] \in Contexts
    BY DEF IInv, Elevate, PerRequest, Taken, TypeOK
<1>2. /\ g \in Contexts /\ g.tenant = guc[conn[r]].tenant /\ g.lookup = guc[conn[r]].lookup
      /\ guc' = [guc EXCEPT ![conn[r]] = g]
    BY <1>1 DEF Elevate, Contexts
<1> USE DEF IInv, Elevate, reqVars
<1>3. TypeOK'
    BY <1>1, <1>2 DEF TypeOK
<1>4. Exclusive' /\ Isolation'
    BY DEF Exclusive, Isolation, Entitled
<1>5. ASSUME NEW s \in Requests
      PROVE  Taken(s)' /\ Session(s)' /\ Granted(s)' /\ Untouched(s)'
    <2>1. CASE s = r
        <3>1. Session(r)'
            BY <1>1, <1>2 DEF PerRequest, Session, TypeOK
        <3> QED  BY <2>1, <3>1 DEF PerRequest, Taken, Granted, Untouched
    <2>2. CASE s # r
        <3>1. conn[s] \in held[s] => guc'[conn[s]] = guc[conn[s]]
            BY <1>1, <1>2, <2>2 DEF Exclusive, TypeOK
        <3> QED  BY <2>2, <3>1, Others
    <2> QED  BY <2>1, <2>2
<1> QED  BY <1>3, <1>4, <1>5 DEF PerRequest

LEMMA QueryStep ==
  ASSUME IInv, NEW r \in Requests, Query(r)  PROVE IInv'
<1>1. Visible(guc[conn[r]]) \subseteq Entitled(r)
    BY VisibleEntitled DEF Query
<1> USE DEF IInv, Query, reqVars
<1>2. TypeOK'
    BY DEF TypeOK, Visible
<1>3. Exclusive'
    BY DEF Exclusive
<1>4. ASSUME NEW s \in Requests  PROVE touched'[s] \subseteq Entitled(s)'
    <2>1. Entitled(s)' = Entitled(s)
        BY DEF Entitled
    <2> QED  BY <1>1, <2>1 DEF Isolation, TypeOK
<1>5. ASSUME NEW s \in Requests
      PROVE  Taken(s)' /\ Session(s)' /\ Granted(s)' /\ Untouched(s)'
    BY DEF PerRequest, Taken, Session, Granted, Untouched, TypeOK
<1> QED  BY <1>2, <1>3, <1>4, <1>5 DEF PerRequest, Isolation

LEMMA InsertStep ==
  ASSUME IInv, NEW r \in Requests, NEW x \in Rows, NEW t \in Tenants, Insert(r, x, t)
  PROVE  IInv'
<1> USE DEF IInv, Insert, reqVars
<1>1. TypeOK'
    BY DEF TypeOK
<1>2. Exclusive'
    BY DEF Exclusive
<1>3. x \in Entitled(r)'
    <2>1. Session(r) /\ Granted(r)
        BY DEF PerRequest
    <2>2. owner'[x] = t /\ t # NoTenant
        BY PoolAssumptions DEF TypeOK
    <2>3. CASE guc[conn[r]].super
        BY <2>1, <2>3 DEF Session, Granted, Entitled
    <2>4. CASE t = guc[conn[r]].tenant
        BY <2>1, <2>2, <2>4 DEF Session, Entitled
    <2> QED  BY <2>3, <2>4 DEF WithCheck
<1>4. ASSUME NEW s \in Requests  PROVE touched'[s] \subseteq Entitled(s)'
    <2>1. Entitled(s) \subseteq Entitled(s)'
        BY DEF Entitled, TypeOK
    <2> QED  BY <1>3, <2>1 DEF Isolation, TypeOK
<1>5. ASSUME NEW s \in Requests
      PROVE  Taken(s)' /\ Session(s)' /\ Granted(s)' /\ Untouched(s)'
    BY DEF PerRequest, Taken, Session, Granted, Untouched, TypeOK
<1> QED  BY <1>1, <1>2, <1>4, <1>5 DEF PerRequest, Isolation

LEMMA ReleaseStep ==
  ASSUME IInv, NEW r \in Requests, Release(r)  PROVE IInv'
<1> USE DEF IInv, Release
<1>1. TypeOK'
    BY DEF TypeOK
<1>2. Exclusive'
    BY DEF Exclusive, TypeOK
<1>3. Isolation'
    BY DEF Isolation, Entitled
<1>4. ASSUME NEW s \in Requests
      PROVE  Taken(s)' /\ Session(s)' /\ Granted(s)' /\ Untouched(s)'
    <2>1. CASE s = r
        <3>1. Taken(r)'
            <4>1. AtMostOne(held[r] \ {conn[r]})
                BY DEF PerRequest, Taken
            <4>2. held'[r] = held[r] \ {conn[r]} /\ pc'[r] = "run"
                BY DEF TypeOK
            <4> QED  BY <4>1, <4>2 DEF Taken
        <3> QED  BY <2>1, <3>1 DEF PerRequest, Session, Granted, Untouched, TypeOK
    <2>2. CASE s # r
        BY <2>2, Others DEF TypeOK
    <2> QED  BY <2>1, <2>2
<1> QED  BY <1>1, <1>2, <1>3, <1>4 DEF PerRequest

LEMMA StutterStep ==
  ASSUME IInv, UNCHANGED vars  PROVE IInv'
BY DEF IInv, vars, reqVars, TypeOK, Exclusive, PerRequest, Taken, Session, Granted, Untouched,
       Isolation, Entitled

LEMMA NextStep == IInv /\ [Next]_vars => IInv'
<1> SUFFICES ASSUME IInv, [Next]_vars PROVE IInv'
    OBVIOUS
<1>1. ASSUME NEW r \in Requests, Handle(r)  PROVE IInv'
    BY <1>1, WithTenantStep, AskStep, AcquireStep, AcquireFailsStep, ElevateStep, QueryStep,
       InsertStep, ReleaseStep DEF Handle
<1> QED
    BY <1>1, ArriveStep, SkipCustomDomainStep, CustomDomainStep, DispatchStep, FinishStep,
       ReconnectStep, StutterStep DEF Next

-----------------------------------------------------------------------------

\* Every reachable state satisfies the invariant, and with it the type invariant.
THEOREM PoolInvariant == Spec => []IInv
<1> QED  BY InitHolds, NextStep, PTL DEF Spec

\* The sessions, requests and tables keep their types.
THEOREM PoolTyped == Spec => []TypeOK
<1>1. IInv => TypeOK
    BY DEF IInv
<1> QED  BY <1>1, PoolInvariant, PTL

\* Tenants stay apart for any number of tenants, requests and connections.
THEOREM TenantsIsolated == Spec => []Isolation
<1>1. IInv => Isolation
    BY DEF IInv
<1> QED  BY <1>1, PoolInvariant, PTL

\* For any number of requests and connections, a standoff is one of requests that keep their
\* lookup's connection, as many of them as there are connections.
THEOREM StandoffsAlwaysOfLookups == Spec => []StandoffsAreOfLookups
<1>1. ASSUME IInv  PROVE StandoffsAreOfLookups
    <2> SUFFICES ASSUME Standoff, NEW c \in Conns
                 PROVE  \E r \in Requests : pc[r] = "wait" /\ held[r] = {c}
        BY DEF StandoffsAreOfLookups
    <2>1. PICK r \in Requests : c \in held[r]
        BY DEF Standoff, Free
    <2>2. Taken(r)
        BY <1>1 DEF IInv, PerRequest
    <2>3. pc[r] \notin {"idle", "arrive"}
        BY <2>1, <2>2 DEF Taken
    <2>4. pc[r] = "wait"
        BY <2>3 DEF Standoff
    <2>5. held[r] = {c}
        BY <2>1, <2>2, <2>4 DEF Taken, AtMostOne
    <2> QED  BY <2>4, <2>5
<1> QED  BY <1>1, PoolInvariant, PTL
=============================================================================
