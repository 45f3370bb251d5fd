--------------------------- MODULE AccountsProofs ---------------------------
(***************************************************************************)
(* Proofs about sessions (Sessions), one-time codes (PhoneLogin), the      *)
(* creation of tenants (Tenancy) and the import of people (Roster), for any *)
(* number of users, requests and rows, and about the composition of all    *)
(* modules of accounts and their doors (MCAccounts).                       *)
(*                                                                         *)
(* Sessions: a role read before it changed is as old as its request at     *)
(* most.  Codes: whoever is about to compare has found the code open, and  *)
(* that many requests there are.  Tenancy: an onboarding that has come so  *)
(* far has left its rows behind it, and nobody takes them away.  Roster: the *)
(* rows that name an import as their origin are those it has counted.      *)
(***************************************************************************)
EXTENDS MCAccounts, DoorProofs, TLAPS, FiniteSetTheorems, SequenceTheorems

-----------------------------------------------------------------------------
(* Sessions *)

InFlight ==
  [at : {"idle", "row", "mint"}, user : Users, login : BOOLEAN, role : Roles, since : Nat, spans : BOOLEAN]

Busy(e) == exchange[e].at # "idle"

\* A login or refresh takes at most Delay seconds.
Timely == \A e \in Exchanges : Busy(e) => exchange[e].since <= clock /\ clock <= exchange[e].since + Delay

\* A token that is about to be minted has the role of its user, or the role has changed since
\* the request came.
ReadsAreRecent ==
  \A e \in Exchanges : exchange[e].at = "mint" /\ exchange[e].role # rows[exchange[e].user].role
    => exchange[e].since <= rows[exchange[e].user].changed

MintedBefore == \A a \in access : a.minted <= clock

\* A refresh in flight of a user who is out came before the logout.
RefreshesSpan ==
  \A e \in Exchanges : Busy(e) /\ exchange[e].user \in left => exchange[e].login \/ exchange[e].spans

SessionInv ==
  /\ SessionTypeOK /\ Timely /\ ReadsAreRecent /\ MintedBefore /\ RefreshesSpan
  /\ LogoutSticks /\ RoleCatchesUp

-----------------------------------------------------------------------------

LEMMA SessionInitHolds == SessionInit => SessionInv
<1> SUFFICES ASSUME SessionInit PROVE SessionInv
    OBVIOUS
<1>1. SessionTypeOK
    BY SessionAssumptions DEF SessionInit, SessionTypeOK, NoExchange, Roles, None
<1>2. Timely /\ ReadsAreRecent /\ RefreshesSpan
    BY DEF SessionInit, Timely, ReadsAreRecent, RefreshesSpan, Busy, NoExchange
<1>3. MintedBefore /\ LogoutSticks /\ RoleCatchesUp
    BY DEF SessionInit, MintedBefore, LogoutSticks, RoleCatchesUp
<1> QED  BY <1>1, <1>2, <1>3 DEF SessionInv

\* The clock moves only as far as the requests in flight allow.
LEMMA SecondPassesStep == SessionInv /\ SecondPasses => SessionInv'
<1> SUFFICES ASSUME SessionInv, SecondPasses PROVE SessionInv'
    OBVIOUS
<1> USE SessionAssumptions DEF SessionInv, SecondPasses
<1>1. SessionTypeOK'
    BY DEF SessionTypeOK
<1>2. Timely'
    BY DEF SessionTypeOK, Timely, Busy
<1>3. ReadsAreRecent' /\ RefreshesSpan' /\ LogoutSticks'
    BY DEF ReadsAreRecent, RefreshesSpan, LogoutSticks, Busy
<1>4. MintedBefore'
    BY DEF SessionTypeOK, MintedBefore
<1>5. RoleCatchesUp'
    BY DEF RoleCatchesUp
<1> QED  BY <1>1, <1>2, <1>3, <1>4, <1>5

LEMMA RefreshExpiresStep ==
  ASSUME SessionInv, NEW u \in Users, RefreshExpires(u)
  PROVE  SessionInv'
<1> USE DEF SessionInv, RefreshExpires
<1>1. SessionTypeOK'
    BY DEF SessionTypeOK
<1>2. Timely' /\ ReadsAreRecent' /\ RefreshesSpan'
    BY DEF Timely, ReadsAreRecent, RefreshesSpan, Busy
<1>3. MintedBefore' /\ RoleCatchesUp'
    BY DEF MintedBefore, RoleCatchesUp
<1>4. LogoutSticks'
    BY DEF SessionTypeOK, LogoutSticks
<1> QED  BY <1>1, <1>2, <1>3, <1>4

LEMMA SignInStep ==
  ASSUME SessionInv, NEW e \in Exchanges, NEW u \in Users, SignIn(e, u)
  PROVE  SessionInv'
<1> USE SessionAssumptions DEF SessionInv, SignIn
<1>1. SessionTypeOK'
    BY DEF SessionTypeOK
<1>2. Timely'
    BY DEF SessionTypeOK, Timely, Busy
<1>3. ReadsAreRecent'
    BY DEF SessionTypeOK, ReadsAreRecent
<1>4. RefreshesSpan'
    BY DEF SessionTypeOK, RefreshesSpan, Busy
<1>5. MintedBefore' /\ RoleCatchesUp' /\ LogoutSticks'
    BY DEF MintedBefore, RoleCatchesUp, LogoutSticks
<1> QED  BY <1>1, <1>2, <1>3, <1>4, <1>5

\* Nobody who is out has a token that could be the same.
LEMMA CompareStoredStep ==
  ASSUME SessionInv, NEW e \in Exchanges, NEW u \in Users, CompareStored(e, u)
  PROVE  SessionInv'
<1> USE SessionAssumptions DEF SessionInv, CompareStored
<1>1. SessionTypeOK'
    BY DEF SessionTypeOK, Roles
<1>2. Timely'
    BY DEF SessionTypeOK, Timely, Busy
<1>3. ReadsAreRecent'
    BY DEF SessionTypeOK, ReadsAreRecent
<1>4. u \notin left
    BY DEF SessionTypeOK, LogoutSticks, SameToken, None
<1>5. RefreshesSpan'
    BY <1>4 DEF SessionTypeOK, RefreshesSpan, Busy
<1>6. MintedBefore' /\ RoleCatchesUp' /\ LogoutSticks'
    BY DEF MintedBefore, RoleCatchesUp, LogoutSticks
<1> QED  BY <1>1, <1>2, <1>3, <1>5, <1>6

LEMMA ReadRowStep ==
  ASSUME SessionInv, NEW e \in Exchanges, ReadRow(e)
  PROVE  SessionInv'
<1> USE DEF SessionInv, ReadRow
<1>1. SessionTypeOK'
  <2> DEFINE new == [exchange[e] EXCEPT !.at = "mint", !.role = rows[exchange[e].user].role]
  <2>1. exchange[e] \in InFlight /\ rows[exchange[e].user].role \in Roles
      BY DEF SessionTypeOK, InFlight
  <2>2. new \in InFlight
      BY <2>1 DEF InFlight
  <2>3. exchange' = [exchange EXCEPT ![e] = new]
      OBVIOUS
  <2> HIDE DEF new
  <2>4. exchange' \in [Exchanges -> InFlight]
      BY <2>2, <2>3 DEF SessionTypeOK, InFlight
  <2> QED  BY <2>4 DEF SessionTypeOK, InFlight
<1>2. Timely'
    BY DEF SessionTypeOK, Timely, Busy
<1>3. ReadsAreRecent'
    BY DEF SessionTypeOK, ReadsAreRecent
<1>4. RefreshesSpan'
    BY DEF SessionTypeOK, RefreshesSpan, Busy
<1>5. MintedBefore' /\ RoleCatchesUp' /\ LogoutSticks'
    BY DEF MintedBefore, RoleCatchesUp, LogoutSticks
<1> QED  BY <1>1, <1>2, <1>3, <1>4, <1>5

\* The token is minted at most Delay seconds after the request came, and before the role changed
\* if it is not the present one.
LEMMA IssueTokensStep ==
  ASSUME SessionInv, NEW e \in Exchanges, IssueTokens(e)
  PROVE  SessionInv'
<1> USE SessionAssumptions DEF SessionInv
<1> DEFINE u == exchange[e].user
           t == [user |-> u, role |-> exchange[e].role, minted |-> clock]
<1>1. /\ exchange[e].at = "mint"
      /\ access' = access \cup {t}
      /\ stored' = [stored EXCEPT ![u] = clock]
      /\ left' = IF exchange[e].login \/ exchange[e].spans THEN left \ {u} ELSE left
      /\ exchange' = [exchange EXCEPT ![e] = NoExchange]
      /\ UNCHANGED <<clock, rows>>
    BY DEF IssueTokens
<1>2. u \in Users /\ exchange[e].role \in Roles /\ clock \in Nat /\ exchange[e].since \in Nat
    BY DEF SessionTypeOK
<1>3. SessionTypeOK'
  <2>1. NoExchange \in [at : {"idle", "row", "mint"}, user : Users, login : BOOLEAN,
                        role : Roles, since : Nat, spans : BOOLEAN]
      BY DEF NoExchange, Roles
  <2>2. exchange' \in [Exchanges -> [at : {"idle", "row", "mint"}, user : Users, login : BOOLEAN,
                        role : Roles, since : Nat, spans : BOOLEAN]]
      BY <1>1, <2>1 DEF SessionTypeOK
  <2>3. access' \subseteq [user : Users, role : Roles, minted : Nat]
      BY <1>1, <1>2 DEF SessionTypeOK
  <2>4. stored' \in [Users -> Nat \cup {None}] /\ left' \subseteq Users
      BY <1>1, <1>2 DEF SessionTypeOK
  <2> QED  BY <1>1, <2>2, <2>3, <2>4 DEF SessionTypeOK
<1>4. Timely' /\ ReadsAreRecent'
    BY <1>1 DEF SessionTypeOK, Timely, ReadsAreRecent, Busy, NoExchange
<1>5. RefreshesSpan'
    BY <1>1 DEF SessionTypeOK, RefreshesSpan, Busy, NoExchange
<1>6. MintedBefore'
    BY <1>1, <1>2 DEF MintedBefore
<1>7. LogoutSticks'
  <2>1. u \notin left'
      BY <1>1 DEF RefreshesSpan, Busy
  <2> QED  BY <1>1, <2>1 DEF SessionTypeOK, LogoutSticks
<1>8. RoleCatchesUp'
  <2>1. exchange[e].role # rows[u].role => clock <= rows[u].changed + Delay
      BY <1>1, <1>2 DEF SessionTypeOK, Timely, ReadsAreRecent, Busy
  <2> QED  BY <1>1, <2>1 DEF RoleCatchesUp
<1> QED  BY <1>3, <1>4, <1>5, <1>6, <1>7, <1>8

\* Whatever is in flight then is marked, so that it may bring the user back.
LEMMA LogoutStep ==
  ASSUME SessionInv, NEW u \in Users, Logout(u)
  PROVE  SessionInv'
<1> USE DEF SessionInv, Logout
<1>1. SessionTypeOK'
  <2>1. \A x \in InFlight : [x EXCEPT !.spans = TRUE] \in InFlight
      BY DEF InFlight
  <2>2. exchange' \in [Exchanges -> InFlight]
      BY <2>1 DEF SessionTypeOK, InFlight
  <2>3. stored' \in [Users -> Nat \cup {None}] /\ left' \subseteq Users
      BY DEF SessionTypeOK
  <2> QED  BY <2>2, <2>3 DEF SessionTypeOK, InFlight
<1>2. Timely'
    BY DEF SessionTypeOK, Timely, Busy
<1>3. ReadsAreRecent'
    BY DEF SessionTypeOK, ReadsAreRecent
<1>4. RefreshesSpan'
    BY DEF SessionTypeOK, RefreshesSpan, Busy
<1>5. MintedBefore' /\ RoleCatchesUp'
    BY DEF MintedBefore, RoleCatchesUp
<1>6. LogoutSticks'
    BY DEF SessionTypeOK, LogoutSticks
<1> QED  BY <1>1, <1>2, <1>3, <1>4, <1>5, <1>6

\* Everything in use then was minted, or its request came, before the change.
LEMMA SetUserRoleStep ==
  ASSUME SessionInv, NEW u \in Users, NEW role \in Roles, SetUserRole(u, role)
  PROVE  SessionInv'
<1> USE SessionAssumptions DEF SessionInv, SetUserRole
<1>1. SessionTypeOK'
  <2> DEFINE new == [rows[u] EXCEPT !.role = role, !.changed = clock]
  <2>1. new \in [role : Roles, changed : Nat]
      BY DEF SessionTypeOK
  <2>2. rows' = [rows EXCEPT ![u] = new]
      OBVIOUS
  <2> HIDE DEF new
  <2>3. rows' \in [Users -> [role : Roles, changed : Nat]]
    <3>1. rows \in [Users -> [role : Roles, changed : Nat]]
        BY DEF SessionTypeOK
    <3> HIDE DEF SessionInv, SetUserRole
    <3> QED  BY <2>1, <2>2, <3>1
  <2> QED  BY <2>3 DEF SessionTypeOK
<1>2. Timely' /\ RefreshesSpan' /\ MintedBefore' /\ LogoutSticks'
    BY DEF Timely, RefreshesSpan, MintedBefore, LogoutSticks, Busy
<1>3. rows'[u].changed = clock /\ \A v \in Users \ {u} : rows'[v] = rows[v]
    BY DEF SessionTypeOK
<1>4. ReadsAreRecent'
  <2> SUFFICES ASSUME NEW e \in Exchanges, exchange[e].at = "mint",
                      exchange[e].role # rows'[exchange[e].user].role
               PROVE  exchange[e].since <= rows'[exchange[e].user].changed
      BY DEF ReadsAreRecent
  <2>1. exchange[e].user \in Users /\ exchange[e].since <= clock
      BY DEF SessionTypeOK, Timely, Busy
  <2>2. CASE exchange[e].user = u
      BY <1>3, <2>1, <2>2
  <2>3. CASE exchange[e].user # u
      BY <1>3, <2>1, <2>3 DEF ReadsAreRecent
  <2> QED  BY <2>2, <2>3
<1>5. RoleCatchesUp'
    BY <1>3 DEF SessionTypeOK, RoleCatchesUp, MintedBefore
<1> QED  BY <1>1, <1>2, <1>4, <1>5

LEMMA SessionNextStep == SessionInv /\ [SessionNext]_sessionVars => SessionInv'
<1> SUFFICES ASSUME SessionInv, [SessionNext]_sessionVars PROVE SessionInv'
    OBVIOUS
<1>1. CASE UNCHANGED sessionVars
    BY <1>1 DEF sessionVars, SessionInv, SessionTypeOK, Timely, ReadsAreRecent, MintedBefore,
                RefreshesSpan, LogoutSticks, RoleCatchesUp, Busy
<1>2. CASE HandleLogout
    BY <1>2, LogoutStep DEF HandleLogout
<1>3. CASE HandleRefreshToken
    BY <1>3, CompareStoredStep DEF HandleRefreshToken
<1>4. CASE HandleSetUserRole
    BY <1>4, SetUserRoleStep DEF HandleSetUserRole
<1> QED
    BY <1>1, <1>2, <1>3, <1>4, ReadRowStep, IssueTokensStep, SignInStep, SecondPassesStep,
       RefreshExpiresStep DEF SessionNext

-----------------------------------------------------------------------------

\* Every reachable state satisfies the invariant, and with it the type invariant.
THEOREM SessionInvariant == SessionSpec => []SessionInv
<1> QED  BY SessionInitHolds, SessionNextStep, PTL DEF SessionSpec

\* No refresh token is kept of whoever has logged out and had no request for tokens under way then, for
\* any number of logins, refreshes and logouts.  A login or refresh under way at the logout does store
\* its token afterwards (auth/service.go keeps no record of the logout): left does not count it.
THEOREM LogoutsStick == SessionSpec => []LogoutSticks
<1>1. SessionInv => LogoutSticks
    BY DEF SessionInv
<1> QED  BY <1>1, SessionInvariant, PTL

\* A token with an old role was minted at most Delay seconds after the role changed, for any
\* lifetime of the tokens.
THEOREM RolesCatchUp == SessionSpec => []RoleCatchesUp
<1>1. SessionInv => RoleCatchesUp
    BY DEF SessionInv
<1> QED  BY <1>1, SessionInvariant, PTL

-----------------------------------------------------------------------------
(* One-time codes and the accounts they lead to *)

CodeRows == [live : BOOLEAN, attempts : Nat, guesses : Nat]
UserRows == [tenant : Tenants \cup {"none"}, phone : {"none", "normal", "spelled"}, email : BOOLEAN, sub : BOOLEAN]
LoginRequests ==
  [at : {"idle", "expire", "invalidate", "create", "read", "compare", "account", "claim"},
   kind : Kinds, tenant : Tenants, code : Nat, fresh : BOOLEAN, account : Accounts \cup {"none"}]

\* The requests that are about to compare what they were given with code i.
Comparing(i) == {r \in Requests : request[r].at = "compare" /\ request[r].code = i}

CodesInHand == \A r \in Requests : request[r].at = "compare" => request[r].code \in DOMAIN codes

\* Who compares has found the code open: with them all, the attempts do not exceed the limit by more
\* than the requests but one.  What is guessed and not counted is a failure.
AttemptsBounded ==
  \A i \in DOMAIN codes :
    /\ codes[i].attempts + Cardinality(Comparing(i)) <= MaxAttempts + (Cardinality(Requests) - 1)
    /\ codes[i].guesses <= codes[i].attempts + faults

LoginInv == LoginTypeOK /\ CodesInHand /\ AttemptsBounded

-----------------------------------------------------------------------------
\* The types in the form the steps use.
LEMMA LoginTypes ==
  LoginTypeOK <=>
    /\ sends \in [n : 0 .. MaxSends + 1, ttl : BOOLEAN] /\ codes \in Seq(CodeRows)
    /\ users \in [Accounts -> UserRows] /\ referrals \in [Accounts -> Nat]
    /\ request \in [Requests -> LoginRequests] /\ faults \in 0 .. MaxFaults
BY DEF LoginTypeOK, CodeRows, UserRows, LoginRequests

LEMMA NoRequestTyped == NoRequest \in LoginRequests /\ NoRequest.at = "idle"
BY LoginAssumptions DEF NoRequest, LoginRequests, Kinds

LEMMA ComparingFinite ==
  \A i : /\ IsFiniteSet(Comparing(i)) /\ Cardinality(Comparing(i)) \in Nat
         /\ Cardinality(Comparing(i)) <= Cardinality(Requests) /\ Cardinality(Requests) \in Nat
<1> TAKE i
<1>1. Comparing(i) \in SUBSET Requests
    BY DEF Comparing
<1> QED  BY <1>1, LoginAssumptions, FS_Subset, FS_CardinalityType

\* A step of one request.
LEMMA RequestStep ==
  ASSUME request \in [Requests -> LoginRequests], NEW r \in Requests, NEW row \in LoginRequests,
         request' = [request EXCEPT ![r] = row]
  PROVE  request' \in [Requests -> LoginRequests] /\ \A q \in Requests : request'[q] = IF q = r THEN row ELSE request[q]
OBVIOUS

\* Codes that are dead are what they were otherwise, and nobody begins to compare.
LEMMA DeadCodesStep ==
  ASSUME LoginInv, LoginTypeOK', DOMAIN codes' = DOMAIN codes, faults <= faults',
         \A i \in DOMAIN codes : codes'[i].attempts = codes[i].attempts /\ codes'[i].guesses = codes[i].guesses,
         \A q \in Requests : request'[q].at = "compare" => request'[q] = request[q]
  PROVE  LoginInv'
<1>1. CodesInHand'
    BY DEF LoginInv, CodesInHand
<1>2. ASSUME NEW i \in DOMAIN codes
      PROVE  /\ codes'[i].attempts + Cardinality(Comparing(i)') <= MaxAttempts + (Cardinality(Requests) - 1)
             /\ codes'[i].guesses <= codes'[i].attempts + faults'
  <2>1. Comparing(i)' \in SUBSET Comparing(i)
      BY DEF Comparing
  <2>2. Cardinality(Comparing(i)') <= Cardinality(Comparing(i)) /\ Cardinality(Comparing(i)') \in Nat
      BY <2>1, ComparingFinite, FS_Subset, FS_CardinalityType
  <2>3. codes[i] \in CodeRows /\ faults \in Nat /\ faults' \in Nat
    <3>1. codes \in Seq(CodeRows)
        BY LoginTypes DEF LoginInv
    <3> QED  BY <3>1, LoginAssumptions DEF LoginInv, LoginTypeOK
  <2>4. codes[i].attempts \in Nat /\ codes[i].guesses \in Nat /\ MaxAttempts \in Nat
      BY <2>3, LoginAssumptions DEF CodeRows
  <2>5. /\ codes[i].attempts + Cardinality(Comparing(i)) <= MaxAttempts + (Cardinality(Requests) - 1)
        /\ codes[i].guesses <= codes[i].attempts + faults
      BY DEF LoginInv, AttemptsBounded
  <2>6. Cardinality(Comparing(i)) \in Nat /\ Cardinality(Requests) \in Nat
      BY ComparingFinite
  <2> QED  BY <2>2, <2>3, <2>4, <2>5, <2>6
<1>3. AttemptsBounded'
    BY <1>2 DEF AttemptsBounded
<1> QED  BY <1>1, <1>3 DEF LoginInv

\* A step after which nobody compares who has not compared before, and that leaves the codes alone.
LEMMA QuietStep ==
  ASSUME LoginInv, LoginTypeOK', UNCHANGED codes, faults <= faults',
         \A q \in Requests : request'[q].at = "compare" => request'[q] = request[q]
  PROVE  LoginInv'
BY DeadCodesStep

\* A request goes on to another statement than the comparison, or is answered, or begins.
LEMMA GotoStep ==
  ASSUME LoginInv, NEW r \in Requests,
         NEW pc \in {"idle", "expire", "invalidate", "create", "read", "account", "claim"},
         Goto(r, pc) \/ Answer(r)
  PROVE  /\ request' \in [Requests -> LoginRequests]
         /\ \A q \in Requests : request'[q].at = "compare" => request'[q] = request[q]
         /\ request'[r].at # "compare" /\ \A q \in Requests \ {r} : request'[q] = request[q]
<1>1. request \in [Requests -> LoginRequests]
    BY LoginTypes DEF LoginInv
<1>2. CASE Answer(r)
    BY <1>1, <1>2, NoRequestTyped DEF Answer
<1>3. CASE Goto(r, pc)
  <2> DEFINE row == [request[r] EXCEPT !.at = pc]
  <2>1. row \in LoginRequests /\ row.at # "compare" /\ request' = [request EXCEPT ![r] = row]
      BY <1>1, <1>3 DEF Goto, LoginRequests
  <2> HIDE DEF row
  <2>2. request' \in [Requests -> LoginRequests] /\ \A q \in Requests : request'[q] = IF q = r THEN row ELSE request[q]
      BY <1>1, <2>1, RequestStep
  <2> QED  BY <2>1, <2>2
<1> QED  BY <1>2, <1>3

LEMMA BeginStep ==
  ASSUME LoginInv, NEW r \in Requests, NEW row \in LoginRequests, row.at # "compare",
         request' = [request EXCEPT ![r] = row]
  PROVE  /\ request' \in [Requests -> LoginRequests]
         /\ \A q \in Requests : request'[q].at = "compare" => request'[q] = request[q]
<1>1. request \in [Requests -> LoginRequests]
    BY LoginTypes DEF LoginInv
<1> QED  BY <1>1, RequestStep

\* What may happen to the failures.
LEMMA FaultStep ==
  ASSUME LoginInv, NoFault \/ Fault
  PROVE  faults' \in 0 .. MaxFaults /\ faults <= faults'
BY LoginAssumptions DEF LoginInv, LoginTypeOK, NoFault, Fault

-----------------------------------------------------------------------------

LEMMA SendOTPStep == ASSUME LoginInv, NEW r \in Requests, SendOTP(r) PROVE LoginInv'
<1>1. sends \in [n : 0 .. MaxSends + 1, ttl : BOOLEAN] /\ UNCHANGED <<codes, users, referrals>>
    BY LoginTypes DEF LoginInv, SendOTP
<1>2. faults' \in 0 .. MaxFaults /\ faults <= faults'
    BY FaultStep DEF SendOTP
<1>3. CASE /\ sends' = [sends EXCEPT !.n = IF @ <= MaxSends THEN @ + 1 ELSE @]
           /\ request' = [request EXCEPT ![r] = [NoRequest EXCEPT
                !.at = IF sends.n = 0 THEN "expire"
                       ELSE IF sends'.n > MaxSends THEN "idle" ELSE "invalidate"]]
  <2> DEFINE pc == IF sends.n = 0 THEN "expire" ELSE IF sends'.n > MaxSends THEN "idle" ELSE "invalidate"
             row == [NoRequest EXCEPT !.at = pc]
  <2>1. pc \in {"expire", "idle", "invalidate"}
      OBVIOUS
  <2>2. row \in LoginRequests /\ row.at # "compare"
      BY <2>1, NoRequestTyped DEF LoginRequests
  <2>3. request' = [request EXCEPT ![r] = row]
      BY <1>3
  <2> HIDE DEF row, pc
  <2>4. sends' \in [n : 0 .. MaxSends + 1, ttl : BOOLEAN]
      BY <1>1, <1>3, LoginAssumptions
  <2>5. /\ request' \in [Requests -> LoginRequests]
        /\ \A q \in Requests : request'[q].at = "compare" => request'[q] = request[q]
      BY <2>2, <2>3, BeginStep
  <2>6. LoginTypeOK'
      BY <1>1, <1>2, <2>4, <2>5 DEF LoginInv, LoginTypeOK, LoginRequests
  <2> QED  BY <1>1, <1>2, <2>5, <2>6, QuietStep
<1>4. CASE Goto(r, "invalidate") /\ UNCHANGED sends
  <2>1. /\ request' \in [Requests -> LoginRequests]
        /\ \A q \in Requests : request'[q].at = "compare" => request'[q] = request[q]
      BY <1>4, GotoStep
  <2>2. LoginTypeOK'
      BY <1>1, <1>2, <1>4, <2>1 DEF LoginInv, LoginTypeOK, LoginRequests
  <2> QED  BY <1>1, <1>2, <2>1, <2>2, QuietStep
<1> QED  BY <1>3, <1>4 DEF SendOTP

LEMMA ExpireSendsStep == ASSUME LoginInv, NEW r \in Requests, ExpireSends(r) PROVE LoginInv'
<1>1. faults' \in 0 .. MaxFaults /\ faults <= faults' /\ UNCHANGED <<codes, users, referrals>>
    BY FaultStep DEF ExpireSends
<1>2. /\ request' \in [Requests -> LoginRequests]
      /\ \A q \in Requests : request'[q].at = "compare" => request'[q] = request[q]
    BY GotoStep DEF ExpireSends
<1>3. sends' \in [n : 0 .. MaxSends + 1, ttl : BOOLEAN]
    BY LoginTypes DEF LoginInv, ExpireSends
<1>4. LoginTypeOK'
    BY <1>1, <1>2, <1>3 DEF LoginInv, LoginTypeOK, LoginRequests
<1> QED  BY <1>1, <1>2, <1>4, QuietStep

LEMMA SendsExpireStep == LoginInv /\ SendsExpire => LoginInv'
<1> SUFFICES ASSUME LoginInv, SendsExpire PROVE LoginInv'
    OBVIOUS
<1>1. UNCHANGED <<codes, users, referrals, request, faults>> /\ sends' \in [n : 0 .. MaxSends + 1, ttl : BOOLEAN]
    BY LoginAssumptions DEF SendsExpire
<1>2. LoginTypeOK' /\ faults <= faults'
    BY <1>1, LoginAssumptions DEF LoginInv, LoginTypeOK
<1> QED  BY <1>1, <1>2, QuietStep

LEMMA InvalidateStep == ASSUME LoginInv, NEW r \in Requests, InvalidateOlderSmsCodes(r) PROVE LoginInv'
<1>1. faults' \in 0 .. MaxFaults /\ faults <= faults' /\ UNCHANGED <<sends, users, referrals>>
    BY FaultStep DEF InvalidateOlderSmsCodes
<1>2. /\ request' \in [Requests -> LoginRequests]
      /\ \A q \in Requests : request'[q].at = "compare" => request'[q] = request[q]
    BY GotoStep DEF InvalidateOlderSmsCodes
<1>3. CASE UNCHANGED codes
  <2>1. LoginTypeOK'
      BY <1>1, <1>2, <1>3 DEF LoginInv, LoginTypeOK, LoginRequests
  <2> QED  BY <1>1, <1>2, <1>3, <2>1, QuietStep
<1>4. CASE codes' = [i \in DOMAIN codes |-> [codes[i] EXCEPT !.live = FALSE]]
  <2>1. codes \in Seq(CodeRows) /\ \A i \in DOMAIN codes : codes[i] \in CodeRows
      BY LoginTypes DEF LoginInv
  <2>2. \A i \in DOMAIN codes : /\ codes'[i] \in CodeRows
                                /\ codes'[i].attempts = codes[i].attempts /\ codes'[i].guesses = codes[i].guesses
      BY <1>4, <2>1 DEF CodeRows
  <2>3. codes' \in Seq(CodeRows) /\ DOMAIN codes' = DOMAIN codes
    <3>1. DOMAIN codes = 1 .. Len(codes) /\ Len(codes) \in Nat
        BY <2>1
    <3>2. codes' \in [1 .. Len(codes) -> CodeRows]
        BY <1>4, <2>2, <3>1
    <3> QED  BY <3>1, <3>2, SeqDef
  <2>4. LoginTypeOK'
      BY <1>1, <1>2, <2>3 DEF LoginInv, LoginTypeOK, LoginRequests, CodeRows
  <2> QED  BY <1>1, <1>2, <2>2, <2>3, <2>4, DeadCodesStep
<1> QED  BY <1>3, <1>4 DEF InvalidateOlderSmsCodes

LEMMA CodeExpiresStep == ASSUME LoginInv, NEW i \in DOMAIN codes, CodeExpires(i) PROVE LoginInv'
<1> DEFINE row == [codes[i] EXCEPT !.live = FALSE]
<1>1. codes' = [codes EXCEPT ![i] = row] /\ UNCHANGED <<sends, users, referrals, request, faults>>
    BY DEF CodeExpires
<1>2. codes \in Seq(CodeRows) /\ codes[i] \in CodeRows
    BY LoginTypes DEF LoginInv
<1>3. row \in CodeRows /\ row.attempts = codes[i].attempts /\ row.guesses = codes[i].guesses
    BY <1>2 DEF CodeRows
<1> HIDE DEF row
<1>4. codes' \in Seq(CodeRows) /\ DOMAIN codes' = DOMAIN codes /\ \A j \in DOMAIN codes : codes'[j] = IF j = i THEN row ELSE codes[j]
    BY <1>1, <1>2, <1>3
<1>5. LoginTypeOK' /\ faults <= faults'
    BY <1>1, <1>4 DEF LoginInv, LoginTypeOK, CodeRows
<1> QED  BY <1>1, <1>3, <1>4, <1>5, DeadCodesStep

LEMMA ConsumeStep == ASSUME LoginInv, NEW r \in Requests, ConsumeSmsCode(r) PROVE LoginInv'
<1> DEFINE i == request[r].code
           row == [codes[i] EXCEPT !.live = FALSE]
<1>1. codes' = [codes EXCEPT ![i] = row] /\ UNCHANGED <<sends, users, referrals, faults>> /\ i \in DOMAIN codes
    BY DEF ConsumeSmsCode, LoginInv, CodesInHand
<1>2. codes \in Seq(CodeRows) /\ codes[i] \in CodeRows
    BY <1>1, LoginTypes DEF LoginInv
<1>3. row \in CodeRows /\ row.attempts = codes[i].attempts /\ row.guesses = codes[i].guesses
    BY <1>2 DEF CodeRows
<1>4. /\ request' \in [Requests -> LoginRequests]
      /\ \A q \in Requests : request'[q].at = "compare" => request'[q] = request[q]
    BY GotoStep DEF ConsumeSmsCode
<1> HIDE DEF row, i
<1>5. codes' \in Seq(CodeRows) /\ DOMAIN codes' = DOMAIN codes /\ \A j \in DOMAIN codes : codes'[j] = IF j = i THEN row ELSE codes[j]
    BY <1>1, <1>2, <1>3
<1>6. LoginTypeOK' /\ faults <= faults'
    BY <1>1, <1>4, <1>5 DEF LoginInv, LoginTypeOK, CodeRows, LoginRequests
<1> QED  BY <1>1, <1>3, <1>4, <1>5, <1>6, DeadCodesStep

\* Nobody has read the code that is made now.
LEMMA CreateSmsCodeStep == ASSUME LoginInv, NEW r \in Requests, CreateSmsCode(r) PROVE LoginInv'
<1> DEFINE row == [live |-> TRUE, attempts |-> 0, guesses |-> 0]
<1>1. codes' = Append(codes, row) /\ UNCHANGED <<sends, users, referrals, faults>>
    BY DEF CreateSmsCode
<1>2. codes \in Seq(CodeRows) /\ row \in CodeRows /\ row.attempts = 0 /\ row.guesses = 0
    BY LoginTypes DEF LoginInv, CodeRows
<1>3. /\ request' \in [Requests -> LoginRequests]
      /\ \A q \in Requests : request'[q].at = "compare" => request'[q] = request[q]
    BY GotoStep DEF CreateSmsCode
<1> HIDE DEF row
<1>4. /\ codes' \in Seq(CodeRows) /\ DOMAIN codes' = DOMAIN codes \cup {Len(codes) + 1} /\ Len(codes) + 1 \notin DOMAIN codes
      /\ codes'[Len(codes) + 1] = row /\ \A j \in DOMAIN codes : codes'[j] = codes[j]
    BY <1>1, <1>2
<1>5. LoginTypeOK'
    BY <1>1, <1>3, <1>4 DEF LoginInv, LoginTypeOK, CodeRows, LoginRequests
<1>6. CodesInHand'
    BY <1>3, <1>4 DEF LoginInv, CodesInHand
<1>7. ASSUME NEW i \in DOMAIN codes'
      PROVE  /\ codes'[i].attempts + Cardinality(Comparing(i)') <= MaxAttempts + (Cardinality(Requests) - 1)
             /\ codes'[i].guesses <= codes'[i].attempts + faults'
  <2>1. Cardinality(Requests) \in Nat /\ faults \in Nat /\ faults' = faults /\ MaxAttempts \in Nat \ {0}
    <3>1. Cardinality(Requests) \in Nat
        BY ComparingFinite
    <3> QED  BY <1>1, <3>1, LoginAssumptions DEF LoginInv, LoginTypeOK
  <2>2. CASE i = Len(codes) + 1
    <3>1. Comparing(i)' = {}
        BY <1>3, <1>4, <2>2 DEF LoginInv, CodesInHand, Comparing
    <3>2. Cardinality(Comparing(i)') = 0
        BY <3>1, FS_EmptySet
    <3> QED  BY <1>2, <1>4, <2>1, <2>2, <3>2
  <2>3. CASE i \in DOMAIN codes
    <3>1. Comparing(i)' \in SUBSET Comparing(i)
        BY <1>3 DEF Comparing
    <3>2. /\ Cardinality(Comparing(i)') <= Cardinality(Comparing(i))
          /\ Cardinality(Comparing(i)') \in Nat /\ Cardinality(Comparing(i)) \in Nat
        BY <3>1, ComparingFinite, FS_Subset, FS_CardinalityType
    <3>3. codes[i].attempts \in Nat /\ codes[i].guesses \in Nat /\ codes'[i] = codes[i]
      <4>1. codes[i] \in CodeRows /\ codes'[i] = codes[i]
          BY <1>2, <1>4, <2>3
      <4> QED  BY <4>1 DEF CodeRows
    <3>4. /\ codes[i].attempts + Cardinality(Comparing(i)) <= MaxAttempts + (Cardinality(Requests) - 1)
          /\ codes[i].guesses <= codes[i].attempts + faults
        BY <2>3 DEF LoginInv, AttemptsBounded
    <3> QED  BY <2>1, <3>2, <3>3, <3>4
  <2> QED  BY <1>4, <2>2, <2>3
<1> QED  BY <1>5, <1>6, <1>7 DEF LoginInv, AttemptsBounded

LEMMA LoginWithOTPStep == ASSUME LoginInv, NEW r \in Requests, NEW t \in Tenants, LoginWithOTP(r, t) PROVE LoginInv'
<1> DEFINE fresh == GetUserByPhone(t) = {}
           row == [NoRequest EXCEPT !.at = "read", !.kind = "login", !.tenant = t, !.fresh = fresh]
<1>1. fresh \in BOOLEAN
    OBVIOUS
<1>2. request' = [request EXCEPT ![r] = row] /\ UNCHANGED <<sends, codes, users, referrals, faults>>
    BY DEF LoginWithOTP
<1> HIDE DEF fresh
<1>3. row \in LoginRequests /\ row.at # "compare"
    BY <1>1, NoRequestTyped DEF LoginRequests, Kinds
<1> HIDE DEF row
<1>4. /\ request' \in [Requests -> LoginRequests]
      /\ \A q \in Requests : request'[q].at = "compare" => request'[q] = request[q]
    BY <1>2, <1>3, BeginStep
<1>5. LoginTypeOK' /\ faults <= faults'
    BY <1>2, <1>4 DEF LoginInv, LoginTypeOK, LoginRequests
<1> QED  BY <1>2, <1>4, <1>5, QuietStep

LEMMA LinkPhoneStep ==
  ASSUME LoginInv, NEW r \in Requests, NEW a \in Accounts, NEW t \in Tenants, LinkPhone(r, a, t)
  PROVE  LoginInv'
<1> DEFINE row == [NoRequest EXCEPT !.at = "read", !.kind = "link", !.tenant = t, !.account = a]
<1>1. request' = [request EXCEPT ![r] = row] /\ UNCHANGED <<sends, codes, users, referrals, faults>>
    BY DEF LinkPhone
<1>2. row \in LoginRequests /\ row.at # "compare"
    BY NoRequestTyped DEF LoginRequests, Kinds
<1> HIDE DEF row
<1>3. /\ request' \in [Requests -> LoginRequests]
      /\ \A q \in Requests : request'[q].at = "compare" => request'[q] = request[q]
    BY <1>1, <1>2, BeginStep
<1>4. LoginTypeOK' /\ faults <= faults'
    BY <1>1, <1>3 DEF LoginInv, LoginTypeOK, LoginRequests
<1> QED  BY <1>1, <1>3, <1>4, QuietStep

\* The step that makes one more request compare: with a code that is not locked.
LEMMA GetLatestSmsCodeStep == ASSUME LoginInv, NEW r \in Requests, GetLatestSmsCode(r) PROVE LoginInv'
<1>1. UNCHANGED <<sends, codes, users, referrals, faults>>
    BY DEF GetLatestSmsCode
<1>2. CASE Answer(r)
  <2>1. /\ request' \in [Requests -> LoginRequests]
        /\ \A q \in Requests : request'[q].at = "compare" => request'[q] = request[q]
      BY <1>2, GotoStep
  <2>2. LoginTypeOK' /\ faults <= faults'
      BY <1>1, <2>1 DEF LoginInv, LoginTypeOK, LoginRequests
  <2> QED  BY <1>1, <2>1, <2>2, QuietStep
<1>3. ASSUME NEW i \in DOMAIN codes, ~Locked(i), request' = [request EXCEPT ![r].at = "compare", ![r].code = i]
      PROVE  LoginInv'
  <2> DEFINE row == [request[r] EXCEPT !.at = "compare", !.code = i]
  <2>1. request \in [Requests -> LoginRequests] /\ codes \in Seq(CodeRows)
      BY LoginTypes DEF LoginInv
  <2>2. i \in Nat /\ \A j \in DOMAIN codes : codes[j] \in CodeRows
      BY <2>1
  <2>3. row \in LoginRequests /\ row.at = "compare" /\ row.code = i
      BY <2>1, <2>2 DEF LoginRequests
  <2>4. request' = [request EXCEPT ![r] = row]
      BY <1>3
  <2> HIDE DEF row
  <2>5. request' \in [Requests -> LoginRequests] /\ \A q \in Requests : request'[q] = IF q = r THEN row ELSE request[q]
      BY <2>1, <2>3, <2>4, RequestStep
  <2>6. LoginTypeOK'
      BY <1>1, <2>5 DEF LoginInv, LoginTypeOK, LoginRequests
  <2>7. CodesInHand'
      BY <1>1, <2>3, <2>5 DEF LoginInv, CodesInHand
  <2>8. ASSUME NEW j \in DOMAIN codes
        PROVE  codes[j].attempts + Cardinality(Comparing(j)') <= MaxAttempts + (Cardinality(Requests) - 1)
    <3>1. codes[j].attempts \in Nat /\ MaxAttempts \in Nat /\ Cardinality(Requests) \in Nat
        BY <2>2, LoginAssumptions, ComparingFinite DEF CodeRows
    <3>2. CASE j = i
      <4>1. Comparing(j)' \in SUBSET Requests
          BY DEF Comparing
      <4>2. Cardinality(Comparing(j)') \in Nat /\ Cardinality(Comparing(j)') <= Cardinality(Requests)
          BY <4>1, LoginAssumptions, FS_Subset, FS_CardinalityType
      <4>3. codes[j].attempts < MaxAttempts
          BY <1>3, <3>1, <3>2 DEF Locked
      <4> QED  BY <3>1, <4>2, <4>3
    <3>3. CASE j # i
      <4>1. Comparing(j)' \in SUBSET Comparing(j)
          BY <2>3, <2>5, <3>3 DEF Comparing
      <4>2. /\ Cardinality(Comparing(j)') <= Cardinality(Comparing(j))
            /\ Cardinality(Comparing(j)') \in Nat /\ Cardinality(Comparing(j)) \in Nat
          BY <4>1, ComparingFinite, FS_Subset, FS_CardinalityType
      <4>3. codes[j].attempts + Cardinality(Comparing(j)) <= MaxAttempts + (Cardinality(Requests) - 1)
          BY DEF LoginInv, AttemptsBounded
      <4> QED  BY <3>1, <4>2, <4>3
    <3> QED  BY <3>2, <3>3
  <2>9. AttemptsBounded'
      BY <1>1, <2>8 DEF LoginInv, AttemptsBounded
  <2> QED  BY <2>6, <2>7, <2>9 DEF LoginInv
<1> QED  BY <1>2, <1>3 DEF GetLatestSmsCode

LEMMA CodeGuessed ==
  ASSUME NEW c \in CodeRows
  PROVE  LET row == [c EXCEPT !.attempts = @ + 1, !.guesses = @ + 1]
         IN  row \in CodeRows /\ row.guesses = c.guesses + 1 /\ row.attempts = c.attempts + 1
<1> DEFINE tried == [c EXCEPT !.attempts = @ + 1]
           row == [tried EXCEPT !.guesses = @ + 1]
<1>1. tried \in CodeRows /\ tried.guesses = c.guesses /\ tried.attempts = c.attempts + 1
    BY DEF CodeRows
<1>2. row = [c EXCEPT !.attempts = @ + 1, !.guesses = @ + 1]
    BY <1>1, Zenon
<1> HIDE DEF tried
<1>3. row \in CodeRows /\ row.guesses = c.guesses + 1 /\ row.attempts = c.attempts + 1
    BY <1>1 DEF CodeRows
<1> QED  BY <1>2, <1>3

\* A guess that is counted, or one more failure; either way one request compares no longer.
LEMMA WrongCodeStep == ASSUME LoginInv, NEW r \in Requests, WrongCode(r) PROVE LoginInv'
<1> DEFINE i == request[r].code
<1>1. /\ request[r].at = "compare" /\ i \in DOMAIN codes /\ UNCHANGED <<sends, users, referrals>>
      /\ request' = [request EXCEPT ![r] = NoRequest]
    BY DEF WrongCode, LoginInv, CodesInHand, Answer
<1>2. codes \in Seq(CodeRows) /\ request \in [Requests -> LoginRequests] /\ faults \in 0 .. MaxFaults
    BY LoginTypes DEF LoginInv
<1>3. PICK row \in CodeRows :
        /\ codes' = [codes EXCEPT ![i] = row]
        /\ row.guesses = codes[i].guesses + 1
        /\ \/ faults' = faults /\ row.attempts = codes[i].attempts + 1
           \/ faults' = faults + 1 /\ faults' \in 0 .. MaxFaults /\ row.attempts = codes[i].attempts
  <2>1. codes[i] \in CodeRows
      BY <1>1, <1>2
  <2>2. CASE NoFault /\ codes' = [codes EXCEPT ![i].attempts = @ + 1, ![i].guesses = @ + 1]
    <3> DEFINE row == [codes[i] EXCEPT !.attempts = @ + 1, !.guesses = @ + 1]
    <3>1. row \in CodeRows /\ row.guesses = codes[i].guesses + 1 /\ row.attempts = codes[i].attempts + 1
        BY <2>1, CodeGuessed
    <3>2. codes' = [codes EXCEPT ![i] = row]
        BY <1>1, <1>2, <2>2
    <3> QED  BY <2>2, <3>1, <3>2 DEF NoFault
  <2>3. CASE Fault /\ codes' = [codes EXCEPT ![i].guesses = @ + 1]
    <3> DEFINE row == [codes[i] EXCEPT !.guesses = @ + 1]
    <3>1. row \in CodeRows /\ row.guesses = codes[i].guesses + 1 /\ row.attempts = codes[i].attempts
        BY <2>1 DEF CodeRows
    <3>2. codes' = [codes EXCEPT ![i] = row]
        BY <1>1, <1>2, <2>3
    <3>3. faults' = faults + 1 /\ faults' \in 0 .. MaxFaults
        BY <1>2, <2>3, LoginAssumptions DEF Fault
    <3> QED  BY <3>1, <3>2, <3>3
  <2> QED  BY <2>2, <2>3 DEF WrongCode
<1> HIDE DEF i
<1>4. /\ codes' \in Seq(CodeRows) /\ DOMAIN codes' = DOMAIN codes /\ codes'[i] = row
      /\ \A j \in DOMAIN codes \ {i} : codes'[j] = codes[j]
    BY <1>1, <1>2, <1>3
<1>5. request' \in [Requests -> LoginRequests] /\ \A q \in Requests : request'[q] = IF q = r THEN NoRequest ELSE request[q]
    BY <1>1, <1>2, NoRequestTyped
<1>6. LoginTypeOK'
    BY <1>1, <1>2, <1>3, <1>4, <1>5 DEF LoginInv, LoginTypeOK, CodeRows, LoginRequests
<1>7. CodesInHand'
    BY <1>4, <1>5, NoRequestTyped DEF LoginInv, CodesInHand
<1>8. ASSUME NEW j \in DOMAIN codes
      PROVE  /\ codes'[j].attempts + Cardinality(Comparing(j)') <= MaxAttempts + (Cardinality(Requests) - 1)
             /\ codes'[j].guesses <= codes'[j].attempts + faults'
  <2>1. /\ MaxAttempts \in Nat /\ Cardinality(Requests) \in Nat /\ Cardinality(Comparing(j)) \in Nat
        /\ faults \in Nat /\ faults' \in Nat /\ faults <= faults'
      BY <1>2, <1>3, LoginAssumptions, ComparingFinite
  <2>2. codes[j].attempts \in Nat /\ codes[j].guesses \in Nat
    <3>1. codes[j] \in CodeRows
        BY <1>2
    <3> QED  BY <3>1 DEF CodeRows
  <2>3. /\ codes[j].attempts + Cardinality(Comparing(j)) <= MaxAttempts + (Cardinality(Requests) - 1)
        /\ codes[j].guesses <= codes[j].attempts + faults
      BY DEF LoginInv, AttemptsBounded
  <2>4. CASE j = i
    <3>1. Comparing(j)' = Comparing(j) \ {r} /\ r \in Comparing(j)
        BY <1>1, <1>5, <2>4, NoRequestTyped DEF Comparing, i
    <3>2. Cardinality(Comparing(j)') = Cardinality(Comparing(j)) - 1
        BY <3>1, ComparingFinite, FS_RemoveElement
    <3>3. /\ codes'[j].guesses = codes[j].guesses + 1
          /\ \/ faults' = faults /\ codes'[j].attempts = codes[j].attempts + 1
             \/ faults' = faults + 1 /\ codes'[j].attempts = codes[j].attempts
        BY <1>3, <1>4, <2>4
    <3> QED  BY <2>1, <2>2, <2>3, <3>2, <3>3
  <2>5. CASE j # i
    <3>1. Comparing(j)' \in SUBSET Comparing(j)
        BY <1>5, NoRequestTyped DEF Comparing
    <3>2. Cardinality(Comparing(j)') <= Cardinality(Comparing(j)) /\ Cardinality(Comparing(j)') \in Nat
        BY <3>1, ComparingFinite, FS_Subset, FS_CardinalityType
    <3>3. codes'[j] = codes[j]
        BY <1>4, <2>5
    <3> QED  BY <2>1, <2>2, <2>3, <3>2, <3>3
  <2> QED  BY <2>4, <2>5
<1>9. AttemptsBounded'
    BY <1>4, <1>8 DEF AttemptsBounded
<1> QED  BY <1>6, <1>7, <1>9 DEF LoginInv

-----------------------------------------------------------------------------
(* The accounts *)

LEMMA NoUserTyped ==
  /\ NoUser \in UserRows
  /\ \A t \in Tenants, p \in {"normal", "spelled"} : [NoUser EXCEPT !.tenant = t, !.phone = p] \in UserRows
  /\ \A t \in Tenants : [NoUser EXCEPT !.tenant = t, !.email = TRUE, !.sub = TRUE] \in UserRows
BY DEF NoUser, UserRows

\* A step that changes the account of a, if there is such an account.
LEMMA UserStep ==
  ASSUME users \in [Accounts -> UserRows], NEW a, NEW row, a \in Accounts => row \in UserRows,
         users' = [users EXCEPT ![a] = row]
  PROVE  users' \in [Accounts -> UserRows]
<1>1. CASE a \in Accounts
    BY <1>1
<1>2. CASE a \notin Accounts
  <2>1. users' = users
      BY <1>2
  <2> QED  BY <2>1
<1> QED  BY <1>1, <1>2

LEMMA VerifiedStep ==
  ASSUME LoginInv, NEW r \in Requests, NEW a \in Accounts, Verified(r, a)
  PROVE  /\ referrals' \in [Accounts -> Nat] /\ request' \in [Requests -> LoginRequests]
         /\ \A q \in Requests : request'[q].at = "compare" => request'[q] = request[q]
<1>1. referrals \in [Accounts -> Nat]
    BY LoginTypes DEF LoginInv
<1>2. referrals' \in [Accounts -> Nat]
    BY <1>1 DEF Verified, AttachToSignup
<1>3. Answer(r) \/ Goto(r, "claim")
    BY DEF Verified
<1> QED  BY <1>2, <1>3, GotoStep

LEMMA FindOrCreateStep == ASSUME LoginInv, NEW r \in Requests, FindOrCreate(r) PROVE LoginInv'
<1> DEFINE t == request[r].tenant
<1>1. UNCHANGED <<sends, codes, faults>> /\ users \in [Accounts -> UserRows] /\ t \in Tenants
  <2>1. request[r] \in LoginRequests
      BY LoginTypes DEF LoginInv
  <2> QED  BY <2>1, LoginTypes DEF LoginInv, FindOrCreate, LoginRequests
<1>2. PICK a \in Accounts : users' \in [Accounts -> UserRows] /\ Verified(r, a)
  <2>1. CASE GetUserByPhone(t) # {}
      BY <1>1, <2>1 DEF FindOrCreate, GetUserByPhone
  <2>2. CASE GetUserByPhone(t) = {}
    <3>1. PICK a \in Accounts : users' = [users EXCEPT ![a] = [NoUser EXCEPT !.tenant = t, !.phone = "normal"]] /\ Verified(r, a)
        BY <2>2 DEF FindOrCreate
    <3>2. [NoUser EXCEPT !.tenant = t, !.phone = "normal"] \in UserRows
        BY <1>1, NoUserTyped
    <3> QED  BY <1>1, <3>1, <3>2
  <2> QED  BY <2>1, <2>2
<1>3. /\ referrals' \in [Accounts -> Nat] /\ request' \in [Requests -> LoginRequests]
      /\ \A q \in Requests : request'[q].at = "compare" => request'[q] = request[q]
    BY <1>2, VerifiedStep
<1>4. LoginTypeOK' /\ faults <= faults'
    BY <1>1, <1>2, <1>3 DEF LoginInv, LoginTypeOK, LoginRequests, UserRows
<1> QED  BY <1>1, <1>3, <1>4, QuietStep

LEMMA ClaimStep == ASSUME LoginInv, NEW r \in Requests, Claim(r) PROVE LoginInv'
<1> DEFINE a == request[r].account
<1>1. UNCHANGED <<sends, codes, referrals, faults>> /\ users \in [Accounts -> UserRows]
    BY LoginTypes DEF LoginInv, Claim
<1>2. users' = [users EXCEPT ![a] = [users[a] EXCEPT !.phone = "normal"]] \/ users' = users
    BY DEF Claim
<1>3. users' \in [Accounts -> UserRows]
  <2>1. a \in Accounts => [users[a] EXCEPT !.phone = "normal"] \in UserRows
      BY <1>1 DEF UserRows
  <2> QED  BY <1>1, <1>2, <2>1, UserStep
<1>4. /\ request' \in [Requests -> LoginRequests]
      /\ \A q \in Requests : request'[q].at = "compare" => request'[q] = request[q]
    BY GotoStep DEF Claim
<1>5. LoginTypeOK' /\ faults <= faults'
    BY <1>1, <1>3, <1>4 DEF LoginInv, LoginTypeOK, LoginRequests, UserRows
<1> QED  BY <1>1, <1>4, <1>5, QuietStep

\* Whatever else changes an account: Google, and the admins.
LEMMA AccountStep ==
  ASSUME LoginInv, \/ \E t \in Tenants : LoginWithGoogle(t)
                   \/ \E a \in Accounts : LinkGoogle(a)
                   \/ \E a \in Accounts, t \in Tenants, p \in {"normal", "spelled"} : Register(a, t, p)
  PROVE  LoginInv'
<1>1. UNCHANGED <<sends, codes, referrals, request, faults>> /\ users \in [Accounts -> UserRows]
    BY LoginTypes DEF LoginInv, LoginWithGoogle, LinkGoogle, Register
<1>2. ASSUME NEW a \in Accounts, users' = [users EXCEPT ![a].sub = TRUE]
      PROVE  users' \in [Accounts -> UserRows]
  <2>1. [users[a] EXCEPT !.sub = TRUE] \in UserRows /\ users' = [users EXCEPT ![a] = [users[a] EXCEPT !.sub = TRUE]]
      BY <1>1, <1>2 DEF UserRows
  <2> QED  BY <1>1, <2>1, UserStep
<1>3. users' \in [Accounts -> UserRows]
  <2>1. CASE \E t \in Tenants : LoginWithGoogle(t)
    <3>1. PICK t \in Tenants : LoginWithGoogle(t)
        BY <2>1
    <3>2. \E a \in Accounts : \/ users' = [users EXCEPT ![a].sub = TRUE]
                              \/ users' = [users EXCEPT ![a] = [NoUser EXCEPT !.tenant = t, !.email = TRUE, !.sub = TRUE]]
        BY <3>1 DEF LoginWithGoogle, GetUserByEmail
    <3> QED  BY <1>1, <1>2, <3>2, NoUserTyped
  <2>2. CASE \E a \in Accounts : LinkGoogle(a)
      BY <1>2, <2>2 DEF LinkGoogle
  <2>3. CASE \E a \in Accounts, t \in Tenants, p \in {"normal", "spelled"} : Register(a, t, p)
    <3>1. PICK a \in Accounts, t \in Tenants, p \in {"normal", "spelled"} :
            users' = [users EXCEPT ![a] = [NoUser EXCEPT !.tenant = t, !.phone = p]]
        BY <2>3 DEF Register
    <3>2. [NoUser EXCEPT !.tenant = t, !.phone = p] \in UserRows
        BY NoUserTyped
    <3> QED  BY <1>1, <3>1, <3>2, UserStep
  <2> QED  BY <2>1, <2>2, <2>3
<1>4. LoginTypeOK' /\ faults <= faults'
    BY <1>1, <1>3 DEF LoginInv, LoginTypeOK, UserRows
<1> QED  BY <1>1, <1>4, QuietStep

LEMMA LoginInitHolds == LoginInit => LoginInv
<1> SUFFICES ASSUME LoginInit PROVE LoginInv
    OBVIOUS
<1>1. LoginTypeOK
  <2>1. codes \in Seq(CodeRows) /\ sends \in [n : 0 .. MaxSends + 1, ttl : BOOLEAN] /\ faults \in 0 .. MaxFaults
      BY LoginAssumptions DEF LoginInit
  <2>2. users \in [Accounts -> UserRows] /\ referrals \in [Accounts -> Nat] /\ request \in [Requests -> LoginRequests]
      BY NoRequestTyped, NoUserTyped DEF LoginInit
  <2> QED  BY <2>1, <2>2, LoginTypes
<1>2. CodesInHand /\ AttemptsBounded
    BY NoRequestTyped DEF LoginInit, CodesInHand, AttemptsBounded
<1> QED  BY <1>1, <1>2 DEF LoginInv

LEMMA LoginNextStep == LoginInv /\ [LoginNext]_loginVars => LoginInv'
<1> SUFFICES ASSUME LoginInv, [LoginNext]_loginVars PROVE LoginInv'
    OBVIOUS
<1>1. CASE UNCHANGED loginVars
  <2>1. LoginTypeOK' /\ faults <= faults'
      BY <1>1, LoginAssumptions DEF loginVars, LoginInv, LoginTypeOK
  <2> QED  BY <1>1, <2>1, QuietStep DEF loginVars
<1>2. CASE HandleSendOtp
    BY <1>2, SendOTPStep DEF HandleSendOtp
<1>3. CASE HandleVerifyOtp
    BY <1>3, LoginWithOTPStep DEF HandleVerifyOtp
<1>4. CASE HandleLinkPhone
    BY <1>4, LinkPhoneStep DEF HandleLinkPhone
<1>5. CASE HandleGoogleSignIn \/ HandleLinkGoogle \/ RegisterAdmin
    BY <1>5, AccountStep DEF HandleGoogleSignIn, HandleLinkGoogle, RegisterAdmin
<1> QED
    BY <1>1, <1>2, <1>3, <1>4, <1>5, ExpireSendsStep, InvalidateStep, CreateSmsCodeStep, GetLatestSmsCodeStep,
       WrongCodeStep, ConsumeStep, FindOrCreateStep, ClaimStep, SendsExpireStep, CodeExpiresStep DEF LoginNext

\* Every reachable state satisfies the invariant, and with it the type invariant.
THEOREM LoginInvariant == LoginSpec => []LoginInv
<1> QED  BY LoginInitHolds, LoginNextStep, PTL DEF LoginSpec

\* A code is guessed no more often than MaxAttempts allows and the requests add that had read it
\* before it was locked, for any number of requests; a guess that could not be counted adds one.
THEOREM GuessesAlwaysBounded == LoginSpec => []GuessesBounded
<1>1. LoginInv => GuessesBounded
  <2> SUFFICES ASSUME LoginInv, NEW i \in DOMAIN codes
               PROVE  codes[i].guesses <= MaxAttempts + (Cardinality(Requests) - 1) + faults
      BY DEF GuessesBounded
  <2>1. /\ codes[i].attempts + Cardinality(Comparing(i)) <= MaxAttempts + (Cardinality(Requests) - 1)
        /\ codes[i].guesses <= codes[i].attempts + faults
      BY DEF LoginInv, AttemptsBounded
  <2>2. codes[i] \in CodeRows /\ faults \in 0 .. MaxFaults
      BY LoginTypes DEF LoginInv
  <2>3. codes[i].attempts \in Nat /\ codes[i].guesses \in Nat /\ faults \in Nat /\ MaxAttempts \in Nat
      BY <2>2, LoginAssumptions DEF CodeRows
  <2>4. Cardinality(Comparing(i)) \in Nat /\ Cardinality(Requests) \in Nat
      BY ComparingFinite
  <2> QED  BY <2>1, <2>3, <2>4
<1> QED  BY <1>1, LoginInvariant, PTL

-----------------------------------------------------------------------------
(* The creation of a tenant *)

TenantRows ==
  [status : TenantStatuses \cup {"none"}, code : OrgCodes \cup {"none"}, slug : (Names \cup {"none"}) \X {0, 1},
   admin : BOOLEAN, member : BOOLEAN, features : BOOLEAN, owner : BOOLEAN,
   domain : Domains \cup {"none"}, welcomed : BOOLEAN, decided : BOOLEAN, missed : SUBSET Ignored]

Forms ==
  [at : {"idle", "tenant", "admin", "member", "features", "plan", "answer"},
   code : OrgCodes \cup {"none"}, slug : (Names \cup {"none"}) \X {0, 1}, tenant : TenantIds \cup {"none"}]

WithRow == {"admin", "member", "features", "plan", "answer"}

\* The status of a row nobody has decided on: a trial, once it has begun.
Undecided(began, row) == ~row.decided => row.status = IF began /\ "plan" \notin row.missed THEN "trial" ELSE "active"

\* The row of a tenant whose onboarding is about to execute the statement at.
Reached(at, row) ==
  /\ row.status # "none" /\ ~row.welcomed
  /\ at # "admin" => row.admin
  /\ at \in {"features", "plan", "answer"} => row.member \/ "member" \in row.missed
  /\ at \in {"plan", "answer"} => row.features \/ "features" \in row.missed
  /\ at # "answer" => "plan" \notin row.missed
  /\ Undecided(at = "answer", row)

Complete(row) ==
  row.welcomed =>
    /\ row.admin
    /\ row.member \/ "member" \in row.missed
    /\ row.features \/ "features" \in row.missed
    /\ Undecided(TRUE, row)

\* Every onboarding has left behind it what its place says, whatever others have done to the row.
OnboardingsOnWay ==
  \A o \in Onboardings : onboarding[o].at \in WithRow =>
    onboarding[o].tenant \in TenantIds /\ Reached(onboarding[o].at, tenants[onboarding[o].tenant])

\* No two onboardings are at the same row.
RowsOfTheirOwn ==
  \A o, q \in Onboardings :
    onboarding[o].at \in WithRow /\ onboarding[q].at \in WithRow /\ onboarding[o].tenant = onboarding[q].tenant => o = q

TenancyInv == TenancyTypeOK /\ OnboardingsOnWay /\ RowsOfTheirOwn /\ \A t \in TenantIds : Complete(tenants[t])

-----------------------------------------------------------------------------
\* The types in the form the steps use.
LEMMA TenancyTypes ==
  TenancyTypeOK <=>
    tenants \in [TenantIds -> TenantRows] /\ onboarding \in [Onboardings -> Forms] /\ breaks \in 0 .. MaxBreaks
BY DEF TenancyTypeOK, TenantRows, Forms

\* What a super admin does to a row: nothing that an onboarding relies on is taken from it, and its
\* status changes by a decision only.
Edited(row, new) ==
  /\ row.status # "none" => new.status # "none"
  /\ (row.admin => new.admin) /\ (row.member => new.member) /\ (row.features => new.features)
  /\ new.missed = row.missed /\ new.welcomed = row.welcomed
  /\ new.decided \/ (~row.decided /\ new.status = row.status)

LEMMA EditedReached ==
  ASSUME NEW row, NEW new, Edited(row, new), NEW at, Reached(at, row)
  PROVE  Reached(at, new)
BY DEF Edited, Reached, Undecided

LEMMA EditedComplete ==
  ASSUME NEW row, NEW new, Edited(row, new), Complete(row)
  PROVE  Complete(new)
BY DEF Edited, Complete, Undecided

\* A step that changes a row that is there, and no onboarding.
LEMMA EditStep ==
  ASSUME TenancyInv, NEW t \in Rows, NEW row \in TenantRows, Edited(tenants[t], row),
         tenants' = [tenants EXCEPT ![t] = row], UNCHANGED <<onboarding, breaks>>
  PROVE  TenancyInv'
<1>1. tenants \in [TenantIds -> TenantRows] /\ t \in TenantIds
    BY TenancyTypes DEF TenancyInv, Rows
<1>2. tenants' \in [TenantIds -> TenantRows] /\ \A u \in TenantIds : tenants'[u] = IF u = t THEN row ELSE tenants[u]
    BY <1>1
<1>3. TenancyTypeOK'
  <2>1. breaks' \in 0 .. MaxBreaks /\ onboarding' \in [Onboardings -> Forms]
      BY TenancyTypes DEF TenancyInv
  <2> QED  BY <1>2, <2>1 DEF TenancyTypeOK, TenantRows, Forms
<1>4. ASSUME NEW u \in TenantIds PROVE Complete(tenants'[u])
  <2>1. Complete(tenants[u])
      BY DEF TenancyInv
  <2> QED  BY <1>2, <2>1, EditedComplete
<1>5. ASSUME NEW o \in Onboardings, onboarding[o].at \in WithRow
      PROVE  onboarding[o].tenant \in TenantIds /\ Reached(onboarding[o].at, tenants'[onboarding[o].tenant])
  <2>1. onboarding[o].tenant \in TenantIds /\ Reached(onboarding[o].at, tenants[onboarding[o].tenant])
      BY <1>5 DEF TenancyInv, OnboardingsOnWay
  <2>2. PICK at : at = onboarding[o].at
      OBVIOUS
  <2>3. CASE onboarding[o].tenant = t
    <3>1. Reached(at, row)
        BY <2>1, <2>2, <2>3, EditedReached
    <3> QED  BY <1>2, <2>1, <2>2, <2>3, <3>1
  <2>4. CASE onboarding[o].tenant # t
      BY <1>2, <2>1, <2>4
  <2> QED  BY <2>3, <2>4
<1>6. OnboardingsOnWay'
    BY <1>5 DEF OnboardingsOnWay, Reached, Undecided
<1>7. RowsOfTheirOwn'
    BY DEF TenancyInv, RowsOfTheirOwn
<1>8. \A u \in TenantIds : Complete(tenants[u])'
    BY <1>4 DEF Complete, Undecided
<1> QED  BY <1>3, <1>6, <1>7, <1>8 DEF TenancyInv

\* A step of an onboarding on its own row, which goes on at new or ends.
LEMMA OwnStep ==
  ASSUME TenancyInv, NEW o \in Onboardings, onboarding[o].at \in WithRow,
         NEW row \in TenantRows, Complete(row), NEW new \in Forms,
         new.at \in WithRow => new.tenant = onboarding[o].tenant /\ Reached(new.at, row),
         tenants' = [tenants EXCEPT ![onboarding[o].tenant] = row],
         onboarding' = [onboarding EXCEPT ![o] = new], breaks' \in 0 .. MaxBreaks
  PROVE  TenancyInv'
<1> DEFINE t == onboarding[o].tenant
<1>1. /\ tenants \in [TenantIds -> TenantRows] /\ onboarding \in [Onboardings -> Forms]
      /\ t \in TenantIds
    BY TenancyTypes DEF TenancyInv, OnboardingsOnWay
<1>2. tenants' \in [TenantIds -> TenantRows] /\ \A u \in TenantIds : tenants'[u] = IF u = t THEN row ELSE tenants[u]
    BY <1>1
<1>3. /\ onboarding' \in [Onboardings -> Forms]
      /\ \A q \in Onboardings : onboarding'[q] = IF q = o THEN new ELSE onboarding[q]
    BY <1>1
<1>4. TenancyTypeOK'
    BY <1>2, <1>3 DEF TenancyTypeOK, TenantRows, Forms
<1>5. ASSUME NEW u \in TenantIds PROVE Complete(tenants'[u])
    BY <1>2 DEF TenancyInv
<1>6. ASSUME NEW q \in Onboardings, onboarding'[q].at \in WithRow
      PROVE  onboarding'[q].tenant \in TenantIds /\ Reached(onboarding'[q].at, tenants'[onboarding'[q].tenant])
  <2>1. CASE q = o
      BY <1>1, <1>2, <1>3, <1>6, <2>1
  <2>2. CASE q # o
    <3>1. onboarding'[q] = onboarding[q]
        BY <1>3, <2>2
    <3>2. onboarding[q].tenant \in TenantIds /\ Reached(onboarding[q].at, tenants[onboarding[q].tenant])
        BY <1>6, <3>1 DEF TenancyInv, OnboardingsOnWay
    <3>3. onboarding[q].tenant # t
        BY <1>6, <2>2, <3>1 DEF TenancyInv, RowsOfTheirOwn
    <3> QED  BY <1>2, <3>1, <3>2, <3>3
  <2> QED  BY <2>1, <2>2
<1>7. \A q \in Onboardings : onboarding'[q].at \in WithRow =>
        onboarding[q].at \in WithRow /\ onboarding'[q].tenant = onboarding[q].tenant
    BY <1>3
<1>8. OnboardingsOnWay'
    BY <1>6 DEF OnboardingsOnWay, Reached, Undecided
<1>9. RowsOfTheirOwn'
    BY <1>7 DEF TenancyInv, RowsOfTheirOwn
<1>10. \A u \in TenantIds : Complete(tenants[u])'
    BY <1>5 DEF Complete, Undecided
<1> QED  BY <1>4, <1>8, <1>9, <1>10 DEF TenancyInv

\* A step that changes no row: an onboarding begins, or ends.
LEMMA FormStep ==
  ASSUME TenancyInv, UNCHANGED tenants, breaks' \in 0 .. MaxBreaks,
         onboarding' \in [Onboardings -> Forms],
         \A o \in Onboardings : onboarding'[o] = onboarding[o] \/ onboarding'[o].at \notin WithRow
  PROVE  TenancyInv'
<1>1. TenancyTypeOK'
    BY DEF TenancyInv, TenancyTypeOK, TenantRows, Forms
<1>2. \A u \in TenantIds : Complete(tenants[u])'
    BY DEF TenancyInv, Complete, Undecided
<1>3. OnboardingsOnWay'
    BY DEF TenancyInv, OnboardingsOnWay, Reached, Undecided
<1>4. RowsOfTheirOwn'
    BY DEF TenancyInv, RowsOfTheirOwn
<1> QED  BY <1>1, <1>2, <1>3, <1>4 DEF TenancyInv

LEMMA NoForm == NoOnboarding \in Forms /\ NoOnboarding.at \notin WithRow
BY DEF NoOnboarding, Forms, WithRow

LEMMA AllocateStep ==
  ASSUME TenancyInv, NEW o \in Onboardings, NEW name \in Names, NEW c \in OrgCodes, NEW i \in {0, 1},
         Allocate(o, name, c, <<name, i>>)
  PROVE  TenancyInv'
<1> DEFINE new == [NoOnboarding EXCEPT !.at = "tenant", !.code = c, !.slug = <<name, i>>]
<1>1. onboarding' = [onboarding EXCEPT ![o] = new] /\ UNCHANGED <<tenants, breaks>>
    BY DEF Allocate
<1>2. new \in Forms /\ new.at \notin WithRow
    BY DEF NoOnboarding, Forms, WithRow
<1> HIDE DEF new
<1>3. onboarding \in [Onboardings -> Forms] /\ breaks \in 0 .. MaxBreaks
    BY TenancyTypes DEF TenancyInv
<1>4. onboarding' \in [Onboardings -> Forms] /\ \A q \in Onboardings \ {o} : onboarding'[q] = onboarding[q]
    BY <1>1, <1>2, <1>3
<1>5. onboarding'[o].at \notin WithRow
    BY <1>1, <1>2, <1>3
<1> QED  BY <1>1, <1>3, <1>4, <1>5, FormStep

LEMMA CrashStep ==
  ASSUME TenancyInv, NEW o \in Onboardings, Crash(o)
  PROVE  TenancyInv'
<1>1. onboarding' = [onboarding EXCEPT ![o] = NoOnboarding] /\ UNCHANGED tenants /\ breaks < MaxBreaks /\ breaks' = breaks + 1
    BY DEF Crash, Break
<1>2. onboarding \in [Onboardings -> Forms] /\ breaks \in 0 .. MaxBreaks
    BY TenancyTypes DEF TenancyInv
<1>3. onboarding' \in [Onboardings -> Forms] /\ \A q \in Onboardings \ {o} : onboarding'[q] = onboarding[q]
    BY <1>1, <1>2, NoForm
<1>4. onboarding'[o].at \notin WithRow
    BY <1>1, <1>2, NoForm
<1>5. breaks' \in 0 .. MaxBreaks
    BY <1>1, <1>2, TenancyAssumptions
<1> QED  BY <1>1, <1>3, <1>4, <1>5, FormStep

\* A row of its own, which no onboarding under way has.
LEMMA NewRowStep ==
  ASSUME TenancyInv, NEW t \in TenantIds \ Rows, NEW row \in TenantRows, row.status # "none", ~row.welcomed,
         tenants' = [tenants EXCEPT ![t] = row], UNCHANGED breaks,
         onboarding' \in [Onboardings -> Forms],
         \/ UNCHANGED onboarding
         \/ /\ row.status = "active" /\ row.missed = {}
            /\ \E o \in Onboardings, new \in Forms :
                 new.at = "admin" /\ new.tenant = t /\ onboarding' = [onboarding EXCEPT ![o] = new]
  PROVE  TenancyInv'
<1>1. tenants \in [TenantIds -> TenantRows] /\ onboarding \in [Onboardings -> Forms]
    BY TenancyTypes DEF TenancyInv
<1>2. tenants' \in [TenantIds -> TenantRows] /\ \A u \in TenantIds : tenants'[u] = IF u = t THEN row ELSE tenants[u]
    BY <1>1
<1>3. TenancyTypeOK'
  <2>1. breaks' \in 0 .. MaxBreaks
      BY TenancyTypes DEF TenancyInv
  <2> QED  BY <1>2, <2>1 DEF TenancyTypeOK, TenantRows, Forms
<1>4. \A u \in TenantIds : Complete(tenants[u])'
    BY <1>2 DEF TenancyInv, Complete, Undecided
<1>5. \A q \in Onboardings : onboarding[q].at \in WithRow =>
        /\ onboarding[q].tenant \in TenantIds /\ onboarding[q].tenant # t
        /\ Reached(onboarding[q].at, tenants'[onboarding[q].tenant])
  <2> SUFFICES ASSUME NEW q \in Onboardings, onboarding[q].at \in WithRow
               PROVE  /\ onboarding[q].tenant \in TenantIds /\ onboarding[q].tenant # t
                      /\ Reached(onboarding[q].at, tenants'[onboarding[q].tenant])
      OBVIOUS
  <2>1. onboarding[q].tenant \in TenantIds /\ Reached(onboarding[q].at, tenants[onboarding[q].tenant])
      BY DEF TenancyInv, OnboardingsOnWay
  <2>2. onboarding[q].tenant # t
      BY <2>1 DEF Reached, Rows
  <2> QED  BY <1>2, <2>1, <2>2
<1>6. CASE UNCHANGED onboarding
  <2>1. OnboardingsOnWay'
      BY <1>5, <1>6 DEF OnboardingsOnWay, Reached, Undecided
  <2>2. RowsOfTheirOwn'
      BY <1>6 DEF TenancyInv, RowsOfTheirOwn
  <2> QED  BY <1>3, <1>4, <2>1, <2>2 DEF TenancyInv
<1>7. ASSUME row.status = "active", row.missed = {}, NEW o \in Onboardings, NEW new \in Forms,
             new.at = "admin", new.tenant = t, onboarding' = [onboarding EXCEPT ![o] = new]
      PROVE  TenancyInv'
  <2>1. \A q \in Onboardings : onboarding'[q] = IF q = o THEN new ELSE onboarding[q]
      BY <1>1, <1>7
  <2>2. Reached("admin", row)
      BY <1>7 DEF Reached, Undecided
  <2>3. ASSUME NEW q \in Onboardings, onboarding'[q].at \in WithRow
        PROVE  onboarding'[q].tenant \in TenantIds /\ Reached(onboarding'[q].at, tenants'[onboarding'[q].tenant])
      BY <1>2, <1>5, <1>7, <2>1, <2>2, <2>3
  <2>4. OnboardingsOnWay'
      BY <2>3 DEF OnboardingsOnWay, Reached, Undecided
  <2>5. RowsOfTheirOwn'
      BY <1>5, <1>7, <2>1 DEF TenancyInv, RowsOfTheirOwn
  <2> QED  BY <1>3, <1>4, <2>4, <2>5 DEF TenancyInv
<1> QED  BY <1>6, <1>7

LEMMA NewRow ==
  ASSUME NEW c \in OrgCodes \cup {"none"}, NEW s \in (Names \cup {"none"}) \X {0, 1}, NEW owned \in BOOLEAN
  PROVE  LET row == [NoTenant EXCEPT !.status = "active", !.code = c, !.slug = s, !.owner = owned]
         IN row \in TenantRows /\ row.status = "active" /\ ~row.welcomed /\ row.missed = {}
BY DEF NoTenant, TenantRows, TenantStatuses

LEMMA InsertTenantStep ==
  ASSUME TenancyInv, NEW o \in Onboardings, InsertTenant(o)
  PROVE  TenancyInv'
<1>1. onboarding \in [Onboardings -> Forms] /\ breaks \in 0 .. MaxBreaks /\ UNCHANGED breaks /\ onboarding[o] \in Forms
    BY TenancyTypes DEF TenancyInv, InsertTenant
<1>2. CASE Unique(onboarding[o].code, onboarding[o].slug)
  <2> DEFINE row == [NoTenant EXCEPT !.status = "active", !.code = onboarding[o].code,
                                      !.slug = onboarding[o].slug, !.owner = FALSE]
  <2>1. PICK t \in TenantIds \ Rows :
          /\ tenants' = [tenants EXCEPT ![t] = row]
          /\ onboarding' = [onboarding EXCEPT ![o].at = "admin", ![o].tenant = t]
      BY <1>2 DEF InsertTenant, CreateTenant
  <2>2. row \in TenantRows /\ row.status = "active" /\ ~row.welcomed /\ row.missed = {}
      BY <1>1, NewRow DEF Forms
  <2> DEFINE new == [onboarding[o] EXCEPT !.at = "admin", !.tenant = t]
  <2>3. new \in Forms /\ new.at = "admin" /\ new.tenant = t
      BY <1>1 DEF Forms
  <2>4. onboarding' = [onboarding EXCEPT ![o] = new]
      BY <2>1
  <2> HIDE DEF new, row
  <2>5. onboarding' \in [Onboardings -> Forms]
      BY <1>1, <2>3, <2>4
  <2>6. row.status # "none"
      BY <2>2
  <2>7. \E p \in Onboardings, n \in Forms :
          n.at = "admin" /\ n.tenant = t /\ onboarding' = [onboarding EXCEPT ![p] = n]
      BY <2>3, <2>4
  <2> QED  BY <1>1, <2>1, <2>2, <2>5, <2>6, <2>7, NewRowStep
<1>3. CASE ~Unique(onboarding[o].code, onboarding[o].slug)
  <2>1. UNCHANGED tenants /\ onboarding' = [onboarding EXCEPT ![o] = NoOnboarding]
      BY <1>3 DEF InsertTenant
  <2>2. /\ onboarding' \in [Onboardings -> Forms]
        /\ \A q \in Onboardings : onboarding'[q] = onboarding[q] \/ onboarding'[q].at \notin WithRow
      BY <1>1, <2>1, NoForm
  <2>3. breaks' \in 0 .. MaxBreaks
      BY <1>1
  <2> QED  BY <2>1, <2>2, <2>3, FormStep
<1> QED  BY <1>2, <1>3

\* What a statement that fails and is ignored leaves of the row.
Missing(at, row) == [row EXCEPT !.missed = @ \cup {at}]

\* A statement on the row of the onboarding that brings it from at to next.
LEMMA StatementStep ==
  ASSUME TenancyInv, NEW o \in Onboardings, NEW at \in WithRow, NEW next \in WithRow, NEW row,
         Statement(o, at, next, row),
         Row(o) \in TenantRows => row \in TenantRows,
         Row(o) \in TenantRows /\ Reached(at, Row(o)) => Reached(next, row),
         Row(o) \in TenantRows /\ Reached(at, Row(o)) /\ at \in Ignored => Reached(next, Missing(at, Row(o)))
  PROVE  TenancyInv'
<1>1. /\ onboarding \in [Onboardings -> Forms] /\ breaks \in 0 .. MaxBreaks /\ onboarding[o] \in Forms
      /\ tenants \in [TenantIds -> TenantRows] /\ onboarding[o].at = at
    BY TenancyTypes DEF TenancyInv, Statement
<1> DEFINE t == onboarding[o].tenant
           new == [onboarding[o] EXCEPT !.at = next]
<1>2. t \in TenantIds /\ Row(o) = tenants[t] /\ Row(o) \in TenantRows /\ Reached(at, Row(o))
    BY <1>1 DEF TenancyInv, OnboardingsOnWay, Row
<1>3. row \in TenantRows /\ Reached(next, row) /\ Complete(row)
    BY <1>2 DEF Reached, Complete
<1>4. new \in Forms /\ new.at = next /\ new.tenant = t
    BY <1>1 DEF Forms, WithRow
<1>5. CASE UNCHANGED breaks /\ tenants' = [tenants EXCEPT ![t] = row] /\ onboarding' = [onboarding EXCEPT ![o] = new]
  <2> HIDE DEF new
  <2> QED  BY <1>1, <1>2, <1>3, <1>4, <1>5, OwnStep
<1>6. CASE /\ Break /\ at \in Ignored
           /\ tenants' = [tenants EXCEPT ![t].missed = @ \cup {at}] /\ onboarding' = [onboarding EXCEPT ![o] = new]
  <2> DEFINE less == Missing(at, Row(o))
  <2>1. breaks' \in 0 .. MaxBreaks
      BY <1>1, <1>6, TenancyAssumptions DEF Break
  <2>2. less \in TenantRows
      BY <1>2, <1>6 DEF TenantRows, Missing
  <2>3. Reached(next, less)
      BY <1>2, <1>6
  <2>4. Complete(less)
      BY <2>3 DEF Reached, Complete
  <2>5. tenants' = [tenants EXCEPT ![t] = less]
      BY <1>1, <1>2, <1>6 DEF Missing
  <2> HIDE DEF new, less
  <2> QED  BY <1>1, <1>4, <1>6, <2>1, <2>2, <2>3, <2>4, <2>5, OwnStep
<1>7. CASE Break /\ at \notin Ignored /\ onboarding' = [onboarding EXCEPT ![o] = NoOnboarding] /\ UNCHANGED tenants
  <2>1. breaks' \in 0 .. MaxBreaks
      BY <1>1, <1>7, TenancyAssumptions DEF Break
  <2>2. /\ onboarding' \in [Onboardings -> Forms]
        /\ \A q \in Onboardings : onboarding'[q] = onboarding[q] \/ onboarding'[q].at \notin WithRow
      BY <1>1, <1>7, NoForm
  <2> QED  BY <1>7, <2>1, <2>2, FormStep
<1> QED  BY <1>1, <1>5, <1>6, <1>7 DEF Statement, NoBreak

LEMMA CreateAdminStep == ASSUME TenancyInv, NEW o \in Onboardings, CreateAdmin(o) PROVE TenancyInv'
<1> DEFINE row == [Row(o) EXCEPT !.admin = TRUE]
<1>1. Row(o) \in TenantRows => row \in TenantRows
    BY DEF TenantRows, TenantStatuses
<1>2. Row(o) \in TenantRows /\ Reached("admin", Row(o)) => Reached("member", row)
    BY DEF Reached, Undecided, TenantRows
<1>3. Row(o) \in TenantRows /\ Reached("admin", Row(o)) /\ "admin" \in Ignored => Reached("member", Missing("admin", Row(o)))
    BY DEF Reached, Undecided, Missing, TenantRows, Ignored
<1>4. "admin" \in WithRow /\ "member" \in WithRow /\ Statement(o, "admin", "member", row)
    BY DEF CreateAdmin, WithRow
<1> HIDE DEF row
<1> QED  BY <1>1, <1>2, <1>3, <1>4, StatementStep

LEMMA AddTenantUserStep == ASSUME TenancyInv, NEW o \in Onboardings, AddTenantUser(o) PROVE TenancyInv'
<1> DEFINE row == [Row(o) EXCEPT !.member = TRUE]
<1>1. Row(o) \in TenantRows => row \in TenantRows
    BY DEF TenantRows, TenantStatuses
<1>2. Row(o) \in TenantRows /\ Reached("member", Row(o)) => Reached("features", row)
    BY DEF Reached, Undecided, TenantRows
<1>3. Row(o) \in TenantRows /\ Reached("member", Row(o)) /\ "member" \in Ignored => Reached("features", Missing("member", Row(o)))
    BY DEF Reached, Undecided, Missing, TenantRows, Ignored
<1>4. "member" \in WithRow /\ "features" \in WithRow /\ Statement(o, "member", "features", row)
    BY DEF AddTenantUser, WithRow
<1> HIDE DEF row
<1> QED  BY <1>1, <1>2, <1>3, <1>4, StatementStep

LEMMA UpsertTenantFeaturesStep == ASSUME TenancyInv, NEW o \in Onboardings, UpsertTenantFeatures(o) PROVE TenancyInv'
<1> DEFINE row == [Row(o) EXCEPT !.features = TRUE]
<1>1. Row(o) \in TenantRows => row \in TenantRows
    BY DEF TenantRows, TenantStatuses
<1>2. Row(o) \in TenantRows /\ Reached("features", Row(o)) => Reached("plan", row)
    BY DEF Reached, Undecided, TenantRows
<1>3. Row(o) \in TenantRows /\ Reached("features", Row(o)) /\ "features" \in Ignored => Reached("plan", Missing("features", Row(o)))
    BY DEF Reached, Undecided, Missing, TenantRows, Ignored
<1>4. "features" \in WithRow /\ "plan" \in WithRow /\ Statement(o, "features", "plan", row)
    BY DEF UpsertTenantFeatures, WithRow
<1> HIDE DEF row
<1> QED  BY <1>1, <1>2, <1>3, <1>4, StatementStep

LEMMA StartTrialStep == ASSUME TenancyInv, NEW o \in Onboardings, StartTrial(o) PROVE TenancyInv'
<1> DEFINE row == [Row(o) EXCEPT !.status = "trial"]
<1>1. Row(o) \in TenantRows => row \in TenantRows
    BY DEF TenantRows, TenantStatuses
<1>2. Row(o) \in TenantRows /\ Reached("plan", Row(o)) => Reached("answer", row)
    BY DEF Reached, Undecided, TenantRows
<1>3. Row(o) \in TenantRows /\ Reached("plan", Row(o)) /\ "plan" \in Ignored => Reached("answer", Missing("plan", Row(o)))
    BY DEF Reached, Undecided, Missing, TenantRows, Ignored
<1>4. "plan" \in WithRow /\ "answer" \in WithRow /\ Statement(o, "plan", "answer", row)
    BY DEF StartTrial, WithRow
<1> HIDE DEF row
<1> QED  BY <1>1, <1>2, <1>3, <1>4, StatementStep

\* The answer of an onboarding that has come to its end.
LEMMA WelcomeStep == ASSUME TenancyInv, NEW o \in Onboardings, Welcome(o) PROVE TenancyInv'
<1>1. /\ onboarding \in [Onboardings -> Forms] /\ tenants \in [TenantIds -> TenantRows] /\ breaks' \in 0 .. MaxBreaks
      /\ onboarding[o].at = "answer" /\ onboarding' = [onboarding EXCEPT ![o] = NoOnboarding]
    BY TenancyTypes DEF TenancyInv, Welcome
<1> DEFINE t == onboarding[o].tenant
           row == [tenants[t] EXCEPT !.welcomed = TRUE]
<1>2. onboarding[o].at \in WithRow /\ t \in TenantIds /\ tenants[t] \in TenantRows /\ Reached("answer", tenants[t])
    BY <1>1 DEF TenancyInv, OnboardingsOnWay, WithRow
<1>3. row \in TenantRows /\ Complete(row)
    BY <1>2 DEF Complete, Reached, Undecided, TenantRows
<1>4. tenants' = [tenants EXCEPT ![t] = row]
    BY DEF Welcome
<1> HIDE DEF row
<1> QED  BY <1>1, <1>2, <1>3, <1>4, NoForm, OwnStep

\* A row that a super admin creates.
LEMMA CreateStep ==
  ASSUME TenancyInv, NEW t \in TenantIds, NEW name \in Names, NEW c \in OrgCodes, NEW i \in {0, 1},
         Create(t, c, <<name, i>>)
  PROVE  TenancyInv'
<1> DEFINE first == [NoTenant EXCEPT !.status = "active", !.code = c, !.slug = <<name, i>>, !.owner = TRUE]
           row == [first EXCEPT !.features = TRUE, !.decided = TRUE]
<1>1. first \in TenantRows /\ first.status = "active" /\ ~first.welcomed
    BY NewRow
<1>2. tenants \in [TenantIds -> TenantRows] /\ onboarding \in [Onboardings -> Forms] /\ t \in TenantIds \ Rows
    BY TenancyTypes DEF TenancyInv, Create
<1>3. tenants' = [[tenants EXCEPT ![t] = first] EXCEPT ![t].features = TRUE, ![t].decided = TRUE] /\ UNCHANGED onboarding /\ UNCHANGED breaks
    BY DEF Create, CreateTenant
<1> HIDE DEF first
<1>4. row \in TenantRows /\ row.status # "none" /\ ~row.welcomed
    BY <1>1 DEF TenantRows
<1>5. tenants' = [tenants EXCEPT ![t] = row]
    BY <1>2, <1>3
<1> HIDE DEF row
<1> QED  BY <1>2, <1>3, <1>4, <1>5, NewRowStep

LEMMA UpdateTenantPlanStep ==
  ASSUME TenancyInv, NEW t \in TenantIds, NEW status \in TenantStatuses, UpdateTenantPlan(t, status)
  PROVE  TenancyInv'
<1> DEFINE row == [tenants[t] EXCEPT !.status = status, !.decided = TRUE]
<1>1. /\ tenants \in [TenantIds -> TenantRows] /\ t \in Rows
      /\ tenants[t] \in TenantRows /\ tenants' = [tenants EXCEPT ![t] = row] /\ UNCHANGED <<onboarding, breaks>>
    BY TenancyTypes DEF TenancyInv, UpdateTenantPlan
<1>2. row \in TenantRows /\ Edited(tenants[t], row)
    BY <1>1 DEF Rows, TenantRows, Edited, TenantStatuses
<1> HIDE DEF row
<1> QED  BY <1>1, <1>2, EditStep

LEMMA SetFeaturesStep == ASSUME TenancyInv, NEW t \in TenantIds, SetFeatures(t) PROVE TenancyInv'
<1> DEFINE row == [tenants[t] EXCEPT !.features = TRUE]
<1>1. /\ tenants \in [TenantIds -> TenantRows] /\ t \in Rows
      /\ tenants[t] \in TenantRows /\ tenants' = [tenants EXCEPT ![t] = row] /\ UNCHANGED <<onboarding, breaks>>
    BY TenancyTypes DEF TenancyInv, SetFeatures
<1>2. row \in TenantRows /\ Edited(tenants[t], row)
    BY <1>1 DEF Rows, TenantRows, Edited, TenantStatuses
<1> HIDE DEF row
<1> QED  BY <1>1, <1>2, EditStep

LEMMA SetCustomDomainStep ==
  ASSUME TenancyInv, NEW t \in TenantIds, NEW d \in Domains \cup {"none"}, SetCustomDomain(t, d)
  PROVE  TenancyInv'
<1> DEFINE row == [tenants[t] EXCEPT !.domain = d]
<1>1. /\ tenants \in [TenantIds -> TenantRows] /\ t \in Rows
      /\ tenants[t] \in TenantRows /\ tenants' = [tenants EXCEPT ![t] = row] /\ UNCHANGED <<onboarding, breaks>>
    BY TenancyTypes DEF TenancyInv, SetCustomDomain
<1>2. row \in TenantRows /\ Edited(tenants[t], row)
    BY <1>1 DEF Rows, TenantRows, Edited, TenantStatuses
<1> HIDE DEF row
<1> QED  BY <1>1, <1>2, EditStep

LEMMA TenancyInitHolds == TenancyInit => TenancyInv
<1> SUFFICES ASSUME TenancyInit PROVE TenancyInv
    OBVIOUS
<1>1. NoTenant \in TenantRows /\ ~NoTenant.welcomed
    BY DEF NoTenant, TenantRows, TenantStatuses
<1>2. TenancyTypeOK
    BY <1>1, NoForm, TenancyTypes, TenancyAssumptions DEF TenancyInit
<1>3. OnboardingsOnWay /\ RowsOfTheirOwn /\ \A t \in TenantIds : Complete(tenants[t])
    BY <1>1, NoForm DEF TenancyInit, OnboardingsOnWay, RowsOfTheirOwn, Complete
<1> QED  BY <1>2, <1>3 DEF TenancyInv

LEMMA TenancyNextStep == TenancyInv /\ [TenancyNext]_tenancyVars => TenancyInv'
<1> SUFFICES ASSUME TenancyInv, [TenancyNext]_tenancyVars PROVE TenancyInv'
    OBVIOUS
<1>1. CASE UNCHANGED tenancyVars
    BY <1>1 DEF tenancyVars, TenancyInv, TenancyTypeOK, OnboardingsOnWay, RowsOfTheirOwn, Reached, Complete, Undecided
<1>2. CASE SelfServeOnboard
    BY <1>2, AllocateStep DEF SelfServeOnboard
<1>3. CASE HandleCreateTenant
    BY <1>3, CreateStep DEF HandleCreateTenant
<1>4. CASE Suspend \/ Reactivate \/ UpdatePlan
    BY <1>4, UpdateTenantPlanStep DEF Suspend, Reactivate, UpdatePlan, TenantStatuses
<1>5. CASE HandleSetFeatures
    BY <1>5, SetFeaturesStep DEF HandleSetFeatures
<1>6. CASE HandleSetCustomDomain
    BY <1>6, SetCustomDomainStep DEF HandleSetCustomDomain
<1> QED
    BY <1>1, <1>2, <1>3, <1>4, <1>5, <1>6, InsertTenantStep, CreateAdminStep, AddTenantUserStep,
       UpsertTenantFeaturesStep, StartTrialStep, WelcomeStep, CrashStep DEF TenancyNext

\* Every reachable state satisfies the invariant, and with it the type invariant.
THEOREM TenancyInvariant == TenancySpec => []TenancyInv
<1> QED  BY TenancyInitHolds, TenancyNextStep, PTL DEF TenancySpec

\* A tenant whose owner has been welcomed has its admin, and of what its onboarding sets it lacks only
\* what a statement whose error was ignored should have set, in whatever order onboardings and super
\* admins act.  As long as nobody has decided on it, its admin can sign in exactly if the statement
\* that begins the trial has failed.
THEOREM WelcomedAlwaysComplete == TenancySpec => []WelcomedAreComplete
<1>1. ASSUME TenancyInv, NEW t \in Rows, tenants[t].welcomed
      PROVE  /\ tenants[t].admin
             /\ tenants[t].member \/ "member" \in tenants[t].missed
             /\ tenants[t].features \/ "features" \in tenants[t].missed
             /\ ~tenants[t].decided =>
                  IF "plan" \in tenants[t].missed THEN CanSignIn(t) ELSE tenants[t].status = "trial" /\ ~CanSignIn(t)
  <2>1. t \in TenantIds /\ Complete(tenants[t])
      BY <1>1 DEF TenancyInv, Rows
  <2>2. CanSignIn(t) <=> tenants[t].admin /\ tenants[t].status = "active"
      BY <2>1 DEF CanSignIn, GetTenantByOrgCode, Active
  <2> QED  BY <1>1, <2>1, <2>2 DEF Complete, Undecided
<1>2. TenancyInv => WelcomedAreComplete
    BY <1>1 DEF WelcomedAreComplete
<1> QED  BY <1>2, TenancyInvariant, PTL

-----------------------------------------------------------------------------
(* The import of people *)

PersonRows ==
  [phone : Numbers \cup {"none"}, name : {"none", "given", "erased"}, active : BOOLEAN,
   role : MemberRoles \cup {"none"}, by : Imports \cup {"nobody", "self"}]
Sheets ==
  [at : {"unopened", "rows", "rename", "insert", "joinOld", "joinNew", "closed", "dead"},
   left : 0..MaxRows, size : 0..MaxRows, person : People \cup {"none"},
   role : MemberRoles \cup {"none"}, phone : Numbers \cup {"none"},
   created : Nat, updated : Nat, skipped : Nat]

\* The accounts import i has made, and what the sheet of an import counts them to be.
Made(i) == {p \in People : people[p].by = i}
MadeBy(sheet) == sheet.created + (IF sheet.at = "joinNew" THEN 1 ELSE 0)

\* Every row of a sheet that has been read is counted once, or is in hand.
AddsUp(sheet) ==
  sheet.created + sheet.updated + sheet.skipped
    + (IF sheet.at \in {"rename", "insert", "joinOld", "joinNew"} THEN 1 ELSE 0) = sheet.size - sheet.left

\* A sheet knows whose row it is at, and at which role.
RowHeld(sheet) ==
  /\ sheet.at \in {"rename", "joinOld", "joinNew"} => sheet.person \in People
  /\ sheet.at \in {"rename", "insert", "joinOld", "joinNew"} => sheet.role \in MemberRoles

RosterInv ==
  /\ RosterTypeOK /\ ImportsAddUp
  /\ \A i \in Imports : RowHeld(import[i])
  /\ \A i \in Imports : IsFiniteSet(Made(i)) /\ (import[i].at = "unopened" => import[i] = Unopened)

LEMMA RosterTypes ==
  RosterTypeOK <=> /\ people \in [People -> PersonRows] /\ members \subseteq People \X MemberRoles
                   /\ import \in [Imports -> Sheets] /\ troubles \in 0..MaxTroubles
BY DEF RosterTypeOK, PersonRows, Sheets

LEMMA SheetsAddUp ==
  ASSUME RosterInv, NEW i \in Imports, import[i].at # "dead"
  PROVE  AddsUp(import[i]) /\ RowHeld(import[i]) /\ Cardinality(Made(i)) = MadeBy(import[i])
BY DEF RosterInv, ImportsAddUp, AddsUp, Made, MadeBy, InHand

LEMMA SheetTyped ==
  ASSUME RosterInv, NEW i \in Imports
  PROVE  /\ import[i] \in Sheets /\ import[i].left \in Nat /\ import[i].size \in Nat
         /\ import[i].created \in Nat /\ import[i].updated \in Nat /\ import[i].skipped \in Nat
<1>1. import[i] \in Sheets
    BY RosterTypes DEF RosterInv
<1> QED  BY <1>1, RosterAssumptions DEF Sheets

\* What a step must do to the sheet of an import and to the accounts it has made.
LEMMA SheetStep ==
  ASSUME RosterInv, NEW i \in Imports, NEW sheet \in Sheets, import' = [import EXCEPT ![i] = sheet],
         people' \in [People -> PersonRows], members' \subseteq People \X MemberRoles,
         troubles' \in 0..MaxTroubles, sheet.at # "unopened", RowHeld(sheet),
         \A j \in Imports \ {i} : Made(j)' = Made(j), IsFiniteSet(Made(i)'),
         sheet.at # "dead" => AddsUp(sheet) /\ Cardinality(Made(i)') = MadeBy(sheet)
  PROVE  RosterInv'
<1>1. import \in [Imports -> Sheets]
    BY RosterTypes DEF RosterInv
<1>2. import' \in [Imports -> Sheets] /\ import'[i] = sheet /\ \A j \in Imports \ {i} : import'[j] = import[j]
    BY <1>1
<1>3. RosterTypeOK'
    BY <1>2 DEF RosterTypeOK, PersonRows, Sheets
<1>4. ASSUME NEW j \in Imports, import'[j].at # "dead"
      PROVE  AddsUp(import'[j]) /\ Cardinality(Made(j)') = MadeBy(import'[j])
    BY <1>2, <1>4, SheetsAddUp
<1>5. ImportsAddUp'
    BY <1>4 DEF ImportsAddUp, AddsUp, Made, MadeBy, InHand
<1>6. \A j \in Imports : IsFiniteSet(Made(j)') /\ (import'[j].at = "unopened" => import'[j] = Unopened)
    BY <1>2 DEF RosterInv
<1>7. \A j \in Imports : RowHeld(import'[j])
    BY <1>2 DEF RosterInv
<1> QED  BY <1>3, <1>5, <1>6, <1>7 DEF RosterInv, RowHeld

\* A step that makes no account of an import.
LEMMA MadeStays ==
  ASSUME \A p \in People : people'[p].by = people[p].by
  PROVE  \A j \in Imports : Made(j)' = Made(j)
BY DEF Made

LEMMA QuietSheetStep ==
  ASSUME RosterInv, NEW i \in Imports, NEW sheet \in Sheets, import' = [import EXCEPT ![i] = sheet],
         people' \in [People -> PersonRows], members' \subseteq People \X MemberRoles,
         troubles' \in 0..MaxTroubles, sheet.at # "unopened", RowHeld(sheet),
         \A p \in People : people'[p].by = people[p].by,
         sheet.at # "dead" => /\ import[i].at # "dead" /\ AddsUp(sheet) /\ MadeBy(sheet) = MadeBy(import[i])
  PROVE  RosterInv'
<1>1. \A j \in Imports : Made(j)' = Made(j) /\ IsFiniteSet(Made(j))
    BY MadeStays DEF RosterInv
<1>2. sheet.at # "dead" => AddsUp(sheet) /\ Cardinality(Made(i)') = MadeBy(sheet)
    BY <1>1, SheetsAddUp
<1> QED  BY <1>1, <1>2, SheetStep

\* A step of somebody else, which makes no account of an import either.
LEMMA PeopleStep ==
  ASSUME RosterInv, people' \in [People -> PersonRows], UNCHANGED <<members, import, troubles>>,
         \A i \in Imports, p \in People : (people'[p].by = i) <=> (people[p].by = i)
  PROVE  RosterInv'
<1>1. RosterTypeOK'
    BY DEF RosterInv, RosterTypeOK, PersonRows
<1>2. \A i \in Imports : Made(i)' = Made(i)
    BY DEF Made
<1> QED  BY <1>1, <1>2 DEF RosterInv, ImportsAddUp, RowHeld, Made, InHand

LEMMA TheRest ==
  ASSUME RosterInv
  PROVE  /\ people \in [People -> PersonRows] /\ members \subseteq People \X MemberRoles
         /\ import \in [Imports -> Sheets] /\ troubles \in 0..MaxTroubles
BY RosterTypes DEF RosterInv

LEMMA OpenSheetStep ==
  ASSUME RosterInv, NEW i \in Imports, NEW n \in 1..MaxRows, OpenSheet(i, n) PROVE RosterInv'
<1> DEFINE sheet == [Unopened EXCEPT !.at = "rows", !.left = n, !.size = n]
<1>1. /\ import' = [import EXCEPT ![i] = sheet] /\ UNCHANGED <<people, members, troubles>>
      /\ import[i].at = "unopened" /\ import[i] = Unopened
    BY DEF OpenSheet, RosterInv
<1>2. n \in Nat /\ n \in 0..MaxRows
    BY RosterAssumptions
<1>3. /\ Unopened \in Sheets /\ Unopened.at = "unopened" /\ Unopened.left = 0 /\ Unopened.size = 0
      /\ Unopened.created = 0 /\ Unopened.updated = 0 /\ Unopened.skipped = 0
    BY RosterAssumptions DEF Unopened, Sheets
<1>4. sheet \in Sheets /\ sheet.at = "rows" /\ sheet.left = n /\ sheet.size = n
      /\ sheet.created = 0 /\ sheet.updated = 0 /\ sheet.skipped = 0
    BY <1>2, <1>3 DEF Sheets
<1> HIDE DEF sheet
<1>5. AddsUp(sheet) /\ RowHeld(sheet) /\ MadeBy(sheet) = MadeBy(import[i]) /\ import[i].at # "dead"
    BY <1>1, <1>2, <1>3, <1>4 DEF AddsUp, MadeBy, RowHeld
<1> QED  BY <1>1, <1>4, <1>5, TheRest, QuietSheetStep

LEMMA SkipRowStep == ASSUME RosterInv, NEW i \in Imports, SkipRow(i) PROVE RosterInv'
<1> DEFINE old == import[i]
           read == [old EXCEPT !.left = old.left - 1]
           sheet == [read EXCEPT !.skipped = read.skipped + 1]
<1>1. /\ import' = [import EXCEPT ![i] = sheet] /\ UNCHANGED <<people, members, troubles>>
      /\ old.at = "rows" /\ old.left > 0
    BY TheRest DEF SkipRow
<1>2. old \in Sheets /\ old.left - 1 \in 0..MaxRows /\ AddsUp(old)
    BY <1>1, SheetTyped, SheetsAddUp, RosterAssumptions DEF Sheets
<1> HIDE DEF old
<1>3. read \in Sheets /\ read.at = "rows" /\ read.left = old.left - 1 /\ read.skipped = old.skipped
      /\ read.size = old.size /\ read.created = old.created /\ read.updated = old.updated
    BY <1>1, <1>2 DEF Sheets
<1> HIDE DEF read
<1>4. sheet \in Sheets /\ sheet.at = "rows" /\ sheet.left = old.left - 1 /\ sheet.skipped = old.skipped + 1
      /\ sheet.size = old.size /\ sheet.created = old.created /\ sheet.updated = old.updated
    BY <1>3 DEF Sheets
<1> HIDE DEF sheet
<1>5. AddsUp(sheet) /\ RowHeld(sheet) /\ MadeBy(sheet) = MadeBy(old)
    BY <1>1, <1>2, <1>4, RosterAssumptions DEF AddsUp, MadeBy, RowHeld, Sheets
<1> QED  BY <1>1, <1>4, <1>5, TheRest, QuietSheetStep DEF old

LEMMA ProcessRowStep ==
  ASSUME RosterInv, NEW i \in Imports, NEW phone \in Numbers, NEW role \in SheetRoles, ProcessRow(i, phone, role)
  PROVE  RosterInv'
<1> DEFINE old == import[i]
<1>1. PICK p \in Owns(phone) \cup {"none"} :
        /\ p = "none" /\ Owns(phone) # {} => troubles < MaxTroubles
        /\ troubles' = IF p = "none" /\ Owns(phone) # {} THEN troubles + 1 ELSE troubles
        /\ import' = [import EXCEPT ![i] = Taken(old, p, role, phone)]
    BY DEF ProcessRow
<1> DEFINE at == IF p = "none" THEN "insert" ELSE "rename"
           sheet == Taken(old, p, role, phone)
<1>2. import' = [import EXCEPT ![i] = sheet] /\ UNCHANGED <<people, members>> /\ old.at = "rows" /\ old.left > 0
    BY <1>1, TheRest DEF ProcessRow
<1>3. /\ old \in Sheets /\ old.left - 1 \in 0..MaxRows /\ AddsUp(old) /\ RowHeld(old) /\ troubles' \in 0..MaxTroubles
      /\ p \in People \cup {"none"} /\ role \in MemberRoles /\ at \in {"insert", "rename"}
      /\ (at = "rename" => p \in People)
    BY <1>1, <1>2, SheetTyped, SheetsAddUp, TheRest, RosterAssumptions DEF Sheets, Owns, MemberRoles
<1> HIDE DEF old
<1>4. sheet \in Sheets /\ sheet.at = at /\ sheet.person = p /\ sheet.role = role /\ sheet.left = old.left - 1 /\ sheet.skipped = old.skipped
      /\ sheet.size = old.size /\ sheet.created = old.created /\ sheet.updated = old.updated
    BY <1>2, <1>3 DEF Sheets, Taken
<1> HIDE DEF at, sheet
<1>5. AddsUp(sheet) /\ RowHeld(sheet) /\ MadeBy(sheet) = MadeBy(old)
    BY <1>2, <1>3, <1>4, RosterAssumptions DEF AddsUp, MadeBy, RowHeld, Sheets
<1> QED  BY <1>2, <1>3, <1>4, <1>5, TheRest, QuietSheetStep DEF old

LEMMA RenameExistingStep == ASSUME RosterInv, NEW i \in Imports, RenameExisting(i) PROVE RosterInv'
<1> DEFINE old == import[i]
           sheet == [old EXCEPT !.at = "joinOld"]
           who == old.person
<1>1. /\ import' = [import EXCEPT ![i] = sheet] /\ UNCHANGED members /\ old.at = "rename"
      /\ people' \in {people, [people EXCEPT ![who].name = "given"]}
      /\ troubles' \in {troubles, troubles + 1} /\ troubles' <= MaxTroubles
    BY TheRest DEF RenameExisting
<1>2. old \in Sheets /\ AddsUp(old) /\ RowHeld(old) /\ troubles' \in 0..MaxTroubles
    BY <1>1, SheetTyped, SheetsAddUp, TheRest, RosterAssumptions
<1>3. people' \in [People -> PersonRows] /\ \A p \in People : people'[p].by = people[p].by
  <2>1. CASE who \in People
    <3>1. [people[who] EXCEPT !.name = "given"] \in PersonRows /\ [people[who] EXCEPT !.name = "given"].by = people[who].by
        BY <2>1, TheRest DEF PersonRows
    <3> QED  BY <1>1, <2>1, <3>1, TheRest
  <2>2. CASE who \notin People
      BY <1>1, <2>2, TheRest
  <2> QED  BY <2>1, <2>2
<1> HIDE DEF old
<1>4. sheet \in Sheets /\ sheet.at = "joinOld" /\ sheet.person = old.person /\ sheet.role = old.role /\ sheet.left = old.left /\ sheet.skipped = old.skipped
      /\ sheet.size = old.size /\ sheet.created = old.created /\ sheet.updated = old.updated
    BY <1>2 DEF Sheets
<1> HIDE DEF sheet
<1>5. AddsUp(sheet) /\ RowHeld(sheet) /\ MadeBy(sheet) = MadeBy(old)
    BY <1>1, <1>2, <1>4, RosterAssumptions DEF AddsUp, MadeBy, RowHeld, Sheets
<1> QED  BY <1>1, <1>2, <1>3, <1>4, <1>5, TheRest, QuietSheetStep DEF old

LEMMA CountedSheet ==
  ASSUME NEW old \in Sheets, NEW what \in {"created", "updated", "skipped"}
  PROVE  LET sheet == Counted(old, what)
         IN  /\ sheet \in Sheets /\ sheet.at = "rows" /\ sheet.left = old.left /\ sheet.size = old.size
             /\ sheet.created = old.created + (IF what = "created" THEN 1 ELSE 0)
             /\ sheet.updated = old.updated + (IF what = "updated" THEN 1 ELSE 0)
             /\ sheet.skipped = old.skipped + (IF what = "skipped" THEN 1 ELSE 0)
<1> DEFINE done == [old EXCEPT !.at = "rows", !.person = "none", !.role = "none", !.phone = "none"]
<1>1. done \in Sheets /\ done.at = "rows" /\ done.left = old.left /\ done.size = old.size
      /\ done.created = old.created /\ done.updated = old.updated /\ done.skipped = old.skipped
    BY DEF Sheets
<1>2. old.created \in Nat /\ old.updated \in Nat /\ old.skipped \in Nat
    BY DEF Sheets
<1> HIDE DEF done
<1>3. CASE what = "created"
  <2>1. Counted(old, what) = [done EXCEPT !.created = @ + 1]
      BY <1>1, <1>3 DEF Counted, Sheets, done
  <2> QED  BY <1>1, <1>2, <1>3, <2>1 DEF Sheets
<1>4. CASE what = "updated"
  <2>1. Counted(old, what) = [done EXCEPT !.updated = @ + 1]
      BY <1>1, <1>4 DEF Counted, Sheets, done
  <2> QED  BY <1>1, <1>2, <1>4, <2>1 DEF Sheets
<1>5. CASE what = "skipped"
  <2>1. Counted(old, what) = [done EXCEPT !.skipped = @ + 1]
      BY <1>1, <1>5 DEF Counted, Sheets, done
  <2> QED  BY <1>1, <1>2, <1>5, <2>1 DEF Sheets
<1> QED  BY <1>3, <1>4, <1>5

LEMMA CreateUserStep == ASSUME RosterInv, NEW i \in Imports, CreateUser(i) PROVE RosterInv'
<1> DEFINE old == import[i]
<1>1. old.at = "insert" /\ UNCHANGED <<members, troubles>> /\ old \in Sheets /\ AddsUp(old) /\ RowHeld(old) /\ Cardinality(Made(i)) = MadeBy(old)
    BY SheetTyped, SheetsAddUp DEF CreateUser
<1>2. CASE Owns(old.phone) # {}
  <2> DEFINE sheet == Counted(old, "skipped")
  <2>1. import' = [import EXCEPT ![i] = sheet] /\ UNCHANGED people
      BY <1>2, Zenon DEF CreateUser, Count
  <2>2. sheet \in Sheets /\ sheet.at = "rows" /\ sheet.left = old.left /\ sheet.size = old.size
        /\ sheet.created = old.created /\ sheet.updated = old.updated /\ sheet.skipped = old.skipped + 1
    <3>1. old.created \in Nat /\ old.updated \in Nat /\ old.skipped \in Nat
        BY <1>1 DEF Sheets
    <3>2. /\ sheet \in Sheets /\ sheet.at = "rows" /\ sheet.left = old.left /\ sheet.size = old.size
          /\ sheet.created = old.created + 0 /\ sheet.updated = old.updated + 0 /\ sheet.skipped = old.skipped + 1
        BY <1>1, CountedSheet
    <3> QED  BY <3>1, <3>2
  <2> HIDE DEF old, sheet
  <2>3. AddsUp(sheet) /\ RowHeld(sheet) /\ MadeBy(sheet) = MadeBy(old)
      BY <1>1, <2>2, RosterAssumptions DEF AddsUp, MadeBy, RowHeld, Sheets
  <2> QED  BY <1>1, <2>1, <2>2, <2>3, TheRest, QuietSheetStep DEF old
<1>3. CASE Owns(old.phone) = {}
  <2>1. PICK p \in People :
          /\ ~There(p)
          /\ people' = [people EXCEPT ![p] = [phone |-> old.phone, name |-> "given", active |-> TRUE,
                                              role |-> old.role, by |-> i]]
          /\ import' = [import EXCEPT ![i].at = "joinNew", ![i].person = p]
      BY <1>3 DEF CreateUser
  <2> DEFINE sheet == [old EXCEPT !.at = "joinNew", !.person = p]
             row == [phone |-> old.phone, name |-> "given", active |-> TRUE, role |-> old.role, by |-> i]
  <2>2. import' = [import EXCEPT ![i] = sheet]
      BY <2>1, TheRest
  <2>3. row \in PersonRows /\ row.by = i
      BY <1>1 DEF Sheets, PersonRows
  <2>4. people[p].by = "nobody" /\ people' = [people EXCEPT ![p] = row]
      BY <2>1 DEF There
  <2> HIDE DEF row
  <2>5. people' \in [People -> PersonRows] /\ \A q \in People : people'[q] = IF q = p THEN row ELSE people[q]
      BY <2>3, <2>4, TheRest
  <2>6. /\ Made(i)' = Made(i) \cup {p} /\ p \notin Made(i)
        /\ \A j \in Imports \ {i} : Made(j)' = Made(j)
      BY <2>3, <2>4, <2>5, RosterAssumptions DEF Made
  <2>7. IsFiniteSet(Made(i)') /\ Cardinality(Made(i)') = Cardinality(Made(i)) + 1
      BY <2>6, FS_AddElement DEF RosterInv
  <2> HIDE DEF old
  <2>8. sheet \in Sheets /\ sheet.at = "joinNew" /\ sheet.person = p /\ sheet.role = old.role /\ sheet.left = old.left /\ sheet.skipped = old.skipped
        /\ sheet.size = old.size /\ sheet.created = old.created /\ sheet.updated = old.updated
      BY <1>1 DEF Sheets
  <2> HIDE DEF sheet
  <2>9. AddsUp(sheet) /\ RowHeld(sheet) /\ MadeBy(sheet) = MadeBy(old) + 1
      BY <1>1, <2>8, RosterAssumptions DEF AddsUp, MadeBy, RowHeld, Sheets
  <2> QED  BY <1>1, <2>2, <2>5, <2>6, <2>7, <2>8, <2>9, TheRest, SheetStep
<1> QED  BY <1>2, <1>3

LEMMA AddMemberStep == ASSUME RosterInv, NEW i \in Imports, AddMember(i) PROVE RosterInv'
<1> DEFINE old == import[i]
           what == Tallied(old.at)
           sheet == Counted(old, what)
           row == <<old.person, old.role>>
<1>1. /\ import' = [import EXCEPT ![i] = sheet] /\ UNCHANGED people /\ old.at \in {"joinOld", "joinNew"}
      /\ members' \in {members, members \cup {row}}
      /\ troubles' \in {troubles, troubles + 1} /\ troubles' <= MaxTroubles
  <2>1. import' = [import EXCEPT ![i] = sheet]
      BY Zenon DEF AddMember, Count
  <2> QED  BY <2>1, TheRest DEF AddMember
<1>2. old \in Sheets /\ AddsUp(old) /\ RowHeld(old) /\ troubles' \in 0..MaxTroubles
    BY <1>1, SheetTyped, SheetsAddUp, TheRest, RosterAssumptions
<1>3. members' \subseteq People \X MemberRoles
    BY <1>1, <1>2, TheRest DEF RowHeld
<1>4. what = IF old.at = "joinNew" THEN "created" ELSE "updated"
    BY DEF Tallied
<1> HIDE DEF what
<1>5. sheet \in Sheets /\ sheet.at = "rows" /\ sheet.left = old.left /\ sheet.size = old.size
      /\ sheet.created = old.created + (IF what = "created" THEN 1 ELSE 0)
      /\ sheet.updated = old.updated + (IF what = "updated" THEN 1 ELSE 0)
      /\ sheet.skipped = old.skipped + (IF what = "skipped" THEN 1 ELSE 0)
    BY <1>2, <1>4, CountedSheet
<1> HIDE DEF old, sheet
<1>6. AddsUp(sheet) /\ RowHeld(sheet) /\ MadeBy(sheet) = MadeBy(old)
    BY <1>1, <1>2, <1>4, <1>5, RosterAssumptions DEF AddsUp, MadeBy, RowHeld, Sheets
<1> QED  BY <1>1, <1>2, <1>3, <1>5, <1>6, TheRest, QuietSheetStep DEF old

LEMMA CloseSheetStep == ASSUME RosterInv, NEW i \in Imports, CloseSheet(i) PROVE RosterInv'
<1> DEFINE old == import[i]
           sheet == [old EXCEPT !.at = "closed"]
<1>1. import' = [import EXCEPT ![i] = sheet] /\ UNCHANGED <<people, members, troubles>> /\ old.at = "rows"
    BY TheRest DEF CloseSheet
<1>2. old \in Sheets /\ AddsUp(old) /\ RowHeld(old)
    BY <1>1, SheetTyped, SheetsAddUp
<1> HIDE DEF old
<1>3. sheet \in Sheets /\ sheet.at = "closed" /\ sheet.left = old.left /\ sheet.skipped = old.skipped
      /\ sheet.size = old.size /\ sheet.created = old.created /\ sheet.updated = old.updated
    BY <1>2 DEF Sheets
<1> HIDE DEF sheet
<1>4. AddsUp(sheet) /\ RowHeld(sheet) /\ MadeBy(sheet) = MadeBy(old)
    BY <1>1, <1>2, <1>3, RosterAssumptions DEF AddsUp, MadeBy, RowHeld, Sheets
<1> QED  BY <1>1, <1>3, <1>4, TheRest, QuietSheetStep DEF old

LEMMA StopImportStep == ASSUME RosterInv, NEW i \in Imports, StopImport(i) PROVE RosterInv'
<1> DEFINE sheet == [Unopened EXCEPT !.at = "dead"]
<1>1. import' = [import EXCEPT ![i] = sheet] /\ UNCHANGED <<people, members>> /\ troubles' \in 0..MaxTroubles
    BY TheRest, RosterAssumptions DEF StopImport
<1>2. sheet \in Sheets /\ sheet.at = "dead" /\ RowHeld(sheet)
    BY RosterAssumptions DEF Sheets, Unopened, RowHeld
<1> QED  BY <1>1, <1>2, TheRest, QuietSheetStep

LEMMA PersonStep ==
  ASSUME RosterInv, NEW p \in People, UNCHANGED <<members, import, troubles>>,
         \/ \E phone \in Numbers : SignUp(p, phone)
         \/ UpdateProfile(p) \/ HandleUpdateUser(p) \/ HandleSetUserActive(p) \/ DeleteUser(p)
  PROVE  RosterInv'
<1>1. people[p] \in PersonRows
    BY TheRest
<1>2. PICK row \in PersonRows :
        people' = [people EXCEPT ![p] = row] /\ \A i \in Imports : (row.by = i) <=> (people[p].by = i)
  <2>1. CASE \E phone \in Numbers : SignUp(p, phone)
    <3>1. PICK phone \in Numbers : SignUp(p, phone)
        BY <2>1
    <3> DEFINE row == [phone |-> phone, name |-> "none", active |-> TRUE, role |-> "student", by |-> "self"]
    <3>2. row \in PersonRows /\ row.by = "self"
        BY DEF PersonRows, MemberRoles
    <3> QED  BY <3>1, <3>2, RosterAssumptions DEF SignUp, There
  <2>2. CASE UpdateProfile(p)
    <3> DEFINE row == [people[p] EXCEPT !.name = "given"]
    <3>1. row \in PersonRows /\ row.by = people[p].by
        BY <1>1 DEF PersonRows
    <3> QED  BY <2>2, <3>1, TheRest DEF UpdateProfile
  <2>3. CASE HandleUpdateUser(p)
    <3>1. PICK phone \in Numbers \cup {"none"} : AdminUpdateUser(p, phone)
        BY <2>3 DEF HandleUpdateUser
    <3> DEFINE row == [people[p] EXCEPT !.phone = phone, !.name = "given"]
    <3>2. row \in PersonRows /\ row.by = people[p].by
        BY <1>1 DEF PersonRows
    <3> QED  BY <3>1, <3>2, TheRest DEF AdminUpdateUser
  <2>4. CASE HandleSetUserActive(p)
    <3>1. PICK active \in BOOLEAN : SetUserActive(p, active)
        BY <2>4 DEF HandleSetUserActive
    <3> DEFINE row == [people[p] EXCEPT !.active = active]
    <3>2. row \in PersonRows /\ row.by = people[p].by
        BY <1>1 DEF PersonRows
    <3> QED  BY <3>1, <3>2, TheRest DEF SetUserActive
  <2>5. CASE DeleteUser(p)
    <3> DEFINE row == [people[p] EXCEPT !.active = FALSE, !.phone = "none", !.name = "erased"]
    <3>1. row \in PersonRows /\ row.by = people[p].by
        BY <1>1 DEF PersonRows
    <3> QED  BY <2>5, <3>1, TheRest DEF DeleteUser
  <2> QED  BY <2>1, <2>2, <2>3, <2>4, <2>5
<1>3. people' \in [People -> PersonRows] /\ \A q \in People : people'[q] = IF q = p THEN row ELSE people[q]
    BY <1>2, TheRest
<1> QED  BY <1>2, <1>3, PeopleStep

LEMMA RosterNextStep == RosterInv /\ [RosterNext]_rosterVars => RosterInv'
<1> SUFFICES ASSUME RosterInv, [RosterNext]_rosterVars PROVE RosterInv'
    OBVIOUS
<1>1. CASE \E i \in Imports, n \in 1..MaxRows : OpenSheet(i, n)
    BY <1>1, OpenSheetStep
<1>2. CASE \E i \in Imports : SkipRow(i)
    BY <1>2, SkipRowStep
<1>3. CASE \E i \in Imports, phone \in Numbers, role \in SheetRoles : ProcessRow(i, phone, role)
    BY <1>3, ProcessRowStep
<1>4. CASE \E i \in Imports : RenameExisting(i)
    BY <1>4, RenameExistingStep
<1>5. CASE \E i \in Imports : CreateUser(i)
    BY <1>5, CreateUserStep
<1>6. CASE \E i \in Imports : AddMember(i)
    BY <1>6, AddMemberStep
<1>7. CASE \E i \in Imports : CloseSheet(i) \/ StopImport(i)
    BY <1>7, CloseSheetStep, StopImportStep
<1>8. CASE /\ \E p \in People :
                \/ \E phone \in Numbers : SignUp(p, phone)
                \/ UpdateProfile(p) \/ HandleUpdateUser(p) \/ HandleSetUserActive(p) \/ DeleteUser(p)
           /\ UNCHANGED <<members, import, troubles>>
    BY <1>8, PersonStep
<1>9. CASE UNCHANGED rosterVars
    BY <1>9, TheRest, PeopleStep DEF rosterVars
<1> QED  BY <1>1, <1>2, <1>3, <1>4, <1>5, <1>6, <1>7, <1>8, <1>9 DEF RosterNext

LEMMA RosterInitHolds == RosterInit => RosterInv
<1> SUFFICES ASSUME RosterInit PROVE RosterInv
    OBVIOUS
<1>1. NoPerson \in PersonRows /\ Unopened \in Sheets
    BY RosterAssumptions DEF NoPerson, PersonRows, Unopened, Sheets
<1>2. RosterTypeOK
    BY <1>1, RosterTypes, RosterAssumptions DEF RosterInit
<1>3. \A i \in Imports : Made(i) = {}
    BY RosterAssumptions DEF RosterInit, Made, NoPerson
<1>4. \A i \in Imports : IsFiniteSet(Made(i)) /\ Cardinality(Made(i)) = 0 /\ import[i] = Unopened
    BY <1>3, FS_EmptySet DEF RosterInit
<1>5. ImportsAddUp
    BY <1>4 DEF ImportsAddUp, Made, InHand, Unopened
<1> QED  BY <1>2, <1>4, <1>5 DEF RosterInv, RowHeld, Unopened

\* Every reachable state satisfies the invariant, and with it the type invariant: an import is at
\* a row of its own.
THEOREM RosterInvariant == RosterSpec => []RosterInv
BY RosterInitHolds, RosterNextStep, PTL DEF RosterSpec

\* What an import tells adds up, for any number of people, numbers and imports at the same time.
THEOREM ImportsAlwaysAddUp == RosterSpec => []ImportsAddUp
<1>1. RosterInv => ImportsAddUp
    BY DEF RosterInv
<1> QED  BY <1>1, RosterInvariant, PTL

-----------------------------------------------------------------------------
(* The composition that the run checks *)

\* The steps of one part are steps of its own specification, and stutter for the others.
LEMMA BucketPart == Spec => BucketSpec
<1>1. Init => BucketInit
    BY DEF Init
<1>2. [Next]_accountsVars => [BucketNext]_bucketVars
    BY Zenon DEF Next, accountsVars
<1> QED  BY <1>1, <1>2, PTL DEF Spec, BucketSpec

LEMMA LoginPart == Spec => LoginSpec
<1>1. Init => LoginInit
    BY DEF Init
<1>2. [Next]_accountsVars => [LoginNext]_loginVars
    BY Zenon DEF Next, accountsVars
<1> QED  BY <1>1, <1>2, PTL DEF Spec, LoginSpec

LEMMA SessionPart == Spec => SessionSpec
<1>1. Init => SessionInit
    BY DEF Init
<1>2. [Next]_accountsVars => [SessionNext]_sessionVars
    BY Zenon DEF Next, accountsVars
<1> QED  BY <1>1, <1>2, PTL DEF Spec, SessionSpec

LEMMA TenancyPart == Spec => TenancySpec
<1>1. Init => TenancyInit
    BY DEF Init
<1>2. [Next]_accountsVars => [TenancyNext]_tenancyVars
    BY Zenon DEF Next, accountsVars
<1> QED  BY <1>1, <1>2, PTL DEF Spec, TenancySpec

LEMMA CertPart == Spec => CertSpec
<1>1. Init => CertInit
    BY DEF Init
<1>2. [Next]_accountsVars => [CertNext]_certVars
    BY Zenon DEF Next, accountsVars
<1> QED  BY <1>1, <1>2, PTL DEF Spec, CertSpec

LEMMA LookupPart == Spec => LookupSpec
<1>1. Init => LookupInit
    BY DEF Init
<1>2. [Next]_accountsVars => [LookupNext]_lookupVars
    BY Zenon DEF Next, accountsVars
<1> QED  BY <1>1, <1>2, PTL DEF Spec, LookupSpec

LEMMA RosterPart == Spec => RosterSpec
<1>1. Init => RosterInit
    BY DEF Init
<1>2. [Next]_accountsVars => [RosterNext]_rosterVars
    BY Zenon DEF Next, accountsVars
<1> QED  BY <1>1, <1>2, PTL DEF Spec, RosterSpec

\* The type invariant of every part holds in the composition.
THEOREM AccountsTyped == Spec => []TypeOK
<1>1. /\ BucketInv => BucketTypeOK
      /\ LoginInv => LoginTypeOK
      /\ SessionInv => SessionTypeOK
      /\ TenancyInv => TenancyTypeOK
      /\ CertInv => CertTypeOK
      /\ LookupInv => LookupTypeOK
      /\ RosterInv => RosterTypeOK
    BY DEF BucketInv, LoginInv, SessionInv, TenancyInv, CertInv, LookupInv, RosterInv
<1>2. /\ BucketTypeOK /\ LoginTypeOK /\ SessionTypeOK /\ TenancyTypeOK /\ CertTypeOK /\ LookupTypeOK /\ RosterTypeOK
      => TypeOK
    BY DEF TypeOK
<1> QED
    BY <1>1, <1>2, BucketPart, LoginPart, SessionPart, TenancyPart, CertPart, LookupPart, RosterPart,
       BucketInvariant, LoginInvariant, SessionInvariant, TenancyInvariant, CertInvariant, LookupInvariant,
       RosterInvariant, PTL

\* What the run checks of the composition, for every value of the constants: what each part
\* promises it also promises beside the others.
THEOREM AccountsKeepTheirWord ==
  Spec => [](/\ WindowBudget /\ GuessesBounded /\ LogoutSticks /\ RoleCatchesUp
             /\ WelcomedAreComplete /\ CertsAreRecent /\ AnswersAreRecent /\ ImportsAddUp)
BY BucketPart, LoginPart, SessionPart, TenancyPart, CertPart, LookupPart, RosterPart, BudgetOfEveryWindow,
   GuessesAlwaysBounded, LogoutsStick, RolesCatchUp, WelcomedAlwaysComplete, CertsAlwaysRecent,
   AnswersAlwaysRecent, ImportsAlwaysAddUp, PTL
=============================================================================
