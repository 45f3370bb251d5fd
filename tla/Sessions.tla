------------------------------ MODULE Sessions ------------------------------
(***************************************************************************)
(* Sessions after sign-in.  A user holds signed access tokens, which are   *)
(* believed until they expire, and the server keeps one refresh token per  *)
(* user in Redis.  Refreshing reads Redis, then the row of the user, then  *)
(* mints and writes Redis again; logging out deletes the key; admins whose *)
(* token says so change roles and rows.  A signed token says when it was   *)
(* minted to the second, and one tick of the clock is a second here: two   *)
(* refresh tokens of a user minted in the same second are the same string. *)
(***************************************************************************)
EXTENDS Integers

CONSTANTS
  Users,
  FirstAdmin,  \* the admin the tenant was created with
  Exchanges,   \* logins and refreshes in flight at one time
  AccessLife,  \* JWT_ACCESS_EXPIRY
  Delay,       \* bound: seconds a login or refresh takes
  MaxClock     \* bound of the run: seconds it lasts

ASSUME SessionAssumptions ==
  FirstAdmin \in Users /\ AccessLife \in Nat /\ Delay \in Nat /\ MaxClock \in Nat

VARIABLES
  clock,
  rows,      \* the role of each row of users, and when it last changed
  stored,    \* refresh:<user> in Redis: when the token was minted, or None
  access,    \* the access tokens that have not expired
  exchange,  \* what each login or refresh in flight has read
  left       \* the users who logged out and have not come back since

sessionVars == <<clock, rows, stored, access, exchange, left>>

None == -1
Roles == {"student", "admin"}
NoExchange == [at |-> "idle", user |-> FirstAdmin, login |-> FALSE, role |-> "student",
               since |-> 0, spans |-> FALSE]

SessionTypeOK ==
  /\ clock \in Nat
  /\ rows \in [Users -> [role : Roles, changed : Nat]]
  /\ stored \in [Users -> Nat \cup {None}]
  /\ access \subseteq [user : Users, role : Roles, minted : Nat]
  /\ exchange \in [Exchanges -> [at : {"idle", "row", "mint"}, user : Users, login : BOOLEAN,
                                 role : Roles, since : Nat, spans : BOOLEAN]]
  /\ left \subseteq Users

SessionInit ==
  /\ clock = 0
  /\ rows = [u \in Users |-> [role |-> IF u = FirstAdmin THEN "admin" ELSE "student", changed |-> 0]]
  /\ stored = [u \in Users |-> None]
  /\ access = {}
  /\ exchange = [e \in Exchanges |-> NoExchange]
  /\ left = {}

-----------------------------------------------------------------------------
\* An access token that validates at time t.
Validates(a, t) == t < a.minted + AccessLife

SecondPasses ==
  /\ clock < MaxClock
  /\ \A e \in Exchanges : exchange[e].at # "idle" => clock < exchange[e].since + Delay
  /\ clock' = clock + 1
  /\ access' = {a \in access : Validates(a, clock')}
  /\ UNCHANGED <<rows, stored, exchange, left>>

\* The key of Redis reaches its TTL.
RefreshExpires(u) ==
  /\ stored[u] # None
  /\ stored' = [stored EXCEPT ![u] = None]
  /\ UNCHANGED <<clock, rows, access, exchange, left>>

\* A sign-in (by code or Google) has found the row of u; is_active is never looked at.
SignIn(e, u) ==
  /\ exchange[e].at = "idle"
  /\ exchange' = [exchange EXCEPT ![e] = [at |-> "mint", user |-> u, login |-> TRUE,
                    role |-> rows[u].role, since |-> clock, spans |-> FALSE]]
  /\ UNCHANGED <<clock, rows, stored, access, left>>

\* Mutant of SameToken: a user without a stored token passes.
SameTokenOrNone(u, token) == stored[u] \in {token, None}
SameToken(u, token) == stored[u] = token

\* RefreshToken: a refresh token minted some time up to now is compared with the stored one.
CompareStored(e, u) ==
  /\ exchange[e].at = "idle"
  /\ \E token \in 0 .. clock : SameToken(u, token)
  /\ exchange' = [exchange EXCEPT ![e] = [at |-> "row", user |-> u, login |-> FALSE,
                    role |-> "student", since |-> clock, spans |-> FALSE]]
  /\ UNCHANGED <<clock, rows, stored, access, left>>

\* Mutant of ReadRow: the role is copied from a token the user holds.
ReadClaims(e) ==
  /\ exchange[e].at = "row"
  /\ \E a \in access : a.user = exchange[e].user /\ exchange' = [exchange EXCEPT ![e].at = "mint", ![e].role = a.role]
  /\ UNCHANGED <<clock, rows, stored, access, left>>

\* RefreshToken reads the row of the user; is_active is never looked at.
ReadRow(e) ==
  /\ exchange[e].at = "row"
  /\ exchange' = [exchange EXCEPT ![e].at = "mint", ![e].role = rows[exchange[e].user].role]
  /\ UNCHANGED <<clock, rows, stored, access, left>>

\* Both tokens are minted and the refresh token is stored over whatever is there.
IssueTokens(e) ==
  /\ exchange[e].at = "mint"
  /\ LET u == exchange[e].user IN
       /\ access' = access \cup {[user |-> u, role |-> exchange[e].role, minted |-> clock]}
       /\ stored' = [stored EXCEPT ![u] = clock]
       /\ left' = IF exchange[e].login \/ exchange[e].spans THEN left \ {u} ELSE left
  /\ exchange' = [exchange EXCEPT ![e] = NoExchange]
  /\ UNCHANGED <<clock, rows>>

\* The requests of u that AuthMiddleware lets through, and those RoleMiddleware lets through
\* as an admin's: what the token says counts, not what the row says now.
Authenticated(u) == \E a \in access : a.user = u
AdminOnly(u) == \E a \in access : a.user = u /\ a.role = "admin"

Logout(u) ==
  /\ Authenticated(u)
  /\ stored' = [stored EXCEPT ![u] = None]
  /\ left' = left \cup {u}
  /\ exchange' = [e \in Exchanges |->
       IF exchange[e].at # "idle" /\ exchange[e].user = u THEN [exchange[e] EXCEPT !.spans = TRUE]
       ELSE exchange[e]]
  /\ UNCHANGED <<clock, rows, access>>

SetUserRole(u, role) ==
  /\ \E by \in Users : AdminOnly(by)
  /\ rows' = [rows EXCEPT ![u].role = role, ![u].changed = clock]
  /\ UNCHANGED <<clock, stored, access, exchange, left>>

\* The routes: a body without a token, or with no such role, changes nothing.
HandleLogout == \E u \in Users : Logout(u)
HandleRefreshToken == \E e \in Exchanges, u \in Users : CompareStored(e, u)
HandleSetUserRole == \E u \in Users, role \in Roles : SetUserRole(u, role)

SessionNext ==
  \/ HandleLogout \/ HandleRefreshToken \/ HandleSetUserRole
  \/ \E e \in Exchanges : ReadRow(e) \/ IssueTokens(e) \/ \E u \in Users : SignIn(e, u)
  \/ SecondPasses
  \/ \E u \in Users : RefreshExpires(u)

SessionSpec == SessionInit /\ [][SessionNext]_sessionVars

-----------------------------------------------------------------------------
\* A logout lasts: the server keeps no refresh token of a user who logged out until the user
\* signs in again, but for a login or refresh that was on its way while the logout came.
LogoutSticks == \A u \in left : stored[u] = None

\* A token with a role the user no longer has was minted at most Delay seconds after the role
\* changed, and so is believed for at most AccessLife longer: refreshing it never carries the
\* old role on.
RoleCatchesUp ==
  \A a \in access : a.role # rows[a.user].role => a.minted <= rows[a.user].changed + Delay
=============================================================================
