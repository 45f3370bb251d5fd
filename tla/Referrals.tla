----------------------------- MODULE Referrals -----------------------------
(***************************************************************************)
(* Referral codes: every user has one, a new user may sign in with the     *)
(* code of another, and the first purchase of the new user is to reward    *)
(* the other.  The event and the counter of the code are written by two    *)
(* statements whose errors are ignored, and logins of different users with *)
(* one code overlap.                                                       *)
(***************************************************************************)
EXTENDS Integers, Sequences, FiniteSets

CONSTANTS
  Referrers,    \* users who hand out their codes
  Newcomers,    \* users who sign up
  Visits,       \* requests in flight at one time
  MaxEvents,    \* bound of the run: rows of referral_events
  MaxMishaps    \* bound of the run: statements that fail, and crashes

ASSUME ReferralAssumptions == IsFiniteSet(Visits) /\ MaxEvents \in Nat /\ MaxMishaps \in Nat

VARIABLES
  uses,     \* the counter of each code, or NoCode
  events,   \* rows of referral_events, the oldest first
  visit,    \* where each request is, and what it has read
  bought,   \* the newcomers for whom RewardOnPurchase has run
  mishaps

referralVars == <<uses, events, visit, bought, mishaps>>

NoCode == -1
Nobody == "nobody"
NoVisit == [at |-> "idle", user |-> Nobody, code |-> Nobody, seen |-> 0]

ReferralTypeOK ==
  /\ uses \in [Referrers -> Nat \cup {NoCode}]
  /\ events \in Seq([referrer : Referrers, user : Newcomers, status : {"signed_up", "rewarded"}])
  /\ visit \in [Visits -> [at : {"idle", "record", "count", "list"},
                           user : Newcomers \cup {Nobody}, code : Referrers \cup {Nobody}, seen : Nat]]
  /\ bought \in SUBSET Newcomers
  /\ mishaps \in 0 .. MaxMishaps

ReferralInit ==
  /\ uses = [u \in Referrers |-> NoCode]
  /\ events = << >>
  /\ visit = [v \in Visits |-> NoVisit]
  /\ bought = {}
  /\ mishaps = 0

-----------------------------------------------------------------------------
Mishap == mishaps < MaxMishaps /\ mishaps' = mishaps + 1
Leave(v) == visit' = [visit EXCEPT ![v] = NoVisit]

\* GET /referrals/me: the code of u exists afterwards.
MyCode(u) ==
  /\ uses' = [uses EXCEPT ![u] = IF @ = NoCode THEN 0 ELSE @]
  /\ UNCHANGED <<events, visit, bought, mishaps>>

\* A login that found no account for u has created one, and comes with the code of c.
AttachToSignup(v, u, c) ==
  /\ visit[v].at = "idle" /\ uses[c] # NoCode /\ u # c
  /\ u \notin bought
  /\ visit' = [visit EXCEPT ![v] = [NoVisit EXCEPT !.at = "record", !.user = u, !.code = c, !.seen = uses[c]]]
  /\ UNCHANGED <<uses, events, bought, mishaps>>

\* The event; an error is ignored.
RecordReferralEvent(v) ==
  /\ visit[v].at = "record"
  /\ \/ /\ Len(events) < MaxEvents
        /\ events' = Append(events, [referrer |-> visit[v].code, user |-> visit[v].user,
                                     status |-> "signed_up"])
        /\ UNCHANGED mishaps
     \/ Mishap /\ UNCHANGED events
  /\ visit' = [visit EXCEPT ![v].at = "count"]
  /\ UNCHANGED <<uses, bought>>

\* Mutant of IncrementReferralCodeUses: the counter is written back as it was read.
WriteBackUses(v) == [uses EXCEPT ![visit[v].code] = visit[v].seen + 1]
IncrementReferralCodeUses(v) == [uses EXCEPT ![visit[v].code] = @ + 1]

CountUse(v) ==
  /\ visit[v].at = "count"
  /\ \/ uses' = IncrementReferralCodeUses(v) /\ UNCHANGED mishaps
     \/ Mishap /\ UNCHANGED uses
  /\ Leave(v)
  /\ UNCHANGED <<events, bought>>

\* The rows where referrer_id = id: none when id is NULL.
EventsForReferrer(id) == {i \in DOMAIN events : id # Nobody /\ events[i].referrer = id}

\* A purchase of u has been settled by verify.
RewardOnPurchase(v, u) ==
  /\ visit[v].at = "idle"
  /\ visit' = [visit EXCEPT ![v] = [NoVisit EXCEPT !.at = "list", !.user = u]]
  /\ UNCHANGED <<uses, events, bought, mishaps>>

\* The events of a NULL referrer are listed and searched for one of the buyer's that has not
\* been rewarded; the first is, if there is one.
MarkReferralRewarded(v) ==
  /\ visit[v].at = "list"
  /\ LET match == {i \in EventsForReferrer(Nobody) :
                     events[i].user = visit[v].user /\ events[i].status = "signed_up"}
     IN events' = [i \in DOMAIN events |->
          [events[i] EXCEPT !.status = IF i \in match /\ \A j \in match : i <= j THEN "rewarded" ELSE @]]
  /\ bought' = bought \cup {visit[v].user}
  /\ Leave(v)
  /\ UNCHANGED <<uses, mishaps>>

\* The server stops while it handles v.
StopVisit(v) ==
  /\ visit[v].at # "idle" /\ Mishap /\ Leave(v)
  /\ UNCHANGED <<uses, events, bought>>

ReferralNext ==
  \/ \E u \in Referrers : MyCode(u)
  \/ \E v \in Visits :
       RecordReferralEvent(v) \/ CountUse(v) \/ MarkReferralRewarded(v) \/ StopVisit(v)
  \/ \E v \in Visits, u \in Newcomers : RewardOnPurchase(v, u) \/ \E c \in Referrers : AttachToSignup(v, u, c)

ReferralSpec == ReferralInit /\ [][ReferralNext]_referralVars

-----------------------------------------------------------------------------
\* The counter of a code misses no event, however logins with it overlap: it lags only by the
\* logins between their two statements, and by what a failure took.
UsesCountEvents ==
  \A c \in Referrers : uses[c] # NoCode =>
    Cardinality({i \in DOMAIN events : events[i].referrer = c})
      <= uses[c] + Cardinality({v \in Visits : visit[v].at = "count" /\ visit[v].code = c}) + mishaps
=============================================================================
