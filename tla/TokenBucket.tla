---------------------------- MODULE TokenBucket ----------------------------
(***************************************************************************)
(* The in-memory limiter behind RateLimit and RateLimitPerTenant: one      *)
(* bucket per key (an address or a tenant), filled by the time that passed *)
(* since the key was last seen, and a janitor that forgets keys it has not *)
(* seen for a while.  A forgotten key starts again with a full bucket, and *)
(* a request reads the clock before it takes the lock, so that readings    *)
(* reach the bucket out of order.                                          *)
(*                                                                         *)
(* A tick of the clock earns one unit, and a request costs Cost of them.   *)
(***************************************************************************)
EXTENDS Integers

CONSTANTS
  Keys,      \* what keyFunc returns
  Calls,     \* requests in the limiter at one time
  Burst,     \* the capacity of a bucket
  Cost,      \* ticks that earn a request: 60 / rpm seconds
  Patience,  \* the janitor evicts a key unseen for longer
  Lag,       \* bound: ticks between the reading of the clock and the lock
  MaxTime    \* bound of the run: ticks it lasts

\* Fifteen minutes refill the bucket of any configuration whose burst is not out of all
\* proportion to its rpm, and are far longer than a request waits for the lock.
ASSUME BucketAssumptions ==
  /\ Keys # {}
  /\ Burst \in Nat /\ Cost \in Nat \ {0} /\ Lag \in Nat /\ MaxTime \in Nat
  /\ Patience \in Nat /\ Burst + 2 * Lag <= Patience

VARIABLES
  time,
  buckets,   \* the map of the limiter
  arrived,   \* the key of each request inside, and its reading of the clock
  admitted,  \* what each key has been admitted so far
  window     \* an arbitrary earlier moment, and what had been admitted by then

bucketVars == <<time, buckets, arrived, admitted, window>>

NoBucket == [present |-> FALSE, tokens |-> 0, lastSeen |-> 0]
Outside == [inside |-> FALSE, key |-> CHOOSE k \in Keys : TRUE, now |-> 0]

BucketTypeOK ==
  /\ time \in Nat
  /\ buckets \in [Keys -> [present : BOOLEAN, tokens : (-Lag) .. Burst, lastSeen : Nat]]
  /\ arrived \in [Calls -> [inside : BOOLEAN, key : Keys, now : Nat]]
  /\ admitted \in [Keys -> Nat]
  /\ window \in [time : Nat, admitted : [Keys -> Nat]]

BucketInit ==
  /\ time = 0
  /\ buckets = [k \in Keys |-> NoBucket]
  /\ arrived = [c \in Calls |-> Outside]
  /\ admitted = [k \in Keys |-> 0]
  /\ window = [time |-> time, admitted |-> admitted]

-----------------------------------------------------------------------------
Tick ==
  /\ time < MaxTime
  /\ \A c \in Calls : arrived[c].inside => time < arrived[c].now + Lag
  /\ time' = time + 1
  /\ UNCHANGED <<buckets, arrived, admitted, window>>

\* The request has a key, and reads the clock.
Arrive(c, k) ==
  /\ ~arrived[c].inside
  /\ arrived' = [arrived EXCEPT ![c] = [inside |-> TRUE, key |-> k, now |-> time]]
  /\ UNCHANGED <<time, buckets, admitted, window>>

\* Tokens of bucket b for a request with reading now.
Refilled(b, now) ==
  LET tokens == b.tokens + (now - b.lastSeen) IN IF tokens > Burst THEN Burst ELSE tokens

\* The bucket under key k, created full for a request with reading now.
Bucket(k, now) ==
  IF buckets[k].present THEN buckets[k] ELSE [present |-> TRUE, tokens |-> Burst, lastSeen |-> now]

\* Mutant of Enough: whatever is left is enough.
AnyLeft(tokens) == tokens > 0
Enough(tokens) == tokens >= Cost

\* What a request does between Lock and Unlock.
Limit(c) ==
  /\ arrived[c].inside
  /\ LET k == arrived[c].key
         now == arrived[c].now
         tokens == Refilled(Bucket(k, now), now)
         pass == Enough(tokens)
     IN /\ buckets' = [buckets EXCEPT ![k] =
             [present |-> TRUE, tokens |-> IF pass THEN tokens - Cost ELSE tokens, lastSeen |-> now]]
        /\ admitted' = IF pass THEN [admitted EXCEPT ![k] = @ + Cost] ELSE admitted
  /\ arrived' = [arrived EXCEPT ![c].inside = FALSE]
  /\ UNCHANGED <<time, window>>

\* Mutant of Stale: the janitor's cutoff is a tick ago.
StaleSoon(b) == b.present /\ b.lastSeen < time - 1
\* A bucket the janitor evicts.
Stale(b) == b.present /\ b.lastSeen < time - Patience

\* The goroutine woken by the ticker, under the lock.
Janitor ==
  /\ \E k \in Keys : Stale(buckets[k])
  /\ buckets' = [k \in Keys |-> IF Stale(buckets[k]) THEN NoBucket ELSE buckets[k]]
  /\ UNCHANGED <<time, arrived, admitted, window>>

\* Not code: any moment may be the one a window starts at.
StartWindow ==
  /\ window' = [time |-> time, admitted |-> admitted]
  /\ UNCHANGED <<time, buckets, arrived, admitted>>

BucketNext ==
  \/ Tick \/ Janitor \/ StartWindow
  \/ \E c \in Calls : Limit(c) \/ \E k \in Keys : Arrive(c, k)

BucketSpec == BucketInit /\ [][BucketNext]_bucketVars

-----------------------------------------------------------------------------
\* In no window does a key get more than a full burst and what the length of the window earns
\* it (and the lag of the clock readings): neither late readings nor an eviction, which hands
\* out a full bucket, give anybody more than the configured rate.
WindowBudget ==
  \A k \in Keys : admitted[k] - window.admitted[k] <= Burst + (time - window.time) + Lag
=============================================================================
