----------------------------- MODULE DoorProofs -----------------------------
(***************************************************************************)
(* Proofs about what answers a request from memory before anything else    *)
(* sees it: the buckets of the rate limiter (TokenBucket), the keys of     *)
(* Google (GoogleCerts) and the answers about a tenant (TenantLookup), for *)
(* any number of requests and any limits.                                  *)
(*                                                                         *)
(* Of a bucket, the argument is about the gain of a key, which is what it  *)
(* has been admitted since the window began.  While the key has a bucket,  *)
(* what it gained and what it has left are together no more than a full    *)
(* burst and what was earned up to the reading it was last seen with.  When *)
(* the janitor evicts the bucket, so much time has passed that the gain is *)
(* paid for by time alone, up to the readings of all requests under way:   *)
(* then a new and full bucket does no harm.  The argument about the two    *)
(* caches is that whatever is on its way to the cache was true when it set *)
(* out, and is on its way for a bounded time only.                         *)
(***************************************************************************)
EXTENDS TokenBucket, GoogleCerts, TenantLookup, TLAPS, FiniteSetTheorems

-----------------------------------------------------------------------------
(* The buckets of the rate limiter *)

BucketRecord == [present : BOOLEAN, tokens : (-Lag) .. Burst, lastSeen : Nat]
Arrivals == [inside : BOOLEAN, key : Keys, now : Nat]

Gain(k) == admitted[k] - window.admitted[k]

\* A request is in the limiter for no more than Lag.
ReadingsOK == \A c \in Calls : arrived[c].inside => arrived[c].now <= time /\ time <= arrived[c].now + Lag

\* A bucket is never in debt for more than the time that has passed since it was seen.
BucketsOK ==
  \A k \in Keys : buckets[k].present =>
    buckets[k].lastSeen <= time /\ buckets[k].lastSeen - buckets[k].tokens <= time

\* What key k has gained is paid for.
PaidFor(k) ==
  \/ Gain(k) = 0
  \/ /\ buckets[k].present
     /\ Gain(k) + buckets[k].tokens - buckets[k].lastSeen <= Burst - window.time + Lag
  \/ /\ ~buckets[k].present
     /\ Gain(k) <= time - window.time + Lag
     /\ \A c \in Calls : arrived[c].inside /\ arrived[c].key = k => Gain(k) <= arrived[c].now - window.time + Lag

BucketInv ==
  /\ BucketTypeOK
  /\ window.time <= time
  /\ ReadingsOK
  /\ BucketsOK
  /\ \A k \in Keys : PaidFor(k)

-----------------------------------------------------------------------------
\* The types of BucketTypeOK, in the form the steps use.
LEMMA BucketTypes ==
  BucketTypeOK <=>
    /\ time \in Nat /\ buckets \in [Keys -> BucketRecord] /\ arrived \in [Calls -> Arrivals]
    /\ admitted \in [Keys -> Nat] /\ window \in [time : Nat, admitted : [Keys -> Nat]]
BY DEF BucketTypeOK, BucketRecord, Arrivals

LEMMA BucketInitHolds == BucketInit => BucketInv
<1> SUFFICES ASSUME BucketInit PROVE BucketInv
    OBVIOUS
<1>1. NoBucket \in BucketRecord /\ ~NoBucket.present
    BY BucketAssumptions DEF NoBucket, BucketRecord
<1>2. Outside \in Arrivals /\ ~Outside.inside
  <2>1. (CHOOSE k \in Keys : TRUE) \in Keys
      BY BucketAssumptions
  <2> QED  BY <2>1 DEF Outside, Arrivals
<1>3. BucketTypeOK
    BY <1>1, <1>2, BucketTypes DEF BucketInit
<1>4. ReadingsOK /\ BucketsOK /\ \A k \in Keys : PaidFor(k)
    BY <1>1, <1>2 DEF BucketInit, ReadingsOK, BucketsOK, PaidFor, Gain
<1> QED  BY <1>3, <1>4 DEF BucketInit, BucketInv

-----------------------------------------------------------------------------
\* A request with reading now and the bucket b it finds, or makes.
LEMMA RefillBound ==
  ASSUME NEW b, b.tokens \in (-Lag) .. Burst, b.lastSeen \in Nat, NEW now \in Nat
  PROVE  /\ Refilled(b, now) \in Int
         /\ Refilled(b, now) <= Burst
         /\ Refilled(b, now) <= b.tokens + (now - b.lastSeen)
         /\ Refilled(b, now) = Burst \/ Refilled(b, now) = b.tokens + (now - b.lastSeen)
BY BucketAssumptions DEF Refilled

\* The bucket of the key after a request: in debt for no more than the time since it was seen, and
\* with the gain of the key paid for.
LEMMA LimitStep ==
  ASSUME BucketInv, NEW c \in Calls, Limit(c)
  PROVE  BucketInv'
<1> USE BucketAssumptions
<1> DEFINE k == arrived[c].key
           now == arrived[c].now
           b == Bucket(k, now)
           tokens == Refilled(b, now)
           pass == Enough(tokens)
           left == IF pass THEN tokens - Cost ELSE tokens
           after == [present |-> TRUE, tokens |-> left, lastSeen |-> now]
<1>1. /\ time \in Nat /\ buckets \in [Keys -> BucketRecord] /\ arrived \in [Calls -> Arrivals]
      /\ admitted \in [Keys -> Nat] /\ window \in [time : Nat, admitted : [Keys -> Nat]]
    BY BucketTypes DEF BucketInv
<1>2. k \in Keys /\ now \in Nat /\ now <= time /\ time <= now + Lag /\ arrived[c].inside
    BY <1>1 DEF BucketInv, ReadingsOK, Limit, Arrivals
<1>3. /\ buckets' = [buckets EXCEPT ![k] = after]
      /\ admitted' = IF pass THEN [admitted EXCEPT ![k] = @ + Cost] ELSE admitted
      /\ arrived' = [arrived EXCEPT ![c] = [@ EXCEPT !.inside = FALSE]]
      /\ UNCHANGED <<time, window>>
    BY DEF Limit
<1> HIDE DEF after, left, pass, tokens, b, now, k
<1>4. b.tokens \in (-Lag) .. Burst /\ b.lastSeen \in Nat /\ b.lastSeen - b.tokens <= time
  <2>1. CASE buckets[k].present
      BY <1>1, <1>2, <2>1 DEF Bucket, BucketRecord, BucketInv, BucketsOK, b
  <2>2. CASE ~buckets[k].present
    <3>1. b.tokens = Burst /\ b.lastSeen = now
        BY <2>2 DEF Bucket, b
    <3> QED  BY <1>1, <1>2, <3>1
  <2> QED  BY <2>1, <2>2
<1>5. /\ tokens \in Int /\ tokens <= Burst /\ tokens <= b.tokens + (now - b.lastSeen)
      /\ now - tokens <= time
  <2>1. /\ tokens \in Int /\ tokens <= Burst /\ tokens <= b.tokens + (now - b.lastSeen)
        /\ tokens = Burst \/ tokens = b.tokens + (now - b.lastSeen)
      BY <1>2, <1>4, RefillBound DEF tokens
  <2> QED  BY <1>1, <1>2, <1>4, <2>1
<1>6. left \in (-Lag) .. Burst /\ now - left <= time
    BY <1>1, <1>2, <1>5 DEF Enough, left, pass
<1>7. after \in BucketRecord /\ after.present /\ after.tokens = left /\ after.lastSeen = now
    BY <1>2, <1>6 DEF BucketRecord, after
<1>8. /\ buckets'[k] = after /\ \A j \in Keys \ {k} : buckets'[j] = buckets[j]
      /\ buckets' \in [Keys -> BucketRecord]
    BY <1>1, <1>2, <1>3, <1>7
<1>9. /\ admitted' \in [Keys -> Nat] /\ \A j \in Keys \ {k} : admitted'[j] = admitted[j]
      /\ admitted'[k] = IF pass THEN admitted[k] + Cost ELSE admitted[k]
    BY <1>1, <1>2, <1>3
<1>10. /\ arrived' \in [Calls -> Arrivals]
       /\ \A d \in Calls : arrived'[d].inside => arrived[d].inside
       /\ \A d \in Calls : arrived'[d].key = arrived[d].key /\ arrived'[d].now = arrived[d].now
  <2>1. [arrived[c] EXCEPT !.inside = FALSE] \in Arrivals /\ ~[arrived[c] EXCEPT !.inside = FALSE].inside
        /\ [arrived[c] EXCEPT !.inside = FALSE].key = arrived[c].key
        /\ [arrived[c] EXCEPT !.inside = FALSE].now = arrived[c].now
      BY <1>1 DEF Arrivals
  <2> QED  BY <1>1, <1>3, <2>1 DEF k, now
<1>11. BucketTypeOK'
    BY <1>1, <1>3, <1>8, <1>9, <1>10, BucketTypes DEF BucketTypeOK, BucketRecord, Arrivals
<1>12. window'.time <= time' /\ ReadingsOK'
    BY <1>3, <1>10 DEF BucketInv, ReadingsOK
<1>13. BucketsOK'
  <2>1. ASSUME NEW j \in Keys, buckets'[j].present
        PROVE  buckets'[j].lastSeen <= time' /\ buckets'[j].lastSeen - buckets'[j].tokens <= time'
    <3>1. CASE j = k
        BY <1>2, <1>3, <1>6, <1>7, <1>8, <3>1
    <3>2. CASE j # k
        BY <1>3, <1>8, <2>1, <3>2 DEF BucketInv, BucketsOK
    <3> QED  BY <3>1, <3>2
  <2> QED  BY <2>1 DEF BucketsOK
<1>14. ASSUME NEW j \in Keys PROVE PaidFor(j)'
  <2>1. CASE j # k
    <3>1. Gain(j)' = Gain(j) /\ buckets'[j] = buckets[j]
        BY <1>3, <1>8, <1>9, <2>1 DEF Gain
    <3>2. PaidFor(j)
        BY DEF BucketInv
    <3> QED  BY <1>3, <1>10, <3>1, <3>2 DEF PaidFor
  <2>2. CASE j = k
    <3>1. /\ Gain(j) \in Int /\ Gain(j)' \in Int /\ Gain(j)' + left = Gain(j) + tokens
          /\ left \in Int /\ window.time \in Nat /\ window.time <= time
      <4>1. Gain(j) = admitted[j] - window.admitted[j] /\ Gain(j)' = admitted'[j] - window.admitted[j]
          BY <1>3 DEF Gain
      <4>2. admitted[j] \in Nat /\ window.admitted[j] \in Nat /\ window.time \in Nat /\ window.time <= time
          BY <1>1 DEF BucketInv
      <4>3. admitted'[j] = IF pass THEN admitted[j] + Cost ELSE admitted[j]
          BY <1>9, <2>2
      <4>4. left = IF pass THEN tokens - Cost ELSE tokens
          BY DEF left
      <4>5. CASE pass
          BY <1>5, <4>1, <4>2, <4>3, <4>4, <4>5
      <4>6. CASE ~pass
          BY <1>5, <4>1, <4>2, <4>3, <4>4, <4>6
      <4> QED  BY <4>5, <4>6
    <3>2. Gain(j)' + left - now <= Burst - window.time + Lag
      <4>1. CASE Gain(j) = 0
          BY <1>1, <1>2, <1>5, <3>1, <4>1
      <4>2. CASE buckets[j].present /\ Gain(j) + buckets[j].tokens - buckets[j].lastSeen <= Burst - window.time + Lag
        <5>1. b = buckets[j]
            BY <2>2, <4>2 DEF b, Bucket
        <5>2. b.tokens \in Int /\ Gain(j) + b.tokens - b.lastSeen <= Burst - window.time + Lag
            BY <1>4, <4>2, <5>1
        <5> QED  BY <1>1, <1>2, <1>4, <1>5, <3>1, <5>2
      <4>3. CASE ~buckets[j].present /\ Gain(j) <= now - window.time + Lag
          BY <1>1, <1>2, <1>5, <3>1, <4>3
      <4>4. PaidFor(j)
          BY DEF BucketInv
      <4> QED  BY <1>2, <2>2, <4>1, <4>2, <4>3, <4>4 DEF PaidFor, k, now
    <3>3. buckets'[j].present /\ buckets'[j].tokens = left /\ buckets'[j].lastSeen = now
        BY <1>7, <1>8, <2>2
    <3> QED  BY <1>3, <3>2, <3>3 DEF PaidFor
  <2> QED  BY <2>1, <2>2
<1> QED  BY <1>11, <1>12, <1>13, <1>14 DEF BucketInv

LEMMA TickStep == BucketInv /\ Tick => BucketInv'
<1> SUFFICES ASSUME BucketInv, Tick PROVE BucketInv'
    OBVIOUS
<1> USE BucketAssumptions
<1>1. /\ time \in Nat /\ buckets \in [Keys -> BucketRecord] /\ arrived \in [Calls -> Arrivals]
      /\ admitted \in [Keys -> Nat] /\ window \in [time : Nat, admitted : [Keys -> Nat]]
    BY BucketTypes DEF BucketInv
<1>2. time' = time + 1 /\ UNCHANGED <<buckets, arrived, admitted, window>>
    BY DEF Tick
<1>3. BucketTypeOK'
    BY <1>1, <1>2, BucketTypes DEF BucketTypeOK, BucketRecord, Arrivals
<1>4. window'.time <= time' /\ ReadingsOK'
    BY <1>1, <1>2 DEF Tick, BucketInv, ReadingsOK, Arrivals
<1>5. BucketsOK'
    BY <1>1, <1>2 DEF BucketInv, BucketsOK, BucketRecord
<1>6. ASSUME NEW k \in Keys PROVE PaidFor(k)'
  <2>1. PaidFor(k) /\ Gain(k)' = Gain(k) /\ Gain(k) \in Int /\ window.time \in Nat
      BY <1>1, <1>2 DEF BucketInv, Gain
  <2> QED  BY <1>1, <1>2, <2>1 DEF PaidFor
<1> QED  BY <1>3, <1>4, <1>5, <1>6 DEF BucketInv

LEMMA ArriveStep ==
  ASSUME BucketInv, NEW c \in Calls, NEW k \in Keys, Arrive(c, k)
  PROVE  BucketInv'
<1> USE BucketAssumptions
<1> DEFINE new == [inside |-> TRUE, key |-> k, now |-> time]
<1>1. /\ time \in Nat /\ buckets \in [Keys -> BucketRecord] /\ arrived \in [Calls -> Arrivals]
      /\ admitted \in [Keys -> Nat] /\ window \in [time : Nat, admitted : [Keys -> Nat]]
    BY BucketTypes DEF BucketInv
<1>2. arrived' = [arrived EXCEPT ![c] = new] /\ UNCHANGED <<time, buckets, admitted, window>>
    BY DEF Arrive
<1>3. new \in Arrivals /\ new.key = k /\ new.now = time
    BY <1>1 DEF Arrivals
<1>4. arrived' \in [Calls -> Arrivals] /\ arrived'[c] = new /\ \A d \in Calls \ {c} : arrived'[d] = arrived[d]
    BY <1>1, <1>2, <1>3
<1> HIDE DEF new
<1>5. BucketTypeOK'
    BY <1>1, <1>2, <1>4, BucketTypes DEF BucketTypeOK, BucketRecord, Arrivals
<1>6. ReadingsOK'
    BY <1>1, <1>2, <1>3, <1>4 DEF BucketInv, ReadingsOK
<1>7. BucketsOK' /\ window'.time <= time'
    BY <1>2 DEF BucketInv, BucketsOK
<1>8. ASSUME NEW j \in Keys PROVE PaidFor(j)'
  <2>1. PaidFor(j) /\ Gain(j)' = Gain(j)
      BY <1>2 DEF BucketInv, Gain
  <2> QED  BY <1>2, <1>3, <1>4, <2>1 DEF PaidFor
<1> QED  BY <1>5, <1>6, <1>7, <1>8 DEF BucketInv

\* An evicted bucket has not been seen for so long that time alone pays for the gain of its key.
LEMMA JanitorStep == BucketInv /\ Janitor => BucketInv'
<1> SUFFICES ASSUME BucketInv, Janitor PROVE BucketInv'
    OBVIOUS
<1> USE BucketAssumptions
<1>1. /\ time \in Nat /\ buckets \in [Keys -> BucketRecord] /\ arrived \in [Calls -> Arrivals]
      /\ admitted \in [Keys -> Nat] /\ window \in [time : Nat, admitted : [Keys -> Nat]]
    BY BucketTypes DEF BucketInv
<1>2. /\ buckets' = [k \in Keys |-> IF Stale(buckets[k]) THEN NoBucket ELSE buckets[k]]
      /\ UNCHANGED <<time, arrived, admitted, window>>
    BY DEF Janitor
<1>3. NoBucket \in BucketRecord /\ ~NoBucket.present
    BY DEF NoBucket, BucketRecord
<1>4. BucketTypeOK'
  <2>1. buckets' \in [Keys -> BucketRecord]
      BY <1>1, <1>2, <1>3
  <2> QED  BY <1>1, <1>2, <2>1, BucketTypes DEF BucketTypeOK, BucketRecord, Arrivals
<1>5. ReadingsOK' /\ window'.time <= time'
    BY <1>2 DEF BucketInv, ReadingsOK
<1>6. BucketsOK'
    BY <1>2, <1>3 DEF BucketInv, BucketsOK
<1>7. ASSUME NEW k \in Keys PROVE PaidFor(k)'
  <2>1. /\ PaidFor(k) /\ Gain(k)' = Gain(k) /\ Gain(k) \in Int
        /\ window.time \in Nat /\ window.time <= time
      BY <1>1, <1>2 DEF BucketInv, Gain
  <2>2. CASE ~Stale(buckets[k])
    <3>1. buckets'[k] = buckets[k]
        BY <1>2, <2>2
    <3> QED  BY <1>2, <2>1, <3>1 DEF PaidFor
  <2>3. CASE Stale(buckets[k])
    <3>1. /\ buckets[k].present /\ buckets[k].lastSeen < time - Patience
          /\ buckets[k].tokens \in (-Lag) .. Burst /\ buckets[k].lastSeen \in Nat
        BY <1>1, <2>3 DEF Stale, BucketRecord
    <3>2. Gain(k) = 0 \/ Gain(k) <= time - window.time
        BY <1>1, <2>1, <3>1 DEF PaidFor
    <3>3. \A c \in Calls : arrived[c].inside => time <= arrived[c].now + Lag /\ arrived[c].now \in Nat
        BY <1>1 DEF BucketInv, ReadingsOK, Arrivals
    <3>4. ~buckets'[k].present
        BY <1>2, <1>3, <2>3
    <3>5. CASE Gain(k) = 0
        BY <2>1, <3>5 DEF PaidFor
    <3>6. CASE Gain(k) <= time - window.time
      <4>1. Gain(k) <= time - window.time + Lag
          BY <1>1, <2>1, <3>6
      <4>2. \A c \in Calls : arrived[c].inside => Gain(k) <= arrived[c].now - window.time + Lag
          BY <1>1, <2>1, <3>3, <3>6
      <4> QED  BY <1>2, <2>1, <3>4, <4>1, <4>2 DEF PaidFor
    <3> QED  BY <3>2, <3>5, <3>6
  <2> QED  BY <2>2, <2>3
<1> QED  BY <1>4, <1>5, <1>6, <1>7 DEF BucketInv

LEMMA StartWindowStep == BucketInv /\ StartWindow => BucketInv'
<1> SUFFICES ASSUME BucketInv, StartWindow PROVE BucketInv'
    OBVIOUS
<1>1. /\ time \in Nat /\ buckets \in [Keys -> BucketRecord] /\ arrived \in [Calls -> Arrivals]
      /\ admitted \in [Keys -> Nat]
    BY BucketTypes DEF BucketInv
<1>2. window' = [time |-> time, admitted |-> admitted] /\ UNCHANGED <<time, buckets, arrived, admitted>>
    BY DEF StartWindow
<1>3. BucketTypeOK'
    BY <1>1, <1>2, BucketTypes DEF BucketTypeOK, BucketRecord, Arrivals
<1>4. window'.time <= time' /\ ReadingsOK' /\ BucketsOK'
    BY <1>1, <1>2 DEF BucketInv, ReadingsOK, BucketsOK
<1>5. \A k \in Keys : PaidFor(k)'
    BY <1>1, <1>2 DEF PaidFor, Gain
<1> QED  BY <1>3, <1>4, <1>5 DEF BucketInv

LEMMA BucketNextStep == BucketInv /\ [BucketNext]_bucketVars => BucketInv'
<1> SUFFICES ASSUME BucketInv, [BucketNext]_bucketVars PROVE BucketInv'
    OBVIOUS
<1>1. CASE UNCHANGED bucketVars
    BY <1>1 DEF bucketVars, BucketInv, BucketTypeOK, ReadingsOK, BucketsOK, PaidFor, Gain
<1> QED
    BY <1>1, LimitStep, TickStep, ArriveStep, JanitorStep, StartWindowStep DEF BucketNext

-----------------------------------------------------------------------------

\* Every reachable state satisfies the invariant, and with it the type invariant: a bucket is
\* in debt for at most the lag, and never holds more than the burst.
THEOREM BucketInvariant == BucketSpec => []BucketInv
<1> QED  BY BucketInitHolds, BucketNextStep, PTL DEF BucketSpec

\* In no window, however long, and with readings that reach the bucket in any order, does a key get
\* more than a burst, what the window earns it and the lag.
THEOREM BudgetOfEveryWindow == BucketSpec => []WindowBudget
<1>1. BucketInv => WindowBudget
  <2> SUFFICES ASSUME BucketInv, NEW k \in Keys
               PROVE  Gain(k) <= Burst + (time - window.time) + Lag
      BY DEF WindowBudget, Gain
  <2>1. /\ time \in Nat /\ buckets[k] \in BucketRecord /\ Gain(k) \in Int
        /\ window.time \in Nat /\ window.time <= time /\ PaidFor(k)
      BY BucketTypes DEF BucketInv, Gain
  <2>2. buckets[k].present => buckets[k].lastSeen - buckets[k].tokens <= time
      BY DEF BucketInv, BucketsOK
  <2>3. buckets[k].tokens \in Int /\ buckets[k].lastSeen \in Nat
      BY <2>1, BucketAssumptions DEF BucketRecord
  <2> QED  BY <2>1, <2>2, <2>3, BucketAssumptions DEF PaidFor
<1> QED  BY <1>1, BucketInvariant, PTL

-----------------------------------------------------------------------------
(* Maxima of sets of numbers *)

\* Every finite non-empty set of numbers has a maximum: of those without one, a smallest would
\* still have none without any one of its members.
LEMMA MaxOfFinite ==
  ASSUME NEW S, S \subseteq Nat, S # {}, IsFiniteSet(S)
  PROVE  Max(S) \in S /\ \A x \in S : x <= Max(S)
<1> DEFINE HasMax(T) == \E m \in T : \A x \in T : m >= x
           Sizes == {n \in Nat : \E T \in SUBSET S : T # {} /\ Cardinality(T) = n /\ ~HasMax(T)}
<1>1. Sizes = {}
  <2> SUFFICES ASSUME Sizes # {} PROVE FALSE
      OBVIOUS
  <2>1. PICK n \in Sizes : \A k \in Sizes : ~(<<k, n>> \in OpToRel(<, Nat))
    <3>1. IsWellFoundedOn(OpToRel(<, Nat), Nat)
        BY NatLessThanWellFounded
    <3>2. Sizes \subseteq Nat
        OBVIOUS
    <3> HIDE DEF Sizes
    <3> QED  BY <3>1, <3>2, WFMin
  <2>2. PICK T \in SUBSET S : T # {} /\ Cardinality(T) = n /\ ~HasMax(T)
      OBVIOUS
  <2>3. PICK x \in T : TRUE
      BY <2>2
  <2>4. IsFiniteSet(T) /\ IsFiniteSet(T \ {x}) /\ Cardinality(T \ {x}) = n - 1
      BY <2>2, <2>3, FS_Subset, FS_RemoveElement
  <2>5. n \in Nat /\ n - 1 \in Nat
      BY <2>4, FS_CardinalityType
  <2>6. T \ {x} # {}
      BY <2>2, <2>3
  <2>7. n - 1 \notin Sizes
    <3>1. <<n - 1, n>> \in OpToRel(<, Nat)
        BY <2>5 DEF OpToRel
    <3> HIDE DEF Sizes
    <3> QED  BY <2>1, <3>1
  <2>8. HasMax(T \ {x})
      BY <2>4, <2>5, <2>6, <2>7
  <2>9. PICK m \in T \ {x} : \A y \in T \ {x} : m >= y
      BY <2>8
  <2>10. m \in Nat /\ x \in Nat /\ (m >= x \/ x >= m)
      BY <2>2, <2>3, <2>9
  <2>11. HasMax(T)
    <3>1. CASE m >= x
        BY <2>3, <2>9, <3>1
    <3>2. CASE x >= m
        BY <2>2, <2>3, <2>9, <3>2
    <3> QED  BY <2>10, <3>1, <3>2
  <2> QED  BY <2>2, <2>11
<1>2. HasMax(S)
    BY <1>1, FS_CardinalityType
<1> QED  BY <1>2 DEF Max

LEMMA MaxOfTwo ==
  ASSUME NEW a \in Nat, NEW b \in Nat
  PROVE  Max({a, b}) \in {a, b} /\ a <= Max({a, b}) /\ b <= Max({a, b})
<1>1. \E m \in {a, b} : \A x \in {a, b} : m >= x
  <2>1. CASE a >= b
      BY <2>1
  <2>2. CASE b >= a
      BY <2>2
  <2> QED  BY <2>1, <2>2
<1> QED  BY <1>1 DEF Max

-----------------------------------------------------------------------------
(* The keys of Google *)

Verifications ==
  [at : {"idle", "fetch", "store", "look"}, kid : Kids \cup {"none"}, sound : BOOLEAN, since : Nat, reply : SUBSET Kids]

\* A verification takes at most FetchTimeout, and the past is past.
SignInsTimely ==
  /\ \A r \in SignIns : signIn[r].at # "idle" => signIn[r].since <= certClock /\ certClock <= signIn[r].since + FetchTimeout
  /\ \A kid \in Kids : retiredAt[kid] <= certClock

\* The keys of an answer were served when it was asked for, or later.
RepliesAreRecent ==
  \A r \in SignIns : signIn[r].at = "store" =>
    \A kid \in signIn[r].reply \ published : signIn[r].since <= retiredAt[kid]

\* The keys at hand are kept for as long as an answer may be from when they were last served, but
\* for the time of a fetch; and whoever has stored keys finds none that are older by another fetch,
\* even if somebody else's answer is in their place.
KeptAreRecent ==
  /\ certsExp <= certClock + Max(MaxAges)
  /\ \A kid \in certs \ published :
       /\ certsExp <= retiredAt[kid] + FetchTimeout + Max(MaxAges)
       /\ \A r \in SignIns : signIn[r].at = "look" => signIn[r].since <= retiredAt[kid] + FetchTimeout

CertInv ==
  /\ CertTypeOK /\ signIn \in [SignIns -> Verifications]
  /\ SignInsTimely /\ RepliesAreRecent /\ KeptAreRecent /\ CertsAreRecent

\* No answer may be kept for less than the time of a fetch.
LEMMA LongestAge ==
  Max(MaxAges) \in Nat /\ FetchTimeout <= Max(MaxAges) /\ \A age \in MaxAges : age <= Max(MaxAges)
<1>1. Max(MaxAges) \in MaxAges /\ \A age \in MaxAges : age <= Max(MaxAges)
    BY CertAssumptions, MaxOfFinite
<1> QED  BY <1>1, CertAssumptions

LEMMA CertInitHolds == CertInit => CertInv
<1> SUFFICES ASSUME CertInit PROVE CertInv
    OBVIOUS
<1> USE CertAssumptions, LongestAge DEF CertInit
<1>1. NotSignedIn \in Verifications /\ NotSignedIn.at = "idle"
    BY DEF NotSignedIn, Verifications
<1>2. signIn \in [SignIns -> Verifications]
    BY <1>1
<1>3. CertTypeOK
    BY <1>1 DEF CertTypeOK, Times, NotSignedIn
<1>4. SignInsTimely /\ RepliesAreRecent /\ KeptAreRecent /\ CertsAreRecent
    BY <1>1 DEF SignInsTimely, RepliesAreRecent, KeptAreRecent, CertsAreRecent
<1> QED  BY <1>2, <1>3, <1>4 DEF CertInv

\* The types in the form the steps use.
LEMMA CertTypes ==
  ASSUME signIn \in [SignIns -> Verifications]
  PROVE  CertTypeOK <=>
    /\ certClock \in Times /\ published \subseteq Kids /\ retiredAt \in [Kids -> Times]
    /\ certs \subseteq Kids /\ certsExp \in 0..MaxCertTime + Max(MaxAges) /\ stalest \in Times
    /\ \A r \in SignIns : signIn[r].since \in Times
BY DEF CertTypeOK, Verifications

\* Whoever judges a key that Google has retired not too long ago leaves the bound intact.
LEMMA JudgeStep ==
  ASSUME CertInv, NEW r \in SignIns, NEW kid, NEW sound \in BOOLEAN, Judge(r, kid, sound),
         sound => kid \in Kids /\ (kid \notin published => certClock <= retiredAt[kid] + FetchTimeout + Max(MaxAges)),
         UNCHANGED <<certClock, published, retiredAt, certs, certsExp>>
  PROVE  CertInv'
<1> USE CertAssumptions, LongestAge
<1>1. signIn' = [signIn EXCEPT ![r] = NotSignedIn] /\ NotSignedIn \in Verifications /\ NotSignedIn.at = "idle" /\ NotSignedIn.since = 0
    BY DEF Judge, NotSignedIn, Verifications
<1>2. signIn' \in [SignIns -> Verifications]
    BY <1>1 DEF CertInv
<1>3. \A q \in SignIns : signIn'[q].at # "idle" => signIn'[q] = signIn[q]
    BY <1>1 DEF CertInv
<1>4. stalest' \in Times /\ CertsAreRecent'
  <2>1. stalest \in Times /\ stalest <= Max(MaxAges) + FetchTimeout /\ certClock \in Times
      BY DEF CertInv, CertTypeOK, CertsAreRecent
  <2>2. CASE ~sound
      BY <2>1, <2>2 DEF Judge, CertsAreRecent
  <2>3. CASE sound
    <3>1. Retired(kid) \in Times /\ Retired(kid) <= Max(MaxAges) + FetchTimeout
        BY <2>1, <2>3 DEF Retired, CertInv, CertTypeOK, Times, SignInsTimely
    <3>2. stalest' = Max({stalest, Retired(kid)})
        BY <2>3 DEF Judge
    <3>3. Max({stalest, Retired(kid)}) \in {stalest, Retired(kid)}
        BY <2>1, <3>1, MaxOfTwo DEF Times
    <3> QED  BY <2>1, <3>1, <3>2, <3>3 DEF CertsAreRecent
  <2> QED  BY <2>2, <2>3
<1>5. CertTypeOK'
  <2>1. \A q \in SignIns : signIn'[q].since \in Times
      BY <1>1 DEF CertInv, CertTypeOK, Times
  <2> QED  BY <1>2, <1>4, <2>1 DEF CertInv, CertTypeOK, Verifications
<1>6. SignInsTimely' /\ RepliesAreRecent' /\ KeptAreRecent'
    BY <1>3 DEF CertInv, SignInsTimely, RepliesAreRecent, KeptAreRecent
<1> QED  BY <1>2, <1>4, <1>5, <1>6 DEF CertInv

\* A key that is at hand and not expired.
LEMMA VerifyStep ==
  ASSUME CertInv, NEW r \in SignIns, NEW kid \in Kids, NEW sound \in BOOLEAN, Verify(r, kid, sound)
  PROVE  CertInv'
<1> USE CertAssumptions, LongestAge
<1>1. CASE AtHand(kid)
  <2>1. kid \notin published => certClock <= retiredAt[kid] + FetchTimeout + Max(MaxAges)
      BY <1>1 DEF AtHand, CertInv, CertTypeOK, KeptAreRecent, Times
  <2> QED  BY <1>1, <2>1, JudgeStep DEF Verify
<1>2. CASE ~AtHand(kid)
  <2> DEFINE new == [at |-> "fetch", kid |-> kid, sound |-> sound, since |-> certClock, reply |-> {}]
  <2>1. signIn' = [signIn EXCEPT ![r] = new] /\ UNCHANGED <<certClock, published, retiredAt, certs, certsExp, stalest>>
      BY <1>2 DEF Verify
  <2>2. certClock \in Times /\ certClock \in Nat
      BY DEF CertInv, CertTypeOK, Times
  <2>3. new \in Verifications /\ new.at = "fetch" /\ new.since = certClock
      BY <2>2 DEF Verifications
  <2> HIDE DEF new
  <2>4. signIn' \in [SignIns -> Verifications] /\ \A q \in SignIns : signIn'[q] = IF q = r THEN new ELSE signIn[q]
      BY <2>1, <2>3 DEF CertInv
  <2>5. CertTypeOK'
      BY <2>1, <2>2, <2>3, <2>4 DEF CertInv, CertTypeOK, Verifications
  <2>6. SignInsTimely' /\ RepliesAreRecent' /\ KeptAreRecent' /\ CertsAreRecent'
      BY <2>1, <2>2, <2>3, <2>4 DEF CertInv, SignInsTimely, RepliesAreRecent, KeptAreRecent, CertsAreRecent
  <2> QED  BY <2>4, <2>5, <2>6 DEF CertInv
<1> QED  BY <1>1, <1>2

LEMMA FetchCertsStep ==
  ASSUME CertInv, NEW r \in SignIns, FetchCerts(r)
  PROVE  CertInv'
<1> DEFINE new == [signIn[r] EXCEPT !.at = "store", !.reply = published]
<1>1. signIn' = [signIn EXCEPT ![r] = new] /\ UNCHANGED <<certClock, published, retiredAt, certs, certsExp, stalest>>
    BY DEF FetchCerts
<1>2. new \in Verifications /\ new.at = "store" /\ new.since = signIn[r].since /\ new.reply = published /\ signIn[r].at = "fetch"
    BY DEF CertInv, CertTypeOK, Verifications, FetchCerts
<1> HIDE DEF new
<1>3. signIn' \in [SignIns -> Verifications] /\ \A q \in SignIns : signIn'[q] = IF q = r THEN new ELSE signIn[q]
    BY <1>1, <1>2 DEF CertInv
<1>4. CertTypeOK'
    BY <1>1, <1>2, <1>3 DEF CertInv, CertTypeOK, Verifications
<1>5. SignInsTimely' /\ RepliesAreRecent' /\ KeptAreRecent' /\ CertsAreRecent'
    BY <1>1, <1>2, <1>3 DEF CertInv, SignInsTimely, RepliesAreRecent, KeptAreRecent, CertsAreRecent
<1> QED  BY <1>3, <1>4, <1>5 DEF CertInv

LEMMA FetchFailsStep ==
  ASSUME CertInv, NEW r \in SignIns, FetchFails(r)
  PROVE  CertInv'
BY JudgeStep DEF FetchFails, Judge

\* What is stored was served after the verification came, and it is stored before it times out.
LEMMA StoreCertsStep ==
  ASSUME CertInv, NEW r \in SignIns, StoreCerts(r)
  PROVE  CertInv'
<1> USE CertAssumptions, LongestAge
<1> DEFINE new == [signIn[r] EXCEPT !.at = "look", !.reply = {}]
<1>1. signIn' = [signIn EXCEPT ![r] = new] /\ UNCHANGED <<certClock, published, retiredAt, stalest>> /\ certs' = signIn[r].reply
    BY DEF StoreCerts
<1>2. new \in Verifications /\ new.at = "look" /\ new.since = signIn[r].since /\ signIn[r].at = "store"
    BY DEF CertInv, CertTypeOK, Verifications, StoreCerts
<1> HIDE DEF new
<1>3. signIn' \in [SignIns -> Verifications] /\ \A q \in SignIns : signIn'[q] = IF q = r THEN new ELSE signIn[q]
    BY <1>1, <1>2 DEF CertInv
<1>4. PICK age \in MaxAges : certsExp' = certClock + age
    BY DEF StoreCerts
<1>5. /\ certClock \in Times /\ certClock \in Nat /\ age \in Nat /\ age <= Max(MaxAges)
      /\ retiredAt \in [Kids -> Times]
    BY DEF CertInv, CertTypeOK, Times
<1>6. certs' \subseteq Kids /\ certsExp' \in 0..MaxCertTime + Max(MaxAges) /\ certsExp' <= certClock + Max(MaxAges)
    BY <1>1, <1>4, <1>5 DEF CertInv, Verifications, Times
<1>7. CertTypeOK'
    BY <1>1, <1>2, <1>3, <1>6 DEF CertInv, CertTypeOK, Verifications
<1>8. SignInsTimely' /\ RepliesAreRecent' /\ CertsAreRecent'
    BY <1>1, <1>2, <1>3 DEF CertInv, SignInsTimely, RepliesAreRecent, CertsAreRecent
<1>9. ASSUME NEW kid \in certs' \ published
      PROVE  /\ certsExp' <= retiredAt[kid] + FetchTimeout + Max(MaxAges)
             /\ \A q \in SignIns : signIn'[q].at = "look" => signIn'[q].since <= retiredAt[kid] + FetchTimeout
  <2>1. kid \in Kids /\ retiredAt[kid] \in Nat /\ signIn[r].since <= retiredAt[kid]
      BY <1>1, <1>2, <1>5, <1>6, <1>9 DEF CertInv, RepliesAreRecent, Times
  <2>2. signIn[r].since \in Nat /\ certClock <= signIn[r].since + FetchTimeout
      BY <1>2 DEF CertInv, SignInsTimely, Verifications
  <2>3. ASSUME NEW q \in SignIns, signIn'[q].at = "look" PROVE signIn'[q].since <= certClock /\ signIn'[q].since \in Nat
      BY <1>1, <1>2, <1>3, <2>3 DEF CertInv, SignInsTimely, Verifications
  <2> QED  BY <1>5, <1>6, <2>1, <2>2, <2>3
<1>10. KeptAreRecent'
    BY <1>1, <1>6, <1>9 DEF KeptAreRecent
<1> QED  BY <1>3, <1>7, <1>8, <1>10 DEF CertInv

LEMMA LookAgainStep ==
  ASSUME CertInv, NEW r \in SignIns, LookAgain(r)
  PROVE  CertInv'
<1> USE CertAssumptions, LongestAge
<1> DEFINE kid == signIn[r].kid
           accepted == signIn[r].sound /\ signIn[r].kid \in certs
<1>1. accepted \in BOOLEAN /\ Judge(r, kid, accepted) /\ UNCHANGED <<certClock, published, retiredAt, certs, certsExp>>
    BY DEF LookAgain
<1>2. ASSUME accepted
      PROVE  kid \in Kids /\ (kid \notin published => certClock <= retiredAt[kid] + FetchTimeout + Max(MaxAges))
  <2>1. kid \in Kids /\ kid \in certs /\ signIn[r].at = "look" /\ signIn[r].since \in Nat /\ certClock \in Nat /\ retiredAt[kid] \in Nat
      BY <1>2 DEF CertInv, CertTypeOK, LookAgain, Verifications, Times
  <2>2. certClock <= signIn[r].since + FetchTimeout
      BY <2>1 DEF CertInv, SignInsTimely
  <2>3. kid \notin published => signIn[r].since <= retiredAt[kid] + FetchTimeout
      BY <2>1 DEF CertInv, KeptAreRecent
  <2> QED  BY <2>1, <2>2, <2>3
<1> HIDE DEF accepted, kid
<1> QED  BY <1>1, <1>2, JudgeStep

\* A key retires now, and all that is under way or kept is not from later.
LEMMA RotateKeysStep == CertInv /\ RotateKeys => CertInv'
<1> SUFFICES ASSUME CertInv, RotateKeys PROVE CertInv'
    OBVIOUS
<1> USE CertAssumptions, LongestAge
<1>1. /\ published' \subseteq Kids
      /\ retiredAt' = [k \in Kids |-> IF k \in published \ published' THEN certClock ELSE retiredAt[k]]
      /\ UNCHANGED <<certClock, certs, certsExp, signIn, stalest>>
    BY DEF RotateKeys
<1>2. certClock \in Times /\ certClock \in Nat /\ retiredAt \in [Kids -> Times] /\ certs \subseteq Kids /\ certsExp \in Nat
    BY DEF CertInv, CertTypeOK, Times
<1>3. retiredAt' \in [Kids -> Times] /\ \A kid \in Kids : retiredAt'[kid] <= certClock
    BY <1>1, <1>2 DEF CertInv, SignInsTimely
<1>4. \A kid \in Kids \ published' : retiredAt'[kid] = certClock \/ (kid \notin published /\ retiredAt'[kid] = retiredAt[kid])
  <2> TAKE kid \in Kids \ published'
  <2>1. retiredAt'[kid] = IF kid \in published \ published' THEN certClock ELSE retiredAt[kid]
      BY <1>1
  <2>2. CASE kid \in published
      BY <2>1, <2>2
  <2>3. CASE kid \notin published
      BY <2>1, <2>3
  <2> QED  BY <2>2, <2>3
<1>5. CertTypeOK'
    BY <1>1, <1>3 DEF CertInv, CertTypeOK
<1>6. SignInsTimely' /\ CertsAreRecent'
    BY <1>1, <1>3 DEF CertInv, SignInsTimely, CertsAreRecent
<1>7. RepliesAreRecent'
  <2> SUFFICES ASSUME NEW r \in SignIns, signIn[r].at = "store", NEW kid \in signIn[r].reply \ published'
               PROVE  signIn[r].since <= retiredAt'[kid]
      BY <1>1 DEF RepliesAreRecent
  <2>1. kid \in Kids \ published' /\ signIn[r].since <= certClock
      BY DEF CertInv, CertTypeOK, SignInsTimely
  <2> QED  BY <1>4, <2>1 DEF CertInv, RepliesAreRecent
<1>8. KeptAreRecent'
  <2>1. certsExp <= certClock + Max(MaxAges)
      BY DEF CertInv, KeptAreRecent
  <2>2. ASSUME NEW kid \in certs \ published'
        PROVE  /\ certsExp <= retiredAt'[kid] + FetchTimeout + Max(MaxAges)
               /\ \A r \in SignIns : signIn[r].at = "look" => signIn[r].since <= retiredAt'[kid] + FetchTimeout
    <3>1. CASE retiredAt'[kid] = certClock
      <4>1. \A r \in SignIns : signIn[r].at = "look" => signIn[r].since <= certClock /\ signIn[r].since \in Nat
          BY DEF CertInv, SignInsTimely, Verifications
      <4> QED  BY <1>2, <2>1, <3>1, <4>1
    <3>2. CASE kid \notin published /\ retiredAt'[kid] = retiredAt[kid]
        BY <3>2 DEF CertInv, KeptAreRecent
    <3> QED  BY <1>2, <1>4, <3>1, <3>2
  <2> QED  BY <1>1, <2>1, <2>2 DEF KeptAreRecent
<1> QED  BY <1>1, <1>5, <1>6, <1>7, <1>8 DEF CertInv

LEMMA CertTickStep == CertInv /\ CertTick => CertInv'
<1> SUFFICES ASSUME CertInv, CertTick PROVE CertInv'
    OBVIOUS
<1> USE CertAssumptions, LongestAge
<1>1. certClock \in Nat /\ certClock < MaxCertTime /\ certClock' = certClock + 1 /\ UNCHANGED <<published, retiredAt, certs, certsExp, signIn, stalest>>
    BY DEF CertInv, CertTypeOK, Times, CertTick
<1>2. CertTypeOK'
    BY <1>1 DEF CertInv, CertTypeOK, Times
<1>3. \A r \in SignIns : signIn[r].since \in Nat
    BY DEF CertInv, Verifications
<1>4. SignInsTimely'
    BY <1>1, <1>3 DEF CertInv, CertTypeOK, SignInsTimely, Times, CertTick
<1>5. RepliesAreRecent' /\ CertsAreRecent'
    BY <1>1 DEF CertInv, RepliesAreRecent, CertsAreRecent
<1>6. KeptAreRecent'
    BY <1>1 DEF CertInv, CertTypeOK, KeptAreRecent
<1> QED  BY <1>1, <1>2, <1>4, <1>5, <1>6 DEF CertInv

LEMMA CertNextStep == CertInv /\ [CertNext]_certVars => CertInv'
<1> SUFFICES ASSUME CertInv, [CertNext]_certVars PROVE CertInv'
    OBVIOUS
<1>1. CASE UNCHANGED certVars
    BY <1>1 DEF certVars, CertInv, CertTypeOK, SignInsTimely, RepliesAreRecent, KeptAreRecent, CertsAreRecent
<1> QED
    BY <1>1, VerifyStep, FetchCertsStep, FetchFailsStep, StoreCertsStep, LookAgainStep, RotateKeysStep,
       CertTickStep DEF CertNext

\* Every reachable state satisfies the invariant, and with it the type invariant.
THEOREM CertInvariant == CertSpec => []CertInv
<1> QED  BY CertInitHolds, CertNextStep, PTL DEF CertSpec

\* No sign-in is judged by keys older than the lifetime of the kept ones and the time a fetch
\* may take, however many fetch at the same time and in whatever order their replies are stored.
THEOREM CertsAlwaysRecent == CertSpec => []CertsAreRecent
<1>1. CertInv => CertsAreRecent
    BY DEF CertInv
<1> QED  BY <1>1, CertInvariant, PTL

-----------------------------------------------------------------------------
(* The answers about a tenant *)

Lookups == [at : {"idle", "read", "keep"}, plan : Plans \cup {"none"}, since : 0..MaxLookupTime]
Answers == [plan : Plans \cup {"none"}, until : 0..MaxLookupTime + KeptFor]

\* A lookup takes at most LookupLag, and the past is past.
LookupsTimely ==
  /\ \A r \in Screens : screen[r].at # "idle" => screen[r].since <= lookupClock /\ lookupClock <= screen[r].since + LookupLag
  /\ \A p \in Plans : wasLast[p] <= lookupClock

\* What a lookup has read was so when it began, or later.
LookupsRead ==
  \A r \in Screens : screen[r].at = "keep" =>
    screen[r].plan \in Plans /\ (Says(screen[r].plan) \/ screen[r].since <= wasLast[screen[r].plan])

\* What is kept was so not much longer ago than it will be kept.
KeptWasTrue ==
  kept.plan # "none" =>
    /\ kept.until <= lookupClock + KeptFor
    /\ Says(kept.plan) \/ kept.until <= wasLast[kept.plan] + LookupLag + KeptFor

LookupInv == LookupTypeOK /\ LookupsTimely /\ LookupsRead /\ KeptWasTrue /\ AnswersAreRecent

LEMMA LookupInitHolds == LookupInit => LookupInv
<1> SUFFICES ASSUME LookupInit PROVE LookupInv
    OBVIOUS
<1> USE LookupAssumptions DEF LookupInit
<1>1. NoScreen \in Lookups /\ NoScreen.at = "idle"
    BY DEF NoScreen, Lookups
<1>2. LookupTypeOK
  <2>1. tenant \in [plan : Plans, active : BOOLEAN]
    <3>1. [plan : Plans, active : {TRUE}] \subseteq [plan : Plans, active : BOOLEAN]
        OBVIOUS
    <3> QED  BY <3>1
  <2>2. kept \in Answers
      BY DEF NotKept, Answers
  <2>3. screen \in [Screens -> Lookups] /\ wasLast \in [Plans -> 0..MaxLookupTime] /\ lookupClock \in 0..MaxLookupTime
      BY <1>1
  <2> QED  BY <2>1, <2>2, <2>3 DEF LookupTypeOK, Lookups, Answers
<1>3. LookupsTimely /\ LookupsRead /\ KeptWasTrue /\ AnswersAreRecent
    BY <1>1 DEF LookupsTimely, LookupsRead, KeptWasTrue, AnswersAreRecent, NotKept
<1> QED  BY <1>2, <1>3 DEF LookupInv

\* An answer that is not too old leaves the bound intact.
LEMMA AnswerStep ==
  ASSUME LookupInv, NEW r \in Screens, NEW plan \in Plans, AnswerWith(r, plan),
         Says(plan) \/ lookupClock <= wasLast[plan] + KeptFor + LookupLag
  PROVE  /\ screen' \in [Screens -> Lookups] /\ oldest' \in 0..MaxLookupTime /\ oldest' <= KeptFor + LookupLag
         /\ \A q \in Screens : screen'[q].at # "idle" => screen'[q] = screen[q]
<1> USE LookupAssumptions
<1>1. screen' = [screen EXCEPT ![r] = NoScreen] /\ NoScreen \in Lookups /\ NoScreen.at = "idle"
    BY DEF AnswerWith, NoScreen, Lookups
<1>2. screen \in [Screens -> Lookups]
    BY DEF LookupInv, LookupTypeOK, Lookups
<1>3. /\ lookupClock \in 0..MaxLookupTime /\ wasLast[plan] \in Nat /\ wasLast[plan] <= lookupClock
      /\ oldest \in 0..MaxLookupTime /\ oldest <= KeptFor + LookupLag
    BY DEF LookupInv, LookupTypeOK, LookupsTimely, AnswersAreRecent
<1>4. Age(plan) \in 0..MaxLookupTime /\ Age(plan) <= KeptFor + LookupLag
  <2>1. CASE Says(plan)
      BY <1>3, <2>1 DEF Age
  <2>2. CASE ~Says(plan)
    <3>1. Age(plan) = lookupClock - wasLast[plan]
        BY <2>2 DEF Age
    <3> QED  BY <1>3, <2>2, <3>1
  <2> QED  BY <2>1, <2>2
<1>5. oldest' = Max({oldest, Age(plan)}) /\ Max({oldest, Age(plan)}) \in {oldest, Age(plan)}
  <2>1. oldest \in Nat /\ Age(plan) \in Nat
      BY <1>3, <1>4
  <2> QED  BY <2>1, MaxOfTwo DEF AnswerWith
<1> QED  BY <1>1, <1>2, <1>3, <1>4, <1>5

LEMMA LookupByOrgCodeStep ==
  ASSUME LookupInv, NEW r \in Screens, LookupByOrgCode(r)
  PROVE  LookupInv'
<1> USE LookupAssumptions
<1>1. UNCHANGED <<lookupClock, tenant, wasLast, kept>>
    BY DEF LookupByOrgCode
<1>2. CASE Hit /\ AnswerWith(r, kept.plan)
  <2>1. kept.plan \in Plans /\ lookupClock < kept.until /\ kept.until \in Nat /\ lookupClock \in Nat /\ wasLast[kept.plan] \in Nat
      BY <1>2 DEF LookupInv, LookupTypeOK, Hit
  <2>2. Says(kept.plan) \/ lookupClock <= wasLast[kept.plan] + KeptFor + LookupLag
      BY <2>1, <1>2 DEF LookupInv, KeptWasTrue, Hit
  <2>3. /\ screen' \in [Screens -> Lookups] /\ oldest' \in 0..MaxLookupTime /\ oldest' <= KeptFor + LookupLag
        /\ \A q \in Screens : screen'[q].at # "idle" => screen'[q] = screen[q]
      BY <1>2, <2>1, <2>2, AnswerStep
  <2>4. LookupTypeOK' /\ AnswersAreRecent'
      BY <1>1, <2>3 DEF LookupInv, LookupTypeOK, Lookups, AnswersAreRecent
  <2>5. LookupsTimely' /\ LookupsRead' /\ KeptWasTrue'
      BY <1>1, <2>3 DEF LookupInv, LookupsTimely, LookupsRead, KeptWasTrue, Says
  <2> QED  BY <2>4, <2>5 DEF LookupInv
<1>3. CASE screen' = [screen EXCEPT ![r] = [at |-> "read", plan |-> "none", since |-> lookupClock]] /\ UNCHANGED oldest
  <2>1. LookupTypeOK' /\ AnswersAreRecent'
      BY <1>1, <1>3 DEF LookupInv, LookupTypeOK, AnswersAreRecent
  <2>2. LookupsTimely'
      BY <1>1, <1>3 DEF LookupInv, LookupTypeOK, LookupsTimely
  <2>3. LookupsRead' /\ KeptWasTrue'
      BY <1>1, <1>3 DEF LookupInv, LookupTypeOK, LookupsRead, KeptWasTrue, Says
  <2> QED  BY <2>1, <2>2, <2>3 DEF LookupInv
<1> QED  BY <1>2, <1>3 DEF LookupByOrgCode

LEMMA GetTenantStep ==
  ASSUME LookupInv, NEW r \in Screens, GetTenant(r)
  PROVE  LookupInv'
<1> USE LookupAssumptions
<1> DEFINE new == IF tenant.active THEN [screen[r] EXCEPT !.at = "keep", !.plan = tenant.plan] ELSE NoScreen
<1>1. screen' = [screen EXCEPT ![r] = new] /\ UNCHANGED <<lookupClock, tenant, wasLast, kept, oldest>> /\ screen[r].at = "read"
    BY DEF GetTenant
<1>2. /\ new \in Lookups /\ new.at \in {"idle", "keep"}
      /\ new.at = "keep" => tenant.active /\ new.plan = tenant.plan /\ new.plan \in Plans /\ new.since = screen[r].since
  <2>1. tenant.active \in BOOLEAN /\ tenant.plan \in Plans /\ screen[r] \in Lookups /\ NoScreen \in Lookups /\ NoScreen.at = "idle"
      BY LookupAssumptions DEF LookupInv, LookupTypeOK, Lookups, NoScreen
  <2>2. CASE tenant.active
      BY <2>1, <2>2 DEF Lookups
  <2>3. CASE ~tenant.active
      BY <2>1, <2>3
  <2> QED  BY <2>1, <2>2, <2>3
<1> HIDE DEF new
<1>3. screen' \in [Screens -> Lookups] /\ \A q \in Screens : screen'[q] = IF q = r THEN new ELSE screen[q]
    BY <1>1, <1>2 DEF LookupInv, LookupTypeOK, Lookups
<1>4. LookupTypeOK' /\ AnswersAreRecent'
    BY <1>1, <1>3 DEF LookupInv, LookupTypeOK, Lookups, AnswersAreRecent
<1>5. LookupsTimely'
    BY <1>1, <1>2, <1>3 DEF LookupInv, LookupsTimely
<1>6. LookupsRead' /\ KeptWasTrue'
    BY <1>1, <1>2, <1>3 DEF LookupInv, LookupsRead, KeptWasTrue, Says
<1> QED  BY <1>4, <1>5, <1>6 DEF LookupInv

\* What is kept from now on was so when the lookup began, which is at most LookupLag ago.
LEMMA KeepAnswerStep ==
  ASSUME LookupInv, NEW r \in Screens, KeepAnswer(r)
  PROVE  LookupInv'
<1> USE LookupAssumptions
<1> DEFINE plan == screen[r].plan
           answer == [plan |-> plan, until |-> Expiry(lookupClock)]
<1>1. UNCHANGED <<lookupClock, tenant, wasLast>> /\ kept' \in {kept, answer} /\ AnswerWith(r, plan) /\ screen[r].at = "keep"
    BY DEF KeepAnswer
<1>2. plan \in Plans /\ (Says(plan) \/ screen[r].since <= wasLast[plan])
    BY <1>1 DEF LookupInv, LookupsRead
<1>3. /\ lookupClock \in 0..MaxLookupTime /\ lookupClock <= screen[r].since + LookupLag /\ screen[r].since \in Nat
      /\ wasLast[plan] \in Nat
    BY <1>1, <1>2 DEF LookupInv, LookupTypeOK, LookupsTimely
<1>4. Says(plan) \/ lookupClock <= wasLast[plan] + LookupLag
    BY <1>2, <1>3
<1>5. answer \in Answers /\ answer.plan = plan /\ answer.until = lookupClock + KeptFor
    BY <1>2, <1>3 DEF Answers, Expiry
<1>6. /\ screen' \in [Screens -> Lookups] /\ oldest' \in 0..MaxLookupTime /\ oldest' <= KeptFor + LookupLag
      /\ \A q \in Screens : screen'[q].at # "idle" => screen'[q] = screen[q]
  <2> HIDE DEF plan, answer
  <2>1. Says(plan) \/ lookupClock <= wasLast[plan] + KeptFor + LookupLag
      BY <1>3, <1>4
  <2> QED  BY <1>1, <1>2, <2>1, AnswerStep
<1> HIDE DEF plan, answer
<1>7. LookupTypeOK' /\ AnswersAreRecent'
    BY <1>1, <1>5, <1>6 DEF LookupInv, LookupTypeOK, Lookups, Answers, AnswersAreRecent
<1>8. LookupsTimely' /\ LookupsRead'
    BY <1>1, <1>6 DEF LookupInv, LookupsTimely, LookupsRead, Says
<1>9. KeptWasTrue'
  <2>1. CASE kept' = kept
      BY <1>1, <2>1 DEF LookupInv, KeptWasTrue, Says
  <2>2. CASE kept' = answer
    <3>1. kept'.until = lookupClock + KeptFor /\ kept'.plan = plan
        BY <1>5, <2>2
    <3>2. Says(plan) \/ kept'.until <= wasLast[plan] + LookupLag + KeptFor
        BY <1>3, <1>4, <3>1
    <3>3. kept'.until <= lookupClock + KeptFor
        BY <1>3, <3>1
    <3> QED  BY <1>1, <3>1, <3>2, <3>3 DEF KeptWasTrue, Says
  <2> QED  BY <1>1, <2>1, <2>2
<1> QED  BY <1>7, <1>8, <1>9 DEF LookupInv

\* What the row says no longer it has said until now, and nothing kept or read is from later.
LEMMA ChangeTenantStep == LookupInv /\ ChangeTenant => LookupInv'
<1> SUFFICES ASSUME LookupInv, ChangeTenant PROVE LookupInv'
    OBVIOUS
<1> USE LookupAssumptions
<1>1. /\ tenant' \in [plan : Plans, active : BOOLEAN] /\ UNCHANGED <<lookupClock, kept, screen, oldest>>
      /\ wasLast' = IF tenant.active THEN [wasLast EXCEPT ![tenant.plan] = lookupClock] ELSE wasLast
    BY DEF ChangeTenant
<1>2. tenant.plan \in Plans /\ lookupClock \in 0..MaxLookupTime /\ wasLast \in [Plans -> 0..MaxLookupTime]
    BY DEF LookupInv, LookupTypeOK
<1>3. wasLast' \in [Plans -> 0..MaxLookupTime] /\ \A p \in Plans : wasLast'[p] <= lookupClock
    BY <1>1, <1>2 DEF LookupInv, LookupsTimely
<1>4. \A p \in Plans : wasLast'[p] = lookupClock \/ (~Says(p) /\ wasLast'[p] = wasLast[p])
    BY <1>1, <1>2 DEF Says
<1>5. LookupTypeOK' /\ AnswersAreRecent'
    BY <1>1, <1>3 DEF LookupInv, LookupTypeOK, AnswersAreRecent
<1>6. LookupsTimely'
    BY <1>1, <1>3 DEF LookupInv, LookupsTimely
<1>7. LookupsRead'
  <2> SUFFICES ASSUME NEW r \in Screens, screen[r].at = "keep"
               PROVE  screen[r].plan \in Plans /\ (Says(screen[r].plan)' \/ screen[r].since <= wasLast'[screen[r].plan])
      BY <1>1 DEF LookupInv, LookupsRead
  <2>1. screen[r].plan \in Plans /\ screen[r].since <= lookupClock /\ (Says(screen[r].plan) \/ screen[r].since <= wasLast[screen[r].plan])
      BY DEF LookupInv, LookupsRead, LookupsTimely
  <2> QED  BY <1>4, <2>1
<1>8. KeptWasTrue'
  <2> SUFFICES ASSUME kept.plan # "none"
               PROVE  /\ kept.until <= lookupClock + KeptFor
                      /\ Says(kept.plan)' \/ kept.until <= wasLast'[kept.plan] + LookupLag + KeptFor
      BY <1>1 DEF LookupInv, KeptWasTrue
  <2>1. /\ kept.plan \in Plans /\ kept.until \in Nat /\ kept.until <= lookupClock + KeptFor
        /\ Says(kept.plan) \/ kept.until <= wasLast[kept.plan] + LookupLag + KeptFor
      BY DEF LookupInv, LookupTypeOK, KeptWasTrue
  <2> QED  BY <1>2, <1>4, <2>1
<1> QED  BY <1>5, <1>6, <1>7, <1>8 DEF LookupInv

LEMMA LookupTickStep == LookupInv /\ LookupTick => LookupInv'
<1> SUFFICES ASSUME LookupInv, LookupTick PROVE LookupInv'
    OBVIOUS
<1> USE LookupAssumptions DEF LookupInv, LookupTick
<1>1. LookupTypeOK'
    BY DEF LookupTypeOK
<1>2. LookupsTimely'
    BY DEF LookupTypeOK, LookupsTimely
<1>3. LookupsRead' /\ AnswersAreRecent'
    BY DEF LookupsRead, AnswersAreRecent, Says
<1>4. KeptWasTrue'
    BY DEF LookupTypeOK, KeptWasTrue, Says
<1> QED  BY <1>1, <1>2, <1>3, <1>4

LEMMA LookupNextStep == LookupInv /\ [LookupNext]_lookupVars => LookupInv'
<1> SUFFICES ASSUME LookupInv, [LookupNext]_lookupVars PROVE LookupInv'
    OBVIOUS
<1>1. CASE UNCHANGED lookupVars
    BY <1>1 DEF lookupVars, LookupInv, LookupTypeOK, LookupsTimely, LookupsRead, KeptWasTrue, AnswersAreRecent, Says
<1> QED
    BY <1>1, LookupByOrgCodeStep, GetTenantStep, KeepAnswerStep, ChangeTenantStep, LookupTickStep DEF LookupNext

\* Every reachable state satisfies the invariant, and with it the type invariant.
THEOREM LookupInvariant == LookupSpec => []LookupInv
<1> QED  BY LookupInitHolds, LookupNextStep, PTL DEF LookupSpec

\* What a request is told of its tenant was so no longer ago than an answer is kept and a lookup
\* takes, although an old answer may be stored after a newer one has been read.
THEOREM AnswersAlwaysRecent == LookupSpec => []AnswersAreRecent
<1>1. LookupInv => AnswersAreRecent
    BY DEF LookupInv
<1> QED  BY <1>1, LookupInvariant, PTL
=============================================================================
