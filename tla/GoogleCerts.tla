---------------------------- MODULE GoogleCerts ----------------------------
(***************************************************************************)
(* The keys Google signs its identities with, as this server keeps them:   *)
(* fetched when a sign-in needs one that is not at hand, kept as long as   *)
(* the answer allows, and replaced as a whole by whichever fetch is the    *)
(* last to come back.  The lock is free during a fetch, so several         *)
(* sign-ins fetch at a time and an older answer may overwrite a newer one. *)
(***************************************************************************)
EXTENDS Integers, FiniteSets, FiniteSetsExt

CONSTANTS
  Kids,          \* ids of signing keys
  SignIns,       \* verifications in flight at one time
  MaxAges,       \* how long an answer may be kept, by its Cache-Control or the default of an hour
  FetchTimeout,  \* the timeout of the client (10 s) and of what surrounds the fetch
  MaxCertTime    \* bound of the run: the clock stops there

ASSUME CertAssumptions ==
  /\ MaxAges \subseteq Nat /\ MaxAges # {} /\ IsFiniteSet(MaxAges)
  /\ FetchTimeout \in Nat /\ MaxCertTime \in Nat
  /\ \A age \in MaxAges : age >= FetchTimeout

VARIABLES
  certClock,
  published,     \* the keys Google's endpoint serves
  retiredAt,     \* when it last stopped serving each
  certs, certsExp,
  signIn,        \* where each verification is
  stalest        \* for how long the stalest key that has been accepted had been retired

certVars == <<certClock, published, retiredAt, certs, certsExp, signIn, stalest>>

Times == 0..MaxCertTime
NotSignedIn == [at |-> "idle", kid |-> "none", sound |-> FALSE, since |-> 0, reply |-> {}]

CertTypeOK ==
  /\ certClock \in Times /\ published \subseteq Kids /\ retiredAt \in [Kids -> Times]
  /\ certs \subseteq Kids /\ certsExp \in 0..MaxCertTime + Max(MaxAges)
  /\ \A r \in SignIns :
       /\ signIn[r].at \in {"idle", "fetch", "store", "look"} /\ signIn[r].kid \in Kids \cup {"none"}
       /\ signIn[r].since \in Times /\ signIn[r].reply \subseteq Kids
  /\ stalest \in Times

CertInit ==
  /\ certClock = 0 /\ published \in SUBSET Kids /\ published # {}
  /\ retiredAt = [k \in Kids |-> 0]
  /\ certs = {} /\ certsExp = 0
  /\ signIn = [r \in SignIns |-> NotSignedIn] /\ stalest = 0

-----------------------------------------------------------------------------
Retired(kid) == IF kid \in published THEN 0 ELSE certClock - retiredAt[kid]

\* Whoever has signed the token, it has to be issued by Google, for an audience of ours and for
\* somebody: sound stands for these checks, which come after the key is found.
Judge(r, kid, sound) ==
  /\ signIn' = [signIn EXCEPT ![r] = NotSignedIn]
  /\ stalest' = IF sound THEN Max({stalest, Retired(kid)}) ELSE stalest

\* Mutant of AtHand: certsExp is not looked at.
AtHandForever(kid) == kid \in certs
AtHand(kid) == certClock < certsExp /\ kid \in certs

Verify(r, kid, sound) ==
  /\ signIn[r].at = "idle"
  /\ IF AtHand(kid)
     THEN Judge(r, kid, sound)
     ELSE /\ signIn' = [signIn EXCEPT ![r] = [at |-> "fetch", kid |-> kid, sound |-> sound, since |-> certClock, reply |-> {}]]
          /\ UNCHANGED stalest
  /\ UNCHANGED <<certClock, published, retiredAt, certs, certsExp>>

FetchCerts(r) ==
  /\ signIn[r].at = "fetch"
  /\ signIn' = [signIn EXCEPT ![r].at = "store", ![r].reply = published]
  /\ UNCHANGED <<certClock, published, retiredAt, certs, certsExp, stalest>>

\* An answer that does not come, cannot be read or holds no usable key refuses the sign-in, and
\* the keys at hand stay.
FetchFails(r) ==
  /\ signIn[r].at \in {"fetch", "store"} /\ (signIn[r].at = "store" => signIn[r].reply = {})
  /\ signIn' = [signIn EXCEPT ![r] = NotSignedIn]
  /\ UNCHANGED <<certClock, published, retiredAt, certs, certsExp, stalest>>

StoreCerts(r) ==
  /\ signIn[r].at = "store" /\ signIn[r].reply # {}
  /\ certs' = signIn[r].reply
  /\ \E age \in MaxAges : certsExp' = certClock + age
  /\ signIn' = [signIn EXCEPT ![r].at = "look", ![r].reply = {}]
  /\ UNCHANGED <<certClock, published, retiredAt, stalest>>

\* Among the keys at hand by now, which need not be those it has fetched.
LookAgain(r) ==
  /\ signIn[r].at = "look"
  /\ Judge(r, signIn[r].kid, signIn[r].sound /\ signIn[r].kid \in certs)
  /\ UNCHANGED <<certClock, published, retiredAt, certs, certsExp>>

\* Google's side: any change of the keys it serves.
RotateKeys ==
  /\ published' \in SUBSET Kids /\ published' # published
  /\ retiredAt' = [k \in Kids |-> IF k \in published \ published' THEN certClock ELSE retiredAt[k]]
  /\ UNCHANGED <<certClock, certs, certsExp, signIn, stalest>>

CertTick ==
  /\ certClock < MaxCertTime /\ certClock' = certClock + 1
  /\ \A r \in SignIns : signIn[r].at # "idle" => certClock < signIn[r].since + FetchTimeout
  /\ UNCHANGED <<published, retiredAt, certs, certsExp, signIn, stalest>>

CertNext ==
  \/ \E r \in SignIns :
       \/ \E kid \in Kids, sound \in BOOLEAN : Verify(r, kid, sound)
       \/ FetchCerts(r) \/ FetchFails(r) \/ StoreCerts(r) \/ LookAgain(r)
  \/ RotateKeys \/ CertTick

CertSpec == CertInit /\ [][CertNext]_certVars

-----------------------------------------------------------------------------
\* However the fetches of several sign-ins overtake each other, no identity is accepted on a key
\* that Google had stopped serving for longer than an answer may be kept and a fetch may take
\* (auth/google/verifier.go:150-171 and 220-228).
CertsAreRecent == stalest <= Max(MaxAges) + FetchTimeout
=============================================================================
