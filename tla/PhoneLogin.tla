----------------------------- MODULE PhoneLogin -----------------------------
(***************************************************************************)
(* Signing in: one-time codes sent to a phone, Google identities, and the  *)
(* accounts they lead to.  The codes and the throttle of one phone number  *)
(* are modelled with the accounts of one person, who may study at several  *)
(* tenants.  Every request reads, compares and writes in separate          *)
(* statements, between which other requests run; the unique indexes on     *)
(* (tenant, phone), (tenant, email) and the Google subject turn a lost     *)
(* race into an error.                                                     *)
(***************************************************************************)
EXTENDS Integers, Sequences, FiniteSets

CONSTANTS
  Requests,       \* requests in flight at one time
  Accounts,       \* rows of users there is room for
  Tenants,
  DefaultTenant,  \* the tenant of a blank org code
  MaxAttempts,    \* wrong codes after which a code is locked (5)
  MaxSends,       \* codes an hour (OTP_MAX_SENDS)
  MaxCodes,       \* bound of the run: codes sent
  MaxFaults       \* bound of the run: failures of the database or of Redis

ASSUME LoginAssumptions ==
  /\ IsFiniteSet(Requests) /\ DefaultTenant \in Tenants
  /\ MaxAttempts \in Nat \ {0} /\ MaxSends \in Nat \ {0}
  /\ MaxCodes \in Nat /\ MaxFaults \in Nat

VARIABLES
  sends,      \* the key otp:sends:<phone> of Redis: a counter that may have a TTL
  codes,      \* rows of sms_codes in the order of created_at; live: not consumed, not expired
  users,
  referrals,  \* rows of referral_events per referred account
  request,    \* where each request is, and what it has read
  faults

loginVars == <<sends, codes, users, referrals, request, faults>>

Kinds == {"send", "login", "link"}
NoUser == [tenant |-> "none", phone |-> "none", email |-> FALSE, sub |-> FALSE]
NoRequest == [at |-> "idle", kind |-> "send", tenant |-> DefaultTenant, code |-> 0,
              fresh |-> FALSE, account |-> "none"]

LoginTypeOK ==
  /\ sends \in [n : 0 .. MaxSends + 1, ttl : BOOLEAN]
  /\ codes \in Seq([live : BOOLEAN, attempts : Nat, guesses : Nat])
  \* phone: the number as OTP login spells it, or spelled otherwise by the admin who typed it
  /\ users \in [Accounts -> [tenant : Tenants \cup {"none"}, phone : {"none", "normal", "spelled"},
                             email : BOOLEAN, sub : BOOLEAN]]
  /\ referrals \in [Accounts -> Nat]
  /\ request \in [Requests -> [at : {"idle", "expire", "invalidate", "create", "read", "compare",
                                     "account", "claim"},
                               kind : Kinds, tenant : Tenants, code : Nat, fresh : BOOLEAN,
                               account : Accounts \cup {"none"}]]
  /\ faults \in 0 .. MaxFaults

LoginInit ==
  /\ sends = [n |-> 0, ttl |-> FALSE]
  /\ codes = << >>
  /\ users = [a \in Accounts |-> NoUser]
  /\ referrals = [a \in Accounts |-> 0]
  /\ request = [r \in Requests |-> NoRequest]
  /\ faults = 0

-----------------------------------------------------------------------------
\* The accounts of tenant t a query finds by phone, by Google subject and by e-mail.
Exists(a) == users[a].tenant # "none"
GetUserByPhone(t) == {a \in Accounts : users[a].tenant = t /\ users[a].phone = "normal"}
GetUserByGoogleSub(t) == {a \in Accounts : users[a].tenant = t /\ users[a].sub}
GetUserByEmail(t) == {a \in Accounts : users[a].tenant = t /\ users[a].email}

\* What the unique indexes on users allow.
PhoneFree(t, p) == \A a \in Accounts : users[a].tenant = t => users[a].phone # p
SubFree == \A a \in Accounts : ~users[a].sub

Fault == faults < MaxFaults /\ faults' = faults + 1
NoFault == UNCHANGED faults
Goto(r, pc) == request' = [request EXCEPT ![r].at = pc]
Answer(r) == request' = [request EXCEPT ![r] = NoRequest]

-----------------------------------------------------------------------------
(* POST /auth/otp/send *)

\* The org code is real (a blank one always is), and INCR counts the send; an error of
\* Redis lets it pass.
SendOTP(r) ==
  /\ request[r].at = "idle"
  /\ \/ /\ NoFault
        /\ sends' = [sends EXCEPT !.n = IF @ <= MaxSends THEN @ + 1 ELSE @]
        /\ request' = [request EXCEPT ![r] = [NoRequest EXCEPT
             !.at = IF sends.n = 0 THEN "expire"
                    ELSE IF sends'.n > MaxSends THEN "idle" ELSE "invalidate"]]
     \/ Fault /\ Goto(r, "invalidate") /\ UNCHANGED sends
  /\ UNCHANGED <<codes, users, referrals>>

\* The first send of the hour gives the counter its TTL; the error of EXPIRE is ignored.
ExpireSends(r) ==
  /\ request[r].at = "expire"
  /\ \/ NoFault /\ sends' = [sends EXCEPT !.ttl = TRUE]
     \/ Fault /\ UNCHANGED sends
  /\ Goto(r, "invalidate")
  /\ UNCHANGED <<codes, users, referrals>>

InvalidateOlderSmsCodes(r) ==
  /\ request[r].at = "invalidate"
  /\ \/ NoFault /\ codes' = [i \in DOMAIN codes |-> [codes[i] EXCEPT !.live = FALSE]] /\ Goto(r, "create")
     \/ Fault /\ UNCHANGED codes /\ Answer(r)
  /\ UNCHANGED <<sends, users, referrals>>

\* A failure to deliver the SMS leaves the row behind like a delivered one.
CreateSmsCode(r) ==
  /\ request[r].at = "create" /\ Len(codes) < MaxCodes
  /\ codes' = Append(codes, [live |-> TRUE, attempts |-> 0, guesses |-> 0])
  /\ Answer(r)
  /\ UNCHANGED <<sends, users, referrals, faults>>

\* Time passes: the TTL of the counter, or a code.
SendsExpire ==
  /\ sends.ttl
  /\ sends' = [n |-> 0, ttl |-> FALSE]
  /\ UNCHANGED <<codes, users, referrals, request, faults>>

CodeExpires(i) ==
  /\ codes[i].live /\ \A j \in 1 .. i - 1 : ~codes[j].live
  /\ codes' = [codes EXCEPT ![i].live = FALSE]
  /\ UNCHANGED <<sends, users, referrals, request, faults>>

-----------------------------------------------------------------------------
(* POST /auth/otp/verify and POST /auth/link/phone *)

\* LoginWithOTP looks whether the phone has an account yet, for the referral.
LoginWithOTP(r, t) ==
  /\ request[r].at = "idle"
  /\ request' = [request EXCEPT ![r] = [NoRequest EXCEPT !.at = "read", !.kind = "login",
                                          !.tenant = t, !.fresh = GetUserByPhone(t) = {}]]
  /\ UNCHANGED <<sends, codes, users, referrals, faults>>

\* LinkPhone of account a, whose org code may be blank.
LinkPhone(r, a, t) ==
  /\ request[r].at = "idle" /\ Exists(a) /\ t \in {users[a].tenant, DefaultTenant}
  /\ request' = [request EXCEPT ![r] = [NoRequest EXCEPT !.at = "read", !.kind = "link",
                                          !.tenant = t, !.account = a]]
  /\ UNCHANGED <<sends, codes, users, referrals, faults>>

Latest(i) == codes[i].live /\ \A j \in DOMAIN codes : j > i => ~codes[j].live

\* Mutant of Locked: one more wrong code than allowed.
LockedLate(i) == codes[i].attempts > MaxAttempts
Locked(i) == codes[i].attempts >= MaxAttempts

\* VerifyOTP reads the newest live code and refuses one that is locked.
GetLatestSmsCode(r) ==
  /\ request[r].at = "read"
  /\ \/ \E i \in DOMAIN codes :
          /\ Latest(i) /\ ~Locked(i)
          /\ request' = [request EXCEPT ![r].at = "compare", ![r].code = i]
     \/ /\ \A i \in DOMAIN codes : Latest(i) => Locked(i)
        /\ Answer(r)
  /\ UNCHANGED <<sends, codes, users, referrals, faults>>

\* A wrong code is counted; the error of counting it is ignored.
WrongCode(r) ==
  /\ request[r].at = "compare"
  /\ LET i == request[r].code IN
     \/ NoFault /\ codes' = [codes EXCEPT ![i].attempts = @ + 1, ![i].guesses = @ + 1]
     \/ Fault /\ codes' = [codes EXCEPT ![i].guesses = @ + 1]
  /\ Answer(r)
  /\ UNCHANGED <<sends, users, referrals>>

ConsumeSmsCode(r) ==
  /\ request[r].at = "compare"
  /\ codes' = [codes EXCEPT ![request[r].code].live = FALSE]
  /\ Goto(r, "account")
  /\ UNCHANGED <<sends, users, referrals, faults>>

\* A referral is recorded for a login that found no account when it began.
AttachToSignup(r, a) ==
  \/ request[r].fresh /\ referrals' = [referrals EXCEPT ![a] = @ + 1]
  \/ UNCHANGED referrals

\* The session of account a, or what LinkPhone does next.
Verified(r, a) ==
  IF request[r].kind = "login" THEN Answer(r) /\ AttachToSignup(r, a)
  ELSE Goto(r, "claim") /\ UNCHANGED referrals

\* VerifyOTP finds the account of the phone or creates one.
FindOrCreate(r) ==
  /\ request[r].at = "account"
  /\ LET t == request[r].tenant IN
     IF GetUserByPhone(t) # {}
     THEN UNCHANGED users /\ \E a \in GetUserByPhone(t) : Verified(r, a)
     ELSE \E a \in Accounts :
            /\ ~Exists(a)
            /\ users' = [users EXCEPT ![a] = [NoUser EXCEPT !.tenant = t, !.phone = "normal"]]
            /\ Verified(r, a)
  /\ UNCHANGED <<sends, codes, faults>>

\* LinkPhone refuses a phone that belongs to another account of the caller's tenant, and
\* LinkPhoneToUser writes it into the caller's.
Claim(r) ==
  /\ request[r].at = "claim"
  /\ LET a == request[r].account IN
     users' = IF GetUserByPhone(users[a].tenant) = {} THEN [users EXCEPT ![a].phone = "normal"] ELSE users
  /\ Answer(r)
  /\ UNCHANGED <<sends, codes, referrals, faults>>

-----------------------------------------------------------------------------
(* Google, and accounts an admin prepares *)

\* POST /auth/google: the account of the subject, else the one of the e-mail, else a new one.
LoginWithGoogle(t) ==
  /\ GetUserByGoogleSub(t) = {} /\ SubFree
  /\ IF GetUserByEmail(t) # {}
     THEN \E a \in GetUserByEmail(t) : users' = [users EXCEPT ![a].sub = TRUE]
     ELSE \E a \in Accounts :
            /\ ~Exists(a)
            /\ users' = [users EXCEPT ![a] = [NoUser EXCEPT !.tenant = t, !.email = TRUE, !.sub = TRUE]]
  /\ UNCHANGED <<sends, codes, referrals, request, faults>>

\* POST /auth/link/google
LinkGoogle(a) ==
  /\ Exists(a) /\ SubFree
  /\ users' = [users EXCEPT ![a].sub = TRUE]
  /\ UNCHANGED <<sends, codes, referrals, request, faults>>

\* RegisterAdmin: a shell account with the phone as it was typed.
Register(a, t, p) ==
  /\ ~Exists(a) /\ PhoneFree(t, p)
  /\ users' = [users EXCEPT ![a] = [NoUser EXCEPT !.tenant = t, !.phone = p]]
  /\ UNCHANGED <<sends, codes, referrals, request, faults>>

-----------------------------------------------------------------------------
\* The routes: a body that cannot be read, and an org code nobody has, change nothing.
HandleSendOtp == \E r \in Requests : SendOTP(r)
HandleVerifyOtp == \E r \in Requests, t \in Tenants : LoginWithOTP(r, t)
HandleLinkPhone == \E r \in Requests, a \in Accounts, t \in Tenants : LinkPhone(r, a, t)
HandleGoogleSignIn == \E t \in Tenants : LoginWithGoogle(t)
HandleLinkGoogle == \E a \in Accounts : LinkGoogle(a)
RegisterAdmin == \E a \in Accounts, t \in Tenants, p \in {"normal", "spelled"} : Register(a, t, p)

LoginNext ==
  \/ HandleSendOtp \/ HandleVerifyOtp \/ HandleLinkPhone
  \/ HandleGoogleSignIn \/ HandleLinkGoogle \/ RegisterAdmin
  \/ \E r \in Requests :
       \/ ExpireSends(r) \/ InvalidateOlderSmsCodes(r) \/ CreateSmsCode(r)
       \/ GetLatestSmsCode(r) \/ WrongCode(r) \/ ConsumeSmsCode(r) \/ FindOrCreate(r) \/ Claim(r)
  \/ SendsExpire
  \/ \E i \in DOMAIN codes : CodeExpires(i)

LoginSpec == LoginInit /\ [][LoginNext]_loginVars

-----------------------------------------------------------------------------
\* However many requests try codes at the same time, one code is guessed at most as often as
\* MaxAttempts allows and the requests that had read it before it was locked add (and the
\* failures to count a guess).
GuessesBounded ==
  \A i \in DOMAIN codes :
    codes[i].guesses <= MaxAttempts + (Cardinality(Requests) - 1) + faults
=============================================================================
