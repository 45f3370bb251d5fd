----------------------------- MODULE MCAccounts -----------------------------
(* Small instances of the modules of accounts and their doors: a run takes  *)
(* the steps of one of them, and the others stay where they begin.          *)
EXTENDS TokenBucket, PhoneLogin, Sessions, Tenancy, GoogleCerts, TenantLookup, Roster, TLC

VARIABLE part

accountsVars ==
  <<part, bucketVars, loginVars, sessionVars, tenancyVars, certVars, lookupVars, rosterVars>>

\* Of the part that is on, as the others do not change.
TypeOK ==
  /\ part = "bucket" => BucketTypeOK
  /\ part = "login" => LoginTypeOK
  /\ part = "session" => SessionTypeOK
  /\ part = "tenancy" => TenancyTypeOK
  /\ part = "certs" => CertTypeOK
  /\ part = "lookup" => LookupTypeOK
  /\ part = "roster" => RosterTypeOK

Init ==
  /\ part \in {"bucket", "login", "session", "tenancy", "certs", "lookup", "roster"}
  /\ BucketInit /\ LoginInit /\ SessionInit /\ TenancyInit /\ CertInit /\ LookupInit /\ RosterInit
  \* Off the part, one of the initial states is enough.
  /\ part # "lookup" => tenant.plan = CHOOSE p \in Plans : TRUE

Next ==
  \/ /\ part = "bucket" /\ BucketNext
     /\ UNCHANGED <<part, loginVars, sessionVars, tenancyVars, certVars, lookupVars, rosterVars>>
  \/ /\ part = "login" /\ LoginNext
     /\ UNCHANGED <<part, bucketVars, sessionVars, tenancyVars, certVars, lookupVars, rosterVars>>
  \/ /\ part = "session" /\ SessionNext
     /\ UNCHANGED <<part, bucketVars, loginVars, tenancyVars, certVars, lookupVars, rosterVars>>
  \/ /\ part = "tenancy" /\ TenancyNext
     /\ UNCHANGED <<part, bucketVars, loginVars, sessionVars, certVars, lookupVars, rosterVars>>
  \/ /\ part = "certs" /\ CertNext
     /\ UNCHANGED <<part, bucketVars, loginVars, sessionVars, tenancyVars, lookupVars, rosterVars>>
  \/ /\ part = "lookup" /\ LookupNext
     /\ UNCHANGED <<part, bucketVars, loginVars, sessionVars, tenancyVars, certVars, rosterVars>>
  \/ /\ part = "roster" /\ RosterNext
     /\ UNCHANGED <<part, bucketVars, loginVars, sessionVars, tenancyVars, certVars, lookupVars>>

Spec == Init /\ [][Next]_accountsVars

CONSTANTS a1, a2, k1, r1, r2, t1, u1

\* The requests, calls, exchanges, onboardings, sign-ins, lookups and imports in flight are one set
\* of model values in a configuration, and so are the accounts, the tenants and the people of a roster.
Symmetry == Permutations(Requests) \cup Permutations(Accounts)
=============================================================================
