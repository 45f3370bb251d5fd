------------------------------ MODULE Devices ------------------------------
(***************************************************************************)
(* Devices that take push messages: the app registers its token at every   *)
(* launch, which first evicts the device seen longest ago while the user   *)
(* has as many as allowed.  Counting, evicting and storing are statements  *)
(* one after the other, and the launches of several phones overlap.        *)
(***************************************************************************)
EXTENDS Integers, Sequences, FiniteSets, SequencesExt

CONSTANTS
  Phones,            \* push tokens
  Owners,            \* users of one tenant
  Launches,          \* registrations in flight at one time
  MaxActiveDevices,
  MaxBreakdowns      \* bound of the run: statements that fail

ASSUME DeviceAssumptions ==
  /\ IsFiniteSet(Phones) /\ IsFiniteSet(Launches)
  /\ MaxActiveDevices \in Nat \ {0} /\ MaxBreakdowns \in Nat

VARIABLES
  devices,     \* rows of device_tokens, the one seen longest ago first
  launch,      \* where each registration is
  breakdowns

deviceVars == <<devices, launch, breakdowns>>

NoLaunch == [at |-> "idle", phone |-> "none", owner |-> "none"]

\* active: seen within the last 30 days
DeviceTypeOK ==
  /\ devices \in Seq([phone : Phones, owner : Owners, active : BOOLEAN])
  /\ \A i, j \in DOMAIN devices : devices[i].phone = devices[j].phone => i = j
  /\ launch \in [Launches -> [at : {"idle", "count", "evict", "upsert"},
                              phone : Phones \cup {"none"}, owner : Owners \cup {"none"}]]
  /\ breakdowns \in 0 .. MaxBreakdowns

DeviceInit ==
  /\ devices = << >>
  /\ launch = [l \in Launches |-> NoLaunch]
  /\ breakdowns = 0

-----------------------------------------------------------------------------
Proceed(l, pc) == launch' = [launch EXCEPT ![l].at = pc]
Breakdown == breakdowns < MaxBreakdowns /\ breakdowns' = breakdowns + 1

CountActiveDevicesForUser(u) == Cardinality({i \in DOMAIN devices : devices[i].owner = u /\ devices[i].active})
EvictOldestDeviceForUser(u) ==
  LET mine == {i \in DOMAIN devices : devices[i].owner = u}
      oldest == {i \in mine : \A j \in mine : i <= j}
  IN {RemoveAt(devices, i) : i \in oldest} \cup IF mine = {} THEN {devices} ELSE {}

\* The rows but the one of phone p, of which there is at most one.
WithoutDevice(p) ==
  LET its == {i \in DOMAIN devices : devices[i].phone = p}
  IN IF its = {} THEN devices ELSE RemoveAt(devices, CHOOSE i \in its : TRUE)

\* POST /devices/register: app of user u on a phone.
HandleRegister(l, p, u) ==
  /\ launch[l].at = "idle"
  /\ launch' = [launch EXCEPT ![l] = [at |-> "count", phone |-> p, owner |-> u]]
  /\ UNCHANGED <<devices, breakdowns>>

\* Mutant of BelowCap: one device more than allowed.
UpToCap(u) == CountActiveDevicesForUser(u) <= MaxActiveDevices
BelowCap(u) == CountActiveDevicesForUser(u) < MaxActiveDevices

\* Register goes round until the count is below the cap; an error ends the loop, not the
\* registration.
CountDevices(l) ==
  /\ launch[l].at = "count"
  /\ \/ Proceed(l, IF BelowCap(launch[l].owner) THEN "upsert" ELSE "evict") /\ UNCHANGED breakdowns
     \/ Breakdown /\ Proceed(l, "upsert")
  /\ UNCHANGED devices

EvictDevice(l) ==
  /\ launch[l].at = "evict"
  /\ \/ devices' \in EvictOldestDeviceForUser(launch[l].owner) /\ Proceed(l, "count") /\ UNCHANGED breakdowns
     \/ Breakdown /\ Proceed(l, "upsert") /\ UNCHANGED devices

\* A token that is there moves to the user, and is the one seen last.
UpsertDeviceToken(l) ==
  /\ launch[l].at = "upsert"
  /\ devices' = Append(WithoutDevice(launch[l].phone),
                       [phone |-> launch[l].phone, owner |-> launch[l].owner, active |-> TRUE])
  /\ launch' = [launch EXCEPT ![l] = NoLaunch]
  /\ UNCHANGED breakdowns

\* DELETE /devices/:token, whoever asks.
HandleUnregister(p) ==
  /\ devices' = WithoutDevice(p)
  /\ UNCHANGED <<launch, breakdowns>>

\* 30 days pass for the device seen longest ago.
DeviceAges ==
  \E i \in DOMAIN devices :
    /\ devices[i].active /\ \A j \in 1 .. i - 1 : ~devices[j].active
    /\ devices' = [devices EXCEPT ![i].active = FALSE]
    /\ UNCHANGED <<launch, breakdowns>>

DeviceNext ==
  \/ \E l \in Launches :
       \/ CountDevices(l) \/ EvictDevice(l) \/ UpsertDeviceToken(l)
       \/ \E p \in Phones, u \in Owners : HandleRegister(l, p, u)
  \/ \E p \in Phones : HandleUnregister(p)
  \/ DeviceAges

DeviceSpec == DeviceInit /\ [][DeviceNext]_deviceVars

-----------------------------------------------------------------------------
\* However launches overlap, a user exceeds the cap by no more than the launches that counted
\* before one of them stored its token add, and the failures of counting and evicting.
DevicesBounded ==
  \A u \in Owners :
    CountActiveDevicesForUser(u) <= MaxActiveDevices + Cardinality(Launches) - 1 + breakdowns
=============================================================================
