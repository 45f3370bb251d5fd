--------------------------- MODULE OrderLifecycle ---------------------------
(***************************************************************************)
(* What the payments table promises for every order, whatever requests,    *)
(* webhooks and retries did to get there: an order is placed, settled only *)
(* while it is open, announced at most once per settlement, and refunded   *)
(* only after it was settled.  A subscription payment is captured instead. *)
(* A settled or refunded row may be captured again, which opens the order  *)
(* for another settlement: nothing but that does.                          *)
(***************************************************************************)
EXTENDS Naturals

CONSTANT Orders

VARIABLES
  stage,      \* [Orders -> {"absent", "created", "paid", "captured", "refunded"}]
  settled,    \* how often the order was settled
  resets,     \* how often a settled row was captured again
  announced   \* how many purchase events were published

Init ==
  /\ stage = [o \in Orders |-> "absent"]
  /\ settled = [o \in Orders |-> 0]
  /\ resets = [o \in Orders |-> 0]
  /\ announced = [o \in Orders |-> 0]

Move(o, from, to) ==
  /\ stage[o] \in from
  /\ stage' = [stage EXCEPT ![o] = to]

Place(o) ==
  /\ Move(o, {"absent"}, "created")
  /\ UNCHANGED <<settled, resets, announced>>

Settle(o) ==
  /\ Move(o, {"created", "captured"}, "paid")
  /\ settled' = [settled EXCEPT ![o] = @ + 1]
  /\ UNCHANGED <<resets, announced>>

Capture(o) ==
  /\ Move(o, {"created"}, "captured")
  /\ UNCHANGED <<settled, resets, announced>>

\* The row forgets that it was paid or refunded.
Reset(o) ==
  /\ Move(o, {"paid", "refunded"}, "captured")
  /\ resets' = [resets EXCEPT ![o] = @ + 1]
  /\ UNCHANGED <<settled, announced>>

\* From captured too: the refund was asked for before the row was captured again.
Refund(o) ==
  /\ settled[o] > 0
  /\ Move(o, {"paid", "captured"}, "refunded")
  /\ UNCHANGED <<settled, resets, announced>>

Announce(o) ==
  /\ announced[o] < settled[o]
  /\ announced' = [announced EXCEPT ![o] = @ + 1]
  /\ UNCHANGED <<stage, settled, resets>>

Next ==
  \E o \in Orders :
    Place(o) \/ Settle(o) \/ Capture(o) \/ Reset(o) \/ Refund(o) \/ Announce(o)

Spec == Init /\ [][Next]_<<stage, settled, resets, announced>>
=============================================================================
