------------------------------ MODULE LiveRoom ------------------------------
(***************************************************************************)
(* What the live chat promises whoever listens to a room: a line that was  *)
(* posted to the room is said there at most once, and to everybody who is  *)
(* in at that moment; everybody hears, in this order and without a gap,    *)
(* what was said since coming in.  Somebody whose line holds and who has   *)
(* no more than Patience lines left to hear is not put out, and who is put *)
(* out still hears what came before.                                       *)
(***************************************************************************)
EXTENDS Naturals, Sequences

CONSTANTS Listeners, Rooms, Patience

VARIABLES
  posted,    \* lines so far; they are numbered
  pending,   \* posted and not said yet
  home,      \* the room of a listener
  phase,     \* "new", "in", "out" (of the room, and listening) or "gone"
  lost,      \* whether the listener's line is cut
  due,       \* said to a listener who has yet to hear it
  heard

roomVars == <<posted, pending, home, phase, lost, due, heard>>

Init ==
  /\ posted = 0 /\ pending = {}
  /\ home \in [Listeners -> Rooms]
  /\ phase = [l \in Listeners |-> "new"]
  /\ lost = [l \in Listeners |-> FALSE]
  /\ due = [l \in Listeners |-> <<>>]
  /\ heard = [l \in Listeners |-> <<>>]

Submit(r) ==
  /\ posted' = posted + 1
  /\ pending' = pending \cup {<<r, posted + 1>>}
  /\ UNCHANGED <<home, phase, lost, due, heard>>

Say(r) ==
  /\ \E line \in pending :
       /\ line[1] = r
       /\ pending' = pending \ {line}
       /\ due' = [l \in Listeners |-> IF phase[l] = "in" /\ home[l] = r THEN Append(due[l], line[2]) ELSE due[l]]
  /\ UNCHANGED <<posted, home, phase, lost, heard>>

Enter(l) ==
  /\ phase[l] = "new"
  /\ phase' = [phase EXCEPT ![l] = "in"]
  /\ UNCHANGED <<posted, pending, home, lost, due, heard>>

Hear(l) ==
  /\ phase[l] \in {"in", "out"} /\ ~lost[l] /\ due[l] # <<>>
  /\ heard' = [heard EXCEPT ![l] = Append(@, Head(due[l]))]
  /\ due' = [due EXCEPT ![l] = Tail(@)]
  /\ UNCHANGED <<posted, pending, home, phase, lost>>

Lose(l) ==
  /\ ~lost[l]
  /\ lost' = [lost EXCEPT ![l] = TRUE]
  /\ UNCHANGED <<posted, pending, home, phase, due, heard>>

\* For having lost the line, or for being too slow to be given the last thing said.
PutOut(l) ==
  /\ phase[l] = "in"
  /\ phase' = [phase EXCEPT ![l] = "out"]
  /\ \/ lost[l] /\ UNCHANGED due
     \/ /\ Len(due[l]) > Patience
        /\ due' = [due EXCEPT ![l] = SubSeq(@, 1, Len(@) - 1)]
  /\ UNCHANGED <<posted, pending, home, lost, heard>>

Leave(l) ==
  /\ phase[l] \in {"in", "out"}
  /\ lost[l] \/ (phase[l] = "out" /\ due[l] = <<>>)
  /\ phase' = [phase EXCEPT ![l] = "gone"]
  /\ lost' = [lost EXCEPT ![l] = TRUE]
  /\ due' = [due EXCEPT ![l] = <<>>]
  /\ UNCHANGED <<posted, pending, home, heard>>

Next ==
  \/ \E r \in Rooms : Submit(r) \/ Say(r)
  \/ \E l \in Listeners : Enter(l) \/ Hear(l) \/ Lose(l) \/ PutOut(l) \/ Leave(l)

Spec == Init /\ [][Next]_roomVars
=============================================================================
