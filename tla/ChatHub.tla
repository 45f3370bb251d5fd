------------------------------ MODULE ChatHub ------------------------------
(***************************************************************************)
(* The live chat: one hub goroutine that owns the rooms, and for every     *)
(* socket a read pump and a write pump.  They share unbuffered channels to *)
(* register and unregister, one buffered broadcast channel into the hub    *)
(* and one buffered send channel out to each socket.  A socket whose send  *)
(* channel is full is dropped, so that a slow reader never blocks the hub. *)
(***************************************************************************)
EXTENDS Naturals, Sequences

CONSTANTS
  Clients,       \* sockets; a reconnecting user is a new one
  Posts,         \* POST /chat/:stream_id/send requests
  Streams,
  SendCap,       \* capacity of a client's send channel
  BroadcastCap,  \* capacity of the hub's broadcast channel
  MaxMessages    \* bound on the messages posted

Authors == Clients \cup Posts

ASSUME ChatAssumptions ==
  /\ Clients \cap Posts = {}
  /\ SendCap \in Nat \ {0} /\ BroadcastCap \in Nat \ {0} /\ MaxMessages \in Nat

VARIABLES
  \* Hub
  room,       \* h.clients: the sockets of every stream
  broadcast,  \* the broadcast channel: <<stream, message>>
  left,       \* the sockets the message being delivered has not been offered to
  \* sockets and requests
  at,         \* the stream an author posts to
  reader,     \* read pump, or the REST handler, of an author
  text,       \* the message it is posting
  writer,     \* write pump
  conn,       \* the connection
  send,       \* the send channel
  closes,     \* how often the send channel was closed
  \* what happened
  posted,     \* messages so far; they are numbered
  log,        \* per stream, the messages the hub has taken to deliver
  joined,     \* Len(log) of the stream when the socket was registered
  got         \* what the peer has received

hubVars == <<room, broadcast, left>>
connVars == <<at, reader, text, writer, conn, send, closes>>
seenVars == <<posted, log, joined, got>>
vars == <<hubVars, connVars, seenVars>>

Messages == 1..MaxMessages

TypeOK ==
  /\ room \in [Streams -> SUBSET Clients]
  /\ broadcast \in Seq(Streams \X Messages) /\ Len(broadcast) <= BroadcastCap
  /\ left \subseteq Clients
  /\ at \in [Authors -> Streams]
  /\ reader \in [Authors -> {"none", "register", "read", "post", "leave", "done"}]
  /\ text \in [Authors -> 0..MaxMessages]
  /\ writer \in [Clients -> {"none", "run", "done"}]
  /\ conn \in [Clients -> {"none", "open", "closed"}]
  /\ send \in [Clients -> Seq(Messages)] /\ \A c \in Clients : Len(send[c]) <= SendCap
  /\ closes \in [Clients -> Nat]
  /\ posted \in 0..MaxMessages
  /\ log \in [Streams -> Seq(Messages)]
  /\ joined \in [Clients -> Nat]
  /\ got \in [Clients -> Seq(Messages)]

Init ==
  /\ room = [s \in Streams |-> {}]
  /\ broadcast = <<>>
  /\ left = {}
  /\ at \in [Authors -> Streams]
  /\ reader = [a \in Authors |-> "none"]
  /\ text = [a \in Authors |-> 0]
  /\ writer = [c \in Clients |-> "none"]
  /\ conn = [c \in Clients |-> "none"]
  /\ send = [c \in Clients |-> <<>>]
  /\ closes = [c \in Clients |-> 0]
  /\ posted = 0
  /\ log = [s \in Streams |-> <<>>]
  /\ joined = [c \in Clients |-> 0]
  /\ got = [c \in Clients |-> <<>>]

\* close(client.send): the second time panics, and so does a send after the first.
CloseSend(c) == closes' = [closes EXCEPT ![c] = @ + 1]

-----------------------------------------------------------------------------
(* The socket's goroutines *)

HandleWSConnection(c) ==
  /\ reader[c] = "none"
  /\ reader' = [reader EXCEPT ![c] = "register"]
  /\ conn' = [conn EXCEPT ![c] = "open"]
  /\ UNCHANGED <<hubVars, at, text, writer, send, closes, seenVars>>

\* A line arrives and is stored; a line that is empty or too soon is skipped.
ReadMessage(c) ==
  /\ reader[c] = "read" /\ conn[c] = "open"
  /\ posted < MaxMessages
  /\ posted' = posted + 1
  /\ text' = [text EXCEPT ![c] = posted + 1]
  /\ reader' = [reader EXCEPT ![c] = "post"]
  /\ UNCHANGED <<hubVars, at, writer, conn, send, closes, log, joined, got>>

\* The same line by REST: no socket behind it.
SendMessage(p) ==
  /\ reader[p] = "none"
  /\ posted < MaxMessages
  /\ posted' = posted + 1
  /\ text' = [text EXCEPT ![p] = posted + 1]
  /\ reader' = [reader EXCEPT ![p] = "post"]
  /\ UNCHANGED <<hubVars, at, writer, conn, send, closes, log, joined, got>>

\* h.hub.broadcast <- out: waits while the channel is full.
Post(a) ==
  /\ reader[a] = "post"
  /\ Len(broadcast) < BroadcastCap
  /\ broadcast' = Append(broadcast, <<at[a], text[a]>>)
  /\ text' = [text EXCEPT ![a] = 0]
  /\ reader' = [reader EXCEPT ![a] = IF a \in Clients THEN "read" ELSE "done"]
  /\ UNCHANGED <<room, left, at, writer, conn, send, closes, seenVars>>

\* ReadMessage fails on a connection that is gone; the deferred unregister is next.
ReadError(c) ==
  /\ reader[c] = "read" /\ conn[c] = "closed"
  /\ reader' = [reader EXCEPT ![c] = "leave"]
  /\ UNCHANGED <<hubVars, at, text, writer, conn, send, closes, seenVars>>

\* The peer goes away, or its pong does not come in time.
Disconnect(c) ==
  /\ conn[c] = "open"
  /\ conn' = [conn EXCEPT ![c] = "closed"]
  /\ UNCHANGED <<hubVars, at, reader, text, writer, send, closes, seenVars>>

\* One message out.  On a closed connection the write fails and the pump ends.
WriteMessage(c) ==
  /\ writer[c] = "run" /\ send[c] # <<>>
  /\ send' = [send EXCEPT ![c] = Tail(@)]
  /\ \/ /\ conn[c] = "open"
        /\ got' = [got EXCEPT ![c] = Append(@, Head(send[c]))]
        /\ UNCHANGED writer
     \/ /\ conn[c] = "closed"
        /\ writer' = [writer EXCEPT ![c] = "done"]
        /\ UNCHANGED got
  /\ UNCHANGED <<hubVars, at, reader, text, conn, closes, posted, log, joined>>

\* The pump ends, and closes the connection, when its drained channel is closed or a
\* ping cannot be written.
StopWriting(c) ==
  /\ writer[c] = "run"
  /\ (send[c] = <<>> /\ closes[c] > 0) \/ conn[c] = "closed"
  /\ writer' = [writer EXCEPT ![c] = "done"]
  /\ conn' = [conn EXCEPT ![c] = "closed"]
  /\ UNCHANGED <<hubVars, at, reader, text, send, closes, seenVars>>

-----------------------------------------------------------------------------
(* The hub's select loop *)

\* It meets a read pump at the register channel, and both pumps start.
Register(c) ==
  /\ left = {}
  /\ reader[c] = "register"
  /\ room' = [room EXCEPT ![at[c]] = @ \cup {c}]
  /\ reader' = [reader EXCEPT ![c] = "read"]
  /\ writer' = [writer EXCEPT ![c] = "run"]
  /\ joined' = [joined EXCEPT ![c] = Len(log[at[c]])]
  /\ UNCHANGED <<broadcast, left, at, text, conn, send, closes, posted, log, got>>

\* Mutant of Unregister: the channel is closed whether or not the hub still has the socket.
UnregisterUnchecked(c) ==
  /\ left = {}
  /\ reader[c] = "leave"
  /\ room' = [room EXCEPT ![at[c]] = @ \ {c}]
  /\ CloseSend(c)
  /\ reader' = [reader EXCEPT ![c] = "done"]
  /\ conn' = [conn EXCEPT ![c] = "closed"]
  /\ UNCHANGED <<broadcast, left, at, text, writer, send, seenVars>>

\* Mutant of Unregister: the hub forgets to take the socket out of its room.
UnregisterKeeps(c) ==
  /\ left = {}
  /\ reader[c] = "leave"
  /\ reader' = [reader EXCEPT ![c] = "done"]
  /\ conn' = [conn EXCEPT ![c] = "closed"]
  /\ UNCHANGED <<hubVars, at, text, writer, send, closes, seenVars>>

\* The read pump leaves: unless the hub has dropped the socket before.
Unregister(c) ==
  /\ left = {}
  /\ reader[c] = "leave"
  /\ IF c \in room[at[c]]
     THEN room' = [room EXCEPT ![at[c]] = @ \ {c}] /\ CloseSend(c)
     ELSE UNCHANGED <<room, closes>>
  /\ reader' = [reader EXCEPT ![c] = "done"]
  /\ conn' = [conn EXCEPT ![c] = "closed"]
  /\ UNCHANGED <<broadcast, left, at, text, writer, send, seenVars>>

Broadcast ==
  /\ left = {} /\ broadcast # <<>>
  /\ LET s == Head(broadcast)[1]
     IN /\ left' = room[s]
        /\ log' = [log EXCEPT ![s] = Append(@, Head(broadcast)[2])]
  /\ broadcast' = Tail(broadcast)
  /\ UNCHANGED <<room, connVars, posted, joined, got>>

\* The message being delivered to the sockets that are left.
Current(c) == log[at[c]][Len(log[at[c]])]

\* Mutant of Offer: a full channel loses the message but keeps its socket.
OfferLossy(c) ==
  /\ c \in left
  /\ left' = left \ {c}
  /\ send' = IF Len(send[c]) < SendCap THEN [send EXCEPT ![c] = Append(@, Current(c))]
             ELSE send
  /\ UNCHANGED <<room, broadcast, at, reader, text, writer, conn, closes, seenVars>>

\* Mutant of Offer: a full channel blocks the hub.
OfferBlocking(c) ==
  /\ c \in left /\ Len(send[c]) < SendCap
  /\ left' = left \ {c}
  /\ send' = [send EXCEPT ![c] = Append(@, Current(c))]
  /\ UNCHANGED <<room, broadcast, at, reader, text, writer, conn, closes, seenVars>>

\* One turn of the delivery loop: into the channel, or out of the room if that is full.
Offer(c) ==
  /\ c \in left
  /\ left' = left \ {c}
  /\ IF Len(send[c]) < SendCap
     THEN /\ send' = [send EXCEPT ![c] = Append(@, Current(c))]
          /\ UNCHANGED <<room, closes>>
     ELSE /\ CloseSend(c)
          /\ room' = [room EXCEPT ![at[c]] = @ \ {c}]
          /\ UNCHANGED send
  /\ UNCHANGED <<broadcast, at, reader, text, writer, conn, seenVars>>

-----------------------------------------------------------------------------

Hub == Broadcast \/ \E c \in Clients : Register(c) \/ Unregister(c) \/ Offer(c)

Socket(c) ==
  \/ HandleWSConnection(c) \/ ReadMessage(c) \/ ReadError(c) \/ Disconnect(c)
  \/ WriteMessage(c) \/ StopWriting(c)

Next ==
  \/ Hub
  \/ \E c \in Clients : Socket(c)
  \/ \E p \in Posts : SendMessage(p)
  \/ \E a \in Authors : Post(a)

Spec == Init /\ [][Next]_vars

\* Goroutines run, a select chooses every case that keeps being ready, and senders
\* blocked on a channel are served in turn.  A peer may read slowly for ever.
Fairness ==
  /\ SF_vars(Broadcast)
  /\ \A c \in Clients :
       /\ SF_vars(Register(c)) /\ SF_vars(Unregister(c)) /\ WF_vars(Offer(c))
       /\ WF_vars(ReadError(c)) /\ WF_vars(StopWriting(c))
  /\ \A a \in Authors : SF_vars(Post(a))

LiveSpec == Spec /\ Fairness
-----------------------------------------------------------------------------
(* Correctness *)

\* No goroutine panics: a send channel is closed at most once, by the hub dropping a slow
\* socket or by its read pump leaving but not both, and never while the hub still has the
\* socket in a room it delivers to.
NoPanic ==
  \A c \in Clients :
    /\ closes[c] <= 1
    /\ \A s \in Streams : c \in room[s] \cup left => closes[c] = 0

\* A socket sees its room's messages without gap, loss or reordering from the moment it
\* was registered, for as long as it sees any: a slow one is cut off, never skipped over.
Unbroken ==
  \A c \in Clients :
    LET seen == got[c] \o send[c]
        room_ == log[at[c]]
    IN writer[c] = "run" =>
         /\ Len(seen) <= Len(room_) - joined[c]
         /\ \A i \in 1..Len(seen) : seen[i] = room_[joined[c] + i]
         /\ c \in room[at[c]] \ left => Len(seen) = Len(room_) - joined[c]

\* Nobody waits for a slow or dead peer: whoever has posted a line gets on.
PostersGoOn == \A a \in Authors : (reader[a] = "post") ~> (reader[a] # "post")

\* A socket whose connection is gone leaves its room, so that it is not counted as a
\* viewer for ever (ViewerCount "reports how many live sockets a stream has").
DeadSocketsLeave ==
  \A c \in Clients : (conn[c] = "closed" /\ c \in room[at[c]]) ~> (c \notin room[at[c]])

-----------------------------------------------------------------------------
(* The hub in the words of LiveRoom: a message is said when the hub takes it, although it is   *)
(* then offered to one socket after the other, while pumps run.                                *)

PhaseOf(c) ==
  IF writer[c] = "run" THEN IF c \in room[at[c]] THEN "in" ELSE "out"
  ELSE IF writer[c] = "none" THEN "new" ELSE "gone"
DueOf(c) ==
  IF writer[c] = "run" THEN IF c \in left THEN Append(send[c], Current(c)) ELSE send[c]
  ELSE <<>>

Phase == [c \in Clients |-> PhaseOf(c)]
Due == [c \in Clients |-> DueOf(c)]
Home == [c \in Clients |-> at[c]]
Lost == [c \in Clients |-> conn[c] = "closed"]
Pending ==
  {<<at[a], text[a]>> : a \in {b \in Authors : reader[b] = "post"}}
  \cup {broadcast[i] : i \in DOMAIN broadcast}

Feed == INSTANCE LiveRoom WITH
  Listeners <- Clients, Rooms <- Streams, Patience <- SendCap,
  pending <- Pending, home <- Home, phase <- Phase, lost <- Lost, due <- Due, heard <- got

\* However the hub, the pumps and the posts interleave, the chat is a LiveRoom: a line is
\* delivered to a socket at most once, in order and to its own room only, all sockets of the
\* room get it or are cut off, and none is cut off that reads (handler.go:84-124, 207-288).
FeedSpec == Feed!Spec
=============================================================================
