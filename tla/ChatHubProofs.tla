--------------------------- MODULE ChatHubProofs ---------------------------
(***************************************************************************)
(* Proofs about ChatHub, for any sockets, streams and channel capacities.  *)
(***************************************************************************)
EXTENDS ChatHub, SequenceTheorems, TLAPS

-----------------------------------------------------------------------------
(* The inductive invariant *)

\* What a socket has received or will find in its send channel.
Seen(c) == got[c] \o send[c]

\* Only a socket whose read pump has yet to leave is in a room, and that is its own; only
\* a socket of the room is offered a message.
Member(c) ==
  /\ \A s \in Streams : c \in room[s] =>
       at[c] = s /\ reader[c] \in {"read", "post", "leave"} /\ closes[c] = 0
  /\ c \in left => c \in room[at[c]] /\ log[at[c]] # <<>>
  /\ closes[c] <= 1

Fresh(c) ==
  reader[c] \in {"none", "register"} =>
    writer[c] = "none" /\ closes[c] = 0 /\ got[c] = <<>> /\ send[c] = <<>>

\* Unbroken, and what a socket lacks while the hub still has to offer it a message.
Exact(c) ==
  writer[c] = "run" =>
    /\ Len(Seen(c)) <= Len(log[at[c]]) - joined[c]
    /\ \A i \in 1..Len(Seen(c)) : Seen(c)[i] = log[at[c]][joined[c] + i]
    /\ c \in room[at[c]] =>
         Len(Seen(c)) = Len(log[at[c]]) - joined[c] - (IF c \in left THEN 1 ELSE 0)

Posting == \A a \in Authors : reader[a] = "post" => text[a] \in Messages

Sockets == \A c \in Clients : Member(c) /\ Fresh(c) /\ Exact(c)

IInv == TypeOK /\ Posting /\ Sockets

-----------------------------------------------------------------------------
(* Sequences *)

\* Moving the head of one sequence to the end of another leaves their concatenation.
LEMMA MoveHead ==
  ASSUME NEW S, NEW g \in Seq(S), NEW s \in Seq(S), s # <<>>
  PROVE  Append(g, Head(s)) \o Tail(s) = g \o s
<1> DEFINE l == Append(g, Head(s))
           t == Tail(s)
<1>1. Head(s) \in S /\ t \in Seq(S) /\ Len(t) = Len(s) - 1
      /\ \A i \in 1..Len(t) : t[i] = s[i + 1]
    BY HeadTailProperties
<1>2. l \in Seq(S) /\ Len(l) = Len(g) + 1 /\ l[Len(g) + 1] = Head(s)
      /\ \A i \in 1..Len(g) : l[i] = g[i]
    BY <1>1, AppendProperties
<1>3. /\ l \o t \in Seq(S) /\ Len(l \o t) = Len(l) + Len(t)
      /\ \A i \in 1..Len(l) + Len(t) : (l \o t)[i] = IF i <= Len(l) THEN l[i] ELSE t[i - Len(l)]
    BY <1>1, <1>2, ConcatProperties
<1>4. /\ g \o s \in Seq(S) /\ Len(g \o s) = Len(g) + Len(s)
      /\ \A i \in 1..Len(g) + Len(s) : (g \o s)[i] = IF i <= Len(g) THEN g[i] ELSE s[i - Len(g)]
    BY ConcatProperties
<1>5. Len(g) \in Nat /\ Len(s) \in Nat /\ Len(s) > 0 /\ Head(s) = s[1]
    BY EmptySeq, LenProperties
<1> HIDE DEF l, t
<1>6. ASSUME NEW i \in 1..Len(l \o t)  PROVE (l \o t)[i] = (g \o s)[i]
    <2>1. CASE i <= Len(g)
        BY <2>1, <1>2, <1>3, <1>4, <1>5, <1>1
    <2>2. CASE i = Len(g) + 1
        BY <2>2, <1>2, <1>3, <1>4, <1>5, <1>1
    <2>3. CASE i > Len(g) + 1
        <3> DEFINE j == i - Len(l)
        <3>1. j \in 1..Len(t) /\ i - Len(g) = j + 1
            BY <2>3, <1>1, <1>2, <1>3, <1>5
        <3>2. (l \o t)[i] = t[j]
            BY <2>3, <1>1, <1>2, <1>3, <1>5
        <3>3. (g \o s)[i] = s[i - Len(g)]
            BY <2>3, <1>1, <1>2, <1>3, <1>4, <1>5
        <3> QED  BY <3>1, <3>2, <3>3, <1>1
    <2> QED  BY <2>1, <2>2, <2>3, <1>1, <1>2, <1>3, <1>5
<1>7. Len(l \o t) = Len(g \o s)
    BY <1>1, <1>2, <1>3, <1>4, <1>5
<1>8. l \o t = g \o s
    <2>1. \A i \in 1..Len(l \o t) : (l \o t)[i] = (g \o s)[i]
        BY <1>6
    <2> QED  BY <1>3, <1>4, <1>7, <2>1, SeqEqual
<1> QED  BY <1>8 DEF l, t

\* Appending to the second sequence appends to the concatenation.
LEMMA AppendSecond ==
  \A g, s \in Seq(Messages), e \in Messages : g \o Append(s, e) = Append(g \o s, e)
<1> SUFFICES ASSUME NEW g \in Seq(Messages), NEW s \in Seq(Messages), NEW e \in Messages
             PROVE  g \o Append(s, e) = Append(g \o s, e)
    OBVIOUS
<1>1. <<e>> \in Seq(Messages) /\ g \o s \in Seq(Messages)
    BY ConcatProperties
<1>2. Append(s, e) = s \o <<e>>
    BY AppendIsConcat
<1>3. Append(g \o s, e) = (g \o s) \o <<e>>
    BY <1>1, AppendIsConcat
<1>4. (g \o s) \o <<e>> = g \o (s \o <<e>>)
    BY <1>1, ConcatAssociative
<1> QED  BY <1>2, <1>3, <1>4

-----------------------------------------------------------------------------
(* What a step leaves alone *)

LEMMA SeenTyped ==
  ASSUME TypeOK, NEW c \in Clients
  PROVE  /\ got[c] \in Seq(Messages) /\ send[c] \in Seq(Messages)
         /\ Seen(c) \in Seq(Messages) /\ Len(Seen(c)) \in Nat
         /\ at[c] \in Streams /\ log[at[c]] \in Seq(Messages) /\ Len(log[at[c]]) \in Nat
         /\ joined[c] \in Nat
<1>1. /\ got[c] \in Seq(Messages) /\ send[c] \in Seq(Messages)
      /\ at[c] \in Streams /\ joined[c] \in Nat
    BY DEF TypeOK, Authors
<1>2. log[at[c]] \in Seq(Messages)
    BY <1>1 DEF TypeOK
<1>3. Seen(c) \in Seq(Messages)
    BY <1>1, ConcatProperties DEF Seen
<1> QED  BY <1>1, <1>2, <1>3, LenProperties

\* A socket that a step does not touch keeps its part of the invariant.
LEMMA Untouched ==
  ASSUME NEW c \in Clients, Member(c) /\ Fresh(c) /\ Exact(c),
         at' = at, reader'[c] = reader[c], writer'[c] = writer[c],
         send'[c] = send[c], closes'[c] = closes[c], joined'[c] = joined[c], got'[c] = got[c],
         log'[at[c]] = log[at[c]],
         \A s \in Streams : c \in room'[s] <=> c \in room[s],
         c \in left' <=> c \in left, at[c] \in Streams
  PROVE  Member(c)' /\ Fresh(c)' /\ Exact(c)'
<1>1. Member(c)' /\ Fresh(c)'
    BY DEF Member, Fresh
<1>2. Seen(c)' = Seen(c)
    BY DEF Seen
<1>3. Exact(c)'
    BY <1>2 DEF Exact
<1> QED  BY <1>1, <1>3

\* A socket that goes on, or loses its pumps, among the same messages keeps what it sees.
LEMMA ExactKept ==
  ASSUME NEW c \in Clients, Exact(c), at' = at, log' = log, left' = left, joined' = joined,
         writer'[c] = "run" => writer[c] = "run", Seen(c)' = Seen(c),
         c \in room'[at[c]] => c \in room[at[c]]
  PROVE  Exact(c)'
BY DEF Exact

LEMMA InitHolds == Init => IInv
<1> SUFFICES ASSUME Init PROVE IInv
    OBVIOUS
<1>1. TypeOK
    BY ChatAssumptions DEF Init, TypeOK, Authors, Messages
<1>2. Posting /\ Sockets
    BY DEF Init, Posting, Sockets, Member, Fresh, Exact, Authors
<1> QED  BY <1>1, <1>2 DEF IInv

-----------------------------------------------------------------------------
(* The sockets' goroutines *)

LEMMA HandleWSConnectionStep ==
  ASSUME IInv, NEW c \in Clients, HandleWSConnection(c)  PROVE IInv'
<1> USE DEF IInv, HandleWSConnection, hubVars, seenVars
<1>1. TypeOK'
    BY DEF TypeOK, Authors
<1>2. Posting'
    BY DEF Posting, TypeOK, Authors
<1>3. ASSUME NEW d \in Clients  PROVE Member(d)' /\ Fresh(d)' /\ Exact(d)'
    <2>1. Member(d) /\ Fresh(d) /\ Exact(d)
        BY DEF Sockets
    <2>2. CASE d = c
        BY <2>1, <2>2 DEF Member, Fresh, Exact, TypeOK, Authors
    <2>3. CASE d # c
        BY <2>1, <2>3, Untouched, SeenTyped DEF TypeOK, Authors
    <2> QED  BY <2>2, <2>3
<1> QED  BY <1>1, <1>2, <1>3 DEF Sockets

LEMMA ReadMessageStep ==
  ASSUME IInv, NEW c \in Clients, ReadMessage(c)  PROVE IInv'
<1> USE DEF IInv, ReadMessage, hubVars
<1>1. posted + 1 \in Messages
    BY ChatAssumptions DEF TypeOK, Messages
<1>2. TypeOK'
    BY <1>1, ChatAssumptions DEF TypeOK, Authors, Messages
<1>3. Posting'
    BY <1>1 DEF Posting, TypeOK, Authors
<1>4. ASSUME NEW d \in Clients  PROVE Member(d)' /\ Fresh(d)' /\ Exact(d)'
    <2>1. Member(d) /\ Fresh(d) /\ Exact(d)
        BY DEF Sockets
    <2>2. CASE d = c
        <3>1. Member(d)' /\ Fresh(d)'
            BY <2>1, <2>2 DEF Member, Fresh, TypeOK, Authors
        <3>2. Seen(d)' = Seen(d)
            BY DEF Seen
        <3> QED  BY <2>1, <3>1, <3>2, ExactKept
    <2>3. CASE d # c
        BY <2>1, <2>3, Untouched, SeenTyped DEF TypeOK, Authors
    <2> QED  BY <2>2, <2>3
<1> QED  BY <1>2, <1>3, <1>4 DEF Sockets

LEMMA SendMessageStep ==
  ASSUME IInv, NEW p \in Posts, SendMessage(p)  PROVE IInv'
<1> USE DEF IInv, SendMessage, hubVars
<1>1. posted + 1 \in Messages
    BY ChatAssumptions DEF TypeOK, Messages
<1>2. TypeOK'
    BY <1>1, ChatAssumptions DEF TypeOK, Authors, Messages
<1>3. Posting'
    BY <1>1 DEF Posting, TypeOK, Authors
<1>4. ASSUME NEW d \in Clients  PROVE Member(d)' /\ Fresh(d)' /\ Exact(d)'
    <2>1. d # p
        BY ChatAssumptions
    <2>2. Member(d) /\ Fresh(d) /\ Exact(d)
        BY DEF Sockets
    <2> QED  BY <2>1, <2>2, Untouched, SeenTyped DEF TypeOK, Authors
<1> QED  BY <1>2, <1>3, <1>4 DEF Sockets

LEMMA PostStep ==
  ASSUME IInv, NEW a \in Authors, Post(a)  PROVE IInv'
<1> USE DEF IInv, Post, seenVars
<1>1. at[a] \in Streams /\ text[a] \in Messages
    BY DEF TypeOK, Posting
<1>2. TypeOK'
    <2>1. broadcast' \in Seq(Streams \X Messages) /\ Len(broadcast') = Len(broadcast) + 1
        BY <1>1, AppendProperties DEF TypeOK
    <2>2. Len(broadcast') <= BroadcastCap
        BY <2>1, ChatAssumptions, LenProperties DEF TypeOK
    <2>3. text' \in [Authors -> 0..MaxMessages]
        BY ChatAssumptions DEF TypeOK
    <2> QED  BY <2>1, <2>2, <2>3 DEF TypeOK
<1>3. Posting'
    BY DEF Posting, TypeOK
<1>4. ASSUME NEW d \in Clients  PROVE Member(d)' /\ Fresh(d)' /\ Exact(d)'
    <2>1. Member(d) /\ Fresh(d) /\ Exact(d)
        BY DEF Sockets
    <2>2. CASE d = a
        <3>1. Member(d)' /\ Fresh(d)'
            BY <2>1, <2>2 DEF Member, Fresh, TypeOK
        <3>2. Seen(d)' = Seen(d)
            BY DEF Seen
        <3> QED  BY <2>1, <3>1, <3>2, ExactKept
    <2>3. CASE d # a
        BY <2>1, <2>3, Untouched, SeenTyped DEF TypeOK, Authors
    <2> QED  BY <2>2, <2>3
<1> QED  BY <1>2, <1>3, <1>4 DEF Sockets

LEMMA ReadErrorStep ==
  ASSUME IInv, NEW c \in Clients, ReadError(c)  PROVE IInv'
<1> USE DEF IInv, ReadError, hubVars, seenVars
<1>1. TypeOK'
    BY DEF TypeOK, Authors
<1>2. Posting'
    BY DEF Posting, TypeOK, Authors
<1>3. ASSUME NEW d \in Clients  PROVE Member(d)' /\ Fresh(d)' /\ Exact(d)'
    <2>1. Member(d) /\ Fresh(d) /\ Exact(d)
        BY DEF Sockets
    <2>2. CASE d = c
        <3>1. Member(d)' /\ Fresh(d)'
            BY <2>1, <2>2 DEF Member, Fresh, TypeOK, Authors
        <3>2. Seen(d)' = Seen(d)
            BY DEF Seen
        <3> QED  BY <2>1, <3>1, <3>2, ExactKept
    <2>3. CASE d # c
        BY <2>1, <2>3, Untouched, SeenTyped DEF TypeOK, Authors
    <2> QED  BY <2>2, <2>3
<1> QED  BY <1>1, <1>2, <1>3 DEF Sockets

LEMMA DisconnectStep ==
  ASSUME IInv, NEW c \in Clients, Disconnect(c)  PROVE IInv'
<1> USE DEF IInv, Disconnect, hubVars, seenVars
<1>1. TypeOK'
    BY DEF TypeOK
<1>2. Posting'
    BY DEF Posting
<1>3. ASSUME NEW d \in Clients  PROVE Member(d)' /\ Fresh(d)' /\ Exact(d)'
    BY Untouched, SeenTyped DEF Sockets
<1> QED  BY <1>1, <1>2, <1>3 DEF Sockets

LEMMA WriteMessageStep ==
  ASSUME IInv, NEW c \in Clients, WriteMessage(c)  PROVE IInv'
<1> USE DEF IInv, WriteMessage, hubVars
<1>1. /\ send[c] \in Seq(Messages) /\ got[c] \in Seq(Messages)
      /\ Head(send[c]) \in Messages /\ Tail(send[c]) \in Seq(Messages)
      /\ Len(Tail(send[c])) = Len(send[c]) - 1 /\ Len(send[c]) \in Nat
    BY SeenTyped, HeadTailProperties, LenProperties
<1>2. /\ send' = [send EXCEPT ![c] = Tail(send[c])]
      /\ send' \in [Clients -> Seq(Messages)]
      /\ \A d \in Clients : Len(send'[d]) <= SendCap
    <2>1. send \in [Clients -> Seq(Messages)] /\ \A d \in Clients : Len(send[d]) <= SendCap
        BY DEF TypeOK
    <2>2. Len(Tail(send[c])) <= SendCap
        BY <1>1, <2>1, ChatAssumptions
    <2> QED  BY <1>1, <2>1, <2>2
<1>3. got' \in [Clients -> Seq(Messages)] /\ \A d \in Clients \ {c} : got'[d] = got[d]
    <2>1. Append(got[c], Head(send[c])) \in Seq(Messages)
        BY <1>1, AppendProperties
    <2> QED  BY <2>1 DEF TypeOK
<1>4. /\ writer' \in [Clients -> {"none", "run", "done"}]
      /\ \A d \in Clients \ {c} : writer'[d] = writer[d]
    BY DEF TypeOK
<1>5. TypeOK'
    BY <1>2, <1>3, <1>4 DEF TypeOK
<1>6. Posting'
    BY DEF Posting
<1>7. ASSUME NEW d \in Clients  PROVE Member(d)' /\ Fresh(d)' /\ Exact(d)'
    <2>1. Member(d) /\ Fresh(d) /\ Exact(d)
        BY DEF Sockets
    <2>2. CASE d = c
        <3>1. Member(d)' /\ Fresh(d)'
            BY <2>1, <2>2 DEF Member, Fresh
        <3>2. CASE writer'[c] = "run"
            <4>1. got'[c] = Append(got[c], Head(send[c])) /\ send'[c] = Tail(send[c])
                BY <1>2, <3>2 DEF TypeOK
            <4>2. Append(got[c], Head(send[c])) \o Tail(send[c]) = got[c] \o send[c]
                BY <1>1, MoveHead
            <4>3. Seen(c)' = Seen(c)
                BY <4>1, <4>2 DEF Seen
            <4> QED  BY <2>1, <2>2, <3>1, <4>3, ExactKept
        <3>3. CASE writer'[c] # "run"
            BY <2>2, <3>1, <3>3 DEF Exact
        <3> QED  BY <3>2, <3>3
    <2>3. CASE d # c
        <3>1. send'[d] = send[d]
            BY <1>2, <2>3 DEF TypeOK
        <3> QED  BY <1>3, <1>4, <2>1, <2>3, <3>1, Untouched, SeenTyped
    <2> QED  BY <2>2, <2>3
<1> QED  BY <1>5, <1>6, <1>7 DEF Sockets

LEMMA StopWritingStep ==
  ASSUME IInv, NEW c \in Clients, StopWriting(c)  PROVE IInv'
<1> USE DEF IInv, StopWriting, hubVars, seenVars
<1>1. TypeOK'
    BY DEF TypeOK
<1>2. Posting'
    BY DEF Posting
<1>3. ASSUME NEW d \in Clients  PROVE Member(d)' /\ Fresh(d)' /\ Exact(d)'
    <2>1. Member(d) /\ Fresh(d) /\ Exact(d)
        BY DEF Sockets
    <2>2. CASE d = c
        BY <2>1, <2>2 DEF Member, Fresh, Exact, TypeOK
    <2>3. CASE d # c
        BY <2>1, <2>3, Untouched, SeenTyped DEF TypeOK
    <2> QED  BY <2>2, <2>3
<1> QED  BY <1>1, <1>2, <1>3 DEF Sockets

-----------------------------------------------------------------------------
(* The hub *)

LEMMA RegisterStep ==
  ASSUME IInv, NEW c \in Clients, Register(c)  PROVE IInv'
<1> USE DEF IInv, Register
<1>1. at[c] \in Streams /\ Len(log[at[c]]) \in Nat /\ log[at[c]] \in Seq(Messages)
    BY SeenTyped
<1>2. TypeOK'
    BY <1>1 DEF TypeOK, Authors
<1>3. Posting'
    BY DEF Posting, TypeOK, Authors
<1>4. ASSUME NEW d \in Clients  PROVE Member(d)' /\ Fresh(d)' /\ Exact(d)'
    <2>1. Member(d) /\ Fresh(d) /\ Exact(d)
        BY DEF Sockets
    <2>2. CASE d = c
        <3>1. Member(d)'
            BY <1>1, <2>1, <2>2 DEF Member, Fresh, TypeOK, Authors
        <3>2. Fresh(d)'
            BY <2>2 DEF Fresh, TypeOK, Authors
        <3>3. Exact(d)'
            <4>1. got'[c] = <<>> /\ send'[c] = <<>>
                BY <2>1, <2>2 DEF Fresh
            <4>2. Seen(c)' = <<>> /\ Len(Seen(c)') = 0
                BY <4>1 DEF Seen
            <4>3. joined'[c] = Len(log[at[c]]) /\ log' = log /\ at' = at /\ left' = {}
                BY DEF TypeOK
            <4> QED  BY <1>1, <2>2, <4>2, <4>3 DEF Exact
        <3> QED  BY <3>1, <3>2, <3>3
    <2>3. CASE d # c
        <3>1. \A s \in Streams : d \in room'[s] <=> d \in room[s]
            BY <1>1, <2>3 DEF TypeOK
        <3> QED  BY <2>1, <2>3, <3>1, Untouched, SeenTyped DEF TypeOK, Authors
    <2> QED  BY <2>2, <2>3
<1> QED  BY <1>2, <1>3, <1>4 DEF Sockets

LEMMA UnregisterStep ==
  ASSUME IInv, NEW c \in Clients, Unregister(c)  PROVE IInv'
<1> USE DEF IInv, Unregister, seenVars, CloseSend
<1>1. at[c] \in Streams /\ Member(c)
    BY SeenTyped DEF Sockets
<1>2. /\ room' \in [Streams -> SUBSET Clients]
      /\ \A s \in Streams : room'[s] = room[s] \ {c}
      /\ closes' \in [Clients -> Nat] /\ closes'[c] <= 1
      /\ \A d \in Clients \ {c} : closes'[d] = closes[d]
    <2>1. /\ room \in [Streams -> SUBSET Clients] /\ closes \in [Clients -> Nat]
          /\ \A s \in Streams : c \in room[s] => s = at[c] /\ closes[c] = 0
          /\ closes[c] <= 1
        BY <1>1 DEF TypeOK, Member
    <2>2. CASE c \in room[at[c]]
        BY <1>1, <2>1, <2>2
    <2>3. CASE c \notin room[at[c]]
        BY <1>1, <2>1, <2>3
    <2> QED  BY <2>2, <2>3
<1>3. TypeOK'
    BY <1>2 DEF TypeOK, Authors
<1>4. Posting'
    BY DEF Posting, TypeOK, Authors
<1>5. ASSUME NEW d \in Clients  PROVE Member(d)' /\ Fresh(d)' /\ Exact(d)'
    <2>1. Member(d) /\ Fresh(d) /\ Exact(d)
        BY DEF Sockets
    <2>2. CASE d = c
        <3>1. Member(d)' /\ Fresh(d)'
            BY <1>2, <2>2 DEF Member, Fresh, TypeOK, Authors
        <3>2. Seen(d)' = Seen(d)
            BY DEF Seen
        <3> QED  BY <1>1, <1>2, <2>1, <2>2, <3>1, <3>2, ExactKept
    <2>3. CASE d # c
        BY <1>2, <2>1, <2>3, Untouched, SeenTyped DEF TypeOK, Authors
    <2> QED  BY <2>2, <2>3
<1> QED  BY <1>3, <1>4, <1>5 DEF Sockets

\* What the log of a stream looks like after one more message.
LEMMA Appended ==
  ASSUME NEW q \in Seq(Messages), NEW n \in Messages
  PROVE  /\ Append(q, n) # <<>> /\ Len(Append(q, n)) = Len(q) + 1
         /\ \A i \in 1..Len(q) : Append(q, n)[i] = q[i]
  BY AppendProperties

LEMMA BroadcastStep ==
  ASSUME IInv, Broadcast  PROVE IInv'
<1> DEFINE s == Head(broadcast)[1]
           m == Head(broadcast)[2]
<1>1. /\ s \in Streams /\ m \in Messages
      /\ Tail(broadcast) \in Seq(Streams \X Messages)
      /\ Len(Tail(broadcast)) = Len(broadcast) - 1 /\ Len(broadcast) \in Nat
    BY HeadTailProperties, LenProperties DEF IInv, TypeOK, Broadcast
<1>2. /\ left = {} /\ left' = room[s] /\ log' = [log EXCEPT ![s] = Append(log[s], m)]
      /\ broadcast' = Tail(broadcast)
      /\ UNCHANGED <<room, at, reader, text, writer, conn, send, closes, posted, joined, got>>
    BY DEF Broadcast, connVars
<1> HIDE DEF s, m
<1>3. log[s] \in Seq(Messages) /\ Append(log[s], m) \in Seq(Messages)
    BY <1>1, AppendProperties DEF IInv, TypeOK
<1>4. TypeOK'
    BY <1>1, <1>2, <1>3, ChatAssumptions DEF IInv, TypeOK
<1>5. Posting'
    BY <1>2 DEF IInv, Posting
<1>6. ASSUME NEW d \in Clients  PROVE Member(d)' /\ Fresh(d)' /\ Exact(d)'
    <2>1. Member(d) /\ Fresh(d) /\ Exact(d) /\ at[d] \in Streams
        BY SeenTyped DEF IInv, Sockets
    <2>2. Fresh(d)' /\ Seen(d)' = Seen(d)
        BY <1>2, <2>1 DEF Fresh, Seen
    <2>3. CASE at[d] = s
        <3>1. log'[at[d]] = Append(log[s], m)
            BY <1>1, <1>2, <2>3 DEF IInv, TypeOK
        <3>2. /\ Append(log[s], m) # <<>> /\ Len(Append(log[s], m)) = Len(log[s]) + 1
              /\ \A i \in 1..Len(log[s]) : Append(log[s], m)[i] = log[s][i]
            BY <1>1, <1>3, Appended
        <3>3. Member(d)'
            BY <1>2, <2>1, <2>3, <3>1, <3>2 DEF Member
        <3>4. Exact(d)'
            <4> SUFFICES ASSUME writer'[d] = "run" PROVE Exact(d)'
                BY DEF Exact
            <4>1. writer[d] = "run" /\ joined' = joined /\ at' = at /\ room' = room
                BY <1>2
            <4>2. /\ Len(Seen(d)) \in Nat /\ Len(log[s]) \in Nat /\ joined[d] \in Nat
                BY <2>3, SeenTyped DEF IInv
            <4>3. Len(Seen(d)) <= Len(log[s]) - joined[d]
                BY <2>1, <2>3, <4>1 DEF Exact
            <4>4. \A i \in 1..Len(Seen(d)) :
                    Seen(d)[i] = Append(log[s], m)[joined[d] + i]
                <5> TAKE i \in 1..Len(Seen(d))
                <5>1. joined[d] + i \in 1..Len(log[s])
                    BY <4>2, <4>3
                <5> QED  BY <2>1, <2>3, <4>1, <5>1, <3>2 DEF Exact
            <4>5. d \in room[s] => d \in left' /\ Len(Seen(d)) = Len(log[s]) - joined[d]
                BY <1>2, <2>1, <2>3, <4>1, <4>2 DEF Exact
            <4>6. /\ Seen(d)' = Seen(d) /\ at'[d] = at[d] /\ joined'[d] = joined[d]
                  /\ log'[at'[d]] = Append(log[s], m) /\ room'[at'[d]] = room[s]
                BY <2>2, <2>3, <3>1, <4>1
            <4>7. Len(Seen(d)) <= Len(Append(log[s], m)) - joined[d]
                BY <3>2, <4>2, <4>3
            <4>8. d \in room[s] =>
                    Len(Seen(d)) = Len(Append(log[s], m)) - joined[d] - (IF d \in left' THEN 1 ELSE 0)
                BY <3>2, <4>2, <4>5
            <4> QED  BY <4>4, <4>6, <4>7, <4>8 DEF Exact
        <3> QED  BY <2>2, <3>3, <3>4
    <2>4. CASE at[d] # s
        <3>1. d \notin room[s] /\ d \notin left'
            BY <1>1, <1>2, <2>1, <2>4 DEF Member
        <3>2. log'[at[d]] = log[at[d]]
            BY <1>1, <1>2, <2>1, <2>4 DEF IInv, TypeOK
        <3> QED  BY <1>2, <2>1, <3>1, <3>2, Untouched
    <2> QED  BY <2>3, <2>4
<1> QED  BY <1>4, <1>5, <1>6 DEF IInv, Sockets

\* The offer finds room in the channel.
LEMMA OfferTakenStep ==
  ASSUME IInv, NEW c \in Clients, Offer(c), Len(send[c]) < SendCap  PROVE IInv'
<1>1. /\ c \in left /\ left' = left \ {c} /\ send' = [send EXCEPT ![c] = Append(send[c], Current(c))]
      /\ UNCHANGED <<room, broadcast, at, reader, text, writer, conn, closes, posted, log,
                     joined, got>>
    BY DEF Offer, seenVars
<1>2. /\ send[c] \in Seq(Messages) /\ got[c] \in Seq(Messages) /\ Seen(c) \in Seq(Messages)
      /\ log[at[c]] \in Seq(Messages) /\ Len(log[at[c]]) \in Nat /\ joined[c] \in Nat
      /\ Len(Seen(c)) \in Nat /\ at[c] \in Streams
    BY SeenTyped DEF IInv
<1>3. Member(c) /\ Fresh(c) /\ Exact(c)
    BY DEF IInv, Sockets
<1>4. Current(c) \in Messages
    <2>1. Len(log[at[c]]) \in 1..Len(log[at[c]])
        BY <1>1, <1>2, <1>3, EmptySeq DEF Member
    <2> QED  BY <1>2, <2>1, LenProperties DEF Current
<1>5. Append(send[c], Current(c)) \in Seq(Messages)
      /\ Len(Append(send[c], Current(c))) = Len(send[c]) + 1
    BY <1>2, <1>4, AppendProperties
<1>6. TypeOK'
    <2>1. send' \in [Clients -> Seq(Messages)]
        BY <1>1, <1>5 DEF IInv, TypeOK
    <2>2. \A d \in Clients : Len(send'[d]) <= SendCap
        <3>1. Len(send[c]) + 1 <= SendCap
            BY <1>2, LenProperties, ChatAssumptions
        <3> QED  BY <1>1, <1>5, <3>1 DEF IInv, TypeOK
    <2> QED  BY <1>1, <2>1, <2>2 DEF IInv, TypeOK
<1>7. Posting'
    BY <1>1 DEF IInv, Posting
<1>8. Member(c)' /\ Fresh(c)'
    BY <1>1, <1>2, <1>3 DEF Member, Fresh
<1>9. Exact(c)'
    <2> SUFFICES ASSUME writer[c] = "run" PROVE Exact(c)'
        BY <1>1 DEF Exact
    <2>1. c \in room[at[c]] /\ Len(Seen(c)) = Len(log[at[c]]) - joined[c] - 1
        BY <1>1, <1>3 DEF Member, Exact
    <2>2. Seen(c)' = Append(Seen(c), Current(c))
        <3>1. got'[c] = got[c] /\ send'[c] = Append(send[c], Current(c))
            BY <1>1 DEF IInv, TypeOK
        <3>2. got[c] \o Append(send[c], Current(c)) = Append(got[c] \o send[c], Current(c))
            BY <1>2, <1>4, AppendSecond, Zenon
        <3>3. Seen(c)' = got'[c] \o send'[c] /\ Seen(c) = got[c] \o send[c]
            BY DEF Seen
        <3>4. Seen(c)' = got[c] \o Append(send[c], Current(c))
            BY <3>1, <3>3
        <3> QED  BY <3>2, <3>3, <3>4
    <2>3. /\ Len(Seen(c)') = Len(Seen(c)) + 1
          /\ \A i \in 1..Len(Seen(c)) : Seen(c)'[i] = Seen(c)[i]
          /\ Seen(c)'[Len(Seen(c)) + 1] = Current(c)
        BY <1>2, <1>4, <2>2, AppendProperties
    <2>4. joined[c] + (Len(Seen(c)) + 1) = Len(log[at[c]])
        BY <1>2, <2>1
    <2>5. \A i \in 1..Len(Seen(c)') : Seen(c)'[i] = log[at[c]][joined[c] + i]
        <3> TAKE i \in 1..Len(Seen(c)')
        <3>1. CASE i \in 1..Len(Seen(c))
            BY <1>3, <2>3, <3>1 DEF Exact
        <3>2. CASE i = Len(Seen(c)) + 1
            BY <2>3, <2>4, <3>2 DEF Current
        <3> QED  BY <1>2, <2>3, <3>1, <3>2
    <2> QED  BY <1>1, <1>2, <2>3, <2>4, <2>5 DEF Exact
<1>10. ASSUME NEW d \in Clients  PROVE Member(d)' /\ Fresh(d)' /\ Exact(d)'
    <2>1. CASE d = c
        BY <2>1, <1>8, <1>9
    <2>2. CASE d # c
        BY <2>2, <1>1, Untouched, SeenTyped DEF IInv, Sockets, TypeOK
    <2> QED  BY <2>1, <2>2
<1> QED  BY <1>6, <1>7, <1>10 DEF IInv, Sockets

\* The channel is full and the hub drops the socket.
LEMMA OfferDroppedStep ==
  ASSUME IInv, NEW c \in Clients, Offer(c), ~ (Len(send[c]) < SendCap)  PROVE IInv'
<1>1. /\ c \in left /\ left' = left \ {c}
      /\ closes' = [closes EXCEPT ![c] = closes[c] + 1]
      /\ room' = [room EXCEPT ![at[c]] = room[at[c]] \ {c}]
      /\ UNCHANGED <<broadcast, at, reader, text, writer, conn, send, posted, log, joined, got>>
    BY DEF Offer, CloseSend, seenVars
<1>2. at[c] \in Streams
    BY SeenTyped DEF IInv
<1>3. TypeOK'
    BY <1>1, <1>2 DEF IInv, TypeOK
<1>4. Posting'
    BY <1>1 DEF IInv, Posting
<1>5. ASSUME NEW d \in Clients  PROVE Member(d)' /\ Fresh(d)' /\ Exact(d)'
    <2>1. Member(d) /\ Fresh(d) /\ Exact(d)
        BY DEF IInv, Sockets
    <2>2. CASE d = c
        <3>1. \A s \in Streams : c \notin room'[s]
            BY <1>1, <1>2, <2>1, <2>2 DEF IInv, Member, TypeOK
        <3>2. closes[c] = 0 /\ closes'[c] = 1 /\ reader[c] \in {"read", "post", "leave"}
            BY <1>1, <1>2, <2>1, <2>2 DEF IInv, Member, TypeOK
        <3>3. Member(d)' /\ Fresh(d)'
            BY <1>1, <2>2, <3>1, <3>2 DEF Member, Fresh
        <3>4. Seen(d)' = Seen(d)
            BY <1>1 DEF Seen
        <3>5. Exact(d)'
            BY <1>1, <1>2, <2>1, <2>2, <3>1, <3>4 DEF Exact
        <3> QED  BY <3>3, <3>5
    <2>3. CASE d # c
        <3>1. \A s \in Streams : d \in room'[s] <=> d \in room[s]
            BY <1>1, <1>2, <2>3 DEF IInv, TypeOK
        <3>2. closes'[d] = closes[d]
            BY <1>1, <2>3 DEF IInv, TypeOK
        <3> QED  BY <1>1, <2>1, <2>3, <3>1, <3>2, Untouched, SeenTyped DEF IInv
    <2> QED  BY <2>2, <2>3
<1> QED  BY <1>3, <1>4, <1>5 DEF IInv, Sockets

LEMMA StutterStep ==
  ASSUME IInv, UNCHANGED vars  PROVE IInv'
<1> USE DEF IInv, vars, hubVars, connVars, seenVars
<1>1. TypeOK' /\ Posting'
    BY DEF TypeOK, Posting
<1>2. ASSUME NEW d \in Clients  PROVE Member(d)' /\ Fresh(d)' /\ Exact(d)'
    BY Untouched, SeenTyped DEF Sockets
<1> QED  BY <1>1, <1>2 DEF Sockets

LEMMA NextStep == IInv /\ [Next]_vars => IInv'
<1> SUFFICES ASSUME IInv, [Next]_vars PROVE IInv'
    OBVIOUS
<1>1. ASSUME NEW c \in Clients, Socket(c)  PROVE IInv'
    BY <1>1, HandleWSConnectionStep, ReadMessageStep, ReadErrorStep, DisconnectStep,
       WriteMessageStep, StopWritingStep DEF Socket
<1>2. CASE Hub
    BY <1>2, BroadcastStep, RegisterStep, UnregisterStep, OfferTakenStep, OfferDroppedStep
       DEF Hub
<1> QED
    BY <1>1, <1>2, SendMessageStep, PostStep, StutterStep DEF Next

-----------------------------------------------------------------------------

\* Every reachable state satisfies the invariant.
THEOREM HubInvariant == Spec => []IInv
<1> QED  BY InitHolds, NextStep, PTL DEF Spec

\* Rooms, pumps and channels keep their types, and the channels their capacities.
THEOREM HubTyped == Spec => []TypeOK
<1>1. IInv => TypeOK
    BY DEF IInv
<1> QED  BY <1>1, HubInvariant, PTL

\* No send channel is closed twice or sent to after it was closed.
THEOREM HubNeverPanics == Spec => []NoPanic
<1>1. ASSUME IInv  PROVE NoPanic
    <2>1. \A c \in Clients : Member(c) /\ at[c] \in Streams
        BY <1>1, SeenTyped DEF IInv, Sockets
    <2> QED  BY <2>1 DEF Member, NoPanic
<1> QED  BY <1>1, HubInvariant, PTL

\* A socket sees its room's messages in order and without a gap.
THEOREM DeliveryUnbroken == Spec => []Unbroken
<1>1. ASSUME IInv  PROVE Unbroken
    <2> SUFFICES ASSUME NEW c \in Clients, writer[c] = "run"
                 PROVE  /\ Len(Seen(c)) <= Len(log[at[c]]) - joined[c]
                        /\ \A i \in 1..Len(Seen(c)) : Seen(c)[i] = log[at[c]][joined[c] + i]
                        /\ c \in room[at[c]] \ left => Len(Seen(c)) = Len(log[at[c]]) - joined[c]
        BY DEF Unbroken, Seen
    <2>1. Exact(c)
        BY <1>1 DEF IInv, Sockets
    <2>2. Len(log[at[c]]) \in Nat /\ joined[c] \in Nat
        BY <1>1, SeenTyped DEF IInv
    <2> QED  BY <2>1, <2>2 DEF Exact
<1> QED  BY <1>1, HubInvariant, PTL

-----------------------------------------------------------------------------
(* The chat is a LiveRoom *)

\* Before it is opened a connection is not closed, and a read pump leaves a closed one.
Line ==
  \A c \in Clients :
    /\ reader[c] = "none" => conn[c] = "none"
    /\ reader[c] = "leave" => conn[c] = "closed"

\* A message is in one place only on its way to the hub.
Distinct ==
  /\ \A a, b \in Authors : reader[a] = "post" /\ reader[b] = "post" /\ text[a] = text[b] => a = b
  /\ \A a \in Authors : reader[a] = "post" => text[a] <= posted
  /\ \A i \in DOMAIN broadcast : broadcast[i][2] <= posted
  /\ \A i, j \in DOMAIN broadcast : broadcast[i][2] = broadcast[j][2] => i = j
  /\ \A a \in Authors, i \in DOMAIN broadcast : reader[a] = "post" => text[a] # broadcast[i][2]

FeedInv == Line /\ Distinct

LEMMA QueueTyped ==
  ASSUME TypeOK
  PROVE  /\ broadcast \in Seq(Streams \X Messages) /\ Len(broadcast) \in Nat /\ DOMAIN broadcast = 1..Len(broadcast)
         /\ \A i \in DOMAIN broadcast : broadcast[i] \in Streams \X Messages
         /\ posted \in Nat /\ \A a \in Authors : text[a] \in Nat /\ at[a] \in Streams
<1>1. broadcast \in Seq(Streams \X Messages)
    BY DEF TypeOK
<1>2. Len(broadcast) \in Nat /\ DOMAIN broadcast = 1..Len(broadcast)
      /\ \A i \in DOMAIN broadcast : broadcast[i] \in Streams \X Messages
    BY <1>1, LenProperties, ElementOfSeq
<1>3. posted \in Nat /\ \A a \in Authors : text[a] \in Nat /\ at[a] \in Streams
    BY ChatAssumptions DEF TypeOK
<1> QED  BY <1>1, <1>2, <1>3

LEMMA LineStep == ASSUME IInv, Line, [Next]_vars PROVE Line'
<1> USE DEF hubVars, seenVars, connVars
<1>1. reader \in [Authors -> {"none", "register", "read", "post", "leave", "done"}] /\ Clients \subseteq Authors
      /\ conn \in [Clients -> {"none", "open", "closed"}]
    BY DEF IInv, TypeOK, Authors
<1>2. ASSUME NEW c \in Clients, Socket(c) PROVE Line'
  <2>1. \A d \in Clients \ {c} : reader'[d] = reader[d] /\ conn'[d] = conn[d]
      BY <1>1, <1>2 DEF Socket, HandleWSConnection, ReadMessage, ReadError, Disconnect, WriteMessage, StopWriting
  <2>2. /\ reader'[c] = "none" => reader[c] = "none" /\ conn'[c] = conn[c]
        /\ reader'[c] = "leave" => conn'[c] = "closed"
    <3>1. /\ reader[c] = "none" => conn[c] = "none" /\ writer[c] = "none"
          /\ reader[c] = "leave" => conn[c] = "closed"
        BY DEF Line, IInv, Sockets, Fresh
    <3>2. CASE HandleWSConnection(c) \/ ReadMessage(c) \/ ReadError(c)
        BY <1>1, <3>2 DEF HandleWSConnection, ReadMessage, ReadError
    <3>3. CASE Disconnect(c) \/ WriteMessage(c)
        BY <1>1, <3>1, <3>3 DEF Disconnect, WriteMessage
    <3>4. CASE StopWriting(c)
        BY <1>1, <3>1, <3>4 DEF StopWriting
    <3> QED  BY <1>2, <3>2, <3>3, <3>4 DEF Socket
  <2> QED  BY <2>1, <2>2 DEF Line
<1>3. CASE Hub
    BY <1>1, <1>3 DEF Line, Hub, Broadcast, Register, Unregister, Offer
<1>4. ASSUME NEW a \in Authors, SendMessage(a) \/ Post(a) PROVE Line'
    BY <1>1, <1>4 DEF Line, SendMessage, Post
<1>5. CASE UNCHANGED vars
    BY <1>5 DEF Line, vars
<1> QED  BY <1>2, <1>3, <1>4, <1>5 DEF Next, Authors

\* A new message is nowhere yet.
LEMMA SubmitKeepsDistinct ==
  ASSUME TypeOK, Distinct, NEW a \in Authors, reader' = [reader EXCEPT ![a] = "post"],
         text' = [text EXCEPT ![a] = posted + 1], posted' = posted + 1, broadcast' = broadcast
  PROVE  Distinct'
<1>1. \A b \in Authors : /\ reader'[b] = IF b = a THEN "post" ELSE reader[b]
                         /\ text'[b] = IF b = a THEN posted + 1 ELSE text[b]
    BY DEF TypeOK
<1>2. \A i \in DOMAIN broadcast : broadcast[i][2] \in Nat
    BY QueueTyped DEF Messages
<1> QED  BY <1>1, <1>2, QueueTyped DEF Distinct

LEMMA PostKeepsDistinct ==
  ASSUME TypeOK, Distinct, NEW a \in Authors, Post(a)
  PROVE  Distinct'
<1> DEFINE n == Len(broadcast) + 1
<1>1. /\ DOMAIN broadcast' = DOMAIN broadcast \cup {n} /\ n \notin DOMAIN broadcast
      /\ broadcast'[n] = <<at[a], text[a]>> /\ \A i \in DOMAIN broadcast : broadcast'[i] = broadcast[i]
  <2>1. Append(broadcast, <<at[a], text[a]>>) = broadcast'
      BY DEF Post
  <2> QED  BY <2>1, QueueTyped
<1>2. \A b \in Authors : reader'[b] = "post" => b # a /\ reader[b] = "post" /\ text'[b] = text[b]
    BY DEF Post, TypeOK
<1>3. reader[a] = "post" /\ posted' = posted
    BY DEF Post, seenVars
<1>4. broadcast'[n][2] = text[a]
    BY <1>1
<1> HIDE DEF n
<1> QED  BY <1>1, <1>2, <1>3, <1>4 DEF Distinct

LEMMA BroadcastKeepsDistinct ==
  ASSUME TypeOK, Distinct, Broadcast
  PROVE  Distinct'
<1>1. \A i \in DOMAIN broadcast' : i + 1 \in DOMAIN broadcast /\ i \in Nat /\ broadcast'[i] = broadcast[i + 1]
  <2>1. broadcast' = Tail(broadcast) /\ broadcast # <<>>
      BY DEF Broadcast
  <2> QED  BY <2>1, QueueTyped
<1>2. UNCHANGED <<reader, text, posted>>
    BY DEF Broadcast, connVars
<1> QED  BY <1>1, <1>2 DEF Distinct

LEMMA DistinctStep == ASSUME TypeOK, Distinct, [Next]_vars PROVE Distinct'
<1> USE DEF hubVars, seenVars
<1>1. reader \in [Authors -> {"none", "register", "read", "post", "leave", "done"}] /\ Clients \subseteq Authors
      /\ Posts \subseteq Authors
    BY DEF TypeOK, Authors
<1>2. ASSUME UNCHANGED <<text, posted, broadcast>>, \A b \in Authors : reader'[b] = "post" => reader[b] = "post"
      PROVE  Distinct'
    BY <1>2 DEF Distinct
<1>3. ASSUME NEW c \in Clients, Socket(c), ~ ReadMessage(c) PROVE Distinct'
    BY <1>1, <1>2, <1>3 DEF Socket, HandleWSConnection, ReadError, Disconnect, WriteMessage, StopWriting
<1>4. ASSUME NEW c \in Clients, Register(c) \/ Unregister(c) \/ Offer(c) PROVE Distinct'
    BY <1>1, <1>2, <1>4 DEF Register, Unregister, Offer
<1>5. ASSUME NEW a \in Authors, ReadMessage(a) \/ SendMessage(a) PROVE Distinct'
    BY <1>5, SubmitKeepsDistinct DEF ReadMessage, SendMessage
<1>6. CASE UNCHANGED vars
    BY <1>2, <1>6 DEF vars, connVars
<1> QED  BY <1>1, <1>3, <1>4, <1>5, <1>6, PostKeepsDistinct, BroadcastKeepsDistinct DEF Next, Hub

-----------------------------------------------------------------------------
(* Steps of LiveRoom *)

\* A step that one socket takes, or that is taken with it.
LEMMA OneListener ==
  ASSUME NEW c \in Clients, at' = at,
         \A d \in Clients \ {c} : PhaseOf(d)' = PhaseOf(d) /\ DueOf(d)' = DueOf(d) /\ conn'[d] = conn[d]
  PROVE  /\ Phase' = [Phase EXCEPT ![c] = PhaseOf(c)'] /\ Due' = [Due EXCEPT ![c] = DueOf(c)']
         /\ Lost' = [Lost EXCEPT ![c] = (conn'[c] = "closed")] /\ Home' = Home
         /\ Phase[c] = PhaseOf(c) /\ Due[c] = DueOf(c) /\ Lost[c] = (conn[c] = "closed")
BY DEF Phase, Due, Lost, Home

\* A socket of which nothing changes that is seen of it.
LEMMA Unseen ==
  ASSUME NEW d \in Clients, at' = at, log' = log, writer'[d] = writer[d], send'[d] = send[d],
         d \in room'[at[d]] <=> d \in room[at[d]], d \in left' <=> d \in left
  PROVE  PhaseOf(d)' = PhaseOf(d) /\ DueOf(d)' = DueOf(d)
BY DEF PhaseOf, DueOf, Current

LEMMA NobodyConcerned ==
  ASSUME at' = at, \A d \in Clients : PhaseOf(d)' = PhaseOf(d) /\ DueOf(d)' = DueOf(d)
                                      /\ (conn'[d] = "closed" <=> conn[d] = "closed")
  PROVE  UNCHANGED <<Home, Phase, Lost, Due>>
BY DEF Phase, Due, Lost, Home

LEMMA PendingKept ==
  ASSUME UNCHANGED <<text, broadcast, at>>, \A b \in Authors : reader'[b] = "post" <=> reader[b] = "post"
  PROVE  Pending' = Pending
BY DEF Pending

LEMMA SubmitRefined ==
  ASSUME IInv, NEW a \in Authors, ReadMessage(a) \/ SendMessage(a)
  PROVE  Feed!Submit(at[a])
<1>1. /\ reader' = [reader EXCEPT ![a] = "post"] /\ text' = [text EXCEPT ![a] = posted + 1] /\ reader[a] # "post"
      /\ posted' = posted + 1
      /\ UNCHANGED <<hubVars, at, writer, conn, send, closes, log, joined, got>>
    BY DEF ReadMessage, SendMessage
<1>2. \A b \in Authors : /\ reader'[b] = IF b = a THEN "post" ELSE reader[b]
                         /\ text'[b] = IF b = a THEN posted + 1 ELSE text[b]
    BY <1>1 DEF IInv, TypeOK
<1>3. Pending' = Pending \cup {<<at[a], posted + 1>>}
    BY <1>1, <1>2 DEF Pending, hubVars
<1>4. UNCHANGED <<Home, Phase, Lost, Due, got>>
    BY <1>1, Unseen, NobodyConcerned DEF hubVars
<1> QED  BY <1>1, <1>3, <1>4 DEF Feed!Submit

LEMMA PostRefined ==
  ASSUME IInv, NEW a \in Authors, Post(a)
  PROVE  UNCHANGED <<posted, Pending, Home, Phase, Lost, Due, got>>
<1> DEFINE n == Len(broadcast) + 1
<1>1. /\ DOMAIN broadcast' = DOMAIN broadcast \cup {n}
      /\ broadcast'[n] = <<at[a], text[a]>> /\ \A i \in DOMAIN broadcast : broadcast'[i] = broadcast[i]
  <2>1. Append(broadcast, <<at[a], text[a]>>) = broadcast'
      BY DEF Post
  <2> QED  BY <2>1, QueueTyped DEF IInv
<1>2. /\ \A b \in Authors : reader'[b] = "post" <=> b # a /\ reader[b] = "post"
      /\ \A b \in Authors \ {a} : text'[b] = text[b]
      /\ reader[a] = "post" /\ at' = at
    BY DEF Post, IInv, TypeOK
<1> HIDE DEF n
<1>3. Pending' = Pending
  <2>1. {broadcast'[i] : i \in DOMAIN broadcast'} = {broadcast[i] : i \in DOMAIN broadcast} \cup {<<at[a], text[a]>>}
      BY <1>1
  <2>2. {<<at[b], text[b]>> : b \in {d \in Authors : reader[d] = "post"}}
        = {<<at'[b], text'[b]>> : b \in {d \in Authors : reader'[d] = "post"}} \cup {<<at[a], text[a]>>}
      BY <1>2
  <2> QED  BY <2>1, <2>2 DEF Pending
<1>4. UNCHANGED <<Home, Phase, Lost, Due>>
    BY Unseen, NobodyConcerned DEF Post, seenVars
<1> QED  BY <1>3, <1>4 DEF Post, seenVars

LEMMA BroadcastRefined ==
  ASSUME IInv, Distinct, Broadcast
  PROVE  \E r \in Streams : Feed!Say(r)
<1> DEFINE line == Head(broadcast)
           s == line[1]
           m == line[2]
<1>1. /\ left = {} /\ left' = room[s] /\ log' = [log EXCEPT ![s] = Append(log[s], m)]
      /\ broadcast' = Tail(broadcast) /\ broadcast # <<>>
      /\ UNCHANGED <<room, at, reader, text, writer, conn, send, posted, got>>
    BY DEF Broadcast, connVars
<1>2. line \in Streams \X Messages /\ line = broadcast[1] /\ 1 \in DOMAIN broadcast
    BY <1>1, QueueTyped DEF IInv
<1>3. /\ \A i \in DOMAIN broadcast' : i + 1 \in DOMAIN broadcast /\ i + 1 # 1 /\ broadcast'[i] = broadcast[i + 1]
      /\ \A i \in DOMAIN broadcast \ {1} : i - 1 \in DOMAIN broadcast' /\ broadcast'[i - 1] = broadcast[i]
    BY <1>1, QueueTyped DEF IInv
<1> HIDE DEF line
<1>4. Pending' = Pending \ {line}
  <2>1. {broadcast'[i] : i \in DOMAIN broadcast'} = {broadcast[i] : i \in DOMAIN broadcast \ {1}}
      BY <1>3
  <2>2. \A i \in DOMAIN broadcast \ {1} : broadcast[i] # line
      BY <1>2 DEF Distinct
  <2>3. \A a \in Authors : reader[a] = "post" => <<at[a], text[a]>> # line
      BY <1>2 DEF Distinct
  <2> QED  BY <1>1, <1>2, <2>1, <2>2, <2>3 DEF Pending
<1>5. line \in Pending
    BY <1>2 DEF Pending
<1>6. ASSUME NEW c \in Clients
      PROVE  /\ PhaseOf(c)' = PhaseOf(c)
             /\ DueOf(c)' = IF PhaseOf(c) = "in" /\ at[c] = s THEN Append(DueOf(c), m) ELSE DueOf(c)
  <2>1. PhaseOf(c)' = PhaseOf(c)
      BY <1>1 DEF PhaseOf
  <2>2. c \in left' <=> at[c] = s /\ c \in room[at[c]]
      BY <1>1, <1>2 DEF IInv, Sockets, Member
  <2>3. at[c] = s => Current(c)' = m
    <3>1. log[s] \in Seq(Messages) /\ s \in Streams /\ m \in Messages
        BY <1>2 DEF IInv, TypeOK
    <3>2. log'[s] = Append(log[s], m)
        BY <1>1, <3>1 DEF IInv, TypeOK
    <3>3. Append(log[s], m)[Len(Append(log[s], m))] = m
        BY <3>1, AppendProperties
    <3> QED  BY <1>1, <3>2, <3>3 DEF Current
  <2>4. CASE writer[c] = "run"
      BY <1>1, <2>2, <2>3, <2>4 DEF DueOf, PhaseOf
  <2>5. CASE writer[c] # "run"
      BY <1>1, <2>5 DEF DueOf, PhaseOf
  <2> QED  BY <2>1, <2>4, <2>5
<1>7. /\ Phase' = Phase /\ Home' = Home /\ Lost' = Lost
      /\ Due' = [c \in Clients |-> IF Phase[c] = "in" /\ Home[c] = s THEN Append(Due[c], m) ELSE Due[c]]
    BY <1>1, <1>6 DEF Phase, Due, Lost, Home
<1> QED  BY <1>1, <1>2, <1>4, <1>5, <1>7 DEF Feed!Say

LEMMA EnterRefined ==
  ASSUME IInv, NEW c \in Clients, Register(c)
  PROVE  Feed!Enter(c)
<1>1. /\ left = {} /\ at' = at /\ log' = log /\ send' = send /\ conn' = conn
      /\ writer'[c] = "run" /\ c \in room'[at[c]]
      /\ \A d \in Clients \ {c} : writer'[d] = writer[d] /\ (d \in room'[at[d]] <=> d \in room[at[d]])
      /\ UNCHANGED <<left, posted, got>>
    BY SeenTyped DEF Register, IInv, TypeOK
<1>2. writer[c] = "none" /\ send[c] = <<>>
    BY DEF Register, IInv, Sockets, Fresh
<1>3. \A d \in Clients \ {c} : PhaseOf(d)' = PhaseOf(d) /\ DueOf(d)' = DueOf(d)
    BY <1>1, Unseen
<1>4. PhaseOf(c) = "new" /\ PhaseOf(c)' = "in" /\ DueOf(c) = <<>> /\ DueOf(c)' = <<>>
    BY <1>1, <1>2 DEF PhaseOf, DueOf
<1>5. /\ Phase' = [Phase EXCEPT ![c] = "in"] /\ Due' = [Due EXCEPT ![c] = Due[c]] /\ Lost' = Lost /\ Home' = Home
      /\ Phase[c] = "new"
  <2>1. Lost' = Lost
      BY <1>1 DEF Lost
  <2> QED  BY <1>1, <1>3, <1>4, <2>1, OneListener
<1>6. Due' = Due
    BY <1>5 DEF Due
<1>7. Pending' = Pending
    BY PendingKept DEF Register, IInv, TypeOK, Authors
<1> QED  BY <1>1, <1>5, <1>6, <1>7 DEF Feed!Enter

\* What is left of a channel and the message on offer when the pump takes one out.
LEMMA HeadTaken ==
  ASSUME NEW S, NEW q \in Seq(S), q # <<>>, NEW m \in S
  PROVE  Append(q, m) # <<>> /\ Head(Append(q, m)) = Head(q) /\ Tail(Append(q, m)) = Append(Tail(q), m)
<1>1. q = <<Head(q)>> \o Tail(q) /\ Head(q) \in S /\ Tail(q) \in Seq(S)
    BY HeadTailProperties
<1>2. Append(q, m) \in Seq(S) /\ Append(Tail(q), m) \in Seq(S) /\ Tail(Append(q, m)) \in Seq(S)
    BY <1>1
<1>3. Len(Tail(Append(q, m))) = Len(Append(Tail(q), m))
    BY <1>1
<1>4. \A i \in 1..Len(Tail(Append(q, m))) : Tail(Append(q, m))[i] = Append(Tail(q), m)[i]
  <2>1. Len(q) \in Nat /\ Len(q) > 0 /\ Len(Tail(q)) = Len(q) - 1 /\ Len(Tail(Append(q, m))) = Len(q)
      BY <1>1
  <2>2. ASSUME NEW i \in 1..Len(q) PROVE Tail(Append(q, m))[i] = Append(Tail(q), m)[i]
    <3>1. Tail(Append(q, m))[i] = Append(q, m)[i + 1]
        BY <2>1
    <3>2. CASE i < Len(q)
      <4>1. i + 1 \in 1..Len(q) /\ i \in 1..Len(Tail(q))
          BY <2>1, <3>2
      <4>2. Append(q, m)[i + 1] = q[i + 1] /\ Append(Tail(q), m)[i] = Tail(q)[i] /\ Tail(q)[i] = q[i + 1]
          BY <1>1, <4>1, AppendProperties, HeadTailProperties
      <4> QED  BY <3>1, <4>2
    <3>3. CASE i = Len(q)
        BY <1>1, <2>1, <3>1, <3>3
    <3>4. \A n \in Nat : \A k \in 1..n : k < n \/ k = n
        OBVIOUS
    <3> QED  BY <2>1, <3>2, <3>3, <3>4, Zenon
  <2> QED  BY <2>1, <2>2
<1>5. Tail(Append(q, m)) = Append(Tail(q), m)
    BY <1>2, <1>3, <1>4, SeqEqual
<1> QED  BY <1>5

LEMMA CurrentTyped ==
  ASSUME IInv, NEW c \in Clients, c \in left
  PROVE  Current(c) \in Messages
<1>1. log[at[c]] \in Seq(Messages) /\ log[at[c]] # <<>> /\ Len(log[at[c]]) \in Nat
    BY SeenTyped DEF IInv, Sockets, Member
<1> QED  BY <1>1 DEF Current

LEMMA HearRefined ==
  ASSUME IInv, NEW c \in Clients, WriteMessage(c), conn[c] = "open"
  PROVE  Feed!Hear(c)
<1>1. /\ writer[c] = "run" /\ send[c] # <<>> /\ send' = [send EXCEPT ![c] = Tail(send[c])]
      /\ got' = [got EXCEPT ![c] = Append(got[c], Head(send[c]))]
      /\ UNCHANGED <<hubVars, at, reader, text, writer, conn, posted, log>>
    BY DEF WriteMessage
<1>2. send[c] \in Seq(Messages) /\ send'[c] = Tail(send[c]) /\ \A d \in Clients \ {c} : send'[d] = send[d]
    BY <1>1, SeenTyped DEF IInv, TypeOK
<1>3. DueOf(c) # <<>> /\ Head(DueOf(c)) = Head(send[c]) /\ DueOf(c)' = Tail(DueOf(c))
  <2>1. CASE c \in left
    <3>1. DueOf(c) = Append(send[c], Current(c)) /\ DueOf(c)' = Append(Tail(send[c]), Current(c))
        BY <1>1, <1>2, <2>1 DEF DueOf, Current, hubVars
    <3> QED  BY <1>1, <1>2, <2>1, <3>1, CurrentTyped, HeadTaken
  <2>2. CASE c \notin left
      BY <1>1, <1>2, <2>2 DEF DueOf, hubVars
  <2> QED  BY <2>1, <2>2
<1>4. PhaseOf(c)' = PhaseOf(c) /\ PhaseOf(c) \in {"in", "out"}
    BY <1>1 DEF PhaseOf, hubVars
<1>5. \A d \in Clients \ {c} : PhaseOf(d)' = PhaseOf(d) /\ DueOf(d)' = DueOf(d)
    BY <1>1, <1>2, Unseen DEF hubVars
<1>6. /\ Phase' = [Phase EXCEPT ![c] = Phase[c]] /\ Due' = [Due EXCEPT ![c] = Tail(Due[c])] /\ Home' = Home
      /\ Phase[c] \in {"in", "out"} /\ Due[c] # <<>> /\ Head(Due[c]) = Head(send[c]) /\ Lost' = Lost /\ ~ Lost[c]
  <2>1. Lost' = Lost /\ ~ Lost[c]
      BY <1>1 DEF Lost
  <2> QED  BY <1>1, <1>3, <1>4, <1>5, <2>1, OneListener
<1>7. Phase' = Phase
    BY <1>6 DEF Phase
<1>8. Pending' = Pending
    BY <1>1, PendingKept DEF hubVars
<1> QED  BY <1>1, <1>6, <1>7, <1>8 DEF Feed!Hear

LEMMA LoseRefined ==
  ASSUME IInv, NEW c \in Clients, Disconnect(c)
  PROVE  Feed!Lose(c)
<1>1. \A d \in Clients : PhaseOf(d)' = PhaseOf(d) /\ DueOf(d)' = DueOf(d)
    BY Unseen DEF Disconnect, hubVars, seenVars
<1>2. Phase' = Phase /\ Due' = Due /\ Home' = Home
    BY <1>1 DEF Phase, Due, Home, Disconnect
<1>3. ~ Lost[c] /\ Lost' = [Lost EXCEPT ![c] = TRUE]
    BY DEF Lost, Disconnect, IInv, TypeOK
<1>4. Pending' = Pending
    BY PendingKept DEF Disconnect, hubVars
<1> QED  BY <1>2, <1>3, <1>4 DEF Feed!Lose, Disconnect, seenVars

\* A write pump that ends has lost its connection, or has written what there was to write.
LEMMA LeaveRefined ==
  ASSUME IInv, NEW c \in Clients, (WriteMessage(c) /\ conn[c] # "open") \/ StopWriting(c)
  PROVE  Feed!Leave(c)
<1>1. /\ writer[c] = "run" /\ writer' = [writer EXCEPT ![c] = "done"]
      /\ conn'[c] = "closed" /\ \A d \in Clients \ {c} : conn'[d] = conn[d] /\ send'[d] = send[d]
      /\ conn[c] = "closed" \/ (send[c] = <<>> /\ closes[c] > 0)
      /\ UNCHANGED <<hubVars, at, reader, text, posted, log, got>>
    BY DEF WriteMessage, StopWriting, seenVars, IInv, TypeOK
<1>2. /\ writer'[c] = "done" /\ \A d \in Clients \ {c} : writer'[d] = writer[d]
    BY <1>1 DEF IInv, TypeOK
<1>3. \A d \in Clients \ {c} : PhaseOf(d)' = PhaseOf(d) /\ DueOf(d)' = DueOf(d)
    BY <1>1, <1>2, Unseen DEF hubVars
<1>4. PhaseOf(c) \in {"in", "out"} /\ PhaseOf(c)' = "gone" /\ DueOf(c)' = <<>>
    BY <1>1, <1>2 DEF PhaseOf, DueOf
<1>5. conn[c] = "closed" \/ (PhaseOf(c) = "out" /\ DueOf(c) = <<>>)
  <2>1. closes[c] > 0 => c \notin room[at[c]] /\ c \notin left
      BY SeenTyped DEF IInv, Sockets, Member
  <2> QED  BY <1>1, <2>1 DEF PhaseOf, DueOf
<1>6. /\ Phase' = [Phase EXCEPT ![c] = "gone"] /\ Due' = [Due EXCEPT ![c] = <<>>] /\ Home' = Home
      /\ Lost' = [Lost EXCEPT ![c] = TRUE] /\ Phase[c] \in {"in", "out"}
      /\ Lost[c] \/ (Phase[c] = "out" /\ Due[c] = <<>>)
    BY <1>1, <1>3, <1>4, <1>5, OneListener
<1>7. Pending' = Pending
    BY <1>1, PendingKept DEF hubVars
<1> QED  BY <1>1, <1>6, <1>7 DEF Feed!Leave

\* The hub lets a socket go, of its own accord or because the read pump leaves.
LEMMA PutOutRefined ==
  ASSUME IInv, NEW c \in Clients, at' = at, log' = log, c \in room[at[c]],
         room' = [room EXCEPT ![at[c]] = room[at[c]] \ {c}], left' = left \ {c},
         UNCHANGED <<writer, send, posted, got, Pending>>, Lost' = Lost,
         (conn[c] = "closed" /\ c \notin left) \/ (c \in left /\ ~ (Len(send[c]) < SendCap))
  PROVE  Feed!PutOut(c) \/ UNCHANGED <<posted, Pending, Home, Phase, Lost, Due, got>>
<1>1. at[c] \in Streams /\ send[c] \in Seq(Messages) /\ Len(send[c]) \in Nat
    BY SeenTyped, LenProperties DEF IInv
<1>2. /\ c \notin room'[at[c]] /\ c \notin left'
      /\ \A d \in Clients \ {c} : (d \in room'[at[d]] <=> d \in room[at[d]]) /\ (d \in left' <=> d \in left)
    BY <1>1 DEF IInv, TypeOK
<1>3. \A d \in Clients \ {c} : PhaseOf(d)' = PhaseOf(d) /\ DueOf(d)' = DueOf(d)
    BY <1>2, Unseen
<1>4. CASE writer[c] # "run"
  <2>1. PhaseOf(c)' = PhaseOf(c) /\ DueOf(c)' = DueOf(c)
      BY <1>4 DEF PhaseOf, DueOf
  <2>2. \A d \in Clients : PhaseOf(d)' = PhaseOf(d) /\ DueOf(d)' = DueOf(d)
      BY <1>3, <2>1
  <2>3. Phase' = Phase /\ Due' = Due /\ Home' = Home
      BY <2>2 DEF Phase, Due, Home
  <2> QED  BY <2>3
<1>5. CASE writer[c] = "run"
  <2>1. PhaseOf(c) = "in" /\ PhaseOf(c)' = "out" /\ DueOf(c)' = send[c]
      BY <1>2, <1>5 DEF PhaseOf, DueOf
  <2>2. /\ Phase' = [Phase EXCEPT ![c] = "out"] /\ Due' = [Due EXCEPT ![c] = send[c]] /\ Home' = Home
        /\ Phase[c] = "in" /\ Due[c] = DueOf(c) /\ Lost[c] = (conn[c] = "closed")
    <3>1. /\ Phase' = [d \in Clients |-> PhaseOf(d)'] /\ Due' = [d \in Clients |-> DueOf(d)'] /\ Home' = Home
          /\ Phase = [d \in Clients |-> PhaseOf(d)] /\ Due = [d \in Clients |-> DueOf(d)]
          /\ Lost[c] = (conn[c] = "closed")
        BY DEF Phase, Due, Lost, Home
    <3> QED  BY <1>3, <2>1, <3>1
  <2>3. CASE conn[c] = "closed" /\ c \notin left
    <3>1. Due' = Due
      <4>1. send[c] = Due[c]
          BY <1>5, <2>2, <2>3 DEF DueOf
      <4> QED  BY <2>2, <4>1 DEF Due
    <3> QED  BY <2>2, <2>3, <3>1 DEF Feed!PutOut
  <2>4. CASE c \in left /\ ~ (Len(send[c]) < SendCap)
    <3>1. Due[c] = Append(send[c], Current(c))
        BY <1>5, <2>2, <2>4 DEF DueOf
    <3>2. Current(c) \in Messages
        BY <2>4, CurrentTyped
    <3>3. Len(Due[c]) > SendCap
        BY <1>1, <2>4, <3>1, <3>2, ChatAssumptions
    <3>4. SubSeq(Due[c], 1, Len(Due[c]) - 1) = send[c]
      <4>1. Len(Append(send[c], Current(c))) - 1 = Len(send[c])
          BY <1>1, <3>2
      <4>2. SubSeq(Append(send[c], Current(c)), 1, Len(send[c])) = send[c]
        <5>1. Append(send[c], Current(c)) = send[c] \o <<Current(c)>>
            BY <1>1, <3>2, AppendIsConcat
        <5> QED  BY <1>1, <3>2, <5>1
      <4> QED  BY <3>1, <4>1, <4>2
    <3> QED  BY <2>2, <3>3, <3>4 DEF Feed!PutOut
  <2> QED  BY <2>3, <2>4
<1> QED  BY <1>4, <1>5

LEMMA UnregisterRefined ==
  ASSUME IInv, Line, NEW c \in Clients, Unregister(c)
  PROVE  Feed!PutOut(c) \/ UNCHANGED <<posted, Pending, Home, Phase, Lost, Due, got>>
<1>1. conn[c] = "closed" /\ left = {} /\ left' = {}
    BY DEF Unregister, Line
<1>2. Lost' = Lost /\ Pending' = Pending
  <2>1. Lost' = Lost
      BY <1>1 DEF Unregister, Lost, IInv, TypeOK
  <2> QED  BY <2>1, PendingKept DEF Unregister, IInv, TypeOK, Authors
<1>3. UNCHANGED <<at, log, writer, send, posted, got>>
    BY DEF Unregister, seenVars
<1>4. CASE c \in room[at[c]]
  <2>1. room' = [room EXCEPT ![at[c]] = room[at[c]] \ {c}] /\ left' = left \ {c}
      BY <1>1, <1>4 DEF Unregister
  <2> QED  BY <1>1, <1>2, <1>3, <1>4, <2>1, PutOutRefined
<1>5. CASE c \notin room[at[c]]
  <2>1. room' = room
      BY <1>5 DEF Unregister
  <2>2. \A d \in Clients : PhaseOf(d)' = PhaseOf(d) /\ DueOf(d)' = DueOf(d)
      BY <1>1, <1>3, <2>1, Unseen
  <2>3. Phase' = Phase /\ Due' = Due /\ Home' = Home
      BY <1>3, <2>2 DEF Phase, Due, Home
  <2> QED  BY <1>2, <1>3, <2>3
<1> QED  BY <1>4, <1>5

LEMMA OfferRefined ==
  ASSUME IInv, NEW c \in Clients, Offer(c)
  PROVE  Feed!PutOut(c) \/ UNCHANGED <<posted, Pending, Home, Phase, Lost, Due, got>>
<1>1. c \in left /\ left' = left \ {c} /\ UNCHANGED <<broadcast, at, reader, text, writer, conn, posted, log, got>>
    BY DEF Offer, seenVars
<1>2. Lost' = Lost /\ Pending' = Pending /\ Home' = Home
    BY <1>1, PendingKept DEF Lost, Home
<1>3. CASE Len(send[c]) < SendCap
  <2>1. send' = [send EXCEPT ![c] = Append(send[c], Current(c))] /\ room' = room
      BY <1>3 DEF Offer
  <2>2. send'[c] = Append(send[c], Current(c)) /\ \A d \in Clients \ {c} : send'[d] = send[d]
      BY <2>1 DEF IInv, TypeOK
  <2>3. PhaseOf(c)' = PhaseOf(c) /\ DueOf(c)' = DueOf(c)
      BY <1>1, <2>1, <2>2 DEF PhaseOf, DueOf
  <2>4. \A d \in Clients \ {c} : PhaseOf(d)' = PhaseOf(d) /\ DueOf(d)' = DueOf(d)
      BY <1>1, <2>1, <2>2, Unseen
  <2>5. Phase' = Phase /\ Due' = Due
      BY <2>3, <2>4 DEF Phase, Due
  <2> QED  BY <1>1, <1>2, <2>5
<1>4. CASE ~ (Len(send[c]) < SendCap)
  <2>1. room' = [room EXCEPT ![at[c]] = room[at[c]] \ {c}] /\ send' = send
      BY <1>4 DEF Offer
  <2>2. c \in room[at[c]]
      BY <1>1 DEF IInv, Sockets, Member
  <2> QED  BY <1>1, <1>2, <1>4, <2>1, <2>2, PutOutRefined
<1> QED  BY <1>3, <1>4

\* A socket that is opened, or whose read pump leaves, is not heard of.
LEMMA QuietSocket ==
  ASSUME IInv, Line, NEW c \in Clients, HandleWSConnection(c) \/ ReadError(c)
  PROVE  UNCHANGED <<posted, Pending, Home, Phase, Lost, Due, got>>
<1>1. UNCHANGED <<hubVars, at, text, writer, send, log, posted, got>>
    BY DEF HandleWSConnection, ReadError, seenVars
<1>2. \A d \in Clients : conn'[d] = "closed" <=> conn[d] = "closed"
    BY DEF HandleWSConnection, ReadError, Line, IInv, TypeOK
<1>3. UNCHANGED <<Home, Phase, Lost, Due>>
    BY <1>1, <1>2, Unseen, NobodyConcerned DEF hubVars
<1>4. Pending' = Pending
    BY <1>1, PendingKept DEF HandleWSConnection, ReadError, IInv, TypeOK, Authors, hubVars
<1> QED  BY <1>1, <1>3, <1>4

LEMMA FeedStep ==
  ASSUME IInv, FeedInv, [Next]_vars
  PROVE  [Feed!Next]_<<posted, Pending, Home, Phase, Lost, Due, got>>
<1>1. ASSUME NEW c \in Clients, Socket(c) PROVE [Feed!Next]_<<posted, Pending, Home, Phase, Lost, Due, got>>
  <2>1. CASE HandleWSConnection(c) \/ ReadError(c)
      BY <2>1, QuietSocket DEF FeedInv
  <2>2. CASE ReadMessage(c)
      BY <2>2, SubmitRefined, SeenTyped DEF Feed!Next, IInv, Authors
  <2>3. CASE Disconnect(c)
      BY <2>3, LoseRefined DEF Feed!Next
  <2>4. CASE WriteMessage(c) /\ conn[c] = "open"
      BY <2>4, HearRefined DEF Feed!Next
  <2>5. CASE (WriteMessage(c) /\ conn[c] # "open") \/ StopWriting(c)
      BY <2>5, LeaveRefined DEF Feed!Next
  <2> QED  BY <1>1, <2>1, <2>2, <2>3, <2>4, <2>5 DEF Socket
<1>2. CASE Hub
    BY <1>2, BroadcastRefined, EnterRefined, UnregisterRefined, OfferRefined DEF Hub, FeedInv, Feed!Next
<1>3. ASSUME NEW p \in Posts, SendMessage(p) PROVE Feed!Next
  <2>1. p \in Authors /\ at[p] \in Streams
      BY QueueTyped DEF IInv, Authors
  <2> QED  BY <1>3, <2>1, SubmitRefined DEF Feed!Next
<1>4. CASE UNCHANGED vars
  <2>1. UNCHANGED <<hubVars, connVars, posted, log, got>>
      BY <1>4 DEF vars, seenVars
  <2>2. UNCHANGED <<Home, Phase, Lost, Due>>
      BY <2>1, Unseen, NobodyConcerned DEF hubVars, connVars
  <2>3. Pending' = Pending
      BY <2>1, PendingKept DEF hubVars, connVars
  <2> QED  BY <2>1, <2>2, <2>3
<1> QED  BY <1>1, <1>2, <1>3, <1>4, PostRefined DEF Next

\* For any sockets, posts, streams and capacities, however the hub, the pumps and the posts
\* interleave, the chat is a LiveRoom: what is posted to a stream is delivered at most once and
\* there only, every socket of the stream gets it in the order in which the others do, and only
\* those that are slow or have lost their connection are cut off.
THEOREM ImplementsLiveRoom == Spec => FeedSpec
<1>1. Init => FeedInv
    BY DEF Init, FeedInv, Line, Distinct, Authors
<1>2. IInv /\ FeedInv /\ [Next]_vars => FeedInv'
    BY LineStep, DistinctStep DEF IInv, FeedInv
<1>3. Init => Feed!Init
  <2> SUFFICES ASSUME Init PROVE Feed!Init
      OBVIOUS
  <2>1. posted = 0 /\ Pending = {} /\ Home \in [Clients -> Streams]
      BY DEF Init, Pending, Home, Authors
  <2>2. /\ Phase = [c \in Clients |-> "new"] /\ Due = [c \in Clients |-> <<>>]
        /\ Lost = [c \in Clients |-> FALSE] /\ got = [c \in Clients |-> <<>>]
      BY DEF Init, Phase, PhaseOf, Due, DueOf, Lost
  <2> QED  BY <2>1, <2>2 DEF Feed!Init
<1>4. IInv /\ FeedInv /\ [Next]_vars => [Feed!Next]_<<posted, Pending, Home, Phase, Lost, Due, got>>
    BY FeedStep
<1> QED  BY <1>1, <1>2, <1>3, <1>4, HubInvariant, PTL DEF Spec, FeedSpec, Feed!Spec, Feed!roomVars
=============================================================================
