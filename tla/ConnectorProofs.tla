--------------------------- MODULE ConnectorProofs ---------------------------
(***************************************************************************)
(* For any number of connections, ids, sockets and frames, and any limits  *)
(* of the queues: a session reads its device's frames without a gap, a     *)
(* device reads only its own connection's frames, nobody is left hanging   *)
(* and no unacknowledged pairing stays pending.                            *)
(***************************************************************************)
EXTENDS ConnectorService, FiniteSetTheorems, TLAPS

\* The socket is there while _run reads it; devices are open on it only.
SocketInv ==
    /\ runner = "reading" => socket = gen /\ gen # 0
    /\ runner # "reading" => socket = 0 /\ ~link /\ wire = <<>>
    /\ runner \in {"connecting", "backoff"} => \A i \in Ids : registry[i] = None
    /\ \A c \in Conns : dev[c].at = "open" => link /\ dev[c].sock = gen

\* A registered connection is open and under its own id.
RegistryInv ==
    /\ \A i \in Ids : registry[i] # None =>
          dev[registry[i]].id = i /\ ~conn[registry[i]].closed
    /\ \A c \in Conns : dev[c].at = "none" <=> dev[c].id = None

OnWire(c) == \E p \in 1 .. Len(wire) : wire[p].c = c
OpenOnWire(c) == \E p \in 1 .. Len(wire) : wire[p].c = c /\ wire[p].t = "open"

\* One connection at most is using an id, on either side or on the way.
Busy(c) == dev[c].at = "open" \/ Registered(c) \/ OnWire(c)
IdsInv == \A c, d \in Conns : Busy(c) /\ Busy(d) /\ dev[c].id = dev[d].id => c = d

\* The client knows nothing of a connection before it reads its open.
Unread(c) ==
    /\ phase[c] = "none" /\ ~Registered(c) /\ pend[c] = "none"
    /\ \A p \in 1 .. Len(accepted) : accepted[p] # c
    /\ conn[c] = [closed |-> FALSE, inbound |-> <<>>, waits |-> FALSE, got |-> <<>>, out |-> 0]

UnreadInv ==
    \A c \in Conns :
        /\ dev[c].at = "none" => ~OnWire(c) /\ dev[c].sent = 0 /\ dev[c].rcv = <<>>
        /\ dev[c].at = "none" \/ OpenOnWire(c) => Unread(c)

\* On the wire a connection's open is its first frame and its close its last.
WireInv ==
    \A p \in 1 .. Len(wire) :
        /\ wire[p].t # "bad" => wire[p].c \in Conns
        /\ wire[p].t = "bad" => wire[p].c = None
        /\ wire[p].t = "open" =>
              \A q \in 1 .. Len(wire) : wire[q].c = wire[p].c => q >= p
        /\ wire[p].t = "close" =>
              /\ dev[wire[p].c].at # "open"
              /\ \A q \in 1 .. Len(wire) : wire[q].c = wire[p].c => q <= p

\* The frames a connection read from the socket.
Count(got, queue) == Len(got) + Len(queue)
Taken(c) == Count(conn[c].got, conn[c].inbound)
Expected(c) == Registered(c) \/ OpenOnWire(c)
DataAt(p, c) == wire[p].t = "data" /\ wire[p].c = c

\* The data on the wire is in order, and what is not yet read is there.
DataOK(c) ==
    /\ \A p \in 1 .. Len(wire) : DataAt(p, c) =>
          /\ wire[p].n \in 1 .. dev[c].sent
          /\ Expected(c) => wire[p].n > Taken(c)
    /\ \A p, q \in 1 .. Len(wire) :
          DataAt(p, c) /\ DataAt(q, c) /\ p < q => wire[p].n < wire[q].n
    /\ Expected(c) /\ runner = "reading" =>
          \A k \in Taken(c) + 1 .. dev[c].sent :
              \E p \in 1 .. Len(wire) : DataAt(p, c) /\ wire[p].n = k

DataInv == \A c \in Conns : DataOK(c)

\* What was read of the s frames a device sent: the session got the first of
\* them, the queue holds the next ones, and the sentinel once it is closed.
GapFree(got, queue, isClosed, s) ==
    /\ got = Counting(Len(got)) /\ Len(got) <= s
    /\ \A i \in 1 .. Len(queue) :
          \/ queue[i] = Len(got) + i /\ Len(got) + i <= s
          \/ queue[i] = None /\ i = Len(queue) /\ isClosed

QueueOK(o, s) ==
    /\ GapFree(o.got, o.inbound, o.closed, s)
    /\ o.closed /\ o.waits => o.inbound # <<>>

QueueInv == \A c \in Conns : QueueOK(conn[c], dev[c].sent)

\* A call of send belongs to a session that sends; one at a time is pacing.
SendInv ==
    \A c \in Conns :
        /\ sending[c].at = "pacing" <=> lock = c
        /\ sending[c].at # "idle" =>
              phase[c] \in Sending /\ sending[c].sock # 0 /\ conn[c].out < MaxOut
        /\ sending[c].at = "idle" => sending[c] = Idle

\* A device that is still open has got all that was sent.
DeliveryInv ==
    /\ OnlyOwnFrames
    /\ \A c \in Conns : dev[c].at = "open" => Len(dev[c].rcv) = conn[c].out

\* A connection waits for the accept loop once, before its session exists.
AcceptInv ==
    /\ \A p \in 1 .. Len(accepted) : accepted[p] # None => phase[accepted[p]] = "none"
    /\ \A p, q \in 1 .. Len(accepted) : accepted[p] = accepted[q] /\ accepted[p] # None => p = q

\* Only the session that made a pending record is about to acknowledge it.
PairingInv == \A c \in Conns : pend[c] = "pending" => phase[c] = "ack" \/ shutdown # "no"

ShutdownInv ==
    /\ shutdown \in {"cancelling", "done"} => ~acceptor
    /\ ClosedIsQuiet

\* An open device is announced and served, or its open is on the wire.
ServedInv ==
    \A c \in Conns : dev[c].at = "open" /\ ~OpenOnWire(c) =>
        /\ Registered(c)
        /\ \/ phase[c] \in Live \ {"closing"}
           \/ \E p \in 1 .. Len(accepted) : accepted[p] = c

ConnectorInv ==
    /\ ServiceTypeOK /\ SocketInv /\ RegistryInv /\ IdsInv /\ UnreadInv /\ WireInv /\ DataInv
    /\ QueueInv /\ SendInv /\ DeliveryInv /\ AcceptInv /\ PairingInv /\ ShutdownInv /\ ServedInv

-----------------------------------------------------------------------------
(* The frames of a connection                                              *)

Queued == 1 .. MaxSent \cup {None}

LEMMA Bounds ==
    /\ InboundLimit \in Nat \ {0} /\ AcceptLimit \in Nat \ {0} /\ MaxSockets \in Nat \ {0}
    /\ MaxSent \in Nat \ {0} /\ MaxOut \in Nat \ {0} /\ MaxWire \in Nat \ {0}
    /\ None \notin Conns /\ None \notin Ids /\ None \notin 1 .. MaxSent
BY RelayClientAssumption

\* Closing adds the sentinel at most.
LEMMA SentinelLast ==
    ASSUME NEW got \in Seq(1 .. MaxSent), NEW queue \in Seq(Queued), NEW s \in Nat,
           GapFree(got, queue, FALSE, s)
    PROVE  GapFree(got, queue, TRUE, s) /\ GapFree(got, Append(queue, None), TRUE, s)
<1>1. /\ Len(Append(queue, None)) = Len(queue) + 1 /\ Len(queue) \in Nat
      /\ Append(queue, None)[Len(queue) + 1] = None
      /\ \A i \in 1 .. Len(queue) : Append(queue, None)[i] = queue[i]
  <2>1. None \in Queued
    BY DEF Queued
  <2> HIDE DEF Queued
  <2> QED BY <2>1
<1>2. \A i \in 1 .. Len(queue) + 1 : i \in 1 .. Len(queue) \/ i = Len(queue) + 1
  BY <1>1
<1> QED BY <1>1, <1>2 DEF GapFree

\* What is taken from the queue follows what was got.
LEMMA TakesNext ==
    ASSUME NEW got \in Seq(1 .. MaxSent), NEW queue \in Seq(Queued), NEW s \in Nat, NEW b,
           GapFree(got, queue, b, s), queue # <<>>, Head(queue) # None
    PROVE  /\ Append(got, Head(queue)) \in Seq(1 .. MaxSent) /\ Tail(queue) \in Seq(Queued)
           /\ Len(Tail(queue)) <= Len(queue)
           /\ GapFree(Append(got, Head(queue)), Tail(queue), b, s)
           /\ Count(Append(got, Head(queue)), Tail(queue)) = Count(got, queue)
<1> DEFINE h == Head(queue)
           q == Tail(queue)
           g == Append(got, h)
<1>1. /\ h \in Queued /\ h = queue[1] /\ Len(queue) \in Nat \ {0} /\ Len(got) \in Nat
      /\ q \in Seq(Queued) /\ Len(q) = Len(queue) - 1
      /\ \A i \in 1 .. Len(q) : q[i] = queue[i + 1]
  <2> HIDE DEF Queued
  <2> QED OBVIOUS
<1>2. h \in 1 .. MaxSent
  BY <1>1 DEF Queued
<1>3. h = Len(got) + 1 /\ Len(got) + 1 <= s
  <2>1. 1 \in 1 .. Len(queue)
    BY <1>1
  <2>2. \/ queue[1] = Len(got) + 1 /\ Len(got) + 1 <= s
        \/ queue[1] = None /\ 1 = Len(queue) /\ b
    BY <2>1 DEF GapFree
  <2>3. queue[1] # None
    BY <1>1
  <2> QED BY <1>1, <2>2, <2>3
<1> HIDE DEF h, q
<1>4. g \in Seq(1 .. MaxSent) /\ Len(g) = Len(got) + 1
  BY <1>2
<1>5. g = Counting(Len(g))
  <2>1. got = [i \in 1 .. Len(got) |-> i]
    BY DEF GapFree, Counting
  <2>2. Append(got, h) = [i \in 1 .. Len(got) + 1 |-> i]
    BY <1>1, <1>2, <1>3, <2>1
  <2> QED BY <1>4, <2>2 DEF Counting
<1> HIDE DEF g
<1>6. ASSUME NEW i \in 1 .. Len(q)
      PROVE  \/ q[i] = Len(g) + i /\ Len(g) + i <= s
             \/ q[i] = None /\ i = Len(q) /\ b
  <2>1. i + 1 \in 1 .. Len(queue) /\ q[i] = queue[i + 1]
    BY <1>1
  <2>2. \/ queue[i + 1] = Len(got) + (i + 1) /\ Len(got) + (i + 1) <= s
        \/ queue[i + 1] = None /\ i + 1 = Len(queue) /\ b
    BY <2>1 DEF GapFree
  <2>3. Len(got) + (i + 1) = Len(g) + i /\ (i + 1 = Len(queue) => i = Len(q))
    BY <1>1, <1>4
  <2> QED BY <2>1, <2>2, <2>3
<1>7. GapFree(g, q, b, s)
  BY <1>3, <1>4, <1>5, <1>6 DEF GapFree
<1>8. Count(g, q) = Count(got, queue) /\ Len(q) <= Len(queue)
  BY <1>1, <1>4 DEF Count
<1> QED BY <1>1, <1>4, <1>7, <1>8 DEF g, h, q

\* The next frame may join the queue.
LEMMA FeedsNext ==
    ASSUME NEW got \in Seq(1 .. MaxSent), NEW queue \in Seq(Queued), NEW s \in Nat,
           GapFree(got, queue, FALSE, s), NEW n \in 1 .. MaxSent, n = Count(got, queue) + 1, n <= s
    PROVE  /\ Append(queue, n) \in Seq(Queued) /\ Len(Append(queue, n)) = Len(queue) + 1
           /\ GapFree(got, Append(queue, n), FALSE, s)
           /\ Count(got, Append(queue, n)) = n
<1> DEFINE q == Append(queue, n)
<1>1. /\ q \in Seq(Queued) /\ Len(q) = Len(queue) + 1 /\ q[Len(queue) + 1] = n
      /\ \A i \in 1 .. Len(queue) : q[i] = queue[i]
      /\ Len(queue) \in Nat /\ Len(got) \in Nat
  <2>1. n \in Queued
    BY DEF Queued
  <2> HIDE DEF Queued
  <2> QED BY <2>1
<1> HIDE DEF q
<1>2. n = Len(got) + (Len(queue) + 1)
  BY <1>1 DEF Count
<1>3. \A i \in 1 .. Len(q) : i \in 1 .. Len(queue) \/ i = Len(queue) + 1
  BY <1>1
<1>4. GapFree(got, q, FALSE, s)
  BY <1>1, <1>2, <1>3 DEF GapFree
<1>5. Count(got, q) = n
  BY <1>1, <1>2 DEF Count
<1> QED BY <1>1, <1>4, <1>5 DEF q

\* An open connection has read no more than was sent.
LEMMA ReadWhatWasSent ==
    ASSUME NEW got \in Seq(1 .. MaxSent), NEW queue \in Seq(Queued), NEW s \in Nat,
           GapFree(got, queue, FALSE, s)
    PROVE  Count(got, queue) \in Nat /\ Count(got, queue) <= s
<1>1. Len(got) \in Nat /\ Len(queue) \in Nat
  OBVIOUS
<1>2. CASE Len(queue) = 0
  BY <1>1, <1>2 DEF GapFree, Count
<1>3. CASE Len(queue) > 0
  <2>1. Len(got) + Len(queue) <= s
    BY <1>1, <1>3 DEF GapFree
  <2> QED BY <1>1, <2>1 DEF Count
<1> QED BY <1>1, <1>2, <1>3

\* The device may send more.
LEMMA SentMore ==
    ASSUME NEW got \in Seq(1 .. MaxSent), NEW queue \in Seq(Queued), NEW b,
           NEW s \in Nat, NEW t \in Nat, s <= t, GapFree(got, queue, b, s)
    PROVE  GapFree(got, queue, b, t)
<1>1. Len(got) \in Nat /\ Len(queue) \in Nat
  OBVIOUS
<1> QED BY <1>1 DEF GapFree

-----------------------------------------------------------------------------
(* The connection object and the device                                    *)

ConnRecord == [closed : BOOLEAN, inbound : Seq(1 .. MaxSent \cup {None}),
               waits : BOOLEAN, got : Seq(1 .. MaxSent), out : 0 .. MaxOut]
ConnOK(o) == o \in ConnRecord /\ Len(o.inbound) <= InboundLimit

DevRecord == [at : {"none", "open", "gone"}, id : Ids \cup {None}, sock : 0 .. MaxSockets,
              sent : 0 .. MaxSent, rcv : Seq(Conns \X Nat)]

\* What is in a connection object.
LEMMA ConnFields ==
    ASSUME NEW o, ConnOK(o)
    PROVE  /\ o.closed \in BOOLEAN /\ o.waits \in BOOLEAN /\ o.out \in 0 .. MaxOut
           /\ o.inbound \in Seq(Queued) /\ o.got \in Seq(1 .. MaxSent)
           /\ Len(o.inbound) <= InboundLimit
BY DEF ConnOK, ConnRecord, Queued

\* _mark_closed keeps what was received and wakes a waiting receive.
LEMMA MarkClosedFacts ==
    ASSUME NEW o, ConnOK(o)
    PROVE  /\ ConnOK(MarkClosed(o)) /\ MarkClosed(o).closed
           /\ MarkClosed(o).got = o.got /\ MarkClosed(o).out = o.out
           /\ \A s \in Nat : QueueOK(o, s) => QueueOK(MarkClosed(o), s)
<1>1. CASE o.closed
  <2>1. MarkClosed(o) = o
    BY <1>1 DEF MarkClosed
  <2> QED BY <1>1, <2>1
<1>2. CASE ~o.closed
  <2> DEFINE m == MarkClosed(o)
             q == IF Len(o.inbound) < InboundLimit THEN Append(o.inbound, None) ELSE o.inbound
  <2>1. m = [o EXCEPT !.closed = TRUE, !.inbound = q]
    BY <1>2 DEF MarkClosed
  <2>2. o.inbound \in Seq(Queued) /\ o.got \in Seq(1 .. MaxSent) /\ Len(o.inbound) <= InboundLimit
        /\ o.closed = FALSE
    BY <1>2, ConnFields
  <2>3. /\ q \in Seq(Queued) /\ Len(q) <= InboundLimit /\ q # <<>>
        /\ q \in {o.inbound, Append(o.inbound, None)}
    <3>1. ASSUME NEW x \in Seq(Queued), Len(x) <= InboundLimit
          PROVE  LET y == IF Len(x) < InboundLimit THEN Append(x, None) ELSE x
                 IN  y \in Seq(Queued) /\ Len(y) <= InboundLimit /\ y # <<>>
      <4>1. None \in Queued /\ InboundLimit \in Nat \ {0}
        BY Bounds DEF Queued
      <4> HIDE DEF Queued
      <4> QED BY <3>1, <4>1
    <3> QED BY <2>2, <3>1
  <2> HIDE DEF q
  <2>4. /\ m \in ConnRecord /\ m.closed = TRUE /\ m.inbound = q /\ m.got = o.got /\ m.out = o.out
    BY <2>1, <2>3 DEF ConnOK, ConnRecord, Queued
  <2> HIDE DEF m
  <2>5. ASSUME NEW s \in Nat, QueueOK(o, s) PROVE QueueOK(m, s)
    <3>1. GapFree(o.got, o.inbound, FALSE, s)
      BY <2>2, <2>5 DEF QueueOK
    <3>2. GapFree(o.got, q, TRUE, s)
      BY <2>2, <2>3, <3>1, SentinelLast
    <3> QED BY <2>3, <2>4, <3>2 DEF QueueOK
  <2>6. ConnOK(m)
    BY <2>3, <2>4 DEF ConnOK
  <2> QED BY <2>4, <2>5, <2>6 DEF m
<1> QED BY <1>1, <1>2

\* A call of receive changes only whether the caller is suspended.
LEMMA CallReceiveFacts ==
    ASSUME NEW o, ConnOK(o)
    PROVE  /\ ConnOK(CallReceive(o)) /\ CallReceive(o).closed = o.closed
           /\ CallReceive(o).got = o.got /\ CallReceive(o).inbound = o.inbound
           /\ CallReceive(o).out = o.out
           /\ \A s \in Nat : QueueOK(o, s) => QueueOK(CallReceive(o), s)
<1> DEFINE m == CallReceive(o)
<1>1. /\ m \in ConnRecord /\ m.closed = o.closed /\ m.got = o.got /\ m.out = o.out
      /\ m.inbound = o.inbound /\ (m.waits => ~o.closed)
  BY DEF CallReceive, ConnOK, ConnRecord
<1> HIDE DEF m
<1>2. ConnOK(m)
  BY <1>1 DEF ConnOK
<1>3. ASSUME NEW s \in Nat, QueueOK(o, s) PROVE QueueOK(m, s)
  BY <1>1, <1>3 DEF QueueOK
<1> QED BY <1>1, <1>2, <1>3 DEF m

\* receive moves the head of the queue to what the session got.
LEMMA ReceivedFacts ==
    ASSUME NEW o, ConnOK(o), o.inbound # <<>>, Head(o.inbound) # None, NEW s \in Nat, QueueOK(o, s)
    PROVE  /\ ConnOK(Received(o)) /\ Received(o).closed = o.closed /\ Received(o).out = o.out
           /\ Count(Received(o).got, Received(o).inbound) = Count(o.got, o.inbound)
           /\ QueueOK(Received(o), s)
<1> DEFINE m == Received(o)
           g == Append(o.got, Head(o.inbound))
           q == Tail(o.inbound)
<1>1. o.inbound \in Seq(Queued) /\ o.got \in Seq(1 .. MaxSent) /\ Len(o.inbound) <= InboundLimit
  BY ConnFields
<1>2. GapFree(o.got, o.inbound, o.closed, s)
  BY DEF QueueOK
<1>3. /\ g \in Seq(1 .. MaxSent) /\ q \in Seq(Queued) /\ Len(q) <= Len(o.inbound)
      /\ GapFree(g, q, o.closed, s) /\ Count(g, q) = Count(o.got, o.inbound)
  BY <1>1, <1>2, TakesNext
<1>4. m = [o EXCEPT !.inbound = q, !.got = g, !.waits = FALSE]
  BY DEF Received
<1> HIDE DEF g, q
<1>5. /\ m \in ConnRecord /\ m.closed = o.closed /\ m.out = o.out /\ m.waits = FALSE
      /\ m.inbound = q /\ m.got = g
  BY <1>3, <1>4 DEF ConnOK, ConnRecord, Queued
<1> HIDE DEF m
<1>6. Len(q) <= InboundLimit
  <2>1. Len(q) \in Nat /\ Len(o.inbound) \in Nat /\ InboundLimit \in Nat
    BY <1>1, <1>3, Bounds
  <2> DEFINE a == Len(o.inbound)
             b == Len(q)
  <2>2. a \in Nat /\ b \in Nat /\ b <= a /\ a <= InboundLimit
    BY <1>1, <1>3, <2>1
  <2> HIDE DEF a, b
  <2>3. b <= InboundLimit
    BY <2>1, <2>2
  <2> QED BY <2>3 DEF b
<1> QED BY <1>3, <1>5, <1>6 DEF m, QueueOK, ConnOK

\* _feed puts the next frame into the queue of an open connection.
LEMMA FeedsFacts ==
    ASSUME NEW o, ConnOK(o), Feeds(o), ~o.closed, NEW n \in 1 .. MaxSent, NEW s \in Nat,
           QueueOK(o, s), n = Count(o.got, o.inbound) + 1, n <= s
    PROVE  LET m == [o EXCEPT !.inbound = Append(@, n)]
           IN  /\ ConnOK(m) /\ m.closed = o.closed /\ m.out = o.out /\ m.got = o.got
               /\ QueueOK(m, s) /\ Count(m.got, m.inbound) = n
<1> DEFINE m == [o EXCEPT !.inbound = Append(@, n)]
           q == Append(o.inbound, n)
<1>1. /\ o.inbound \in Seq(Queued) /\ o.got \in Seq(1 .. MaxSent) /\ Len(o.inbound) <= InboundLimit
      /\ o.closed = FALSE
  BY ConnFields
<1>2. GapFree(o.got, o.inbound, FALSE, s)
  BY <1>1 DEF QueueOK
<1>3. /\ q \in Seq(Queued) /\ Len(q) = Len(o.inbound) + 1
      /\ GapFree(o.got, q, FALSE, s) /\ Count(o.got, q) = n
  <2> DEFINE queue == o.inbound
             got == o.got
  <2>1. /\ got \in Seq(1 .. MaxSent) /\ queue \in Seq(Queued) /\ s \in Nat /\ n \in 1 .. MaxSent
        /\ GapFree(got, queue, FALSE, s) /\ n = Count(got, queue) + 1 /\ n <= s
    BY <1>1, <1>2
  <2> HIDE DEF m, queue, got
  <2>2. /\ Append(queue, n) \in Seq(Queued) /\ Len(Append(queue, n)) = Len(queue) + 1
        /\ GapFree(got, Append(queue, n), FALSE, s) /\ Count(got, Append(queue, n)) = n
    BY <2>1, FeedsNext
  <2> QED BY <2>2 DEF queue, got
<1>4. Len(q) <= InboundLimit
  <2> DEFINE a == Len(o.inbound)
  <2>1. a \in Nat /\ a < InboundLimit /\ InboundLimit \in Nat /\ Len(q) = a + 1
    BY <1>1, <1>3, Bounds DEF Feeds
  <2> HIDE DEF a
  <2> QED BY <2>1
<1>5. m = [o EXCEPT !.inbound = q]
  OBVIOUS
<1> HIDE DEF q
<1>6. /\ m \in ConnRecord /\ m.closed = o.closed /\ m.out = o.out /\ m.got = o.got /\ m.inbound = q
  BY <1>3, <1>5 DEF ConnOK, ConnRecord, Queued
<1> HIDE DEF m
<1> QED BY <1>1, <1>3, <1>4, <1>6 DEF m, QueueOK, ConnOK

-----------------------------------------------------------------------------
(* What keeps the parts of the invariant                                   *)

LEMMA Types ==
    ASSUME ConnectorInv
    PROVE  /\ conn \in [Conns -> ConnRecord] /\ dev \in [Conns -> DevRecord]
           /\ \A c \in Conns : ConnOK(conn[c])
           /\ \A c \in Conns : dev[c].at \in {"none", "open", "gone"} /\ dev[c].sent \in 0 .. MaxSent
           /\ \A c \in Conns : dev[c].sent \in Nat
           /\ \A c \in Conns : dev[c].id \in Ids \cup {None} /\ dev[c].sock \in 0 .. MaxSockets
           /\ \A c \in Conns : dev[c].rcv \in Seq(Conns \X Nat)
           /\ wire \in Seq(Frame) /\ Len(wire) \in Nat
           /\ accepted \in Seq(Conns \cup {None}) /\ Len(accepted) \in Nat
<1>1. /\ conn \in [Conns -> ConnRecord] /\ dev \in [Conns -> DevRecord]
      /\ \A c \in Conns : Len(conn[c].inbound) <= InboundLimit
      /\ wire \in Seq(Frame) /\ accepted \in Seq(Conns \cup {None})
  BY DEF ConnectorInv, ServiceTypeOK, TypeOK, ConnRecord, DevRecord
<1>2. \A c \in Conns : ConnOK(conn[c])
  BY <1>1 DEF ConnOK
<1>3. \A c \in Conns : dev[c] \in DevRecord
  BY <1>1
<1>4. \A c \in Conns :
         /\ dev[c].at \in {"none", "open", "gone"} /\ dev[c].sent \in 0 .. MaxSent
         /\ dev[c].id \in Ids \cup {None} /\ dev[c].sock \in 0 .. MaxSockets
         /\ dev[c].rcv \in Seq(Conns \X Nat)
  BY <1>3 DEF DevRecord
<1>5. Len(wire) \in Nat /\ Len(accepted) \in Nat
  BY <1>1
<1>6. \A c \in Conns : dev[c].sent \in Nat
  BY <1>4, Bounds
<1> QED BY <1>1, <1>2, <1>4, <1>5, <1>6

\* How TypeOK is shown for the next state.
LEMMA TypesNext ==
    ASSUME conn' \in [Conns -> ConnRecord], dev' \in [Conns -> DevRecord],
           \A c \in Conns : ConnOK(conn'[c]),
           /\ runner' \in RunnerPhase /\ closed' \in BOOLEAN /\ gen' \in 0 .. MaxSockets
           /\ socket' \in {0, gen'} /\ registry' \in [Ids -> Conns \cup {None}]
           /\ accepted' \in Seq(Conns \cup {None}) /\ Len(accepted') <= AcceptLimit
           /\ sending' \in [Conns -> [at : {"idle", "waiting", "pacing"}, sock : 0 .. MaxSockets]]
           /\ lock' \in Conns \cup {None} /\ link' \in BOOLEAN
           /\ wire' \in Seq(Frame) /\ Len(wire') <= MaxWire
    PROVE  TypeOK'
BY DEF TypeOK, ConnRecord, DevRecord, ConnOK

\* The frames r are the first ones of the connection d.
OwnFrames(d, r) == r = [i \in 1 .. Len(r) |-> <<d, i>>]

LEMMA OwnFramesOnly ==
    /\ OnlyOwnFrames <=> \A d \in Conns : OwnFrames(d, dev[d].rcv)
    /\ OnlyOwnFrames' <=> \A d \in Conns : OwnFrames(d, dev'[d].rcv)
BY Zenon DEF OnlyOwnFrames, OwnFrames

\* No connection takes an id into use: ids stay apart.
LEMMA IdsShrink ==
    ASSUME IdsInv, \A d \in Conns : dev'[d].id = dev[d].id /\ (Busy(d)' => Busy(d))
    PROVE  IdsInv'
BY DEF IdsInv

\* The wire is left alone and devices may only go.
LEMMA WireSame ==
    ASSUME WireInv, wire' = wire, \A d \in Conns : dev'[d].at \in {dev[d].at, "gone"}
    PROVE  WireInv'
BY DEF WireInv

\* The wire is left alone and no connection that is expected changes.
LEMMA DataSame ==
    ASSUME DataInv, wire' = wire, runner' = "reading" => runner = "reading",
           \A d \in Conns : dev'[d].sent = dev[d].sent,
           \A d \in Conns : Expected(d)' => Expected(d) /\ Taken(d)' = Taken(d)
    PROVE  DataInv'
<1> SUFFICES ASSUME NEW c \in Conns
             PROVE  /\ \A p \in 1 .. Len(wire') : DataAt(p, c)' =>
                          /\ wire'[p].n \in 1 .. dev'[c].sent
                          /\ Expected(c)' => wire'[p].n > Taken(c)'
                    /\ \A p, q \in 1 .. Len(wire') :
                          DataAt(p, c)' /\ DataAt(q, c)' /\ p < q => wire'[p].n < wire'[q].n
                    /\ Expected(c)' /\ runner' = "reading" =>
                          \A k \in Taken(c)' + 1 .. dev'[c].sent :
                              \E p \in 1 .. Len(wire') : DataAt(p, c)' /\ wire'[p].n = k
  BY DEF DataInv, DataOK
<1>1. \A p : DataAt(p, c)' <=> DataAt(p, c)
  BY DEF DataAt
<1>2. /\ \A p \in 1 .. Len(wire) : DataAt(p, c) =>
            /\ wire[p].n \in 1 .. dev[c].sent
            /\ Expected(c) => wire[p].n > Taken(c)
      /\ \A p, q \in 1 .. Len(wire) :
            DataAt(p, c) /\ DataAt(q, c) /\ p < q => wire[p].n < wire[q].n
      /\ Expected(c) /\ runner = "reading" =>
            \A k \in Taken(c) + 1 .. dev[c].sent :
                \E p \in 1 .. Len(wire) : DataAt(p, c) /\ wire[p].n = k
  BY DEF DataInv, DataOK
<1>3. dev'[c].sent = dev[c].sent /\ (Expected(c)' => Expected(c) /\ Taken(c)' = Taken(c))
  OBVIOUS
<1>4. CASE ~Expected(c)'
  BY <1>1, <1>2, <1>3, <1>4
<1>5. CASE Expected(c)'
  BY <1>1, <1>2, <1>3, <1>5
<1> QED BY <1>4, <1>5

\* Nobody becomes unread, and who is stays so.
LEMMA UnreadSame ==
    ASSUME UnreadInv, wire' = wire, accepted' = accepted,
           \A d \in Conns : /\ dev[d].at = "none" => dev'[d] = dev[d]
                            /\ dev'[d].at = "none" => dev[d].at = "none"
                            /\ dev'[d].id = dev[d].id /\ (Registered(d)' => Registered(d)),
           \A d \in Conns : Unread(d) => phase'[d] = phase[d] /\ conn'[d] = conn[d] /\ pend'[d] = pend[d]
    PROVE  UnreadInv'
<1> SUFFICES ASSUME NEW d \in Conns
             PROVE  /\ dev'[d].at = "none" => ~OnWire(d)' /\ dev'[d].sent = 0 /\ dev'[d].rcv = <<>>
                    /\ dev'[d].at = "none" \/ OpenOnWire(d)' => Unread(d)'
  BY DEF UnreadInv
<1>1. (OnWire(d)' <=> OnWire(d)) /\ (OpenOnWire(d)' <=> OpenOnWire(d))
  BY DEF OnWire, OpenOnWire
<1>2. Unread(d) => Unread(d)'
  BY DEF Unread
<1> QED BY <1>1, <1>2 DEF UnreadInv

-----------------------------------------------------------------------------
(* Steps of a session                                                      *)

\* A session that moves on without ending its connection: all but its own
\* phase, object and send call is as before; a device may have got a frame.
LEMMA SessionMoves ==
    ASSUME ConnectorInv, NEW c \in Conns, NEW p, NEW o,
           phase[c] \in Live, phase' = [phase EXCEPT ![c] = p],
           p \in Live \ {"closing"} \/ phase[c] = "closing",
           conn' = [conn EXCEPT ![c] = o],
           ConnOK(o), o.closed = conn[c].closed,
           Count(o.got, o.inbound) = Taken(c), QueueOK(o, dev[c].sent),
           UNCHANGED <<runner, closed, gen, socket, registry, accepted, link, wire, acceptor, shutdown>>,
           \A d \in Conns : /\ dev[d].at # "open" => dev'[d] = dev[d]
                            /\ dev'[d].at = dev[d].at /\ dev'[d].id = dev[d].id
                            /\ dev'[d].sock = dev[d].sock /\ dev'[d].sent = dev[d].sent,
           \A d \in Conns : d # c => pend'[d] = pend[d]
    PROVE  /\ SocketInv' /\ RegistryInv' /\ IdsInv' /\ UnreadInv' /\ WireInv' /\ DataInv'
           /\ QueueInv' /\ AcceptInv' /\ ShutdownInv' /\ ServedInv'
           /\ conn' \in [Conns -> ConnRecord] /\ \A d \in Conns : ConnOK(conn'[d])
<1>1. /\ SocketInv /\ RegistryInv /\ IdsInv /\ UnreadInv /\ WireInv /\ DataInv
      /\ QueueInv /\ AcceptInv /\ ShutdownInv /\ ServedInv
  BY DEF ConnectorInv
<1>2. phase \in [Conns -> Phase] /\ registry \in [Ids -> Conns \cup {None}]
  BY DEF ConnectorInv, ServiceTypeOK, TypeOK
<1>3. conn \in [Conns -> ConnRecord] /\ \A d \in Conns : ConnOK(conn[d])
  BY Types
<1>4. conn'[c] = o /\ \A d \in Conns : d # c => conn'[d] = conn[d]
  BY <1>3
<1>5. phase'[c] = p /\ \A d \in Conns : d # c => phase'[d] = phase[d]
  BY <1>2
<1>6. phase[c] # "none"
  BY DEF Live, Working, Receiving, Timed, Sending
<1>7. \A d \in Conns : conn'[d].closed = conn[d].closed /\ Taken(d)' = Taken(d)
  BY <1>4 DEF Taken
<1>8. \A d \in Conns : Registered(d)' <=> Registered(d)
  BY DEF Registered
<1>9. \A d : (OnWire(d)' <=> OnWire(d)) /\ (OpenOnWire(d)' <=> OpenOnWire(d))
  BY DEF OnWire, OpenOnWire
<1>10. SocketInv'
  BY <1>1 DEF SocketInv
<1>11. RegistryInv'
  <2>1. ASSUME NEW i \in Ids, registry[i] # None
        PROVE  dev'[registry[i]].id = i /\ ~conn'[registry[i]].closed
    <3>1. registry[i] \in Conns
      BY <1>2, <2>1
    <3> QED BY <1>1, <1>7, <2>1, <3>1 DEF RegistryInv
  <2> QED BY <1>1, <2>1 DEF RegistryInv
<1>12. IdsInv'
  BY <1>1, <1>8, <1>9, IdsShrink DEF Busy
<1>13. UnreadInv'
  <2>1. \A d \in Conns : Unread(d) => d # c
    BY <1>6 DEF Unread
  <2> QED BY <1>1, <1>4, <1>5, <1>8, <2>1, UnreadSame
<1>14. WireInv'
  BY <1>1, WireSame
<1>15. DataInv'
  BY <1>1, <1>7, <1>8, <1>9, DataSame DEF Expected
<1>16. QueueInv'
  BY <1>1, <1>4 DEF QueueInv
<1>17. AcceptInv'
  <2>1. ASSUME NEW q \in 1 .. Len(accepted), accepted[q] # None
        PROVE  phase'[accepted[q]] = "none"
    <3>1. accepted[q] \in Conns
      BY <2>1, Types
    <3>2. phase[accepted[q]] = "none"
      BY <1>1, <2>1 DEF AcceptInv
    <3> QED BY <1>5, <1>6, <3>1, <3>2
  <2> QED BY <1>1, <2>1 DEF AcceptInv
<1>18. ShutdownInv'
  <2>1. shutdown # "done"
    BY <1>1, <1>6 DEF ShutdownInv, ClosedIsQuiet, Live, Working, Receiving, Timed, Sending
  <2> QED BY <1>1, <2>1 DEF ShutdownInv, ClosedIsQuiet
<1>19. ServedInv'
  <2>1. ASSUME NEW d \in Conns, dev'[d].at = "open", ~OpenOnWire(d)'
        PROVE  /\ Registered(d)'
               /\ \/ phase'[d] \in Live \ {"closing"}
                  \/ \E q \in 1 .. Len(accepted') : accepted'[q] = d
    <3>1. /\ Registered(d)
          /\ \/ phase[d] \in Live \ {"closing"}
             \/ \E q \in 1 .. Len(accepted) : accepted[q] = d
      BY <1>1, <1>9, <2>1 DEF ServedInv
    <3>2. CASE d # c
      BY <1>5, <1>8, <3>1, <3>2
    <3>3. CASE d = c
      <4>1. \A q \in 1 .. Len(accepted) : accepted[q] # c
        BY <1>1, <1>6, Bounds DEF AcceptInv
      <4>2. phase[c] # "closing"
        BY <3>1, <3>3, <4>1
      <4> QED BY <1>5, <1>8, <3>1, <3>3, <4>2
    <3> QED BY <3>2, <3>3
  <2> QED BY <2>1 DEF ServedInv
<1>20. conn' \in [Conns -> ConnRecord] /\ \A d \in Conns : ConnOK(conn'[d])
  <2>1. o \in ConnRecord
    BY DEF ConnOK
  <2> QED BY <1>3, <1>4, <2>1
<1> QED BY <1>10, <1>11, <1>12, <1>13, <1>14, <1>15, <1>16, <1>17, <1>18, <1>19, <1>20

\* The send call of a session that moves on within its phases.
LEMMA SendSame ==
    ASSUME ConnectorInv, NEW c \in Conns, NEW p, NEW o,
           phase' = [phase EXCEPT ![c] = p], conn' = [conn EXCEPT ![c] = o], o.out = conn[c].out,
           UNCHANGED <<sending, lock>>, phase[c] \in Sending => p \in Sending
    PROVE  SendInv'
<1>1. phase \in [Conns -> Phase] /\ conn \in [Conns -> ConnRecord]
  BY Types DEF ConnectorInv, ServiceTypeOK
<1>2. \A d \in Conns : (phase[d] \in Sending => phase'[d] \in Sending) /\ conn'[d].out = conn[d].out
  BY <1>1
<1> QED BY <1>2 DEF ConnectorInv, SendInv

\* The send call is over.
LEMMA SendOverInv ==
    ASSUME ConnectorInv, NEW c \in Conns, SendOver(c),
           \A d \in Conns : d # c => phase'[d] = phase[d] /\ conn'[d].out = conn[d].out
    PROVE  /\ SendInv'
           /\ sending' \in [Conns -> [at : {"idle", "waiting", "pacing"}, sock : 0 .. MaxSockets]]
           /\ lock' \in Conns \cup {None}
<1>1. /\ sending \in [Conns -> [at : {"idle", "waiting", "pacing"}, sock : 0 .. MaxSockets]]
      /\ lock \in Conns \cup {None} /\ SendInv
  BY DEF ConnectorInv, ServiceTypeOK, TypeOK
<1>2. Idle \in [at : {"idle", "waiting", "pacing"}, sock : 0 .. MaxSockets] /\ Idle.at = "idle"
  BY Bounds DEF Idle
<1>3. sending' = [sending EXCEPT ![c] = Idle] /\ lock' = IF lock = c THEN None ELSE lock
  BY DEF SendOver
<1>4. sending'[c] = Idle /\ \A d \in Conns : d # c => sending'[d] = sending[d]
  BY <1>1, <1>3
<1>5. \A d \in Conns : d # c => (lock' = d <=> lock = d)
  BY <1>1, <1>3, Bounds
<1>6. lock' # c
  BY <1>1, <1>3, Bounds
<1>7. SendInv'
  <2>1. ASSUME NEW d \in Conns
        PROVE  /\ sending'[d].at = "pacing" <=> lock' = d
               /\ sending'[d].at # "idle" =>
                     phase'[d] \in Sending /\ sending'[d].sock # 0 /\ conn'[d].out < MaxOut
               /\ sending'[d].at = "idle" => sending'[d] = Idle
    <3>1. CASE d = c
      BY <1>2, <1>4, <1>6, <3>1
    <3>2. CASE d # c
      BY <1>1, <1>4, <1>5, <3>2 DEF SendInv
    <3> QED BY <3>1, <3>2
  <2> QED BY <2>1 DEF SendInv
<1>8. sending' \in [Conns -> [at : {"idle", "waiting", "pacing"}, sock : 0 .. MaxSockets]]
  BY <1>1, <1>2, <1>3
<1>9. lock' \in Conns \cup {None}
  BY <1>1, <1>3
<1> QED BY <1>7, <1>8, <1>9

\* Some devices go; nothing else changes on their side.
LEMMA DevicesEndFacts ==
    ASSUME ConnectorInv, NEW ds \in SUBSET Conns
    PROVE  /\ DevicesEnd(ds) \in [Conns -> DevRecord]
           /\ \A d \in Conns :
                 /\ DevicesEnd(ds)[d].id = dev[d].id /\ DevicesEnd(ds)[d].sock = dev[d].sock
                 /\ DevicesEnd(ds)[d].sent = dev[d].sent /\ DevicesEnd(ds)[d].rcv = dev[d].rcv
                 /\ d \in ds => DevicesEnd(ds)[d].at = "gone"
                 /\ d \notin ds => DevicesEnd(ds)[d] = dev[d]
<1>1. dev \in [Conns -> DevRecord]
  BY Types
<1>2. ASSUME NEW d \in Conns
      PROVE  LET g == [dev[d] EXCEPT !.at = "gone"]
             IN  /\ g \in DevRecord /\ g.id = dev[d].id /\ g.sock = dev[d].sock
                 /\ g.sent = dev[d].sent /\ g.rcv = dev[d].rcv /\ g.at = "gone"
  BY <1>1 DEF DevRecord
<1>3. \A d \in Conns : DevicesEnd(ds)[d] = IF d \in ds THEN [dev[d] EXCEPT !.at = "gone"] ELSE dev[d]
  BY DEF DevicesEnd
<1>4. DevicesEnd(ds) \in [Conns -> DevRecord]
  BY <1>1, <1>2 DEF DevicesEnd
<1> QED BY <1>2, <1>3, <1>4

\* Some connections are marked closed.
LEMMA MarkedClosedFacts ==
    ASSUME ConnectorInv, NEW cs
    PROVE  /\ MarkedClosed(cs) \in [Conns -> ConnRecord]
           /\ \A d \in Conns :
                 /\ ConnOK(MarkedClosed(cs)[d]) /\ QueueOK(MarkedClosed(cs)[d], dev[d].sent)
                 /\ MarkedClosed(cs)[d].out = conn[d].out
                 /\ d \notin cs => MarkedClosed(cs)[d] = conn[d]
<1>1. \A d \in Conns : MarkedClosed(cs)[d] = IF d \in cs THEN MarkClosed(conn[d]) ELSE conn[d]
  BY DEF MarkedClosed
<1>2. \A d \in Conns : ConnOK(conn[d]) /\ dev[d].sent \in Nat
  BY Types
<1>3. \A d \in Conns : QueueOK(conn[d], dev[d].sent)
  BY DEF ConnectorInv, QueueInv
<1>4. \A d \in Conns : /\ ConnOK(MarkClosed(conn[d])) /\ MarkClosed(conn[d]).out = conn[d].out
                       /\ QueueOK(MarkClosed(conn[d]), dev[d].sent)
  BY <1>2, <1>3, MarkClosedFacts
<1>5. MarkedClosed(cs) \in [Conns -> ConnRecord]
  BY <1>2, <1>4 DEF ConnOK, MarkedClosed
<1> QED BY <1>1, <1>2, <1>3, <1>4, <1>5

\* _close_device takes the connection out of use on both sides.
LEMMA CloseDeviceFacts ==
    ASSUME ConnectorInv, NEW c \in Conns, CloseDevice(c)
    PROVE  /\ conn' \in [Conns -> ConnRecord]
           /\ \A d \in Conns : /\ ConnOK(conn'[d]) /\ QueueOK(conn'[d], dev[d].sent)
                               /\ conn'[d].out = conn[d].out
                               /\ d # c => conn'[d] = conn[d]
           /\ registry' \in [Ids -> Conns \cup {None}]
           /\ \A i \in Ids : registry'[i] \in {registry[i], None} /\ registry'[i] # c
           /\ dev' \in [Conns -> DevRecord]
           /\ \A d \in Conns : /\ dev'[d].id = dev[d].id /\ dev'[d].sock = dev[d].sock
                               /\ dev'[d].sent = dev[d].sent /\ dev'[d].rcv = dev[d].rcv
                               /\ d # c \/ dev[d].at # "open" => dev'[d] = dev[d]
                               /\ dev'[d].at \in {dev[d].at, "gone"}
                               /\ Registered(d)' <=> Registered(d) /\ d # c
           /\ ~OpenOnWire(c) => dev'[c].at # "open"
<1>1. conn' = MarkedClosed({c})
  BY DEF CloseDevice
<1>2. registry \in [Ids -> Conns \cup {None}] /\ dev \in [Conns -> DevRecord]
      /\ \A d \in Conns : dev[d].id \in Ids \cup {None}
  BY Types DEF ConnectorInv, ServiceTypeOK, TypeOK
<1>3. \A i \in Ids : registry[i] # None => dev[registry[i]].id = i
  BY DEF ConnectorInv, RegistryInv
<1>4. /\ conn' \in [Conns -> ConnRecord]
      /\ \A d \in Conns : /\ ConnOK(conn'[d]) /\ QueueOK(conn'[d], dev[d].sent)
                          /\ conn'[d].out = conn[d].out
                          /\ d # c => conn'[d] = conn[d]
  BY <1>1, MarkedClosedFacts
<1>5. CASE ~Registered(c)
  <2>1. registry' = registry /\ dev' = dev
    BY <1>5 DEF CloseDevice
  <2>2. \A i \in Ids : registry[i] # c
    BY <1>2, <1>3, <1>5, Bounds DEF Registered
  <2>3. \A d \in Conns : Registered(d)' <=> Registered(d) /\ d # c
    BY <1>5, <2>1 DEF Registered
  <2>4. ~OpenOnWire(c) => dev'[c].at # "open"
    BY <1>5, <2>1 DEF ConnectorInv, ServedInv
  <2> QED BY <1>2, <1>4, <2>1, <2>2, <2>3, <2>4
<1>6. CASE Registered(c)
  <2> DEFINE gone == IF socket # 0 /\ link /\ socket = gen /\ dev[c].sock = socket /\ dev[c].at = "open"
                     THEN {c} ELSE {}
  <2>1. registry' = [registry EXCEPT ![dev[c].id] = None]
    BY <1>6 DEF CloseDevice
  <2>2. dev[c].id \in Ids
    BY <1>2, <1>6 DEF Registered
  <2>3. registry' \in [Ids -> Conns \cup {None}]
    BY <1>2, <2>1
  <2>4. \A i \in Ids : registry'[i] \in {registry[i], None} /\ registry'[i] # c
    BY <1>2, <1>3, <2>1, <2>2, Bounds
  <2>5. dev' = DevicesEnd(gone)
    <3>1. CASE socket = 0
      <4>1. dev' = dev
        BY <1>6, <3>1 DEF CloseDevice
      <4>2. DevicesEnd(gone) = [d \in Conns |-> dev[d]]
        BY <3>1 DEF DevicesEnd
      <4> QED BY <1>2, <4>1, <4>2
    <3>2. CASE socket # 0
      BY <1>6, <3>2 DEF CloseDevice, ToldRouter
    <3> QED BY <3>1, <3>2
  <2>6. gone \subseteq Conns /\ \A d \in gone : d = c /\ dev[d].at = "open"
    OBVIOUS
  <2>7. ~OpenOnWire(c) => dev[c].at # "open" \/ gone = {c}
    <3>1. SUFFICES ASSUME dev[c].at = "open" PROVE gone = {c}
      OBVIOUS
    <3>2. link /\ dev[c].sock = gen
      BY <3>1 DEF ConnectorInv, SocketInv
    <3>3. socket = gen /\ gen # 0
      BY <3>2 DEF ConnectorInv, SocketInv
    <3> QED BY <3>1, <3>2, <3>3
  <2> HIDE DEF gone
  <2>8. /\ dev' \in [Conns -> DevRecord]
        /\ \A d \in Conns : /\ dev'[d].id = dev[d].id /\ dev'[d].sock = dev[d].sock
                            /\ dev'[d].sent = dev[d].sent /\ dev'[d].rcv = dev[d].rcv
                            /\ d \in gone => dev'[d].at = "gone"
                            /\ d \notin gone => dev'[d] = dev[d]
    BY <2>5, <2>6, DevicesEndFacts
  <2>9. \A d \in Conns : Registered(d)' <=> Registered(d) /\ d # c
    BY <1>2, <1>3, <1>6, <2>1, <2>2, <2>8, Bounds DEF Registered
  <2>10. ~OpenOnWire(c) => dev'[c].at # "open"
    BY <2>7, <2>8
  <2> QED BY <1>4, <2>3, <2>4, <2>6, <2>8, <2>9, <2>10
<1> QED BY <1>5, <1>6

\* A session ends: its task is in its finally block, its connection closed.
LEMMA EndsStep ==
    ASSUME ConnectorInv, NEW c \in Conns, phase[c] \in Live, Ends(c),
           pend' \in [Conns -> {"none", "pending", "acked", "denied", "undenied"}],
           \A d \in Conns : d # c => pend'[d] = pend[d],
           pend'[c] = "pending" => shutdown # "no"
    PROVE  ConnectorInv'
<1>1. /\ SocketInv /\ RegistryInv /\ IdsInv /\ UnreadInv /\ WireInv /\ DataInv /\ DeliveryInv
      /\ AcceptInv /\ ShutdownInv /\ ServedInv /\ PairingInv
  BY DEF ConnectorInv
<1>2. /\ CloseDevice(c) /\ SendOver(c) /\ phase' = [phase EXCEPT ![c] = "closing"]
      /\ UNCHANGED <<runner, closed, gen, socket, accepted, link, wire, acceptor, shutdown>>
  BY DEF Ends
<1>3. /\ conn' \in [Conns -> ConnRecord]
      /\ \A d \in Conns : /\ ConnOK(conn'[d]) /\ QueueOK(conn'[d], dev[d].sent)
                          /\ conn'[d].out = conn[d].out
                          /\ d # c => conn'[d] = conn[d]
      /\ registry' \in [Ids -> Conns \cup {None}]
      /\ \A i \in Ids : registry'[i] \in {registry[i], None} /\ registry'[i] # c
      /\ dev' \in [Conns -> DevRecord]
      /\ \A d \in Conns : /\ dev'[d].id = dev[d].id /\ dev'[d].sock = dev[d].sock
                          /\ dev'[d].sent = dev[d].sent /\ dev'[d].rcv = dev[d].rcv
                          /\ d # c \/ dev[d].at # "open" => dev'[d] = dev[d]
                          /\ dev'[d].at \in {dev[d].at, "gone"}
                          /\ Registered(d)' <=> Registered(d) /\ d # c
      /\ ~OpenOnWire(c) => dev'[c].at # "open"
  BY <1>2, CloseDeviceFacts
<1>4. phase \in [Conns -> Phase] /\ registry \in [Ids -> Conns \cup {None}]
  BY DEF ConnectorInv, ServiceTypeOK, TypeOK
<1>5. phase'[c] = "closing" /\ \A d \in Conns : d # c => phase'[d] = phase[d]
  BY <1>2, <1>4
<1>6. phase[c] # "none"
  BY DEF Live, Working, Receiving, Timed, Sending
<1>7. \A d : (OnWire(d)' <=> OnWire(d)) /\ (OpenOnWire(d)' <=> OpenOnWire(d))
  BY <1>2 DEF OnWire, OpenOnWire
<1>8. ~OpenOnWire(c) /\ ~Unread(c) /\ dev[c].at # "none"
  BY <1>1, <1>6 DEF UnreadInv, Unread
<1>9. /\ SendInv'
      /\ sending' \in [Conns -> [at : {"idle", "waiting", "pacing"}, sock : 0 .. MaxSockets]]
      /\ lock' \in Conns \cup {None}
  BY <1>2, <1>3, <1>5, SendOverInv
<1>10. ServiceTypeOK'
  <2>1. TypeOK'
    BY <1>2, <1>3, <1>9, TypesNext DEF ConnectorInv, ServiceTypeOK, TypeOK
  <2>2. phase' \in [Conns -> Phase]
    BY <1>2, <1>4 DEF Phase, Live
  <2> QED BY <1>2, <2>1, <2>2 DEF ConnectorInv, ServiceTypeOK
<1>11. SocketInv'
  BY <1>1, <1>2, <1>3 DEF SocketInv
<1>12. RegistryInv'
  <2>1. ASSUME NEW i \in Ids, registry'[i] # None
        PROVE  dev'[registry'[i]].id = i /\ ~conn'[registry'[i]].closed
    <3>1. registry'[i] \in Conns /\ registry'[i] = registry[i] /\ registry[i] # c
      BY <1>3, <2>1
    <3>2. dev[registry[i]].id = i /\ ~conn[registry[i]].closed
      BY <1>1, <2>1, <3>1 DEF RegistryInv
    <3> QED BY <1>3, <3>1, <3>2
  <2>2. \A d \in Conns : dev'[d].at = "none" <=> dev'[d].id = None
    <3>1. SUFFICES ASSUME NEW d \in Conns PROVE dev'[d].at = "none" <=> dev'[d].id = None
      OBVIOUS
    <3>2. dev[d].at = "none" <=> dev[d].id = None
      BY <1>1 DEF RegistryInv
    <3>3. dev'[d].at = "none" <=> dev[d].at = "none"
      BY <1>3
    <3> QED BY <1>3, <3>2, <3>3
  <2> QED BY <2>1, <2>2 DEF RegistryInv
<1>13. IdsInv'
  <2>1. \A d \in Conns : dev'[d].at = "open" => dev[d].at = "open"
    BY <1>3
  <2> QED BY <1>1, <1>3, <1>7, <2>1, IdsShrink DEF Busy
<1>14. UnreadInv'
  <2>1. \A d \in Conns : /\ dev[d].at = "none" => dev'[d] = dev[d]
                         /\ dev'[d].at = "none" => dev[d].at = "none"
                         /\ dev'[d].id = dev[d].id /\ (Registered(d)' => Registered(d))
    BY <1>3
  <2> QED BY <1>1, <1>2, <1>3, <1>5, <1>8, <2>1, UnreadSame
<1>15. WireInv'
  BY <1>1, <1>2, <1>3, WireSame
<1>16. DataInv'
  <2>1. ASSUME NEW d \in Conns, Expected(d)' PROVE Expected(d) /\ Taken(d)' = Taken(d)
    <3>1. d # c
      BY <1>3, <1>7, <1>8, <2>1 DEF Expected
    <3> QED BY <1>3, <1>7, <2>1, <3>1 DEF Expected, Taken
  <2> QED BY <1>1, <1>2, <1>3, <2>1, DataSame
<1>17. QueueInv'
  BY <1>3 DEF QueueInv
<1>18. DeliveryInv'
  <2>1. OnlyOwnFrames'
    BY <1>1, <1>3, OwnFramesOnly DEF DeliveryInv
  <2>2. \A d \in Conns : dev'[d].at = "open" => Len(dev'[d].rcv) = conn'[d].out
    BY <1>1, <1>3 DEF DeliveryInv
  <2> QED BY <2>1, <2>2 DEF DeliveryInv
<1>19. AcceptInv'
  <2>1. ASSUME NEW q \in 1 .. Len(accepted), accepted[q] # None
        PROVE  phase'[accepted[q]] = "none"
    <3>1. accepted[q] \in Conns
      BY <2>1, Types
    <3>2. phase[accepted[q]] = "none"
      BY <1>1, <2>1 DEF AcceptInv
    <3> QED BY <1>5, <1>6, <3>1, <3>2
  <2> QED BY <1>1, <1>2, <2>1 DEF AcceptInv
<1>20. PairingInv'
  BY <1>1, <1>2, <1>5 DEF PairingInv
<1>21. ShutdownInv'
  <2>1. shutdown # "done"
    BY <1>1, <1>6 DEF ShutdownInv, ClosedIsQuiet, Live, Working, Receiving, Timed, Sending
  <2> QED BY <1>1, <1>2, <2>1 DEF ShutdownInv, ClosedIsQuiet
<1>22. ServedInv'
  <2>1. ASSUME NEW d \in Conns, dev'[d].at = "open", ~OpenOnWire(d)'
        PROVE  /\ Registered(d)'
               /\ \/ phase'[d] \in Live \ {"closing"}
                  \/ \E q \in 1 .. Len(accepted') : accepted'[q] = d
    <3>1. d # c /\ dev[d].at = "open" /\ ~OpenOnWire(d)
      BY <1>3, <1>7, <1>8, <2>1
    <3>2. /\ Registered(d)
          /\ \/ phase[d] \in Live \ {"closing"}
             \/ \E q \in 1 .. Len(accepted) : accepted[q] = d
      BY <1>1, <3>1 DEF ServedInv
    <3> QED BY <1>2, <1>3, <1>5, <3>1, <3>2
  <2> QED BY <2>1 DEF ServedInv
<1> QED BY <1>9, <1>10, <1>11, <1>12, <1>13, <1>14, <1>15, <1>16, <1>17, <1>18, <1>19, <1>20,
           <1>21, <1>22 DEF ConnectorInv

\* A session moves on and sends nothing.
LEMMA QuietMove ==
    ASSUME ConnectorInv, NEW c \in Conns, NEW p \in Phase, NEW o,
           phase[c] \in Live, phase' = [phase EXCEPT ![c] = p],
           p \in Live \ {"closing"} \/ phase[c] = "closing",
           phase[c] \in Sending => p \in Sending,
           conn' = [conn EXCEPT ![c] = o],
           ConnOK(o), o.closed = conn[c].closed, o.out = conn[c].out,
           Count(o.got, o.inbound) = Taken(c), QueueOK(o, dev[c].sent),
           UNCHANGED <<runner, closed, gen, socket, registry, accepted, sending, lock, link, wire, dev,
                       acceptor, shutdown>>,
           pend' \in [Conns -> {"none", "pending", "acked", "denied", "undenied"}],
           \A d \in Conns : d # c => pend'[d] = pend[d],
           pend'[c] = "pending" => p = "ack" \/ shutdown # "no"
    PROVE  ConnectorInv'
<1>1. /\ SocketInv' /\ RegistryInv' /\ IdsInv' /\ UnreadInv' /\ WireInv' /\ DataInv'
      /\ QueueInv' /\ AcceptInv' /\ ShutdownInv' /\ ServedInv'
      /\ conn' \in [Conns -> ConnRecord] /\ \A d \in Conns : ConnOK(conn'[d])
  BY SessionMoves
<1>2. SendInv'
  BY SendSame
<1>3. phase \in [Conns -> Phase] /\ conn \in [Conns -> ConnRecord] /\ dev \in [Conns -> DevRecord]
  BY Types DEF ConnectorInv, ServiceTypeOK
<1>4. ServiceTypeOK'
  <2>1. TypeOK'
    BY <1>1, <1>3, TypesNext DEF ConnectorInv, ServiceTypeOK, TypeOK
  <2>2. phase' \in [Conns -> Phase]
    BY <1>3
  <2> QED BY <2>1, <2>2 DEF ConnectorInv, ServiceTypeOK
<1>5. \A d \in Conns : conn'[d].out = conn[d].out
  BY <1>3
<1>6. DeliveryInv'
  <2>1. OnlyOwnFrames'
    BY OwnFramesOnly DEF ConnectorInv, DeliveryInv
  <2> QED BY <1>5, <2>1 DEF ConnectorInv, DeliveryInv
<1>7. PairingInv'
  <2>1. PairingInv /\ phase'[c] = p /\ \A d \in Conns : d # c => phase'[d] = phase[d]
    BY <1>3 DEF ConnectorInv
  <2> QED BY <2>1 DEF PairingInv
<1> QED BY <1>1, <1>2, <1>4, <1>6, <1>7 DEF ConnectorInv

LEMMA PhaseFacts ==
    /\ \A p \in Receiving \cup Sending \cup {"acked", "admit", "starting"} : p \in Live \ {"closing"}
    /\ Live \subseteq Phase /\ Working \subseteq Live /\ "closing" \in Live
    /\ \A p \in Receiving : p \in {"hs1", "hs2", "env", "serving"}
BY DEF Phase, Live, Working, Receiving, Timed, Sending

LEMMA ServeConnectionStep ==
    ASSUME ConnectorInv, NEW c \in Conns, ServeConnection(c)
    PROVE  ConnectorInv'
<1>1. phase[c] = "starting" /\ phase[c] \in Live
  BY PhaseFacts DEF ServeConnection
<1>2. pend \in [Conns -> {"none", "pending", "acked", "denied", "undenied"}] /\ PairingInv
  BY DEF ConnectorInv, ServiceTypeOK
<1>3. pend[c] = "pending" => shutdown # "no"
  BY <1>1, <1>2 DEF PairingInv
<1>4. CASE LiveCount > MaxSessions
  BY <1>1, <1>2, <1>3, <1>4, EndsStep DEF ServeConnection
<1>5. CASE ~(LiveCount > MaxSessions)
  <2> DEFINE o == CallReceive(conn[c])
  <2>1. /\ phase' = [phase EXCEPT ![c] = "hs1"] /\ pend' = pend
        /\ UNCHANGED <<runner, closed, gen, socket, registry, accepted, sending, lock, link, wire, dev,
                       acceptor, shutdown>>
    BY <1>5 DEF ServeConnection, routerVars
  <2>2. conn' = [conn EXCEPT ![c] = o]
    BY <1>5 DEF ServeConnection
  <2>3. /\ ConnOK(o) /\ o.closed = conn[c].closed /\ o.out = conn[c].out
        /\ o.got = conn[c].got /\ o.inbound = conn[c].inbound
        /\ \A s \in Nat : QueueOK(conn[c], s) => QueueOK(o, s)
    BY Types, CallReceiveFacts
  <2>4. Count(o.got, o.inbound) = Taken(c) /\ QueueOK(o, dev[c].sent)
    BY <2>3, Types DEF Taken, ConnectorInv, QueueInv
  <2> HIDE DEF o
  <2>5. "hs1" \in Phase /\ "hs1" \in Live \ {"closing"} /\ phase[c] \notin Sending
    BY <1>1 DEF Phase, Live, Working, Receiving, Timed, Sending
  <2> QED BY <1>1, <1>2, <1>3, <2>1, <2>2, <2>3, <2>4, <2>5, QuietMove
<1> QED BY <1>4, <1>5

LEMMA TaskDoneStep ==
    ASSUME ConnectorInv, NEW c \in Conns, TaskDone(c)
    PROVE  ConnectorInv'
<1>1. phase[c] = "closing" /\ phase[c] \in Live /\ phase[c] \notin Sending /\ "ended" \in Phase
  BY DEF TaskDone, Phase, Live, Sending
<1>2. pend \in [Conns -> {"none", "pending", "acked", "denied", "undenied"}] /\ PairingInv
  BY DEF ConnectorInv, ServiceTypeOK
<1>3. pend[c] = "pending" => shutdown # "no"
  BY <1>1, <1>2 DEF PairingInv
<1>4. /\ phase' = [phase EXCEPT ![c] = "ended"] /\ pend' = pend
      /\ UNCHANGED <<runner, closed, gen, socket, registry, accepted, sending, lock, link, wire, dev,
                     acceptor, shutdown>>
      /\ conn' = conn
  BY DEF TaskDone, clientVars, routerVars
<1>5. conn' = [conn EXCEPT ![c] = conn[c]]
  BY <1>4, Types
<1>6. /\ ConnOK(conn[c]) /\ QueueOK(conn[c], dev[c].sent)
      /\ Count(conn[c].got, conn[c].inbound) = Taken(c)
  BY Types DEF ConnectorInv, QueueInv, Taken
<1> QED BY <1>1, <1>2, <1>3, <1>4, <1>5, <1>6, QuietMove

LEMMA ReceiveStep ==
    ASSUME ConnectorInv, NEW c \in Conns, Receive(c)
    PROVE  ConnectorInv'
<1>1. PICK p \in AfterFrame(phase[c]) :
        /\ conn' = [conn EXCEPT ![c] =
                       IF p \in Receiving THEN CallReceive(Received(@)) ELSE Received(@)]
        /\ phase' = [phase EXCEPT ![c] = p]
        /\ pend' = IF p = "ack" THEN [pend EXCEPT ![c] = "pending"] ELSE pend
  BY DEF Receive
<1>2. phase[c] \in Receiving /\ conn[c].inbound # <<>> /\ Head(conn[c].inbound) # None
      /\ UNCHANGED <<runner, closed, gen, socket, registry, accepted, sending, lock, link, wire, dev,
                     acceptor, shutdown>>
  BY DEF Receive, ReceivesFrame, routerVars
<1>3. phase[c] \in {"hs1", "hs2", "env", "serving"}
  BY <1>2, PhaseFacts
<1>4. p \in {"hs1send", "ack", "env", "admit", "serving"}
      /\ (phase[c] = "serving" <=> p = "serving")
  BY <1>1, <1>3 DEF AfterFrame
<1>5. p \in Phase /\ p \in Live \ {"closing"} /\ phase[c] \in Live
      /\ (phase[c] \in Sending => p \in Sending)
  BY <1>3, <1>4 DEF Phase, Live, Working, Receiving, Timed, Sending
<1> DEFINE r == Received(conn[c])
           o == IF p \in Receiving THEN CallReceive(r) ELSE r
<1>6. ConnOK(conn[c]) /\ dev[c].sent \in Nat /\ QueueOK(conn[c], dev[c].sent)
  BY Types DEF ConnectorInv, QueueInv
<1>7. /\ ConnOK(r) /\ r.closed = conn[c].closed /\ r.out = conn[c].out
      /\ Count(r.got, r.inbound) = Taken(c) /\ QueueOK(r, dev[c].sent)
  BY <1>2, <1>6, ReceivedFacts DEF Taken
<1>8. conn' = [conn EXCEPT ![c] = o]
  BY <1>1
<1> HIDE DEF r
<1>9. /\ ConnOK(o) /\ o.closed = conn[c].closed /\ o.out = conn[c].out
      /\ Count(o.got, o.inbound) = Taken(c) /\ QueueOK(o, dev[c].sent)
  <2>1. CASE p \in Receiving
    BY <1>6, <1>7, <2>1, CallReceiveFacts
  <2>2. CASE p \notin Receiving
    BY <1>7, <2>2
  <2> QED BY <2>1, <2>2
<1> HIDE DEF o
<1>10. pend \in [Conns -> {"none", "pending", "acked", "denied", "undenied"}] /\ PairingInv
  BY DEF ConnectorInv, ServiceTypeOK
<1>11. /\ pend' \in [Conns -> {"none", "pending", "acked", "denied", "undenied"}]
       /\ \A d \in Conns : d # c => pend'[d] = pend[d]
  BY <1>1, <1>10
<1>12. pend'[c] = "pending" => p = "ack" \/ shutdown # "no"
  BY <1>1, <1>3, <1>10 DEF PairingInv
<1> QED BY <1>2, <1>5, <1>1, <1>8, <1>9, <1>11, <1>12, QuietMove

\* The steps that end a session, whatever made it end.
LEMMA SessionEnds ==
    ASSUME ConnectorInv, NEW c \in Conns,
           StreamEnds(c) \/ Timeout(c) \/ SessionRaises(c) \/ PairingEnds(c) \/ CancelTask(c)
    PROVE  ConnectorInv'
<1>1. Ends(c) /\ pend' = pend
  BY DEF StreamEnds, Timeout, SessionRaises, PairingEnds, CancelTask
<1>2. phase[c] \in Live
  BY DEF StreamEnds, Timeout, SessionRaises, PairingEnds, CancelTask, Live, Working, Receiving,
         Timed, Sending
<1>3. phase[c] # "ack" \/ shutdown # "no"
  BY DEF StreamEnds, Timeout, SessionRaises, PairingEnds, CancelTask, Receiving, Timed
<1>4. pend \in [Conns -> {"none", "pending", "acked", "denied", "undenied"}] /\ PairingInv
  BY DEF ConnectorInv, ServiceTypeOK
<1>5. pend[c] = "pending" => shutdown # "no"
  BY <1>3, <1>4 DEF PairingInv
<1> QED BY <1>1, <1>2, <1>4, <1>5, EndsStep

LEMMA AdmissionReturnsStep ==
    ASSUME ConnectorInv, NEW c \in Conns, AdmissionReturns(c)
    PROVE  ConnectorInv'
<1>1. phase[c] = "admit" /\ phase[c] \in Live /\ pend' = pend
  BY PhaseFacts DEF AdmissionReturns
<1>2. pend \in [Conns -> {"none", "pending", "acked", "denied", "undenied"}] /\ PairingInv
  BY DEF ConnectorInv, ServiceTypeOK
<1>3. pend[c] = "pending" => shutdown # "no"
  BY <1>1, <1>2 DEF PairingInv
<1>4. CASE Ends(c)
  BY <1>1, <1>2, <1>3, <1>4, EndsStep
<1>5. CASE ~Ends(c)
  <2> DEFINE o == CallReceive(conn[c])
  <2>1. /\ phase' = [phase EXCEPT ![c] = "serving"]
        /\ UNCHANGED <<runner, closed, gen, socket, registry, accepted, sending, lock, link, wire, dev,
                       acceptor, shutdown>>
    BY <1>5 DEF AdmissionReturns, routerVars
  <2>2. conn' = [conn EXCEPT ![c] = o]
    BY <1>5 DEF AdmissionReturns
  <2>3. /\ ConnOK(o) /\ o.closed = conn[c].closed /\ o.out = conn[c].out
        /\ o.got = conn[c].got /\ o.inbound = conn[c].inbound
        /\ \A s \in Nat : QueueOK(conn[c], s) => QueueOK(o, s)
    BY Types, CallReceiveFacts
  <2>4. Count(o.got, o.inbound) = Taken(c) /\ QueueOK(o, dev[c].sent)
    BY <2>3, Types DEF Taken, ConnectorInv, QueueInv
  <2> HIDE DEF o
  <2>5. "serving" \in Phase /\ "serving" \in Live \ {"closing"} /\ phase[c] \notin Sending
    BY <1>1 DEF Phase, Live, Working, Receiving, Timed, Sending
  <2> QED BY <1>1, <1>2, <1>3, <2>1, <2>2, <2>3, <2>4, <2>5, QuietMove
<1> QED BY <1>4, <1>5

\* What depends neither on the send calls nor on how far the shutdown is.
LEMMA Aside ==
    ASSUME ConnectorInv,
           UNCHANGED <<runner, closed, gen, socket, registry, accepted, conn, link, wire, dev,
                       phase, pend>>,
           sending' \in [Conns -> [at : {"idle", "waiting", "pacing"}, sock : 0 .. MaxSockets]],
           lock' \in Conns \cup {None}, SendInv',
           acceptor' \in BOOLEAN, shutdown' \in {"no", "connector", "acceptor", "cancelling", "done"},
           shutdown # "no" => shutdown' # "no", ShutdownInv'
    PROVE  ConnectorInv'
<1>1. ServiceTypeOK'
  BY DEF ConnectorInv, ServiceTypeOK, TypeOK
<1>2. SocketInv' /\ RegistryInv'
  BY DEF ConnectorInv, SocketInv, RegistryInv
<1>3. \A d : /\ (Registered(d)' <=> Registered(d)) /\ (OnWire(d)' <=> OnWire(d))
             /\ (OpenOnWire(d)' <=> OpenOnWire(d)) /\ Taken(d)' = Taken(d)
             /\ (Unread(d)' <=> Unread(d))
  BY DEF Registered, OnWire, OpenOnWire, Taken, Unread
<1>4. IdsInv'
  BY <1>3, IdsShrink DEF ConnectorInv, Busy
<1>5. UnreadInv'
  BY <1>3 DEF ConnectorInv, UnreadInv
<1>6. WireInv'
  BY DEF ConnectorInv, WireInv
<1>7. DataInv'
  BY <1>3, DataSame DEF ConnectorInv, Expected
<1>8. QueueInv' /\ AcceptInv' /\ PairingInv'
  BY DEF ConnectorInv, QueueInv, AcceptInv, PairingInv
<1>9. DeliveryInv'
  BY OwnFramesOnly DEF ConnectorInv, DeliveryInv
<1>10. ServedInv'
  BY <1>3 DEF ConnectorInv, ServedInv
<1> QED BY <1>1, <1>2, <1>4, <1>5, <1>6, <1>7, <1>8, <1>9, <1>10 DEF ConnectorInv

\* A step of a send call before it is over.
LEMMA SendAside ==
    ASSUME ConnectorInv,
           UNCHANGED <<runner, closed, gen, socket, registry, accepted, conn, link, wire, dev,
                       acceptor, phase, pend, shutdown>>,
           sending' \in [Conns -> [at : {"idle", "waiting", "pacing"}, sock : 0 .. MaxSockets]],
           lock' \in Conns \cup {None}, SendInv'
    PROVE  ConnectorInv'
<1>1. ShutdownInv'
  BY DEF ConnectorInv, ShutdownInv, ClosedIsQuiet
<1>2. acceptor \in BOOLEAN /\ shutdown \in {"no", "connector", "acceptor", "cancelling", "done"}
  BY DEF ConnectorInv, ServiceTypeOK
<1> QED BY <1>1, <1>2, Aside

LEMMA SessionSendsStep ==
    ASSUME ConnectorInv, NEW c \in Conns, SessionSends(c)
    PROVE  ConnectorInv'
<1> DEFINE e == [at |-> "waiting", sock |-> socket]
<1>1. /\ phase[c] \in Sending /\ sending[c] = Idle /\ socket # 0 /\ conn[c].out < MaxOut
      /\ lock' = lock
      /\ UNCHANGED <<runner, closed, gen, socket, registry, accepted, conn, link, wire, dev,
                     acceptor, phase, pend, shutdown>>
  BY DEF SessionSends, SendStart, MaySend, routerVars, serviceVars
<1>2. sending' = [sending EXCEPT ![c] = e]
  BY DEF SessionSends, SendStart
<1>3. /\ sending \in [Conns -> [at : {"idle", "waiting", "pacing"}, sock : 0 .. MaxSockets]]
      /\ lock \in Conns \cup {None} /\ SendInv /\ socket \in {0, gen} /\ gen \in 0 .. MaxSockets
  BY DEF ConnectorInv, ServiceTypeOK, TypeOK
<1>4. /\ e \in [at : {"idle", "waiting", "pacing"}, sock : 0 .. MaxSockets]
      /\ e.at = "waiting" /\ e.sock # 0
  BY <1>1, <1>3, Bounds
<1> HIDE DEF e
<1>5. sending'[c] = e /\ \A d \in Conns : d # c => sending'[d] = sending[d]
  BY <1>2, <1>3
<1>6. sending' \in [Conns -> [at : {"idle", "waiting", "pacing"}, sock : 0 .. MaxSockets]]
  BY <1>2, <1>3, <1>4
<1>7. lock # c
  BY <1>1, <1>3 DEF SendInv, Idle
<1>8. SendInv'
  <2>1. ASSUME NEW d \in Conns
        PROVE  /\ sending'[d].at = "pacing" <=> lock' = d
               /\ sending'[d].at # "idle" =>
                     phase'[d] \in Sending /\ sending'[d].sock # 0 /\ conn'[d].out < MaxOut
               /\ sending'[d].at = "idle" => sending'[d] = Idle
    <3>1. CASE d = c
      BY <1>1, <1>4, <1>5, <1>7, <3>1
    <3>2. CASE d # c
      BY <1>1, <1>3, <1>5, <3>2 DEF SendInv
    <3> QED BY <3>1, <3>2
  <2> QED BY <2>1 DEF SendInv
<1> QED BY <1>1, <1>3, <1>6, <1>8, SendAside

LEMMA SendAcquiresStep ==
    ASSUME ConnectorInv, NEW c \in Conns, SendAcquires(c), UNCHANGED serviceVars
    PROVE  ConnectorInv'
<1> DEFINE e == [sending[c] EXCEPT !.at = "pacing"]
<1>1. /\ sending[c].at = "waiting" /\ lock = None /\ lock' = c
      /\ UNCHANGED <<runner, closed, gen, socket, registry, accepted, conn, link, wire, dev,
                     acceptor, phase, pend, shutdown>>
  BY DEF SendAcquires, routerVars, serviceVars
<1>2. sending' = [sending EXCEPT ![c] = e]
  BY DEF SendAcquires
<1>3. /\ sending \in [Conns -> [at : {"idle", "waiting", "pacing"}, sock : 0 .. MaxSockets]] /\ SendInv
  BY DEF ConnectorInv, ServiceTypeOK, TypeOK
<1>4. /\ e \in [at : {"idle", "waiting", "pacing"}, sock : 0 .. MaxSockets]
      /\ e.at = "pacing" /\ e.sock = sending[c].sock
  BY <1>3
<1> HIDE DEF e
<1>5. sending'[c] = e /\ \A d \in Conns : d # c => sending'[d] = sending[d]
  BY <1>2, <1>3
<1>6. sending' \in [Conns -> [at : {"idle", "waiting", "pacing"}, sock : 0 .. MaxSockets]]
  BY <1>2, <1>3, <1>4
<1>7. SendInv'
  <2>1. ASSUME NEW d \in Conns
        PROVE  /\ sending'[d].at = "pacing" <=> lock' = d
               /\ sending'[d].at # "idle" =>
                     phase'[d] \in Sending /\ sending'[d].sock # 0 /\ conn'[d].out < MaxOut
               /\ sending'[d].at = "idle" => sending'[d] = Idle
    <3>1. CASE d = c
      BY <1>1, <1>3, <1>4, <1>5, <3>1 DEF SendInv
    <3>2. CASE d # c
      BY <1>1, <1>3, <1>5, <3>2, Bounds DEF SendInv
    <3> QED BY <3>1, <3>2
  <2> QED BY <2>1 DEF SendInv
<1> QED BY <1>1, <1>6, <1>7, SendAside

\* A frame written by c reaches c's own device if any: nobody else has the id
\* on this socket.
LEMMA DeliveredFacts ==
    ASSUME ConnectorInv, NEW c \in Conns, sending[c].at = "pacing", SendAllowed(c)
    PROVE  LET after == Delivered(c, sending[c].sock)
           IN  /\ after \in [Conns -> DevRecord]
               /\ \A d \in Conns :
                     /\ d # c \/ dev[d].at # "open" => after[d] = dev[d]
                     /\ after[d].at = dev[d].at /\ after[d].id = dev[d].id
                     /\ after[d].sock = dev[d].sock /\ after[d].sent = dev[d].sent
               /\ dev[c].at = "open" => after[c].rcv = Append(dev[c].rcv, <<c, conn[c].out + 1>>)
<1> DEFINE s == sending[c].sock
           after == Delivered(c, s)
           hit(d) == link /\ s = gen /\ dev[d].at = "open" /\ dev[d].sock = s /\ dev[d].id = dev[c].id
           got(d) == [dev[d] EXCEPT !.rcv = Append(dev[d].rcv, <<c, conn[c].out + 1>>)]
<1>1. /\ Registered(c) /\ s = socket /\ s # 0
  BY DEF SendAllowed, ConnectorInv, SendInv
<1>2. s = gen
  BY <1>1 DEF ConnectorInv, SocketInv, ServiceTypeOK, TypeOK
<1>3. dev \in [Conns -> DevRecord]
  BY Types
<1>4. \A d \in Conns : hit(d) => d = c
  BY <1>1 DEF ConnectorInv, IdsInv, Busy
<1>5. dev[c].at = "open" => hit(c)
  BY <1>2 DEF ConnectorInv, SocketInv
<1>6. \A d \in Conns : after[d] = IF hit(d) THEN got(d) ELSE dev[d]
  BY DEF Delivered
<1>7. <<c, conn[c].out + 1>> \in Conns \X Nat
  <2>1. conn[c].out \in 0 .. MaxOut /\ MaxOut \in Nat
    BY Types, ConnFields, Bounds
  <2>2. conn[c].out + 1 \in Nat
    BY <2>1
  <2> QED BY <2>2
<1>8. ASSUME NEW d \in Conns
      PROVE  /\ got(d) \in DevRecord /\ got(d).at = dev[d].at /\ got(d).id = dev[d].id
             /\ got(d).sock = dev[d].sock /\ got(d).sent = dev[d].sent
             /\ got(d).rcv = Append(dev[d].rcv, <<c, conn[c].out + 1>>)
  <2>1. dev[d] \in DevRecord /\ dev[d].rcv \in Seq(Conns \X Nat)
    BY <1>3, Types
  <2>2. Append(dev[d].rcv, <<c, conn[c].out + 1>>) \in Seq(Conns \X Nat)
    BY <1>7, <2>1
  <2> QED BY <2>1, <2>2 DEF DevRecord
<1>9. after \in [Conns -> DevRecord]
  <2>1. after = [d \in Conns |-> IF hit(d) THEN got(d) ELSE dev[d]]
    BY DEF Delivered
  <2> HIDE DEF hit, got
  <2> QED BY <1>3, <1>8, <2>1
<1> HIDE DEF got, after
<1>10. \A d \in Conns : d # c \/ dev[d].at # "open" => after[d] = dev[d]
  BY <1>4, <1>6
<1>11. dev[c].at = "open" => after[c].rcv = Append(dev[c].rcv, <<c, conn[c].out + 1>>)
  BY <1>5, <1>6, <1>8
<1>12. \A d \in Conns : /\ after[d].at = dev[d].at /\ after[d].id = dev[d].id
                        /\ after[d].sock = dev[d].sock /\ after[d].sent = dev[d].sent
  BY <1>6, <1>8
<1> QED BY <1>9, <1>10, <1>11, <1>12 DEF after

\* One frame more.
LEMMA OwnFramesGrow ==
    ASSUME NEW c \in Conns, NEW r \in Seq(Conns \X Nat), OwnFrames(c, r), NEW n \in Nat, Len(r) = n
    PROVE  OwnFrames(c, Append(r, <<c, n + 1>>)) /\ Len(Append(r, <<c, n + 1>>)) = n + 1
<1> DEFINE s == Append(r, <<c, n + 1>>)
<1>1. s \in Seq(Conns \X Nat) /\ Len(s) = n + 1 /\ s[n + 1] = <<c, n + 1>>
      /\ \A i \in 1 .. n : s[i] = r[i]
  <2>1. <<c, n + 1>> \in Conns \X Nat
    OBVIOUS
  <2> QED BY <2>1
<1>2. \A i \in 1 .. n : r[i] = <<c, i>>
  BY DEF OwnFrames
<1>3. \A i \in 1 .. n + 1 : s[i] = <<c, i>>
  BY <1>1, <1>2
<1>4. s = [i \in 1 .. Len(s) |-> s[i]]
  BY <1>1
<1> HIDE DEF s
<1>5. s = [i \in 1 .. Len(s) |-> <<c, i>>]
  BY <1>1, <1>3, <1>4
<1> QED BY <1>1, <1>5 DEF OwnFrames, s

LEMMA SentStep ==
    ASSUME ConnectorInv, NEW c \in Conns, Sent(c)
    PROVE  ConnectorInv'
<1> DEFINE o0 == IF phase[c] = "hs1send" THEN CallReceive(conn[c]) ELSE conn[c]
           o == [o0 EXCEPT !.out = @ + 1]
           p == IF phase[c] = "hs1send" THEN "hs2" ELSE IF phase[c] = "ack" THEN "acked" ELSE phase[c]
<1>1. /\ sending[c].at = "pacing" /\ SendAllowed(c) /\ SendOver(c)
      /\ UNCHANGED <<runner, closed, gen, socket, registry, accepted, link, wire, acceptor, shutdown>>
      /\ dev' = Delivered(c, sending[c].sock)
      /\ pend' = IF phase[c] = "ack" THEN [pend EXCEPT ![c] = "acked"] ELSE pend
  BY DEF Sent, SendWrites
<1>2. conn' = [conn EXCEPT ![c] = o] /\ phase' = [phase EXCEPT ![c] = p]
  BY DEF Sent, SendWrites
<1>3. /\ phase[c] \in Sending /\ conn[c].out < MaxOut
  BY <1>1 DEF ConnectorInv, SendInv
<1>4. /\ phase[c] \in Live /\ p \in Live \ {"closing"} /\ p \in Phase
      /\ phase[c] \in {"hs1send", "ack", "serving"}
  BY <1>3 DEF Phase, Live, Working, Receiving, Timed, Sending
<1>5. ConnOK(conn[c]) /\ dev[c].sent \in Nat /\ QueueOK(conn[c], dev[c].sent)
      /\ conn[c].out \in 0 .. MaxOut /\ MaxOut \in Nat
  BY Types, ConnFields, Bounds DEF ConnectorInv, QueueInv
<1>6. /\ ConnOK(o0) /\ o0.closed = conn[c].closed /\ o0.out = conn[c].out
      /\ o0.got = conn[c].got /\ o0.inbound = conn[c].inbound /\ QueueOK(o0, dev[c].sent)
  BY <1>5, CallReceiveFacts
<1> HIDE DEF o0, p
<1>7. /\ o \in ConnRecord /\ o.closed = conn[c].closed /\ o.out = conn[c].out + 1
      /\ o.got = conn[c].got /\ o.inbound = conn[c].inbound /\ o.waits = o0.waits
  <2>1. o0 \in ConnRecord /\ o0.out + 1 \in 0 .. MaxOut
    BY <1>3, <1>5, <1>6 DEF ConnOK
  <2>2. o = [o0 EXCEPT !.out = o0.out + 1]
    BY <2>1 DEF ConnRecord
  <2> HIDE DEF o
  <2>3. o \in ConnRecord
    BY <2>1, <2>2 DEF ConnRecord
  <2> QED BY <1>6, <2>1, <2>2, <2>3 DEF ConnRecord
<1> HIDE DEF o
<1>8. ConnOK(o) /\ Count(o.got, o.inbound) = Taken(c) /\ QueueOK(o, dev[c].sent)
  <2>1. ConnOK(o)
    BY <1>6, <1>7 DEF ConnOK
  <2>2. QueueOK(o, dev[c].sent)
    BY <1>6, <1>7 DEF QueueOK
  <2> QED BY <1>7, <2>1, <2>2 DEF Taken
<1>9. /\ dev' \in [Conns -> DevRecord]
      /\ \A d \in Conns : /\ d # c \/ dev[d].at # "open" => dev'[d] = dev[d]
                          /\ dev'[d].at = dev[d].at /\ dev'[d].id = dev[d].id
                          /\ dev'[d].sock = dev[d].sock /\ dev'[d].sent = dev[d].sent
      /\ dev[c].at = "open" => dev'[c].rcv = Append(dev[c].rcv, <<c, conn[c].out + 1>>)
  BY <1>1, DeliveredFacts
<1>10. pend \in [Conns -> {"none", "pending", "acked", "denied", "undenied"}] /\ PairingInv
  BY DEF ConnectorInv, ServiceTypeOK
<1>11. /\ pend' \in [Conns -> {"none", "pending", "acked", "denied", "undenied"}]
       /\ \A d \in Conns : d # c => pend'[d] = pend[d]
       /\ pend'[c] = "pending" => pend[c] = "pending" /\ phase[c] # "ack"
  BY <1>1, <1>10
<1>12. /\ SocketInv' /\ RegistryInv' /\ IdsInv' /\ UnreadInv' /\ WireInv' /\ DataInv'
       /\ QueueInv' /\ AcceptInv' /\ ShutdownInv' /\ ServedInv'
       /\ conn' \in [Conns -> ConnRecord] /\ \A d \in Conns : ConnOK(conn'[d])
  BY <1>1, <1>2, <1>4, <1>7, <1>8, <1>9, <1>11, SessionMoves
<1>13. /\ phase \in [Conns -> Phase] /\ conn \in [Conns -> ConnRecord]
       /\ phase'[c] = p /\ conn'[c] = o
       /\ \A d \in Conns : d # c => phase'[d] = phase[d] /\ conn'[d] = conn[d]
  BY <1>2, Types DEF ConnectorInv, ServiceTypeOK
<1>14. /\ SendInv'
       /\ sending' \in [Conns -> [at : {"idle", "waiting", "pacing"}, sock : 0 .. MaxSockets]]
       /\ lock' \in Conns \cup {None}
  BY <1>1, <1>13, SendOverInv
<1>15. ServiceTypeOK'
  <2>1. TypeOK'
    BY <1>1, <1>9, <1>12, <1>14, TypesNext DEF ConnectorInv, ServiceTypeOK, TypeOK
  <2>2. phase' \in [Conns -> Phase]
    BY <1>2, <1>4, <1>13
  <2> QED BY <1>1, <1>11, <2>1, <2>2 DEF ConnectorInv, ServiceTypeOK
<1>16. PairingInv'
  BY <1>1, <1>10, <1>11, <1>13 DEF PairingInv
<1>17. DeliveryInv'
  <2>1. ASSUME NEW d \in Conns
        PROVE  /\ OwnFrames(d, dev'[d].rcv)
               /\ dev'[d].at = "open" => Len(dev'[d].rcv) = conn'[d].out
    <3>1. OwnFrames(d, dev[d].rcv) /\ (dev[d].at = "open" => Len(dev[d].rcv) = conn[d].out)
      BY OwnFramesOnly DEF ConnectorInv, DeliveryInv
    <3>2. CASE d # c
      BY <1>9, <1>13, <3>1, <3>2
    <3>3. CASE d = c /\ dev[c].at # "open"
      BY <1>9, <3>1, <3>3
    <3>4. CASE d = c /\ dev[c].at = "open"
      <4>1. dev[c].rcv \in Seq(Conns \X Nat) /\ Len(dev[c].rcv) = conn[c].out /\ conn[c].out \in Nat
        BY <1>5, <3>1, <3>4, Types
      <4>2. /\ OwnFrames(c, Append(dev[c].rcv, <<c, conn[c].out + 1>>))
            /\ Len(Append(dev[c].rcv, <<c, conn[c].out + 1>>)) = conn[c].out + 1
        BY <3>1, <3>4, <4>1, OwnFramesGrow
      <4> QED BY <1>7, <1>9, <1>13, <3>4, <4>2
    <3> QED BY <3>2, <3>3, <3>4
  <2> QED BY <2>1, OwnFramesOnly DEF DeliveryInv
<1> QED BY <1>12, <1>14, <1>15, <1>16, <1>17 DEF ConnectorInv

LEMMA SendFailsStep ==
    ASSUME ConnectorInv, NEW c \in Conns, SendFails(c)
    PROVE  ConnectorInv'
<1>1. /\ Ends(c)
      /\ \/ \E outcome \in {"denied", "undenied"} : pend' = [pend EXCEPT ![c] = outcome]
         \/ pend' = pend /\ phase[c] # "ack"
  BY DEF SendFails, RolledBack
<1>2. phase[c] \in Sending
  BY DEF SendFails, SendRaises, ConnectorInv, SendInv, Sending
<1>3. phase[c] \in Live
  BY <1>2, PhaseFacts
<1>4. pend \in [Conns -> {"none", "pending", "acked", "denied", "undenied"}] /\ PairingInv
  BY DEF ConnectorInv, ServiceTypeOK
<1>5. /\ pend' \in [Conns -> {"none", "pending", "acked", "denied", "undenied"}]
      /\ \A d \in Conns : d # c => pend'[d] = pend[d]
      /\ pend'[c] = "pending" => pend[c] = "pending" /\ phase[c] # "ack"
  BY <1>1, <1>4
<1>6. pend'[c] = "pending" => shutdown # "no"
  BY <1>4, <1>5 DEF PairingInv
<1> QED BY <1>1, <1>3, <1>5, <1>6, EndsStep

-----------------------------------------------------------------------------
(* Steps of the service                                                    *)

LEMMA TailFacts ==
    ASSUME NEW S, NEW s \in Seq(S), s # <<>>
    PROVE  /\ Tail(s) \in Seq(S) /\ Len(s) \in Nat \ {0} /\ Len(Tail(s)) = Len(s) - 1
           /\ Head(s) = s[1] /\ s[1] \in S /\ 1 \in 1 .. Len(s)
           /\ \A p \in 1 .. Len(Tail(s)) : p + 1 \in 2 .. Len(s) /\ Tail(s)[p] = s[p + 1]
           /\ \A p \in 2 .. Len(s) : p - 1 \in 1 .. Len(Tail(s)) /\ Tail(s)[p - 1] = s[p]
           /\ \A p \in 1 .. Len(s) : p = 1 \/ p \in 2 .. Len(s)
<1>1. /\ Tail(s) \in Seq(S) /\ Len(s) \in Nat \ {0} /\ Len(Tail(s)) = Len(s) - 1
      /\ Head(s) = s[1] /\ \A p \in 1 .. Len(Tail(s)) : Tail(s)[p] = s[p + 1]
  OBVIOUS
<1>2. s[1] \in S /\ 1 \in 1 .. Len(s)
  BY <1>1
<1> DEFINE n == Len(s)
           m == Len(Tail(s))
<1>3. n \in Nat \ {0} /\ m = n - 1
  BY <1>1
<1>4. \A p \in 1 .. m : Tail(s)[p] = s[p + 1]
  BY <1>1
<1> HIDE DEF n, m
<1>5. \A p \in 1 .. m : p + 1 \in 2 .. n /\ Tail(s)[p] = s[p + 1]
  <2>1. \A p \in 1 .. m : p + 1 \in 2 .. n
    BY <1>3
  <2> QED BY <1>4, <2>1
<1>6. \A p \in 2 .. n : p - 1 \in 1 .. m /\ Tail(s)[p - 1] = s[p]
  <2>1. \A p \in 2 .. n : p - 1 \in 1 .. m /\ (p - 1) + 1 = p
    BY <1>3
  <2> QED BY <1>4, <2>1
<1>7. \A p \in 1 .. n : p = 1 \/ p \in 2 .. n
  BY <1>3
<1> QED BY <1>1, <1>2, <1>5, <1>6, <1>7 DEF n, m

LEMMA AppendFacts ==
    ASSUME NEW S, NEW s \in Seq(S), NEW e \in S
    PROVE  /\ Append(s, e) \in Seq(S) /\ Len(s) \in Nat /\ Len(Append(s, e)) = Len(s) + 1
           /\ Append(s, e)[Len(s) + 1] = e /\ Len(s) + 1 \in 1 .. Len(Append(s, e))
           /\ \A p \in 1 .. Len(s) : p \in 1 .. Len(Append(s, e)) /\ Append(s, e)[p] = s[p]
           /\ \A p \in 1 .. Len(Append(s, e)) : p \in 1 .. Len(s) \/ p = Len(s) + 1
<1>1. /\ Append(s, e) \in Seq(S) /\ Len(s) \in Nat /\ Len(Append(s, e)) = Len(s) + 1
      /\ Append(s, e)[Len(s) + 1] = e /\ \A p \in 1 .. Len(s) : Append(s, e)[p] = s[p]
  OBVIOUS
<1> DEFINE n == Len(s)
           m == Len(Append(s, e))
<1>2. n \in Nat /\ m = n + 1
  BY <1>1
<1> HIDE DEF n, m
<1>3. n + 1 \in 1 .. m /\ 1 .. n \subseteq 1 .. m /\ \A p \in 1 .. m : p \in 1 .. n \/ p = n + 1
  BY <1>2
<1> QED BY <1>1, <1>3 DEF n, m

LEMMA AcceptConnectionStep ==
    ASSUME ConnectorInv, AcceptConnection
    PROVE  ConnectorInv'
<1> DEFINE h == Head(accepted)
<1>1. /\ acceptor /\ accepted # <<>> /\ accepted' = Tail(accepted)
      /\ UNCHANGED <<runner, closed, gen, socket, registry, conn, sending, lock, link, wire, dev,
                     pend, shutdown>>
  BY DEF AcceptConnection, routerVars
<1>2. accepted \in Seq(Conns \cup {None}) /\ phase \in [Conns -> Phase]
  BY Types DEF ConnectorInv, ServiceTypeOK
<1>3. /\ accepted' \in Seq(Conns \cup {None}) /\ Len(accepted) \in Nat \ {0}
      /\ Len(accepted') = Len(accepted) - 1
      /\ h = accepted[1] /\ h \in Conns \cup {None} /\ 1 \in 1 .. Len(accepted)
      /\ \A p \in 1 .. Len(accepted') : p + 1 \in 2 .. Len(accepted) /\ accepted'[p] = accepted[p + 1]
      /\ \A p \in 2 .. Len(accepted) : p - 1 \in 1 .. Len(accepted') /\ accepted'[p - 1] = accepted[p]
      /\ \A p \in 1 .. Len(accepted) : p = 1 \/ p \in 2 .. Len(accepted)
  BY <1>1, <1>2, TailFacts
<1>4. /\ phase' \in [Conns -> Phase] /\ acceptor' \in BOOLEAN
      /\ \A d \in Conns : phase'[d] = IF d = h THEN "starting" ELSE phase[d]
  <2>1. CASE h = None
    <3>1. phase' = phase /\ acceptor' = FALSE
      BY <2>1 DEF AcceptConnection
    <3> QED BY <1>2, <2>1, <3>1, Bounds
  <2>2. CASE h # None
    <3>1. phase' = [phase EXCEPT ![h] = "starting"] /\ acceptor' = acceptor
      BY <2>2 DEF AcceptConnection
    <3>2. "starting" \in Phase
      BY DEF Phase, Live
    <3> QED BY <1>1, <1>2, <1>3, <2>2, <3>1, <3>2
  <2> QED BY <2>1, <2>2
<1> HIDE DEF h
<1>5. AcceptInv /\ UnreadInv /\ ServedInv /\ SendInv /\ PairingInv /\ ShutdownInv /\ DataInv
      /\ IdsInv /\ SocketInv /\ RegistryInv
  BY DEF ConnectorInv
<1>6. h \in Conns => phase[h] = "none"
  BY <1>3, <1>5, Bounds DEF AcceptInv
<1>7. ServiceTypeOK'
  <2>1. TypeOK /\ Len(accepted) <= AcceptLimit /\ AcceptLimit \in Nat
    BY Bounds DEF ConnectorInv, ServiceTypeOK, TypeOK
  <2>2. Len(accepted') <= AcceptLimit
    BY <1>3, <2>1
  <2>3. TypeOK'
    BY <1>1, <1>3, <2>1, <2>2 DEF TypeOK
  <2> QED BY <1>1, <1>4, <2>3 DEF ConnectorInv, ServiceTypeOK
<1>8. SocketInv' /\ RegistryInv'
  BY <1>1, <1>5 DEF SocketInv, RegistryInv
<1>9. \A d : /\ (Registered(d)' <=> Registered(d)) /\ (OnWire(d)' <=> OnWire(d))
             /\ (OpenOnWire(d)' <=> OpenOnWire(d)) /\ Taken(d)' = Taken(d)
  BY <1>1 DEF Registered, OnWire, OpenOnWire, Taken
<1>10. IdsInv' /\ WireInv' /\ DataInv'
  <2>1. IdsInv'
    BY <1>1, <1>5, <1>9, IdsShrink DEF Busy
  <2>2. DataInv'
    BY <1>1, <1>5, <1>9, DataSame DEF Expected
  <2>3. WireInv'
    BY <1>1 DEF ConnectorInv, WireInv
  <2> QED BY <2>1, <2>2, <2>3
<1>11. UnreadInv'
  <2>1. ASSUME NEW d \in Conns, Unread(d) PROVE Unread(d)'
    <3>1. d # h /\ \A p \in 1 .. Len(accepted) : accepted[p] # d
      BY <1>3, <2>1 DEF Unread
    <3>2. \A p \in 1 .. Len(accepted') : accepted'[p] # d
      BY <1>3, <3>1
    <3> QED BY <1>1, <1>4, <1>9, <2>1, <3>1, <3>2 DEF Unread
  <2> QED BY <1>1, <1>5, <1>9, <2>1 DEF UnreadInv
<1>12. QueueInv'
  BY <1>1 DEF ConnectorInv, QueueInv
<1>13. SendInv'
  <2>1. \A d \in Conns : phase[d] \in Sending => phase'[d] = phase[d]
    BY <1>4, <1>6 DEF Sending
  <2> QED BY <1>1, <1>5, <2>1 DEF SendInv
<1>14. DeliveryInv'
  BY <1>1, OwnFramesOnly DEF ConnectorInv, DeliveryInv
<1>15. AcceptInv'
  <2>1. ASSUME NEW p \in 1 .. Len(accepted'), accepted'[p] # None
        PROVE  phase'[accepted'[p]] = "none"
    <3>1. p + 1 \in 1 .. Len(accepted) /\ p + 1 # 1 /\ accepted'[p] = accepted[p + 1]
      BY <1>3
    <3>2. accepted[p + 1] \in Conns /\ accepted[p + 1] # h
      BY <1>2, <1>3, <1>5, <2>1, <3>1 DEF AcceptInv
    <3> QED BY <1>4, <1>5, <2>1, <3>1, <3>2 DEF AcceptInv
  <2>2. ASSUME NEW p \in 1 .. Len(accepted'), NEW q \in 1 .. Len(accepted'),
               accepted'[p] = accepted'[q], accepted'[p] # None
        PROVE  p = q
    <3>1. /\ p + 1 \in 1 .. Len(accepted) /\ accepted'[p] = accepted[p + 1]
          /\ q + 1 \in 1 .. Len(accepted) /\ accepted'[q] = accepted[q + 1]
      BY <1>3
    <3>2. p + 1 = q + 1
      BY <1>5, <2>2, <3>1 DEF AcceptInv
    <3> QED BY <3>2
  <2> QED BY <2>1, <2>2 DEF AcceptInv
<1>16. PairingInv'
  BY <1>1, <1>4, <1>5, <1>6 DEF PairingInv
<1>17. ShutdownInv'
  BY <1>1, <1>5 DEF ShutdownInv, ClosedIsQuiet
<1>18. ServedInv'
  <2>1. ASSUME NEW d \in Conns, dev'[d].at = "open", ~OpenOnWire(d)'
        PROVE  /\ Registered(d)'
               /\ \/ phase'[d] \in Live \ {"closing"}
                  \/ \E q \in 1 .. Len(accepted') : accepted'[q] = d
    <3>1. /\ Registered(d)
          /\ \/ phase[d] \in Live \ {"closing"}
             \/ \E q \in 1 .. Len(accepted) : accepted[q] = d
      BY <1>1, <1>5, <1>9, <2>1 DEF ServedInv
    <3>2. CASE d = h
      BY <1>4, <1>9, <3>1, <3>2 DEF Live
    <3>3. CASE d # h
      BY <1>3, <1>4, <1>9, <3>1, <3>3
    <3> QED BY <3>2, <3>3
  <2> QED BY <2>1 DEF ServedInv
<1> QED BY <1>7, <1>8, <1>10, <1>11, <1>12, <1>13, <1>14, <1>15, <1>16, <1>17, <1>18 DEF ConnectorInv

LEMMA AcceptorStopsStep ==
    ASSUME ConnectorInv, AcceptorStops
    PROVE  ConnectorInv'
<1>1. /\ shutdown' = "cancelling" /\ acceptor' = FALSE
      /\ UNCHANGED <<runner, closed, gen, socket, registry, accepted, conn, link, wire, dev,
                     phase, pend, sending, lock>>
  BY DEF AcceptorStops, clientVars, routerVars
<1>2. /\ sending \in [Conns -> [at : {"idle", "waiting", "pacing"}, sock : 0 .. MaxSockets]]
      /\ lock \in Conns \cup {None} /\ SendInv
  BY DEF ConnectorInv, ServiceTypeOK, TypeOK
<1>3. SendInv'
  BY <1>1, <1>2 DEF SendInv
<1>4. ShutdownInv'
  BY <1>1 DEF ShutdownInv, ClosedIsQuiet
<1> QED BY <1>1, <1>2, <1>3, <1>4, Aside

LEMMA ServiceClosedStep ==
    ASSUME ConnectorInv, ServiceClosed
    PROVE  ConnectorInv'
<1>1. /\ shutdown = "cancelling" /\ shutdown' = "done" /\ acceptor' = acceptor /\ LiveCount = 0
      /\ UNCHANGED <<runner, closed, gen, socket, registry, accepted, conn, link, wire, dev,
                     phase, pend, sending, lock>>
  BY DEF ServiceClosed, clientVars, routerVars
<1>2. /\ sending \in [Conns -> [at : {"idle", "waiting", "pacing"}, sock : 0 .. MaxSockets]]
      /\ lock \in Conns \cup {None} /\ SendInv /\ acceptor \in BOOLEAN /\ phase \in [Conns -> Phase]
  BY DEF ConnectorInv, ServiceTypeOK, TypeOK
<1>3. SendInv'
  BY <1>1, <1>2 DEF SendInv
<1>4. \A c \in Conns : phase[c] \in {"none", "ended"}
  <2> DEFINE live == {c \in Conns : phase[c] \in Live}
  <2>1. IsFiniteSet(live)
    BY ConnectorAssumption, FS_Subset
  <2>2. live = {}
    BY <1>1, <2>1, FS_EmptySet DEF LiveCount
  <2> QED BY <1>2, <2>2 DEF Phase
<1>5. ShutdownInv'
  BY <1>1, <1>4 DEF ConnectorInv, ShutdownInv, ClosedIsQuiet
<1> QED BY <1>1, <1>2, <1>3, <1>5, Aside

-----------------------------------------------------------------------------
(* The socket's life                                                       *)

LEMMA MarkedNone == ASSUME ConnectorInv PROVE conn = MarkedClosed({})
<1>1. conn = [c \in Conns |-> conn[c]]
  BY Types
<1> QED BY <1>1 DEF MarkedClosed

LEMMA NobodyEnds == ASSUME ConnectorInv PROVE dev = DevicesEnd({})
<1>1. dev = [c \in Conns |-> dev[c]]
  BY Types
<1> QED BY <1>1 DEF DevicesEnd

\* There is no socket after the step: nothing is on the wire, no device is
\* open, and the connections cs that left the registry were marked closed.
LEMMA SocketGone ==
    ASSUME ConnectorInv, NEW cs,
           runner' \in RunnerPhase \ {"reading"}, closed' \in BOOLEAN, gen' = gen, socket' = 0,
           link' = FALSE, wire' = <<>>,
           dev' = DevicesEnd({c \in Conns : dev[c].at = "open"}),
           registry' \in [Ids -> Conns \cup {None}],
           \A i \in Ids : registry'[i] \in {registry[i], None},
           runner' \in {"connecting", "backoff"} => \A i \in Ids : registry'[i] = None,
           conn' = MarkedClosed(cs),
           \A i \in Ids : registry'[i] # None => registry'[i] \notin cs,
           \A d \in Conns : dev[d].at = "none" => d \notin cs,
           accepted' = accepted \/ (accepted' = Append(accepted, None) /\ Len(accepted) < AcceptLimit),
           UNCHANGED <<sending, lock, acceptor, phase, pend>>,
           shutdown' = shutdown \/ shutdown' \in {"connector", "acceptor"}
    PROVE  ConnectorInv'
<1>1. /\ SocketInv /\ RegistryInv /\ IdsInv /\ UnreadInv /\ SendInv /\ DeliveryInv /\ AcceptInv
      /\ PairingInv /\ ShutdownInv
  BY DEF ConnectorInv
<1>2. /\ conn' \in [Conns -> ConnRecord]
      /\ \A d \in Conns : /\ ConnOK(conn'[d]) /\ QueueOK(conn'[d], dev[d].sent)
                          /\ conn'[d].out = conn[d].out
                          /\ d \notin cs => conn'[d] = conn[d]
  BY MarkedClosedFacts
<1>3. /\ dev' \in [Conns -> DevRecord]
      /\ \A d \in Conns : /\ dev'[d].id = dev[d].id /\ dev'[d].sock = dev[d].sock
                          /\ dev'[d].sent = dev[d].sent /\ dev'[d].rcv = dev[d].rcv
                          /\ dev'[d].at # "open" /\ (dev'[d].at = "none" <=> dev[d].at = "none")
                          /\ dev[d].at = "none" => dev'[d] = dev[d]
  <2>1. {c \in Conns : dev[c].at = "open"} \in SUBSET Conns
    OBVIOUS
  <2> QED BY <2>1, DevicesEndFacts
<1>4. /\ accepted \in Seq(Conns \cup {None}) /\ Len(accepted) <= AcceptLimit /\ AcceptLimit \in Nat
      /\ Len(accepted) \in Nat
  BY Types, Bounds DEF ConnectorInv, ServiceTypeOK, TypeOK
<1>5. /\ accepted' \in Seq(Conns \cup {None}) /\ Len(accepted') <= AcceptLimit
      /\ \A p \in 1 .. Len(accepted) : p \in 1 .. Len(accepted') /\ accepted'[p] = accepted[p]
      /\ \A p \in 1 .. Len(accepted') : p \in 1 .. Len(accepted) \/ accepted'[p] = None
  <2>1. CASE accepted' = accepted
    BY <1>4, <2>1
  <2>2. CASE accepted' = Append(accepted, None) /\ Len(accepted) < AcceptLimit
    <3>1. /\ accepted' \in Seq(Conns \cup {None}) /\ Len(accepted') = Len(accepted) + 1
          /\ accepted'[Len(accepted) + 1] = None
          /\ \A p \in 1 .. Len(accepted) : p \in 1 .. Len(accepted') /\ accepted'[p] = accepted[p]
          /\ \A p \in 1 .. Len(accepted') : p \in 1 .. Len(accepted) \/ p = Len(accepted) + 1
      BY <1>4, <2>2, AppendFacts
    <3> QED BY <1>4, <2>2, <3>1
  <2> QED BY <2>1, <2>2
<1>6. ServiceTypeOK'
  <2>1. TypeOK'
    <3>1. wire' \in Seq(Frame) /\ Len(wire') <= MaxWire
      BY Bounds
    <3>2. /\ gen' \in 0 .. MaxSockets /\ socket' \in {0, gen'} /\ lock' \in Conns \cup {None}
          /\ sending' \in [Conns -> [at : {"idle", "waiting", "pacing"}, sock : 0 .. MaxSockets]]
      BY DEF ConnectorInv, ServiceTypeOK, TypeOK
    <3> QED BY <1>2, <1>3, <1>5, <3>1, <3>2, TypesNext
  <2> QED BY <2>1 DEF ConnectorInv, ServiceTypeOK
<1>7. SocketInv'
  BY <1>3 DEF SocketInv
<1>8. registry \in [Ids -> Conns \cup {None}]
  BY DEF ConnectorInv, ServiceTypeOK, TypeOK
<1>9. RegistryInv'
  <2>1. ASSUME NEW i \in Ids, registry'[i] # None
        PROVE  dev'[registry'[i]].id = i /\ ~conn'[registry'[i]].closed
    <3>1. registry'[i] = registry[i] /\ registry[i] \in Conns /\ registry[i] \notin cs
      BY <1>8, <2>1
    <3> QED BY <1>1, <1>2, <1>3, <2>1, <3>1 DEF RegistryInv
  <2> QED BY <1>1, <1>3, <2>1 DEF RegistryInv
<1>10. \A d \in Conns : Registered(d)' => Registered(d)
  <2>1. \A d \in Conns : dev[d].id \in Ids \cup {None}
    BY Types
  <2> QED BY <1>3, <2>1, Bounds DEF Registered
<1>11. \A d : ~OnWire(d)' /\ ~OpenOnWire(d)'
  <2>1. Len(wire') = 0
    OBVIOUS
  <2> QED BY <2>1 DEF OnWire, OpenOnWire
<1>12. IdsInv'
  BY <1>1, <1>3, <1>10, <1>11, IdsShrink DEF Busy
<1>13. UnreadInv'
  <2>1. ASSUME NEW d \in Conns, dev'[d].at = "none"
        PROVE  Unread(d)' /\ dev'[d].sent = 0 /\ dev'[d].rcv = <<>>
    <3>1. dev[d].at = "none" /\ dev'[d] = dev[d] /\ conn'[d] = conn[d]
      BY <1>2, <1>3, <2>1
    <3>2. Unread(d) /\ dev[d].sent = 0 /\ dev[d].rcv = <<>>
      BY <1>1, <3>1 DEF UnreadInv
    <3>3. \A p \in 1 .. Len(accepted') : accepted'[p] # d
      BY <1>5, <3>2, Bounds DEF Unread
    <3> QED BY <1>10, <3>1, <3>2, <3>3 DEF Unread
  <2> QED BY <1>11, <2>1 DEF UnreadInv
<1>14. WireInv' /\ DataInv'
  <2>1. Len(wire') = 0
    OBVIOUS
  <2> QED BY <2>1 DEF WireInv, DataInv, DataOK
<1>15. QueueInv'
  BY <1>2, <1>3 DEF QueueInv
<1>16. SendInv'
  BY <1>1, <1>2 DEF SendInv
<1>17. DeliveryInv'
  BY <1>1, <1>3, OwnFramesOnly DEF DeliveryInv
<1>18. AcceptInv'
  BY <1>1, <1>5 DEF AcceptInv
<1>19. PairingInv'
  BY <1>1 DEF PairingInv
<1>20. ShutdownInv'
  BY <1>1 DEF ShutdownInv, ClosedIsQuiet
<1>21. ServedInv'
  BY <1>3 DEF ServedInv
<1> QED BY <1>6, <1>7, <1>9, <1>12, <1>13, <1>14, <1>15, <1>16, <1>17, <1>18, <1>19, <1>20, <1>21
        DEF ConnectorInv

\* Without a socket no device is open.
LEMMA NoSocket ==
    ASSUME ConnectorInv, runner # "reading"
    PROVE  /\ socket = 0 /\ ~link /\ wire = <<>> /\ link = FALSE
           /\ dev = DevicesEnd({c \in Conns : dev[c].at = "open"})
<1>1. socket = 0 /\ ~link /\ wire = <<>> /\ link \in BOOLEAN
  BY DEF ConnectorInv, SocketInv, ServiceTypeOK, TypeOK
<1>2. {c \in Conns : dev[c].at = "open"} = {}
  BY <1>1 DEF ConnectorInv, SocketInv
<1> QED BY <1>1, <1>2, NobodyEnds

\* ConnectFails, BackoffEnds and ReadEnds, and a frame the router may not send.
LEMMA RunnerStep ==
    ASSUME ConnectorInv, UNCHANGED serviceVars,
           \/ ConnectFails \/ BackoffEnds \/ ReadEnds
           \/ /\ HandleViolation
              /\ UNCHANGED <<closed, gen, sending, lock>>
    PROVE  ConnectorInv'
<1> DEFINE cs == {}
<1>1. UNCHANGED <<closed, gen, registry, accepted, conn, sending, lock, acceptor, phase, pend, shutdown>>
  BY DEF ConnectFails, BackoffEnds, ReadEnds, HandleViolation, serviceVars
<1>2. conn' = MarkedClosed(cs)
  BY <1>1, MarkedNone
<1>3. /\ runner' \in RunnerPhase \ {"reading"} /\ socket' = 0 /\ link' = FALSE /\ wire' = <<>>
      /\ dev' = DevicesEnd({c \in Conns : dev[c].at = "open"})
      /\ runner' \in {"connecting", "backoff"} => runner \in {"connecting", "backoff"}
  <2>1. CASE ConnectFails \/ BackoffEnds
    <3>1. runner \in {"connecting", "backoff"} /\ runner' \in {"connecting", "backoff", "stopped"}
      BY <2>1 DEF ConnectFails, BackoffEnds
    <3>2. socket' = socket /\ link' = link /\ wire' = wire /\ dev' = dev
      BY <2>1 DEF ConnectFails, BackoffEnds, routerVars
    <3> QED BY <3>1, <3>2, NoSocket DEF RunnerPhase
  <2>2. CASE ~(ConnectFails \/ BackoffEnds)
    BY <2>2 DEF ReadEnds, HandleViolation, ReadFails, RunnerPhase
  <2> QED BY <2>1, <2>2
<1>4. /\ closed \in BOOLEAN /\ registry \in [Ids -> Conns \cup {None}] /\ SocketInv
  BY DEF ConnectorInv, ServiceTypeOK, TypeOK
<1>5. runner' \in {"connecting", "backoff"} => \A i \in Ids : registry'[i] = None
  BY <1>1, <1>3, <1>4 DEF SocketInv
<1>6. /\ \A i \in Ids : registry'[i] \in {registry[i], None} /\ registry'[i] \notin cs
      /\ \A d \in Conns : d \notin cs
  BY <1>1
<1> HIDE DEF cs
<1>7. UNCHANGED <<sending, lock, acceptor, phase, pend>>
  BY <1>1
<1> QED BY <1>1, <1>2, <1>3, <1>4, <1>5, <1>6, <1>7, SocketGone

LEMMA ServiceClosesStep ==
    ASSUME ConnectorInv, ServiceCloses
    PROVE  ConnectorInv'
<1> DEFINE cs == {}
<1>1. /\ shutdown' = "connector" /\ closed' = TRUE /\ link' = FALSE /\ wire' = <<>>
      /\ dev' = DevicesEnd({c \in Conns : dev[c].at = "open"})
      /\ UNCHANGED <<gen, registry, accepted, conn, sending, lock, acceptor, phase, pend>>
  BY DEF ServiceCloses, CloseBegins
<1>2. socket' = 0
  BY NoSocket DEF ServiceCloses, CloseBegins
<1>3. runner' \in RunnerPhase \ {"reading"} /\ runner' \notin {"connecting", "backoff"}
  BY DEF ServiceCloses, CloseBegins, RunnerPhase
<1>4. conn' = MarkedClosed(cs) /\ registry \in [Ids -> Conns \cup {None}]
  BY <1>1, MarkedNone DEF ConnectorInv, ServiceTypeOK, TypeOK
<1>5. /\ \A i \in Ids : registry'[i] \in {registry[i], None} /\ registry'[i] \notin cs
      /\ \A d \in Conns : d \notin cs
  BY <1>1
<1> HIDE DEF cs
<1>6. UNCHANGED <<sending, lock, acceptor, phase, pend>>
  BY <1>1
<1> QED BY <1>1, <1>2, <1>3, <1>4, <1>5, <1>6, SocketGone

\* The connections that end have a device.
LEMMA RegisteredHaveDevice ==
    ASSUME ConnectorInv, NEW i \in Ids, registry[i] # None
    PROVE  registry[i] \in Conns /\ dev[registry[i]].at # "none" /\ Registered(registry[i])
<1>1. registry[i] \in Conns
  BY DEF ConnectorInv, ServiceTypeOK, TypeOK
<1>2. dev[registry[i]].id = i
  BY DEF ConnectorInv, RegistryInv
<1> QED BY <1>1, <1>2, Bounds DEF ConnectorInv, RegistryInv, Registered

LEMMA DroppedStep ==
    ASSUME ConnectorInv, Dropped, UNCHANGED serviceVars
    PROVE  ConnectorInv'
<1> DEFINE cs == {registry[i] : i \in Ids} \ {None}
<1>1. /\ runner # "reading" /\ registry' = [i \in Ids |-> None] /\ conn' = MarkedClosed(cs)
      /\ UNCHANGED <<closed, gen, socket, accepted, sending, lock, link, wire, dev,
                     acceptor, phase, pend, shutdown>>
  BY DEF Dropped, EndAllConnections, routerVars, serviceVars
<1>2. runner' \in RunnerPhase \ {"reading"}
  BY DEF Dropped, RunnerPhase
<1>3. socket' = 0 /\ link' = FALSE /\ wire' = <<>>
      /\ dev' = DevicesEnd({c \in Conns : dev[c].at = "open"})
  BY <1>1, NoSocket
<1>4. closed \in BOOLEAN /\ registry' \in [Ids -> Conns \cup {None}] /\ \A i \in Ids : registry'[i] = None
  BY <1>1 DEF ConnectorInv, ServiceTypeOK, TypeOK
<1>5. \A d \in Conns : dev[d].at = "none" => d \notin cs
  BY RegisteredHaveDevice
<1> HIDE DEF cs
<1>6. \A i \in Ids : registry'[i] \in {registry[i], None} /\ (registry'[i] # None => registry'[i] \notin cs)
  BY <1>4
<1>7. UNCHANGED <<sending, lock, acceptor, phase, pend>> /\ gen' = gen /\ closed' \in BOOLEAN
  BY <1>1, <1>4
<1> QED BY <1>1, <1>2, <1>3, <1>4, <1>5, <1>6, <1>7, SocketGone

LEMMA ConnectorClosesStep ==
    ASSUME ConnectorInv, ConnectorCloses
    PROVE  ConnectorInv'
<1> DEFINE cs == {registry[i] : i \in Ids} \ {None}
<1>1. /\ runner = "stopped" /\ registry' = [i \in Ids |-> None] /\ conn' = MarkedClosed(cs)
      /\ socket' = 0 /\ shutdown' = "acceptor"
      /\ accepted' = IF Len(accepted) < AcceptLimit THEN Append(accepted, None) ELSE accepted
      /\ UNCHANGED <<runner, closed, gen, sending, lock, link, wire, dev, acceptor, phase, pend>>
  BY DEF ConnectorCloses, CloseEnds, EndAllConnections, routerVars
<1>2. runner' \in RunnerPhase \ {"reading"} /\ runner # "reading"
  BY <1>1 DEF RunnerPhase
<1>3. link' = FALSE /\ wire' = <<>>
      /\ dev' = DevicesEnd({c \in Conns : dev[c].at = "open"})
  BY <1>1, <1>2, NoSocket
<1>4. closed \in BOOLEAN /\ registry' \in [Ids -> Conns \cup {None}] /\ \A i \in Ids : registry'[i] = None
  BY <1>1 DEF ConnectorInv, ServiceTypeOK, TypeOK
<1>5. \A d \in Conns : dev[d].at = "none" => d \notin cs
  BY RegisteredHaveDevice
<1>6. accepted' = accepted \/ (accepted' = Append(accepted, None) /\ Len(accepted) < AcceptLimit)
  <2>1. CASE Len(accepted) < AcceptLimit
    BY <1>1, <2>1
  <2>2. CASE ~(Len(accepted) < AcceptLimit)
    BY <1>1, <2>2
  <2> QED BY <2>1, <2>2
<1> HIDE DEF cs
<1>7. \A i \in Ids : registry'[i] \in {registry[i], None} /\ (registry'[i] # None => registry'[i] \notin cs)
  BY <1>4
<1>8. UNCHANGED <<sending, lock, acceptor, phase, pend>> /\ gen' = gen /\ closed' \in BOOLEAN
  BY <1>1, <1>4
<1> QED BY <1>1, <1>2, <1>3, <1>4, <1>5, <1>6, <1>7, <1>8, SocketGone

LEMMA ConnectStep ==
    ASSUME ConnectorInv, Connect, UNCHANGED serviceVars
    PROVE  ConnectorInv'
<1>1. /\ runner = "connecting" /\ gen < MaxSockets /\ gen' = gen + 1 /\ socket' = gen + 1
      /\ runner' = "reading" /\ link' = TRUE /\ wire' = <<>>
      /\ UNCHANGED <<closed, registry, accepted, conn, sending, lock, dev, acceptor, phase, pend,
                     shutdown>>
  BY DEF Connect, serviceVars
<1>2. wire = <<>> /\ ~link
  BY <1>1 DEF ConnectorInv, SocketInv
<1>3. \A d \in Conns : dev[d].at # "open"
  BY <1>2 DEF ConnectorInv, SocketInv
<1>4. \A i \in Ids : registry[i] = None
  BY <1>1 DEF ConnectorInv, SocketInv
<1>5. wire' = wire
  BY <1>1, <1>2
<1>6. gen \in Nat /\ MaxSockets \in Nat /\ gen' \in 0 .. MaxSockets /\ gen' # 0 /\ socket' = gen'
  <2>1. gen \in 0 .. MaxSockets /\ MaxSockets \in Nat
    BY Bounds DEF ConnectorInv, ServiceTypeOK, TypeOK
  <2> QED BY <1>1, <2>1
<1>7. ServiceTypeOK'
  <2>1. TypeOK'
    BY <1>1, <1>5, <1>6 DEF ConnectorInv, ServiceTypeOK, TypeOK, RunnerPhase
  <2> QED BY <1>1, <2>1 DEF ConnectorInv, ServiceTypeOK
<1>8. SocketInv'
  BY <1>1, <1>3, <1>6 DEF SocketInv
<1>9. RegistryInv'
  BY <1>1 DEF ConnectorInv, RegistryInv
<1>10. \A d : /\ (Registered(d)' <=> Registered(d)) /\ (OnWire(d)' <=> OnWire(d))
              /\ (OpenOnWire(d)' <=> OpenOnWire(d)) /\ (Unread(d)' <=> Unread(d))
  BY <1>1, <1>5 DEF Registered, OnWire, OpenOnWire, Unread
<1>11. IdsInv'
  BY <1>1, <1>10, IdsShrink DEF ConnectorInv, Busy
<1>12. UnreadInv'
  BY <1>1, <1>10 DEF ConnectorInv, UnreadInv
<1>13. WireInv'
  BY <1>1, <1>5 DEF ConnectorInv, WireInv
<1>14. DataInv'
  <2>1. Len(wire') = 0
    BY <1>1
  <2>2. \A d \in Conns : ~Expected(d)'
    <3>1. \A d \in Conns : ~Registered(d)
      BY <1>4, Types, Bounds DEF Registered
    <3> QED BY <1>10, <2>1, <3>1 DEF Expected, OpenOnWire
  <2> QED BY <2>1, <2>2 DEF DataInv, DataOK
<1>15. QueueInv' /\ AcceptInv' /\ PairingInv' /\ ShutdownInv' /\ SendInv'
  BY <1>1 DEF ConnectorInv, QueueInv, AcceptInv, PairingInv, ShutdownInv, ClosedIsQuiet, SendInv
<1>16. DeliveryInv'
  BY <1>1, OwnFramesOnly DEF ConnectorInv, DeliveryInv
<1>17. ServedInv'
  BY <1>1, <1>3 DEF ServedInv
<1> QED BY <1>7, <1>8, <1>9, <1>11, <1>12, <1>13, <1>14, <1>15, <1>16, <1>17 DEF ConnectorInv

-----------------------------------------------------------------------------
(* Steps of the router and the devices                                     *)

\* What the router's side does not touch.
LEMMA ClientAside ==
    ASSUME ConnectorInv, UNCHANGED clientVars, UNCHANGED serviceVars,
           dev' \in [Conns -> DevRecord], link' \in BOOLEAN, wire' \in Seq(Frame), Len(wire') <= MaxWire
    PROVE  /\ ServiceTypeOK' /\ SendInv' /\ AcceptInv' /\ PairingInv' /\ ShutdownInv'
           /\ UNCHANGED <<runner, closed, gen, socket, registry, accepted, conn, sending, lock,
                          acceptor, phase, pend, shutdown>>
<1>1. UNCHANGED <<runner, closed, gen, socket, registry, accepted, conn, sending, lock,
                  acceptor, phase, pend, shutdown>>
  BY DEF clientVars, serviceVars
<1>2. TypeOK'
  <2>1. conn' \in [Conns -> ConnRecord] /\ \A d \in Conns : ConnOK(conn'[d])
    BY <1>1, Types
  <2> QED BY <1>1, <2>1, TypesNext DEF ConnectorInv, ServiceTypeOK, TypeOK
<1>3. ServiceTypeOK'
  BY <1>1, <1>2 DEF ConnectorInv, ServiceTypeOK
<1>4. SendInv' /\ AcceptInv' /\ PairingInv' /\ ShutdownInv'
  BY <1>1 DEF ConnectorInv, SendInv, AcceptInv, PairingInv, ShutdownInv, ClosedIsQuiet
<1> QED BY <1>1, <1>3, <1>4

\* One frame more on the wire.
LEMMA WireGrows ==
    ASSUME ConnectorInv, RouterUp, NEW m \in Frame, wire' = Append(wire, m)
    PROVE  /\ wire' \in Seq(Frame) /\ Len(wire') <= MaxWire /\ Len(wire) \in Nat
           /\ Len(wire') = Len(wire) + 1 /\ wire'[Len(wire) + 1] = m
           /\ Len(wire) + 1 \in 1 .. Len(wire')
           /\ \A p \in 1 .. Len(wire) : p \in 1 .. Len(wire') /\ wire'[p] = wire[p]
           /\ \A p \in 1 .. Len(wire') : p \in 1 .. Len(wire) \/ p = Len(wire) + 1
           /\ \A d : OnWire(d)' <=> OnWire(d) \/ m.c = d
           /\ \A d : OpenOnWire(d)' <=> OpenOnWire(d) \/ (m.c = d /\ m.t = "open")
<1>1. wire \in Seq(Frame)
  BY Types
<1>2. /\ wire' \in Seq(Frame) /\ Len(wire) \in Nat
      /\ Len(wire') = Len(wire) + 1 /\ wire'[Len(wire) + 1] = m
      /\ Len(wire) + 1 \in 1 .. Len(wire')
      /\ \A p \in 1 .. Len(wire) : p \in 1 .. Len(wire') /\ wire'[p] = wire[p]
      /\ \A p \in 1 .. Len(wire') : p \in 1 .. Len(wire) \/ p = Len(wire) + 1
  <2> HIDE DEF Frame
  <2> QED BY <1>1, AppendFacts
<1>3. Len(wire') <= MaxWire
  BY <1>2, Bounds DEF RouterUp
<1>4. \A d : OnWire(d)' <=> OnWire(d) \/ m.c = d
  BY <1>2 DEF OnWire
<1>5. \A d : OpenOnWire(d)' <=> OpenOnWire(d) \/ (m.c = d /\ m.t = "open")
  BY <1>2 DEF OpenOnWire
<1> QED BY <1>2, <1>3, <1>4, <1>5

\* The frame is no data of c: what c is to read stays the same.
LEMMA DataKept ==
    ASSUME ConnectorInv, RouterUp, NEW m \in Frame, wire' = Append(wire, m), runner' = runner,
           NEW c \in Conns, m.t # "data" \/ m.c # c, dev'[c].sent = dev[c].sent,
           Expected(c)' => Expected(c), Taken(c)' = Taken(c)
    PROVE  DataOK(c)'
<1>1. /\ \A p \in 1 .. Len(wire) : p \in 1 .. Len(wire') /\ wire'[p] = wire[p]
      /\ \A p \in 1 .. Len(wire') : p \in 1 .. Len(wire) \/ p = Len(wire) + 1
      /\ wire'[Len(wire) + 1] = m
  BY WireGrows
<1>2. \A p \in 1 .. Len(wire') : DataAt(p, c)' => p \in 1 .. Len(wire) /\ DataAt(p, c) /\ wire'[p] = wire[p]
  BY <1>1 DEF DataAt
<1>3. \A p \in 1 .. Len(wire) : DataAt(p, c) => p \in 1 .. Len(wire') /\ DataAt(p, c)' /\ wire'[p] = wire[p]
  BY <1>1 DEF DataAt
<1>4. DataOK(c)
  BY DEF ConnectorInv, DataInv
<1>5. \A p \in 1 .. Len(wire') : DataAt(p, c)' =>
          /\ wire'[p].n \in 1 .. dev'[c].sent
          /\ Expected(c)' => wire'[p].n > Taken(c)'
  BY <1>2, <1>4 DEF DataOK
<1>6. \A p, q \in 1 .. Len(wire') :
          DataAt(p, c)' /\ DataAt(q, c)' /\ p < q => wire'[p].n < wire'[q].n
  BY <1>2, <1>4 DEF DataOK
<1>7. Expected(c)' /\ runner' = "reading" =>
          \A k \in Taken(c)' + 1 .. dev'[c].sent :
              \E p \in 1 .. Len(wire') : DataAt(p, c)' /\ wire'[p].n = k
  <2>1. SUFFICES ASSUME Expected(c)', runner' = "reading", NEW k \in Taken(c) + 1 .. dev[c].sent
                 PROVE  \E p \in 1 .. Len(wire') : DataAt(p, c)' /\ wire'[p].n = k
    OBVIOUS
  <2>2. PICK p \in 1 .. Len(wire) : DataAt(p, c) /\ wire[p].n = k
    BY <1>4, <2>1 DEF DataOK
  <2> QED BY <1>3, <2>2
<1> QED BY <1>5, <1>6, <1>7 DEF DataOK

LEMMA DeviceOpensStep ==
    ASSUME ConnectorInv, NEW c \in Conns, NEW id \in Ids, DeviceOpens(c, id), UNCHANGED serviceVars
    PROVE  ConnectorInv'
<1> DEFINE m == [t |-> "open", c |-> c, n |-> 0]
           e == [dev[c] EXCEPT !.at = "open", !.id = id, !.sock = gen]
<1>1. /\ RouterUp /\ dev[c].at = "none" /\ id \notin UsedIds
      /\ UNCHANGED clientVars /\ link' = link /\ wire' = Append(wire, m)
  BY DEF DeviceOpens
<1>2. dev \in [Conns -> DevRecord] /\ gen \in 0 .. MaxSockets /\ link \in BOOLEAN
  BY Types DEF ConnectorInv, ServiceTypeOK, TypeOK
<1>3. dev' = [dev EXCEPT ![c] = e]
  BY <1>2 DEF DeviceOpens, DevRecord
<1>4. /\ e \in DevRecord /\ e.at = "open" /\ e.id = id /\ e.sock = gen
      /\ e.sent = dev[c].sent /\ e.rcv = dev[c].rcv
  BY <1>2 DEF DevRecord
<1> HIDE DEF e
<1>5. /\ dev' \in [Conns -> DevRecord] /\ dev'[c] = e
      /\ \A d \in Conns : d # c => dev'[d] = dev[d]
  BY <1>2, <1>3, <1>4
<1>6. m \in Frame /\ m.t = "open" /\ m.c = c
  BY Bounds DEF Frame
<1> HIDE DEF m
<1>7. /\ wire' \in Seq(Frame) /\ Len(wire') <= MaxWire /\ Len(wire) \in Nat
      /\ Len(wire') = Len(wire) + 1 /\ wire'[Len(wire) + 1] = m
      /\ Len(wire) + 1 \in 1 .. Len(wire')
      /\ \A p \in 1 .. Len(wire) : p \in 1 .. Len(wire') /\ wire'[p] = wire[p]
      /\ \A p \in 1 .. Len(wire') : p \in 1 .. Len(wire) \/ p = Len(wire) + 1
      /\ \A d : OnWire(d)' <=> OnWire(d) \/ m.c = d
      /\ \A d : OpenOnWire(d)' <=> OpenOnWire(d) \/ (m.c = d /\ m.t = "open")
  BY <1>1, <1>6, WireGrows
<1>8. /\ ServiceTypeOK' /\ SendInv' /\ AcceptInv' /\ PairingInv' /\ ShutdownInv'
      /\ UNCHANGED <<runner, closed, gen, socket, registry, accepted, conn, sending, lock,
                     acceptor, phase, pend, shutdown>>
  BY <1>1, <1>2, <1>5, <1>7, ClientAside
<1>9. /\ SocketInv /\ RegistryInv /\ IdsInv /\ UnreadInv /\ WireInv /\ QueueInv /\ DeliveryInv
      /\ ServedInv
  BY DEF ConnectorInv
<1>10. ~OnWire(c) /\ dev[c].sent = 0 /\ dev[c].rcv = <<>> /\ Unread(c) /\ dev[c].id = None
  BY <1>1, <1>9 DEF UnreadInv, RegistryInv
<1>11. \A i \in Ids : registry[i] # None => registry[i] \in Conns /\ registry[i] # c
  BY <1>1, RegisteredHaveDevice
<1>12. \A d \in Conns : Registered(d)' <=> Registered(d)
  BY <1>4, <1>5, <1>8, <1>10, <1>11, Bounds DEF Registered
<1>13. SocketInv'
  BY <1>1, <1>4, <1>5, <1>8, <1>9 DEF SocketInv, RouterUp
<1>14. RegistryInv'
  <2>1. \A i \in Ids : registry'[i] # None => dev'[registry'[i]].id = i /\ ~conn'[registry'[i]].closed
    BY <1>5, <1>8, <1>9, <1>11 DEF RegistryInv
  <2>2. \A d \in Conns : dev'[d].at = "none" <=> dev'[d].id = None
    BY <1>4, <1>5, <1>9, Bounds DEF RegistryInv
  <2> QED BY <2>1, <2>2 DEF RegistryInv
<1>15. IdsInv'
  <2>1. \A d \in Conns : d # c => (Busy(d)' <=> Busy(d)) /\ dev'[d].id = dev[d].id
    BY <1>5, <1>6, <1>7, <1>12 DEF Busy
  <2>2. ASSUME NEW d \in Conns, Busy(d) PROVE dev[d].id # id
    <3>1. CASE dev[d].at = "open" \/ Registered(d)
      BY <1>1, <3>1 DEF UsedIds
    <3>2. CASE OnWire(d)
      <4>1. PICK p \in 1 .. Len(wire) : wire[p].c = d
        BY <3>2 DEF OnWire
      <4>2. wire[p].t # "bad"
        BY <1>9, <4>1, Bounds DEF WireInv
      <4> QED BY <1>1, <4>1, <4>2 DEF UsedIds
    <3> QED BY <2>2, <3>1, <3>2 DEF Busy
  <2>3. ASSUME NEW d \in Conns, NEW f \in Conns, Busy(d)', Busy(f)', dev'[d].id = dev'[f].id
        PROVE  d = f
    BY <1>4, <1>5, <1>9, <2>1, <2>2, <2>3 DEF IdsInv
  <2> QED BY <2>3 DEF IdsInv
<1>16. UnreadInv'
  <2>1. \A d \in Conns : Unread(d)' <=> Unread(d)
    BY <1>8, <1>12 DEF Unread
  <2> QED BY <1>4, <1>5, <1>6, <1>7, <1>9, <1>10, <2>1 DEF UnreadInv
<1>17. WireInv'
  <2>1. ASSUME NEW p \in 1 .. Len(wire')
        PROVE  /\ wire'[p].t # "bad" => wire'[p].c \in Conns
               /\ wire'[p].t = "bad" => wire'[p].c = None
               /\ wire'[p].t = "open" =>
                     \A q \in 1 .. Len(wire') : wire'[q].c = wire'[p].c => q >= p
               /\ wire'[p].t = "close" =>
                     /\ dev'[wire'[p].c].at # "open"
                     /\ \A q \in 1 .. Len(wire') : wire'[q].c = wire'[p].c => q <= p
    <3>1. \A q \in 1 .. Len(wire) : wire[q].c # c
      BY <1>10 DEF OnWire
    <3>2. CASE p = Len(wire) + 1
      BY <1>6, <1>7, <3>1, <3>2
    <3>3. CASE p \in 1 .. Len(wire)
      <4>1. Len(wire) + 1 >= p
        BY <1>7, <3>3
      <4>2. wire[p].t # "bad" => wire[p].c \in Conns
        BY <1>9, <3>3 DEF WireInv
      <4>3. wire'[p] = wire[p] /\ wire[p].c # c
        BY <1>7, <3>1, <3>3
      <4> QED BY <1>5, <1>6, <1>7, <1>9, <3>3, <4>1, <4>2, <4>3 DEF WireInv
    <3> QED BY <1>7, <3>2, <3>3
  <2> QED BY <2>1 DEF WireInv
<1>18. DataInv'
  <2>1. ASSUME NEW d \in Conns PROVE DataOK(d)'
    <3>1. Taken(d)' = Taken(d) /\ dev'[d].sent = dev[d].sent
      BY <1>4, <1>5, <1>8 DEF Taken
    <3>2. CASE d # c
      <4>1. Expected(d)' => Expected(d)
        BY <1>6, <1>7, <1>12, <3>2 DEF Expected
      <4> QED BY <1>1, <1>6, <1>8, <3>1, <3>2, <4>1, DataKept
    <3>3. CASE d = c
      <4>1. \A p \in 1 .. Len(wire') : ~DataAt(p, c)'
        BY <1>6, <1>7, <1>10 DEF DataAt, OnWire
      <4>2. Taken(c)' = 0 /\ dev'[c].sent = 0
        <5>1. conn[c].got = <<>> /\ conn[c].inbound = <<>>
          BY <1>10 DEF Unread
        <5>2. Taken(c) = 0
          BY <5>1 DEF Taken, Count
        <5> QED BY <1>10, <3>1, <3>3, <5>2
      <4> QED BY <3>3, <4>1, <4>2 DEF DataOK
    <3> QED BY <3>2, <3>3
  <2> QED BY <2>1 DEF DataInv
<1>19. QueueInv'
  BY <1>4, <1>5, <1>8, <1>9 DEF QueueInv
<1>20. DeliveryInv'
  <2>1. \A d \in Conns : dev'[d].rcv = dev[d].rcv
    BY <1>4, <1>5
  <2>2. Len(dev'[c].rcv) = conn'[c].out
    BY <1>8, <1>10, <2>1 DEF Unread
  <2>3. OnlyOwnFrames'
    BY <1>9, <2>1, OwnFramesOnly DEF DeliveryInv
  <2> QED BY <1>5, <1>8, <1>9, <2>2, <2>3 DEF DeliveryInv
<1>21. ServedInv'
  BY <1>5, <1>6, <1>7, <1>8, <1>9, <1>12 DEF ServedInv
<1> QED BY <1>8, <1>13, <1>14, <1>15, <1>16, <1>17, <1>18, <1>19, <1>20, <1>21 DEF ConnectorInv

\* A device that is open sends a frame or hangs up.
LEMMA OpenDeviceSpeaks ==
    ASSUME ConnectorInv, NEW c \in Conns, NEW m \in Frame, NEW e \in DevRecord,
           RouterUp, dev[c].at = "open", UNCHANGED clientVars, UNCHANGED serviceVars, link' = link,
           wire' = Append(wire, m), dev' = [dev EXCEPT ![c] = e],
           m.c = c, m.t \in {"data", "close"},
           e.id = dev[c].id, e.sock = dev[c].sock, e.rcv = dev[c].rcv, e.at \in {"open", "gone"},
           m.t = "close" => e.at = "gone",
           QueueOK(conn[c], e.sent), DataOK(c)'
    PROVE  ConnectorInv'
<1>1. dev \in [Conns -> DevRecord] /\ link \in BOOLEAN
  BY Types DEF ConnectorInv, ServiceTypeOK, TypeOK
<1>2. /\ dev' \in [Conns -> DevRecord] /\ dev'[c] = e
      /\ \A d \in Conns : d # c => dev'[d] = dev[d]
  BY <1>1
<1>3. /\ wire' \in Seq(Frame) /\ Len(wire') <= MaxWire /\ Len(wire) \in Nat
      /\ Len(wire') = Len(wire) + 1 /\ wire'[Len(wire) + 1] = m
      /\ Len(wire) + 1 \in 1 .. Len(wire')
      /\ \A p \in 1 .. Len(wire) : p \in 1 .. Len(wire') /\ wire'[p] = wire[p]
      /\ \A p \in 1 .. Len(wire') : p \in 1 .. Len(wire) \/ p = Len(wire) + 1
      /\ \A d : OnWire(d)' <=> OnWire(d) \/ m.c = d
      /\ \A d : OpenOnWire(d)' <=> OpenOnWire(d) \/ (m.c = d /\ m.t = "open")
  BY WireGrows
<1>4. /\ ServiceTypeOK' /\ SendInv' /\ AcceptInv' /\ PairingInv' /\ ShutdownInv'
      /\ UNCHANGED <<runner, closed, gen, socket, registry, accepted, conn, sending, lock,
                     acceptor, phase, pend, shutdown>>
  BY <1>1, <1>2, <1>3, ClientAside
<1>5. /\ SocketInv /\ RegistryInv /\ IdsInv /\ UnreadInv /\ WireInv /\ QueueInv /\ DeliveryInv
      /\ ServedInv
  BY DEF ConnectorInv
<1>6. \A d \in Conns : /\ dev'[d].id = dev[d].id /\ dev'[d].sock = dev[d].sock
                       /\ dev'[d].rcv = dev[d].rcv /\ (dev'[d].at = "open" => dev[d].at = "open")
                       /\ (dev'[d].at = "none" <=> dev[d].at = "none")
  BY <1>2
<1>7. \A d \in Conns : Registered(d)' <=> Registered(d)
  BY <1>4, <1>6 DEF Registered
<1>8. \A d : OpenOnWire(d)' <=> OpenOnWire(d)
  BY <1>3
<1>9. SocketInv'
  BY <1>4, <1>5, <1>6 DEF SocketInv
<1>10. RegistryInv'
  <2>1. \A i \in Ids : registry'[i] # None => dev'[registry'[i]].id = i /\ ~conn'[registry'[i]].closed
    BY <1>4, <1>5, <1>6, RegisteredHaveDevice DEF RegistryInv
  <2> QED BY <1>5, <1>6, <2>1 DEF RegistryInv
<1>11. IdsInv'
  <2>1. \A d \in Conns : Busy(d)' => Busy(d)
    BY <1>3, <1>6, <1>7 DEF Busy
  <2> QED BY <1>5, <1>6, <2>1, IdsShrink
<1>12. UnreadInv'
  <2>1. \A d \in Conns : Unread(d)' <=> Unread(d)
    BY <1>4, <1>7 DEF Unread
  <2>2. \A d \in Conns : dev'[d].at = "none" => d # c
    BY <1>6
  <2> QED BY <1>2, <1>3, <1>5, <1>8, <2>1, <2>2 DEF UnreadInv
<1>13. WireInv'
  <2>1. ASSUME NEW p \in 1 .. Len(wire')
        PROVE  /\ wire'[p].t # "bad" => wire'[p].c \in Conns
               /\ wire'[p].t = "bad" => wire'[p].c = None
               /\ wire'[p].t = "open" =>
                     \A q \in 1 .. Len(wire') : wire'[q].c = wire'[p].c => q >= p
               /\ wire'[p].t = "close" =>
                     /\ dev'[wire'[p].c].at # "open"
                     /\ \A q \in 1 .. Len(wire') : wire'[q].c = wire'[p].c => q <= p
    <3>1. CASE p = Len(wire) + 1
      <4>1. wire'[p] = m /\ \A q \in 1 .. Len(wire') : q <= p
        BY <1>3, <3>1
      <4> QED BY <1>2, <4>1
    <3>2. CASE p \in 1 .. Len(wire)
      <4>1. Len(wire) + 1 >= p /\ wire'[p] = wire[p]
        BY <1>3, <3>2
      <4>2. /\ wire[p].t # "bad" => wire[p].c \in Conns
            /\ wire[p].t = "bad" => wire[p].c = None
        BY <1>5, <3>2 DEF WireInv
      <4>3. wire[p].t = "open" => \A q \in 1 .. Len(wire') : wire'[q].c = wire[p].c => q >= p
        BY <1>3, <1>5, <3>2, <4>1 DEF WireInv
      <4>4. ASSUME wire[p].t = "close"
            PROVE  /\ dev'[wire[p].c].at # "open"
                   /\ \A q \in 1 .. Len(wire') : wire'[q].c = wire[p].c => q <= p
        <5>1. dev[wire[p].c].at # "open" /\ wire[p].c \in Conns
          BY <1>5, <3>2, <4>4 DEF WireInv
        <5>2. wire[p].c # c
          BY <5>1
        <5> QED BY <1>2, <1>3, <1>5, <3>2, <4>4, <5>1, <5>2 DEF WireInv
      <4> QED BY <4>1, <4>2, <4>3, <4>4
    <3> QED BY <1>3, <3>1, <3>2
  <2> QED BY <2>1 DEF WireInv
<1>14. DataInv'
  <2>1. ASSUME NEW d \in Conns, d # c PROVE DataOK(d)'
    <3>1. Taken(d)' = Taken(d) /\ dev'[d].sent = dev[d].sent
      BY <1>2, <1>4, <2>1 DEF Taken
    <3>2. Expected(d)' => Expected(d)
      BY <1>7, <1>8 DEF Expected
    <3> QED BY <1>4, <2>1, <3>1, <3>2, DataKept
  <2> QED BY <2>1 DEF DataInv
<1>15. QueueInv'
  BY <1>2, <1>4, <1>5 DEF QueueInv
<1>16. DeliveryInv'
  <2>1. OnlyOwnFrames'
    BY <1>5, <1>6, OwnFramesOnly DEF DeliveryInv
  <2> QED BY <1>4, <1>5, <1>6, <2>1 DEF DeliveryInv
<1>17. ServedInv'
  BY <1>4, <1>5, <1>6, <1>7, <1>8 DEF ServedInv
<1> QED BY <1>4, <1>9, <1>10, <1>11, <1>12, <1>13, <1>14, <1>15, <1>16, <1>17 DEF ConnectorInv

\* An expected connection is open, and has read no more than was sent.
LEMMA ExpectedFacts ==
    ASSUME ConnectorInv, NEW c \in Conns, Expected(c)
    PROVE  ~conn[c].closed /\ Taken(c) \in Nat /\ Taken(c) <= dev[c].sent
<1>1. conn[c].closed = FALSE
  <2>1. conn[c].closed \in BOOLEAN
    BY Types, ConnFields
  <2>2. CASE Registered(c)
    <3>1. dev[c].id \in Ids /\ registry[dev[c].id] = c /\ c # None
      BY <2>2, Types, Bounds DEF Registered
    <3>2. ~conn[registry[dev[c].id]].closed
      BY <3>1 DEF ConnectorInv, RegistryInv
    <3> QED BY <2>1, <3>1, <3>2
  <2>3. CASE OpenOnWire(c)
    BY <2>3 DEF ConnectorInv, UnreadInv, Unread
  <2> QED BY <2>2, <2>3 DEF Expected
<1>2. /\ conn[c].got \in Seq(1 .. MaxSent) /\ conn[c].inbound \in Seq(Queued) /\ dev[c].sent \in Nat
  BY Types, ConnFields
<1>3. GapFree(conn[c].got, conn[c].inbound, FALSE, dev[c].sent)
  BY <1>1 DEF ConnectorInv, QueueInv, QueueOK
<1> QED BY <1>1, <1>2, <1>3, ReadWhatWasSent DEF Taken

LEMMA DeviceSendsStep ==
    ASSUME ConnectorInv, NEW c \in Conns, DeviceSends(c), UNCHANGED serviceVars
    PROVE  ConnectorInv'
<1> DEFINE n == dev[c].sent
           m == [t |-> "data", c |-> c, n |-> n + 1]
           e == [dev[c] EXCEPT !.sent = n + 1]
<1>1. /\ RouterUp /\ dev[c].at = "open" /\ n < MaxSent
      /\ UNCHANGED clientVars /\ link' = link /\ wire' = Append(wire, m)
  BY DEF DeviceSends
<1>2. dev \in [Conns -> DevRecord] /\ n \in Nat /\ MaxSent \in Nat
  BY Types, Bounds
<1>3. dev' = [dev EXCEPT ![c] = e]
  BY <1>2 DEF DeviceSends, DevRecord
<1>4. n + 1 \in 0 .. MaxSent /\ n + 1 \in 1 .. n + 1
  BY <1>1, <1>2
<1>5. /\ e \in DevRecord /\ e.at = "open" /\ e.id = dev[c].id /\ e.sock = dev[c].sock
      /\ e.sent = n + 1 /\ e.rcv = dev[c].rcv
  <2>1. dev[c] \in DevRecord
    BY <1>2
  <2> HIDE DEF n
  <2> QED BY <1>1, <1>4, <2>1 DEF DevRecord
<1> HIDE DEF e
<1>6. m \in Frame /\ m.t = "data" /\ m.c = c /\ m.n = n + 1
  BY <1>4 DEF Frame
<1> HIDE DEF m
<1>7. dev'[c] = e
  BY <1>2, <1>3
<1>8. /\ Len(wire) \in Nat
      /\ wire'[Len(wire) + 1] = m /\ Len(wire) + 1 \in 1 .. Len(wire')
      /\ \A p \in 1 .. Len(wire) : p \in 1 .. Len(wire') /\ wire'[p] = wire[p]
      /\ \A p \in 1 .. Len(wire') : p \in 1 .. Len(wire) \/ p = Len(wire) + 1
      /\ \A d : OpenOnWire(d)' <=> OpenOnWire(d) \/ (m.c = d /\ m.t = "open")
  BY <1>1, <1>6, WireGrows
<1>9. QueueOK(conn[c], n + 1)
  <2>1. conn[c].got \in Seq(1 .. MaxSent) /\ conn[c].inbound \in Seq(Queued) /\ n <= n + 1
        /\ n + 1 \in Nat
    BY <1>2, Types, ConnFields
  <2>2. QueueOK(conn[c], n)
    BY DEF ConnectorInv, QueueInv
  <2> HIDE DEF n
  <2> QED BY <1>2, <2>1, <2>2, SentMore DEF QueueOK
<1>10. DataOK(c)'
  <2>1. Taken(c)' = Taken(c) /\ (Expected(c)' <=> Expected(c)) /\ runner' = runner
    <3>1. conn' = conn /\ registry' = registry /\ runner' = runner
      BY <1>1 DEF clientVars
    <3> QED BY <1>5, <1>6, <1>7, <1>8, <3>1 DEF Taken, Expected, Registered
  <2>2. DataOK(c)
    BY DEF ConnectorInv, DataInv
  <2>3. Expected(c) => Taken(c) \in Nat /\ Taken(c) <= n
    BY ExpectedFacts
  <2>4. \A p \in 1 .. Len(wire) : DataAt(p, c)' <=> DataAt(p, c)
    BY <1>8 DEF DataAt
  <2>5. \A p \in 1 .. Len(wire) : DataAt(p, c) => wire[p].n \in 1 .. n
    BY <2>2 DEF DataOK
  <2>6. dev'[c].sent = n + 1
    BY <1>5, <1>7
  <2>7. \A p \in 1 .. Len(wire') : DataAt(p, c)' =>
            /\ wire'[p].n \in 1 .. dev'[c].sent
            /\ Expected(c)' => wire'[p].n > Taken(c)'
    <3>1. ASSUME NEW p \in 1 .. Len(wire'), DataAt(p, c)'
          PROVE  wire'[p].n \in 1 .. n + 1 /\ (Expected(c) => wire'[p].n > Taken(c))
      <4>1. CASE p = Len(wire) + 1
        <5>1. wire'[p].n = n + 1
          BY <1>6, <1>8, <4>1
        <5> HIDE DEF n
        <5> QED BY <1>2, <1>4, <2>3, <5>1
      <4>2. CASE p \in 1 .. Len(wire)
        <5>1. wire'[p].n \in 1 .. n /\ (Expected(c) => wire'[p].n > Taken(c))
          BY <1>8, <2>2, <2>4, <3>1, <4>2 DEF DataOK
        <5> HIDE DEF n
        <5> QED BY <1>2, <5>1
      <4> QED BY <1>8, <4>1, <4>2
    <3> QED BY <2>1, <2>6, <3>1
  <2>8. \A p, q \in 1 .. Len(wire') :
            DataAt(p, c)' /\ DataAt(q, c)' /\ p < q => wire'[p].n < wire'[q].n
    <3>1. ASSUME NEW p \in 1 .. Len(wire'), NEW q \in 1 .. Len(wire'), DataAt(p, c)', DataAt(q, c)', p < q
          PROVE  wire'[p].n < wire'[q].n
      <4>1. p \in 1 .. Len(wire)
        BY <1>8, <3>1
      <4>2. wire'[p] = wire[p] /\ DataAt(p, c) /\ wire[p].n \in 1 .. n
        BY <1>8, <2>4, <2>5, <3>1, <4>1
      <4>3. CASE q = Len(wire) + 1
        <5>1. wire'[q].n = n + 1
          BY <1>6, <1>8, <4>3
        <5> HIDE DEF n
        <5> QED BY <1>2, <4>2, <5>1
      <4>4. CASE q \in 1 .. Len(wire)
        BY <1>8, <2>2, <2>4, <3>1, <4>1, <4>2, <4>4 DEF DataOK
      <4> QED BY <1>8, <4>3, <4>4
    <3> QED BY <3>1
  <2>9. Expected(c)' /\ runner' = "reading" =>
            \A k \in Taken(c)' + 1 .. dev'[c].sent :
                \E p \in 1 .. Len(wire') : DataAt(p, c)' /\ wire'[p].n = k
    <3>1. SUFFICES ASSUME Expected(c), runner = "reading", NEW k \in Taken(c) + 1 .. n + 1
                   PROVE  \E p \in 1 .. Len(wire') : DataAt(p, c)' /\ wire'[p].n = k
      BY <2>1, <2>6
    <3>2. CASE k = n + 1
      BY <1>6, <1>8, <3>2 DEF DataAt
    <3>3. CASE k # n + 1
      <4>1. k \in Taken(c) + 1 .. n
        <5>1. Taken(c) \in Nat /\ n \in Nat
          BY <1>2, <2>3, <3>1
        <5> HIDE DEF n
        <5> QED BY <3>1, <3>3, <5>1
      <4>2. PICK p \in 1 .. Len(wire) : DataAt(p, c) /\ wire[p].n = k
        BY <2>2, <3>1, <4>1 DEF DataOK
      <4> QED BY <1>8, <2>4, <4>2
    <3> QED BY <3>2, <3>3
  <2> QED BY <2>7, <2>8, <2>9 DEF DataOK
<1> HIDE DEF n
<1> QED BY <1>1, <1>3, <1>5, <1>6, <1>9, <1>10, OpenDeviceSpeaks

LEMMA DeviceClosesStep ==
    ASSUME ConnectorInv, NEW c \in Conns, DeviceCloses(c), UNCHANGED serviceVars
    PROVE  ConnectorInv'
<1> DEFINE m == [t |-> "close", c |-> c, n |-> 0]
           e == [dev[c] EXCEPT !.at = "gone"]
<1>1. /\ RouterUp /\ dev[c].at = "open"
      /\ UNCHANGED clientVars /\ link' = link /\ wire' = Append(wire, m)
  BY DEF DeviceCloses
<1>2. dev \in [Conns -> DevRecord]
  BY Types
<1>3. dev' = [dev EXCEPT ![c] = e]
  BY <1>2 DEF DeviceCloses, DevRecord
<1>4. /\ e \in DevRecord /\ e.at = "gone" /\ e.id = dev[c].id /\ e.sock = dev[c].sock
      /\ e.sent = dev[c].sent /\ e.rcv = dev[c].rcv
  BY <1>2 DEF DevRecord
<1> HIDE DEF e
<1>5. m \in Frame /\ m.t = "close" /\ m.c = c
  BY Bounds DEF Frame
<1> HIDE DEF m
<1>6. dev'[c] = e
  BY <1>2, <1>3
<1>7. QueueOK(conn[c], e.sent)
  BY <1>4 DEF ConnectorInv, QueueInv
<1>8. DataOK(c)'
  <2>1. \A d : OpenOnWire(d)' <=> OpenOnWire(d) \/ (m.c = d /\ m.t = "open")
    BY <1>1, <1>5, WireGrows
  <2>2. conn' = conn /\ registry' = registry /\ runner' = runner
    BY <1>1 DEF clientVars
  <2>3. Taken(c)' = Taken(c) /\ (Expected(c)' => Expected(c))
    BY <1>4, <1>5, <1>6, <2>1, <2>2 DEF Taken, Expected, Registered
  <2> QED BY <1>1, <1>4, <1>5, <1>6, <2>2, <2>3, DataKept
<1> QED BY <1>1, <1>3, <1>4, <1>5, <1>7, <1>8, OpenDeviceSpeaks

LEMMA RouterMisbehavesStep ==
    ASSUME ConnectorInv, RouterMisbehaves, UNCHANGED serviceVars
    PROVE  ConnectorInv'
<1> DEFINE m == [t |-> "bad", c |-> None, n |-> 0]
<1>1. /\ RouterUp /\ UNCHANGED clientVars /\ link' = link /\ dev' = dev /\ wire' = Append(wire, m)
  BY DEF RouterMisbehaves
<1>2. m \in Frame /\ m.t = "bad" /\ m.c = None
  BY Bounds DEF Frame
<1> HIDE DEF m
<1>3. /\ wire' \in Seq(Frame) /\ Len(wire') <= MaxWire /\ Len(wire) \in Nat
      /\ Len(wire') = Len(wire) + 1 /\ wire'[Len(wire) + 1] = m
      /\ Len(wire) + 1 \in 1 .. Len(wire')
      /\ \A p \in 1 .. Len(wire) : p \in 1 .. Len(wire') /\ wire'[p] = wire[p]
      /\ \A p \in 1 .. Len(wire') : p \in 1 .. Len(wire) \/ p = Len(wire) + 1
      /\ \A d : OnWire(d)' <=> OnWire(d) \/ m.c = d
      /\ \A d : OpenOnWire(d)' <=> OpenOnWire(d) \/ (m.c = d /\ m.t = "open")
  BY <1>1, <1>2, WireGrows
<1>4. /\ ServiceTypeOK' /\ SendInv' /\ AcceptInv' /\ PairingInv' /\ ShutdownInv'
      /\ UNCHANGED <<runner, closed, gen, socket, registry, accepted, conn, sending, lock,
                     acceptor, phase, pend, shutdown>>
  <2>1. dev \in [Conns -> DevRecord] /\ link \in BOOLEAN
    BY Types DEF ConnectorInv, ServiceTypeOK, TypeOK
  <2> QED BY <1>1, <1>3, <2>1, ClientAside
<1>5. \A d \in Conns : d # None
  BY Bounds
<1>6. \A d \in Conns : /\ (Registered(d)' <=> Registered(d)) /\ (OnWire(d)' <=> OnWire(d))
                       /\ (OpenOnWire(d)' <=> OpenOnWire(d)) /\ Taken(d)' = Taken(d)
  BY <1>1, <1>2, <1>3, <1>4, <1>5 DEF Registered, Taken
<1>7. SocketInv' /\ RegistryInv'
  BY <1>1, <1>4, Bounds DEF ConnectorInv, SocketInv, RegistryInv, RouterUp
<1>8. IdsInv'
  BY <1>1, <1>6, IdsShrink DEF ConnectorInv, Busy
<1>9. UnreadInv'
  <2>1. \A d \in Conns : Unread(d)' <=> Unread(d)
    BY <1>4, <1>6 DEF Unread
  <2> QED BY <1>1, <1>6, <2>1 DEF ConnectorInv, UnreadInv
<1>10. WireInv'
  <2>1. ASSUME NEW p \in 1 .. Len(wire')
        PROVE  /\ wire'[p].t # "bad" => wire'[p].c \in Conns
               /\ wire'[p].t = "bad" => wire'[p].c = None
               /\ wire'[p].t = "open" =>
                     \A q \in 1 .. Len(wire') : wire'[q].c = wire'[p].c => q >= p
               /\ wire'[p].t = "close" =>
                     /\ dev'[wire'[p].c].at # "open"
                     /\ \A q \in 1 .. Len(wire') : wire'[q].c = wire'[p].c => q <= p
    <3>1. CASE p = Len(wire) + 1
      BY <1>2, <1>3, <3>1
    <3>2. CASE p \in 1 .. Len(wire)
      <4>1. WireInv /\ wire'[p] = wire[p] /\ (wire[p].t # "bad" => wire[p].c # None)
        BY <1>3, <1>5, <3>2 DEF ConnectorInv, WireInv
      <4> QED BY <1>1, <1>2, <1>3, <3>2, <4>1 DEF WireInv
    <3> QED BY <1>3, <3>1, <3>2
  <2> QED BY <2>1 DEF WireInv
<1>11. DataInv'
  <2>1. ASSUME NEW d \in Conns PROVE DataOK(d)'
    <3>1. Expected(d)' => Expected(d)
      BY <1>6 DEF Expected
    <3> QED BY <1>1, <1>2, <1>4, <1>6, <3>1, DataKept
  <2> QED BY <2>1 DEF DataInv
<1>12. QueueInv'
  BY <1>1, <1>4 DEF ConnectorInv, QueueInv
<1>13. DeliveryInv'
  BY <1>1, <1>4, OwnFramesOnly DEF ConnectorInv, DeliveryInv
<1>14. ServedInv'
  BY <1>1, <1>4, <1>6 DEF ConnectorInv, ServedInv
<1> QED BY <1>4, <1>7, <1>8, <1>9, <1>10, <1>11, <1>12, <1>13, <1>14 DEF ConnectorInv

LEMMA SocketLostStep ==
    ASSUME ConnectorInv, SocketLost, UNCHANGED serviceVars
    PROVE  ConnectorInv'
<1>1. /\ link /\ link' = FALSE /\ wire' = wire /\ UNCHANGED clientVars
      /\ dev' = DevicesEnd({c \in Conns : dev[c].at = "open"})
  BY DEF SocketLost
<1>2. /\ dev' \in [Conns -> DevRecord]
      /\ \A d \in Conns : /\ dev'[d].id = dev[d].id /\ dev'[d].sock = dev[d].sock
                          /\ dev'[d].sent = dev[d].sent /\ dev'[d].rcv = dev[d].rcv
                          /\ dev'[d].at # "open" /\ (dev'[d].at = "none" <=> dev[d].at = "none")
                          /\ dev[d].at = "none" => dev'[d] = dev[d]
                          /\ dev'[d].at \in {dev[d].at, "gone"}
  <2>1. {c \in Conns : dev[c].at = "open"} \in SUBSET Conns
    OBVIOUS
  <2> QED BY <1>1, <2>1, DevicesEndFacts
<1>3. /\ ServiceTypeOK' /\ SendInv' /\ AcceptInv' /\ PairingInv' /\ ShutdownInv'
      /\ UNCHANGED <<runner, closed, gen, socket, registry, accepted, conn, sending, lock,
                     acceptor, phase, pend, shutdown>>
  <2>1. wire' \in Seq(Frame) /\ Len(wire') <= MaxWire
    BY <1>1 DEF ConnectorInv, ServiceTypeOK, TypeOK
  <2> QED BY <1>1, <1>2, <2>1, ClientAside
<1>4. /\ SocketInv /\ RegistryInv /\ IdsInv /\ UnreadInv /\ WireInv /\ DataInv /\ QueueInv
      /\ DeliveryInv
  BY DEF ConnectorInv
<1>5. \A d \in Conns : /\ (Registered(d)' <=> Registered(d)) /\ (OnWire(d)' <=> OnWire(d))
                       /\ (OpenOnWire(d)' <=> OpenOnWire(d)) /\ Taken(d)' = Taken(d)
  BY <1>1, <1>2, <1>3 DEF Registered, Taken, OnWire, OpenOnWire
<1>6. SocketInv'
  BY <1>1, <1>2, <1>3, <1>4 DEF SocketInv
<1>7. RegistryInv'
  <2>1. \A i \in Ids : registry'[i] # None => dev'[registry'[i]].id = i /\ ~conn'[registry'[i]].closed
    BY <1>2, <1>3, <1>4, RegisteredHaveDevice DEF RegistryInv
  <2> QED BY <1>2, <1>4, <2>1 DEF RegistryInv
<1>8. IdsInv'
  BY <1>2, <1>4, <1>5, IdsShrink DEF Busy
<1>9. UnreadInv'
  BY <1>1, <1>2, <1>3, <1>4, <1>5, UnreadSame
<1>10. WireInv'
  BY <1>1, <1>2, <1>4, WireSame
<1>11. DataInv'
  BY <1>1, <1>2, <1>3, <1>4, <1>5, DataSame DEF Expected
<1>12. QueueInv'
  BY <1>2, <1>3, <1>4 DEF QueueInv
<1>13. DeliveryInv'
  BY <1>2, <1>4, OwnFramesOnly DEF DeliveryInv
<1>14. ServedInv'
  BY <1>2 DEF ServedInv
<1> QED BY <1>3, <1>6, <1>7, <1>8, <1>9, <1>10, <1>11, <1>12, <1>13, <1>14 DEF ConnectorInv

-----------------------------------------------------------------------------
(* A frame is read                                                         *)

\* The first frame leaves the wire.
LEMMA WireShrinks ==
    ASSUME ConnectorInv, wire # <<>>, wire' = Tail(wire)
    PROVE  /\ wire' \in Seq(Frame) /\ Len(wire') <= MaxWire /\ Len(wire) \in Nat
           /\ 1 \in 1 .. Len(wire) /\ Head(wire) = wire[1] /\ wire[1] \in Frame
           /\ \A p \in 1 .. Len(wire') : p + 1 \in 2 .. Len(wire) /\ wire'[p] = wire[p + 1]
           /\ \A p \in 2 .. Len(wire) : p - 1 \in 1 .. Len(wire') /\ wire'[p - 1] = wire[p]
           /\ \A p \in 1 .. Len(wire) : p = 1 \/ p \in 2 .. Len(wire)
           /\ \A d : OnWire(d)' => OnWire(d)
           /\ \A d : OpenOnWire(d)' <=> OpenOnWire(d) /\ ~(wire[1].c = d /\ wire[1].t = "open")
           /\ \A d : OpenOnWire(d)' => wire[1].c # d
           /\ (\A d \in Conns : dev'[d].at \in {dev[d].at, "gone"}) => WireInv'
<1>1. wire \in Seq(Frame) /\ WireInv
  BY Types DEF ConnectorInv
<1>2. /\ wire' \in Seq(Frame) /\ Len(wire) \in Nat \ {0} /\ Len(wire') = Len(wire) - 1
      /\ Head(wire) = wire[1] /\ wire[1] \in Frame /\ 1 \in 1 .. Len(wire)
      /\ \A p \in 1 .. Len(wire') : p + 1 \in 2 .. Len(wire) /\ wire'[p] = wire[p + 1]
      /\ \A p \in 2 .. Len(wire) : p - 1 \in 1 .. Len(wire') /\ wire'[p - 1] = wire[p]
      /\ \A p \in 1 .. Len(wire) : p = 1 \/ p \in 2 .. Len(wire)
  <2> HIDE DEF Frame
  <2> QED BY <1>1, TailFacts
<1>3. Len(wire') <= MaxWire
  <2>1. Len(wire) <= MaxWire /\ MaxWire \in Nat
    BY Bounds DEF ConnectorInv, ServiceTypeOK, TypeOK
  <2> QED BY <1>2, <2>1
<1>4. \A p \in 2 .. Len(wire) : p \in 1 .. Len(wire) /\ p > 1
  BY <1>2
<1>5. \A d : OnWire(d)' => OnWire(d)
  BY <1>2, <1>4 DEF OnWire
<1>6. \A d : OpenOnWire(d)' => OpenOnWire(d) /\ wire[1].c # d
  <2>1. SUFFICES ASSUME NEW d, OpenOnWire(d)' PROVE OpenOnWire(d) /\ wire[1].c # d
    OBVIOUS
  <2>2. PICK p \in 1 .. Len(wire') : wire'[p].c = d /\ wire'[p].t = "open"
    BY <2>1 DEF OpenOnWire
  <2>3. p + 1 \in 1 .. Len(wire) /\ p + 1 > 1 /\ wire[p + 1].c = d /\ wire[p + 1].t = "open"
    BY <1>2, <1>4, <2>2
  <2>4. \A q \in 1 .. Len(wire) : wire[q].c = d => q >= p + 1
    BY <1>1, <2>3 DEF WireInv
  <2>5. wire[1].c # d
    BY <1>2, <2>3, <2>4
  <2> QED BY <2>3, <2>5 DEF OpenOnWire
<1>7. \A d : OpenOnWire(d) /\ ~(wire[1].c = d /\ wire[1].t = "open") => OpenOnWire(d)'
  <2>1. SUFFICES ASSUME NEW d, OpenOnWire(d), ~(wire[1].c = d /\ wire[1].t = "open")
                 PROVE  OpenOnWire(d)'
    OBVIOUS
  <2>2. PICK p \in 1 .. Len(wire) : wire[p].c = d /\ wire[p].t = "open"
    BY <2>1 DEF OpenOnWire
  <2>3. p \in 2 .. Len(wire)
    BY <1>2, <2>1, <2>2
  <2>4. p - 1 \in 1 .. Len(wire') /\ wire'[p - 1] = wire[p]
    BY <1>2, <2>3
  <2> QED BY <2>2, <2>4 DEF OpenOnWire
<1>8. ASSUME \A d \in Conns : dev'[d].at \in {dev[d].at, "gone"} PROVE WireInv'
  <2>1. ASSUME NEW p \in 1 .. Len(wire')
        PROVE  /\ wire'[p].t # "bad" => wire'[p].c \in Conns
               /\ wire'[p].t = "bad" => wire'[p].c = None
               /\ wire'[p].t = "open" =>
                     \A q \in 1 .. Len(wire') : wire'[q].c = wire'[p].c => q >= p
               /\ wire'[p].t = "close" =>
                     /\ dev'[wire'[p].c].at # "open"
                     /\ \A q \in 1 .. Len(wire') : wire'[q].c = wire'[p].c => q <= p
    <3>1. p + 1 \in 1 .. Len(wire) /\ wire'[p] = wire[p + 1]
      BY <1>2, <1>4
    <3>2. /\ wire[p + 1].t # "bad" => wire[p + 1].c \in Conns
          /\ wire[p + 1].t = "bad" => wire[p + 1].c = None
          /\ wire[p + 1].t = "open" =>
                \A q \in 1 .. Len(wire) : wire[q].c = wire[p + 1].c => q >= p + 1
          /\ wire[p + 1].t = "close" =>
                /\ dev[wire[p + 1].c].at # "open"
                /\ \A q \in 1 .. Len(wire) : wire[q].c = wire[p + 1].c => q <= p + 1
      BY <1>1, <3>1 DEF WireInv
    <3>3. \A q \in 1 .. Len(wire') : q + 1 \in 1 .. Len(wire) /\ wire'[q] = wire[q + 1]
      BY <1>2, <1>4
    <3>4. wire'[p].t = "open" => \A q \in 1 .. Len(wire') : wire'[q].c = wire'[p].c => q >= p
      BY <3>1, <3>2, <3>3
    <3>5. wire'[p].t = "close" => \A q \in 1 .. Len(wire') : wire'[q].c = wire'[p].c => q <= p
      BY <3>1, <3>2, <3>3
    <3>6. wire'[p].t = "close" => dev'[wire'[p].c].at # "open"
      BY <1>8, <3>1, <3>2
    <3> QED BY <3>1, <3>2, <3>4, <3>5, <3>6
  <2> QED BY <2>1 DEF WireInv
<1> QED BY <1>2, <1>3, <1>5, <1>6, <1>7, <1>8

\* What c is to read after a frame was read: its own data counts as taken.
LEMMA DataRead ==
    ASSUME ConnectorInv, runner = "reading", wire # <<>>, wire' = Tail(wire), NEW c \in Conns,
           dev'[c].sent = dev[c].sent,
           Expected(c)' => /\ Expected(c)
                           /\ DataAt(1, c) => Taken(c)' = wire[1].n
                           /\ ~DataAt(1, c) => Taken(c)' = Taken(c)
    PROVE  DataOK(c)'
<1>1. /\ 1 \in 1 .. Len(wire) /\ Len(wire) \in Nat
      /\ \A p \in 1 .. Len(wire') : p + 1 \in 2 .. Len(wire) /\ wire'[p] = wire[p + 1]
      /\ \A p \in 2 .. Len(wire) : p - 1 \in 1 .. Len(wire') /\ wire'[p - 1] = wire[p]
      /\ \A p \in 1 .. Len(wire) : p = 1 \/ p \in 2 .. Len(wire)
  BY WireShrinks
<1>2. \A p \in 1 .. Len(wire') :
         p + 1 \in 1 .. Len(wire) /\ p + 1 > 1 /\ wire'[p] = wire[p + 1]
         /\ (DataAt(p, c)' <=> DataAt(p + 1, c))
  <2>1. \A p \in 2 .. Len(wire) : p \in 1 .. Len(wire) /\ p > 1
    BY <1>1
  <2> QED BY <1>1, <2>1 DEF DataAt
<1>3. DataOK(c)
  BY DEF ConnectorInv, DataInv
<1>4. \A p \in 1 .. Len(wire) : DataAt(p, c) => wire[p].n \in Nat
  <2>1. dev[c].sent \in Nat
    BY Types
  <2> QED BY <1>3, <2>1 DEF DataOK
<1>5. Expected(c) => Taken(c) \in Nat
  BY ExpectedFacts
<1>6. \A p \in 1 .. Len(wire') : DataAt(p, c)' =>
          /\ wire'[p].n \in 1 .. dev'[c].sent
          /\ Expected(c)' => wire'[p].n > Taken(c)'
  BY <1>1, <1>2, <1>3 DEF DataOK
<1>7. \A p, q \in 1 .. Len(wire') :
          DataAt(p, c)' /\ DataAt(q, c)' /\ p < q => wire'[p].n < wire'[q].n
  <2>1. SUFFICES ASSUME NEW p \in 1 .. Len(wire'), NEW q \in 1 .. Len(wire'),
                        DataAt(p, c)', DataAt(q, c)', p < q
                 PROVE  wire'[p].n < wire'[q].n
    OBVIOUS
  <2>2. /\ p + 1 \in 1 .. Len(wire) /\ DataAt(p + 1, c) /\ wire'[p] = wire[p + 1]
        /\ q + 1 \in 1 .. Len(wire) /\ DataAt(q + 1, c) /\ wire'[q] = wire[q + 1]
    BY <1>2, <2>1
  <2>3. p + 1 < q + 1
    BY <2>1
  <2>4. \A i, j \in 1 .. Len(wire) :
           DataAt(i, c) /\ DataAt(j, c) /\ i < j => wire[i].n < wire[j].n
    BY <1>3 DEF DataOK
  <2>5. wire[p + 1].n < wire[q + 1].n
    BY <2>2, <2>3, <2>4
  <2> QED BY <2>2, <2>5
<1>8. Expected(c)' /\ runner' = "reading" =>
          \A k \in Taken(c)' + 1 .. dev'[c].sent :
              \E p \in 1 .. Len(wire') : DataAt(p, c)' /\ wire'[p].n = k
  <2>1. SUFFICES ASSUME Expected(c)', NEW k \in Taken(c)' + 1 .. dev[c].sent
                 PROVE  \E p \in 1 .. Len(wire') : DataAt(p, c)' /\ wire'[p].n = k
    OBVIOUS
  <2>2. Expected(c) /\ Taken(c) \in Nat /\ Taken(c)' \in Nat /\ Taken(c)' >= Taken(c)
    BY <1>1, <1>3, <1>4, <1>5, <2>1 DEF DataOK
  <2>3. k \in Taken(c) + 1 .. dev[c].sent /\ k > Taken(c)'
    BY <2>1, <2>2, Types
  <2>4. PICK q \in 1 .. Len(wire) : DataAt(q, c) /\ wire[q].n = k
    BY <1>3, <2>2, <2>3 DEF DataOK
  <2>5. q # 1
    BY <2>1, <2>2, <2>3, <2>4
  <2>6. q - 1 \in 1 .. Len(wire') /\ wire'[q - 1] = wire[q]
    BY <1>1, <2>4, <2>5
  <2> QED BY <2>4, <2>6 DEF DataAt
<1> QED BY <1>6, <1>7, <1>8 DEF DataOK

\* A close or a data frame of c is read: only c is touched, and a device that
\* stays open is still registered.
LEMMA FrameRead ==
    ASSUME ConnectorInv, runner = "reading", wire # <<>>, wire' = Tail(wire),
           NEW c \in Conns, wire[1].c = c, wire[1].t \in {"close", "data"},
           UNCHANGED <<runner, closed, gen, socket, link, accepted, sending, lock,
                       acceptor, phase, pend, shutdown>>,
           conn' \in [Conns -> ConnRecord],
           \A d \in Conns : /\ ConnOK(conn'[d]) /\ QueueOK(conn'[d], dev[d].sent)
                            /\ conn'[d].out = conn[d].out /\ (d # c => conn'[d] = conn[d]),
           registry' \in [Ids -> Conns \cup {None}],
           \A i \in Ids : registry'[i] \in {registry[i], None},
           dev' \in [Conns -> DevRecord],
           \A d \in Conns : /\ dev'[d].id = dev[d].id /\ dev'[d].sock = dev[d].sock
                            /\ dev'[d].sent = dev[d].sent /\ dev'[d].rcv = dev[d].rcv
                            /\ d # c \/ dev[d].at # "open" => dev'[d] = dev[d]
                            /\ dev'[d].at \in {dev[d].at, "gone"},
           \A d \in Conns : d # c => (Registered(d)' <=> Registered(d)),
           Registered(c)' => /\ Registered(c) /\ ~conn'[c].closed
                             /\ Taken(c)' = IF wire[1].t = "data" THEN wire[1].n ELSE Taken(c),
           dev'[c].at = "open" => Registered(c)'
    PROVE  ConnectorInv'
<1>1. /\ SocketInv /\ RegistryInv /\ IdsInv /\ UnreadInv /\ DataInv /\ DeliveryInv /\ ServedInv
      /\ SendInv /\ AcceptInv /\ PairingInv /\ ShutdownInv
  BY DEF ConnectorInv
<1>2. /\ wire' \in Seq(Frame) /\ Len(wire') <= MaxWire /\ 1 \in 1 .. Len(wire)
      /\ \A d : OnWire(d)' => OnWire(d)
      /\ \A d : OpenOnWire(d)' <=> OpenOnWire(d) /\ ~(wire[1].c = d /\ wire[1].t = "open")
      /\ \A d : OpenOnWire(d)' => wire[1].c # d
      /\ (\A d \in Conns : dev'[d].at \in {dev[d].at, "gone"}) => WireInv'
  BY WireShrinks
<1>3. ~OpenOnWire(c)' /\ ~OpenOnWire(c) /\ OnWire(c) /\ \A d : OpenOnWire(d)' <=> OpenOnWire(d)
  BY <1>2 DEF OnWire
<1>4. dev[c].at # "none"
  BY <1>1, <1>3 DEF UnreadInv
<1>5. \A d \in Conns : Registered(d)' => Registered(d)
  OBVIOUS
<1>6. \A d \in Conns : dev'[d].at = "none" <=> dev[d].at = "none"
  OBVIOUS
<1>7. ServiceTypeOK'
  <2>1. TypeOK'
    BY <1>2, TypesNext DEF ConnectorInv, ServiceTypeOK, TypeOK
  <2> QED BY <2>1 DEF ConnectorInv, ServiceTypeOK
<1>8. SocketInv'
  BY <1>1 DEF SocketInv
<1>9. RegistryInv'
  <2>1. ASSUME NEW i \in Ids, registry'[i] # None
        PROVE  dev'[registry'[i]].id = i /\ ~conn'[registry'[i]].closed
    <3>1. registry'[i] = registry[i] /\ registry[i] # None /\ registry[i] \in Conns
      BY <2>1
    <3>2. dev[registry[i]].id = i /\ ~conn[registry[i]].closed
      BY <1>1, <3>1 DEF RegistryInv
    <3>3. CASE registry[i] # c
      BY <3>1, <3>2, <3>3
    <3>4. CASE registry[i] = c
      <4>1. Registered(c)'
        BY <3>1, <3>2, <3>4, Bounds DEF Registered
      <4> QED BY <3>1, <3>2, <3>4, <4>1
    <3> QED BY <3>3, <3>4
  <2> QED BY <1>1, <1>6, <2>1 DEF RegistryInv
<1>10. IdsInv'
  <2>1. \A d \in Conns : dev'[d].at = "open" => dev[d].at = "open"
    OBVIOUS
  <2> QED BY <1>1, <1>2, <1>5, <2>1, IdsShrink DEF Busy
<1>11. UnreadInv'
  <2>1. ASSUME NEW d \in Conns, d # c, Unread(d) PROVE Unread(d)'
    BY <1>5, <2>1 DEF Unread
  <2>2. ASSUME NEW d \in Conns
        PROVE  /\ dev'[d].at = "none" => ~OnWire(d)' /\ dev'[d].sent = 0 /\ dev'[d].rcv = <<>>
               /\ dev'[d].at = "none" \/ OpenOnWire(d)' => Unread(d)'
    <3>1. /\ dev[d].at = "none" => ~OnWire(d) /\ dev[d].sent = 0 /\ dev[d].rcv = <<>>
          /\ dev[d].at = "none" \/ OpenOnWire(d) => Unread(d)
      BY <1>1 DEF UnreadInv
    <3>2. dev'[d].at = "none" => ~OnWire(d)' /\ dev'[d].sent = 0 /\ dev'[d].rcv = <<>>
      BY <1>2, <1>6, <3>1
    <3>3. dev'[d].at = "none" \/ OpenOnWire(d)' => d # c
      BY <1>3, <1>4, <1>6
    <3>4. dev'[d].at = "none" \/ OpenOnWire(d)' => Unread(d)
      BY <1>3, <1>6, <3>1
    <3> QED BY <2>1, <3>2, <3>3, <3>4
  <2> QED BY <2>2 DEF UnreadInv
<1>12. WireInv'
  BY <1>2
<1>13. DataInv'
  <2>1. ASSUME NEW d \in Conns PROVE DataOK(d)'
    <3>1. CASE d # c
      <4>1. Taken(d)' = Taken(d) /\ ~DataAt(1, d)
        BY <3>1 DEF Taken, DataAt
      <4>2. Expected(d)' => Expected(d)
        BY <1>3, <1>5 DEF Expected
      <4> QED BY <4>1, <4>2, DataRead
    <3>2. CASE d = c
      <4>1. Expected(c)' => /\ Registered(c) /\ Expected(c)
                            /\ Taken(c)' = IF wire[1].t = "data" THEN wire[1].n ELSE Taken(c)
        BY <1>3 DEF Expected
      <4>2. DataAt(1, c) <=> wire[1].t = "data"
        BY DEF DataAt
      <4>3. Expected(c)' => /\ Expected(c)
                            /\ DataAt(1, c) => Taken(c)' = wire[1].n
                            /\ ~DataAt(1, c) => Taken(c)' = Taken(c)
        BY <4>1, <4>2
      <4> QED BY <3>2, <4>3, DataRead
    <3> QED BY <3>1, <3>2
  <2> QED BY <2>1 DEF DataInv
<1>14. QueueInv'
  BY DEF QueueInv
<1>15. SendInv' /\ AcceptInv' /\ PairingInv' /\ ShutdownInv'
  BY <1>1 DEF SendInv, AcceptInv, PairingInv, ShutdownInv, ClosedIsQuiet
<1>16. DeliveryInv'
  <2>1. OnlyOwnFrames'
    BY <1>1, OwnFramesOnly DEF DeliveryInv
  <2>2. \A d \in Conns : dev'[d].at = "open" => Len(dev'[d].rcv) = conn'[d].out
    BY <1>1 DEF DeliveryInv
  <2> QED BY <2>1, <2>2 DEF DeliveryInv
<1>17. ServedInv'
  <2>1. ASSUME NEW d \in Conns, dev'[d].at = "open", ~OpenOnWire(d)'
        PROVE  /\ Registered(d)'
               /\ \/ phase'[d] \in Live \ {"closing"}
                  \/ \E q \in 1 .. Len(accepted') : accepted'[q] = d
    <3>1. dev[d].at = "open" /\ ~OpenOnWire(d)
      BY <1>3, <2>1
    <3>2. /\ Registered(d)
          /\ \/ phase[d] \in Live \ {"closing"}
             \/ \E q \in 1 .. Len(accepted) : accepted[q] = d
      BY <1>1, <3>1 DEF ServedInv
    <3>3. Registered(d)'
      BY <2>1, <3>2
    <3> QED BY <3>2, <3>3
  <2> QED BY <2>1 DEF ServedInv
<1> QED BY <1>7, <1>8, <1>9, <1>10, <1>11, <1>12, <1>13, <1>14, <1>15, <1>16, <1>17 DEF ConnectorInv

\* The connection a frame on the wire is for has an id, and the registry has
\* this connection under it or none.
LEMMA FrameIsForOwner ==
    ASSUME ConnectorInv, NEW c \in Conns, OnWire(c)
    PROVE  /\ dev[c].id \in Ids /\ dev[c].at # "none"
           /\ registry[dev[c].id] \in {c, None}
           /\ Registered(c) <=> registry[dev[c].id] = c
<1>1. dev[c].at # "none"
  BY DEF ConnectorInv, UnreadInv
<1>2. dev[c].id # None
  BY <1>1 DEF ConnectorInv, RegistryInv
<1>3. dev[c].id \in Ids
  BY <1>2, Types
<1>4. registry[dev[c].id] \in {c, None}
  <2>1. SUFFICES ASSUME registry[dev[c].id] # None PROVE registry[dev[c].id] = c
    OBVIOUS
  <2> DEFINE d == registry[dev[c].id]
  <2>2. d \in Conns /\ Registered(d) /\ dev[d].id = dev[c].id
    BY <1>3, <2>1, RegisteredHaveDevice DEF ConnectorInv, RegistryInv
  <2> HIDE DEF d
  <2>3. d = c
    BY <2>2 DEF ConnectorInv, IdsInv, Busy
  <2> QED BY <2>3 DEF d
<1> QED BY <1>1, <1>2, <1>3, <1>4 DEF Registered

LEMMA HandleCloseStep ==
    ASSUME ConnectorInv, runner = "reading", wire # <<>>, NEW c \in Conns, wire[1].c = c,
           wire[1].t = "close", HandleClose(c), UNCHANGED <<closed, gen, sending, lock>>,
           UNCHANGED serviceVars
    PROVE  ConnectorInv'
<1> DEFINE id == dev[c].id
           cs == IF registry[id] = None THEN {} ELSE {registry[id]}
<1>1. /\ registry' = [registry EXCEPT ![id] = None] /\ wire' = Tail(wire)
      /\ conn' = IF registry[id] = None THEN conn ELSE MarkedClosed({registry[id]})
      /\ UNCHANGED <<runner, socket, link, dev, accepted>>
  BY DEF HandleClose
<1>2. UNCHANGED <<runner, closed, gen, socket, link, accepted, sending, lock,
                  acceptor, phase, pend, shutdown>>
  BY <1>1 DEF serviceVars
<1>3. conn' = MarkedClosed(cs)
  BY <1>1, MarkedNone
<1>4. 1 \in 1 .. Len(wire) /\ OnWire(c)
  <2>1. 1 \in 1 .. Len(wire)
    BY <1>1, WireShrinks
  <2> QED BY <2>1 DEF OnWire
<1>5. id \in Ids /\ registry[id] \in {c, None} /\ (Registered(c) <=> registry[id] = c)
  BY <1>4, FrameIsForOwner
<1>6. \A d \in Conns : d # c => d \notin cs
  BY <1>5
<1> HIDE DEF cs
<1>7. /\ conn' \in [Conns -> ConnRecord]
      /\ \A d \in Conns : /\ ConnOK(conn'[d]) /\ QueueOK(conn'[d], dev[d].sent)
                          /\ conn'[d].out = conn[d].out /\ (d # c => conn'[d] = conn[d])
  BY <1>3, <1>6, MarkedClosedFacts
<1>8. registry \in [Ids -> Conns \cup {None}] /\ dev \in [Conns -> DevRecord]
  BY Types DEF ConnectorInv, ServiceTypeOK, TypeOK
<1>9. /\ registry' \in [Ids -> Conns \cup {None}] /\ registry'[id] = None
      /\ \A i \in Ids : registry'[i] \in {registry[i], None} /\ (i # id => registry'[i] = registry[i])
  BY <1>1, <1>5, <1>8
<1>10. dev'[c].at # "open"
  BY <1>1, <1>4 DEF ConnectorInv, WireInv
<1>11. ~Registered(c)'
  BY <1>1, <1>9, Bounds DEF Registered
<1>12. \A d \in Conns : d # c => (Registered(d)' <=> Registered(d))
  <2>1. \A d \in Conns : dev[d].id \in Ids \cup {None}
    BY Types
  <2> HIDE DEF id
  <2>2. SUFFICES ASSUME NEW d \in Conns, d # c PROVE Registered(d)' <=> Registered(d)
    OBVIOUS
  <2>3. CASE dev[d].id = id
    BY <1>1, <1>5, <1>9, <2>2, <2>3, Bounds DEF Registered
  <2>4. CASE dev[d].id # id
    BY <1>1, <1>9, <2>1, <2>4 DEF Registered
  <2> QED BY <2>3, <2>4
<1>13. \A d \in Conns : /\ dev'[d].id = dev[d].id /\ dev'[d].sock = dev[d].sock
                        /\ dev'[d].sent = dev[d].sent /\ dev'[d].rcv = dev[d].rcv
                        /\ d # c \/ dev[d].at # "open" => dev'[d] = dev[d]
                        /\ dev'[d].at \in {dev[d].at, "gone"}
  BY <1>1
<1>14. dev' \in [Conns -> DevRecord] /\ \A i \in Ids : registry'[i] \in {registry[i], None}
  BY <1>1, <1>8, <1>9
<1> HIDE DEF id
<1> QED BY <1>1, <1>2, <1>7, <1>9, <1>10, <1>11, <1>12, <1>13, <1>14, FrameRead

\* The first data frame on the wire for a registered connection is the next
\* one it is to read.
LEMMA NextFrame ==
    ASSUME ConnectorInv, runner = "reading", wire # <<>>, NEW c \in Conns, DataAt(1, c), Registered(c),
           Len(wire) \in Nat, 1 \in 1 .. Len(wire)
    PROVE  /\ wire[1].n = Taken(c) + 1 /\ wire[1].n <= dev[c].sent /\ wire[1].n \in 1 .. MaxSent
<1>1. Expected(c) /\ DataOK(c)
  BY DEF Expected, ConnectorInv, DataInv
<1>2. Taken(c) \in Nat /\ dev[c].sent \in 0 .. MaxSent /\ MaxSent \in Nat
  BY <1>1, ExpectedFacts, Types, Bounds
<1>3. wire[1].n \in 1 .. dev[c].sent /\ wire[1].n > Taken(c)
  BY <1>1 DEF DataOK
<1>4. Taken(c) + 1 \in Taken(c) + 1 .. dev[c].sent
  BY <1>2, <1>3
<1>5. PICK q \in 1 .. Len(wire) : DataAt(q, c) /\ wire[q].n = Taken(c) + 1
  BY <1>1, <1>4 DEF DataOK
<1>6. CASE q = 1
  BY <1>2, <1>3, <1>5, <1>6
<1>7. CASE q # 1
  <2>1. 1 < q
    BY <1>5, <1>7
  <2>2. wire[1].n < wire[q].n
    BY <1>1, <1>5, <2>1 DEF DataOK
  <2> QED BY <1>2, <1>3, <1>5, <2>2
<1> QED BY <1>6, <1>7

LEMMA HandleDataStep ==
    ASSUME ConnectorInv, runner = "reading", wire # <<>>, NEW c \in Conns, wire[1].c = c,
           wire[1].t = "data", HandleData(c, wire[1].n), UNCHANGED <<closed, gen, sending, lock>>,
           UNCHANGED serviceVars
    PROVE  ConnectorInv'
<1> DEFINE n == wire[1].n
           to == registry[dev[c].id]
<1>1. /\ wire' = Tail(wire)
      /\ UNCHANGED <<runner, closed, gen, socket, link, accepted, sending, lock,
                     acceptor, phase, pend, shutdown>>
  BY DEF HandleData, serviceVars
<1>2. 1 \in 1 .. Len(wire) /\ OnWire(c) /\ Len(wire) \in Nat
  <2>1. 1 \in 1 .. Len(wire) /\ Len(wire) \in Nat
    BY <1>1, WireShrinks
  <2> QED BY <2>1 DEF OnWire
<1>3. dev[c].id \in Ids /\ to \in {c, None} /\ (Registered(c) <=> to = c)
  BY <1>2, FrameIsForOwner
<1>4. ~OpenOnWire(c)
  <2>1. \A d : OpenOnWire(d)' <=> OpenOnWire(d) /\ ~(wire[1].c = d /\ wire[1].t = "open")
    BY <1>1, WireShrinks
  <2>2. \A d : OpenOnWire(d)' => wire[1].c # d
    BY <1>1, WireShrinks
  <2> QED BY <2>1, <2>2
<1>5. /\ conn \in [Conns -> ConnRecord] /\ dev \in [Conns -> DevRecord]
      /\ registry \in [Ids -> Conns \cup {None}]
      /\ \A d \in Conns : ConnOK(conn[d]) /\ QueueOK(conn[d], dev[d].sent) /\ dev[d].sent \in Nat
  BY Types DEF ConnectorInv, ServiceTypeOK, TypeOK, QueueInv
<1>6. CASE to = None
  <2>1. registry' = registry /\ conn' = conn /\ dev' = dev
    BY <1>6 DEF HandleData
  <2>2. ~Registered(c) /\ \A d \in Conns : Registered(d)' <=> Registered(d)
    BY <1>3, <1>6, <2>1, Bounds DEF Registered
  <2>3. dev[c].at # "open"
    BY <1>4, <2>2 DEF ConnectorInv, ServedInv
  <2>4. \A d \in Conns : /\ ConnOK(conn'[d]) /\ QueueOK(conn'[d], dev[d].sent)
                         /\ conn'[d].out = conn[d].out /\ (d # c => conn'[d] = conn[d])
    BY <1>5, <2>1
  <2>5. \A i \in Ids : registry'[i] \in {registry[i], None}
    BY <2>1
  <2>6. \A d \in Conns : /\ dev'[d].id = dev[d].id /\ dev'[d].sock = dev[d].sock
                         /\ dev'[d].sent = dev[d].sent /\ dev'[d].rcv = dev[d].rcv
                         /\ d # c \/ dev[d].at # "open" => dev'[d] = dev[d]
                         /\ dev'[d].at \in {dev[d].at, "gone"}
    BY <2>1
  <2> HIDE DEF to
  <2> QED BY <1>1, <1>5, <2>1, <2>2, <2>3, <2>4, <2>5, <2>6, FrameRead
<1>7. CASE to = c
  <2>1. Registered(c) /\ c # None
    BY <1>3, <1>7, Bounds
  <2>2. ~conn[c].closed
    BY <2>1, ExpectedFacts DEF Expected
  <2>3. /\ n = Taken(c) + 1 /\ n <= dev[c].sent /\ n \in 1 .. MaxSent
    BY <1>2, <2>1, NextFrame DEF DataAt
  <2>4. CASE Feeds(conn[c])
    <3> DEFINE o == [conn[c] EXCEPT !.inbound = Append(@, n)]
    <3>1. conn' = [conn EXCEPT ![c] = o] /\ registry' = registry /\ dev' = dev
      <4>1. conn' = [conn EXCEPT ![to].inbound = Append(@, n)] /\ registry' = registry /\ dev' = dev
        BY <1>7, <2>1, <2>4 DEF HandleData
      <4> QED BY <1>5, <1>7, <4>1
    <3>2. /\ ConnOK(o) /\ o.closed = conn[c].closed /\ o.out = conn[c].out
          /\ QueueOK(o, dev[c].sent) /\ Count(o.got, o.inbound) = n
      BY <1>5, <2>2, <2>3, <2>4, FeedsFacts DEF Taken
    <3> HIDE DEF o
    <3>3. conn'[c] = o /\ \A d \in Conns : d # c => conn'[d] = conn[d]
      BY <1>5, <3>1
    <3>4. conn' \in [Conns -> ConnRecord]
      BY <1>5, <3>1, <3>2 DEF ConnOK
    <3>5. \A d \in Conns : Registered(d)' <=> Registered(d)
      BY <3>1 DEF Registered
    <3>6. Taken(c)' = n /\ ~conn'[c].closed
      BY <2>2, <3>2, <3>3 DEF Taken
    <3>7. \A d \in Conns : /\ ConnOK(conn'[d]) /\ QueueOK(conn'[d], dev[d].sent)
                           /\ conn'[d].out = conn[d].out /\ (d # c => conn'[d] = conn[d])
      BY <1>5, <3>2, <3>3
    <3>8. \A i \in Ids : registry'[i] \in {registry[i], None}
      BY <3>1
    <3>9. \A d \in Conns : /\ dev'[d].id = dev[d].id /\ dev'[d].sock = dev[d].sock
                           /\ dev'[d].sent = dev[d].sent /\ dev'[d].rcv = dev[d].rcv
                           /\ d # c \/ dev[d].at # "open" => dev'[d] = dev[d]
                           /\ dev'[d].at \in {dev[d].at, "gone"}
      BY <3>1
    <3> HIDE DEF to
    <3> QED BY <1>1, <1>5, <2>1, <3>1, <3>4, <3>5, <3>6, <3>7, <3>8, <3>9, FrameRead
  <2>5. CASE ~Feeds(conn[c])
    <3>1. CloseDevice(c)
      BY <1>7, <2>1, <2>5 DEF HandleData
    <3>2. /\ conn' \in [Conns -> ConnRecord]
          /\ \A d \in Conns : /\ ConnOK(conn'[d]) /\ QueueOK(conn'[d], dev[d].sent)
                              /\ conn'[d].out = conn[d].out
                              /\ d # c => conn'[d] = conn[d]
          /\ registry' \in [Ids -> Conns \cup {None}]
          /\ \A i \in Ids : registry'[i] \in {registry[i], None} /\ registry'[i] # c
          /\ dev' \in [Conns -> DevRecord]
          /\ \A d \in Conns : /\ dev'[d].id = dev[d].id /\ dev'[d].sock = dev[d].sock
                              /\ dev'[d].sent = dev[d].sent /\ dev'[d].rcv = dev[d].rcv
                              /\ d # c \/ dev[d].at # "open" => dev'[d] = dev[d]
                              /\ dev'[d].at \in {dev[d].at, "gone"}
                              /\ Registered(d)' <=> Registered(d) /\ d # c
          /\ ~OpenOnWire(c) => dev'[c].at # "open"
      BY <3>1, CloseDeviceFacts
    <3>3. ~Registered(c)' /\ dev'[c].at # "open" /\ \A d \in Conns : d # c => (Registered(d)' <=> Registered(d))
      BY <1>4, <3>2
    <3>4. \A i \in Ids : registry'[i] \in {registry[i], None}
      BY <3>2
    <3>5. \A d \in Conns : /\ ConnOK(conn'[d]) /\ QueueOK(conn'[d], dev[d].sent)
                           /\ conn'[d].out = conn[d].out /\ (d # c => conn'[d] = conn[d])
      BY <3>2
    <3>6. \A d \in Conns : /\ dev'[d].id = dev[d].id /\ dev'[d].sock = dev[d].sock
                           /\ dev'[d].sent = dev[d].sent /\ dev'[d].rcv = dev[d].rcv
                           /\ d # c \/ dev[d].at # "open" => dev'[d] = dev[d]
                           /\ dev'[d].at \in {dev[d].at, "gone"}
      BY <3>2
    <3> HIDE DEF to
    <3> QED BY <1>1, <3>2, <3>3, <3>4, <3>5, <3>6, FrameRead
  <2> QED BY <2>4, <2>5
<1> QED BY <1>3, <1>6, <1>7

\* An open that is read finds its id free and its connection unknown.
LEMMA OpenIsNew ==
    ASSUME ConnectorInv, wire # <<>>, NEW c \in Conns, wire[1].c = c, wire[1].t = "open",
           1 \in 1 .. Len(wire)
    PROVE  /\ OpenOnWire(c) /\ OnWire(c) /\ Unread(c) /\ dev[c].at # "none"
           /\ dev[c].id \in Ids /\ registry[dev[c].id] = None
<1>1. OpenOnWire(c) /\ OnWire(c)
  BY DEF OpenOnWire, OnWire
<1>2. Unread(c)
  BY <1>1 DEF ConnectorInv, UnreadInv
<1> QED BY <1>1, <1>2, FrameIsForOwner DEF Unread

LEMMA HandleOpenStep ==
    ASSUME ConnectorInv, runner = "reading", wire # <<>>, NEW c \in Conns, wire[1].c = c,
           wire[1].t = "open", HandleOpen(c), UNCHANGED <<closed, gen, sending, lock>>,
           UNCHANGED serviceVars
    PROVE  ConnectorInv'
<1> DEFINE id == dev[c].id
<1>1. 1 \in 1 .. Len(wire)
  <2>1. wire \in Seq(Frame)
    BY Types
  <2> HIDE DEF Frame
  <2> QED BY <2>1, TailFacts
<1>2. /\ OpenOnWire(c) /\ OnWire(c) /\ Unread(c) /\ dev[c].at # "none"
      /\ id \in Ids /\ registry[id] = None
  BY <1>1, OpenIsNew
<1>3. /\ registry \in [Ids -> Conns \cup {None}] /\ accepted \in Seq(Conns \cup {None})
      /\ dev \in [Conns -> DevRecord] /\ closed \in BOOLEAN /\ AcceptLimit \in Nat
      /\ \A d \in Conns : dev[d].id \in Ids \cup {None}
  BY Types, Bounds DEF ConnectorInv, ServiceTypeOK, TypeOK
<1>4. UNCHANGED <<closed, gen, sending, lock, acceptor, phase, pend, shutdown>>
  BY DEF serviceVars
<1>5. CASE Len(accepted) < AcceptLimit
  <2>1. /\ registry' = [registry EXCEPT ![id] = c] /\ accepted' = Append(accepted, c)
        /\ conn' = MarkedClosed({}) /\ wire' = Tail(wire)
        /\ UNCHANGED <<runner, socket, link, dev>>
    BY <1>2, <1>5 DEF HandleOpen
  <2>2. conn' = conn
    BY <2>1, MarkedNone
  <2>3. /\ wire' \in Seq(Frame) /\ Len(wire') <= MaxWire
        /\ \A d : OnWire(d)' => OnWire(d)
        /\ \A d : OpenOnWire(d)' <=> OpenOnWire(d) /\ ~(wire[1].c = d /\ wire[1].t = "open")
        /\ \A d : OpenOnWire(d)' => wire[1].c # d
        /\ (\A d \in Conns : dev'[d].at \in {dev[d].at, "gone"}) => WireInv'
    BY <2>1, WireShrinks
  <2>4. /\ accepted' \in Seq(Conns \cup {None}) /\ Len(accepted') = Len(accepted) + 1
        /\ Len(accepted) \in Nat
        /\ accepted'[Len(accepted) + 1] = c /\ Len(accepted) + 1 \in 1 .. Len(accepted')
        /\ \A p \in 1 .. Len(accepted) : p \in 1 .. Len(accepted') /\ accepted'[p] = accepted[p]
        /\ \A p \in 1 .. Len(accepted') : p \in 1 .. Len(accepted) \/ p = Len(accepted) + 1
    BY <1>3, <2>1, AppendFacts
  <2>5. /\ registry' \in [Ids -> Conns \cup {None}] /\ registry'[id] = c
        /\ \A i \in Ids : i # id => registry'[i] = registry[i]
    BY <1>2, <1>3, <2>1
  <2>6. \A d \in Conns : Registered(d)' <=> Registered(d) \/ d = c
    <3>1. c # None /\ id # None
      BY <1>2, Bounds
    <3>2. SUFFICES ASSUME NEW d \in Conns PROVE Registered(d)' <=> Registered(d) \/ d = c
      OBVIOUS
    <3>3. CASE d = c
      BY <2>1, <2>5, <3>1, <3>3 DEF Registered
    <3>4. CASE d # c /\ dev[d].id = id
      BY <1>2, <2>1, <2>5, <3>1, <3>4, Bounds DEF Registered
    <3>5. CASE d # c /\ dev[d].id # id
      BY <1>3, <2>1, <2>5, <3>5 DEF Registered
    <3> QED BY <3>3, <3>4, <3>5
  <2>7. /\ SocketInv /\ RegistryInv /\ IdsInv /\ UnreadInv /\ QueueInv /\ SendInv /\ DeliveryInv
        /\ AcceptInv /\ PairingInv /\ ShutdownInv /\ ServedInv
    BY DEF ConnectorInv
  <2>8. ServiceTypeOK'
    <3>1. Len(accepted') <= AcceptLimit
      BY <1>3, <1>5, <2>4
    <3>2. conn' \in [Conns -> ConnRecord] /\ \A d \in Conns : ConnOK(conn'[d])
      BY <2>2, Types
    <3>3. TypeOK'
      BY <1>3, <1>4, <2>1, <2>3, <2>4, <2>5, <3>1, <3>2, TypesNext
         DEF ConnectorInv, ServiceTypeOK, TypeOK
    <3> QED BY <1>4, <3>3 DEF ConnectorInv, ServiceTypeOK
  <2>9. SocketInv'
    BY <1>4, <2>1, <2>7 DEF SocketInv
  <2>10. RegistryInv'
    <3>1. ASSUME NEW i \in Ids, registry'[i] # None
          PROVE  dev'[registry'[i]].id = i /\ ~conn'[registry'[i]].closed
      <4>1. CASE i = id
        BY <1>2, <2>1, <2>2, <2>5, <4>1 DEF Unread
      <4>2. CASE i # id
        BY <2>1, <2>2, <2>5, <2>7, <3>1, <4>2 DEF RegistryInv
      <4> QED BY <4>1, <4>2
    <3> QED BY <2>1, <2>7, <3>1 DEF RegistryInv
  <2>11. IdsInv'
    BY <1>2, <2>1, <2>3, <2>6, <2>7, IdsShrink DEF Busy
  <2>12. UnreadInv'
    <3>1. ASSUME NEW d \in Conns, d # c, Unread(d) PROVE Unread(d)'
      <4>1. \A p \in 1 .. Len(accepted') : accepted'[p] # d
        BY <2>4, <3>1 DEF Unread
      <4> QED BY <1>4, <2>2, <2>6, <3>1, <4>1 DEF Unread
    <3>2. \A d \in Conns : dev'[d].at = "none" \/ OpenOnWire(d)' => d # c
      BY <1>2, <2>1, <2>3
    <3> QED BY <2>1, <2>3, <2>7, <3>1, <3>2 DEF UnreadInv
  <2>13. WireInv'
    BY <2>1, <2>3
  <2>14. DataInv'
    <3>1. ASSUME NEW d \in Conns PROVE DataOK(d)'
      <4>1. Taken(d)' = Taken(d) /\ ~DataAt(1, d)
        BY <2>2 DEF Taken, DataAt
      <4>2. Expected(d)' => Expected(d)
        BY <1>2, <2>3, <2>6 DEF Expected
      <4> QED BY <2>1, <4>1, <4>2, DataRead
    <3> QED BY <3>1 DEF DataInv
  <2>15. QueueInv' /\ SendInv' /\ PairingInv' /\ ShutdownInv'
    BY <1>4, <2>1, <2>2, <2>7 DEF QueueInv, SendInv, PairingInv, ShutdownInv, ClosedIsQuiet
  <2>16. DeliveryInv'
    BY <2>1, <2>2, <2>7, OwnFramesOnly DEF DeliveryInv
  <2>17. AcceptInv'
    <3>1. phase[c] = "none" /\ \A p \in 1 .. Len(accepted) : accepted[p] # c
      BY <1>2 DEF Unread
    <3> QED BY <1>4, <2>4, <2>7, <3>1 DEF AcceptInv
  <2>18. ServedInv'
    <3>1. ASSUME NEW d \in Conns, dev'[d].at = "open", ~OpenOnWire(d)'
          PROVE  /\ Registered(d)'
                 /\ \/ phase'[d] \in Live \ {"closing"}
                    \/ \E q \in 1 .. Len(accepted') : accepted'[q] = d
      <4>1. CASE d = c
        BY <2>4, <2>6, <4>1
      <4>2. CASE d # c
        <5>1. /\ Registered(d)
              /\ \/ phase[d] \in Live \ {"closing"}
                 \/ \E q \in 1 .. Len(accepted) : accepted[q] = d
          BY <2>1, <2>3, <2>7, <3>1, <4>2 DEF ServedInv
        <5> QED BY <1>4, <2>4, <2>6, <5>1
      <4> QED BY <4>1, <4>2
    <3> QED BY <3>1 DEF ServedInv
  <2> QED BY <2>8, <2>9, <2>10, <2>11, <2>12, <2>13, <2>14, <2>15, <2>16, <2>17, <2>18
          DEF ConnectorInv
<1>6. CASE ~(Len(accepted) < AcceptLimit)
  <2> DEFINE cs == {c}
  <2>1. /\ registry' = [registry EXCEPT ![id] = None] /\ conn' = MarkedClosed({} \cup {c})
        /\ ReadFails /\ accepted' = accepted
    BY <1>2, <1>6 DEF HandleOpen
  <2>2. {} \cup {c} = cs
    OBVIOUS
  <2>3. conn' = MarkedClosed(cs)
    BY <2>1, <2>2
  <2>4. registry' = registry
    BY <1>2, <1>3, <2>1
  <2>5. /\ socket' = 0 /\ runner' = "dropping" /\ link' = FALSE /\ wire' = <<>>
        /\ dev' = DevicesEnd({d \in Conns : dev[d].at = "open"})
    BY <2>1 DEF ReadFails
  <2>6. runner' \in RunnerPhase \ {"reading"} /\ runner' \notin {"connecting", "backoff"}
    BY <2>5 DEF RunnerPhase
  <2>7. \A i \in Ids : registry'[i] # None => registry'[i] \notin cs
    BY <1>2, <2>4, RegisteredHaveDevice DEF Unread
  <2>8. \A d \in Conns : dev[d].at = "none" => d \notin cs
    BY <1>2
  <2>9. \A i \in Ids : registry'[i] \in {registry[i], None}
    BY <2>4
  <2>10. UNCHANGED <<sending, lock, acceptor, phase, pend>> /\ gen' = gen /\ closed' \in BOOLEAN
         /\ shutdown' = shutdown /\ registry' \in [Ids -> Conns \cup {None}]
    BY <1>3, <1>4, <2>4
  <2> HIDE DEF cs, id
  <2> QED BY <2>1, <2>3, <2>5, <2>6, <2>7, <2>8, <2>9, <2>10, SocketGone
<1> QED BY <1>5, <1>6

LEMMA ReadFrameStep ==
    ASSUME ConnectorInv, ReadFrame, UNCHANGED serviceVars
    PROVE  ConnectorInv'
<1>1. /\ runner = "reading" /\ wire # <<>> /\ UNCHANGED <<closed, gen, sending, lock>>
  BY DEF ReadFrame
<1>2. Head(wire) = wire[1] /\ 1 \in 1 .. Len(wire)
  <2>1. wire \in Seq(Frame)
    BY Types
  <2> HIDE DEF Frame
  <2> QED BY <1>1, <2>1, TailFacts
<1>3. wire[1].t # "bad" => wire[1].c \in Conns
  BY <1>2 DEF ConnectorInv, WireInv
<1>4. CASE wire[1].t = "open" /\ HandleOpen(wire[1].c)
  BY <1>1, <1>3, <1>4, HandleOpenStep
<1>5. CASE wire[1].t = "close" /\ HandleClose(wire[1].c)
  BY <1>1, <1>3, <1>5, HandleCloseStep
<1>6. CASE wire[1].t = "data" /\ HandleData(wire[1].c, wire[1].n)
  BY <1>1, <1>3, <1>6, HandleDataStep
<1>7. CASE wire[1].t = "bad" /\ HandleViolation
  BY <1>1, <1>7, RunnerStep
<1> QED BY <1>2, <1>4, <1>5, <1>6, <1>7 DEF ReadFrame

-----------------------------------------------------------------------------
(* The invariant holds                                                     *)

LEMMA InitConnector == Init => ConnectorInv
<1> SUFFICES ASSUME Init PROVE ConnectorInv
  OBVIOUS
<1> DEFINE o == [closed |-> FALSE, inbound |-> <<>>, waits |-> FALSE, got |-> <<>>, out |-> 0]
           e == [at |-> "none", id |-> None, sock |-> 0, sent |-> 0, rcv |-> <<>>]
<1>1. /\ runner = "connecting" /\ closed = FALSE /\ gen = 0 /\ socket = 0
      /\ registry = [i \in Ids |-> None] /\ accepted = <<>>
      /\ sending = [c \in Conns |-> Idle] /\ lock = None
      /\ link = FALSE /\ wire = <<>> /\ acceptor = TRUE
      /\ phase = [c \in Conns |-> "none"] /\ pend = [c \in Conns |-> "none"] /\ shutdown = "no"
  BY DEF Init, ClientInit
<1>2. conn = [c \in Conns |-> o] /\ dev = [c \in Conns |-> e]
  BY DEF Init, ClientInit
<1>3. /\ o \in ConnRecord /\ o.inbound = <<>> /\ o.closed = FALSE /\ o.waits = FALSE
      /\ o.got = <<>> /\ o.out = 0
  BY Bounds DEF ConnRecord
<1>4. /\ e \in DevRecord /\ e.at = "none" /\ e.id = None /\ e.sent = 0 /\ e.rcv = <<>>
  BY Bounds DEF DevRecord
<1>5. \A c \in Conns : conn[c] = o /\ dev[c] = e
  BY <1>2
<1>6. conn \in [Conns -> ConnRecord] /\ dev \in [Conns -> DevRecord]
  <2> HIDE DEF o, e
  <2> QED BY <1>2, <1>3, <1>4
<1>7. \A c \in Conns : ~Registered(c)
  BY <1>4, <1>5 DEF Registered
<1>8. ServiceTypeOK
  <2>1. \A c \in Conns : Len(conn[c].inbound) <= InboundLimit
    <3>1. Len(<<>>) <= InboundLimit
      BY Bounds
    <3> HIDE DEF o
    <3> QED BY <1>3, <1>5, <3>1
  <2>2. sending \in [Conns -> [at : {"idle", "waiting", "pacing"}, sock : 0 .. MaxSockets]]
    BY <1>1, Bounds DEF Idle
  <2>3. /\ accepted \in Seq(Conns \cup {None}) /\ Len(accepted) <= AcceptLimit
        /\ wire \in Seq(Frame) /\ Len(wire) <= MaxWire
    BY <1>1, Bounds
  <2>4. TypeOK
    <3> HIDE DEF o, e
    <3>1. gen \in 0 .. MaxSockets /\ socket \in {0, gen} /\ runner \in RunnerPhase
      BY <1>1, Bounds DEF RunnerPhase
    <3>2. registry \in [Ids -> Conns \cup {None}] /\ lock \in Conns \cup {None}
          /\ closed \in BOOLEAN /\ link \in BOOLEAN
      BY <1>1
    <3> QED BY <1>6, <2>1, <2>2, <2>3, <3>1, <3>2 DEF TypeOK, ConnRecord, DevRecord
  <2>5. phase \in [Conns -> Phase] /\ pend \in [Conns -> {"none", "pending", "acked", "denied", "undenied"}]
    BY <1>1 DEF Phase
  <2> QED BY <1>1, <2>4, <2>5 DEF ServiceTypeOK
<1>9. Len(wire) = 0 /\ Len(accepted) = 0
  BY <1>1
<1>10. SocketInv /\ RegistryInv
  BY <1>1, <1>4, <1>5 DEF SocketInv, RegistryInv
<1>11. \A c : ~OnWire(c) /\ ~OpenOnWire(c)
  BY <1>9 DEF OnWire, OpenOnWire
<1>12. IdsInv
  BY <1>4, <1>5, <1>7, <1>11 DEF IdsInv, Busy
<1>13. UnreadInv
  BY <1>1, <1>4, <1>5, <1>7, <1>9, <1>11 DEF UnreadInv, Unread
<1>14. WireInv /\ AcceptInv
  BY <1>9 DEF WireInv, AcceptInv
<1>15. DataInv
  BY <1>7, <1>9, <1>11 DEF DataInv, DataOK, Expected
<1>16. QueueInv
  <2>1. GapFree(<<>>, <<>>, FALSE, 0)
    <3>1. <<>> = [i \in 1 .. 0 |-> i] /\ Len(<<>>) = 0
      OBVIOUS
    <3> QED BY <3>1 DEF GapFree, Counting
  <2>2. QueueOK(o, 0)
    BY <1>3, <2>1 DEF QueueOK
  <2> QED BY <1>4, <1>5, <2>2 DEF QueueInv
<1>17. SendInv
  BY <1>1, Bounds DEF SendInv, Idle
<1>18. DeliveryInv
  <2>1. \A d : OwnFrames(d, <<>>)
    <3>1. ASSUME NEW d PROVE <<>> = [i \in 1 .. 0 |-> <<d, i>>]
      OBVIOUS
    <3> QED BY <3>1 DEF OwnFrames
  <2>2. OnlyOwnFrames
    BY <1>4, <1>5, <2>1, OwnFramesOnly
  <2> QED BY <1>4, <1>5, <2>2 DEF DeliveryInv
<1>19. PairingInv /\ ShutdownInv /\ ServedInv
  BY <1>1, <1>4, <1>5 DEF PairingInv, ShutdownInv, ClosedIsQuiet, ServedInv
<1> QED BY <1>8, <1>10, <1>12, <1>13, <1>14, <1>15, <1>16, <1>17, <1>18, <1>19 DEF ConnectorInv

LEMMA ConnectorStep == ConnectorInv /\ [Next]_vars => ConnectorInv'
<1> SUFFICES ASSUME ConnectorInv, [Next]_vars PROVE ConnectorInv'
  OBVIOUS
<1>1. CASE ClientNext /\ UNCHANGED serviceVars
  BY <1>1, ConnectStep, RunnerStep, DroppedStep, ReadFrameStep, SendAcquiresStep DEF ClientNext
<1>2. CASE RouterNext /\ UNCHANGED serviceVars
  BY <1>2, DeviceOpensStep, DeviceSendsStep, DeviceClosesStep, RouterMisbehavesStep, SocketLostStep
     DEF RouterNext
<1>3. CASE AcceptConnection
  BY <1>3, AcceptConnectionStep
<1>4. CASE \E c \in Conns : SessionStep(c)
  BY <1>4, ServeConnectionStep, TaskDoneStep, ReceiveStep, SessionEnds, AdmissionReturnsStep,
     SessionSendsStep, SentStep, SendFailsStep DEF SessionStep
<1>5. CASE ServiceCloses
  BY <1>5, ServiceClosesStep
<1>6. CASE ConnectorCloses
  BY <1>6, ConnectorClosesStep
<1>7. CASE AcceptorStops
  BY <1>7, AcceptorStopsStep
<1>8. CASE ServiceClosed
  BY <1>8, ServiceClosedStep
<1>9. CASE UNCHANGED vars
  <2>1. UNCHANGED <<runner, closed, gen, socket, registry, accepted, conn, link, wire, dev,
                    acceptor, phase, pend, shutdown, sending, lock>>
    BY <1>9 DEF vars, clientVars, routerVars, serviceVars
  <2>2. SendInv' /\ lock' \in Conns \cup {None}
        /\ sending' \in [Conns -> [at : {"idle", "waiting", "pacing"}, sock : 0 .. MaxSockets]]
    BY <2>1 DEF ConnectorInv, SendInv, ServiceTypeOK, TypeOK
  <2>3. UNCHANGED <<runner, closed, gen, socket, registry, accepted, conn, link, wire, dev,
                    acceptor, phase, pend, shutdown>>
    BY <2>1
  <2> QED BY <2>2, <2>3, SendAside
<1> QED BY <1>1, <1>2, <1>3, <1>4, <1>5, <1>6, <1>7, <1>8, <1>9 DEF Next

LEMMA ConnectorInvariant == Spec => []ConnectorInv
BY InitConnector, ConnectorStep, PTL DEF Spec

-----------------------------------------------------------------------------
(* What follows                                                            *)

\* A session's Noise records are its device's frames, from the first one on
\* and with none missing, for every queue limit and every order of sends,
\* overflows, reconnects and closes: _read_loop never feeds a connection past
\* a frame it dropped, and never feeds it another connection's frame.
THEOREM InboundHasNoGapHolds == Spec => []InboundHasNoGap
<1>1. ConnectorInv => InboundHasNoGap
  BY DEF ConnectorInv, QueueInv, QueueOK, GapFree, InboundHasNoGap
<1> QED BY <1>1, ConnectorInvariant, PTL

\* A device is handed the frames its own connection sent, in order, whatever
\* ids the router gives again and whoever waited for the pacing lock
\* (_send_binary).
THEOREM OnlyOwnFramesHolds == Spec => []OnlyOwnFrames
<1>1. ConnectorInv => OnlyOwnFrames
  BY DEF ConnectorInv, DeliveryInv
<1> QED BY <1>1, ConnectorInvariant, PTL

\* A session that is over leaves a pending pairing record only when the
\* service was shutting down or the repository refused to deny it
\* (_session_loop's rollback).
THEOREM UnacknowledgedIsDeniedHolds == Spec => []UnacknowledgedIsDenied
<1>1. ConnectorInv => UnacknowledgedIsDenied
  BY DEF ConnectorInv, PairingInv, UnacknowledgedIsDenied
<1> QED BY <1>1, ConnectorInvariant, PTL

\* No device is left connected to nobody, no receiver or sender waits for what
\* cannot come, and a closed service runs no session (_handle_control,
\* _mark_closed, _send_binary, RelayConnectorService.close).
THEOREM EndsAreSeenHolds == Spec => []EndsAreSeen
<1>1. ASSUME ConnectorInv PROVE EndsAreSeen
  <2>1. NobodyLeftHanging
    <3>1. SUFFICES ASSUME NEW c \in Conns, dev[c].at = "open", Announced(c)
                   PROVE  /\ Registered(c) /\ ~conn[c].closed
                          /\ \/ phase[c] \in Live \ {"closing"}
                             \/ \E i \in 1 .. Len(accepted) : accepted[i] = c
      BY DEF NobodyLeftHanging
    <3>2. ~OpenOnWire(c)
      BY <3>1 DEF Announced, OpenOnWire
    <3>3. /\ Registered(c)
          /\ \/ phase[c] \in Live \ {"closing"}
             \/ \E i \in 1 .. Len(accepted) : accepted[i] = c
      BY <1>1, <3>1, <3>2 DEF ConnectorInv, ServedInv
    <3>4. ~conn[c].closed
      BY <1>1, <3>3, ExpectedFacts DEF Expected
    <3> QED BY <3>3, <3>4
  <2>2. WaitersAreWoken
    <3>1. lock \in Conns \cup {None}
      BY <1>1 DEF ConnectorInv, ServiceTypeOK, TypeOK
    <3>2. \A c \in Conns : conn[c].closed /\ conn[c].waits => conn[c].inbound # <<>>
      BY <1>1 DEF ConnectorInv, QueueInv, QueueOK
    <3>3. lock # None => sending[lock].at = "pacing" /\ phase[lock] \in Sending
      BY <1>1, <3>1 DEF ConnectorInv, SendInv
    <3> QED BY <3>2, <3>3 DEF WaitersAreWoken
  <2> QED BY <1>1, <2>1, <2>2 DEF EndsAreSeen, ConnectorInv, ShutdownInv
<1> QED BY <1>1, ConnectorInvariant, PTL
=============================================================================
