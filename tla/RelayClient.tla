------------------------------ MODULE RelayClient ------------------------------
(* The hosted relay client of relay_client.py: one outbound socket to the   *)
(* router carries every device connection, tagged by a router-chosen id.    *)
(* This module holds the client's state and the parts of its coroutines     *)
(* between two suspension points, as operators and actions; the sessions    *)
(* that use the connections are in ConnectorService.                        *)
(*                                                                         *)
(* The router and the devices are external.  The router keeps the order of  *)
(* a socket's frames, and gives an id again only on a later socket or when  *)
(* both ends have dropped its last connection.                              *)
EXTENDS Naturals, Sequences, FiniteSets

CONSTANTS
    None,           \* Python's None
    Conns,          \* HostedDeviceConnection objects, one per device connection
    Ids,            \* the router's connection ids
    InboundLimit,   \* INBOUND_QUEUE_LIMIT
    AcceptLimit,    \* ACCEPT_QUEUE_LIMIT
    MaxSockets,     \* bound: sockets ever opened
    MaxSent,        \* bound: frames one device sends
    MaxOut,         \* bound: frames sent to one device
    MaxWire         \* bound: frames in flight from the router

ASSUME RelayClientAssumption ==
    /\ None \notin Conns \cup Ids \cup (1 .. MaxSent)
    /\ {InboundLimit, AcceptLimit, MaxSockets, MaxSent, MaxOut, MaxWire} \subseteq Nat \ {0}

VARIABLES
    runner,     \* where _run is suspended
    closed,     \* CloudflareRelayConnector.closed
    gen,        \* sockets opened so far; the current one has this number
    socket,     \* _socket: a socket number, 0 for None
    registry,   \* _connections: Ids -> Conns or None
    accepted,   \* _accepted, the sentinel as None
    conn,       \* the connection objects
    sending,    \* per connection: its call of _send_binary
    lock,       \* the holder of _outbound_lock
    link,       \* external: the socket still reaches the router
    wire,       \* external: frames of the current socket not read yet
    dev         \* external: the device's end of each connection

clientVars == <<runner, closed, gen, socket, registry, accepted, conn, sending, lock>>
routerVars == <<link, wire, dev>>

RunnerPhase == {"connecting", "reading", "dropping", "lastDrop", "backoff", "stopped"}
Frame == [t : {"open", "close", "data", "bad"}, c : Conns \cup {None}, n : 0 .. MaxSent]
Idle == [at |-> "idle", sock |-> 0]

TypeOK ==
    /\ runner \in RunnerPhase
    /\ closed \in BOOLEAN
    /\ gen \in 0 .. MaxSockets
    /\ socket \in {0, gen}
    /\ registry \in [Ids -> Conns \cup {None}]
    /\ accepted \in Seq(Conns \cup {None}) /\ Len(accepted) <= AcceptLimit
    /\ conn \in [Conns -> [closed : BOOLEAN, inbound : Seq(1 .. MaxSent \cup {None}),
                           waits : BOOLEAN, got : Seq(1 .. MaxSent), out : 0 .. MaxOut]]
    /\ \A c \in Conns : Len(conn[c].inbound) <= InboundLimit
    /\ sending \in [Conns -> [at : {"idle", "waiting", "pacing"}, sock : 0 .. MaxSockets]]
    /\ lock \in Conns \cup {None}
    /\ link \in BOOLEAN
    /\ wire \in Seq(Frame) /\ Len(wire) <= MaxWire
    /\ dev \in [Conns -> [at : {"none", "open", "gone"}, id : Ids \cup {None},
                          sock : 0 .. MaxSockets, sent : 0 .. MaxSent,
                          rcv : Seq(Conns \X Nat)]]

ClientInit ==
    /\ runner = "connecting" /\ closed = FALSE /\ gen = 0 /\ socket = 0
    /\ registry = [i \in Ids |-> None]
    /\ accepted = <<>>
    /\ conn = [c \in Conns |-> [closed |-> FALSE, inbound |-> <<>>, waits |-> FALSE,
                                got |-> <<>>, out |-> 0]]
    /\ sending = [c \in Conns |-> Idle]
    /\ lock = None
    /\ link = FALSE /\ wire = <<>>
    /\ dev = [c \in Conns |-> [at |-> "none", id |-> None, sock |-> 0, sent |-> 0, rcv |-> <<>>]]

-----------------------------------------------------------------------------
(* The connection object. *)

Registered(c) == dev[c].id # None /\ registry[dev[c].id] = c

\* Faulty: a waiting receive is not woken
MarkClosedSilently(o) == [o EXCEPT !.closed = TRUE]

\* _mark_closed: the sentinel is skipped when the queue is full
MarkClosed(o) ==
    IF o.closed THEN o
    ELSE [o EXCEPT !.closed = TRUE,
                   !.inbound = IF Len(@) < InboundLimit THEN Append(@, None) ELSE @]

\* the connections of cs marked closed
MarkedClosed(cs) == [c \in Conns |-> IF c \in cs THEN MarkClosed(conn[c]) ELSE conn[c]]

\* receive is called: it suspends in the queue's get unless the connection is
\* closed and drained, or a frame is there
CallReceive(o) == [o EXCEPT !.waits = o.inbound = <<>> /\ ~o.closed]

\* receive returns None: at its call, or because the sentinel came
ReceivesEnd(c) ==
    \/ conn[c].inbound = <<>> /\ conn[c].closed /\ ~conn[c].waits
    \/ conn[c].inbound # <<>> /\ Head(conn[c].inbound) = None

\* receive returns a frame
ReceivesFrame(c) == conn[c].inbound # <<>> /\ Head(conn[c].inbound) # None

\* _feed has room; without room the caller closes the device
Feeds(o) == Len(o.inbound) < InboundLimit

Received(o) == [o EXCEPT !.inbound = Tail(@), !.got = Append(@, Head(o.inbound)), !.waits = FALSE]

\* the router ends the devices of ds: the socket no longer carries them
DevicesEnd(ds) == [c \in Conns |-> IF c \in ds THEN [dev[c] EXCEPT !.at = "gone"] ELSE dev[c]]

\* the control frame {"t":"close"} written on socket s for c's id
ToldRouter(c, s) ==
    DevicesEnd(IF link /\ s = gen /\ dev[c].sock = s /\ dev[c].at = "open" THEN {c} ELSE {})

\* _close_device (and HostedDeviceConnection.close, which returns at once on a
\* closed connection: one that is no longer registered)
CloseDevice(c) ==
    /\ conn' = MarkedClosed({c})
    /\ IF Registered(c)
       THEN /\ registry' = [registry EXCEPT ![dev[c].id] = None]
            /\ dev' = IF socket = 0 THEN dev ELSE ToldRouter(c, socket)
       ELSE UNCHANGED <<registry, dev>>

-----------------------------------------------------------------------------
(* _run: the socket's life. *)

\* _ws_connect returns: socket, registry of the router's side and wire are new
Connect ==
    /\ runner = "connecting" /\ ~closed /\ gen < MaxSockets
    /\ gen' = gen + 1 /\ socket' = gen + 1 /\ runner' = "reading"
    /\ link' = TRUE /\ wire' = <<>>
    /\ UNCHANGED <<closed, registry, accepted, conn, sending, lock, dev>>

\* _ws_connect or the token provider raises
ConnectFails ==
    /\ runner = "connecting" /\ ~closed
    /\ runner' = "backoff"
    /\ UNCHANGED <<closed, gen, socket, registry, accepted, conn, sending, lock, routerVars>>

\* the jittered sleep is over
BackoffEnds ==
    /\ runner = "backoff"
    /\ runner' = IF closed THEN "stopped" ELSE "connecting"
    /\ UNCHANGED <<closed, gen, socket, registry, accepted, conn, sending, lock, routerVars>>

\* the read loop raised: _run's finally forgets the socket, then awaits its close
ReadFails ==
    /\ socket' = 0 /\ runner' = "dropping"
    /\ link' = FALSE /\ wire' = <<>>
    /\ dev' = DevicesEnd({c \in Conns : dev[c].at = "open"})

\* recv raises once the frames already received are read
ReadEnds ==
    /\ runner = "reading" /\ ~link /\ wire = <<>>
    /\ ReadFails
    /\ UNCHANGED <<closed, gen, registry, accepted, conn, sending, lock>>

\* _end_all_connections, after the old socket's close was awaited
EndAllConnections ==
    /\ registry' = [i \in Ids |-> None]
    /\ conn' = MarkedClosed({registry[i] : i \in Ids} \ {None})

\* target.close() returned; a cancelled runner ends here
Dropped ==
    /\ runner \in {"dropping", "lastDrop"}
    /\ EndAllConnections
    /\ runner' = IF runner = "dropping" THEN "backoff" ELSE "stopped"
    /\ UNCHANGED <<closed, gen, socket, accepted, sending, lock, routerVars>>

-----------------------------------------------------------------------------
(* _read_loop and _handle_control: one frame. *)

HandleOpen(c) ==
    LET id == dev[c].id
        stale == registry[id]
        ended == IF stale = None THEN {} ELSE {stale}
    IN IF Len(accepted) < AcceptLimit
       THEN /\ registry' = [registry EXCEPT ![id] = c]
            /\ accepted' = Append(accepted, c)
            /\ conn' = MarkedClosed(ended)
            /\ wire' = Tail(wire)
            /\ UNCHANGED <<runner, socket, link, dev>>
       ELSE \* the device is refused by raising, which drops the host socket
            /\ registry' = [registry EXCEPT ![id] = None]
            /\ conn' = MarkedClosed(ended \cup {c})
            /\ ReadFails
            /\ UNCHANGED accepted

HandleClose(c) ==
    LET id == dev[c].id
        closing == registry[id]
    IN /\ registry' = [registry EXCEPT ![id] = None]
       /\ conn' = IF closing = None THEN conn ELSE MarkedClosed({closing})
       /\ wire' = Tail(wire)
       /\ UNCHANGED <<runner, socket, link, dev, accepted>>

\* Faulty: a frame for a full queue is dropped and the device stays
HandleDataSkips(c, n) ==
    LET to == registry[dev[c].id]
    IN /\ wire' = Tail(wire)
       /\ conn' = IF to = None \/ Len(conn[to].inbound) = InboundLimit THEN conn
                  ELSE [conn EXCEPT ![to].inbound = Append(@, n)]
       /\ UNCHANGED <<registry, dev, runner, socket, link, accepted>>

\* a frame for an unknown id is dropped; _feed into a full queue closes the device
HandleData(c, n) ==
    LET to == registry[dev[c].id]
    IN /\ wire' = Tail(wire)
       /\ IF to = None
          THEN UNCHANGED <<registry, conn, dev>>
          ELSE IF Feeds(conn[to])
          THEN /\ conn' = [conn EXCEPT ![to].inbound = Append(@, n)]
               /\ UNCHANGED <<registry, dev>>
          ELSE CloseDevice(to)
       /\ UNCHANGED <<runner, socket, link, accepted>>

\* a frame the router may not send: too long, too short or malformed control
HandleViolation ==
    /\ ReadFails
    /\ UNCHANGED <<registry, conn, accepted>>

ReadFrame ==
    /\ runner = "reading" /\ wire # <<>>
    /\ LET m == Head(wire) IN
        \/ m.t = "open" /\ HandleOpen(m.c)
        \/ m.t = "close" /\ HandleClose(m.c)
        \/ m.t = "data" /\ HandleData(m.c, m.n)
        \/ m.t = "bad" /\ HandleViolation
    /\ UNCHANGED <<closed, gen, sending, lock>>

-----------------------------------------------------------------------------
(* _send_binary: the socket is captured, the lock and the pacing delay are    *)
(* awaited, the capture is checked again, one frame is written.              *)

MaySend(c) == socket # 0 /\ ~conn[c].closed /\ Registered(c)

SendStart(c) ==
    /\ sending[c] = Idle /\ MaySend(c) /\ conn[c].out < MaxOut
    /\ sending' = [sending EXCEPT ![c] = [at |-> "waiting", sock |-> socket]]

SendAcquires(c) ==
    /\ sending[c].at = "waiting" /\ lock = None
    /\ lock' = c
    /\ sending' = [sending EXCEPT ![c].at = "pacing"]
    /\ UNCHANGED <<runner, closed, gen, socket, registry, accepted, conn, routerVars>>

\* Faulty: the connection is not looked at again after the wait
SendUnchecked(c) == socket = sending[c].sock

\* still this socket, this connection
SendAllowed(c) == socket = sending[c].sock /\ ~conn[c].closed /\ Registered(c)

\* the frame's way on socket s: the router hands it to the device that has
\* the id on that socket, and drops it otherwise
Delivered(c, s) ==
    [d \in Conns |->
        IF link /\ s = gen /\ dev[d].at = "open" /\ dev[d].sock = s /\ dev[d].id = dev[c].id
        THEN [dev[d] EXCEPT !.rcv = Append(@, <<c, conn[c].out + 1>>)]
        ELSE dev[d]]

\* the frame is handed to the socket; o is the connection object afterwards
SendWrites(c, o) ==
    /\ sending[c].at = "pacing" /\ SendAllowed(c)
    /\ dev' = Delivered(c, sending[c].sock)
    /\ conn' = [conn EXCEPT ![c] = [o EXCEPT !.out = @ + 1]]

\* the check after the wait raises, or the socket's send does
SendRaises(c) == sending[c].at = "pacing" /\ (~SendAllowed(c) \/ ~link)

\* the call ends: returned, raised or cancelled, wherever it waits
SendOver(c) ==
    /\ sending' = [sending EXCEPT ![c] = Idle]
    /\ lock' = IF lock = c THEN None ELSE lock

-----------------------------------------------------------------------------
(* close: the runner is cancelled where it is suspended, then everything ends. *)

CloseBegins ==
    /\ closed' = TRUE
    /\ socket' = IF runner = "reading" THEN 0 ELSE socket
    /\ runner' = IF runner = "reading" THEN "lastDrop" ELSE "stopped"
    /\ link' = FALSE /\ wire' = <<>>
    /\ dev' = DevicesEnd({c \in Conns : dev[c].at = "open"})
    /\ UNCHANGED <<gen, registry, accepted, conn, sending, lock>>

\* the runner is joined
CloseEnds ==
    /\ closed /\ runner = "stopped"
    /\ socket' = 0
    /\ EndAllConnections
    /\ accepted' = IF Len(accepted) < AcceptLimit THEN Append(accepted, None) ELSE accepted
    /\ UNCHANGED <<runner, closed, gen, sending, lock, routerVars>>

-----------------------------------------------------------------------------
(* The router and the devices (external). *)

RouterUp == link /\ Len(wire) < MaxWire

\* ids the router may not give: held by a device, registered here or in flight
UsedIds == {dev[c].id : c \in {d \in Conns : dev[d].at = "open" \/ Registered(d)}}
           \cup {dev[wire[i].c].id : i \in {j \in 1 .. Len(wire) : wire[j].t # "bad"}}

DeviceOpens(c, id) ==
    /\ RouterUp /\ dev[c].at = "none" /\ id \notin UsedIds
    /\ dev' = [dev EXCEPT ![c].at = "open", ![c].id = id, ![c].sock = gen]
    /\ wire' = Append(wire, [t |-> "open", c |-> c, n |-> 0])
    /\ UNCHANGED <<clientVars, link>>

DeviceSends(c) ==
    /\ RouterUp /\ dev[c].at = "open" /\ dev[c].sent < MaxSent
    /\ dev' = [dev EXCEPT ![c].sent = @ + 1]
    /\ wire' = Append(wire, [t |-> "data", c |-> c, n |-> dev[c].sent + 1])
    /\ UNCHANGED <<clientVars, link>>

DeviceCloses(c) ==
    /\ RouterUp /\ dev[c].at = "open"
    /\ dev' = [dev EXCEPT ![c].at = "gone"]
    /\ wire' = Append(wire, [t |-> "close", c |-> c, n |-> 0])
    /\ UNCHANGED <<clientVars, link>>

RouterMisbehaves ==
    /\ RouterUp /\ \A m \in 1 .. Len(wire) : wire[m].t # "bad"
    /\ wire' = Append(wire, [t |-> "bad", c |-> None, n |-> 0])
    /\ UNCHANGED <<clientVars, link, dev>>

SocketLost ==
    /\ link
    /\ link' = FALSE
    /\ dev' = DevicesEnd({c \in Conns : dev[c].at = "open"})
    /\ UNCHANGED <<clientVars, wire>>

ClientNext ==
    \/ Connect \/ ConnectFails \/ BackoffEnds \/ ReadEnds \/ Dropped \/ ReadFrame
    \/ \E c \in Conns : SendAcquires(c)

RouterNext ==
    \/ \E c \in Conns : (\E id \in Ids : DeviceOpens(c, id)) \/ DeviceSends(c) \/ DeviceCloses(c)
    \/ RouterMisbehaves \/ SocketLost
=============================================================================
