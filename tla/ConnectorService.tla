--------------------------- MODULE ConnectorService ---------------------------
(* The connector service of connector.py on top of the relay client: the    *)
(* accept loop and one session task per device connection, from the Noise   *)
(* handshake through pairing or admission to the two pumps, and shutdown.   *)
(* What admission decides and what Hermes answers is a free choice here;    *)
(* Admission and SessionLease model them.                                   *)
EXTENDS RelayClient

CONSTANT MaxSessions    \* max_connections

ASSUME ConnectorAssumption == MaxSessions \in Nat \ {0} /\ IsFiniteSet(Conns)

VARIABLES
    acceptor,   \* the accept loop runs
    phase,      \* where each connection's session task is
    pend,       \* the pairing record that session made; undenied: its denial raised
    shutdown    \* how far RelayConnectorService.close has got

serviceVars == <<acceptor, phase, pend, shutdown>>
vars == <<clientVars, routerVars, serviceVars>>

\* suspended in a bounded receive
Timed == {"hs1", "hs2", "env"}
Receiving == Timed \cup {"serving"}
Sending == {"hs1send", "ack", "serving"}
Working == Receiving \cup Sending \cup {"acked", "admit"}
Live == Working \cup {"starting", "closing"}
Phase == Live \cup {"none", "ended"}

\* Type correctness of the client and of the service.
ServiceTypeOK ==
    /\ TypeOK
    /\ acceptor \in BOOLEAN
    /\ phase \in [Conns -> Phase]
    /\ pend \in [Conns -> {"none", "pending", "acked", "denied", "undenied"}]
    /\ shutdown \in {"no", "connector", "acceptor", "cancelling", "done"}

Init ==
    /\ ClientInit
    /\ acceptor = TRUE
    /\ phase = [c \in Conns |-> "none"]
    /\ pend = [c \in Conns |-> "none"]
    /\ shutdown = "no"

-----------------------------------------------------------------------------
(* _accept_loop and _serve_connection. *)

LiveCount == Cardinality({c \in Conns : phase[c] \in Live})

AcceptConnection ==
    /\ acceptor /\ accepted # <<>>
    /\ accepted' = Tail(accepted)
    /\ IF Head(accepted) = None
       THEN acceptor' = FALSE /\ UNCHANGED phase
       ELSE phase' = [phase EXCEPT ![Head(accepted)] = "starting"] /\ UNCHANGED acceptor
    /\ UNCHANGED <<runner, closed, gen, socket, registry, conn, sending, lock, routerVars,
                   pend, shutdown>>

\* the task's finally: the pumps are cancelled and the connection is closed
Ends(c) ==
    /\ phase' = [phase EXCEPT ![c] = "closing"]
    /\ CloseDevice(c)
    /\ SendOver(c)
    /\ UNCHANGED <<runner, closed, gen, socket, accepted, link, wire, acceptor, shutdown>>

\* the first step of the task: the number of unfinished tasks, itself included
ServeConnection(c) ==
    /\ phase[c] = "starting"
    /\ IF LiveCount > MaxSessions
       THEN Ends(c) /\ UNCHANGED pend
       ELSE /\ phase' = [phase EXCEPT ![c] = "hs1"]
            /\ conn' = [conn EXCEPT ![c] = CallReceive(@)]
            /\ UNCHANGED <<runner, closed, gen, socket, registry, accepted, sending, lock,
                           routerVars, acceptor, pend, shutdown>>

\* the close frame is written and the task is done
TaskDone(c) ==
    /\ phase[c] = "closing"
    /\ phase' = [phase EXCEPT ![c] = "ended"]
    /\ UNCHANGED <<clientVars, routerVars, acceptor, pend, shutdown>>

-----------------------------------------------------------------------------
(* _session_loop *)

\* what a received record leads to: the first message wants an answer, the
\* second ends the handshake with a pairing payload or without one, the third
\* is the request envelope, later ones are fed to the attachment
AfterFrame(p) ==
    CASE p = "hs1" -> {"hs1send"}
      [] p = "hs2" -> {"ack", "env"}
      [] p = "env" -> {"admit"}
      [] p = "serving" -> {"serving"}

Receive(c) ==
    /\ phase[c] \in Receiving /\ ReceivesFrame(c)
    /\ \E p \in AfterFrame(phase[c]) :
        /\ conn' = [conn EXCEPT ![c] =
                       IF p \in Receiving THEN CallReceive(Received(@)) ELSE Received(@)]
        /\ phase' = [phase EXCEPT ![c] = p]
        /\ pend' = IF p = "ack" THEN [pend EXCEPT ![c] = "pending"] ELSE pend
    /\ UNCHANGED <<runner, closed, gen, socket, registry, accepted, sending, lock, routerVars,
                   acceptor, shutdown>>

\* receive returned None
StreamEnds(c) ==
    /\ phase[c] \in Receiving /\ ReceivesEnd(c)
    /\ Ends(c) /\ UNCHANGED pend

\* the handshake deadline passes
Timeout(c) ==
    /\ phase[c] \in Timed
    /\ Ends(c) /\ UNCHANGED pend

\* a record does not decrypt, the capability is refused, or a pump raises
\* because the attachment was detached or its lease released
SessionRaises(c) ==
    /\ \/ phase[c] \in {"hs1", "hs2"} /\ ReceivesFrame(c)
       \/ phase[c] = "serving"
    /\ Ends(c) /\ UNCHANGED pend

\* open_controller returns an attachment and the transport is bound, or rejects
AdmissionReturns(c) ==
    /\ phase[c] = "admit"
    /\ \/ /\ phase' = [phase EXCEPT ![c] = "serving"]
          /\ conn' = [conn EXCEPT ![c] = CallReceive(@)]
          /\ UNCHANGED <<runner, closed, gen, socket, registry, accepted, sending, lock,
                         routerVars, acceptor, shutdown>>
       \/ Ends(c)
    /\ UNCHANGED pend

SessionSends(c) ==
    /\ phase[c] \in Sending
    /\ SendStart(c)
    /\ UNCHANGED <<runner, closed, gen, socket, registry, accepted, conn, lock, routerVars,
                   serviceVars>>

\* a frame is written; the handshake answer and the acknowledgement move the
\* session on
Sent(c) ==
    /\ SendWrites(c, IF phase[c] = "hs1send" THEN CallReceive(conn[c]) ELSE conn[c])
    /\ SendOver(c)
    /\ phase' = [phase EXCEPT ![c] = IF @ = "hs1send" THEN "hs2"
                                     ELSE IF @ = "ack" THEN "acked" ELSE @]
    /\ pend' = IF phase[c] = "ack" THEN [pend EXCEPT ![c] = "acked"] ELSE pend
    /\ UNCHANGED <<runner, closed, gen, socket, registry, accepted, link, wire,
                   acceptor, shutdown>>

\* Faulty: the record stays pending
RolledBackNever(c) == {pend}

\* the pairing record after a failed acknowledgement: repository.deny, or, where
\* it raises (state busy or unwritable, clock set back), still pending
RolledBack(c) ==
    IF phase[c] = "ack" THEN {[pend EXCEPT ![c] = outcome] : outcome \in {"denied", "undenied"}}
    ELSE {pend}

\* send raises at once, or after its wait
SendFails(c) ==
    /\ \/ phase[c] \in {"hs1send", "ack"} /\ sending[c] = Idle /\ ~MaySend(c)
       \/ SendRaises(c)
    /\ Ends(c)
    /\ pend' \in RolledBack(c)

\* the acknowledgement is out: the pairing connection is over
PairingEnds(c) ==
    /\ phase[c] = "acked"
    /\ Ends(c) /\ UNCHANGED pend

-----------------------------------------------------------------------------
(* RelayConnectorService.close *)

ServiceCloses ==
    /\ shutdown = "no"
    /\ shutdown' = "connector"
    /\ CloseBegins
    /\ UNCHANGED <<acceptor, phase, pend>>

ConnectorCloses ==
    /\ shutdown = "connector"
    /\ CloseEnds
    /\ shutdown' = "acceptor"
    /\ UNCHANGED <<acceptor, phase, pend>>

AcceptorStops ==
    /\ shutdown = "acceptor"
    /\ shutdown' = "cancelling" /\ acceptor' = FALSE
    /\ UNCHANGED <<clientVars, routerVars, phase, pend>>

\* a cancelled task runs its finally blocks only: no rollback of the record
CancelTask(c) ==
    /\ shutdown = "cancelling" /\ phase[c] \in Working \cup {"starting"}
    /\ Ends(c) /\ UNCHANGED pend

\* every task that was alive is joined
ServiceClosed ==
    /\ shutdown = "cancelling" /\ LiveCount = 0
    /\ shutdown' = "done"
    /\ UNCHANGED <<clientVars, routerVars, acceptor, phase, pend>>

-----------------------------------------------------------------------------

SessionStep(c) ==
    \/ ServeConnection(c) \/ TaskDone(c)
    \/ Receive(c) \/ StreamEnds(c) \/ Timeout(c) \/ SessionRaises(c) \/ AdmissionReturns(c)
    \/ SessionSends(c) \/ Sent(c) \/ SendFails(c) \/ PairingEnds(c) \/ CancelTask(c)

Next ==
    \/ (ClientNext \/ RouterNext) /\ UNCHANGED serviceVars
    \/ AcceptConnection
    \/ \E c \in Conns : SessionStep(c)
    \/ ServiceCloses \/ ConnectorCloses \/ AcceptorStops \/ ServiceClosed

Spec == Init /\ [][Next]_vars

-----------------------------------------------------------------------------

Counting(n) == [i \in 1 .. n |-> i]

\* What a session has received and will receive is what its device sent, from
\* the first frame on and with no gap up to the sentinel: an overflowing queue
\* ends the connection instead of skipping a Noise record
\* (HostedDeviceConnection._feed, _read_loop).
InboundHasNoGap ==
    \A c \in Conns :
        LET queue == conn[c].inbound
            n == Len(conn[c].got)
        IN /\ conn[c].got = Counting(n) /\ n <= dev[c].sent
           /\ \A i \in 1 .. Len(queue) :
                 \/ queue[i] = n + i /\ n + i <= dev[c].sent
                 \/ queue[i] = None /\ i = Len(queue)

\* A device only gets the frames its own connection object sent, in order:
\* a sender that waited for the pacing lock never writes into a socket or an
\* id that has a new owner (_send_binary).
OnlyOwnFrames ==
    \A d \in Conns :
        dev[d].rcv = [i \in 1 .. Len(dev[d].rcv) |-> <<d, i>>]

Announced(c) == \A i \in 1 .. Len(wire) : ~(wire[i].t = "open" /\ wire[i].c = c)
HangingUp(c) == \E i \in 1 .. Len(wire) : wire[i].t = "close" /\ wire[i].c = c

\* A device the router holds open on the live socket is known to the client
\* and somebody serves it or will: no device is left connected to nobody
\* after a refused, failed or overflowing session (_handle_control,
\* _serve_connection, _close_device).
NobodyLeftHanging ==
    \A c \in Conns :
        dev[c].at = "open" /\ Announced(c) =>
            /\ Registered(c) /\ ~conn[c].closed
            /\ \/ phase[c] \in Live \ {"closing"}
               \/ \E i \in 1 .. Len(accepted) : accepted[i] = c

\* A pairing whose acknowledgement was not handed to the socket is rolled back,
\* however its send failed: its record stays pending only where the service was
\* shut down meanwhile, or where the repository refused the denial, whose error
\* is suppressed (_session_loop).  Such a record holds a slot until it is stale.
UnacknowledgedIsDenied ==
    \A c \in Conns :
        phase[c] \in {"closing", "ended"} /\ pend[c] = "pending" => shutdown # "no"

\* Nothing waits for what cannot come: a receiver suspended on a connection
\* that was closed under it finds the sentinel or a frame in its queue, and
\* the pacing lock is held by a call that is still running
\* (HostedDeviceConnection._mark_closed, receive; _send_binary).
WaitersAreWoken ==
    /\ \A c \in Conns :
        conn[c].closed /\ conn[c].waits /\ phase[c] \in Receiving => conn[c].inbound # <<>>
    /\ lock # None => sending[lock].at = "pacing" /\ phase[lock] \in Sending

\* Once the service is closed no session task is alive and none starts, also
\* when the accept queue was full and had no room for the sentinel
\* (RelayConnectorService.close, CloudflareRelayConnector.close).
ClosedIsQuiet ==
    shutdown = "done" => \A c \in Conns : phase[c] \in {"none", "ended"}

\* Ends are seen on every side: no device is left connected to nobody, no
\* receiver or sender waits for what cannot come, and a closed service runs no
\* session.
EndsAreSeen == ServiceTypeOK /\ NobodyLeftHanging /\ WaitersAreWoken /\ ClosedIsQuiet
=============================================================================
