------------------------------ MODULE Admission ------------------------------
(***************************************************************************)
(* Admission of phone connections to leases (admission.py), the registry   *)
(* of leases (SessionLeaseManager of session_lease.py) and the runtime     *)
(* that owns their Hermes controllers (runtime.py), against revocation and *)
(* plugin shutdown.                                                        *)
(*                                                                         *)
(* open_controller runs under one admission lock but awaits three times: a *)
(* superseded lease's cleanup, the runtime's lock, and the bridge's start. *)
(* Revocation and shutdown take no admission lock.  What happens between   *)
(* two awaits of one task is one step.                                     *)
(*                                                                         *)
(* A lease is seen through its life only (SessionLease has the rest).      *)
(* RelayRuntime.close_controller swallows every failure of a bridge, so a  *)
(* lease's cleanup succeeds here.  An authorized device keeps one epoch    *)
(* until it is revoked for good (EpochMeansRevoked of Authorization), so   *)
(* "authorized" stands for the comparison of epochs too.                   *)
(***************************************************************************)
EXTENDS Naturals, FiniteSets

CONSTANTS
    None,      \* no connection
    Conns,     \* phone connections, each opens at most one controller
    Devices,   \* paired devices
    Channels,  \* lease channels
    MaxLeases, \* RelayRuntime.max_controllers, also the manager's max_leases
    Faults     \* whether the state file may be unavailable to a later check

ASSUME AdmissionAssumption ==
    MaxLeases \in Nat \ {0} /\ Faults \in BOOLEAN /\ IsFiniteSet(Conns) /\ None \notin Conns

(***************************************************************************)
(* The four kinds of controller.open: with and without a resume cursor, as *)
(* a legacy or a recovery v1 client.                                       *)
(***************************************************************************)
Mode == {"open", "resume", "v1open", "v1resume"}

VARIABLES
    authorized,  \* devices the repository authorizes
    closed,      \* SessionLeaseManager.closed
    lock,        \* the connection that holds the admission lock, or None
    bridgeLock,  \* the connection whose bridge start holds the runtime's lock, or None
    conn,        \* the progress of every connection
    lease,       \* the lease each connection's open made, if any
    controllers, \* leases whose controller is in RelayRuntime._controllers
    scheduled    \* leases for which a gathered release task has not run yet

vars == <<authorized, closed, lock, bridgeLock, conn, lease, controllers, scheduled>>

ConnPhase == {"new", "waiting", "superseding", "opening", "starting", "cleaning", "admitted", "ended"}

(***************************************************************************)
(* released and _release_succeeded give a lease the phases live, fenced,   *)
(* closing (its controller has left the runtime) and done.                 *)
(***************************************************************************)
LeasePhase == {"none", "live", "fenced", "closing", "done"}

NoRequest == [phase |-> "new", dev |-> None, chan |-> None, mode |-> "open", waits |-> {}]
NoLease == [phase |-> "none", dev |-> None, chan |-> None, registered |-> FALSE, att |-> None]

Init ==
    /\ authorized = Devices /\ closed = FALSE
    /\ lock = None /\ bridgeLock = None
    /\ conn = [c \in Conns |-> NoRequest]
    /\ lease = [c \in Conns |-> NoLease]
    /\ controllers = {} /\ scheduled = {}

-----------------------------------------------------------------------------
(* The registry                                                            *)

Unsettled(l) == lease[l].phase \in {"live", "fenced", "closing"}

\* Faulty: a lease whose cleanup is under way is no longer the device's
OwnedLive(dev, chan) ==
    {l \in Conns : /\ lease[l].registered /\ lease[l].phase = "live"
                   /\ lease[l].dev = dev /\ lease[l].chan = chan}

\* get: the lease of a device's channel, also one still being cleaned up
Owned(dev, chan) ==
    {l \in Conns : /\ lease[l].registered /\ Unsettled(l)
                   /\ lease[l].dev = dev /\ lease[l].chan = chan}

\* leases_for
OwnedBy(dev) == {l \in Conns : lease[l].registered /\ Unsettled(l) /\ lease[l].dev = dev}

Registered == {l \in Conns : lease[l].registered /\ Unsettled(l)}

\* release, up to the fence: the lease takes no more phones
Fenced(r) == IF r.phase = "live" THEN [r EXCEPT !.phase = "fenced", !.att = None] ELSE r

-----------------------------------------------------------------------------
(* open_controller                                                         *)

Request(c, dev, chan, mode) ==
    /\ conn[c].phase = "new"
    /\ conn' = [conn EXCEPT ![c] = [@ EXCEPT !.phase = "waiting", !.dev = dev, !.chan = chan,
                                             !.mode = mode]]
    /\ UNCHANGED <<authorized, closed, lock, bridgeLock, lease, controllers, scheduled>>

\* an ended connection's request is forgotten
Goto(c, phase) ==
    conn' = [conn EXCEPT ![c] = IF phase = "ended" THEN [NoRequest EXCEPT !.phase = "ended"]
                                ELSE [@ EXCEPT !.phase = phase, !.waits = {}]]

Enter(c) == lock = None /\ conn[c].phase = "waiting"

Existing(c) == Owned(conn[c].dev, conn[c].chan)

Opens(c) ==
    \/ conn[c].mode = "open"
    \/ conn[c].mode \in {"v1open", "v1resume"} /\ Existing(c) = {}

\* not authorized, the profile is not available, or nothing to resume
Refused(c) ==
    /\ Enter(c)
    /\ Goto(c, "ended")
    /\ UNCHANGED <<authorized, closed, lock, bridgeLock, lease, controllers, scheduled>>

\* a connection is cancelled while it waits for the admission lock
GivesUp(c) ==
    /\ conn[c].phase = "waiting"
    /\ Goto(c, "ended")
    /\ UNCHANGED <<authorized, closed, lock, bridgeLock, lease, controllers, scheduled>>

\* a fresh open releases the channel's lease and waits for its cleanup
Supersede(c) ==
    /\ Enter(c) /\ conn[c].dev \in authorized /\ Opens(c)
    /\ \E l \in Existing(c) :
          /\ lease' = [lease EXCEPT ![l] = Fenced(@)]
          /\ conn' = [conn EXCEPT ![c].phase = "superseding", ![c].waits = {l}]
    /\ lock' = c
    /\ UNCHANGED <<authorized, closed, bridgeLock, controllers, scheduled>>

Superseded(c) ==
    /\ conn[c].phase = "superseding"
    /\ \A l \in conn[c].waits : ~Unsettled(l)
    /\ Goto(c, "opening")
    /\ UNCHANGED <<authorized, closed, lock, bridgeLock, lease, controllers, scheduled>>

OpenFresh(c) ==
    /\ Enter(c) /\ conn[c].dev \in authorized /\ Opens(c) /\ Existing(c) = {}
    /\ Goto(c, "opening")
    /\ lock' = c
    /\ UNCHANGED <<authorized, closed, bridgeLock, lease, controllers, scheduled>>

RoomForController == Cardinality(controllers) < MaxLeases

\* runtime.open_controller, from its lock to the bridge's start
StartBridge(c) ==
    /\ conn[c].phase = "opening" /\ bridgeLock = None
    /\ RoomForController
    /\ bridgeLock' = c
    /\ Goto(c, "starting")
    /\ UNCHANGED <<authorized, closed, lock, lease, controllers, scheduled>>

(***************************************************************************)
(* The open fails while it holds the admission lock: no controller is      *)
(* free, the bridge does not start (it is closed before the runtime's lock *)
(* goes), or the connection was cancelled in one of the awaits.            *)
(***************************************************************************)
OpenFails(c) ==
    /\ lock = c
    /\ \/ conn[c].phase = "opening" /\ UNCHANGED bridgeLock
       \/ conn[c].phase = "starting" /\ bridgeLock' = None
       \/ /\ conn[c].phase = "superseding" /\ UNCHANGED bridgeLock
          /\ \A l \in conn[c].waits : ~Unsettled(l)
    /\ lock' = None
    /\ Goto(c, "ended")
    /\ UNCHANGED <<authorized, closed, lease, controllers, scheduled>>

\* Faulty: the authorization found before the awaits is still trusted
PassesEarlier(c) == TRUE

\* the second is_authorized and _epoch of open_controller
Passes(c) == conn[c].dev \in authorized

\* register's conditions
Registrable(c) == ~closed /\ Existing(c) = {} /\ Cardinality(Registered) < MaxLeases

Bridged(c) ==
    /\ conn[c].phase = "starting"
    /\ bridgeLock' = None
    /\ controllers' = controllers \cup {c}

NewLease(c, phase, registered, att) ==
    [phase |-> phase, dev |-> conn[c].dev, chan |-> conn[c].chan,
     registered |-> registered, att |-> att]

\* the bridge runs: the lease is registered, attached and checked once more
OpenAdmitted(c) ==
    /\ Bridged(c) /\ Registrable(c) /\ Passes(c)
    /\ lease' = [lease EXCEPT ![c] = NewLease(c, "live", TRUE, c)]
    /\ lock' = None
    /\ Goto(c, "admitted")
    /\ UNCHANGED <<authorized, closed, scheduled>>

\* the check fails, of the device or of the profile: every lease of the device is released
OpenDisowned(c) ==
    /\ Bridged(c) /\ Registrable(c)
    /\ lease' = [lease EXCEPT ![c] = NewLease(c, "live", TRUE, c)]
    /\ scheduled' = scheduled \cup OwnedBy(conn[c].dev) \cup {c}
    /\ conn' = [conn EXCEPT ![c].phase = "cleaning", ![c].waits = OwnedBy(conn[c].dev) \cup {c}]
    /\ UNCHANGED <<authorized, closed, lock>>

\* register refuses: the lease is released before anyone saw it
OpenUnregistered(c) ==
    /\ Bridged(c) /\ ~Registrable(c)
    /\ lease' = [lease EXCEPT ![c] = NewLease(c, "fenced", FALSE, None)]
    /\ conn' = [conn EXCEPT ![c].phase = "cleaning", ![c].waits = {c}]
    /\ UNCHANGED <<authorized, closed, lock, scheduled>>

\* the check itself raises (the state file's lock is busy): the channel is closed, no more
OpenCheckRaises(c) ==
    /\ Faults
    /\ Bridged(c) /\ Registrable(c)
    /\ lease' = [lease EXCEPT ![c] = NewLease(c, "live", TRUE, c)]
    /\ lock' = None
    /\ Goto(c, "ended")
    /\ UNCHANGED <<authorized, closed, scheduled>>

Cleaned(c) ==
    /\ conn[c].phase = "cleaning"
    /\ \A l \in conn[c].waits : ~Unsettled(l)
    /\ lock' = None
    /\ Goto(c, "ended")
    /\ UNCHANGED <<authorized, closed, bridgeLock, lease, controllers, scheduled>>

\* attach refuses a released lease, and an attached one unless a v1 client resumes
Attachable(c, l) ==
    lease[l].phase = "live" /\ (lease[l].att = None \/ conn[c].mode = "v1resume")

\* reattach: from the lock to the second check without an await
Reattach(c) ==
    /\ Enter(c) /\ ~Opens(c) /\ Passes(c)
    /\ \E l \in Existing(c) :
          /\ Attachable(c, l)
          /\ lease' = [lease EXCEPT ![l].att = c]
    /\ Goto(c, "admitted") \/ (Faults /\ Goto(c, "ended"))
    /\ UNCHANGED <<authorized, closed, lock, bridgeLock, controllers, scheduled>>

\* reattached, but the check fails (of the profile): every lease of the device is released
ReattachDisowned(c) ==
    /\ Enter(c) /\ ~Opens(c) /\ conn[c].dev \in authorized
    /\ \E l \in Existing(c) :
          /\ Attachable(c, l)
          /\ lease' = [lease EXCEPT ![l].att = c]
    /\ scheduled' = scheduled \cup OwnedBy(conn[c].dev)
    /\ conn' = [conn EXCEPT ![c].phase = "cleaning", ![c].waits = OwnedBy(conn[c].dev)]
    /\ lock' = c
    /\ UNCHANGED <<authorized, closed, bridgeLock, controllers>>

\* transport.close: the attachment is detached if it still is the lease's own
ConnectionEnds(c) ==
    /\ conn[c].phase = "admitted"
    /\ Goto(c, "ended")
    /\ lease' = [l \in Conns |-> IF lease[l].att = c THEN [lease[l] EXCEPT !.att = None]
                                 ELSE lease[l]]
    /\ UNCHANGED <<authorized, closed, lock, bridgeLock, controllers, scheduled>>

-----------------------------------------------------------------------------
(* Releases                                                                *)

\* revoke_device, also of a device revoked before: the repository first, then one release
\* task for each of the device's leases
Revoke(dev) ==
    /\ authorized' = authorized \ {dev}
    /\ scheduled' = scheduled \cup OwnedBy(dev)
    /\ UNCHANGED <<closed, lock, bridgeLock, conn, lease, controllers>>

\* SessionLeaseManager.close
Shutdown ==
    /\ ~closed /\ closed' = TRUE
    /\ scheduled' = scheduled \cup Registered
    /\ UNCHANGED <<authorized, lock, bridgeLock, conn, lease, controllers>>

\* a gathered release task starts
RunRelease(l) ==
    /\ l \in scheduled /\ scheduled' = scheduled \ {l}
    /\ lease' = [lease EXCEPT ![l] = Fenced(@)]
    /\ UNCHANGED <<authorized, closed, lock, bridgeLock, conn, controllers>>

\* the lease ends by itself: TTL, retention cap, or its controller closed
SelfRelease(l) ==
    /\ lease[l].phase = "live"
    /\ lease' = [lease EXCEPT ![l] = Fenced(@)]
    /\ UNCHANGED <<authorized, closed, lock, bridgeLock, conn, controllers, scheduled>>

\* Faulty: cleanup also waits for the admission lock
CloseControllerLocked(l) ==
    /\ lease[l].phase = "fenced" /\ bridgeLock = None /\ lock = None
    /\ controllers' = controllers \ {l}
    /\ lease' = [lease EXCEPT ![l].phase = "closing"]
    /\ UNCHANGED <<authorized, closed, lock, bridgeLock, conn, scheduled>>

\* close_controller waits for the runtime's lock to take the controller out
CloseController(l) ==
    /\ lease[l].phase = "fenced" /\ bridgeLock = None
    /\ controllers' = controllers \ {l}
    /\ lease' = [lease EXCEPT ![l].phase = "closing"]
    /\ UNCHANGED <<authorized, closed, lock, bridgeLock, conn, scheduled>>

\* the bridge is closed: _release_succeeded
Settle(l) ==
    /\ lease[l].phase = "closing"
    /\ lease' = [lease EXCEPT ![l] = [NoLease EXCEPT !.phase = "done"]]
    /\ UNCHANGED <<authorized, closed, lock, bridgeLock, conn, controllers, scheduled>>

OpenStep(c) ==
    \/ Refused(c) \/ Supersede(c) \/ Superseded(c) \/ OpenFresh(c) \/ StartBridge(c) \/ OpenFails(c)
    \/ OpenAdmitted(c) \/ OpenDisowned(c) \/ OpenUnregistered(c) \/ OpenCheckRaises(c)
    \/ Cleaned(c) \/ Reattach(c) \/ ReattachDisowned(c)

Next ==
    \/ \E c \in Conns, dev \in Devices, chan \in Channels, mode \in Mode : Request(c, dev, chan, mode)
    \/ \E c \in Conns : OpenStep(c) \/ GivesUp(c) \/ ConnectionEnds(c) \/ SelfRelease(c)
                     \/ RunRelease(c) \/ CloseController(c) \/ Settle(c)
    \/ \E dev \in Devices : Revoke(dev)
    \/ Shutdown

Spec == Init /\ [][Next]_vars

(***************************************************************************)
(* The event loop runs every ready task (an open, a gathered release, the  *)
(* cleanup of a lease), asyncio locks wake their waiters in order, and a   *)
(* bridge's start and close are bounded by Hermes's own start and by       *)
(* close_timeout.  Nothing is assumed of phones, the owner or the end of a *)
(* connection.                                                             *)
(***************************************************************************)
Fairness == \A c \in Conns :
    /\ WF_vars(OpenStep(c))
    /\ WF_vars(RunRelease(c)) /\ WF_vars(CloseController(c)) /\ WF_vars(Settle(c))
FairSpec == Spec /\ Fairness

-----------------------------------------------------------------------------
(* Properties                                                              *)

ConnRecord == [phase : ConnPhase, dev : Devices \cup {None}, chan : Channels \cup {None},
               mode : Mode, waits : SUBSET Conns]
LeaseRecord == [phase : LeasePhase, dev : Devices \cup {None}, chan : Channels \cup {None},
                registered : BOOLEAN, att : Conns \cup {None}]

TypeOK ==
    /\ authorized \subseteq Devices /\ closed \in BOOLEAN
    /\ lock \in Conns \cup {None} /\ bridgeLock \in Conns \cup {None}
    /\ conn \in [Conns -> ConnRecord] /\ lease \in [Conns -> LeaseRecord]
    /\ controllers \subseteq Conns /\ scheduled \subseteq Conns
    /\ Cardinality(controllers) <= MaxLeases

\* what a check that raises leaves behind: a lease attached to a connection that has ended
Stranded(l) == lease[l].att # None /\ conn[lease[l].att].phase = "ended"

(***************************************************************************)
(* Revocation and shutdown cut: a lease that is live although its device   *)
(* is revoked or the manager closed has its release task under way, also   *)
(* when the open that made it was between two awaits (open_controller's    *)
(* second check, register's closed test, revoke_device).  Only a lease     *)
(* whose second check raised instead of answering may be missed.           *)
(***************************************************************************)
CutLeasesAreReleased ==
    \A l \in Conns :
        lease[l].phase = "live" /\ (closed \/ lease[l].dev \notin authorized)
            => l \in scheduled \/ Stranded(l)

\* each controller belongs to a lease that is not settled, and that lease is in
\* the registry or already being released (_open_lease's failure path, register)
NoOrphanController ==
    \A l \in controllers :
        \/ lease[l].phase = "live" /\ lease[l].registered
        \/ lease[l].phase = "fenced"

\* one lease for each device and channel, counting those whose controller is still
\* being closed (_open_lease waits for the cleanup of what it supersedes)
OneLeasePerChannel ==
    \A l, m \in Conns :
        /\ Unsettled(l) /\ Unsettled(m) /\ lease[l].dev = lease[m].dev
        /\ lease[l].chan = lease[m].chan
        => l = m

(***************************************************************************)
(* The runtime runs no controller that nobody will close, never two for    *)
(* one channel of a device, and never more than its limit, whatever        *)
(* happens while an open or a supersede is suspended (_open_lease,         *)
(* SessionLeaseManager.register, RelayRuntime.open_controller).            *)
(***************************************************************************)
ControllersAreOwned ==
    TypeOK /\ NoOrphanController /\ OneLeasePerChannel

\* an open that waits for the admission lock gets an answer: nobody keeps the lock,
\* although its holder waits for cleanups that need the runtime's lock
OpensAreAnswered ==
    \A c \in Conns : conn[c].phase = "waiting" ~> conn[c].phase \in {"admitted", "ended"}

\* a revoked device loses its controllers and keeps none, also those that were being
\* opened when it was revoked; again only a lease whose second check raised may stay
RevokedLosesControllers ==
    \A dev \in Devices :
        dev \notin authorized
            ~> [](\A l \in controllers : lease[l].dev = dev => Stranded(l))

(***************************************************************************)
(* Nobody waits for ever and nothing is kept for ever: every open that     *)
(* waits for the admission lock is answered, and a revoked device ends     *)
(* without controllers (_admission_lock, revoke_device, release).          *)
(***************************************************************************)
AdmissionSettles == OpensAreAnswered /\ RevokedLosesControllers

=============================================================================
