-------------------------- MODULE AdmissionProofs --------------------------
(***************************************************************************)
(* A phone's connection, for any number of them: its admission and its     *)
(* secure channel.                                                         *)
(*                                                                         *)
(* Every controller has an owner that will close it, one for each channel  *)
(* of a device and never more than the limit, and revocation and shutdown  *)
(* reach every live lease, whatever is suspended when they come.           *)
(*                                                                         *)
(* No key encrypts twice under one nonce, the ends of a handshake agree,   *)
(* and what one delivers is a prefix of what the other handed over,        *)
(* whatever the relay does with what they send.                            *)
(***************************************************************************)
EXTENDS Admission, SecureChannel, FiniteSetTheorems, WellFoundedInduction, NaturalsInduction, TLAPS

\* An open past the admission lock.
HoldsLock == {"superseding", "opening", "starting", "cleaning"}

\* The admission lock is held by the open that is past it, and the runtime's
\* lock by the one that starts its bridge; the limit then has room for it.
LocksInv ==
    /\ \A c \in Conns : conn[c].phase \in HoldsLock <=> lock = c
    /\ \A c \in Conns : conn[c].phase = "starting" <=> bridgeLock = c
    /\ bridgeLock # None => Cardinality(controllers) < MaxLeases

\* A connection has no lease before its bridge runs.
NoLeaseYet ==
    \A c \in Conns : conn[c].phase \in {"new", "waiting", "superseding", "opening", "starting"}
                        => lease[c].phase = "none"

\* Under the lock the channel is free, or what still holds it is awaited.
ChannelFree ==
    \A c \in Conns :
        /\ conn[c].phase \in {"opening", "starting"} => Existing(c) = {}
        /\ conn[c].phase = "superseding" => Existing(c) \subseteq conn[c].waits

\* A lease that the registry refused is awaited by the open that made it; a
\* live one is in the registry.
Registry ==
    \A l \in Conns :
        /\ Unsettled(l) /\ ~lease[l].registered => conn[l].phase = "cleaning" /\ l \in conn[l].waits
        /\ lease[l].phase = "live" => lease[l].registered

\* Revocation and shutdown have scheduled what they found; shutdown misses nothing.
CutInv ==
    \A l \in Conns : lease[l].phase = "live" =>
        /\ closed => l \in scheduled
        /\ lease[l].dev \notin authorized => l \in scheduled \/ Stranded(l)

AdmissionInv ==
    /\ TypeOK /\ LocksInv /\ NoLeaseYet /\ ChannelFree /\ Registry
    /\ NoOrphanController /\ OneLeasePerChannel /\ CutInv

-----------------------------------------------------------------------------
(* Lemmas                                                                  *)

\* No connection has asked for anything yet.
LEMMA RequestFacts ==
    /\ NoRequest \in ConnRecord /\ NoRequest.phase = "new"
    /\ [NoRequest EXCEPT !.phase = "ended"] \in ConnRecord
    /\ [NoRequest EXCEPT !.phase = "ended"].phase = "ended"
    /\ NoLease \in LeaseRecord /\ NoLease.phase = "none"
    /\ [NoLease EXCEPT !.phase = "done"] \in LeaseRecord
    /\ [NoLease EXCEPT !.phase = "done"].phase = "done"
<1>1. NoRequest \in ConnRecord /\ NoRequest.phase = "new"
  BY DEF NoRequest, ConnRecord, ConnPhase, Mode
<1>2. /\ [NoRequest EXCEPT !.phase = "ended"] \in ConnRecord
      /\ [NoRequest EXCEPT !.phase = "ended"].phase = "ended"
  BY DEF NoRequest, ConnRecord, ConnPhase, Mode
<1>3. NoLease \in LeaseRecord /\ NoLease.phase = "none"
  BY DEF NoLease, LeaseRecord, LeasePhase
<1>4. /\ [NoLease EXCEPT !.phase = "done"] \in LeaseRecord
      /\ [NoLease EXCEPT !.phase = "done"].phase = "done"
  BY DEF NoLease, LeaseRecord, LeasePhase
<1>5. QED
  BY <1>1, <1>2, <1>3, <1>4

LEMMA AdmissionInit == Init => AdmissionInv
<1> SUFFICES ASSUME Init PROVE AdmissionInv
  OBVIOUS
<1>1. /\ authorized = Devices /\ closed = FALSE /\ lock = None /\ bridgeLock = None
      /\ conn = [c \in Conns |-> NoRequest] /\ lease = [c \in Conns |-> NoLease]
      /\ controllers = {} /\ scheduled = {}
  BY DEF Init
<1>2. \A c \in Conns : conn[c].phase = "new" /\ lease[c].phase = "none"
  BY <1>1, RequestFacts
<1>3. TypeOK
  <2>1. Cardinality(controllers) <= MaxLeases
    BY <1>1, FS_EmptySet, AdmissionAssumption
  <2>2. conn \in [Conns -> ConnRecord] /\ lease \in [Conns -> LeaseRecord]
    BY <1>1, RequestFacts
  <2>3. QED
    BY <1>1, <2>1, <2>2 DEF TypeOK
<1>4. LocksInv
  BY <1>1, <1>2, AdmissionAssumption DEF LocksInv, HoldsLock
<1>5. NoLeaseYet /\ ChannelFree /\ Registry /\ NoOrphanController /\ OneLeasePerChannel /\ CutInv
  BY <1>1, <1>2 DEF NoLeaseYet, ChannelFree, Registry, NoOrphanController, OneLeasePerChannel, CutInv, Unsettled
<1>6. QED
  BY <1>3, <1>4, <1>5 DEF AdmissionInv

(***************************************************************************)
(* A connection moves to r: it takes the admission lock only when that is  *)
(* free, and keeps it exactly while it is past it; the same for the        *)
(* runtime's lock.                                                         *)
(***************************************************************************)
Moves(c, r) ==
    /\ conn' = [conn EXCEPT ![c] = r]
    /\ lock' = IF r.phase \in HoldsLock THEN c ELSE IF lock = c THEN None ELSE lock
    /\ r.phase \in HoldsLock => lock \in {None, c}
    /\ bridgeLock' = IF r.phase = "starting" THEN c ELSE IF bridgeLock = c THEN None ELSE bridgeLock
    /\ r.phase = "starting" => bridgeLock \in {None, c}

LEMMA MovesFacts ==
    ASSUME AdmissionInv, NEW c \in Conns, NEW r \in ConnRecord, Moves(c, r)
    PROVE  /\ conn' \in [Conns -> ConnRecord] /\ conn'[c] = r
           /\ \A b \in Conns \ {c} : conn'[b] = conn[b]
           /\ lock' \in Conns \cup {None} /\ bridgeLock' \in Conns \cup {None}
           /\ \A b \in Conns : conn'[b].phase \in HoldsLock <=> lock' = b
           /\ \A b \in Conns : conn'[b].phase = "starting" <=> bridgeLock' = b
<1>1. conn \in [Conns -> ConnRecord]
  BY DEF AdmissionInv, TypeOK
<1>2. conn' \in [Conns -> ConnRecord] /\ conn'[c] = r /\ \A b \in Conns \ {c} : conn'[b] = conn[b]
  BY <1>1 DEF Moves
<1>3. lock' \in Conns \cup {None} /\ bridgeLock' \in Conns \cup {None}
  BY DEF Moves, AdmissionInv, TypeOK
<1>4. \A b \in Conns : conn'[b].phase \in HoldsLock <=> lock' = b
  <2>1. conn'[c].phase \in HoldsLock <=> lock' = c
    BY <1>2, AdmissionAssumption DEF Moves
  <2>2. ASSUME NEW b \in Conns \ {c} PROVE conn'[b].phase \in HoldsLock <=> lock' = b
    <3>1. conn[b].phase \in HoldsLock <=> lock = b
      BY DEF AdmissionInv, LocksInv
    <3>2. QED
      BY <1>2, <3>1, AdmissionAssumption DEF Moves
  <2>3. QED
    BY <2>1, <2>2
<1>5. \A b \in Conns : conn'[b].phase = "starting" <=> bridgeLock' = b
  <2>1. conn'[c].phase = "starting" <=> bridgeLock' = c
    BY <1>2, AdmissionAssumption DEF Moves
  <2>2. ASSUME NEW b \in Conns \ {c} PROVE conn'[b].phase = "starting" <=> bridgeLock' = b
    <3>1. conn[b].phase = "starting" <=> bridgeLock = b
      BY DEF AdmissionInv, LocksInv
    <3>2. QED
      BY <1>2, <3>1, AdmissionAssumption DEF Moves
  <2>3. QED
    BY <2>1, <2>2
<1>6. QED
  BY <1>2, <1>3, <1>4, <1>5

Early == {"new", "waiting", "superseding", "opening", "starting"}

\* A connection moves and nothing else changes.
LEMMA MoveStep ==
    ASSUME AdmissionInv, NEW c \in Conns, NEW r \in ConnRecord, Moves(c, r),
           conn[c].phase # "ended",
           r.phase \in Early => conn[c].phase \in Early,
           r.phase \in {"opening", "starting"} => Owned(r.dev, r.chan) = {},
           r.phase \notin {"superseding", "cleaning"},
           r.phase = "starting" => RoomForController,
           conn[c].phase = "cleaning" /\ Unsettled(c) => lease[c].registered,
           UNCHANGED <<authorized, closed, lease, controllers, scheduled>>
    PROVE  AdmissionInv'
<1>1. /\ conn' \in [Conns -> ConnRecord] /\ conn'[c] = r
      /\ \A b \in Conns \ {c} : conn'[b] = conn[b]
      /\ lock' \in Conns \cup {None} /\ bridgeLock' \in Conns \cup {None}
      /\ \A b \in Conns : conn'[b].phase \in HoldsLock <=> lock' = b
      /\ \A b \in Conns : conn'[b].phase = "starting" <=> bridgeLock' = b
  BY MovesFacts
<1>2. TypeOK'
  BY <1>1 DEF AdmissionInv, TypeOK
<1>3. LocksInv'
  <2>1. bridgeLock' # None => Cardinality(controllers') < MaxLeases
    BY DEF Moves, AdmissionInv, LocksInv, RoomForController
  <2>2. QED
    BY <1>1, <2>1 DEF LocksInv
<1>4. NoLeaseYet'
  BY <1>1 DEF AdmissionInv, NoLeaseYet, Early
<1>5. \A d, k : Owned(d, k)' = Owned(d, k)
  BY DEF Owned, Unsettled
<1>6. ChannelFree'
  BY <1>1, <1>5 DEF AdmissionInv, ChannelFree, Existing
<1>7. Registry'
  BY <1>1 DEF AdmissionInv, Registry, Unsettled
<1>8. NoOrphanController' /\ OneLeasePerChannel'
  BY DEF AdmissionInv, NoOrphanController, OneLeasePerChannel, Unsettled
<1>9. CutInv'
  <2>1. \A l \in Conns : lease[l].att \in Conns \cup {None}
    BY DEF AdmissionInv, TypeOK, LeaseRecord
  <2>2. \A l \in Conns : Stranded(l) => Stranded(l)'
    BY <1>1, <2>1 DEF Stranded
  <2>3. QED
    BY <2>2 DEF AdmissionInv, CutInv
<1>10. QED
  BY <1>2, <1>3, <1>4, <1>6, <1>7, <1>8, <1>9 DEF AdmissionInv

\* The record of a connection that went to a phase.
LEMMA GotoMoves ==
    ASSUME AdmissionInv, NEW c \in Conns, NEW ph \in ConnPhase, Goto(c, ph)
    PROVE  \E r \in ConnRecord :
              /\ conn' = [conn EXCEPT ![c] = r] /\ r.phase = ph
              /\ ph # "ended" => r.dev = conn[c].dev /\ r.chan = conn[c].chan /\ r.mode = conn[c].mode
<1> DEFINE r == IF ph = "ended" THEN [NoRequest EXCEPT !.phase = "ended"]
                ELSE [conn[c] EXCEPT !.phase = ph, !.waits = {}]
<1>1. conn[c] \in ConnRecord
  BY DEF AdmissionInv, TypeOK
<1>2. conn' = [conn EXCEPT ![c] = r]
  BY DEF Goto
<1>3. r \in ConnRecord /\ r.phase = ph
  BY <1>1, RequestFacts DEF ConnRecord
<1>4. ph # "ended" => r.dev = conn[c].dev /\ r.chan = conn[c].chan /\ r.mode = conn[c].mode
  BY <1>1 DEF ConnRecord
<1>5. QED
  BY <1>2, <1>3, <1>4

\* The steps of an open that only move it.
LEMMA OpenMoves ==
    ASSUME AdmissionInv, NEW c \in Conns,
           \/ Refused(c) \/ GivesUp(c) \/ Superseded(c) \/ OpenFresh(c) \/ StartBridge(c)
           \/ OpenFails(c) \/ Cleaned(c)
    PROVE  AdmissionInv'
<1>0. /\ \A ph \in HoldsLock : conn[c].phase = ph => lock = c
      /\ conn[c].phase \notin HoldsLock => lock # c
      /\ conn[c].phase = "starting" <=> bridgeLock = c
      /\ conn[c] \in ConnRecord
  BY DEF AdmissionInv, LocksInv, TypeOK
<1>1. CASE Refused(c) \/ GivesUp(c)
  <2>1. conn[c].phase = "waiting" /\ Goto(c, "ended")
        /\ UNCHANGED <<authorized, closed, lock, bridgeLock, lease, controllers, scheduled>>
    BY <1>1 DEF Refused, GivesUp, Enter
  <2>2. PICK r \in ConnRecord : conn' = [conn EXCEPT ![c] = r] /\ r.phase = "ended"
    BY <2>1, GotoMoves DEF ConnPhase
  <2>3. Moves(c, r)
    BY <1>0, <2>1, <2>2 DEF Moves, HoldsLock
  <2>4. QED
    BY <2>1, <2>2, <2>3, MoveStep DEF Early
<1>2. CASE Superseded(c)
  <2>1. conn[c].phase = "superseding" /\ Goto(c, "opening") /\ (\A l \in conn[c].waits : ~Unsettled(l))
        /\ UNCHANGED <<authorized, closed, lock, bridgeLock, lease, controllers, scheduled>>
    BY <1>2 DEF Superseded
  <2>2. PICK r \in ConnRecord : conn' = [conn EXCEPT ![c] = r] /\ r.phase = "opening"
                                /\ r.dev = conn[c].dev /\ r.chan = conn[c].chan
    BY <2>1, GotoMoves DEF ConnPhase
  <2>3. Moves(c, r)
    BY <1>0, <2>1, <2>2 DEF Moves, HoldsLock
  <2>4. Owned(r.dev, r.chan) = {}
    <3>1. Owned(r.dev, r.chan) \subseteq conn[c].waits
      BY <2>1, <2>2 DEF AdmissionInv, ChannelFree, Existing
    <3>2. \A l \in Owned(r.dev, r.chan) : Unsettled(l)
      BY DEF Owned
    <3>3. QED
      BY <2>1, <3>1, <3>2
  <2>5. QED
    BY <2>1, <2>2, <2>3, <2>4, MoveStep DEF Early
<1>3. CASE OpenFresh(c)
  <2>1. /\ conn[c].phase = "waiting" /\ Goto(c, "opening") /\ Existing(c) = {} /\ lock = None /\ lock' = c
        /\ UNCHANGED <<authorized, closed, bridgeLock, lease, controllers, scheduled>>
    BY <1>3 DEF OpenFresh, Enter
  <2>2. PICK r \in ConnRecord : conn' = [conn EXCEPT ![c] = r] /\ r.phase = "opening"
                                /\ r.dev = conn[c].dev /\ r.chan = conn[c].chan
    BY <2>1, GotoMoves DEF ConnPhase
  <2>3. Moves(c, r)
    BY <1>0, <2>1, <2>2 DEF Moves, HoldsLock
  <2>4. Owned(r.dev, r.chan) = {}
    BY <2>1, <2>2 DEF Existing
  <2>5. QED
    BY <2>1, <2>2, <2>3, <2>4, MoveStep DEF Early
<1>4. CASE StartBridge(c)
  <2>1. /\ conn[c].phase = "opening" /\ Goto(c, "starting") /\ RoomForController
        /\ bridgeLock = None /\ bridgeLock' = c
        /\ UNCHANGED <<authorized, closed, lock, lease, controllers, scheduled>>
    BY <1>4 DEF StartBridge
  <2>2. PICK r \in ConnRecord : conn' = [conn EXCEPT ![c] = r] /\ r.phase = "starting"
                                /\ r.dev = conn[c].dev /\ r.chan = conn[c].chan
    BY <2>1, GotoMoves DEF ConnPhase
  <2>3. Moves(c, r)
    BY <1>0, <2>1, <2>2 DEF Moves, HoldsLock
  <2>4. Owned(r.dev, r.chan) = {}
    BY <2>1, <2>2 DEF AdmissionInv, ChannelFree, Existing
  <2>5. QED
    BY <2>1, <2>2, <2>3, <2>4, MoveStep DEF Early
<1>5. CASE OpenFails(c)
  <2>1. /\ conn[c].phase \in {"opening", "starting", "superseding"} /\ Goto(c, "ended")
        /\ lock = c /\ lock' = None
        /\ bridgeLock' = IF conn[c].phase = "starting" THEN None ELSE bridgeLock
        /\ UNCHANGED <<authorized, closed, lease, controllers, scheduled>>
    BY <1>5 DEF OpenFails
  <2>2. PICK r \in ConnRecord : conn' = [conn EXCEPT ![c] = r] /\ r.phase = "ended"
    BY <2>1, GotoMoves DEF ConnPhase
  <2>3. Moves(c, r)
    BY <1>0, <2>1, <2>2 DEF Moves, HoldsLock
  <2>4. QED
    BY <2>1, <2>2, <2>3, MoveStep DEF Early
<1>6. CASE Cleaned(c)
  <2>1. /\ conn[c].phase = "cleaning" /\ Goto(c, "ended") /\ lock' = None
        /\ \A l \in conn[c].waits : ~Unsettled(l)
        /\ UNCHANGED <<authorized, closed, bridgeLock, lease, controllers, scheduled>>
    BY <1>6 DEF Cleaned
  <2>2. PICK r \in ConnRecord : conn' = [conn EXCEPT ![c] = r] /\ r.phase = "ended"
    BY <2>1, GotoMoves DEF ConnPhase
  <2>3. Moves(c, r)
    BY <1>0, <2>1, <2>2 DEF Moves, HoldsLock
  <2>4. Unsettled(c) => lease[c].registered
    BY <2>1 DEF AdmissionInv, Registry
  <2>5. QED
    BY <2>1, <2>2, <2>3, <2>4, MoveStep DEF Early
<1>7. QED
  BY <1>1, <1>2, <1>3, <1>4, <1>5, <1>6

LEMMA RequestStep ==
    ASSUME AdmissionInv, NEW c \in Conns, NEW dev \in Devices, NEW chan \in Channels, NEW mode \in Mode,
           Request(c, dev, chan, mode)
    PROVE  AdmissionInv'
<1> DEFINE r == [conn[c] EXCEPT !.phase = "waiting", !.dev = dev, !.chan = chan, !.mode = mode]
<1>1. conn \in [Conns -> ConnRecord] /\ conn[c].phase = "new"
  BY DEF AdmissionInv, TypeOK, Request
<1>2. r \in ConnRecord /\ r.phase = "waiting"
  <2>1. conn[c] \in ConnRecord /\ "waiting" \in ConnPhase
    BY <1>1 DEF ConnPhase
  <2>2. QED
    BY <2>1 DEF ConnRecord
<1>3. conn' = [conn EXCEPT ![c] = r]
        /\ UNCHANGED <<authorized, closed, lock, bridgeLock, lease, controllers, scheduled>>
  BY DEF Request
<1> HIDE DEF r
<1>4. lock # c /\ bridgeLock # c
  BY <1>1 DEF AdmissionInv, LocksInv, HoldsLock
<1>5. Moves(c, r)
  BY <1>2, <1>3, <1>4 DEF Moves, HoldsLock
<1>6. QED
  BY <1>1, <1>2, <1>3, <1>5, MoveStep DEF Early

(***************************************************************************)
(* The leases lose phases and phones, and gain nothing.                    *)
(***************************************************************************)
Shrinks ==
    \A m \in Conns :
        /\ Unsettled(m)' => /\ Unsettled(m) /\ lease'[m].dev = lease[m].dev
                            /\ lease'[m].chan = lease[m].chan
                            /\ lease'[m].registered = lease[m].registered
        /\ lease'[m].phase = "live" => lease[m].phase = "live"
        /\ lease[m].phase = "none" => lease'[m].phase = "none"

LEMMA ShrinkStep ==
    ASSUME AdmissionInv, NEW c \in Conns, NEW r \in ConnRecord, Moves(c, r),
           lease' \in [Conns -> LeaseRecord], Shrinks,
           r.phase \in Early => conn[c].phase \in Early,
           r.phase \in {"opening", "starting"} => Owned(r.dev, r.chan) = {},
           r.phase = "superseding" => Owned(r.dev, r.chan) \subseteq r.waits,
           r.phase = "starting" => RoomForController,
           Unsettled(c)' /\ ~lease[c].registered => r.phase = "cleaning" /\ c \in r.waits,
           controllers' \subseteq controllers, NoOrphanController', CutInv',
           UNCHANGED <<authorized, closed>>, scheduled' \subseteq Conns
    PROVE  AdmissionInv'
<1>1. /\ conn' \in [Conns -> ConnRecord] /\ conn'[c] = r
      /\ \A b \in Conns \ {c} : conn'[b] = conn[b]
      /\ lock' \in Conns \cup {None} /\ bridgeLock' \in Conns \cup {None}
      /\ \A b \in Conns : conn'[b].phase \in HoldsLock <=> lock' = b
      /\ \A b \in Conns : conn'[b].phase = "starting" <=> bridgeLock' = b
  BY MovesFacts
<1>2. /\ Cardinality(controllers') <= Cardinality(controllers)
      /\ Cardinality(controllers') \in Nat /\ Cardinality(controllers) \in Nat
  <2>1. IsFiniteSet(controllers)
    BY AdmissionAssumption, FS_Subset DEF AdmissionInv, TypeOK
  <2>2. IsFiniteSet(controllers') /\ Cardinality(controllers') <= Cardinality(controllers)
    BY <2>1, FS_Subset
  <2>3. QED
    BY <2>1, <2>2, FS_CardinalityType
<1>3. TypeOK'
  <2>1. Cardinality(controllers') <= MaxLeases
    BY <1>2, AdmissionAssumption DEF AdmissionInv, TypeOK
  <2>2. controllers' \subseteq Conns
    BY DEF AdmissionInv, TypeOK
  <2>3. QED
    BY <1>1, <2>1, <2>2 DEF AdmissionInv, TypeOK
<1>4. LocksInv'
  <2>1. bridgeLock' # None => Cardinality(controllers) < MaxLeases
    BY DEF Moves, AdmissionInv, LocksInv, RoomForController
  <2>2. bridgeLock' # None => Cardinality(controllers') < MaxLeases
    BY <1>2, <2>1, AdmissionAssumption
  <2>3. QED
    BY <1>1, <2>2 DEF LocksInv
<1>5. NoLeaseYet'
  BY <1>1 DEF AdmissionInv, NoLeaseYet, Early, Shrinks
<1>6. \A d, k : Owned(d, k)' \subseteq Owned(d, k)
  BY DEF Owned, Shrinks
<1>7. ChannelFree'
  <2>1. ASSUME NEW b \in Conns \ {c}
        PROVE  /\ conn'[b].phase \in {"opening", "starting"} => Existing(b)' = {}
               /\ conn'[b].phase = "superseding" => Existing(b)' \subseteq conn'[b].waits
    <3>1. Existing(b)' \subseteq Existing(b)
      BY <1>1, <1>6 DEF Existing
    <3>2. QED
      BY <1>1, <3>1 DEF AdmissionInv, ChannelFree
  <2>2. /\ conn'[c].phase \in {"opening", "starting"} => Existing(c)' = {}
        /\ conn'[c].phase = "superseding" => Existing(c)' \subseteq conn'[c].waits
    <3>1. Existing(c)' \subseteq Owned(r.dev, r.chan)
      BY <1>1, <1>6 DEF Existing
    <3>2. QED
      BY <1>1, <3>1
  <2>3. QED
    BY <2>1, <2>2 DEF ChannelFree
<1>8. Registry'
  BY <1>1 DEF AdmissionInv, Registry, Shrinks, Unsettled
<1>9. OneLeasePerChannel'
  BY DEF AdmissionInv, OneLeasePerChannel, Shrinks
<1>10. QED
  BY <1>3, <1>4, <1>5, <1>7, <1>8, <1>9 DEF AdmissionInv

\* release's fence.
LEMMA FencedFacts ==
    ASSUME NEW x \in LeaseRecord
    PROVE  /\ Fenced(x) \in LeaseRecord
           /\ Fenced(x).phase = IF x.phase = "live" THEN "fenced" ELSE x.phase
           /\ Fenced(x).dev = x.dev /\ Fenced(x).chan = x.chan /\ Fenced(x).registered = x.registered
<1>1. CASE x.phase = "live"
  <2>1. Fenced(x) = [x EXCEPT !.phase = "fenced", !.att = None]
    BY <1>1 DEF Fenced
  <2>2. "fenced" \in LeasePhase
    BY DEF LeasePhase
  <2>3. QED
    BY <1>1, <2>1, <2>2 DEF LeaseRecord
<1>2. CASE x.phase # "live"
  BY <1>2 DEF Fenced
<1>3. QED
  BY <1>1, <1>2

(***************************************************************************)
(* One lease goes towards its end while no connection moves: it is fenced, *)
(* its controller leaves the runtime, or it settles.                       *)
(***************************************************************************)
LEMMA LeaseEnds ==
    ASSUME AdmissionInv, NEW l \in Conns, NEW x \in LeaseRecord, lease' = [lease EXCEPT ![l] = x],
           \/ x.phase = lease[l].phase /\ x.phase # "live"
           \/ lease[l].phase = "live" /\ x.phase = "fenced"
           \/ lease[l].phase = "fenced" /\ x.phase = "closing"
           \/ lease[l].phase = "closing" /\ x.phase = "done",
           x.phase # "done" => /\ x.dev = lease[l].dev /\ x.chan = lease[l].chan
                               /\ x.registered = lease[l].registered,
           controllers' = IF x.phase = "closing" THEN controllers \ {l} ELSE controllers,
           scheduled' \in {scheduled, scheduled \ {l}},
           UNCHANGED <<authorized, closed, lock, bridgeLock, conn>>
    PROVE  AdmissionInv'
<1>1. /\ lease \in [Conns -> LeaseRecord] /\ conn \in [Conns -> ConnRecord]
      /\ controllers \subseteq Conns /\ scheduled \subseteq Conns
  BY DEF AdmissionInv, TypeOK
<1>2. /\ lease' \in [Conns -> LeaseRecord] /\ lease'[l] = x
      /\ \A m \in Conns \ {l} : lease'[m] = lease[m]
  BY <1>1
<1>3. Moves(l, conn[l])
  BY <1>1, AdmissionAssumption DEF Moves, AdmissionInv, LocksInv
<1>4. Shrinks
  <2>1. ASSUME NEW m \in Conns \ {l}
        PROVE  /\ Unsettled(m)' => /\ Unsettled(m) /\ lease'[m].dev = lease[m].dev
                                   /\ lease'[m].chan = lease[m].chan
                                   /\ lease'[m].registered = lease[m].registered
               /\ lease'[m].phase = "live" => lease[m].phase = "live"
               /\ lease[m].phase = "none" => lease'[m].phase = "none"
    BY <1>2 DEF Unsettled
  <2>2. /\ Unsettled(l)' => /\ Unsettled(l) /\ lease'[l].dev = lease[l].dev
                            /\ lease'[l].chan = lease[l].chan
                            /\ lease'[l].registered = lease[l].registered
        /\ lease'[l].phase = "live" => lease[l].phase = "live"
        /\ lease[l].phase = "none" => lease'[l].phase = "none"
    BY <1>2 DEF Unsettled
  <2>3. QED
    BY <2>1, <2>2 DEF Shrinks
<1>5. NoOrphanController'
  <2>1. ASSUME NEW m \in controllers', m # l
        PROVE  (lease'[m].phase = "live" /\ lease'[m].registered) \/ lease'[m].phase = "fenced"
    BY <1>1, <1>2, <2>1 DEF AdmissionInv, NoOrphanController
  <2>2. l \in controllers' => lease'[l].phase = "fenced"
    BY <1>2 DEF AdmissionInv, NoOrphanController
  <2>3. QED
    BY <2>1, <2>2 DEF NoOrphanController
<1>6. CutInv'
  <2>1. ASSUME NEW m \in Conns, lease'[m].phase = "live"
        PROVE  /\ closed' => m \in scheduled'
               /\ lease'[m].dev \notin authorized' => m \in scheduled' \/ Stranded(m)'
    <3>1. m # l /\ lease'[m] = lease[m]
      BY <1>2, <2>1
    <3>2. Stranded(m)' <=> Stranded(m)
      BY <3>1 DEF Stranded
    <3>3. QED
      BY <2>1, <3>1, <3>2 DEF AdmissionInv, CutInv
  <2>2. QED
    BY <2>1 DEF CutInv
<1>7. /\ conn[l].phase \in {"opening", "starting"} => Owned(conn[l].dev, conn[l].chan) = {}
      /\ conn[l].phase = "superseding" => Owned(conn[l].dev, conn[l].chan) \subseteq conn[l].waits
      /\ Unsettled(l)' /\ ~lease[l].registered => conn[l].phase = "cleaning" /\ l \in conn[l].waits
      /\ conn[l].phase = "starting" => RoomForController
  <2>1. Unsettled(l)' => Unsettled(l)
    BY <1>4 DEF Shrinks
  <2>2. conn[l].phase = "starting" => RoomForController
    BY AdmissionAssumption DEF AdmissionInv, LocksInv, RoomForController
  <2>3. QED
    BY <2>1, <2>2 DEF AdmissionInv, ChannelFree, Existing, Registry
<1>8. controllers' \subseteq controllers /\ scheduled' \subseteq Conns /\ conn[l] \in ConnRecord
  BY <1>1
<1>9. QED
  BY <1>2, <1>3, <1>4, <1>5, <1>6, <1>7, <1>8, ShrinkStep

LEMMA ReleaseSteps ==
    ASSUME AdmissionInv, NEW l \in Conns,
           RunRelease(l) \/ SelfRelease(l) \/ CloseController(l) \/ Settle(l)
    PROVE  AdmissionInv'
<1>1. lease \in [Conns -> LeaseRecord] /\ lease[l] \in LeaseRecord
  BY DEF AdmissionInv, TypeOK
<1>2. CASE RunRelease(l) \/ SelfRelease(l)
  <2>1. /\ lease' = [lease EXCEPT ![l] = Fenced(lease[l])]
        /\ controllers' = controllers /\ scheduled' \in {scheduled, scheduled \ {l}}
        /\ UNCHANGED <<authorized, closed, lock, bridgeLock, conn>>
    BY <1>2 DEF RunRelease, SelfRelease
  <2>2. /\ Fenced(lease[l]) \in LeaseRecord
        /\ Fenced(lease[l]).phase = (IF lease[l].phase = "live" THEN "fenced" ELSE lease[l].phase)
        /\ Fenced(lease[l]).dev = lease[l].dev /\ Fenced(lease[l]).chan = lease[l].chan
        /\ Fenced(lease[l]).registered = lease[l].registered
    BY <1>1, FencedFacts
  <2>3. lease[l].phase = "closing" => l \notin controllers
    BY DEF AdmissionInv, NoOrphanController
  <2>4. controllers' = IF Fenced(lease[l]).phase = "closing" THEN controllers \ {l} ELSE controllers
    BY <2>1, <2>2, <2>3
  <2>5. QED
    BY <2>1, <2>2, <2>4, LeaseEnds
<1>3. CASE CloseController(l)
  <2> DEFINE x == [lease[l] EXCEPT !.phase = "closing"]
  <2>1. /\ lease' = [lease EXCEPT ![l] = x] /\ lease[l].phase = "fenced"
        /\ controllers' = controllers \ {l} /\ scheduled' = scheduled
        /\ UNCHANGED <<authorized, closed, lock, bridgeLock, conn>>
    BY <1>1, <1>3 DEF CloseController
  <2>2. "closing" \in LeasePhase
    BY DEF LeasePhase
  <2>3. /\ x \in LeaseRecord /\ x.phase = "closing" /\ x.dev = lease[l].dev /\ x.chan = lease[l].chan
        /\ x.registered = lease[l].registered
    BY <1>1, <2>2 DEF LeaseRecord
  <2> HIDE DEF x
  <2>4. QED
    BY <2>1, <2>3, LeaseEnds
<1>4. CASE Settle(l)
  <2> DEFINE x == [NoLease EXCEPT !.phase = "done"]
  <2>1. /\ lease' = [lease EXCEPT ![l] = x] /\ lease[l].phase = "closing"
        /\ controllers' = controllers /\ scheduled' = scheduled
        /\ UNCHANGED <<authorized, closed, lock, bridgeLock, conn>>
    BY <1>4 DEF Settle
  <2>2. x \in LeaseRecord /\ x.phase = "done"
    BY RequestFacts
  <2> HIDE DEF x
  <2>3. QED
    BY <2>1, <2>2, LeaseEnds
<1>5. QED
  BY <1>2, <1>3, <1>4

\* A connection that waits, or is served, holds nothing that is awaited.
LEMMA OutsideFacts ==
    ASSUME AdmissionInv, NEW c \in Conns, conn[c].phase \in {"waiting", "admitted"}
    PROVE  /\ conn \in [Conns -> ConnRecord] /\ lease \in [Conns -> LeaseRecord]
           /\ conn[c] \in ConnRecord /\ lock # c /\ bridgeLock # c
           /\ ~(Unsettled(c) /\ ~lease[c].registered)
           /\ controllers \subseteq Conns /\ scheduled \subseteq Conns
<1>1. /\ conn \in [Conns -> ConnRecord] /\ lease \in [Conns -> LeaseRecord]
      /\ controllers \subseteq Conns /\ scheduled \subseteq Conns
  BY DEF AdmissionInv, TypeOK
<1>2. lock # c /\ bridgeLock # c
  BY DEF AdmissionInv, LocksInv, HoldsLock
<1>3. ~(Unsettled(c) /\ ~lease[c].registered)
  BY DEF AdmissionInv, Registry
<1>4. QED
  BY <1>1, <1>2, <1>3

\* The channel's lease is fenced and awaited; it is the only one.
LEMMA SupersedeStep ==
    ASSUME AdmissionInv, NEW c \in Conns, Supersede(c)
    PROVE  AdmissionInv'
<1>1. /\ conn[c].phase = "waiting" /\ lock = None /\ lock' = c
      /\ UNCHANGED <<authorized, closed, bridgeLock, controllers, scheduled>>
  BY DEF Supersede, Enter
<1>2. PICK l \in Existing(c) :
          /\ lease' = [lease EXCEPT ![l] = Fenced(@)]
          /\ conn' = [conn EXCEPT ![c].phase = "superseding", ![c].waits = {l}]
  BY DEF Supersede
<1>3. /\ conn \in [Conns -> ConnRecord] /\ lease \in [Conns -> LeaseRecord]
      /\ conn[c] \in ConnRecord /\ lock # c /\ bridgeLock # c
      /\ ~(Unsettled(c) /\ ~lease[c].registered)
      /\ controllers \subseteq Conns /\ scheduled \subseteq Conns
  BY <1>1, OutsideFacts
<1>4. l \in Conns /\ Unsettled(l) /\ Existing(c) \subseteq {l}
  BY DEF AdmissionInv, OneLeasePerChannel, Existing, Owned
<1> DEFINE r == [conn[c] EXCEPT !.phase = "superseding", !.waits = {l}]
<1>5. conn' = [conn EXCEPT ![c] = r]
  BY <1>2, <1>3
<1>6. r \in ConnRecord /\ r.phase = "superseding" /\ r.waits = {l} /\ r.dev = conn[c].dev /\ r.chan = conn[c].chan
  <2>1. "superseding" \in ConnPhase /\ {l} \in SUBSET Conns
    BY <1>4 DEF ConnPhase
  <2>2. QED
    BY <1>3, <2>1 DEF ConnRecord
<1> HIDE DEF r
<1>7. Moves(c, r)
  BY <1>1, <1>3, <1>5, <1>6 DEF Moves, HoldsLock
<1>8. /\ lease' \in [Conns -> LeaseRecord]
      /\ lease'[l].phase \in {"fenced", "closing"}
      /\ lease[l].phase = "closing" => lease'[l].phase = "closing"
      /\ lease'[l].phase = "closing" => lease[l].phase = "closing"
      /\ lease'[l].dev = lease[l].dev /\ lease'[l].chan = lease[l].chan
      /\ lease'[l].registered = lease[l].registered
      /\ \A m \in Conns \ {l} : lease'[m] = lease[m]
  BY <1>2, <1>3, <1>4, FencedFacts DEF Unsettled
<1>9. Shrinks
  BY <1>4, <1>8 DEF Shrinks, Unsettled
<1>10. NoOrphanController'
  BY <1>1, <1>3, <1>4, <1>8 DEF AdmissionInv, NoOrphanController
<1>11. CutInv'
  <2>1. ASSUME NEW m \in Conns, lease'[m].phase = "live"
        PROVE  /\ closed' => m \in scheduled'
               /\ lease'[m].dev \notin authorized' => m \in scheduled' \/ Stranded(m)'
    <3>1. m # l /\ lease'[m] = lease[m] /\ lease[m].att \in Conns \cup {None}
      BY <1>3, <1>8, <2>1 DEF LeaseRecord
    <3>2. Stranded(m) => Stranded(m)'
      BY <1>1, <1>3, <1>5, <3>1 DEF Stranded
    <3>3. QED
      BY <1>1, <2>1, <3>1, <3>2 DEF AdmissionInv, CutInv
  <2>2. QED
    BY <2>1 DEF CutInv
<1>12. ~Unsettled(c) /\ ~Unsettled(c)'
  BY <1>1, <1>9 DEF AdmissionInv, NoLeaseYet, Unsettled, Shrinks
<1>13. Owned(r.dev, r.chan) \subseteq r.waits
  BY <1>4, <1>6 DEF Existing
<1>14. QED
  BY <1>1, <1>3, <1>6, <1>7, <1>8, <1>9, <1>10, <1>11, <1>12, <1>13, ShrinkStep DEF Early

\* Changing who is attached, and nothing else of the leases.
LEMMA PhonesChange ==
    ASSUME AdmissionInv, lease' \in [Conns -> LeaseRecord], UNCHANGED controllers,
           \A m \in Conns : /\ lease'[m].phase = lease[m].phase /\ lease'[m].dev = lease[m].dev
                            /\ lease'[m].chan = lease[m].chan
                            /\ lease'[m].registered = lease[m].registered
    PROVE  Shrinks /\ NoOrphanController'
<1>1. Shrinks
  BY DEF Shrinks, Unsettled
<1>2. NoOrphanController'
  BY DEF AdmissionInv, TypeOK, NoOrphanController
<1>3. QED
  BY <1>1, <1>2

\* A phone is attached to its channel's lease, with its device authorized at
\* that moment; it is served, dropped by a check that raises, or disowned.
LEMMA ReattachSteps ==
    ASSUME AdmissionInv, NEW c \in Conns, Reattach(c) \/ ReattachDisowned(c)
    PROVE  AdmissionInv'
<1>1. /\ conn[c].phase = "waiting" /\ lock = None /\ conn[c].dev \in authorized
      /\ \E l \in Existing(c) : lease' = [lease EXCEPT ![l].att = c]
      /\ UNCHANGED <<authorized, closed, bridgeLock, controllers>>
      /\ scheduled' \in {scheduled, scheduled \cup OwnedBy(conn[c].dev)}
  BY DEF Reattach, ReattachDisowned, Enter, Passes
<1>2. /\ conn \in [Conns -> ConnRecord] /\ lease \in [Conns -> LeaseRecord]
      /\ conn[c] \in ConnRecord /\ lock # c /\ bridgeLock # c
      /\ ~(Unsettled(c) /\ ~lease[c].registered)
      /\ controllers \subseteq Conns /\ scheduled \subseteq Conns
  BY <1>1, OutsideFacts
<1>3. \E r \in ConnRecord : /\ conn' = [conn EXCEPT ![c] = r]
                            /\ \/ r.phase \in {"admitted", "ended"} /\ lock' = lock
                               \/ r.phase = "cleaning" /\ lock' = c
  <2>1. CASE Reattach(c)
    <3>1. (Goto(c, "admitted") \/ Goto(c, "ended")) /\ lock' = lock
      BY <2>1 DEF Reattach
    <3>2. QED
      BY <3>1, GotoMoves DEF ConnPhase
  <2>2. CASE ReattachDisowned(c)
    <3> DEFINE r == [conn[c] EXCEPT !.phase = "cleaning", !.waits = OwnedBy(conn[c].dev)]
    <3>1. conn' = [conn EXCEPT ![c] = r] /\ lock' = c
      BY <1>2, <2>2 DEF ReattachDisowned
    <3>2. "cleaning" \in ConnPhase /\ OwnedBy(conn[c].dev) \in SUBSET Conns
      BY DEF ConnPhase, OwnedBy
    <3>3. r \in ConnRecord /\ r.phase = "cleaning"
      BY <1>2, <3>2 DEF ConnRecord
    <3>4. QED
      BY <3>1, <3>3
  <2>3. QED
    BY <2>1, <2>2
<1>4. PICK r \in ConnRecord : /\ conn' = [conn EXCEPT ![c] = r]
                              /\ \/ r.phase \in {"admitted", "ended"} /\ lock' = lock
                                 \/ r.phase = "cleaning" /\ lock' = c
  BY <1>3
<1>5. PICK l \in Existing(c) : lease' = [lease EXCEPT ![l].att = c]
  BY <1>1
<1>6. l \in Conns /\ lease[l].dev = conn[c].dev
  BY DEF Existing, Owned
<1>7. /\ \A m \in Conns \ {l} : lease'[m] = lease[m]
      /\ lease'[l].phase = lease[l].phase /\ lease'[l].dev = lease[l].dev
      /\ lease'[l].chan = lease[l].chan /\ lease'[l].registered = lease[l].registered
      /\ lease' \in [Conns -> LeaseRecord]
  <2>1. lease' = [lease EXCEPT ![l] = [lease[l] EXCEPT !.att = c]]
    BY <1>2, <1>5, <1>6
  <2>2. [lease[l] EXCEPT !.att = c] \in LeaseRecord
    BY <1>2, <1>6 DEF LeaseRecord
  <2>3. lease[l] \in LeaseRecord
    BY <1>2, <1>6
  <2>4. QED
    BY <1>2, <1>6, <2>1, <2>2, <2>3 DEF LeaseRecord
<1>8. Shrinks /\ NoOrphanController'
  BY <1>1, <1>7, PhonesChange
<1>9. Moves(c, r)
  BY <1>1, <1>2, <1>4 DEF Moves, HoldsLock
<1>10. CutInv'
  <2>1. ASSUME NEW m \in Conns, lease'[m].phase = "live"
        PROVE  /\ closed' => m \in scheduled'
               /\ lease'[m].dev \notin authorized' => m \in scheduled' \/ Stranded(m)'
    <3>1. CASE m = l
      BY <1>1, <1>6, <1>7, <2>1, <3>1 DEF AdmissionInv, CutInv
    <3>2. CASE m # l
      <4>1. lease'[m] = lease[m] /\ lease[m].att \in Conns \cup {None}
        BY <1>2, <1>7, <3>2 DEF LeaseRecord
      <4>2. Stranded(m) => Stranded(m)'
        BY <1>1, <1>2, <1>4, <4>1 DEF Stranded
      <4>3. QED
        BY <1>1, <2>1, <4>1, <4>2 DEF AdmissionInv, CutInv
    <3>3. QED
      BY <3>1, <3>2
  <2>2. QED
    BY <2>1 DEF CutInv
<1>11. ~Unsettled(c)'
  BY <1>1, <1>8 DEF AdmissionInv, NoLeaseYet, Unsettled, Shrinks
<1>12. scheduled' \subseteq Conns
  BY <1>1, <1>2 DEF OwnedBy
<1>13. QED
  BY <1>1, <1>4, <1>7, <1>8, <1>9, <1>10, <1>11, <1>12, ShrinkStep DEF Early

\* An ending connection takes itself off its lease: what it strands was not
\* stranded by it.
LEMMA ConnectionEndsStep ==
    ASSUME AdmissionInv, NEW c \in Conns, ConnectionEnds(c)
    PROVE  AdmissionInv'
<1>1. /\ conn[c].phase = "admitted" /\ Goto(c, "ended")
      /\ lease' = [l \in Conns |-> IF lease[l].att = c THEN [lease[l] EXCEPT !.att = None] ELSE lease[l]]
      /\ UNCHANGED <<authorized, closed, lock, bridgeLock, controllers, scheduled>>
  BY DEF ConnectionEnds
<1>2. /\ conn \in [Conns -> ConnRecord] /\ lease \in [Conns -> LeaseRecord]
      /\ conn[c] \in ConnRecord /\ lock # c /\ bridgeLock # c
      /\ ~(Unsettled(c) /\ ~lease[c].registered)
      /\ controllers \subseteq Conns /\ scheduled \subseteq Conns
  BY <1>1, OutsideFacts
<1>3. PICK r \in ConnRecord : conn' = [conn EXCEPT ![c] = r] /\ r.phase = "ended"
  BY <1>1, GotoMoves DEF ConnPhase
<1>4. Moves(c, r)
  BY <1>1, <1>2, <1>3 DEF Moves, HoldsLock
<1>5. ASSUME NEW m \in Conns
      PROVE  /\ lease'[m] \in LeaseRecord
             /\ lease'[m].phase = lease[m].phase /\ lease'[m].dev = lease[m].dev
             /\ lease'[m].chan = lease[m].chan /\ lease'[m].registered = lease[m].registered
             /\ lease[m].att # c => lease'[m] = lease[m]
  <2>1. lease[m] \in LeaseRecord /\ lease'[m] = IF lease[m].att = c THEN [lease[m] EXCEPT !.att = None] ELSE lease[m]
    BY <1>1, <1>2
  <2>2. QED
    BY <2>1 DEF LeaseRecord
<1>6. lease' \in [Conns -> LeaseRecord]
  BY <1>1, <1>5
<1>7. Shrinks /\ NoOrphanController'
  BY <1>1, <1>5, <1>6, PhonesChange
<1>8. CutInv'
  <2>1. ASSUME NEW m \in Conns, lease'[m].phase = "live"
        PROVE  /\ closed' => m \in scheduled'
               /\ lease'[m].dev \notin authorized' => m \in scheduled' \/ Stranded(m)'
    <3>1. lease[m].phase = "live" /\ lease[m].dev = lease'[m].dev /\ lease[m].att \in Conns \cup {None}
      BY <1>2, <1>5, <2>1 DEF LeaseRecord
    <3>2. Stranded(m) => lease[m].att # c /\ Stranded(m)'
      BY <1>1, <1>2, <1>3, <1>5, <3>1 DEF Stranded
    <3>3. QED
      BY <1>1, <2>1, <3>1, <3>2 DEF AdmissionInv, CutInv
  <2>2. QED
    BY <2>1 DEF CutInv
<1>9. Unsettled(c)' => Unsettled(c)
  BY <1>7 DEF Shrinks
<1>10. QED
  BY <1>1, <1>2, <1>3, <1>4, <1>6, <1>7, <1>8, <1>9, ShrinkStep DEF Early

(***************************************************************************)
(* The bridge runs and its lease is made: registered and live, or refused  *)
(* by the registry and fenced, with its open waiting for the cleanup.      *)
(***************************************************************************)
LEMMA CreateStep ==
    ASSUME AdmissionInv, NEW c \in Conns, Bridged(c),
           NEW r \in ConnRecord, conn' = [conn EXCEPT ![c] = r],
           r.phase \in {"admitted", "cleaning", "ended"},
           lock' = IF r.phase = "cleaning" THEN c ELSE None,
           NEW x \in LeaseRecord, lease' = [lease EXCEPT ![c] = x],
           x.dev = conn[c].dev, x.chan = conn[c].chan,
           \/ x.phase = "live" /\ x.registered
           \/ x.phase = "fenced" /\ ~x.registered /\ r.phase = "cleaning" /\ c \in r.waits,
           x.phase = "live" => /\ ~closed
                               /\ \/ conn[c].dev \in authorized
                                  \/ c \in scheduled'
                                  \/ x.att = c /\ r.phase = "ended",
           scheduled \subseteq scheduled', scheduled' \subseteq Conns,
           UNCHANGED <<authorized, closed>>
    PROVE  AdmissionInv'
<1>1. /\ conn[c].phase = "starting" /\ bridgeLock' = None /\ controllers' = controllers \cup {c}
      /\ lock = c /\ bridgeLock = c
      /\ lease \in [Conns -> LeaseRecord] /\ conn \in [Conns -> ConnRecord]
  BY DEF Bridged, AdmissionInv, LocksInv, HoldsLock, TypeOK
<1>2. Moves(c, r)
  BY <1>1 DEF Moves, HoldsLock
<1>3. /\ conn' \in [Conns -> ConnRecord] /\ conn'[c] = r
      /\ \A b \in Conns \ {c} : conn'[b] = conn[b]
      /\ lock' \in Conns \cup {None} /\ bridgeLock' \in Conns \cup {None}
      /\ \A b \in Conns : conn'[b].phase \in HoldsLock <=> lock' = b
      /\ \A b \in Conns : conn'[b].phase = "starting" <=> bridgeLock' = b
  BY <1>2, MovesFacts
<1>4. /\ lease' \in [Conns -> LeaseRecord] /\ lease'[c] = x
      /\ \A m \in Conns \ {c} : lease'[m] = lease[m]
  BY <1>1
<1>5. \A b \in Conns \ {c} : conn[b].phase \notin HoldsLock
  BY <1>1 DEF AdmissionInv, LocksInv
<1>6. TypeOK'
  <2>1. controllers' \subseteq Conns
    BY <1>1 DEF AdmissionInv, TypeOK
  <2>2. Cardinality(controllers') <= MaxLeases
    <3>1. Cardinality(controllers) < MaxLeases
      BY <1>1, AdmissionAssumption DEF AdmissionInv, LocksInv
    <3>2. IsFiniteSet(controllers)
      BY AdmissionAssumption, FS_Subset DEF AdmissionInv, TypeOK
    <3>3. Cardinality(controllers) \in Nat
          /\ Cardinality(controllers') \in {Cardinality(controllers), Cardinality(controllers) + 1}
      BY <1>1, <3>2, FS_AddElement, FS_CardinalityType
    <3>4. QED
      BY <3>1, <3>3, AdmissionAssumption
  <2>3. QED
    BY <1>3, <1>4, <2>1, <2>2 DEF AdmissionInv, TypeOK
<1>7. LocksInv'
  BY <1>1, <1>3 DEF LocksInv
<1>8. NoLeaseYet'
  BY <1>3, <1>4 DEF AdmissionInv, NoLeaseYet
<1>9. ChannelFree'
  BY <1>3, <1>5 DEF ChannelFree, HoldsLock
<1>10. Registry'
  <2>1. ASSUME NEW m \in Conns \ {c}
        PROVE  /\ Unsettled(m)' /\ ~lease'[m].registered => FALSE
               /\ lease'[m].phase = "live" => lease'[m].registered
    BY <1>4, <1>5 DEF AdmissionInv, Registry, Unsettled, HoldsLock
  <2>2. QED
    BY <1>3, <1>4, <2>1 DEF Registry, Unsettled
<1>11. NoOrphanController'
  BY <1>1, <1>4 DEF AdmissionInv, TypeOK, NoOrphanController
<1>12. OneLeasePerChannel'
  <2>1. ASSUME NEW m \in Conns \ {c}, Unsettled(m)' PROVE ~(lease'[m].dev = x.dev /\ lease'[m].chan = x.chan)
    <3>1. Unsettled(m) /\ lease'[m] = lease[m]
      BY <1>4, <2>1 DEF Unsettled
    <3>2. lease[m].registered
      BY <1>5, <3>1 DEF AdmissionInv, Registry, HoldsLock
    <3>3. m \notin Owned(conn[c].dev, conn[c].chan)
      BY <1>1 DEF AdmissionInv, ChannelFree, Existing
    <3>4. QED
      BY <3>1, <3>2, <3>3 DEF Owned
  <2>2. ASSUME NEW l \in Conns \ {c}, NEW m \in Conns \ {c}, Unsettled(l)', Unsettled(m)',
               lease'[l].dev = lease'[m].dev, lease'[l].chan = lease'[m].chan
        PROVE  l = m
    BY <1>4, <2>2 DEF AdmissionInv, OneLeasePerChannel, Unsettled
  <2>3. QED
    BY <1>4, <2>1, <2>2 DEF OneLeasePerChannel
<1>13. CutInv'
  <2>1. ASSUME NEW m \in Conns, lease'[m].phase = "live"
        PROVE  /\ closed' => m \in scheduled'
               /\ lease'[m].dev \notin authorized' => m \in scheduled' \/ Stranded(m)'
    <3>1. CASE m = c
      <4>1. x.att = c /\ r.phase = "ended" => Stranded(c)'
        BY <1>3, <1>4, AdmissionAssumption DEF Stranded
      <4>2. QED
        BY <1>4, <2>1, <3>1, <4>1
    <3>2. CASE m # c
      <4>1. lease'[m] = lease[m] /\ lease[m].att \in Conns \cup {None}
        BY <1>1, <1>4, <3>2 DEF LeaseRecord
      <4>2. Stranded(m) => Stranded(m)'
        BY <1>1, <1>3, <4>1 DEF Stranded
      <4>3. QED
        BY <2>1, <4>1, <4>2 DEF AdmissionInv, CutInv
    <3>3. QED
      BY <3>1, <3>2
  <2>2. QED
    BY <2>1 DEF CutInv
<1>14. QED
  BY <1>6, <1>7, <1>8, <1>9, <1>10, <1>11, <1>12, <1>13 DEF AdmissionInv

\* The four ends of an open whose bridge runs.
LEMMA OpenEnds ==
    ASSUME AdmissionInv, NEW c \in Conns,
           OpenAdmitted(c) \/ OpenDisowned(c) \/ OpenUnregistered(c) \/ OpenCheckRaises(c)
    PROVE  AdmissionInv'
<1>1. /\ Bridged(c) /\ conn[c] \in ConnRecord /\ conn \in [Conns -> ConnRecord] /\ lock = c
      /\ scheduled \subseteq Conns
  BY DEF OpenAdmitted, OpenDisowned, OpenUnregistered, OpenCheckRaises, Bridged, AdmissionInv, TypeOK,
         LocksInv, HoldsLock
<1>2. {"live", "fenced"} \subseteq LeasePhase
  BY DEF LeasePhase
<1> DEFINE x == NewLease(c, "live", TRUE, c)
<1>3. x \in LeaseRecord /\ x.phase = "live" /\ x.dev = conn[c].dev /\ x.chan = conn[c].chan
      /\ x.registered = TRUE /\ x.att = c
  BY <1>1, <1>2 DEF NewLease, LeaseRecord, ConnRecord
<1> HIDE DEF x
<1>4. CASE OpenAdmitted(c)
  <2>1. /\ Passes(c) /\ ~closed /\ lease' = [lease EXCEPT ![c] = x] /\ lock' = None
        /\ Goto(c, "admitted") /\ UNCHANGED <<authorized, closed, scheduled>>
    BY <1>4 DEF OpenAdmitted, Registrable, x
  <2>2. PICK r \in ConnRecord : conn' = [conn EXCEPT ![c] = r] /\ r.phase = "admitted"
    BY <2>1, GotoMoves DEF ConnPhase
  <2>3. QED
    BY <1>1, <1>3, <2>1, <2>2, CreateStep DEF Passes
<1>5. CASE OpenCheckRaises(c)
  <2>1. /\ ~closed /\ lease' = [lease EXCEPT ![c] = x] /\ lock' = None
        /\ Goto(c, "ended") /\ UNCHANGED <<authorized, closed, scheduled>>
    BY <1>5 DEF OpenCheckRaises, Registrable, x
  <2>2. PICK r \in ConnRecord : conn' = [conn EXCEPT ![c] = r] /\ r.phase = "ended"
    BY <2>1, GotoMoves DEF ConnPhase
  <2>3. QED
    BY <1>1, <1>3, <2>1, <2>2, CreateStep
<1>6. "cleaning" \in ConnPhase /\ OwnedBy(conn[c].dev) \cup {c} \in SUBSET Conns /\ {c} \in SUBSET Conns
  BY DEF ConnPhase, OwnedBy
<1>7. CASE OpenDisowned(c)
  <2> DEFINE r == [conn[c] EXCEPT !.phase = "cleaning", !.waits = OwnedBy(conn[c].dev) \cup {c}]
  <2>1. /\ ~closed /\ lease' = [lease EXCEPT ![c] = x] /\ lock' = c
        /\ scheduled' = scheduled \cup OwnedBy(conn[c].dev) \cup {c}
        /\ conn' = [conn EXCEPT ![c] = r]
        /\ UNCHANGED <<authorized, closed>>
    BY <1>1, <1>7 DEF OpenDisowned, Registrable, x
  <2>2. r \in ConnRecord /\ r.phase = "cleaning"
    BY <1>1, <1>6 DEF ConnRecord
  <2>3. scheduled \subseteq scheduled' /\ scheduled' \subseteq Conns /\ c \in scheduled'
    BY <1>1, <1>6, <2>1
  <2> HIDE DEF r
  <2>4. QED
    BY <1>1, <1>3, <2>1, <2>2, <2>3, CreateStep
<1>8. CASE OpenUnregistered(c)
  <2> DEFINE r == [conn[c] EXCEPT !.phase = "cleaning", !.waits = {c}]
             y == NewLease(c, "fenced", FALSE, None)
  <2>1. /\ lease' = [lease EXCEPT ![c] = y] /\ lock' = c /\ scheduled' = scheduled
        /\ conn' = [conn EXCEPT ![c] = r]
        /\ UNCHANGED <<authorized, closed>>
    BY <1>1, <1>8 DEF OpenUnregistered
  <2>2. r \in ConnRecord /\ r.phase = "cleaning" /\ r.waits = {c}
    BY <1>1, <1>6 DEF ConnRecord
  <2>3. y \in LeaseRecord /\ y.phase = "fenced" /\ y.dev = conn[c].dev /\ y.chan = conn[c].chan
        /\ y.registered = FALSE
    BY <1>1, <1>2 DEF NewLease, LeaseRecord, ConnRecord
  <2> HIDE DEF r, y
  <2>4. QED
    BY <1>1, <2>1, <2>2, <2>3, CreateStep
<1>9. QED
  BY <1>4, <1>5, <1>7, <1>8

\* What is said of channels and of the registry depends on the connections
\* and the leases alone.
LEMMA SameLeases ==
    ASSUME ChannelFree, Registry, OneLeasePerChannel, UNCHANGED <<conn, lease>>
    PROVE  ChannelFree' /\ Registry' /\ OneLeasePerChannel'
<1>1. \A l \in Conns : Unsettled(l)' <=> Unsettled(l)
  BY DEF Unsettled
<1>2. \A c \in Conns : Existing(c)' = Existing(c)
  BY <1>1 DEF Existing, Owned
<1>3. ChannelFree'
  BY <1>2 DEF ChannelFree
<1>4. Registry' /\ OneLeasePerChannel'
  BY <1>1 DEF Registry, OneLeasePerChannel
<1>5. QED
  BY <1>3, <1>4

\* Revocation and shutdown schedule the release of every lease they concern:
\* a live lease is in the registry.
LEMMA CutSteps ==
    ASSUME AdmissionInv, (\E dev \in Devices : Revoke(dev)) \/ Shutdown
    PROVE  AdmissionInv'
<1>1. /\ UNCHANGED <<lock, bridgeLock, conn, lease, controllers>>
      /\ authorized' \subseteq authorized
      /\ closed' \in BOOLEAN
      /\ scheduled \subseteq scheduled' /\ scheduled' \subseteq Conns
  BY DEF Revoke, Shutdown, AdmissionInv, TypeOK, OwnedBy, Registered
<1>2. TypeOK'
  BY <1>1 DEF AdmissionInv, TypeOK
<1>3. LocksInv' /\ NoLeaseYet' /\ NoOrphanController'
  BY <1>1 DEF AdmissionInv, LocksInv, NoLeaseYet, NoOrphanController
<1>4. ChannelFree' /\ Registry' /\ OneLeasePerChannel'
  BY <1>1, SameLeases DEF AdmissionInv
<1>5. CutInv'
  <2>1. ASSUME NEW m \in Conns, lease'[m].phase = "live"
        PROVE  /\ closed' => m \in scheduled'
               /\ lease'[m].dev \notin authorized' => m \in scheduled' \/ Stranded(m)'
    <3>1. lease[m].phase = "live" /\ lease[m].registered /\ (Stranded(m)' <=> Stranded(m))
      BY <1>1, <2>1 DEF AdmissionInv, Registry, Stranded
    <3>2. CASE Shutdown
      <4>1. m \in scheduled'
        BY <3>1, <3>2 DEF Shutdown, Registered, Unsettled
      <4>2. QED
        BY <4>1
    <3>3. ASSUME NEW dev \in Devices, Revoke(dev)
          PROVE  /\ closed' => m \in scheduled'
                 /\ lease'[m].dev \notin authorized' => m \in scheduled' \/ Stranded(m)'
      <4>1. lease[m].dev = dev => m \in scheduled'
        BY <3>1, <3>3 DEF Revoke, OwnedBy, Unsettled
      <4>2. closed' = closed /\ authorized' = authorized \ {dev}
        BY <3>3 DEF Revoke
      <4>3. QED
        BY <1>1, <3>1, <4>1, <4>2 DEF AdmissionInv, CutInv
    <3>4. QED
      BY <3>2, <3>3
  <2>2. QED
    BY <2>1 DEF CutInv
<1>6. QED
  BY <1>2, <1>3, <1>4, <1>5 DEF AdmissionInv

-----------------------------------------------------------------------------
(* Theorems                                                                *)

LEMMA AdmissionNext == AdmissionInv /\ [Next]_vars => AdmissionInv'
<1> SUFFICES ASSUME AdmissionInv, [Next]_vars PROVE AdmissionInv'
  OBVIOUS
<1>1. ASSUME NEW c \in Conns, NEW dev \in Devices, NEW chan \in Channels, NEW mode \in Mode,
             Request(c, dev, chan, mode)
      PROVE  AdmissionInv'
  BY <1>1, RequestStep
<1>2. ASSUME NEW c \in Conns, OpenStep(c) PROVE AdmissionInv'
  BY <1>2, OpenMoves, SupersedeStep, OpenEnds, ReattachSteps DEF OpenStep
<1>3. ASSUME NEW c \in Conns, GivesUp(c) \/ ConnectionEnds(c) PROVE AdmissionInv'
  BY <1>3, OpenMoves, ConnectionEndsStep
<1>4. ASSUME NEW c \in Conns, SelfRelease(c) \/ RunRelease(c) \/ CloseController(c) \/ Settle(c)
      PROVE  AdmissionInv'
  BY <1>4, ReleaseSteps
<1>5. CASE (\E dev \in Devices : Revoke(dev)) \/ Shutdown
  BY <1>5, CutSteps
<1>6. CASE UNCHANGED vars
  <2>1. UNCHANGED <<authorized, closed, lock, bridgeLock, conn, lease, controllers, scheduled>>
    BY <1>6 DEF vars
  <2>2. TypeOK' /\ LocksInv' /\ NoLeaseYet' /\ NoOrphanController'
    BY <2>1 DEF AdmissionInv, TypeOK, LocksInv, NoLeaseYet, NoOrphanController
  <2>3. CutInv'
    BY <2>1 DEF AdmissionInv, CutInv, Stranded
  <2>4. ChannelFree' /\ Registry' /\ OneLeasePerChannel'
    BY <2>1, SameLeases DEF AdmissionInv
  <2>5. QED
    BY <2>2, <2>3, <2>4 DEF AdmissionInv
<1>7. QED
  BY <1>1, <1>2, <1>3, <1>4, <1>5, <1>6 DEF Next

(***************************************************************************)
(* Every controller the runtime runs has a lease that will close it, there *)
(* is one lease for each channel of a device, and never more controllers   *)
(* than the limit, for any number of connections suspended at any await of *)
(* open_controller, _open_lease and RelayRuntime.open_controller.          *)
(***************************************************************************)
THEOREM ControllersAreOwnedHolds == Spec => []ControllersAreOwned
<1>1. AdmissionInv => ControllersAreOwned
  BY DEF AdmissionInv, ControllersAreOwned
<1>2. QED
  BY <1>1, AdmissionInit, AdmissionNext, PTL DEF Spec

(***************************************************************************)
(* Revocation and shutdown reach every live lease, also one whose open was *)
(* suspended when they came: it is being released, unless its second check *)
(* raised instead of answering (revoke_device, SessionLeaseManager.close,  *)
(* open_controller's check after its awaits).                              *)
(***************************************************************************)
THEOREM CutLeasesAreReleasedHolds == Spec => []CutLeasesAreReleased
<1>1. AdmissionInv => CutLeasesAreReleased
  BY DEF AdmissionInv, CutInv, CutLeasesAreReleased
<1>2. QED
  BY <1>1, AdmissionInit, AdmissionNext, PTL DEF Spec

(***************************************************************************)
(* The secure channel.  First the Noise handshake: what each operation of  *)
(* the vendored runtime computes, on states written out as Sym and Hs.     *)
(***************************************************************************)

\* a symmetric state and a handshake state, with their fields spelled out
Sym(h, ck, k, n) == [h |-> h, ck |-> ck, c |-> [k |-> k, n |-> n]]
Hs(i, s, e, rs, re, left, y) ==
    [init |-> i, s |-> s, e |-> e, rs |-> rs, re |-> re, left |-> left, y |-> y]
St(ok, hs, parts) == [ok |-> ok, hs |-> hs, parts |-> parts]
Good(hs, parts) == [ok |-> TRUE, hs |-> hs, parts |-> parts]

IsSeq(s) == \E S : s \in Seq(S)
DhTokens == {"es", "ee", "se"}
Key(ck, out) == [ck |-> ck, out |-> out]
Ct(k, n, ad, pt) == [k |-> k, n |-> n, ad |-> ad, pt |-> pt]
Mixed(h, ct) == Append(h, <<ct.k, ct.n, ct.pt>>)
Grown(ck, pair) == Append(ck, pair)

\* what is appended to a sequence comes last
LEMMA Appended ==
  ASSUME NEW S, NEW s \in Seq(S), NEW x \in S
  PROVE  /\ Append(s, x) \in Seq(S) /\ Len(Append(s, x)) = Len(s) + 1
         /\ \A i \in 1 .. Len(s) : Append(s, x)[i] = s[i]
         /\ Append(s, x)[Len(s) + 1] = x
OBVIOUS

LEMMA AppendTo1 ==
  ASSUME NEW a, NEW b
  PROVE  Append(<<a>>, b) = <<a, b>>
<1> DEFINE s == <<a>>
           t == <<a, b>>
<1>1. /\ s \in Seq({a, b}) /\ b \in {a, b}
      /\ Len(s) = 1 /\ s[1] = a
  OBVIOUS
<1>2. t \in Seq({a, b}) /\ Len(t) = 2 /\ t[1] = a /\ t[2] = b
  OBVIOUS
<1>3. /\ Append(s, b) \in Seq({a, b}) /\ Len(Append(s, b)) = 2
      /\ Append(s, b)[1] = a /\ Append(s, b)[2] = b
  <2> HIDE DEF s
  <2>1. /\ Append(s, b) \in Seq({a, b}) /\ Len(Append(s, b)) = Len(s) + 1
        /\ \A i \in 1 .. Len(s) : Append(s, b)[i] = s[i]
        /\ Append(s, b)[Len(s) + 1] = b
    BY <1>1, Appended
  <2> DEFINE u == Append(s, b)
  <2> HIDE DEF u
  <2> QED BY <1>1, <2>1 DEF u
<1> HIDE DEF s, t
<1>4. Append(s, b) = t
  <2> DEFINE u == Append(s, b)
  <2>1. u \in Seq({a, b}) /\ Len(u) = 2 /\ u[1] = a /\ u[2] = b
    BY <1>3
  <2> HIDE DEF u
  <2>2. u = t
    BY <1>2, <2>1
  <2> QED BY <2>2 DEF u
<1> QED BY <1>4 DEF s, t

\* short sequences that are appended to
LEMMA AppendTo2 ==
  ASSUME NEW a, NEW b, NEW c
  PROVE  Append(<<a, b>>, c) = <<a, b, c>>
<1> DEFINE s == <<a, b>>
           t == <<a, b, c>>
<1>1. /\ s \in Seq({a, b, c}) /\ c \in {a, b, c}
      /\ Len(s) = 2 /\ s[1] = a /\ s[2] = b
  OBVIOUS
<1>2. t \in Seq({a, b, c}) /\ Len(t) = 3 /\ t[1] = a /\ t[2] = b /\ t[3] = c
  OBVIOUS
<1>3. /\ Append(s, c) \in Seq({a, b, c}) /\ Len(Append(s, c)) = 3
      /\ Append(s, c)[1] = a /\ Append(s, c)[2] = b /\ Append(s, c)[3] = c
  <2> HIDE DEF s
  <2>1. /\ Append(s, c) \in Seq({a, b, c}) /\ Len(Append(s, c)) = Len(s) + 1
        /\ \A i \in 1 .. Len(s) : Append(s, c)[i] = s[i]
        /\ Append(s, c)[Len(s) + 1] = c
    BY <1>1, Appended
  <2> DEFINE u == Append(s, c)
  <2> HIDE DEF u
  <2> QED BY <1>1, <2>1 DEF u
<1> HIDE DEF s, t
<1>4. Append(s, c) = t
  <2> DEFINE u == Append(s, c)
  <2>1. u \in Seq({a, b, c}) /\ Len(u) = 3 /\ u[1] = a /\ u[2] = b /\ u[3] = c
    BY <1>3
  <2> HIDE DEF u
  <2>2. u = t
    BY <1>2, <2>1
  <2> QED BY <2>2 DEF u
<1> QED BY <1>4 DEF s, t

\* a hash stays a sequence
LEMMA MixedIsSeq ==
  ASSUME NEW h, IsSeq(h), NEW ct
  PROVE  IsSeq(Mixed(h, ct))
<1>1. PICK S : h \in Seq(S)
  BY DEF IsSeq
<1> DEFINE x == <<ct.k, ct.n, ct.pt>>
           T == S \cup {x}
<1> HIDE DEF x
<1>2. h \in Seq(T) /\ x \in T
  BY <1>1
<1> HIDE DEF T
<1>3. Append(h, x) \in Seq(T)
  BY <1>2
<1> QED BY <1>3 DEF IsSeq, Mixed, x

\* MixHash and MixKey, field by field
LEMMA MixesHash ==
  ASSUME NEW h, NEW ck, NEW k, NEW n, NEW ct
  PROVE  MixHash(Sym(h, ck, k, n), ct) = Sym(Mixed(h, ct), ck, k, n)
<1> DEFINE y == Sym(h, ck, k, n)
           a == Mixed(h, ct)
<1>1. y.h = h
  BY DEF Sym
<1>2. MixHash(y, ct) = [y EXCEPT !.h = Append(y.h, <<ct.k, ct.n, ct.pt>>)]
  BY Zenon DEF MixHash
<1>3. Append(y.h, <<ct.k, ct.n, ct.pt>>) = a
  BY <1>1, Zenon DEF Mixed
<1>4. [y EXCEPT !.h = a] = Sym(a, ck, k, n)
  <2> HIDE DEF a
  <2> QED BY DEF Sym, Key
<1> HIDE DEF y, a
<1>5. QED BY <1>2, <1>3, <1>4, Zenon DEF y, a

LEMMA MixesKey ==
  ASSUME NEW h, NEW ck, NEW k, NEW n, NEW pair
  PROVE  MixKey(Sym(h, ck, k, n), pair) = Sym(h, Grown(ck, pair), Key(Grown(ck, pair), 0), 0)
<1> DEFINE y == Sym(h, ck, k, n)
<1>1. y.ck = ck /\ y.h = h
  BY DEF Sym
<1>2. MixKey(y, pair) = Sym(y.h, Grown(y.ck, pair), Key(Grown(y.ck, pair), 0), 0)
  BY Zenon DEF MixKey, InitializeKey, Key, Sym, Grown
<1> HIDE DEF y
<1>3. MixKey(y, pair) = Sym(h, Grown(ck, pair), Key(Grown(ck, pair), 0), 0)
  BY <1>1, <1>2, Zenon
<1> QED BY <1>3, Zenon DEF y

\* a token "e" writes the ephemeral key
LEMMA WritesE ==
  ASSUME NEW i, NEW s, NEW e, NEW rs, NEW re, NEW left, NEW h, NEW ck, NEW k, NEW n
  PROVE  WriteToken(Good(Hs(i, s, e, rs, re, left, Sym(h, ck, k, n)), <<>>), "e")
         = Good(Hs(i, s, e, rs, re, left, Sym(Mixed(h, Clear(e)), ck, k, n)), <<Clear(e)>>)
<1> DEFINE y == Sym(h, ck, k, n)
           w == Good(Hs(i, s, e, rs, re, left, y), <<>>)
           z == Sym(Mixed(h, Clear(e)), ck, k, n)
           a == <<Clear(e)>>
<1>1. MixHash(y, Clear(e)) = z
  BY MixesHash
<1> HIDE DEF y
<1>2. w.hs.e = e /\ w.hs.y = y /\ w.parts = <<>>
  BY DEF Hs, St, Good
<1>3. Append(<<>>, Clear(e)) = a
  OBVIOUS
<1>4. WriteToken(w, "e") = [ok |-> w.ok, hs |-> [w.hs EXCEPT !.y = MixHash(w.hs.y, Clear(w.hs.e))],
                            parts |-> Append(w.parts, Clear(w.hs.e))]
  BY Zenon DEF WriteToken, WriteE
<1>5. [w.hs EXCEPT !.y = z] = Hs(i, s, e, rs, re, left, z)
  <2> HIDE DEF z
  <2> QED BY DEF Hs, St, Good
<1>6. w.ok = TRUE
  BY DEF St, Good
<1>7. WriteToken(w, "e") = [ok |-> TRUE, hs |-> Hs(i, s, e, rs, re, left, z), parts |-> a]
  <2> HIDE DEF w, z, a
  <2> QED BY <1>1, <1>2, <1>3, <1>4, <1>5, <1>6, Zenon
<1> QED BY <1>7, Zenon DEF y, St, Good

\* with a key and a nonce left, encrypting takes the nonce
LEMMA EncryptsKeyed ==
  ASSUME NEW k, k # NoKey, NEW n \in Nat, n < MaxNonce, NEW ad, NEW pt
  PROVE  EncryptWithAd([k |-> k, n |-> n], ad, pt)
         = [ok |-> TRUE, c |-> [k |-> k, n |-> n + 1], ct |-> Ct(k, n, ad, pt)]
<1> DEFINE c == [k |-> k, n |-> n]
<1>1. c.n # MaxNonce /\ c.k = k /\ c.n = n
  BY NoiseAssumption
<1>2. [c EXCEPT !.n = @ + 1] = [k |-> k, n |-> n + 1]
  OBVIOUS
<1> HIDE DEF c
<1>3. EncryptWithAd(c, ad, pt) = [ok |-> TRUE, c |-> [k |-> k, n |-> n + 1], ct |-> Ct(k, n, ad, pt)]
  BY <1>1, <1>2, Zenon DEF EncryptWithAd, HasKey, Ct
<1> QED BY <1>3 DEF c

\* encrypt_and_hash with a key
LEMMA WritesPart ==
  ASSUME NEW i, NEW s, NEW e, NEW rs, NEW re, NEW left, NEW h, NEW ck, NEW k, NEW n \in Nat, NEW parts,
         k # NoKey, n < MaxNonce, NEW pt
  PROVE  WritePart(Good(Hs(i, s, e, rs, re, left, Sym(h, ck, k, n)), parts), pt)
         = Good(Hs(i, s, e, rs, re, left, Sym(Mixed(h, Ct(k, n, h, pt)), ck, k, n + 1)),
              Append(parts, Ct(k, n, h, pt)))
<1> DEFINE w == Good(Hs(i, s, e, rs, re, left, Sym(h, ck, k, n)), parts)
           ct == Ct(k, n, h, pt)
           c2 == [k |-> k, n |-> n + 1]
           y2 == Sym(h, ck, k, n + 1)
           z == Sym(Mixed(h, ct), ck, k, n + 1)
           x == EncryptWithAd(w.hs.y.c, w.hs.y.h, pt)
           b == Append(parts, ct)
<1>1. w.hs.y.c = [k |-> k, n |-> n] /\ w.hs.y.h = h /\ w.ok /\ w.parts = parts
  BY DEF Hs, St, Good, Sym
<1>2. x = [ok |-> TRUE, c |-> c2, ct |-> ct]
  <2>1. EncryptWithAd([k |-> k, n |-> n], h, pt) = [ok |-> TRUE, c |-> c2, ct |-> ct]
    BY EncryptsKeyed
  <2> HIDE DEF w, c2, ct
  <2> QED BY <1>1, <2>1, Zenon
<1>3. x.ok /\ x.c = c2 /\ x.ct = ct
  <2> HIDE DEF c2, ct, x
  <2> QED BY <1>2
<1>4. [w.hs.y EXCEPT !.c = c2] = y2
  BY DEF Hs, St, Good, Sym
<1>5. MixHash(y2, ct) = z
  BY MixesHash
<1>6. [w.hs EXCEPT !.y = z] = Hs(i, s, e, rs, re, left, z)
  <2> HIDE DEF z
  <2> QED BY DEF Hs, St, Good
<1>7. WritePart(w, pt) = [ok |-> w.ok /\ x.ok, hs |-> [w.hs EXCEPT !.y = MixHash([w.hs.y EXCEPT !.c = x.c], x.ct)],
                          parts |-> Append(w.parts, x.ct)]
  BY Zenon DEF WritePart
<1>8. w.ok /\ x.ok = TRUE
  BY <1>1, <1>3
<1> HIDE DEF w, ct, c2, y2, z, x, b
<1>9. WritePart(w, pt) = [ok |-> TRUE, hs |-> Hs(i, s, e, rs, re, left, z), parts |-> Append(parts, ct)]
  <2>1. [w.hs EXCEPT !.y = MixHash([w.hs.y EXCEPT !.c = x.c], x.ct)] = Hs(i, s, e, rs, re, left, z)
    BY <1>3, <1>4, <1>5, <1>6, Zenon
  <2>2. Append(w.parts, x.ct) = Append(parts, ct)
    BY <1>1, <1>3, Zenon
  <2>3. (w.ok /\ x.ok) = TRUE
    BY <1>8
  <2> QED BY <1>7, <2>1, <2>2, <2>3, Zenon
<1> QED BY <1>9, Zenon DEF St, Good, w, z, ct

\* a Diffie-Hellman token renews the key, and the nonce starts over
LEMMA MixesDh ==
  ASSUME NEW i, NEW s, NEW e, NEW rs, NEW re, NEW left, NEW h, NEW ck, NEW k, NEW n, NEW w,
         NEW token \in DhTokens, NEW pair,
         DhPair(Hs(i, s, e, rs, re, left, Sym(h, ck, k, n)), token) = pair,
         w.hs = Hs(i, s, e, rs, re, left, Sym(h, ck, k, n))
  PROVE  /\ WriteToken(w, token)
            = St(w.ok, Hs(i, s, e, rs, re, left, Sym(h, Grown(ck, pair), Key(Grown(ck, pair), 0), 0)), w.parts)
         /\ ReadToken(w, token)
            = St(w.ok, Hs(i, s, e, rs, re, left, Sym(h, Grown(ck, pair), Key(Grown(ck, pair), 0), 0)), w.parts)
<1> DEFINE y == Sym(h, ck, k, n)
           hs == Hs(i, s, e, rs, re, left, y)
           z == Sym(h, Grown(ck, pair), Key(Grown(ck, pair), 0), 0)
<1>1. token # "e" /\ token # "s"
  BY DEF DhTokens
<1>2. w.hs = hs /\ hs.y = y
  BY DEF Hs
<1>3. MixKey(y, pair) = z
  BY MixesKey
<1>4. DhPair(hs, token) = pair
  BY Zenon
<1>5. WriteToken(w, token) = MixDh(w, token) /\ ReadToken(w, token) = MixDh(w, token)
  BY <1>1, Zenon DEF WriteToken, ReadToken
<1>6. [hs EXCEPT !.y = z] = Hs(i, s, e, rs, re, left, z)
  <2> HIDE DEF z, y
  <2> QED BY DEF Hs
<1>7. MixDh(w, token) = [ok |-> w.ok, hs |-> [w.hs EXCEPT !.y = MixKey(w.hs.y, DhPair(w.hs, token))], parts |-> w.parts]
  BY Zenon DEF MixDh
<1>8. [w.hs EXCEPT !.y = MixKey(w.hs.y, DhPair(w.hs, token))] = Hs(i, s, e, rs, re, left, z)
  <2> HIDE DEF hs, y, z
  <2> QED BY <1>2, <1>3, <1>4, <1>6, Zenon
<1>9. MixDh(w, token) = St(w.ok, Hs(i, s, e, rs, re, left, z), w.parts)
  <2> HIDE DEF hs, y, z
  <2> QED BY <1>8, <1>7, Zenon DEF St
<1> QED BY <1>5, <1>9, Zenon

LEMMA WritesDh ==
  ASSUME NEW i, NEW s, NEW e, NEW rs, NEW re, NEW left, NEW h, NEW ck, NEW k, NEW n, NEW parts,
         NEW token \in DhTokens, NEW pair,
         DhPair(Hs(i, s, e, rs, re, left, Sym(h, ck, k, n)), token) = pair
  PROVE  WriteToken(Good(Hs(i, s, e, rs, re, left, Sym(h, ck, k, n)), parts), token)
         = Good(Hs(i, s, e, rs, re, left, Sym(h, Grown(ck, pair), Key(Grown(ck, pair), 0), 0)), parts)
<1> DEFINE hs == Hs(i, s, e, rs, re, left, Sym(h, ck, k, n))
           g == Hs(i, s, e, rs, re, left, Sym(h, Grown(ck, pair), Key(Grown(ck, pair), 0), 0))
           w == Good(hs, parts)
<1>1. w.hs = hs /\ w.parts = parts /\ w.ok = TRUE
  <2> HIDE DEF hs
  <2> QED BY DEF Good
<1>2. WriteToken(w, token) = St(w.ok, g, w.parts)
  <2> HIDE DEF w
  <2> QED BY <1>1, MixesDh
<1>3. St(w.ok, g, w.parts) = Good(g, parts)
  <2> HIDE DEF w, g
  <2> QED BY <1>1, Zenon DEF St, Good
<1> QED BY <1>2, <1>3, Zenon

\* the pattern that is next
LEMMA Starts ==
  ASSUME NEW i, NEW s, NEW e, NEW rs, NEW re, NEW left, NEW y, NEW parts, NEW t1, NEW t2,
         Head(left) = <<t1, t2>>, NEW hs, hs = Hs(i, s, e, rs, re, left, y)
  PROVE  /\ Start(hs, parts) = Good(Hs(i, s, e, rs, re, Tail(left), y), parts)
         /\ Head(hs.left)[1] = t1 /\ Head(hs.left)[2] = t2
<1> DEFINE rest == Tail(left)
           hd == Head(left)
<1>1. hs.left = left
  BY DEF Hs
<1>2. [hs EXCEPT !.left = rest] = Hs(i, s, e, rs, re, rest, y)
  <2> HIDE DEF rest
  <2> QED BY DEF Hs
<1>3. hd[1] = t1 /\ hd[2] = t2
  <2> HIDE DEF hd
  <2>1. hd = <<t1, t2>>
    BY DEF hd
  <2> QED BY <2>1
<1>4. [hs EXCEPT !.left = Tail(hs.left)] = Hs(i, s, e, rs, re, rest, y)
  BY <1>1, <1>2, Zenon
<1>5. Start(hs, parts) = Good(Hs(i, s, e, rs, re, rest, y), parts)
  <2> HIDE DEF rest
  <2> QED BY <1>4, Zenon DEF Good, Start
<1> QED BY <1>1, <1>3, <1>5, Zenon

LEMMA StartsAs ==
  ASSUME NEW i, NEW s, NEW e, NEW rs, NEW re, NEW left, NEW y, NEW parts
  PROVE  Start(Hs(i, s, e, rs, re, left, y), parts) = Good(Hs(i, s, e, rs, re, Tail(left), y), parts)
<1> DEFINE rest == Tail(left)
           hs == Hs(i, s, e, rs, re, left, y)
<1>1. hs.left = left
  BY DEF Hs
<1>2. [hs EXCEPT !.left = rest] = Hs(i, s, e, rs, re, rest, y)
  <2> HIDE DEF rest
  <2> QED BY DEF Hs
<1> HIDE DEF hs
<1>3. [hs EXCEPT !.left = Tail(hs.left)] = Hs(i, s, e, rs, re, rest, y)
  BY <1>1, <1>2, Zenon
<1>4. Start(hs, parts) = Good(Hs(i, s, e, rs, re, rest, y), parts)
  <2> HIDE DEF rest
  <2> QED BY <1>3, Zenon DEF Good, Start
<1> QED BY <1>4, Zenon DEF hs

\* what writing a message with an ephemeral, with a static key comes to
LEMMA WritesEphemeral ==
  ASSUME NEW i, NEW s, NEW e, NEW rs, NEW re, NEW left, NEW h, NEW ck, NEW k, NEW n, NEW pt,
         NEW token \in {"es", "ee"}, Head(left) = <<"e", token>>, NEW pair,
         NEW g, g = Mixed(h, Clear(e)),
         DhPair(Hs(i, s, e, rs, re, Tail(left), Sym(g, ck, k, n)), token) = pair,
         NEW ck1, ck1 = Grown(ck, pair), ck1 # <<>>, NEW x, x = Ct(Key(ck1, 0), 0, g, pt),
         NEW v, v = WriteMessage(Hs(i, s, e, rs, re, left, Sym(h, ck, k, n)), pt)
  PROVE  v = Good(Hs(i, s, e, rs, re, Tail(left), Sym(Mixed(g, x), ck1, Key(ck1, 0), 1)),
                  <<Clear(e), x>>)
<1> DEFINE h1 == Mixed(h, Clear(e))
           rest == Tail(left)
           key == Key(ck1, 0)
           ct == Ct(key, 0, h1, pt)
           hs == Hs(i, s, e, rs, re, left, Sym(h, ck, k, n))
           a == Good(Hs(i, s, e, rs, re, rest, Sym(h, ck, k, n)), <<>>)
           b == Good(Hs(i, s, e, rs, re, rest, Sym(h1, ck, k, n)), <<Clear(e)>>)
           c == Good(Hs(i, s, e, rs, re, rest, Sym(h1, ck1, key, 0)), <<Clear(e)>>)
<1>1. WriteMessage(hs, pt)
      = WritePart(WriteToken(WriteToken(Start(hs, <<>>), Head(hs.left)[1]), Head(hs.left)[2]), pt)
  BY Zenon DEF WriteMessage
<1>2. Start(hs, <<>>) = a /\ Head(hs.left)[1] = "e" /\ Head(hs.left)[2] = token
  BY Starts
<1>3. WriteToken(a, "e") = b
  BY WritesE
<1>4. WriteToken(b, token) = c
  <2>1. token \in DhTokens
    BY DEF DhTokens
  <2>2. DhPair(Hs(i, s, e, rs, re, rest, Sym(h1, ck, k, n)), token) = pair
    OBVIOUS
  <2>3. WriteToken(b, token) = Good(Hs(i, s, e, rs, re, rest, Sym(h1, Grown(ck, pair), Key(Grown(ck, pair), 0), 0)), <<Clear(e)>>)
    <3> DEFINE one == <<Clear(e)>>
    <3>1. WriteToken(Good(Hs(i, s, e, rs, re, rest, Sym(h1, ck, k, n)), one), token)
          = Good(Hs(i, s, e, rs, re, rest, Sym(h1, Grown(ck, pair), Key(Grown(ck, pair), 0), 0)), one)
      <4> HIDE DEF one, h1, rest
      <4> QED BY <2>1, <2>2, WritesDh
    <3> QED BY <3>1, Zenon
  <2> QED BY <2>3, Zenon
<1>5. WritePart(c, pt) = Good(Hs(i, s, e, rs, re, rest, Sym(Mixed(h1, ct), ck1, key, 0 + 1)), Append(<<Clear(e)>>, ct))
  <2>1. key # NoKey
    BY DEF Key, NoKey
  <2>2. 0 \in Nat /\ 0 < MaxNonce
    BY NoiseAssumption
  <2> HIDE DEF key, h1, rest
  <2> QED BY <2>1, <2>2, WritesPart
<1>6. Append(<<Clear(e)>>, ct) = <<Clear(e), ct>>
  <2> HIDE DEF ct
  <2> QED BY AppendTo1
<1>7. 0 + 1 = 1
  OBVIOUS
<1> HIDE DEF hs, a, b, c, ct
<1>8. WriteMessage(hs, pt) = Good(Hs(i, s, e, rs, re, rest, Sym(Mixed(h1, ct), ck1, key, 1)), <<Clear(e), ct>>)
  BY <1>1, <1>2, <1>3, <1>4, <1>5, <1>6, <1>7, Zenon
<1>9. h1 = Mixed(h, Clear(e)) /\ ct = Ct(Key(ck1, 0), 0, h1, pt)
  BY Zenon DEF ct
<1> HIDE DEF h1
<1> QED BY <1>8, <1>9, Zenon DEF hs

LEMMA WritesStatic ==
  ASSUME NEW i, NEW s, NEW e, NEW rs, NEW re, NEW left, NEW h, NEW ck, NEW k, NEW n \in Nat, NEW pt,
         k # NoKey, n < MaxNonce, Head(left) = <<"s", "se">>, NEW pair,
         NEW x, x = Ct(k, n, h, s), NEW g, g = Mixed(h, x),
         DhPair(Hs(i, s, e, rs, re, Tail(left), Sym(g, ck, k, n + 1)), "se") = pair,
         NEW ck1, ck1 = Grown(ck, pair), ck1 # <<>>, NEW z, z = Ct(Key(ck1, 0), 0, g, pt),
         NEW v, v = WriteMessage(Hs(i, s, e, rs, re, left, Sym(h, ck, k, n)), pt)
  PROVE  v = Good(Hs(i, s, e, rs, re, Tail(left), Sym(Mixed(g, z), ck1, Key(ck1, 0), 1)), <<x, z>>)
<1> DEFINE c1 == Ct(k, n, h, s)
           h1 == Mixed(h, c1)
           rest == Tail(left)
           key == Key(ck1, 0)
           c2 == Ct(key, 0, h1, pt)
           hs == Hs(i, s, e, rs, re, left, Sym(h, ck, k, n))
           a == Good(Hs(i, s, e, rs, re, rest, Sym(h, ck, k, n)), <<>>)
           b == Good(Hs(i, s, e, rs, re, rest, Sym(h1, ck, k, n + 1)), <<c1>>)
           c == Good(Hs(i, s, e, rs, re, rest, Sym(h1, ck1, key, 0)), <<c1>>)
<1>1. WriteMessage(hs, pt)
      = WritePart(WriteToken(WriteToken(Start(hs, <<>>), Head(hs.left)[1]), Head(hs.left)[2]), pt)
  BY Zenon DEF WriteMessage
<1>2. Start(hs, <<>>) = a /\ Head(hs.left)[1] = "s" /\ Head(hs.left)[2] = "se"
  BY Starts
<1>3. WriteToken(a, "s") = b
  <2>1. a.hs.s = s
    BY DEF St, Good, Hs
  <2>2. WriteToken(a, "s") = WritePart(a, a.hs.s)
    <3> HIDE DEF a
    <3>1. "s" # "e"
      OBVIOUS
    <3> QED BY <3>1, Zenon DEF WriteToken
  <2>3. WritePart(a, s) = Good(Hs(i, s, e, rs, re, rest, Sym(h1, ck, k, n + 1)), Append(<<>>, c1))
    <3> DEFINE none == <<>>
    <3>1. WritePart(Good(Hs(i, s, e, rs, re, rest, Sym(h, ck, k, n)), none), s)
          = Good(Hs(i, s, e, rs, re, rest, Sym(h1, ck, k, n + 1)), Append(none, c1))
      <4> HIDE DEF rest, none
      <4> QED BY WritesPart
    <3> QED BY <3>1, Zenon
  <2>4. Append(<<>>, c1) = <<c1>>
    <3> HIDE DEF c1
    <3> QED OBVIOUS
  <2> HIDE DEF a, c1, h1, rest
  <2> QED BY <2>1, <2>2, <2>3, <2>4, Zenon
<1>4. WriteToken(b, "se") = c
  <2>1. "se" \in DhTokens
    BY DEF DhTokens
  <2>2. DhPair(Hs(i, s, e, rs, re, rest, Sym(h1, ck, k, n + 1)), "se") = pair
    <3>1. g = h1
      BY Zenon
    <3> HIDE DEF h1
    <3> QED BY <3>1, Zenon
  <2> HIDE DEF h1, c1, rest
  <2>3. WriteToken(b, "se") = Good(Hs(i, s, e, rs, re, rest, Sym(h1, Grown(ck, pair), Key(Grown(ck, pair), 0), 0)), <<c1>>)
    BY <2>1, <2>2, WritesDh
  <2> QED BY <2>3, Zenon
<1>5. WritePart(c, pt) = Good(Hs(i, s, e, rs, re, rest, Sym(Mixed(h1, c2), ck1, key, 0 + 1)), Append(<<c1>>, c2))
  <2>1. key # NoKey
    BY DEF Key, NoKey
  <2>2. 0 \in Nat /\ 0 < MaxNonce
    BY NoiseAssumption
  <2> HIDE DEF key, h1, rest, c1
  <2> QED BY <2>1, <2>2, WritesPart
<1>6. Append(<<c1>>, c2) = <<c1, c2>>
  <2> HIDE DEF c1, c2
  <2> QED BY AppendTo1
<1>7. 0 + 1 = 1
  OBVIOUS
<1> HIDE DEF hs, a, b, c, c1, c2, h1
<1>8. WriteMessage(hs, pt) = Good(Hs(i, s, e, rs, re, rest, Sym(Mixed(h1, c2), ck1, key, 1)), <<c1, c2>>)
  BY <1>1, <1>2, <1>3, <1>4, <1>5, <1>6, <1>7, Zenon
<1>9. c1 = Ct(k, n, h, s) /\ h1 = Mixed(h, c1) /\ c2 = Ct(Key(ck1, 0), 0, h1, pt)
  BY Zenon DEF c1, h1, c2
<1> QED BY <1>8, <1>9, Zenon DEF hs

\* a token "e" is read without a check
LEMMA ReadsE ==
  ASSUME NEW i, NEW s, NEW e, NEW rs, NEW re, NEW left, NEW h, NEW ck, NEW k, NEW n, NEW w,
         w.hs = Hs(i, s, e, rs, re, left, Sym(h, ck, k, n)), NEW v, v = ReadToken(w, "e")
  PROVE  /\ v.hs = Hs(i, s, e, rs, AsKey(NextPart(w)), left, Sym(Mixed(h, NextPart(w)), ck, k, n))
         /\ v.parts = Rest(w) /\ v.ok = w.ok
<1> DEFINE y == Sym(h, ck, k, n)
           p == NextPart(w)
           r == AsKey(p)
           z == Sym(Mixed(h, p), ck, k, n)
<1>0. w.hs = Hs(i, s, e, rs, re, left, y)
  OBVIOUS
<1>1. w.hs.y = y
  <2> HIDE DEF y
  <2> QED BY <1>0 DEF Hs
<1>2. MixHash(y, p) = z
  BY MixesHash
<1>3. v = [ok |-> w.ok, parts |-> Rest(w), hs |-> [w.hs EXCEPT !.re = r, !.y = MixHash(w.hs.y, p)]]
  BY Zenon DEF ReadToken, ReadE
<1>4. [w.hs EXCEPT !.re = r, !.y = z] = Hs(i, s, e, rs, r, left, z)
  <2> HIDE DEF y, z, r, p
  <2> DEFINE hs1 == [w.hs EXCEPT !.re = r]
  <2>1. hs1 = Hs(i, s, e, rs, r, left, y)
    BY <1>0 DEF Hs
  <2>2. [hs1 EXCEPT !.y = z] = Hs(i, s, e, rs, r, left, z)
    <3> HIDE DEF hs1
    <3> QED BY <2>1 DEF Hs
  <2>3. [w.hs EXCEPT !.re = r, !.y = z] = [hs1 EXCEPT !.y = z]
    OBVIOUS
  <2> HIDE DEF hs1
  <2> QED BY <2>2, <2>3
<1> DEFINE g == Hs(i, s, e, rs, r, left, z)
           q == Rest(w)
           o == w.ok
<1> HIDE DEF y, z, r, p, g, q, o
<1>5. v = [ok |-> o, parts |-> q, hs |-> g]
  BY <1>1, <1>2, <1>3, <1>4, Zenon DEF g, q, o
<1>6. v.hs = g /\ v.parts = q /\ v.ok = o
  BY <1>5
<1> QED BY <1>6 DEF g, q, o, z, r, p

\* decrypting succeeds only on a ciphertext with the same key, nonce and data
LEMMA DecryptsKeyed ==
  ASSUME NEW k, k # NoKey, NEW n \in Nat, n < MaxNonce, NEW ad, NEW ct, NEW d,
         d = DecryptWithAd([k |-> k, n |-> n], ad, ct), d.ok
  PROVE  /\ ct.k = k /\ ct.n = n /\ ct.ad = ad
         /\ d.c = [k |-> k, n |-> n + 1] /\ d.pt = ct.pt
<1> DEFINE c == [k |-> k, n |-> n]
           c1 == [k |-> k, n |-> n + 1]
<1>1. c.n # MaxNonce /\ c.k = k /\ c.n = n
  BY NoiseAssumption
<1>2. [c EXCEPT !.n = @ + 1] = c1
  OBVIOUS
<1> HIDE DEF c, c1
<1>3. d = IF ~Authentic(c, ad, ct) THEN [ok |-> FALSE, c |-> c, pt |-> Junk]
          ELSE [ok |-> TRUE, c |-> c1, pt |-> ct.pt]
  BY <1>1, <1>2, Zenon DEF DecryptWithAd, HasKey, c
<1>4. Authentic(c, ad, ct)
  BY <1>3
<1>5. d = [ok |-> TRUE, c |-> c1, pt |-> ct.pt]
  BY <1>3, <1>4
<1> QED BY <1>1, <1>4, <1>5 DEF Authentic, c1

\* decrypt_and_hash with a key
LEMMA ReadsPart ==
  ASSUME NEW i, NEW s, NEW e, NEW rs, NEW re, NEW left, NEW h, NEW ck, NEW k, NEW n \in Nat, NEW w,
         k # NoKey, n < MaxNonce, w.hs = Hs(i, s, e, rs, re, left, Sym(h, ck, k, n)),
         NEW v, v = ReadPart(w), v.ok
  PROVE  /\ w.ok
         /\ NextPart(w).k = k /\ NextPart(w).n = n /\ NextPart(w).ad = h /\ v.pt = NextPart(w).pt
         /\ v.hs = Hs(i, s, e, rs, re, left, Sym(Mixed(h, NextPart(w)), ck, k, n + 1))
         /\ v.parts = Rest(w)
<1> DEFINE p == NextPart(w)
           y == Sym(h, ck, k, n)
           x == DecryptWithAd(w.hs.y.c, w.hs.y.h, p)
           c2 == [k |-> k, n |-> n + 1]
           y2 == Sym(h, ck, k, n + 1)
           z == Sym(Mixed(h, p), ck, k, n + 1)
           g == Hs(i, s, e, rs, re, left, z)
<1>0. w.hs = Hs(i, s, e, rs, re, left, y)
  OBVIOUS
<1>1. w.hs.y = y
  <2> HIDE DEF y
  <2> QED BY <1>0 DEF Hs
<1>2. y.c = [k |-> k, n |-> n] /\ y.h = h
  BY DEF Sym
<1>3. v = [ok |-> w.ok /\ x.ok, pt |-> x.pt, parts |-> Rest(w),
           hs |-> [w.hs EXCEPT !.y = MixHash([w.hs.y EXCEPT !.c = x.c], p)]]
  BY Zenon DEF ReadPart
<1>4. w.ok /\ x.ok
  <2> DEFINE o == w.ok /\ x.ok
             f1 == x.pt
             f2 == Rest(w)
             f3 == [w.hs EXCEPT !.y = MixHash([w.hs.y EXCEPT !.c = x.c], p)]
  <2>1. v = [ok |-> o, pt |-> f1, parts |-> f2, hs |-> f3]
    BY <1>3, Zenon
  <2>2. o
    <3> HIDE DEF o, f1, f2, f3
    <3>1. v.ok = o
      BY <2>1
    <3> QED BY <3>1
  <2> HIDE DEF x
  <2> QED BY <2>2
<1>5. x = DecryptWithAd([k |-> k, n |-> n], h, p)
  <2> HIDE DEF y, p
  <2> QED BY <1>1, <1>2, Zenon
<1>6. p.k = k /\ p.n = n /\ p.ad = h /\ x.c = c2 /\ x.pt = p.pt
  <2> HIDE DEF x, p
  <2> QED BY <1>4, <1>5, DecryptsKeyed
<1>7. [y EXCEPT !.c = c2] = y2
  BY DEF Sym
<1>8. MixHash(y2, p) = z
  BY MixesHash
<1>9. [w.hs EXCEPT !.y = z] = g
  <2> HIDE DEF z, y
  <2> QED BY <1>0 DEF Hs
<1> HIDE DEF p, y, x, c2, y2, z, g
<1>10. [w.hs EXCEPT !.y = MixHash([w.hs.y EXCEPT !.c = x.c], p)] = g
  BY <1>1, <1>6, <1>7, <1>8, <1>9, Zenon
<1>11. v.pt = x.pt /\ v.hs = g /\ v.parts = Rest(w)
  BY <1>3, <1>10
<1> QED BY <1>4, <1>6, <1>11 DEF p, g, z

LEMMA ReadsS ==
  ASSUME NEW i, NEW s, NEW e, NEW rs, NEW re, NEW left, NEW h, NEW ck, NEW k, NEW n \in Nat, NEW w,
         k # NoKey, n < MaxNonce, w.hs = Hs(i, s, e, rs, re, left, Sym(h, ck, k, n)),
         NEW v, v = ReadToken(w, "s"), v.ok
  PROVE  /\ w.ok
         /\ v.hs = Hs(i, s, e, NextPart(w).pt, re, left, Sym(Mixed(h, NextPart(w)), ck, k, n + 1))
         /\ v.parts = Rest(w)
<1> DEFINE r == ReadPart(w)
           p == NextPart(w)
           z == Sym(Mixed(h, p), ck, k, n + 1)
           pt == p.pt
<1>1. "s" # "e"
  OBVIOUS
<1>2. v = [ok |-> r.ok, hs |-> [r.hs EXCEPT !.rs = r.pt], parts |-> r.parts]
  BY <1>1, Zenon DEF ReadToken, ReadS
<1>3. r.ok
  <2> HIDE DEF r
  <2> QED BY <1>2
<1>4. w.ok /\ r.pt = pt /\ r.hs = Hs(i, s, e, rs, re, left, z) /\ r.parts = Rest(w)
  <2>1. r = ReadPart(w)
    OBVIOUS
  <2> HIDE DEF r
  <2> QED BY <1>3, <2>1, ReadsPart
<1> HIDE DEF r, z, pt, p
<1>5. [r.hs EXCEPT !.rs = r.pt] = Hs(i, s, e, pt, re, left, z)
  BY <1>4 DEF Hs
<1>6. v.hs = Hs(i, s, e, pt, re, left, z) /\ v.parts = r.parts
  <2> DEFINE g == Hs(i, s, e, pt, re, left, z)
  <2> HIDE DEF g
  <2> QED BY <1>2, <1>5 DEF g
<1> QED BY <1>4, <1>6 DEF pt, z, p

LEMMA ReadsDh ==
  ASSUME NEW i, NEW s, NEW e, NEW rs, NEW re, NEW left, NEW h, NEW ck, NEW k, NEW n, NEW w,
         NEW token \in DhTokens, NEW pair,
         DhPair(Hs(i, s, e, rs, re, left, Sym(h, ck, k, n)), token) = pair,
         w.hs = Hs(i, s, e, rs, re, left, Sym(h, ck, k, n)),
         NEW u, u = ReadToken(w, token)
  PROVE  /\ u.hs = Hs(i, s, e, rs, re, left, Sym(h, Grown(ck, pair), Key(Grown(ck, pair), 0), 0))
         /\ u.ok = w.ok /\ u.parts = w.parts
<1> DEFINE g == Hs(i, s, e, rs, re, left, Sym(h, Grown(ck, pair), Key(Grown(ck, pair), 0), 0))
<1>1. u = St(w.ok, g, w.parts)
  BY MixesDh
<1> HIDE DEF g
<1>2. u.hs = g /\ u.ok = w.ok /\ u.parts = w.parts
  BY <1>1 DEF St
<1> QED BY <1>2 DEF g

\* a token mixes own with the key that was read
MixesRead(i, s, e, rs, left, token, own, ck) ==
    /\ \A x, y : DhPair(Hs(i, s, e, rs, x, left, y), token) = {own, x}
    /\ \A x : Grown(ck, {own, x}) # <<>>
MixesStatic(i, s, e, re, left, own, ck) ==
    /\ \A x, y : DhPair(Hs(i, s, e, x, re, left, y), "se") = {own, x}
    /\ \A x : Grown(ck, {own, x}) # <<>>

\* what reading a message with an ephemeral, a static key comes to
EphemeralRead(r, i, s, e, rs, left, h, ck, own) ==
    \E x, a, b : r.hs = Hs(i, s, e, rs, x, left,
                           Sym(Mixed(Mixed(h, a), b), Grown(ck, {own, x}), Key(Grown(ck, {own, x}), 0), 1))
StaticRead(r, i, s, e, re, left, h, ck, own, m) ==
    \E x, h1, b :
        /\ IsSeq(h) => IsSeq(h1)
        /\ r.hs = Hs(i, s, e, x, re, left, Sym(Mixed(h1, b), Grown(ck, {own, x}), Key(Grown(ck, {own, x}), 0), 1))
        /\ b.k = Key(Grown(ck, {own, x}), 0) /\ b.n = 0 /\ b.ad = h1 /\ b.pt = r.pt
        /\ b \in Parts(m)

\* a message with an ephemeral, with a static key that was read
LEMMA ReadsEphemeral ==
  ASSUME NEW i, NEW s, NEW e, NEW rs, NEW re, NEW left, NEW h, NEW ck, NEW k, NEW n,
         NEW token \in DhTokens, Head(left) = <<"e", token>>, NEW own,
         MixesRead(i, s, e, rs, Tail(left), token, own, ck),
         NEW hs, hs = Hs(i, s, e, rs, re, left, Sym(h, ck, k, n)),
         NEW m, NEW r, r = ReadMessage(hs, m), r.ok
  PROVE  EphemeralRead(r, i, s, e, rs, Tail(left), h, ck, own)
<1> DEFINE rest == Tail(left)
           w == Good(Hs(i, s, e, rs, re, rest, Sym(h, ck, k, n)), m)
           v == ReadToken(w, "e")
           a == NextPart(w)
           x == AsKey(a)
           h1 == Mixed(h, a)
           u == ReadToken(v, token)
           ck1 == Grown(ck, {own, x})
           key == Key(ck1, 0)
           b == NextPart(u)
<1>1. r = ReadPart(ReadToken(ReadToken(Start(hs, m), Head(hs.left)[1]), Head(hs.left)[2]))
  BY Zenon DEF ReadMessage
<1>2. Start(hs, m) = w /\ Head(hs.left)[1] = "e" /\ Head(hs.left)[2] = token
  <2> DEFINE y == Sym(h, ck, k, n)
             t1 == "e"
             t2 == token
  <2>1. hs = Hs(i, s, e, rs, re, left, y) /\ Head(left) = <<t1, t2>>
    OBVIOUS
  <2>2. /\ Start(hs, m) = Good(Hs(i, s, e, rs, re, Tail(left), y), m)
        /\ Head(hs.left)[1] = t1 /\ Head(hs.left)[2] = t2
    <3>0. Head(left) = <<t1, t2>>
      OBVIOUS
    <3> HIDE DEF y, t1, t2
    <3>1. Start(hs, m) = Good(Hs(i, s, e, rs, re, Tail(left), y), m)
      BY <2>1, StartsAs
    <3>2. hs.left = left
      BY <2>1 DEF Hs
    <3> DEFINE hd == Head(left)
    <3>3. hd = <<t1, t2>>
      BY <2>1
    <3> HIDE DEF hd
    <3>4. hd[1] = t1 /\ hd[2] = t2
      BY <3>3
    <3> QED BY <3>1, <3>2, <3>4 DEF hd
  <2> QED BY <2>2, Zenon
<1>3. r = ReadPart(u)
  <2> HIDE DEF w
  <2> QED BY <1>1, <1>2, Zenon
<1>4. w.hs = Hs(i, s, e, rs, re, rest, Sym(h, ck, k, n))
  <2> DEFINE g == Hs(i, s, e, rs, re, rest, Sym(h, ck, k, n))
  <2> HIDE DEF g
  <2>1. w = Good(g, m)
    BY DEF g
  <2>2. w.hs = g
    BY <2>1 DEF Good
  <2> QED BY <2>2 DEF g
<1>5. v.hs = Hs(i, s, e, rs, x, rest, Sym(h1, ck, k, n))
  <2>1. v = ReadToken(w, "e")
    OBVIOUS
  <2> HIDE DEF w, v, rest
  <2> QED BY <1>4, <2>1, ReadsE
<1>6. u.hs = Hs(i, s, e, rs, x, rest, Sym(h1, ck1, key, 0))
  <2>1. token \in DhTokens
    OBVIOUS
  <2>2. DhPair(Hs(i, s, e, rs, x, rest, Sym(h1, ck, k, n)), token) = {own, x}
    <3> HIDE DEF x, h1
    <3> QED BY DEF MixesRead
  <2> DEFINE pair == {own, x}
  <2>3. u.hs = Hs(i, s, e, rs, x, rest, Sym(h1, Grown(ck, pair), Key(Grown(ck, pair), 0), 0))
    <3>1. DhPair(Hs(i, s, e, rs, x, rest, Sym(h1, ck, k, n)), token) = pair /\ u = ReadToken(v, token)
      BY <2>2, Zenon
    <3> HIDE DEF u, v, x, h1, pair, rest
    <3> QED BY <1>5, <2>1, <3>1, ReadsDh
  <2> QED BY <2>3, Zenon
<1>7. r.hs = Hs(i, s, e, rs, x, rest, Sym(Mixed(h1, b), ck1, key, 0 + 1))
  <2>1. key # NoKey
    <3>1. ck1 # <<>>
      <4> HIDE DEF x
      <4> QED BY DEF MixesRead
    <3> HIDE DEF ck1
    <3> QED BY <3>1 DEF Key, NoKey
  <2>2. 0 \in Nat /\ 0 < MaxNonce
    BY NoiseAssumption
  <2> HIDE DEF u, h1, x, rest, ck1, key
  <2> QED BY <1>3, <1>6, <2>1, <2>2, ReadsPart
<1>8. 0 + 1 = 1
  OBVIOUS
<1>9. r.hs = Hs(i, s, e, rs, x, rest, Sym(Mixed(h1, b), ck1, key, 1))
  <2> HIDE DEF x, h1, b, ck1, key, rest
  <2> QED BY <1>7, <1>8, Zenon
<1>10. r.hs = Hs(i, s, e, rs, x, Tail(left), Sym(Mixed(Mixed(h, a), b), Grown(ck, {own, x}), Key(Grown(ck, {own, x}), 0), 1))
  <2> HIDE DEF a, b, x
  <2> QED BY <1>9, Zenon
<1> HIDE DEF a, b, x
<1> QED BY <1>10, Zenon DEF EphemeralRead

LEMMA ReadsStatic ==
  ASSUME NEW i, NEW s, NEW e, NEW rs, NEW re, NEW left, NEW h, NEW ck, NEW k, NEW n \in Nat,
         k # NoKey, n < MaxNonce, Head(left) = <<"s", "se">>, NEW own,
         MixesStatic(i, s, e, re, Tail(left), own, ck),
         NEW hs, hs = Hs(i, s, e, rs, re, left, Sym(h, ck, k, n)),
         NEW S, NEW m \in Seq(S), NEW r, r = ReadMessage(hs, m), r.ok
  PROVE  StaticRead(r, i, s, e, re, Tail(left), h, ck, own, m)
<1> DEFINE rest == Tail(left)
           w == Good(Hs(i, s, e, rs, re, rest, Sym(h, ck, k, n)), m)
           v == ReadToken(w, "s")
           a == NextPart(w)
           x == a.pt
           h1 == Mixed(h, a)
           u == ReadToken(v, "se")
           ck1 == Grown(ck, {own, x})
           key == Key(ck1, 0)
           b == NextPart(u)
<1>1. r = ReadPart(ReadToken(ReadToken(Start(hs, m), Head(hs.left)[1]), Head(hs.left)[2]))
  BY Zenon DEF ReadMessage
<1>2. Start(hs, m) = w /\ Head(hs.left)[1] = "s" /\ Head(hs.left)[2] = "se"
  <2> DEFINE y == Sym(h, ck, k, n)
             t1 == "s"
             t2 == "se"
  <2>1. hs = Hs(i, s, e, rs, re, left, y) /\ Head(left) = <<t1, t2>>
    OBVIOUS
  <2>2. /\ Start(hs, m) = Good(Hs(i, s, e, rs, re, Tail(left), y), m)
        /\ Head(hs.left)[1] = t1 /\ Head(hs.left)[2] = t2
    <3>0. Head(left) = <<t1, t2>>
      OBVIOUS
    <3> HIDE DEF y, t1, t2
    <3>1. Start(hs, m) = Good(Hs(i, s, e, rs, re, Tail(left), y), m)
      BY <2>1, StartsAs
    <3>2. hs.left = left
      BY <2>1 DEF Hs
    <3> DEFINE hd == Head(left)
    <3>3. hd = <<t1, t2>>
      BY <2>1
    <3> HIDE DEF hd
    <3>4. hd[1] = t1 /\ hd[2] = t2
      BY <3>3
    <3> QED BY <3>1, <3>2, <3>4 DEF hd
  <2> QED BY <2>2, Zenon
<1>3. r = ReadPart(u)
  <2> HIDE DEF w
  <2> QED BY <1>1, <1>2, Zenon
<1>4. w.hs = Hs(i, s, e, rs, re, rest, Sym(h, ck, k, n)) /\ w.parts = m
  <2> DEFINE g == Hs(i, s, e, rs, re, rest, Sym(h, ck, k, n))
  <2> HIDE DEF g
  <2>1. w = Good(g, m)
    BY DEF g
  <2>2. w.hs = g /\ w.parts = m
    BY <2>1 DEF Good
  <2> QED BY <2>2 DEF g
<1>5. MixDh(v, "se").ok = v.ok /\ MixDh(v, "se").parts = v.parts
  <2> DEFINE g == [v.hs EXCEPT !.y = MixKey(v.hs.y, DhPair(v.hs, "se"))]
             z == MixDh(v, "se")
  <2>1. z = [ok |-> v.ok, hs |-> g, parts |-> v.parts]
    <3> HIDE DEF v
    <3> QED BY Zenon DEF MixDh
  <2> HIDE DEF z, v, g
  <2>2. z.ok = v.ok /\ z.parts = v.parts
    BY <2>1
  <2> QED BY <2>2 DEF z
<1>6. u.ok = v.ok /\ u.parts = v.parts
  <2>1. "se" # "e" /\ "se" # "s"
    OBVIOUS
  <2>2. u = MixDh(v, "se")
    <3> HIDE DEF v
    <3> QED BY <2>1, Zenon DEF ReadToken
  <2> HIDE DEF u, v
  <2> QED BY <1>5, <2>2, Zenon
<1>7. key # NoKey
  <2>1. ck1 # <<>>
    <3> HIDE DEF x
    <3> QED BY DEF MixesStatic
  <2> HIDE DEF ck1
  <2> QED BY <2>1 DEF Key, NoKey
<1>8. u.ok
  <2> DEFINE d == DecryptWithAd(u.hs.y.c, u.hs.y.h, b)
             o == u.ok /\ d.ok
             f1 == d.pt
             f2 == Rest(u)
             f3 == [u.hs EXCEPT !.y = MixHash([u.hs.y EXCEPT !.c = d.c], b)]
  <2>1. r = [ok |-> o, pt |-> f1, parts |-> f2, hs |-> f3]
    <3> HIDE DEF u
    <3> QED BY <1>3, Zenon DEF ReadPart
  <2>2. o
    <3> HIDE DEF o, f1, f2, f3
    <3>1. r.ok = o
      BY <2>1
    <3> QED BY <3>1
  <2> HIDE DEF u, d
  <2> QED BY <2>2
<1>9. v.ok
  <2> HIDE DEF u, v
  <2> QED BY <1>6, <1>8
<1>10. v.hs = Hs(i, s, e, x, re, rest, Sym(h1, ck, k, n + 1)) /\ v.parts = Rest(w)
  <2>1. v = ReadToken(w, "s")
    OBVIOUS
  <2> HIDE DEF w, v, rest
  <2> QED BY <1>4, <1>9, <2>1, ReadsS
<1>11. u.hs = Hs(i, s, e, x, re, rest, Sym(h1, ck1, key, 0))
  <2>1. "se" \in DhTokens
    BY DEF DhTokens
  <2>2. DhPair(Hs(i, s, e, x, re, rest, Sym(h1, ck, k, n + 1)), "se") = {own, x}
    <3> HIDE DEF x, h1
    <3> QED BY DEF MixesStatic
  <2> DEFINE pair == {own, x}
             n1 == n + 1
             token == "se"
  <2>3. u.hs = Hs(i, s, e, x, re, rest, Sym(h1, Grown(ck, pair), Key(Grown(ck, pair), 0), 0))
    <3>1. DhPair(Hs(i, s, e, x, re, rest, Sym(h1, ck, k, n1)), token) = pair /\ u = ReadToken(v, token)
          /\ token \in DhTokens /\ v.hs = Hs(i, s, e, x, re, rest, Sym(h1, ck, k, n1))
      BY <1>10, <2>1, <2>2, Zenon
    <3> HIDE DEF u, v, x, h1, pair, rest, n1, token
    <3> QED BY <3>1, ReadsDh
  <2> QED BY <2>3, Zenon
<1>12. /\ b.k = key /\ b.n = 0 /\ b.ad = h1 /\ b.pt = r.pt
       /\ r.hs = Hs(i, s, e, x, re, rest, Sym(Mixed(h1, b), ck1, key, 0 + 1))
  <2>1. 0 \in Nat /\ 0 < MaxNonce
    BY NoiseAssumption
  <2> HIDE DEF u, h1, x, rest, ck1, key
  <2> QED BY <1>3, <1>7, <1>11, <2>1, ReadsPart
<1>13. b \in Parts(m)
  <2>1. u.parts = IF m = <<>> THEN <<>> ELSE Tail(m)
    <3> HIDE DEF u, v, w
    <3> QED BY <1>4, <1>6, <1>10, Zenon DEF Rest
  <2> DEFINE q == u.parts
  <2>2. b = IF q = <<>> THEN Clear(Junk) ELSE Head(q)
    <3> HIDE DEF u
    <3> QED BY Zenon DEF NextPart
  <2>3. q # <<>>
    <3> HIDE DEF q, b, key
    <3>1. SUFFICES ASSUME q = <<>> PROVE FALSE
      OBVIOUS
    <3>2. b = Clear(Junk)
      BY <2>2, <3>1
    <3>3. b.k = NoKey
      BY <3>2 DEF Clear
    <3> QED BY <1>7, <1>12, <3>3
  <2> HIDE DEF q, b
  <2>4. q = Tail(m) /\ m # <<>>
    BY <2>1, <2>3 DEF q
  <2>5. Len(m) \in Nat /\ Tail(m) \in Seq(S) /\ Len(Tail(m)) = Len(m) - 1
    BY <2>4
  <2>6. b = Head(Tail(m)) /\ Tail(m) # <<>>
    BY <2>2, <2>3, <2>4
  <2>7. Len(m) >= 2
    BY <2>5, <2>6
  <2>8. Head(Tail(m)) = m[2] /\ 2 \in DOMAIN m
    BY <2>5, <2>6, <2>7
  <2>9. b = m[2] /\ 2 \in DOMAIN m
    BY <2>6, <2>8
  <2> QED BY <2>9, Zenon DEF Parts
<1>14. 0 + 1 = 1
  OBVIOUS
<1>15. r.hs = Hs(i, s, e, x, re, rest, Sym(Mixed(h1, b), ck1, key, 1))
  <2> HIDE DEF x, h1, b, ck1, key, rest
  <2> QED BY <1>12, <1>14, Zenon
<1>16. IsSeq(h) => IsSeq(h1)
  <2> HIDE DEF a
  <2> QED BY MixedIsSeq
<1>17. /\ r.hs = Hs(i, s, e, x, re, Tail(left), Sym(Mixed(h1, b), Grown(ck, {own, x}), Key(Grown(ck, {own, x}), 0), 1))
       /\ b.k = Key(Grown(ck, {own, x}), 0)
  <2> HIDE DEF a, b, x, h1
  <2> QED BY <1>12, <1>15, Zenon
<1> HIDE DEF a, b, x, h1
<1>18. /\ IsSeq(h) => IsSeq(h1)
       /\ r.hs = Hs(i, s, e, x, re, Tail(left),
                    Sym(Mixed(h1, b), Grown(ck, {own, x}), Key(Grown(ck, {own, x}), 0), 1))
       /\ b.k = Key(Grown(ck, {own, x}), 0) /\ b.n = 0 /\ b.ad = h1 /\ b.pt = r.pt
       /\ b \in Parts(m)
  BY <1>12, <1>13, <1>16, <1>17, Zenon
<1> HIDE DEF u, v, w, key, ck1, rest
<1> QED BY <1>18, Zenon DEF StaticRead

PhoneCk1(p) == <<{p, HostKey}>>
PhoneCk2(p, r) == <<{p, HostKey}, {p, r}>>
PhoneCk3(p, r) == <<{p, HostKey}, {p, r}, {PhoneKey, r}>>
HostCk1(r) == <<{HostKey, r}>>
HostCk2(h, r) == <<{HostKey, r}, {h, r}>>
HostCk3(h, r, x) == <<{HostKey, r}, {h, r}, {h, x}>>

\* of a pair, one key and the pair tell the other
LEMMA Cancels ==
  ASSUME NEW a, NEW b, NEW c, {a, b} = {a, c} \/ {a, b} = {c, a} \/ {b, a} = {a, c} \/ {b, a} = {c, a}
  PROVE  b = c
OBVIOUS

\* a derived key tells its chaining key and its output; a chaining key what was
\* mixed into it
LEMMA KeysDiffer ==
  ASSUME NEW ck, NEW out, NEW ck2, NEW out2, Key(ck, out) = Key(ck2, out2)
  PROVE  ck = ck2 /\ out = out2
BY DEF Key

LEMMA Pairs3 ==
  ASSUME NEW a, NEW a2, NEW b, NEW b2, NEW c, NEW c2, <<a, b, c>> = <<a2, b2, c2>>
  PROVE  a = a2 /\ b = b2 /\ c = c2
OBVIOUS

LEMMA Lens ==
  ASSUME NEW a, NEW a2, NEW b, NEW b2, NEW c, NEW a3
  PROVE  /\ <<a>> # <<a2, b2>> /\ <<a>> # <<a2, b, c>> /\ <<a2, b2>> # <<a3, b, c>>
         /\ <<a>> # <<>> /\ <<a, b>> # <<>> /\ <<a, b, c>> # <<>>
OBVIOUS

(***************************************************************************)
(* Encrypting the records of a message.                                    *)
(***************************************************************************)

\* a set of numbers that is not empty has a least one
LEMMA LeastOf ==
    ASSUME NEW S, S \subseteq Nat, S # {}
    PROVE  \E least \in S : \A x \in S : least <= x
<1> DEFINE R == OpToRel(<, Nat)
<1>1. \A x, y \in Nat : <<x, y>> \in R <=> x < y
  BY DEF OpToRel
<1>2. IsWellFoundedOn(R, Nat)
  BY NatLessThanWellFounded
<1> HIDE DEF R
<1>3. PICK least \in S : \A x \in S : ~(<<x, least>> \in R)
  BY <1>2, WFMin
<1>4. \A x \in S : ~(x < least)
  BY <1>1, <1>3
<1> QED
  BY <1>4

EncryptNext(p, r) ==
    LET x == Encrypt(p.c, r)
    IN [ok |-> p.ok /\ x.ok, c |-> x.c, out |-> Append(p.out, x.ct)]
EncryptFirst(c) == [ok |-> TRUE, c |-> c, out |-> <<>>]

StepsTo(f, c, records, n) ==
    f = [i \in 0 .. n |-> IF i = 0 THEN EncryptFirst(c) ELSE EncryptNext(f[i - 1], records[i])]

\* EncryptSteps is the function its recursion describes
LEMMA EncryptStepsAre ==
    ASSUME NEW c, NEW records, Len(records) \in Nat
    PROVE  StepsTo(EncryptSteps(c, records), c, records, Len(records))
<1> DEFINE N == Len(records)
           first == EncryptFirst(c)
           next(p, m) == EncryptNext(p, records[m])
           bad == {n \in 0 .. N : ~ \E f : StepsTo(f, c, records, n)}
<1>1. ASSUME bad # {} PROVE FALSE
  <2>1. PICK n \in bad : \A x \in bad : n <= x
    <3>1. bad \subseteq Nat
      OBVIOUS
    <3> HIDE DEF bad
    <3> QED
      BY <1>1, <3>1, LeastOf
  <2>2. n # 0
    <3>1. SUFFICES ASSUME n = 0 PROVE FALSE
      OBVIOUS
    <3> DEFINE g == [m \in 0 .. 0 |-> first]
    <3>2. g = [m \in 0 .. 0 |-> IF m = 0 THEN first ELSE next(g[m - 1], m)]
      <4>1. \A m \in 0 .. 0 : m = 0
        OBVIOUS
      <4> HIDE DEF first, next
      <4> QED
        BY <4>1
    <3> HIDE DEF g
    <3>3. StepsTo(g, c, records, 0)
      BY <3>2, Zenon DEF StepsTo
    <3> QED
      BY <2>1, <3>1, <3>3
  <2>3. n \in Nat /\ n <= N /\ n - 1 \in 0 .. N /\ n - 1 \notin bad
    BY <2>1, <2>2
  <2>4. PICK f : StepsTo(f, c, records, n - 1)
    BY <2>3
  <2> DEFINE g == [m \in 0 .. n |-> IF m = n THEN next(f[n - 1], n) ELSE f[m]]
  <2>5. \A m \in 0 .. n - 1 : f[m] = IF m = 0 THEN first ELSE next(f[m - 1], m)
    <3>1. f = [m \in 0 .. n - 1 |-> IF m = 0 THEN first ELSE next(f[m - 1], m)]
      BY <2>4 DEF StepsTo
    <3> HIDE DEF first, next
    <3> QED
      BY <3>1
  <2> HIDE DEF first, next
  <2>6. \A m \in 0 .. n : g[m] = IF m = 0 THEN first ELSE next(g[m - 1], m)
    <3>1. TAKE m \in 0 .. n
    <3>2. CASE m = n
      <4>1. g[m] = next(f[n - 1], n) /\ g[m - 1] = f[n - 1] /\ m # 0
        BY <3>2, <2>2, <2>3
      <4> HIDE DEF g
      <4> QED
        BY <4>1, <3>2
    <3>3. CASE m # n
      <4>1. m \in 0 .. n - 1 /\ (m # 0 => m - 1 \in 0 .. n /\ m - 1 # n)
        BY <3>3, <2>3
      <4>2. g[m] = f[m] /\ (m # 0 => g[m - 1] = f[m - 1])
        BY <3>3, <4>1
      <4> HIDE DEF g
      <4> QED
        BY <4>1, <4>2, <2>5
    <3> QED
      BY <3>2, <3>3
  <2>7. g = [m \in 0 .. n |-> IF m = 0 THEN first ELSE next(g[m - 1], m)]
    <3>1. g = [m \in 0 .. n |-> g[m]]
      OBVIOUS
    <3> HIDE DEF g
    <3> QED
      BY <3>1, <2>6
  <2> HIDE DEF g
  <2>8. StepsTo(g, c, records, n)
    BY <2>7 DEF StepsTo, first, next
  <2> QED
    BY <2>1, <2>8
<1>2. \E f : StepsTo(f, c, records, N)
  BY <1>1
<1>3. EncryptSteps(c, records) = CHOOSE f : StepsTo(f, c, records, N)
  BY Zenon DEF EncryptSteps, StepsTo, EncryptFirst, EncryptNext
<1> QED
  BY <1>2, <1>3

\* the ciphertexts of the records under the key k, from the nonce n on
EncryptGood(p, k, n, i, records) ==
    p.ok => /\ n + i <= MaxNonce
            /\ p.c = [k |-> k, n |-> n + i]
            /\ \E S : p.out \in Seq(S)
            /\ Len(p.out) = i
            /\ \A j \in 1 .. i : p.out[j] = Ct(k, n + j - 1, <<>>, records[j])

\* next_ciphertexts encrypts its records under consecutive nonces
LEMMA EncryptedIs ==
    ASSUME NEW k, k # NoKey, NEW n \in 0 .. MaxNonce, NEW records, Len(records) \in Nat
    PROVE  EncryptGood(Encrypted([k |-> k, n |-> n], records), k, n, Len(records), records)
<1> DEFINE N == Len(records)
           c == [k |-> k, n |-> n]
           f == EncryptSteps(c, records)
           bad == {i \in 0 .. N : ~EncryptGood(f[i], k, n, i, records)}
<1>0. MaxNonce \in Nat /\ n \in Nat
  BY NoiseAssumption
<1>1. \A i \in 0 .. N : f[i] = IF i = 0 THEN EncryptFirst(c) ELSE EncryptNext(f[i - 1], records[i])
  <2>1. StepsTo(f, c, records, N)
    BY EncryptStepsAre
  <2>2. f = [i \in 0 .. N |-> IF i = 0 THEN EncryptFirst(c) ELSE EncryptNext(f[i - 1], records[i])]
    BY <2>1, Zenon DEF StepsTo
  <2> HIDE DEF f, N, c
  <2> QED
    BY <2>2
<1>2. ASSUME bad # {} PROVE FALSE
  <2>1. PICK i \in bad : \A x \in bad : i <= x
    <3>1. bad \subseteq Nat
      OBVIOUS
    <3> HIDE DEF bad
    <3> QED
      BY <1>2, <3>1, LeastOf
  <2>2. i # 0
    <3>1. SUFFICES ASSUME i = 0 PROVE FALSE
      OBVIOUS
    <3>2. f[0] = EncryptFirst(c)
      <4> HIDE DEF f, c
      <4> QED
        BY <1>1
    <3>3. f[0].c = c /\ f[0].out = <<>>
      <4> HIDE DEF f, c
      <4> QED
        BY <3>2 DEF EncryptFirst
    <3>4. n + 0 = n
      BY <1>0
    <3>5. EncryptGood(f[0], k, n, 0, records)
      <4>1. <<>> \in Seq({}) /\ Len(<<>>) = 0
        OBVIOUS
      <4>2. f[0].c = [k |-> k, n |-> n + 0]
        BY <3>3, <3>4, Zenon
      <4> HIDE DEF f, c
      <4> QED
        BY <1>0, <3>3, <4>1, <4>2 DEF EncryptGood
    <3> HIDE DEF f
    <3> QED
      BY <2>1, <3>1, <3>5
  <2>3. i \in Nat /\ i \in 0 .. N /\ i - 1 \in 0 .. N /\ i - 1 \notin bad
    BY <2>1, <2>2
  <2> DEFINE p == f[i - 1]
             q == f[i]
             x == Encrypt(p.c, records[i])
  <2>4. EncryptGood(p, k, n, i - 1, records)
    <3> HIDE DEF f
    <3> QED
      BY <2>3
  <2>5. q = [ok |-> p.ok /\ x.ok, c |-> x.c, out |-> Append(p.out, x.ct)]
    <3>1. q = EncryptNext(p, records[i])
      <4> HIDE DEF f
      <4> QED
        BY <1>1, <2>2, <2>3
    <3> HIDE DEF f, q
    <3> QED
      BY <3>1, Zenon DEF EncryptNext
  <2> HIDE DEF q, p, f
  <2>6. ASSUME q.ok PROVE EncryptGood(q, k, n, i, records)
    <3> DEFINE ok == p.ok /\ x.ok
               o == Append(p.out, x.ct)
               x1 == x.c
    <3>1. q.ok = ok /\ q.c = x1 /\ q.out = o
      <4> HIDE DEF ok, o, x1
      <4>1. q = [ok |-> ok, c |-> x1, out |-> o]
        BY <2>5, Zenon DEF ok, o, x1
      <4> QED
        BY <4>1
    <3>2. p.ok /\ x.ok
      <4> HIDE DEF x
      <4> QED
        BY <2>6, <3>1
    <3> DEFINE n1 == n + (i - 1)
    <3>3. n1 \in Nat /\ n1 <= MaxNonce /\ p.c = [k |-> k, n |-> n1] /\ p.c.n = n1
      BY <1>0, <2>3, <2>4, <3>2 DEF EncryptGood
    <3>4. n1 # MaxNonce
      <4>1. SUFFICES ASSUME n1 = MaxNonce PROVE FALSE
        OBVIOUS
      <4>2. x = [ok |-> FALSE, c |-> p.c, ct |-> Clear(Junk)]
        <5> HIDE DEF n1
        <5> QED
          BY <3>3, <4>1, Zenon DEF Encrypt, EncryptWithAd
      <4> HIDE DEF x
      <4> QED
        BY <3>2, <4>2
    <3>5. x = [ok |-> TRUE, c |-> [k |-> k, n |-> n1 + 1], ct |-> Ct(k, n1, <<>>, records[i])]
      <4>1. n1 < MaxNonce
        BY <1>0, <3>3, <3>4
      <4> DEFINE no == <<>>
                 r == records[i]
      <4>2. EncryptWithAd([k |-> k, n |-> n1], no, r)
            = [ok |-> TRUE, c |-> [k |-> k, n |-> n1 + 1], ct |-> Ct(k, n1, no, r)]
        <5> HIDE DEF n1, no, r
        <5> QED
          BY <3>3, <4>1, EncryptsKeyed
      <4> HIDE DEF n1
      <4> QED
        BY <3>3, <4>2, Zenon DEF Encrypt
    <3> DEFINE ct == Ct(k, n1, <<>>, records[i])
               c2 == [k |-> k, n |-> n1 + 1]
    <3>6. x.c = c2 /\ x.ct = ct
      <4>1. x = [ok |-> TRUE, c |-> c2, ct |-> ct]
        BY <3>5, Zenon
      <4> HIDE DEF x, ct, c2
      <4> QED
        BY <4>1
    <3>7. PICK S : p.out \in Seq(S)
      BY <2>4, <3>2 DEF EncryptGood
    <3>8. Len(p.out) = i - 1 /\ \A j \in 1 .. i - 1 : p.out[j] = Ct(k, n + j - 1, <<>>, records[j])
      BY <2>4, <3>2 DEF EncryptGood
    <3>9. /\ o \in Seq(S \cup {ct}) /\ Len(o) = i /\ o[i] = ct
          /\ \A j \in 1 .. i - 1 : o[j] = p.out[j]
      <4>1. o = Append(p.out, ct)
        BY <3>6, Zenon
      <4> HIDE DEF ct, o
      <4>2. p.out \in Seq(S \cup {ct}) /\ ct \in S \cup {ct}
        BY <3>7
      <4> QED
        BY <2>3, <3>8, <4>1, <4>2
    <3>10. ct = Ct(k, n + i - 1, <<>>, records[i])
      <4>1. n1 = n + i - 1
        BY <1>0, <2>3
      <4> HIDE DEF n1
      <4> QED
        BY <4>1, Zenon
    <3>11. \A j \in 1 .. i : o[j] = Ct(k, n + j - 1, <<>>, records[j])
      <4> HIDE DEF o, ct
      <4>1. TAKE j \in 1 .. i
      <4>2. CASE j = i
        BY <3>9, <3>10, <4>2, Zenon
      <4>3. CASE j # i
        <5>1. j \in 1 .. i - 1
          BY <2>3, <4>3
        <5> QED
          BY <3>8, <3>9, <5>1, Zenon
      <4> QED
        BY <4>2, <4>3
    <3>12. n + i <= MaxNonce /\ n1 + 1 = n + i
      BY <1>0, <2>3, <3>3, <3>4
    <3>13. q.c = [k |-> k, n |-> n + i]
      <4> HIDE DEF x, n1
      <4> QED
        BY <3>1, <3>6, <3>12, Zenon
    <3> HIDE DEF o, ct
    <3>14. q.out \in Seq(S \cup {ct}) /\ Len(q.out) = i
           /\ \A j \in 1 .. i : q.out[j] = Ct(k, n + j - 1, <<>>, records[j])
      BY <3>1, <3>9, <3>11
    <3> QED
      BY <3>12, <3>13, <3>14, Zenon DEF EncryptGood
  <2>7. EncryptGood(q, k, n, i, records)
    <3>1. CASE q.ok
      BY <2>6, <3>1
    <3>2. CASE ~q.ok
      BY <3>2 DEF EncryptGood
    <3> QED
      BY <3>1, <3>2
  <2> QED
    BY <2>1, <2>7 DEF q
<1>3. EncryptGood(f[N], k, n, N, records)
  <2>1. N \in 0 .. N /\ N \notin bad
    BY <1>2
  <2> HIDE DEF f, N
  <2> QED
    BY <2>1
<1> QED
  BY <1>3, Zenon DEF Encrypted

(***************************************************************************)
(* The invariant of the channel: every ciphertext with a key was made by   *)
(* an end that owns the key (AllMade), no nonce was used twice, the last   *)
(* thing mixed into a binding is of the end that has it (Bindings), hosts  *)
(* agree with phones, and an open end stands where its handshake has       *)
(* brought it (Phase). A key tells the pairs that were mixed into it, and  *)
(* a pair one key from the other, so that two ends share a key only where  *)
(* both took part in it.                                                   *)
(***************************************************************************)

Initiator == TRUE
Responder == FALSE

\* the keys an end encrypts under
PhoneKeyOf(p, k) ==
    \/ k = Key(PhoneCk1(p), 0)
    \/ \E r : k \in {Key(PhoneCk2(p, r), 0), Key(PhoneCk3(p, r), 0), Key(PhoneCk3(p, r), 1)}
HostKeyOf(h, k) ==
    \/ \E r : k = Key(HostCk2(h, r), 0)
    \/ \E r, y : k = Key(HostCk3(h, r, y), 2)

Past(e, phases) == ch[e].closed \/ ch[e].next \notin phases
Late(e) == ch[e].closed \/ ch[e].next = "complete"

\* the ciphertext x is one p made, and what p has done by then
PhoneMade(p, x) ==
    \/ x.k = Key(PhoneCk1(p), 0) /\ x.n = 0 /\ Past(p, {"new", "write1"})
    \/ /\ Late(p)
       /\ \E r : \/ x.k = Key(PhoneCk2(p, r), 0) /\ x.n = 1
                 \/ /\ x.k = Key(PhoneCk3(p, r), 0) /\ x.n = 0 /\ IsSeq(x.ad)
                    /\ ch[p].binding = Mixed(x.ad, x)
                    /\ ch[p].peer = HostKey /\ ch[p].payload = x.pt
                 \/ x.k = Key(PhoneCk3(p, r), 1) /\ x.n \in Nat
HostMade(h, x) ==
    \/ x.n = 0 /\ Past(h, {"new", "read1", "write2"}) /\ \E r : x.k = Key(HostCk2(h, r), 0)
    \/ x.n \in Nat /\ Late(h) /\ \E r, y : x.k = Key(HostCk3(h, r, y), 2)

MadeBy(e, x) == IF e \in Phones THEN PhoneMade(e, x) ELSE HostMade(e, x)
KeyOf(e, k) == IF e \in Phones THEN PhoneKeyOf(e, k) ELSE HostKeyOf(e, k)

\* where an open end stands
SendsUnder(e, k) ==
    \E n \in 0 .. MaxNonce :
        /\ ch[e].enc = [k |-> k, n |-> n]
        /\ \A x \in Ciphertexts : x.k = k => x.n < n

PhonePhase(p) ==
    /\ ch[p].next \in {"new", "write1", "read2", "write3", "complete"}
    /\ ch[p].next = "write1" =>
        \E h : IsSeq(h) /\ ch[p].hs = Hs(Initiator, PhoneKey, p, HostKey, Empty, XK, Sym(h, <<>>, NoKey, 0))
    /\ ch[p].next = "read2" =>
        \E h : /\ IsSeq(h)
               /\ ch[p].hs = Hs(Initiator, PhoneKey, p, HostKey, Empty, Tail(XK),
                                Sym(h, PhoneCk1(p), Key(PhoneCk1(p), 0), 1))
    /\ ch[p].next = "write3" =>
        \E h, r : /\ IsSeq(h)
                  /\ ch[p].hs = Hs(Initiator, PhoneKey, p, HostKey, r, Tail(Tail(XK)),
                                   Sym(h, PhoneCk2(p, r), Key(PhoneCk2(p, r), 0), 1))
    /\ ch[p].next = "complete" => \E r : SendsUnder(p, Key(PhoneCk3(p, r), 1))

HostPhase(h) ==
    /\ ch[h].next \in {"new", "read1", "write2", "read3", "complete"}
    /\ ch[h].next = "read1" =>
        \E t : IsSeq(t) /\ ch[h].hs = Hs(Responder, HostKey, h, Empty, Empty, XK, Sym(t, <<>>, NoKey, 0))
    /\ ch[h].next = "write2" =>
        \E t, r : /\ IsSeq(t)
                  /\ ch[h].hs = Hs(Responder, HostKey, h, Empty, r, Tail(XK),
                                   Sym(t, HostCk1(r), Key(HostCk1(r), 0), 1))
    /\ ch[h].next = "read3" =>
        \E t, r : /\ IsSeq(t)
                  /\ ch[h].hs = Hs(Responder, HostKey, h, Empty, r, Tail(Tail(XK)),
                                   Sym(t, HostCk2(h, r), Key(HostCk2(h, r), 0), 1))
    /\ ch[h].next = "complete" => \E r, y : SendsUnder(h, Key(HostCk3(h, r, y), 2))

Phase(e) ==
    IsOpen(e) => /\ ch[e].next # "complete" => ch[e].binding = <<>>
                 /\ IF e \in Phones THEN PhonePhase(e) ELSE HostPhase(e)

Fields == {"next", "closed", "hs", "enc", "dec", "binding", "peer", "payload", "admitted", "bound",
           "asm", "out", "odd"}

Shape ==
    /\ DOMAIN ch = Ends
    /\ \A e \in Ends : DOMAIN ch[e] = Fields /\ ch[e].closed \in BOOLEAN /\ IsSeq(ch[e].out)
    /\ \A m \in wire : IsSeq(m)

AllMade == \A x \in Ciphertexts : x.k = NoKey \/ \E e \in Ends : MadeBy(e, x)

\* the last thing mixed into a binding
Closing(e, b) ==
    \E a, k, pt : /\ IsSeq(a) /\ b = Append(a, <<k, 0, pt>>)
                  /\ IF e \in Phones THEN \E r : k = Key(PhoneCk3(e, r), 0)
                     ELSE \E r, y : k = Key(HostCk3(e, r, y), 0)

Bindings == \A e \in Ends : Completed(e) => Closing(e, ch[e].binding)

ChannelInv ==
    /\ Shape /\ AllMade /\ NoncesAreUnique /\ Bindings /\ HandshakeAgrees
    /\ \A e \in Ends : Phase(e)

\* two ends derive the same key only for the second message: a phone sends its
\* static key under it, a host wrote its payload
LEMMA Owners ==
  ASSUME NEW e \in Ends, NEW f \in Ends, NEW k, KeyOf(e, k), KeyOf(f, k), e # f
  PROVE  \/ e \in Phones /\ f \notin Phones /\ \E r, q : k = Key(PhoneCk2(e, r), 0) /\ k = Key(HostCk2(f, q), 0)
         \/ f \in Phones /\ e \notin Phones /\ \E r, q : k = Key(PhoneCk2(f, r), 0) /\ k = Key(HostCk2(e, q), 0)
<1>1. CASE e \in Phones /\ f \in Phones
  <2>1. PhoneKeyOf(e, k) /\ PhoneKeyOf(f, k)
    BY <1>1 DEF KeyOf
  <2>2. PICK ck, ck2, out : /\ k = Key(ck, out) /\ k = Key(ck2, out)
                            /\ ck = PhoneCk1(e) \/ \E r : ck = PhoneCk2(e, r) \/ ck = PhoneCk3(e, r)
                            /\ ck2 = PhoneCk1(f) \/ \E r : ck2 = PhoneCk2(f, r) \/ ck2 = PhoneCk3(f, r)
    <3>1. PICK ck, out : k = Key(ck, out) /\ (ck = PhoneCk1(e) \/ \E r : ck = PhoneCk2(e, r) \/ ck = PhoneCk3(e, r))
      BY <2>1 DEF PhoneKeyOf
    <3>2. PICK ck2, out2 : k = Key(ck2, out2) /\ (ck2 = PhoneCk1(f) \/ \E r : ck2 = PhoneCk2(f, r) \/ ck2 = PhoneCk3(f, r))
      BY <2>1 DEF PhoneKeyOf
    <3>3. out = out2
      <4>1. Key(ck, out) = Key(ck2, out2)
        BY <3>1, <3>2
      <4> QED BY <4>1, KeysDiffer
    <3> QED BY <3>1, <3>2, <3>3
  <2>3. ck = ck2
    BY <2>2, KeysDiffer
  <2>4. ck[1] = {e, HostKey}
    BY <2>2 DEF PhoneCk1, PhoneCk2, PhoneCk3
  <2>5. ck2[1] = {f, HostKey}
    BY <2>2 DEF PhoneCk1, PhoneCk2, PhoneCk3
  <2> QED BY <2>3, <2>4, <2>5, Cancels
<1>2. CASE e \notin Phones /\ f \notin Phones
  <2>1. HostKeyOf(e, k) /\ HostKeyOf(f, k)
    BY <1>2 DEF KeyOf
  <2>2. PICK ck, out, r : k = Key(ck, out) /\ ck[1] = {HostKey, r} /\ ck[2] = {e, r}
    <3>1. CASE \E s : k = Key(HostCk2(e, s), 0)
      <4>1. PICK s : k = Key(HostCk2(e, s), 0)
        BY <3>1
      <4>2. HostCk2(e, s)[1] = {HostKey, s} /\ HostCk2(e, s)[2] = {e, s}
        BY DEF HostCk2
      <4> QED BY <4>1, <4>2
    <3>2. CASE \E s, y : k = Key(HostCk3(e, s, y), 2)
      <4>1. PICK s, y : k = Key(HostCk3(e, s, y), 2)
        BY <3>2
      <4>2. HostCk3(e, s, y)[1] = {HostKey, s} /\ HostCk3(e, s, y)[2] = {e, s}
        BY DEF HostCk3
      <4> QED BY <4>1, <4>2
    <3> QED BY <2>1, <3>1, <3>2 DEF HostKeyOf
  <2>3. PICK ck2, out2, q : k = Key(ck2, out2) /\ ck2[1] = {HostKey, q} /\ ck2[2] = {f, q}
    <3>1. CASE \E s : k = Key(HostCk2(f, s), 0)
      <4>1. PICK s : k = Key(HostCk2(f, s), 0)
        BY <3>1
      <4>2. HostCk2(f, s)[1] = {HostKey, s} /\ HostCk2(f, s)[2] = {f, s}
        BY DEF HostCk2
      <4> QED BY <4>1, <4>2
    <3>2. CASE \E s, y : k = Key(HostCk3(f, s, y), 2)
      <4>1. PICK s, y : k = Key(HostCk3(f, s, y), 2)
        BY <3>2
      <4>2. HostCk3(f, s, y)[1] = {HostKey, s} /\ HostCk3(f, s, y)[2] = {f, s}
        BY DEF HostCk3
      <4> QED BY <4>1, <4>2
    <3> QED BY <2>1, <3>1, <3>2 DEF HostKeyOf
  <2>4. ck = ck2
    BY <2>2, <2>3, KeysDiffer
  <2>5. r = q
    BY <2>2, <2>3, <2>4, Cancels
  <2> QED BY <2>2, <2>3, <2>4, <2>5, Cancels
<1>3. ASSUME NEW p, NEW h, PhoneKeyOf(p, k), HostKeyOf(h, k)
      PROVE  \E r, q : k = Key(PhoneCk2(p, r), 0) /\ k = Key(HostCk2(h, q), 0)
  <2>1. PICK ck, out : /\ k = Key(ck, out) /\ out \in {0, 1}
                       /\ ck = PhoneCk1(p) \/ \E r : (ck = PhoneCk2(p, r) /\ out = 0) \/ ck = PhoneCk3(p, r)
    BY <1>3 DEF PhoneKeyOf
  <2>2. PICK q : k = Key(HostCk2(h, q), 0)
    <3>1. CASE \E r, y : k = Key(HostCk3(h, r, y), 2)
      <4>1. PICK r, y : k = Key(HostCk3(h, r, y), 2)
        BY <3>1
      <4>2. Key(ck, out) = Key(HostCk3(h, r, y), 2)
        BY <2>1, <4>1
      <4>3. out = 2
        BY <4>2, KeysDiffer
      <4> QED BY <2>1, <4>3
    <3> QED BY <1>3, <3>1 DEF HostKeyOf
  <2>3. ck = HostCk2(h, q)
    BY <2>1, <2>2, KeysDiffer
  <2>4. PICK r : ck = PhoneCk2(p, r) /\ out = 0
    BY <2>1, <2>3, Lens DEF HostCk2, PhoneCk1, PhoneCk3
  <2> QED BY <2>1, <2>2, <2>4
<1>4. CASE e \in Phones /\ f \notin Phones
  BY <1>3, <1>4 DEF KeyOf
<1>5. CASE e \notin Phones /\ f \in Phones
  BY <1>3, <1>5 DEF KeyOf
<1> QED BY <1>1, <1>2, <1>4, <1>5

\* the keys and nonces of what an end makes
MadeUnder(e, k, n) ==
    IF e \in Phones
    THEN \/ k = Key(PhoneCk1(e), 0) /\ n = 0
         \/ \E r : \/ k = Key(PhoneCk2(e, r), 0) /\ n = 1
                   \/ k = Key(PhoneCk3(e, r), 0) /\ n = 0
                   \/ k = Key(PhoneCk3(e, r), 1) /\ n \in Nat
    ELSE \/ n = 0 /\ \E r : k = Key(HostCk2(e, r), 0)
         \/ n \in Nat /\ \E r, y : k = Key(HostCk3(e, r, y), 2)

\* what an end made it owns
LEMMA MadeOwned ==
  ASSUME NEW e, NEW x
  PROVE  /\ MadeBy(e, x) => MadeUnder(e, x.k, x.n)
         /\ MadeBy(e, x)' => MadeUnder(e, x.k, x.n)
<1>1. CASE e \in Phones
  BY <1>1 DEF MadeBy, MadeUnder, PhoneMade
<1>2. CASE e \notin Phones
  BY <1>2 DEF MadeBy, MadeUnder, HostMade
<1> QED BY <1>1, <1>2

LEMMA OwnedUnder ==
  ASSUME NEW e, NEW k, NEW n, MadeUnder(e, k, n)
  PROVE  KeyOf(e, k) /\ k # NoKey /\ n \in Nat
<1>1. CASE e \in Phones
  <2>1. KeyOf(e, k) /\ n \in Nat
    BY <1>1 DEF KeyOf, MadeUnder, PhoneKeyOf
  <2>2. PICK ck, out : k = Key(ck, out) /\ ck # <<>>
    <3>1. /\ PhoneCk1(e) # <<>> /\ \A r : PhoneCk2(e, r) # <<>> /\ PhoneCk3(e, r) # <<>>
      BY Lens DEF PhoneCk1, PhoneCk2, PhoneCk3
    <3> QED BY <1>1, <3>1 DEF MadeUnder
  <2> QED BY <2>1, <2>2 DEF Key, NoKey
<1>2. CASE e \notin Phones
  <2>1. KeyOf(e, k) /\ n \in Nat
    BY <1>2 DEF KeyOf, MadeUnder, HostKeyOf
  <2>2. PICK ck, out : k = Key(ck, out) /\ ck # <<>>
    <3>1. /\ \A r : HostCk2(e, r) # <<>> /\ \A y : HostCk3(e, r, y) # <<>>
      BY Lens DEF HostCk2, HostCk3
    <3> QED BY <1>2, <3>1 DEF MadeUnder
  <2> QED BY <2>1, <2>2 DEF Key, NoKey
<1> QED BY <1>1, <1>2

\* two ends never make ciphertexts with the same key and nonce
LEMMA OwnersDiffer ==
  ASSUME NEW e \in Ends, NEW f \in Ends, e # f, NEW k, NEW n, MadeUnder(e, k, n), MadeUnder(f, k, n)
  PROVE  FALSE
<1>1. KeyOf(e, k) /\ KeyOf(f, k)
  BY OwnedUnder
<1>2. ASSUME NEW p, NEW h, p \in Phones, h \notin Phones, MadeUnder(p, k, n), MadeUnder(h, k, n),
             NEW r, NEW q, k = Key(PhoneCk2(p, r), 0), k = Key(HostCk2(h, q), 0)
      PROVE  FALSE
  <2>1. \A s : k # Key(PhoneCk1(p), 0) /\ k # Key(PhoneCk3(p, s), 0) /\ k # Key(PhoneCk3(p, s), 1)
    BY <1>2, KeysDiffer, Lens DEF PhoneCk1, PhoneCk2, PhoneCk3
  <2>2. n = 1
    BY <1>2, <2>1 DEF MadeUnder
  <2>3. \A s, y2 : k # Key(HostCk3(h, s, y2), 2)
    BY <1>2, KeysDiffer
  <2>4. n = 0
    BY <1>2, <2>3 DEF MadeUnder
  <2> QED BY <2>2, <2>4
<1>3. CASE e \in Phones /\ f \notin Phones /\ \E r, q : k = Key(PhoneCk2(e, r), 0) /\ k = Key(HostCk2(f, q), 0)
  BY <1>2, <1>3
<1>4. CASE f \in Phones /\ e \notin Phones /\ \E r, q : k = Key(PhoneCk2(f, r), 0) /\ k = Key(HostCk2(e, q), 0)
  BY <1>2, <1>4
<1> QED BY <1>1, <1>3, <1>4, Owners

\* nobody else encrypts under the transport key of an end
LEMMA TransportIsOwn ==
  ASSUME NEW e \in Ends, NEW f \in Ends, e # f, NEW k, NEW n, MadeUnder(e, k, n),
         \/ f \in Phones /\ \E r : k = Key(PhoneCk3(f, r), 1)
         \/ f \notin Phones /\ \E r, y : k = Key(HostCk3(f, r, y), 2)
  PROVE  FALSE
<1>1. KeyOf(e, k)
  BY OwnedUnder
<1>2. KeyOf(f, k)
  BY DEF KeyOf, PhoneKeyOf, HostKeyOf
<1>3. PICK p, r : k = Key(PhoneCk2(p, r), 0)
  BY <1>1, <1>2, Owners
<1>4. CASE \E q : k = Key(PhoneCk3(f, q), 1)
  BY <1>3, <1>4, KeysDiffer
<1>5. CASE \E q, y : k = Key(HostCk3(f, q, y), 2)
  BY <1>3, <1>5, KeysDiffer
<1> QED BY <1>4, <1>5

\* what e has done by now it still has done after a step
Onward(e) ==
    /\ Past(e, {"new", "write1"}) => Past(e, {"new", "write1"})'
    /\ Past(e, {"new", "read1", "write2"}) => Past(e, {"new", "read1", "write2"})'
    /\ Late(e) => /\ Late(e)' /\ ch'[e].binding = ch[e].binding
                  /\ ch'[e].peer = ch[e].peer /\ ch'[e].payload = ch[e].payload

\* what was made stays made
LEMMA MadeStays ==
  ASSUME NEW e, Onward(e), NEW x, MadeBy(e, x)
  PROVE  MadeBy(e, x)'
<1>1. CASE e \in Phones
  <2>1. PhoneMade(e, x)
    BY <1>1 DEF MadeBy
  <2>2. CASE x.k = Key(PhoneCk1(e), 0) /\ x.n = 0 /\ Past(e, {"new", "write1"})
    BY <1>1, <2>2 DEF Onward, MadeBy, PhoneMade
  <2>3. CASE Late(e)
    BY <1>1, <2>1, <2>3 DEF Onward, MadeBy, PhoneMade
  <2> QED BY <2>1, <2>2, <2>3 DEF PhoneMade
<1>2. CASE e \notin Phones
  BY <1>2 DEF Onward, MadeBy, HostMade
<1> QED BY <1>1, <1>2

LEMMA OthersMade ==
  ASSUME NEW f, ch'[f] = ch[f], NEW x
  PROVE  MadeBy(f, x)' <=> MadeBy(f, x)
<1>1. CASE f \in Phones
  BY <1>1 DEF MadeBy, PhoneMade, Past, Late
<1>2. CASE f \notin Phones
  BY <1>2 DEF MadeBy, HostMade, Past, Late
<1> QED BY <1>1, <1>2

\* an end adds N to the ciphertexts: each is its own, of a key and nonce not used
LEMMA Adds ==
  ASSUME NEW e \in Ends, ChannelInv, \A f \in Ends \ {e} : ch'[f] = ch[f], Onward(e),
         NEW N, Ciphertexts' \subseteq Ciphertexts \cup N,
         \A x \in N : x.k = NoKey \/ MadeBy(e, x)',
         \A x, y \in N : x.k # NoKey /\ x.k = y.k /\ x.n = y.n => x = y,
         \A x \in N, y \in Ciphertexts : x.k # NoKey /\ MadeBy(e, y) /\ x.k = y.k /\ x.n = y.n => x = y
  PROVE  AllMade' /\ NoncesAreUnique' /\ \A f \in Ends \ {e} : Phase(f)'
<1>1. AllMade'
  <2>1. ASSUME NEW x \in Ciphertexts', x.k # NoKey PROVE \E f \in Ends : MadeBy(f, x)'
    <3>1. CASE x \in N
      BY <2>1, <3>1
    <3>2. CASE x \in Ciphertexts
      <4>1. PICK f \in Ends : MadeBy(f, x)
        BY <2>1, <3>2 DEF ChannelInv, AllMade
      <4>2. CASE f = e
        BY <4>1, <4>2, MadeStays
      <4>3. CASE f # e
        <5>1. ch'[f] = ch[f]
          BY <4>3
        <5>2. MadeBy(f, x)'
          BY <4>1, <5>1, OthersMade
        <5> QED BY <5>2
      <4> QED BY <4>2, <4>3
    <3> QED BY <3>1, <3>2
  <2> QED BY <2>1 DEF AllMade
\* a new one and an old one
<1>2. ASSUME NEW x \in N, NEW y \in Ciphertexts, x.k # NoKey, x.k = y.k, x.n = y.n PROVE x = y
  <2>1. MadeBy(e, x)'
    BY <1>2
  <2>2. MadeUnder(e, x.k, x.n)
    BY <2>1, MadeOwned
  <2>3. PICK f \in Ends : MadeBy(f, y)
    BY <1>2 DEF ChannelInv, AllMade
  <2>4. MadeUnder(f, x.k, x.n)
    BY <1>2, <2>3, MadeOwned
  <2>5. f = e
    BY <2>2, <2>4, OwnersDiffer
  <2> QED BY <1>2, <2>3, <2>5
<1>3. NoncesAreUnique'
  <2>1. ASSUME NEW x \in Ciphertexts', NEW y \in Ciphertexts', x.k # NoKey, x.k = y.k, x.n = y.n PROVE x = y
    <3>1. CASE x \in N /\ y \in N
      BY <2>1, <3>1
    <3>2. CASE x \in N /\ y \in Ciphertexts
      BY <1>2, <2>1, <3>2
    <3>3. CASE x \in Ciphertexts /\ y \in N
      <4>1. y = x
        BY <1>2, <2>1, <3>3
      <4> QED BY <4>1
    <3>4. CASE x \in Ciphertexts /\ y \in Ciphertexts
      BY <2>1, <3>4 DEF ChannelInv, NoncesAreUnique
    <3> QED BY <3>1, <3>2, <3>3, <3>4
  <2> QED BY <2>1 DEF NoncesAreUnique
<1>4. ASSUME NEW f \in Ends \ {e}, NEW k, SendsUnder(f, k),
             \/ f \in Phones /\ \E r : k = Key(PhoneCk3(f, r), 1)
             \/ f \notin Phones /\ \E r, y : k = Key(HostCk3(f, r, y), 2)
      PROVE  SendsUnder(f, k)'
  <2>1. PICK n \in 0 .. MaxNonce : ch[f].enc = [k |-> k, n |-> n] /\ \A x \in Ciphertexts : x.k = k => x.n < n
    BY <1>4 DEF SendsUnder
  <2>2. ch'[f].enc = [k |-> k, n |-> n]
    BY <2>1
  <2>3. ASSUME NEW x \in Ciphertexts', x.k = k PROVE x.n < n
    <3>1. CASE x \in Ciphertexts
      BY <2>1, <2>3, <3>1
    <3>2. CASE x \in N
      <4>1. k # NoKey
        <5>1. /\ \A r : PhoneCk3(f, r) # <<>> /\ \A y : HostCk3(f, r, y) # <<>>
          BY Lens DEF PhoneCk3, HostCk3
        <5> QED BY <1>4, <5>1 DEF Key, NoKey
      <4>2. MadeBy(e, x)'
        BY <2>3, <3>2, <4>1
      <4>3. MadeUnder(e, k, x.n)
        BY <2>3, <4>2, MadeOwned
      <4>4. FALSE
        BY <1>4, <4>3, TransportIsOwn
      <4> QED BY <4>4
    <3> QED BY <3>1, <3>2
  <2> QED BY <2>2, <2>3 DEF SendsUnder
<1>5. ASSUME NEW f \in Ends \ {e} PROVE Phase(f)'
  <2>1. ch'[f] = ch[f] /\ Phase(f)
    BY DEF ChannelInv
  <2>2. CASE f \in Phones
    <3>1. ASSUME PhonePhase(f) PROVE PhonePhase(f)'
      <4>1. ASSUME ch[f].next = "complete" PROVE \E r : SendsUnder(f, Key(PhoneCk3(f, r), 1))'
        <5>1. PICK r : SendsUnder(f, Key(PhoneCk3(f, r), 1))
          BY <3>1, <4>1 DEF PhonePhase
        <5>2. SendsUnder(f, Key(PhoneCk3(f, r), 1))'
          BY <1>4, <2>2, <5>1
        <5> QED BY <5>2
      <4> QED BY <2>1, <3>1, <4>1 DEF PhonePhase
    <3> QED BY <2>1, <2>2, <3>1 DEF Phase, IsOpen
  <2>3. CASE f \notin Phones
    <3>1. ASSUME HostPhase(f) PROVE HostPhase(f)'
      <4>1. ASSUME ch[f].next = "complete" PROVE \E r, y : SendsUnder(f, Key(HostCk3(f, r, y), 2))'
        <5>1. PICK r, y : SendsUnder(f, Key(HostCk3(f, r, y), 2))
          BY <3>1, <4>1 DEF HostPhase
        <5>2. SendsUnder(f, Key(HostCk3(f, r, y), 2))'
          BY <1>4, <2>3, <5>1
        <5> QED BY <5>2
      <4> QED BY <2>1, <3>1, <4>1 DEF HostPhase
    <3> QED BY <2>1, <2>3, <3>1 DEF Phase, IsOpen
  <2> QED BY <2>2, <2>3
<1> QED BY <1>1, <1>3, <1>5

\* a ciphertext is in a message that was sent or is held to be sent
LEMMA InCiphertexts ==
  ASSUME NEW x
  PROVE  /\ x \in Ciphertexts <=> (\E m \in wire : x \in Parts(m)) \/ \E f \in Ends : x \in Parts(ch[f].out)
         /\ x \in Ciphertexts' <=> (\E m \in wire' : x \in Parts(m)) \/ \E f \in Ends : x \in Parts(ch'[f].out)
BY DEF Ciphertexts

\* what is new comes from what is sent now or from what the end holds now
LEMMA NewCiphertexts ==
  ASSUME NEW e \in Ends, \A f \in Ends \ {e} : ch'[f] = ch[f], NEW N,
         \A m \in wire' \ wire : Parts(m) \subseteq Ciphertexts \cup N,
         Parts(ch'[e].out) \subseteq Ciphertexts \cup N
  PROVE  Ciphertexts' \subseteq Ciphertexts \cup N
<1>1. ASSUME NEW x \in Ciphertexts' PROVE x \in Ciphertexts \cup N
  <2>1. CASE \E m \in wire' : x \in Parts(m)
    <3>1. PICK m \in wire' : x \in Parts(m)
      BY <2>1
    <3>2. CASE m \in wire
      BY <3>1, <3>2, InCiphertexts
    <3> QED BY <3>1, <3>2
  <2>2. CASE \E f \in Ends : x \in Parts(ch'[f].out)
    <3>1. PICK f \in Ends : x \in Parts(ch'[f].out)
      BY <2>2
    <3>2. CASE f = e
      BY <3>1, <3>2
    <3>3. CASE f # e
      <4>1. x \in Parts(ch[f].out)
        BY <3>1, <3>3
      <4> QED BY <4>1, InCiphertexts
    <3> QED BY <3>2, <3>3
  <2> QED BY <2>1, <2>2, InCiphertexts
<1> QED BY <1>1

LEMMA NoParts == Parts(<<>>) = {}
BY DEF Parts

\* a hash tells what was mixed in last, and what before
LEMMA LastMixed ==
  ASSUME NEW a, IsSeq(a), NEW b, IsSeq(b), NEW x, NEW y, Append(a, x) = Append(b, y)
  PROVE  a = b /\ x = y
<1>1. PICK S : a \in Seq(S)
  BY DEF IsSeq
<1>2. PICK T : b \in Seq(T)
  BY DEF IsSeq
<1> DEFINE U == S \cup T \cup {x, y}
<1>3. a \in Seq(U) /\ b \in Seq(U) /\ x \in U /\ y \in U
  BY <1>1, <1>2
<1> HIDE DEF U
<1>4. /\ Len(Append(a, x)) = Len(a) + 1 /\ Append(a, x)[Len(a) + 1] = x
      /\ \A i \in 1 .. Len(a) : Append(a, x)[i] = a[i]
  BY <1>3
<1>5. /\ Len(Append(b, y)) = Len(b) + 1 /\ Append(b, y)[Len(b) + 1] = y
      /\ \A i \in 1 .. Len(b) : Append(b, y)[i] = b[i]
  BY <1>3
<1>6. Len(a) = Len(b)
  BY <1>3, <1>4, <1>5
<1>7. x = y
  BY <1>4, <1>5, <1>6
<1>8. \A i \in 1 .. Len(a) : a[i] = b[i]
  BY <1>4, <1>5, <1>6
<1> QED BY <1>3, <1>6, <1>7, <1>8

\* two ends that close their handshakes alike are a phone and a host
LEMMA ClosingDiffers ==
  ASSUME NEW e \in Ends, NEW f \in Ends, e # f, NEW b, Closing(e, b), Closing(f, b)
  PROVE  (e \in Phones) # (f \in Phones)
<1>1. PICK a, k, pt : /\ IsSeq(a) /\ b = Append(a, <<k, 0, pt>>)
                      /\ IF e \in Phones THEN \E r : k = Key(PhoneCk3(e, r), 0)
                         ELSE \E r, y : k = Key(HostCk3(e, r, y), 0)
  BY DEF Closing
<1>2. PICK a2, k2, pt2 : /\ IsSeq(a2) /\ b = Append(a2, <<k2, 0, pt2>>)
                         /\ IF f \in Phones THEN \E r : k2 = Key(PhoneCk3(f, r), 0)
                            ELSE \E r, y : k2 = Key(HostCk3(f, r, y), 0)
  BY DEF Closing
<1>3. k = k2
  <2> DEFINE x == <<k, 0, pt>>
             y == <<k2, 0, pt2>>
  <2>1. x = y
    <3> HIDE DEF x, y
    <3>1. Append(a, x) = Append(a2, y)
      BY <1>1, <1>2 DEF x, y
    <3> QED BY <1>1, <1>2, <3>1, LastMixed
  <2> QED BY <2>1, Pairs3
<1>4. CASE e \in Phones /\ f \in Phones
  <2>1. PICK r : k = Key(PhoneCk3(e, r), 0)
    BY <1>1, <1>4
  <2>2. PICK q : k = Key(PhoneCk3(f, q), 0)
    BY <1>2, <1>3, <1>4
  <2>3. PhoneCk3(e, r) = PhoneCk3(f, q)
    <3>1. Key(PhoneCk3(e, r), 0) = Key(PhoneCk3(f, q), 0)
      BY <2>1, <2>2
    <3> QED BY <3>1, KeysDiffer
  <2>4. {e, HostKey} = {f, HostKey}
    BY <2>3, Pairs3 DEF PhoneCk3
  <2> QED BY <2>4, Cancels
<1>5. CASE e \notin Phones /\ f \notin Phones
  <2>1. PICK r, y : k = Key(HostCk3(e, r, y), 0)
    BY <1>1, <1>5
  <2>2. PICK q, z : k = Key(HostCk3(f, q, z), 0)
    BY <1>2, <1>3, <1>5
  <2>3. HostCk3(e, r, y) = HostCk3(f, q, z)
    <3>1. Key(HostCk3(e, r, y), 0) = Key(HostCk3(f, q, z), 0)
      BY <2>1, <2>2
    <3> QED BY <3>1, KeysDiffer
  <2>4. {HostKey, r} = {HostKey, q} /\ {e, r} = {f, q}
    BY <2>3, Pairs3 DEF HostCk3
  <2>5. r = q
    BY <2>4, Cancels
  <2> QED BY <2>4, <2>5, Cancels
<1> QED BY <1>4, <1>5

\* agreement is kept while no handshake completes
LEMMA AgreementKept ==
  ASSUME Bindings, HandshakeAgrees,
         \A f \in Ends : /\ ch'[f].binding = ch[f].binding
                         /\ Completed(f) => ch'[f].peer = ch[f].peer /\ ch'[f].payload = ch[f].payload
  PROVE  Bindings' /\ HandshakeAgrees'
<1>1. Bindings'
  BY DEF Bindings, Completed
<1>2. ASSUME NEW h \in Hosts, Completed(h)'
      PROVE  \E p \in Phones : /\ Partners(h)' = {p}
                               /\ ch'[h].peer = PhoneKey /\ ch'[p].peer = HostKey
                               /\ ch'[h].payload = ch'[p].payload
  <2>1. h \in Ends /\ Completed(h)
    BY <1>2 DEF Ends, Completed
  <2>2. PICK p \in Phones : /\ Partners(h) = {p}
                            /\ ch[h].peer = PhoneKey /\ ch[p].peer = HostKey
                            /\ ch[h].payload = ch[p].payload
    BY <2>1 DEF HandshakeAgrees
  <2>3. p \in Ends /\ Completed(p)
    BY <2>1, <2>2 DEF Partners, Completed
  <2>4. Partners(h)' = Partners(h)
    BY <2>1 DEF Partners
  <2> QED BY <2>1, <2>2, <2>3, <2>4
<1>3. HandshakeAgrees'
  BY <1>2 DEF HandshakeAgrees
<1> QED BY <1>1, <1>3

\* a step of e that neither encrypts nor moves its handshake on
LEMMA Quiet ==
  ASSUME NEW e \in Ends, ChannelInv, Shape', \A f \in Ends \ {e} : ch'[f] = ch[f],
         Ciphertexts' \subseteq Ciphertexts,
         /\ ch'[e].closed = ch[e].closed /\ ch'[e].next = ch[e].next
         /\ ch'[e].hs = ch[e].hs /\ ch'[e].enc = ch[e].enc
         /\ ch'[e].binding = ch[e].binding /\ ch'[e].peer = ch[e].peer /\ ch'[e].payload = ch[e].payload
  PROVE  ChannelInv'
<1>1. Onward(e)
  BY DEF Onward, Past, Late
<1>2. AllMade' /\ NoncesAreUnique' /\ \A f \in Ends \ {e} : Phase(f)'
  <2> DEFINE N == {}
  <2>1. /\ Ciphertexts' \subseteq Ciphertexts \cup N
        /\ \A x \in N : x.k = NoKey \/ MadeBy(e, x)'
        /\ \A x, y \in N : x.k # NoKey /\ x.k = y.k /\ x.n = y.n => x = y
        /\ \A x \in N, y \in Ciphertexts : x.k # NoKey /\ MadeBy(e, y) /\ x.k = y.k /\ x.n = y.n => x = y
    OBVIOUS
  <2> HIDE DEF N
  <2> QED BY <1>1, <2>1, Adds
<1>3. Bindings' /\ HandshakeAgrees'
  BY AgreementKept DEF ChannelInv
<1>4. ASSUME NEW k, SendsUnder(e, k) PROVE SendsUnder(e, k)'
  BY <1>4 DEF SendsUnder
<1>5. Phase(e)'
  <2>1. Phase(e)
    BY DEF ChannelInv
  <2>2. CASE e \in Phones
    <3>1. ASSUME PhonePhase(e) PROVE PhonePhase(e)'
      <4>1. ASSUME ch[e].next = "complete" PROVE \E r : SendsUnder(e, Key(PhoneCk3(e, r), 1))'
        BY <1>4, <3>1, <4>1 DEF PhonePhase
      <4> QED BY <3>1, <4>1 DEF PhonePhase
    <3> QED BY <2>1, <2>2, <3>1 DEF Phase, IsOpen
  <2>3. CASE e \notin Phones
    <3>1. ASSUME HostPhase(e) PROVE HostPhase(e)'
      <4>1. ASSUME ch[e].next = "complete" PROVE \E r, y : SendsUnder(e, Key(HostCk3(e, r, y), 2))'
        BY <1>4, <3>1, <4>1 DEF HostPhase
      <4> QED BY <3>1, <4>1 DEF HostPhase
    <3> QED BY <2>1, <2>3, <3>1 DEF Phase, IsOpen
  <2> QED BY <2>2, <2>3
<1> QED BY <1>2, <1>3, <1>5 DEF ChannelInv

\* what is left of a channel that closes
LEMMA ShutIs ==
  ASSUME NEW c
  PROVE  /\ Shut(c).closed = TRUE /\ Shut(c).next = "new" /\ Shut(c).out = <<>>
         /\ Shut(c).binding = c.binding /\ Shut(c).peer = c.peer /\ Shut(c).payload = c.payload
         /\ DOMAIN Shut(c) = Fields
BY DEF Shut, Closed, Fields

LEMMA EmptyIsSeq == IsSeq(<<>>)
<1>1. <<>> \in Seq({})
  OBVIOUS
<1> QED BY <1>1 DEF IsSeq

\* closing keeps the invariant
LEMMA Shuts ==
  ASSUME NEW e \in Ends, ChannelInv, ch' = [ch EXCEPT ![e] = Shut(@)], wire' = wire
  PROVE  ChannelInv'
<1>1. ch'[e] = Shut(ch[e]) /\ \A f \in Ends \ {e} : ch'[f] = ch[f]
  BY DEF ChannelInv, Shape
<1>2. /\ ch'[e].closed = TRUE /\ ch'[e].next = "new" /\ ch'[e].out = <<>>
      /\ ch'[e].binding = ch[e].binding /\ ch'[e].peer = ch[e].peer /\ ch'[e].payload = ch[e].payload
      /\ DOMAIN ch'[e] = Fields
  <2> DEFINE c == ch[e]
             d == Shut(c)
  <2>1. /\ d.closed = TRUE /\ d.next = "new" /\ d.out = <<>>
        /\ d.binding = c.binding /\ d.peer = c.peer /\ d.payload = c.payload
        /\ DOMAIN d = Fields
    BY ShutIs
  <2>2. ch'[e] = d
    BY <1>1
  <2> HIDE DEF d
  <2> QED BY <2>1, <2>2
<1>3. Shape'
  <2>1. DOMAIN ch' = Ends
    BY DEF ChannelInv, Shape
  <2> QED BY <1>1, <1>2, <2>1, EmptyIsSeq DEF ChannelInv, Shape
<1>4. Onward(e)
  BY <1>2 DEF Onward, Past, Late
<1>5. AllMade' /\ NoncesAreUnique' /\ \A f \in Ends \ {e} : Phase(f)'
  <2> DEFINE N == {}
  <2>1. /\ \A m \in wire' \ wire : Parts(m) \subseteq Ciphertexts \cup N
        /\ Parts(ch'[e].out) \subseteq Ciphertexts \cup N
    BY <1>2, NoParts
  <2>2. /\ \A x \in N : x.k = NoKey \/ MadeBy(e, x)'
        /\ \A x, y \in N : x.k # NoKey /\ x.k = y.k /\ x.n = y.n => x = y
        /\ \A x \in N, y \in Ciphertexts : x.k # NoKey /\ MadeBy(e, y) /\ x.k = y.k /\ x.n = y.n => x = y
    OBVIOUS
  <2> HIDE DEF N
  <2>3. Ciphertexts' \subseteq Ciphertexts \cup N
    BY <1>1, <2>1, NewCiphertexts
  <2> QED BY <1>1, <1>4, <2>2, <2>3, Adds
<1>6. Bindings' /\ HandshakeAgrees'
  BY <1>1, <1>2, AgreementKept DEF ChannelInv
<1>7. Phase(e)'
  BY <1>2 DEF Phase, IsOpen
<1> QED BY <1>3, <1>5, <1>6, <1>7 DEF ChannelInv

(***************************************************************************)
(* Handshakes that complete.                                               *)
(***************************************************************************)

\* an end is a phone or a host
LEMMA EndsAre ==
  /\ \A p \in Phones : p \in Ends /\ p \notin Hosts
  /\ \A h \in Hosts : h \in Ends /\ h \notin Phones
  /\ \A e \in Ends : e \in Phones \/ e \in Hosts
BY ChannelAssumption DEF Ends

LEMMA ClosingIsSome ==
  ASSUME NEW e, NEW b, Closing(e, b)
  PROVE  b # <<>>
<1>1. PICK a, x : IsSeq(a) /\ b = Append(a, x)
  <2>1. PICK a, k, pt : IsSeq(a) /\ b = Append(a, <<k, 0, pt>>)
    BY DEF Closing
  <2> DEFINE x == <<k, 0, pt>>
  <2> HIDE DEF x
  <2>2. IsSeq(a) /\ b = Append(a, x)
    BY <2>1 DEF x
  <2> QED BY <2>2
<1>2. PICK S : a \in Seq(S)
  BY <1>1 DEF IsSeq
<1> DEFINE T == S \cup {x}
<1>3. a \in Seq(T) /\ x \in T
  BY <1>2
<1>4. Len(b) = Len(a) + 1 /\ Len(a) \in Nat
  BY <1>1, <1>3
<1> QED BY <1>4

\* a phone that completes is alone with its binding: a host only joins a phone
LEMMA PhoneCompletes ==
  ASSUME NEW p \in Phones, Bindings, HandshakeAgrees, ~Completed(p),
         \A f \in Ends \ {p} : ch'[f] = ch[f], Closing(p, ch'[p].binding)
  PROVE  Bindings' /\ HandshakeAgrees'
<1>1. Bindings'
  <2>1. ASSUME NEW f \in Ends, Completed(f)' PROVE Closing(f, ch'[f].binding)
    <3>1. CASE f # p
      <4>1. ch'[f] = ch[f]
        BY <3>1
      <4>2. Completed(f)
        BY <2>1, <4>1 DEF Completed
      <4> QED BY <4>1, <4>2 DEF Bindings
    <3> QED BY <3>1
  <2> QED BY <2>1 DEF Bindings, Closing
<1>2. ASSUME NEW h \in Hosts, Completed(h)'
      PROVE  \E q \in Phones : /\ Partners(h)' = {q}
                               /\ ch'[h].peer = PhoneKey /\ ch'[q].peer = HostKey
                               /\ ch'[h].payload = ch'[q].payload
  <2>1. h \in Ends /\ h # p /\ p \in Ends
    BY EndsAre
  <2>2. ch'[h] = ch[h] /\ Completed(h)
    BY <1>2, <2>1 DEF Completed
  <2>3. PICK q \in Phones : /\ Partners(h) = {q}
                            /\ ch[h].peer = PhoneKey /\ ch[q].peer = HostKey
                            /\ ch[h].payload = ch[q].payload
    BY <2>2 DEF HandshakeAgrees
  <2>4. q \in Ends /\ q # h /\ ch[q].binding = ch[h].binding
    BY <2>3 DEF Partners
  <2>5. Completed(q) /\ q # p
    BY <2>2, <2>4 DEF Completed
  <2>6. ch'[q] = ch[q]
    BY <2>4, <2>5
  <2>7. ch'[p].binding # ch[h].binding
    <3>1. SUFFICES ASSUME ch'[p].binding = ch[q].binding PROVE FALSE
      BY <2>4
    <3>2. Closing(q, ch[q].binding)
      BY <2>4, <2>5 DEF Bindings
    <3>3. Closing(p, ch[q].binding)
      BY <3>1
    <3> QED BY <2>1, <2>4, <2>5, <3>2, <3>3, ClosingDiffers
  <2>8. Partners(h)' = Partners(h)
    <3>1. ASSUME NEW f \in Ends \ {h}
          PROVE  ch'[f].binding = ch'[h].binding <=> ch[f].binding = ch[h].binding
      <4>1. CASE f = p
        <5>1. ch[p].binding # ch[h].binding
          BY <2>2 DEF Completed
        <5> QED BY <2>2, <2>7, <4>1, <5>1
      <4>2. CASE f # p
        BY <2>2, <4>2
      <4> QED BY <4>1, <4>2
    <3> QED BY <3>1 DEF Partners
  <2> QED BY <2>2, <2>3, <2>6, <2>8
<1>3. HandshakeAgrees'
  BY <1>2 DEF HandshakeAgrees
<1> QED BY <1>1, <1>3

\* a host that completes joins the one phone that has its binding
LEMMA HostCompletes ==
  ASSUME NEW h \in Hosts, Bindings, HandshakeAgrees, ~Completed(h),
         \A f \in Ends \ {h} : ch'[f] = ch[f], Closing(h, ch'[h].binding),
         NEW p \in Phones, ch[p].binding = ch'[h].binding,
         ch'[h].peer = PhoneKey, ch[p].peer = HostKey, ch'[h].payload = ch[p].payload
  PROVE  Bindings' /\ HandshakeAgrees'
<1> DEFINE b == ch'[h].binding
<1>0. h \in Ends /\ h \notin Phones /\ p \in Ends /\ p # h /\ Closing(h, b) /\ b # <<>>
  BY EndsAre, ClosingIsSome
<1>1. Bindings'
  <2>1. ASSUME NEW f \in Ends, Completed(f)' PROVE Closing(f, ch'[f].binding)
    <3>1. CASE f # h
      <4>1. ch'[f] = ch[f]
        BY <3>1
      <4>2. Completed(f)
        BY <2>1, <4>1 DEF Completed
      <4> QED BY <4>1, <4>2 DEF Bindings
    <3> QED BY <3>1
  <2> QED BY <2>1 DEF Bindings, Closing
<1>2. Completed(p) /\ Closing(p, b) /\ ch'[p] = ch[p]
  <2>1. Completed(p)
    BY <1>0 DEF Completed
  <2>2. Closing(p, ch[p].binding)
    BY <1>0, <2>1 DEF Bindings
  <2> QED BY <1>0, <2>1, <2>2
<1>3. Partners(h)' = {p}
  <2>1. ASSUME NEW f \in Ends \ {h}, f # p, ch'[f].binding = b PROVE FALSE
    <3>1. ch[f].binding = b
      BY <2>1
    <3>2. Completed(f)
      BY <1>0, <3>1 DEF Completed
    <3>3. Closing(f, b)
      BY <3>1, <3>2 DEF Bindings
    <3>4. f \notin Phones
      BY <1>0, <1>2, <2>1, <3>3, ClosingDiffers
    <3>5. f \in Phones
      <4> HIDE DEF b
      <4> QED BY <1>0, <3>3, ClosingDiffers
    <3> QED BY <3>4, <3>5
  <2>2. p \in Ends \ {h} /\ ch'[p].binding = b
    BY <1>0, <1>2
  <2> QED BY <2>1, <2>2 DEF Partners
<1>4. ASSUME NEW g \in Hosts, Completed(g)'
      PROVE  \E q \in Phones : /\ Partners(g)' = {q}
                               /\ ch'[g].peer = PhoneKey /\ ch'[q].peer = HostKey
                               /\ ch'[g].payload = ch'[q].payload
  <2>1. CASE g = h
    BY <1>2, <1>3, <2>1
  <2>2. CASE g # h
    <3>1. g \in Ends /\ g \notin Phones
      BY EndsAre
    <3>2. ch'[g] = ch[g] /\ Completed(g)
      BY <1>4, <2>2, <3>1 DEF Completed
    <3>3. PICK q \in Phones : /\ Partners(g) = {q}
                              /\ ch[g].peer = PhoneKey /\ ch[q].peer = HostKey
                              /\ ch[g].payload = ch[q].payload
      BY <3>2 DEF HandshakeAgrees
    <3>4. q \in Ends /\ q # h
      BY EndsAre
    <3>5. ch'[q] = ch[q]
      BY <3>4
    <3>6. b # ch[g].binding
      <4>1. SUFFICES ASSUME b = ch[g].binding PROVE FALSE
        OBVIOUS
      <4>2. Closing(g, ch[g].binding)
        BY <3>1, <3>2 DEF Bindings
      <4>3. Closing(g, b)
        BY <4>1, <4>2
      <4> HIDE DEF b
      <4> QED BY <1>0, <2>2, <3>1, <4>3, ClosingDiffers
    <3>7. Partners(g)' = Partners(g)
      <4>1. ASSUME NEW f \in Ends \ {g}
            PROVE  ch'[f].binding = ch'[g].binding <=> ch[f].binding = ch[g].binding
        <5>1. CASE f = h
          <6>1. ch[h].binding # ch[g].binding
            BY <3>2 DEF Completed
          <6> QED BY <3>2, <3>6, <5>1, <6>1
        <5>2. CASE f # h
          BY <3>2, <5>2
        <5> QED BY <5>1, <5>2
      <4> QED BY <4>1 DEF Partners
    <3> QED BY <3>2, <3>3, <3>5, <3>7
  <2> QED BY <2>1, <2>2
<1>5. HandshakeAgrees'
  BY <1>4 DEF HandshakeAgrees
<1> QED BY <1>1, <1>5

(***************************************************************************)
(* The steps of a channel that is open.                                    *)
(***************************************************************************)

Same(e) ==
    /\ ch'[e].closed = ch[e].closed /\ ch'[e].next = ch[e].next /\ ch'[e].binding = ch[e].binding
    /\ ch'[e].peer = ch[e].peer /\ ch'[e].payload = ch[e].payload

LEMMA ShapeKept ==
  ASSUME NEW e \in Ends, ChannelInv, DOMAIN ch' = Ends, \A f \in Ends \ {e} : ch'[f] = ch[f],
         DOMAIN ch'[e] = Fields, ch'[e].closed \in BOOLEAN, IsSeq(ch'[e].out),
         \A m \in wire' \ wire : IsSeq(m)
  PROVE  Shape'
<1>1. Shape
  BY DEF ChannelInv
<1>2. ASSUME NEW f \in Ends PROVE DOMAIN ch'[f] = Fields /\ ch'[f].closed \in BOOLEAN /\ IsSeq(ch'[f].out)
  <2>1. CASE f = e
    BY <2>1
  <2>2. CASE f # e
    BY <1>1, <2>2 DEF Shape
  <2> QED BY <2>1, <2>2
<1>3. ASSUME NEW m \in wire' PROVE IsSeq(m)
  BY <1>1 DEF Shape
<1> QED BY <1>2, <1>3 DEF Shape

LEMMA WireKept ==
  ASSUME NEW e \in Ends, \A f \in Ends \ {e} : ch'[f] = ch[f], wire' = wire, Parts(ch'[e].out) \subseteq Parts(ch[e].out)
  PROVE  Ciphertexts' \subseteq Ciphertexts
<1> DEFINE N == {}
<1>1. Parts(ch'[e].out) \subseteq Ciphertexts \cup N
  BY InCiphertexts
<1>2. \A m \in wire' \ wire : Parts(m) \subseteq Ciphertexts \cup N
  OBVIOUS
<1>3. Ciphertexts' \subseteq Ciphertexts \cup N
  BY <1>1, <1>2, NewCiphertexts
<1> QED BY <1>3

\* the steps that encrypt nothing, one by one
LEMMA MarkAdmittedKeeps ==
  ASSUME ChannelInv, NEW e \in Ends, MarkAdmitted(e)
  PROVE  ChannelInv'
<1>0. Shape
  BY DEF ChannelInv
<1>1. /\ DOMAIN ch' = Ends /\ \A f \in Ends \ {e} : ch'[f] = ch[f]
      /\ Same(e) /\ ch'[e].hs = ch[e].hs /\ ch'[e].enc = ch[e].enc /\ ch'[e].out = ch[e].out
      /\ DOMAIN ch'[e] = Fields /\ wire' = wire
  BY <1>0 DEF MarkAdmitted, Shape, Same, Fields
<1>2. Shape'
  BY <1>0, <1>1, ShapeKept DEF Shape, Same
<1>3. Ciphertexts' \subseteq Ciphertexts
  BY <1>1, WireKept
<1> QED BY <1>1, <1>2, <1>3, Quiet DEF Same

LEMMA BindTransportKeeps ==
  ASSUME ChannelInv, NEW e \in Ends, BindTransport(e)
  PROVE  ChannelInv'
<1>0. Shape
  BY DEF ChannelInv
<1>1. /\ DOMAIN ch' = Ends /\ \A f \in Ends \ {e} : ch'[f] = ch[f]
      /\ Same(e) /\ ch'[e].hs = ch[e].hs /\ ch'[e].enc = ch[e].enc /\ ch'[e].out = ch[e].out
      /\ DOMAIN ch'[e] = Fields /\ wire' = wire
  BY <1>0 DEF BindTransport, Shape, Same, Fields
<1>2. Shape'
  BY <1>0, <1>1, ShapeKept DEF Shape, Same
<1>3. Ciphertexts' \subseteq Ciphertexts
  BY <1>1, WireKept
<1> QED BY <1>1, <1>2, <1>3, Quiet DEF Same

LEMMA CloseKeeps ==
  ASSUME ChannelInv, NEW e \in Ends, Close(e)
  PROVE  ChannelInv'
BY Shuts DEF Close

LEMMA FeedCiphertextKeeps ==
  ASSUME ChannelInv, NEW e \in Ends, NEW m, FeedCiphertext(e, m)
  PROVE  ChannelInv'
<1>0. Shape
  BY DEF ChannelInv
<1>1. PICK dec, asm : \/ ch' = [ch EXCEPT ![e] = Shut(@)]
                      \/ ch' = [ch EXCEPT ![e].dec = dec, ![e].asm = asm]
  <2> DEFINE d == Decrypted(e, m)
             p == Push(ch[e].asm, ch[e].binding, d.pt)
             dc == d.c
             pa == p.a
  <2>1. \/ ch' = [ch EXCEPT ![e] = Shut(@)]
        \/ ch' = [ch EXCEPT ![e].dec = dc, ![e].asm = pa]
    BY Zenon DEF FeedCiphertext
  <2> HIDE DEF dc, pa
  <2> QED BY <2>1
<1>2. wire' = wire
  BY DEF FeedCiphertext
<1>3. CASE ch' = [ch EXCEPT ![e] = Shut(@)]
  BY <1>2, <1>3, Shuts
<1>4. CASE ch' = [ch EXCEPT ![e].dec = dec, ![e].asm = asm]
  <2>1. /\ DOMAIN ch' = Ends /\ \A f \in Ends \ {e} : ch'[f] = ch[f]
        /\ Same(e) /\ ch'[e].hs = ch[e].hs /\ ch'[e].enc = ch[e].enc /\ ch'[e].out = ch[e].out
        /\ DOMAIN ch'[e] = Fields
    BY <1>0, <1>4 DEF Shape, Same, Fields
  <2>2. Shape'
    BY <1>0, <1>2, <2>1, ShapeKept DEF Shape, Same
  <2>3. Ciphertexts' \subseteq Ciphertexts
    BY <1>2, <2>1, WireKept
  <2> QED BY <2>1, <2>2, <2>3, Quiet DEF Same
<1> QED BY <1>1, <1>3, <1>4

LEMMA HeadAndTail ==
  ASSUME NEW s, IsSeq(s), s # <<>>
  PROVE  IsSeq(Tail(s)) /\ Parts(Tail(s)) \subseteq Parts(s) /\ Parts(<<Head(s)>>) \subseteq Parts(s)
<1>1. PICK S : s \in Seq(S)
  BY DEF IsSeq
<1>2. IsSeq(Tail(s))
  <2>1. Tail(s) \in Seq(S)
    BY <1>1
  <2> QED BY <2>1 DEF IsSeq
<1>3. Parts(Tail(s)) \subseteq Parts(s)
  <2>1. ASSUME NEW i \in DOMAIN Tail(s) PROVE Tail(s)[i] = s[i + 1] /\ i + 1 \in DOMAIN s
    BY <1>1
  <2> QED BY <2>1 DEF Parts
<1>4. Parts(<<Head(s)>>) = {Head(s)}
  BY DEF Parts
<1>5. Head(s) \in Parts(s)
  <2>1. 1 \in DOMAIN s /\ Head(s) = s[1]
    BY <1>1
  <2> QED BY <2>1 DEF Parts
<1> QED BY <1>2, <1>3, <1>4, <1>5

LEMMA SendRecordKeeps ==
  ASSUME ChannelInv, NEW e \in Ends, SendRecord(e)
  PROVE  ChannelInv'
<1>0. Shape
  BY DEF ChannelInv
<1>1. /\ DOMAIN ch' = Ends /\ \A f \in Ends \ {e} : ch'[f] = ch[f]
      /\ Same(e) /\ ch'[e].hs = ch[e].hs /\ ch'[e].enc = ch[e].enc /\ ch'[e].out = Tail(ch[e].out)
      /\ DOMAIN ch'[e] = Fields /\ wire' = wire \cup {<<Head(ch[e].out)>>}
  BY <1>0 DEF SendRecord, Shape, Same, Fields
<1>2. /\ IsSeq(Tail(ch[e].out)) /\ Parts(Tail(ch[e].out)) \subseteq Parts(ch[e].out)
      /\ Parts(<<Head(ch[e].out)>>) \subseteq Parts(ch[e].out)
  BY <1>0, HeadAndTail DEF SendRecord, Shape
<1>3. IsSeq(<<Head(ch[e].out)>>)
  <2> DEFINE x == Head(ch[e].out)
  <2>1. <<x>> \in Seq({x})
    OBVIOUS
  <2> QED BY <2>1 DEF IsSeq
<1>4. Shape'
  BY <1>0, <1>1, <1>2, <1>3, ShapeKept DEF Shape, Same
<1>5. Ciphertexts' \subseteq Ciphertexts
  <2> DEFINE N == {}
  <2>0. Parts(ch[e].out) \subseteq Ciphertexts
    BY InCiphertexts
  <2>1. Parts(ch'[e].out) \subseteq Ciphertexts \cup N
    BY <1>1, <1>2, <2>0
  <2>2. \A m \in wire' \ wire : Parts(m) \subseteq Ciphertexts \cup N
    BY <1>1, <1>2, <2>0
  <2>3. Ciphertexts' \subseteq Ciphertexts \cup N
    BY <1>1, <2>1, <2>2, NewCiphertexts
  <2> QED BY <2>3
<1> QED BY <1>1, <1>4, <1>5, Quiet DEF Same

TransportKey(e, k) ==
    IF e \in Phones THEN \E r : k = Key(PhoneCk3(e, r), 1) ELSE \E r, y : k = Key(HostCk3(e, r, y), 2)

\* only its owner makes a ciphertext with a transport key
LEMMA TransportKeyed ==
  ASSUME NEW e, NEW k, TransportKey(e, k)
  PROVE  k # NoKey /\ \A n \in Nat : MadeUnder(e, k, n)
<1>1. /\ \A r : PhoneCk3(e, r) # <<>> /\ \A y : HostCk3(e, r, y) # <<>>
  BY Lens DEF PhoneCk3, HostCk3
<1>2. k # NoKey
  BY <1>1 DEF TransportKey, Key, NoKey
<1>3. \A n \in Nat : MadeUnder(e, k, n)
  BY DEF MadeUnder, TransportKey
<1> QED BY <1>2, <1>3

LEMMA SendsOwn ==
  ASSUME NEW e \in Ends, ChannelInv, Finished(e)
  PROVE  \E k : TransportKey(e, k) /\ SendsUnder(e, k)
<1>1. Phase(e) /\ IsOpen(e) /\ ch[e].next = "complete"
  BY DEF ChannelInv, Finished
<1>2. CASE e \in Phones
  BY <1>1, <1>2 DEF Phase, PhonePhase, TransportKey
<1>3. CASE e \notin Phones
  BY <1>1, <1>3 DEF Phase, HostPhase, TransportKey
<1> QED BY <1>2, <1>3

LEMMA MadeWithTransport ==
  ASSUME NEW e, NEW k, TransportKey(e, k), NEW x, x.k = k, x.n \in Nat
  PROVE  Late(e)' => MadeBy(e, x)'
<1>1. CASE e \in Phones
  BY <1>1 DEF TransportKey, MadeBy, PhoneMade
<1>2. CASE e \notin Phones
  BY <1>2 DEF TransportKey, MadeBy, HostMade
<1> QED BY <1>1, <1>2

\* a step of e that encrypts N with the nonces from n to n2
Encrypts(e, k, n, n2, N) ==
    /\ TransportKey(e, k) /\ n \in Nat /\ n2 \in 0 .. MaxNonce /\ n <= n2
    /\ ch[e].enc = [k |-> k, n |-> n] /\ ch'[e].enc = [k |-> k, n |-> n2]
    /\ \A x \in Ciphertexts : x.k = k => x.n < n
    /\ Ciphertexts' \subseteq Ciphertexts \cup N
    /\ \A x \in N : x.k = k /\ x.n \in Nat /\ n <= x.n /\ x.n < n2
    /\ \A x, y \in N : x.n = y.n => x = y
    /\ Shape' /\ \A f \in Ends \ {e} : ch'[f] = ch[f]
    /\ Same(e) /\ ch'[e].dec = ch[e].dec /\ ch'[e].asm = ch[e].asm

\* an end that finished encrypts N under its transport key, each under a new nonce
LEMMA Transports ==
  ASSUME NEW e \in Ends, ChannelInv, Finished(e), NEW k, NEW n, NEW n2, NEW N, Encrypts(e, k, n, n2, N)
  PROVE  ChannelInv'
<1>0. /\ Shape' /\ Same(e) /\ TransportKey(e, k) /\ n \in Nat /\ n2 \in 0 .. MaxNonce /\ n <= n2
      /\ \A f \in Ends \ {e} : ch'[f] = ch[f]
      /\ \A x \in Ciphertexts : x.k = k => x.n < n
      /\ ch'[e].enc = [k |-> k, n |-> n2]
      /\ Ciphertexts' \subseteq Ciphertexts \cup N
      /\ \A x \in N : x.k = k /\ x.n \in Nat /\ n <= x.n /\ x.n < n2
      /\ \A x, y \in N : x.n = y.n => x = y
  BY DEF Encrypts
<1> USE <1>0
<1>1. Onward(e) /\ Late(e)'
  BY DEF Onward, Past, Late, Same, Finished
<1>2. AllMade' /\ NoncesAreUnique' /\ \A f \in Ends \ {e} : Phase(f)'
  <2>1. \A x \in N : x.k = NoKey \/ MadeBy(e, x)'
    BY <1>1, MadeWithTransport
  <2>2. \A x, y \in N : x.k # NoKey /\ x.k = y.k /\ x.n = y.n => x = y
    OBVIOUS
  <2>3. ASSUME NEW x \in N, NEW y \in Ciphertexts, x.k # NoKey, MadeBy(e, y), x.k = y.k, x.n = y.n
        PROVE  x = y
    <3>1. n <= x.n /\ y.n < n /\ x.n \in Nat
      BY <2>3
    <3>2. y.n \in Nat
      BY <2>3, <3>1
    <3> QED BY <2>3, <3>1, <3>2
  <2> QED BY <1>1, <2>1, <2>2, <2>3, Adds
<1>3. Bindings' /\ HandshakeAgrees'
  BY AgreementKept DEF ChannelInv, Same
<1>4. SendsUnder(e, k)'
  <2>1. ASSUME NEW x \in Ciphertexts', x.k = k PROVE x.n < n2
    <3>1. CASE x \in N
      BY <3>1
    <3>2. CASE x \in Ciphertexts
      <4>1. x.n < n
        BY <2>1, <3>2
      <4>2. AllMade /\ k # NoKey
        BY TransportKeyed DEF ChannelInv
      <4>3. PICK f \in Ends : MadeBy(f, x)
        BY <2>1, <3>2, <4>2 DEF AllMade
      <4>4. x.n \in Nat
        BY <4>3, MadeOwned, OwnedUnder
      <4>5. n2 \in Nat
        BY NoiseAssumption
      <4> QED BY <4>1, <4>4, <4>5
    <3> QED BY <3>1, <3>2
  <2> QED BY <2>1 DEF SendsUnder
<1>5. Phase(e)'
  <2>1. ch'[e].next = "complete"
    BY DEF Finished, Same
  <2>2. CASE e \in Phones
    <3>1. \E r : SendsUnder(e, Key(PhoneCk3(e, r), 1))'
      BY <1>4, <2>2 DEF TransportKey
    <3> QED BY <2>1, <2>2, <3>1 DEF Phase, PhonePhase
  <2>3. CASE e \notin Phones
    <3>1. \E r, y : SendsUnder(e, Key(HostCk3(e, r, y), 2))'
      BY <1>4, <2>3 DEF TransportKey
    <3> QED BY <2>1, <2>3, <3>1 DEF Phase, HostPhase
  <2> QED BY <2>2, <2>3
<1> QED BY <1>2, <1>3, <1>5 DEF ChannelInv

LEMMA EncryptOk ==
  ASSUME NEW k, NEW n, NEW r, Encrypt([k |-> k, n |-> n], r).ok
  PROVE  n # MaxNonce
<1> DEFINE c == [k |-> k, n |-> n]
<1>1. c.n = n
  OBVIOUS
<1> HIDE DEF c
<1>2. ASSUME n = MaxNonce PROVE FALSE
  <2>1. EncryptWithAd(c, <<>>, r) = [ok |-> FALSE, c |-> c, ct |-> Clear(Junk)]
    BY <1>1, <1>2 DEF EncryptWithAd
  <2> DEFINE j == Clear(Junk)
  <2>2. ~[ok |-> FALSE, c |-> c, ct |-> j].ok
    <3> HIDE DEF j
    <3> QED OBVIOUS
  <2> QED BY <2>1, <2>2 DEF Encrypt, c
<1> QED BY <1>2

\* the steps of the transport that encrypt
LEMMA PhoneMisframesEncrypts ==
  ASSUME ChannelInv, NEW e \in Ends, NEW r, PhoneMisframes(e, r)
  PROVE  \E k, n : Encrypts(e, k, n, n + 1, {Ct(k, n, <<>>, r)})
<1>0. Shape /\ Finished(e)
  BY DEF ChannelInv, PhoneMisframes
<1>1. PICK k : TransportKey(e, k) /\ SendsUnder(e, k)
  BY <1>0, SendsOwn
<1>2. PICK n \in 0 .. MaxNonce : /\ ch[e].enc = [k |-> k, n |-> n]
                                 /\ \A x \in Ciphertexts : x.k = k => x.n < n
  BY <1>1 DEF SendsUnder
<1> DEFINE x == Encrypt(ch[e].enc, r)
           ct == Ct(k, n, <<>>, r)
           c == [k |-> k, n |-> n + 1]
<1>3. x.ok
  BY DEF PhoneMisframes
<1>4. n \in Nat /\ n < MaxNonce /\ MaxNonce \in Nat
  <2>1. n # MaxNonce
    BY <1>2, <1>3, EncryptOk
  <2> QED BY <1>2, <2>1, NoiseAssumption
<1>5. k # NoKey
  BY <1>1, TransportKeyed
<1>6. x.c = c /\ x.ct = ct
  <2>1. x = [ok |-> TRUE, c |-> c, ct |-> ct]
    BY <1>2, <1>4, <1>5, EncryptsKeyed DEF Encrypt
  <2> HIDE DEF x, c, ct
  <2> QED BY <2>1
<1>7. ct.k = k /\ ct.n = n
  BY DEF Ct
<1>8. PICK odd : ch' = [ch EXCEPT ![e].enc = c, ![e].odd = odd]
  BY <1>6 DEF PhoneMisframes
<1>9. wire' = wire \cup {<<ct>>}
  BY <1>6 DEF PhoneMisframes
<1> HIDE DEF x, ct, c
<1>10. /\ DOMAIN ch' = Ends /\ \A f \in Ends \ {e} : ch'[f] = ch[f]
       /\ Same(e) /\ ch'[e].enc = c /\ ch'[e].out = ch[e].out
       /\ DOMAIN ch'[e] = Fields /\ ch'[e].dec = ch[e].dec /\ ch'[e].asm = ch[e].asm
  BY <1>0, <1>8 DEF Shape, Same, Fields
<1>11. IsSeq(<<ct>>)
  <2>1. <<ct>> \in Seq({ct})
    OBVIOUS
  <2> QED BY <2>1 DEF IsSeq
<1>12. Shape'
  BY <1>0, <1>9, <1>10, <1>11, ShapeKept DEF Shape, Same
<1> DEFINE N == {ct}
<1>13. Ciphertexts' \subseteq Ciphertexts \cup N
  <2>1. Parts(<<ct>>) = {ct}
    BY DEF Parts
  <2>2. Parts(ch'[e].out) \subseteq Ciphertexts \cup N
    BY <1>10, InCiphertexts
  <2>3. \A m \in wire' \ wire : Parts(m) \subseteq Ciphertexts \cup N
    BY <1>9, <2>1
  <2> QED BY <1>10, <2>2, <2>3, NewCiphertexts
<1>14. n + 1 \in 0 .. MaxNonce /\ n <= n + 1
  BY <1>4
<1>15. \A y \in N : y.k = k /\ y.n \in Nat /\ n <= y.n /\ y.n < n + 1
  BY <1>4, <1>7
<1>16. \A y, z \in N : y.n = z.n => y = z
  OBVIOUS
<1>17. ch'[e].enc = [k |-> k, n |-> n + 1]
  BY <1>10 DEF c
<1> HIDE DEF N
<1>18. Encrypts(e, k, n, n + 1, N)
  BY <1>1, <1>2, <1>4, <1>10, <1>12, <1>13, <1>14, <1>15, <1>16, <1>17 DEF Encrypts
<1> QED BY <1>18 DEF N, ct

LEMMA PhoneMisframesKeeps ==
  ASSUME ChannelInv, NEW e \in Ends, NEW r, PhoneMisframes(e, r)
  PROVE  ChannelInv'
<1>1. PICK k, n : Encrypts(e, k, n, n + 1, {Ct(k, n, <<>>, r)})
  BY PhoneMisframesEncrypts
<1> QED BY <1>1, Transports DEF PhoneMisframes

\* a message has a number of records
LEMMA Fragments ==
  ASSUME NEW chan, NEW msg, NEW e, NEW n, NEW len \in Lengths
  PROVE  Len(EncodeMessage(chan, msg, Bytes(e, n, len))) \in Nat
<1>1. len \in Nat
  BY ChannelAssumption
<1> DEFINE bytes == Bytes(e, n, len)
           F == FragmentCount(Len(bytes))
<1>2. Len(bytes) = len
  <2> DEFINE b(i) == <<e, n, i>>
             s == [i \in 1 .. len |-> b(i)]
             S == {b(i) : i \in 1 .. len}
  <2>1. s \in Seq(S) /\ Len(s) = len
    <3> HIDE DEF b
    <3> QED BY <1>1
  <2>2. bytes = s
    BY DEF Bytes
  <2> HIDE DEF s, bytes
  <2> QED BY <2>1, <2>2
<1> HIDE DEF bytes
<1>3. F \in Nat
  <2>1. MaxPayload \in Nat \ {0}
    BY FramingAssumption
  <2>2. CeilDiv(len, MaxPayload) \in Nat
    <3>1. len + MaxPayload - 1 \in Nat
      BY <1>1, <2>1
    <3> QED BY <2>1, <3>1 DEF CeilDiv
  <2> QED BY <1>2, <2>2 DEF FragmentCount
<1> HIDE DEF F
<1> DEFINE rec(i) == Record(chan, msg, bytes, i - 1)
           s == [i \in 1 .. F |-> rec(i)]
           S == {rec(i) : i \in 1 .. F}
<1>4. s \in Seq(S) /\ Len(s) = F
  <2> HIDE DEF rec
  <2> QED BY <1>3
<1>5. EncodeMessage(chan, msg, bytes) = s
  BY DEF EncodeMessage, F
<1> HIDE DEF s, rec, S
<1> QED BY <1>3, <1>4, <1>5 DEF bytes

\* a message of e that is encrypted, record by record
Encodes(e, m, records) ==
    /\ sent' = [sent EXCEPT ![e] = Append(@, m)]
    /\ \E k, n, N : /\ Encrypts(e, k, n, n + Len(records), N)
                    /\ \A y \in N : y.pt = records[y.n - n + 1]

LEMMA NextCiphertextsEncrypts ==
  ASSUME ChannelInv, NEW e \in Ends, NEW len \in Lengths, NextCiphertexts(e, len),
         NEW i, i = Len(sent[e]) + 1, NEW m, m = Bytes(e, i, len),
         NEW records, records = EncodeMessage(ch[e].binding, MessageId(e, i), m)
  PROVE  \/ ch' = [ch EXCEPT ![e] = Shut(@)] /\ sent' = sent
         \/ Encodes(e, m, records)
<1>0. Shape /\ Finished(e) /\ wire' = wire
  BY DEF ChannelInv, NextCiphertexts
<1> DEFINE x == Encrypted(ch[e].enc, records)
           xc == x.c
           out == x.out
<1>1. \/ ch' = [ch EXCEPT ![e] = Shut(@)] /\ sent' = sent
      \/ /\ x.ok /\ ch' = [ch EXCEPT ![e].enc = xc, ![e].out = out]
         /\ sent' = [sent EXCEPT ![e] = Append(@, m)]
  BY Zenon DEF NextCiphertexts
<1>3. ASSUME x.ok, ch' = [ch EXCEPT ![e].enc = xc, ![e].out = out], sent' = [sent EXCEPT ![e] = Append(@, m)]
      PROVE  Encodes(e, m, records)
  <2>1. PICK k : TransportKey(e, k) /\ SendsUnder(e, k)
    BY <1>0, SendsOwn
  <2>2. PICK n \in 0 .. MaxNonce : /\ ch[e].enc = [k |-> k, n |-> n]
                                   /\ \A y \in Ciphertexts : y.k = k => y.n < n
    BY <2>1 DEF SendsUnder
  <2>3. Len(records) \in Nat
    BY Fragments
  <2> DEFINE L == Len(records)
             c == [k |-> k, n |-> n + L]
             ct(j) == Ct(k, n + j - 1, <<>>, records[j])
  <2>4. EncryptGood(x, k, n, L, records)
    <3>1. k # NoKey
      BY <2>1, TransportKeyed
    <3>2. EncryptGood(Encrypted([k |-> k, n |-> n], records), k, n, L, records)
      BY <2>3, <3>1, EncryptedIs
    <3> QED BY <2>2, <3>2
  <2>5. /\ n + L <= MaxNonce /\ xc = c
        /\ \E S : out \in Seq(S)
        /\ Len(out) = L
        /\ \A j \in 1 .. L : out[j] = ct(j)
    <3> HIDE DEF x
    <3> QED BY <1>3, <2>4 DEF EncryptGood
  <2>6. n \in Nat /\ MaxNonce \in Nat /\ L \in Nat
    BY <2>2, <2>3, NoiseAssumption
  <2>7. \A j : ct(j).k = k /\ ct(j).n = n + j - 1 /\ ct(j).pt = records[j]
    BY DEF Ct
  <2> HIDE DEF x, xc, out, L, ct
  <2> DEFINE N == Parts(out)
  <2>8. DOMAIN out = 1 .. L
    BY <2>5
  <2>9. \A y \in N : \E j \in 1 .. L : y = ct(j)
    BY <2>5, <2>8 DEF Parts
  <2>10. /\ DOMAIN ch' = Ends /\ \A f \in Ends \ {e} : ch'[f] = ch[f]
         /\ Same(e) /\ ch'[e].enc = xc /\ ch'[e].out = out
         /\ DOMAIN ch'[e] = Fields /\ ch'[e].dec = ch[e].dec /\ ch'[e].asm = ch[e].asm
    BY <1>0, <1>3 DEF Shape, Same, Fields
  <2>11. Shape'
    <3>1. IsSeq(out)
      BY <2>5 DEF IsSeq
    <3> QED BY <1>0, <2>10, <3>1, ShapeKept DEF Shape, Same
  <2>12. Ciphertexts' \subseteq Ciphertexts \cup N
    <3>1. Parts(ch'[e].out) \subseteq Ciphertexts \cup N
      BY <2>10
    <3>2. \A w \in wire' \ wire : Parts(w) \subseteq Ciphertexts \cup N
      BY <1>0
    <3> QED BY <2>10, <3>1, <3>2, NewCiphertexts
  <2>13. n + L \in 0 .. MaxNonce /\ n <= n + L
    BY <2>5, <2>6
  <2>14. ASSUME NEW y \in N PROVE y.k = k /\ y.n \in Nat /\ n <= y.n /\ y.n < n + L
    <3>1. PICK j \in 1 .. L : y = ct(j)
      BY <2>9
    <3>2. y.k = k /\ y.n = n + j - 1
      BY <2>7, <3>1
    <3> HIDE DEF N
    <3> QED BY <2>6, <3>2
  <2>15. ASSUME NEW y \in N, NEW z \in N, y.n = z.n PROVE y = z
    <3>1. PICK j \in 1 .. L : y = ct(j)
      BY <2>9
    <3>2. PICK q \in 1 .. L : z = ct(q)
      BY <2>9
    <3>3. y.n = n + j - 1 /\ z.n = n + q - 1
      BY <2>7, <3>1, <3>2
    <3>4. j = q
      <4>1. j \in Nat /\ q \in Nat
        BY <2>6
      <4>2. n + j - 1 = n + q - 1
        BY <2>15, <3>3
      <4> QED BY <2>6, <4>1, <4>2
    <3> QED BY <3>1, <3>2, <3>4
  <2>16. ch'[e].enc = [k |-> k, n |-> n + L]
    BY <2>5, <2>10 DEF c
  <2>17. ASSUME NEW y \in N PROVE y.pt = records[y.n - n + 1]
    <3>1. PICK j \in 1 .. L : y = ct(j)
      BY <2>9
    <3>2. y.n = n + j - 1 /\ y.pt = records[j]
      BY <2>7, <3>1
    <3>3. y.n - n + 1 = j
      BY <2>6, <3>2
    <3> QED BY <3>2, <3>3
  <2> HIDE DEF N
  <2>18. Encrypts(e, k, n, n + L, N)
    BY <2>1, <2>2, <2>6, <2>10, <2>11, <2>12, <2>13, <2>14, <2>15, <2>16 DEF Encrypts
  <2> QED BY <1>3, <2>17, <2>18 DEF Encodes, L
<1> QED BY <1>1, <1>3

LEMMA NextCiphertextsKeeps ==
  ASSUME ChannelInv, NEW e \in Ends, NEW len \in Lengths, NextCiphertexts(e, len)
  PROVE  ChannelInv'
<1>0. Finished(e) /\ wire' = wire
  BY DEF NextCiphertexts
<1> DEFINE i == Len(sent[e]) + 1
           m == Bytes(e, i, len)
           records == EncodeMessage(ch[e].binding, MessageId(e, i), m)
<1>1. ch' = [ch EXCEPT ![e] = Shut(@)] \/ Encodes(e, m, records)
  BY NextCiphertextsEncrypts
<1>2. CASE ch' = [ch EXCEPT ![e] = Shut(@)]
  BY <1>0, <1>2, Shuts
<1>3. CASE Encodes(e, m, records)
  BY <1>0, <1>3, Transports DEF Encodes
<1> QED BY <1>1, <1>2, <1>3

(***************************************************************************)
(* The steps of the handshake.                                             *)
(***************************************************************************)

LEMMA HsFields ==
  ASSUME NEW i, NEW s, NEW e, NEW rs, NEW re, NEW left, NEW h, NEW ck, NEW k, NEW n, NEW hs,
         hs = Hs(i, s, e, rs, re, left, Sym(h, ck, k, n))
  PROVE  hs.init = i /\ hs.rs = rs /\ hs.y.h = h /\ hs.y.ck = ck
<1> DEFINE y == Sym(h, ck, k, n)
<1>1. y.h = h /\ y.ck = ck
  BY DEF Sym
<1> HIDE DEF y
<1>2. hs.init = i /\ hs.rs = rs /\ hs.y = y
  BY DEF Hs, y
<1> QED BY <1>1, <1>2

\* a channel that was just opened
LEMMA Initializes ==
  ASSUME NEW init \in BOOLEAN, NEW i, NEW s, NEW e, NEW rs
  PROVE  \E h : IsSeq(h) /\ Initialize(init, i, s, e, rs) = Hs(init, s, e, rs, Empty, XK, Sym(h, <<>>, NoKey, 0))
<1> DEFINE a == Clear(i)
           b == Clear(IF init THEN rs ELSE s)
           h1 == Mixed(<<>>, a)
           h2 == Mixed(h1, b)
<1>1. InitializeSymmetric = Sym(<<>>, <<>>, NoKey, 0)
  BY Zenon DEF InitializeSymmetric, Sym, InitializeKey
<1>2. MixHash(InitializeSymmetric, a) = Sym(h1, <<>>, NoKey, 0)
  <2> HIDE DEF a, b
  <2> QED BY <1>1, MixesHash
<1>3. MixHash(Sym(h1, <<>>, NoKey, 0), b) = Sym(h2, <<>>, NoKey, 0)
  <2> HIDE DEF a, b, h1
  <2> QED BY MixesHash
<1>4. Initialize(init, i, s, e, rs) = Hs(init, s, e, rs, Empty, XK, MixHash(MixHash(InitializeSymmetric, a), b))
  BY Zenon DEF Initialize, Hs
<1>5. Initialize(init, i, s, e, rs) = Hs(init, s, e, rs, Empty, XK, Sym(h2, <<>>, NoKey, 0))
  <2> HIDE DEF a, b, h1, h2
  <2> QED BY <1>2, <1>3, <1>4, Zenon
<1>6. IsSeq(h2)
  <2> HIDE DEF a, b
  <2> QED BY EmptyIsSeq, MixedIsSeq
<1> HIDE DEF h2
<1> QED BY <1>5, <1>6

WithPayload(c, p) == [c EXCEPT !.payload = p]

\* the channel after a handshake message
LEMMA Advances ==
  ASSUME NEW e, DOMAIN ch[e] = Fields, NEW hs, NEW p,
         NEW d, d = WithPayload(Advanced(e, hs), p)
  PROVE  /\ DOMAIN d = Fields /\ d.payload = p /\ d.next = After(ch[e].next)
         /\ d.closed = ch[e].closed /\ d.out = ch[e].out /\ d.asm = ch[e].asm
         /\ After(ch[e].next) # "complete" => /\ d.hs = hs /\ d.binding = ch[e].binding
                                              /\ d.peer = ch[e].peer /\ d.enc = ch[e].enc
         /\ After(ch[e].next) = "complete" =>
                /\ d.binding = hs.y.h /\ d.peer = hs.rs
                /\ hs.init = Initiator => d.enc = [k |-> Key(hs.y.ck, 1), n |-> 0]
                /\ hs.init = Responder => d.enc = [k |-> Key(hs.y.ck, 2), n |-> 0]
                /\ hs.init = Initiator => d.dec = [k |-> Key(hs.y.ck, 2), n |-> 0]
                /\ hs.init = Responder => d.dec = [k |-> Key(hs.y.ck, 1), n |-> 0]
<1> DEFINE a == After(ch[e].next)
           c == [ch[e] EXCEPT !.hs = hs, !.next = a]
           keys == Split(hs.y)
           bind == hs.y.h
           peer == hs.rs
           one == InitializeKey([ck |-> hs.y.ck, out |-> 1])
           two == InitializeKey([ck |-> hs.y.ck, out |-> 2])
           enc == IF hs.init THEN keys[1] ELSE keys[2]
           dec == IF hs.init THEN keys[2] ELSE keys[1]
           g == [c EXCEPT !.hs = <<>>, !.binding = bind, !.peer = peer, !.enc = enc, !.dec = dec]
<1>1. Advanced(e, hs) = IF c.next # "complete" THEN c ELSE g
  BY Zenon DEF Advanced
<1>2. /\ DOMAIN c = Fields /\ c.hs = hs /\ c.next = a /\ c.closed = ch[e].closed /\ c.out = ch[e].out /\ c.asm = ch[e].asm
      /\ c.binding = ch[e].binding /\ c.peer = ch[e].peer /\ c.enc = ch[e].enc
  <2> HIDE DEF a
  <2> QED BY DEF Fields
<1>3. keys[1] = one /\ keys[2] = two
  <2>1. keys = <<one, two>>
    BY Zenon DEF Split
  <2> HIDE DEF one, two, keys
  <2> QED BY <2>1
<1>4. /\ hs.init = Initiator => enc = one /\ dec = two
      /\ hs.init = Responder => enc = two /\ dec = one
  <2> HIDE DEF keys, one, two
  <2> QED BY <1>3 DEF Initiator, Responder
<1>5. one = [k |-> Key(hs.y.ck, 1), n |-> 0] /\ two = [k |-> Key(hs.y.ck, 2), n |-> 0]
  BY Zenon DEF InitializeKey, Key
<1> HIDE DEF a, c, keys, bind, peer, one, two, enc, dec
<1>6. /\ DOMAIN g = Fields /\ g.next = a /\ g.closed = ch[e].closed /\ g.out = ch[e].out /\ g.asm = ch[e].asm
      /\ g.binding = bind /\ g.peer = peer /\ g.enc = enc /\ g.dec = dec
  BY <1>2 DEF Fields
<1> HIDE DEF g
<1>7. CASE a # "complete"
  <2>1. Advanced(e, hs) = c
    BY <1>1, <1>2, <1>7
  <2>2. d = [c EXCEPT !.payload = p]
    BY <2>1 DEF WithPayload
  <2>3. /\ DOMAIN d = Fields /\ d.payload = p /\ d.next = c.next /\ d.closed = c.closed /\ d.out = c.out /\ d.asm = c.asm
        /\ d.hs = c.hs /\ d.binding = c.binding /\ d.peer = c.peer /\ d.enc = c.enc
    BY <1>2, <2>2 DEF Fields
  <2> QED BY <1>2, <1>7, <2>3 DEF a
<1>8. CASE a = "complete"
  <2>1. Advanced(e, hs) = g
    BY <1>1, <1>2, <1>8
  <2>2. d = [g EXCEPT !.payload = p]
    BY <2>1 DEF WithPayload
  <2>3. /\ DOMAIN d = Fields /\ d.payload = p /\ d.next = g.next /\ d.closed = g.closed /\ d.out = g.out /\ d.asm = g.asm
        /\ d.binding = g.binding /\ d.peer = g.peer /\ d.enc = g.enc /\ d.dec = g.dec
    BY <1>6, <2>2 DEF Fields
  <2> QED BY <1>4, <1>5, <1>6, <1>8, <2>3 DEF a, bind, peer
<1> QED BY <1>7, <1>8

\* an end that has not finished its handshake moves on
LEMMA Progresses ==
  ASSUME NEW e \in Ends, ChannelInv, Shape', \A f \in Ends \ {e} : ch'[f] = ch[f], IsOpen(e),
         ch[e].next # "complete", ch'[e].binding = ch[e].binding, Onward(e), Phase(e)',
         NEW N, Ciphertexts' \subseteq Ciphertexts \cup N,
         \A x \in N : x.k = NoKey \/ MadeBy(e, x)',
         \A x, y \in N : x.k # NoKey /\ x.k = y.k /\ x.n = y.n => x = y,
         \A y \in Ciphertexts : ~MadeBy(e, y) \/ \A x \in N : x.k # y.k
  PROVE  ChannelInv'
<1>1. \A x \in N, y \in Ciphertexts : x.k # NoKey /\ MadeBy(e, y) /\ x.k = y.k /\ x.n = y.n => x = y
  OBVIOUS
<1>2. AllMade' /\ NoncesAreUnique' /\ \A f \in Ends \ {e} : Phase(f)'
  BY <1>1, Adds
<1>3. ~Completed(e)
  BY DEF ChannelInv, Phase, Completed
<1>4. Bindings' /\ HandshakeAgrees'
  BY <1>3, AgreementKept DEF ChannelInv
<1> QED BY <1>2, <1>4 DEF ChannelInv

LEMMA OpenKeeps ==
  ASSUME ChannelInv, NEW e \in Ends, Open(e)
  PROVE  ChannelInv'
<1>0. Shape /\ wire' = wire
  BY DEF ChannelInv, Open
<1> DEFINE s == IF e \in Phones THEN PhoneKey ELSE HostKey
           rs == IF e \in Phones THEN HostKey ELSE Empty
           next == IF e \in Phones THEN "write1" ELSE "read1"
           init == e \in Phones
<1>1. PICK i : ch' = [ch EXCEPT ![e].next = next, ![e].hs = Initialize(init, i, s, e, rs)]
  BY Zenon DEF Open
<1>2. PICK h : /\ IsSeq(h)
               /\ Initialize(init, i, s, e, rs) = Hs(init, s, e, rs, Empty, XK, Sym(h, <<>>, NoKey, 0))
  <2> HIDE DEF s, rs
  <2>1. init \in BOOLEAN
    OBVIOUS
  <2> HIDE DEF init
  <2> QED BY <2>1, Initializes
<1> DEFINE hs == Hs(init, s, e, rs, Empty, XK, Sym(h, <<>>, NoKey, 0))
<1>3. ch' = [ch EXCEPT ![e].next = next, ![e].hs = hs]
  BY <1>1, <1>2, Zenon
<1> HIDE DEF hs, next
<1>4. ch[e].next = "new" /\ ~ch[e].closed
  <2>1. ch[e] = NotOpened
    BY DEF Open
  <2>2. NotOpened.next = "new" /\ ~NotOpened.closed
    BY DEF NotOpened, Closed
  <2> QED BY <2>1, <2>2
<1>5. /\ DOMAIN ch' = Ends /\ \A f \in Ends \ {e} : ch'[f] = ch[f]
      /\ ch'[e].closed = ch[e].closed /\ ch'[e].next = next /\ ch'[e].hs = hs
      /\ ch'[e].binding = ch[e].binding /\ ch'[e].out = ch[e].out
      /\ DOMAIN ch'[e] = Fields
  BY <1>0, <1>3 DEF Shape, Fields
<1>6. Shape'
  BY <1>0, <1>5, ShapeKept DEF Shape
<1>7. Ciphertexts' \subseteq Ciphertexts
  BY <1>0, <1>5, WireKept
<1>8. Onward(e)
  BY <1>4 DEF Onward, Past, Late
<1>9. ch[e].binding = <<>>
  BY <1>4 DEF ChannelInv, Phase, IsOpen
<1>10. Phase(e)'
  <2>1. CASE e \in Phones
    <3>1. next = "write1" /\ s = PhoneKey /\ rs = HostKey
      BY <2>1 DEF next
    <3>2. init = Initiator
      BY <2>1 DEF Initiator
    <3>3. hs = Hs(Initiator, PhoneKey, e, HostKey, Empty, XK, Sym(h, <<>>, NoKey, 0))
      <4> HIDE DEF init, s, rs
      <4> QED BY <3>1, <3>2 DEF hs
    <3> HIDE DEF init, s, rs
    <3> QED BY <1>2, <1>5, <1>9, <2>1, <3>1, <3>3 DEF Phase, PhonePhase
  <2>2. CASE e \notin Phones
    <3>1. next = "read1" /\ s = HostKey /\ rs = Empty
      BY <2>2 DEF next
    <3>2. init = Responder
      BY <2>2 DEF Responder
    <3>3. hs = Hs(Responder, HostKey, e, Empty, Empty, XK, Sym(h, <<>>, NoKey, 0))
      <4> HIDE DEF init, s, rs
      <4> QED BY <3>1, <3>2 DEF hs
    <3> HIDE DEF init, s, rs
    <3> QED BY <1>2, <1>5, <1>9, <2>2, <3>1, <3>3 DEF Phase, HostPhase
  <2> QED BY <2>1, <2>2
<1> DEFINE N == {}
<1>11. /\ Ciphertexts' \subseteq Ciphertexts \cup N
       /\ \A x \in N : x.k = NoKey \/ MadeBy(e, x)'
       /\ \A x, y \in N : x.k # NoKey /\ x.k = y.k /\ x.n = y.n => x = y
       /\ \A y \in Ciphertexts : ~MadeBy(e, y) \/ \A x \in N : x.k # y.k
  BY <1>7
<1> HIDE DEF N, init
<1> QED BY <1>4, <1>5, <1>6, <1>8, <1>10, <1>11, Progresses DEF IsOpen

\* the three patterns, and the pairs their tokens mix
LEMMA Patterns ==
  /\ Head(XK) = <<"e", "es">> /\ Head(Tail(XK)) = <<"e", "ee">> /\ Head(Tail(Tail(XK))) = <<"s", "se">>
BY DEF XK

LEMMA DhMixes ==
  ASSUME NEW s, NEW e, NEW rs, NEW re, NEW left, NEW y
  PROVE  /\ DhPair(Hs(Initiator, s, e, rs, re, left, y), "es") = {e, rs}
         /\ DhPair(Hs(Initiator, s, e, rs, re, left, y), "ee") = {e, re}
         /\ DhPair(Hs(Initiator, s, e, rs, re, left, y), "se") = {s, re}
         /\ DhPair(Hs(Responder, s, e, rs, re, left, y), "es") = {s, re}
         /\ DhPair(Hs(Responder, s, e, rs, re, left, y), "ee") = {e, re}
         /\ DhPair(Hs(Responder, s, e, rs, re, left, y), "se") = {e, rs}
<1> DEFINE a == Hs(Initiator, s, e, rs, re, left, y)
           b == Hs(Responder, s, e, rs, re, left, y)
<1>1. a.init /\ a.s = s /\ a.e = e /\ a.rs = rs /\ a.re = re
  BY DEF Hs, Initiator
<1>2. ~b.init /\ b.s = s /\ b.e = e /\ b.rs = rs /\ b.re = re
  BY DEF Hs, Responder
<1> HIDE DEF a, b
<1>3. /\ DhPair(a, "es") = {e, rs} /\ DhPair(a, "ee") = {e, re} /\ DhPair(a, "se") = {s, re}
  BY <1>1 DEF DhPair
<1>4. /\ DhPair(b, "es") = {s, re} /\ DhPair(b, "ee") = {e, re} /\ DhPair(b, "se") = {e, rs}
  BY <1>2 DEF DhPair
<1> QED BY <1>3, <1>4 DEF a, b

LEMMA CtFields ==
  ASSUME NEW k, NEW n, NEW ad, NEW pt
  PROVE  /\ Ct(k, n, ad, pt).k = k /\ Ct(k, n, ad, pt).n = n
         /\ Ct(k, n, ad, pt).ad = ad /\ Ct(k, n, ad, pt).pt = pt
BY DEF Ct

\* what writing the second, the third message comes to
Wrote2(v, e, r) ==
    \E g, x : /\ IsSeq(g) /\ x.k = Key(HostCk2(e, r), 0) /\ x.n = 0
              /\ v = Good(Hs(Responder, HostKey, e, Empty, r, Tail(Tail(XK)),
                             Sym(g, HostCk2(e, r), Key(HostCk2(e, r), 0), 1)), <<Clear(e), x>>)
Wrote3(v, p, r, pt) ==
    \E g, x, z :
        /\ IsSeq(g) /\ x.k = Key(PhoneCk2(p, r), 0) /\ x.n = 1
        /\ z = Ct(Key(PhoneCk3(p, r), 0), 0, g, pt)
        /\ v = Good(Hs(Initiator, PhoneKey, p, HostKey, r, Tail(Tail(Tail(XK))),
                       Sym(Mixed(g, z), PhoneCk3(p, r), Key(PhoneCk3(p, r), 0), 1)), <<x, z>>)

\* the three messages as they are written
LEMMA Write1Is ==
  ASSUME NEW p, NEW h, IsSeq(h), NEW pt, NEW hs, NEW v, v = WriteMessage(hs, pt),
         hs = Hs(Initiator, PhoneKey, p, HostKey, Empty, XK, Sym(h, <<>>, NoKey, 0))
  PROVE  \E g, x : /\ IsSeq(g) /\ x.k = Key(PhoneCk1(p), 0) /\ x.n = 0
                   /\ v = Good(Hs(Initiator, PhoneKey, p, HostKey, Empty, Tail(XK),
                                Sym(g, PhoneCk1(p), Key(PhoneCk1(p), 0), 1)), <<Clear(p), x>>)
<1> DEFINE ck == <<>>
           ck1 == PhoneCk1(p)
           pair == {p, HostKey}
           left == XK
           token == "es"
           none == NoKey
           g == Mixed(h, Clear(p))
           x == Ct(Key(ck1, 0), 0, g, pt)
           w == WriteMessage(Hs(Initiator, PhoneKey, p, HostKey, Empty, left, Sym(h, ck, none, 0)), pt)
<1>1. ck1 = Grown(ck, pair)
  BY DEF PhoneCk1, Grown
<1>2. ck1 # <<>>
  BY Lens DEF PhoneCk1
<1>3. DhPair(Hs(Initiator, PhoneKey, p, HostKey, Empty, Tail(left), Sym(g, ck, none, 0)), token) = pair
  <2> HIDE DEF g
  <2> QED BY DhMixes
<1>4. Head(left) = <<"e", token>> /\ token \in {"es", "ee"}
  BY Patterns
<1>5. /\ g = Mixed(h, Clear(p)) /\ x = Ct(Key(ck1, 0), 0, g, pt)
      /\ w = WriteMessage(Hs(Initiator, PhoneKey, p, HostKey, Empty, left, Sym(h, ck, none, 0)), pt)
  BY Zenon
<1> HIDE DEF ck, ck1, pair, left, token, none, g, x, w
<1>6. w = Good(Hs(Initiator, PhoneKey, p, HostKey, Empty, Tail(left), Sym(Mixed(g, x), ck1, Key(ck1, 0), 1)),
               <<Clear(p), x>>)
  BY <1>1, <1>2, <1>3, <1>4, <1>5, WritesEphemeral
<1>7. IsSeq(Mixed(g, x))
  BY <1>5, MixedIsSeq
<1>8. x.k = Key(ck1, 0) /\ x.n = 0
  BY <1>5, CtFields
<1>v. v = w
  BY Zenon DEF w, ck, left, none
<1> QED BY <1>v, <1>5, <1>6, <1>7, <1>8, Zenon DEF ck, ck1, left, none

LEMMA Write2Is ==
  ASSUME NEW e, NEW r, NEW h, IsSeq(h), NEW pt, NEW hs, NEW v, v = WriteMessage(hs, pt),
         hs = Hs(Responder, HostKey, e, Empty, r, Tail(XK), Sym(h, HostCk1(r), Key(HostCk1(r), 0), 1))
  PROVE  Wrote2(v, e, r)
<1> DEFINE ck == HostCk1(r)
           ck1 == HostCk2(e, r)
           pair == {e, r}
           left == Tail(XK)
           token == "ee"
           key == Key(ck, 0)
           g == Mixed(h, Clear(e))
           x == Ct(Key(ck1, 0), 0, g, pt)
           w == WriteMessage(Hs(Responder, HostKey, e, Empty, r, left, Sym(h, ck, key, 1)), pt)
<1>1. ck1 = Grown(ck, pair)
  BY AppendTo1 DEF HostCk1, HostCk2, Grown
<1>2. ck1 # <<>>
  BY Lens DEF HostCk2
<1>3. DhPair(Hs(Responder, HostKey, e, Empty, r, Tail(left), Sym(g, ck, key, 1)), token) = pair
  <2> HIDE DEF g
  <2> QED BY DhMixes
<1>4. Head(left) = <<"e", token>> /\ token \in {"es", "ee"}
  BY Patterns
<1>5. /\ g = Mixed(h, Clear(e)) /\ x = Ct(Key(ck1, 0), 0, g, pt)
      /\ w = WriteMessage(Hs(Responder, HostKey, e, Empty, r, left, Sym(h, ck, key, 1)), pt)
  BY Zenon
<1> HIDE DEF ck, ck1, pair, left, token, key, g, x, w
<1>6. w = Good(Hs(Responder, HostKey, e, Empty, r, Tail(left), Sym(Mixed(g, x), ck1, Key(ck1, 0), 1)),
               <<Clear(e), x>>)
  BY <1>1, <1>2, <1>3, <1>4, <1>5, WritesEphemeral
<1>7. IsSeq(Mixed(g, x))
  BY <1>5, MixedIsSeq
<1>8. x.k = Key(ck1, 0) /\ x.n = 0
  BY <1>5, CtFields
<1>v. v = w
  BY Zenon DEF w, ck, left, key
<1> QED BY <1>v, <1>5, <1>6, <1>7, <1>8, Zenon DEF ck, ck1, left, key, Wrote2

LEMMA Write3Is ==
  ASSUME NEW p, NEW r, NEW h, IsSeq(h), NEW pt, NEW hs, NEW v, v = WriteMessage(hs, pt),
         hs = Hs(Initiator, PhoneKey, p, HostKey, r, Tail(Tail(XK)), Sym(h, PhoneCk2(p, r), Key(PhoneCk2(p, r), 0), 1))
  PROVE  Wrote3(v, p, r, pt)
<1> DEFINE ck == PhoneCk2(p, r)
           ck1 == PhoneCk3(p, r)
           key == Key(ck, 0)
           left == Tail(Tail(XK))
           pair == {PhoneKey, r}
           x == Ct(key, 1, h, PhoneKey)
           g == Mixed(h, x)
           z == Ct(Key(ck1, 0), 0, g, pt)
           w == WriteMessage(Hs(Initiator, PhoneKey, p, HostKey, r, left, Sym(h, ck, key, 1)), pt)
<1>1. ck1 = Grown(ck, pair)
  BY AppendTo2 DEF PhoneCk2, PhoneCk3, Grown
<1>2. ck1 # <<>> /\ ck # <<>>
  BY Lens DEF PhoneCk2, PhoneCk3
<1>3. DhPair(Hs(Initiator, PhoneKey, p, HostKey, r, Tail(left), Sym(g, ck, key, 1 + 1)), "se") = pair
  <2> HIDE DEF g
  <2> QED BY DhMixes
<1>4. Head(left) = <<"s", "se">>
  BY Patterns
<1>5. 1 \in Nat /\ 1 < MaxNonce
  BY NoiseAssumption
<1>6. key # NoKey
  BY <1>2 DEF Key, NoKey
<1>7. /\ x = Ct(key, 1, h, PhoneKey) /\ g = Mixed(h, x) /\ z = Ct(Key(ck1, 0), 0, g, pt)
      /\ w = WriteMessage(Hs(Initiator, PhoneKey, p, HostKey, r, left, Sym(h, ck, key, 1)), pt)
  BY Zenon
<1> HIDE DEF ck, ck1, pair, left, key, g, x, z, w
<1>8. w = Good(Hs(Initiator, PhoneKey, p, HostKey, r, Tail(left), Sym(Mixed(g, z), ck1, Key(ck1, 0), 1)), <<x, z>>)
  BY <1>1, <1>2, <1>3, <1>4, <1>5, <1>6, <1>7, WritesStatic
<1>9. IsSeq(g)
  BY <1>7, MixedIsSeq
<1>10. x.k = key /\ x.n = 1
  BY <1>7, CtFields
<1>v. v = w
  BY Zenon DEF w, ck, left, key
<1> QED BY <1>v, <1>7, <1>8, <1>9, <1>10, Zenon DEF ck, ck1, key, left, Wrote3

\* the three messages as they are read
LEMMA Read1Is ==
  ASSUME NEW e, NEW t, IsSeq(t), NEW hs,
         hs = Hs(Responder, HostKey, e, Empty, Empty, XK, Sym(t, <<>>, NoKey, 0)),
         NEW m, NEW r, r = ReadMessage(hs, m), r.ok
  PROVE  \E x, g : /\ IsSeq(g)
                   /\ r.hs = Hs(Responder, HostKey, e, Empty, x, Tail(XK),
                                Sym(g, HostCk1(x), Key(HostCk1(x), 0), 1))
<1> DEFINE ck == <<>>
           left == XK
           none == NoKey
           own == HostKey
           token == "es"
<1>1. \A x : Grown(ck, {own, x}) = HostCk1(x)
  BY DEF HostCk1, Grown
<1>2. \A x : HostCk1(x) # <<>>
  BY Lens DEF HostCk1
<1>3. \A x, y : DhPair(Hs(Responder, HostKey, e, Empty, x, Tail(left), y), token) = {own, x}
  BY DhMixes
<1>4. Head(left) = <<"e", token>> /\ token \in DhTokens
  BY Patterns DEF DhTokens
<1>5. hs = Hs(Responder, HostKey, e, Empty, Empty, left, Sym(t, ck, none, 0))
  BY Zenon
<1> HIDE DEF ck, left, none, own, token
<1>6. MixesRead(Responder, HostKey, e, Empty, Tail(left), token, own, ck)
  BY <1>1, <1>2, <1>3 DEF MixesRead
<1>7. EphemeralRead(r, Responder, HostKey, e, Empty, Tail(left), t, ck, own)
  BY <1>4, <1>5, <1>6, ReadsEphemeral
<1>8. PICK x, a, b :
         r.hs = Hs(Responder, HostKey, e, Empty, x, Tail(left),
                   Sym(Mixed(Mixed(t, a), b), Grown(ck, {own, x}), Key(Grown(ck, {own, x}), 0), 1))
  BY <1>7, Zenon DEF EphemeralRead
<1>9. IsSeq(Mixed(Mixed(t, a), b))
  BY MixedIsSeq
<1> QED BY <1>1, <1>8, <1>9, Zenon DEF left

LEMMA Read2Is ==
  ASSUME NEW p, NEW t, IsSeq(t), NEW hs,
         hs = Hs(Initiator, PhoneKey, p, HostKey, Empty, Tail(XK), Sym(t, PhoneCk1(p), Key(PhoneCk1(p), 0), 1)),
         NEW m, NEW r, r = ReadMessage(hs, m), r.ok
  PROVE  \E x, g : /\ IsSeq(g)
                   /\ r.hs = Hs(Initiator, PhoneKey, p, HostKey, x, Tail(Tail(XK)),
                                Sym(g, PhoneCk2(p, x), Key(PhoneCk2(p, x), 0), 1))
<1> DEFINE ck == PhoneCk1(p)
           left == Tail(XK)
           key == Key(PhoneCk1(p), 0)
           token == "ee"
<1>1. \A x : Grown(ck, {p, x}) = PhoneCk2(p, x)
  BY AppendTo1 DEF PhoneCk1, PhoneCk2, Grown
<1>2. \A x : PhoneCk2(p, x) # <<>>
  BY Lens DEF PhoneCk2
<1>3. \A x, y : DhPair(Hs(Initiator, PhoneKey, p, HostKey, x, Tail(left), y), token) = {p, x}
  BY DhMixes
<1>4. Head(left) = <<"e", token>> /\ token \in DhTokens
  BY Patterns DEF DhTokens
<1>5. hs = Hs(Initiator, PhoneKey, p, HostKey, Empty, left, Sym(t, ck, key, 1))
  BY Zenon
<1> HIDE DEF ck, left, key, token
<1>6. MixesRead(Initiator, PhoneKey, p, HostKey, Tail(left), token, p, ck)
  BY <1>1, <1>2, <1>3 DEF MixesRead
<1>7. EphemeralRead(r, Initiator, PhoneKey, p, HostKey, Tail(left), t, ck, p)
  BY <1>4, <1>5, <1>6, ReadsEphemeral
<1>8. PICK x, a, b :
         r.hs = Hs(Initiator, PhoneKey, p, HostKey, x, Tail(left),
                   Sym(Mixed(Mixed(t, a), b), Grown(ck, {p, x}), Key(Grown(ck, {p, x}), 0), 1))
  BY <1>7, Zenon DEF EphemeralRead
<1>9. IsSeq(Mixed(Mixed(t, a), b))
  BY MixedIsSeq
<1> QED BY <1>1, <1>8, <1>9, Zenon DEF left

LEMMA Read3Is ==
  ASSUME NEW e, NEW q, NEW t, IsSeq(t), NEW hs,
         hs = Hs(Responder, HostKey, e, Empty, q, Tail(Tail(XK)), Sym(t, HostCk2(e, q), Key(HostCk2(e, q), 0), 1)),
         NEW S, NEW m \in Seq(S), NEW r, r = ReadMessage(hs, m), r.ok
  PROVE  \E x, g, b :
            /\ IsSeq(g)
            /\ r.hs = Hs(Responder, HostKey, e, x, q, Tail(Tail(Tail(XK))),
                         Sym(Mixed(g, b), HostCk3(e, q, x), Key(HostCk3(e, q, x), 0), 1))
            /\ b.k = Key(HostCk3(e, q, x), 0) /\ b.n = 0 /\ b.ad = g /\ b.pt = r.pt
            /\ b \in Parts(m)
<1> DEFINE ck == HostCk2(e, q)
           left == Tail(Tail(XK))
           key == Key(HostCk2(e, q), 0)
<1>1. \A x : Grown(ck, {e, x}) = HostCk3(e, q, x)
  BY AppendTo2 DEF HostCk2, HostCk3, Grown
<1>2. ck # <<>> /\ \A x : HostCk3(e, q, x) # <<>>
  BY Lens DEF HostCk2, HostCk3
<1>3. \A x, y : DhPair(Hs(Responder, HostKey, e, x, q, Tail(left), y), "se") = {e, x}
  BY DhMixes
<1>4. Head(left) = <<"s", "se">>
  BY Patterns
<1>5. hs = Hs(Responder, HostKey, e, Empty, q, left, Sym(t, ck, key, 1))
  BY Zenon
<1>6. key # NoKey
  BY <1>2 DEF Key, NoKey
<1>7. 1 \in Nat /\ 1 < MaxNonce
  BY NoiseAssumption
<1> HIDE DEF ck, left, key
<1>8. MixesStatic(Responder, HostKey, e, q, Tail(left), e, ck)
  BY <1>1, <1>2, <1>3 DEF MixesStatic
<1>9. StaticRead(r, Responder, HostKey, e, q, Tail(left), t, ck, e, m)
  BY <1>4, <1>5, <1>6, <1>7, <1>8, ReadsStatic
<1>10. PICK x, g, b :
          /\ IsSeq(t) => IsSeq(g)
          /\ r.hs = Hs(Responder, HostKey, e, x, q, Tail(left),
                       Sym(Mixed(g, b), Grown(ck, {e, x}), Key(Grown(ck, {e, x}), 0), 1))
          /\ b.k = Key(Grown(ck, {e, x}), 0) /\ b.n = 0 /\ b.ad = g /\ b.pt = r.pt
          /\ b \in Parts(m)
  BY <1>9, Zenon DEF StaticRead
<1> QED BY <1>1, <1>10, Zenon DEF left

LEMMA Afters ==
  /\ After("write1") = "read2" /\ After("read1") = "write2" /\ After("write2") = "read3"
  /\ After("read2") = "write3" /\ After("write3") = "complete" /\ After("read3") = "complete"
BY DEF After

LEMMA GoodFields ==
  ASSUME NEW hs, NEW parts, NEW w, w = Good(hs, parts)
  PROVE  w.hs = hs /\ w.parts = parts
BY DEF Good

LEMMA PairParts ==
  ASSUME NEW a, NEW b
  PROVE  Parts(<<a, b>>) = {a, b} /\ IsSeq(<<a, b>>)
<1>1. Parts(<<a, b>>) = {a, b}
  BY DEF Parts
<1>2. <<a, b>> \in Seq({a, b})
  OBVIOUS
<1> QED BY <1>1, <1>2 DEF IsSeq

\* e went from one state of its handshake to the next
Moved(e, hs, pt) ==
    /\ DOMAIN ch' = Ends /\ \A f \in Ends \ {e} : ch'[f] = ch[f]
    /\ DOMAIN ch'[e] = Fields /\ ch'[e].closed = ch[e].closed /\ ch'[e].out = ch[e].out /\ ch'[e].asm = ch[e].asm
    /\ ch'[e].next = After(ch[e].next) /\ ch'[e].payload = pt
    /\ After(ch[e].next) # "complete" => ch'[e].hs = hs /\ ch'[e].binding = ch[e].binding
    /\ After(ch[e].next) = "complete" =>
          /\ ch'[e].binding = hs.y.h /\ ch'[e].peer = hs.rs
          /\ hs.init = Initiator => ch'[e].enc = [k |-> Key(hs.y.ck, 1), n |-> 0]
          /\ hs.init = Responder => ch'[e].enc = [k |-> Key(hs.y.ck, 2), n |-> 0]
          /\ hs.init = Initiator => ch'[e].dec = [k |-> Key(hs.y.ck, 2), n |-> 0]
          /\ hs.init = Responder => ch'[e].dec = [k |-> Key(hs.y.ck, 1), n |-> 0]

\* write_handshake, and read_handshake where it succeeds, move e on
LEMMA MovesOn ==
  ASSUME ChannelInv, NEW e \in Ends, NEW hs, NEW pt,
         ch' = [ch EXCEPT ![e] = [Advanced(e, hs) EXCEPT !.payload = pt]]
  PROVE  Moved(e, hs, pt)
<1> DEFINE d == [Advanced(e, hs) EXCEPT !.payload = pt]
<1>0. Shape
  BY DEF ChannelInv
<1>1. DOMAIN ch = Ends /\ DOMAIN ch[e] = Fields
  BY <1>0 DEF Shape
<1>2. d = WithPayload(Advanced(e, hs), pt)
  BY Zenon DEF WithPayload
<1> HIDE DEF d
<1>3. ch' = [ch EXCEPT ![e] = d]
  BY DEF d
<1>4. DOMAIN ch' = Ends /\ ch'[e] = d /\ \A f \in Ends \ {e} : ch'[f] = ch[f]
  BY <1>1, <1>3
<1>5. /\ DOMAIN d = Fields /\ d.payload = pt /\ d.next = After(ch[e].next)
      /\ d.closed = ch[e].closed /\ d.out = ch[e].out /\ d.asm = ch[e].asm
      /\ After(ch[e].next) # "complete" => /\ d.hs = hs /\ d.binding = ch[e].binding
                                           /\ d.peer = ch[e].peer /\ d.enc = ch[e].enc
      /\ After(ch[e].next) = "complete" =>
             /\ d.binding = hs.y.h /\ d.peer = hs.rs
             /\ hs.init = Initiator => d.enc = [k |-> Key(hs.y.ck, 1), n |-> 0]
             /\ hs.init = Responder => d.enc = [k |-> Key(hs.y.ck, 2), n |-> 0]
             /\ hs.init = Initiator => d.dec = [k |-> Key(hs.y.ck, 2), n |-> 0]
             /\ hs.init = Responder => d.dec = [k |-> Key(hs.y.ck, 1), n |-> 0]
  BY <1>1, <1>2, Advances
<1> QED BY <1>4, <1>5 DEF Moved

\* a handshake message is two parts
LEMMA Written ==
  ASSUME ChannelInv, NEW e \in Ends, NEW hs, NEW pt, Moved(e, hs, pt), NEW a, NEW b,
         wire' = wire \cup {<<a, b>>}
  PROVE  Shape' /\ Ciphertexts' \subseteq Ciphertexts \cup {a, b}
<1> DEFINE N == {a, b}
<1>0. Shape
  BY DEF ChannelInv
<1>1. Shape'
  BY <1>0, PairParts, ShapeKept DEF Moved, Shape
<1>2. Ciphertexts' \subseteq Ciphertexts \cup N
  <2>1. Parts(ch'[e].out) \subseteq Ciphertexts \cup N
    BY InCiphertexts DEF Moved
  <2>2. \A m \in wire' \ wire : Parts(m) \subseteq Ciphertexts \cup N
    BY PairParts
  <2> QED BY <2>1, <2>2, NewCiphertexts DEF Moved
<1> QED BY <1>1, <1>2

LEMMA ClearHasNoKey ==
  ASSUME NEW x
  PROVE  Clear(x).k = NoKey
BY DEF Clear

\* what an end has made before its handshake is over
LEMMA PhoneMadeBefore ==
  ASSUME NEW p \in Phones, IsOpen(p), ch[p].next # "complete", NEW x, MadeBy(p, x)
  PROVE  x.k = Key(PhoneCk1(p), 0) /\ ch[p].next \notin {"new", "write1"}
BY DEF MadeBy, PhoneMade, Past, Late, IsOpen

LEMMA HostMadeBefore ==
  ASSUME NEW h, h \notin Phones, IsOpen(h), ch[h].next # "complete", NEW x, MadeBy(h, x)
  PROVE  (\E r : x.k = Key(HostCk2(h, r), 0)) /\ ch[h].next \notin {"new", "read1", "write2"}
BY DEF MadeBy, HostMade, Past, Late, IsOpen

\* the first and the second message
LEMMA WritesOne ==
  ASSUME ChannelInv, NEW e \in Ends, IsOpen(e), ch[e].next \in {"write1", "write2"},
         NEW hs, NEW pt, Moved(e, hs, pt), NEW x, wire' = wire \cup {<<Clear(e), x>>},
         MadeBy(e, x)', Phase(e)'
  PROVE  ChannelInv'
<1> DEFINE a == Clear(e)
           N == {a, x}
<1>1. a.k = NoKey
  BY ClearHasNoKey
<1> HIDE DEF a
<1>2. Shape' /\ Ciphertexts' \subseteq Ciphertexts \cup N
  BY Written DEF a
<1>3. ch[e].next # "complete" /\ After(ch[e].next) # "complete"
  BY Afters
<1>4. ch'[e].binding = ch[e].binding /\ \A f \in Ends \ {e} : ch'[f] = ch[f]
  BY <1>3 DEF Moved
<1>5. Onward(e)
  BY <1>3, Afters DEF Onward, Past, Late, Moved, IsOpen
<1>6. \A y \in N : y.k = NoKey \/ MadeBy(e, y)'
  BY <1>1
<1>7. \A y, z \in N : y.k # NoKey /\ y.k = z.k /\ y.n = z.n => y = z
  BY <1>1
<1>8. Phase(e)
  BY DEF ChannelInv
<1>9. ASSUME NEW y, MadeBy(e, y) PROVE FALSE
  <2>1. CASE e \in Phones
    <3>1. ch[e].next = "write1"
      BY <1>8, <2>1 DEF Phase, PhonePhase
    <3> QED BY <1>3, <1>9, <2>1, <3>1, PhoneMadeBefore
  <2>2. CASE e \notin Phones
    <3>1. ch[e].next = "write2"
      BY <1>8, <2>2 DEF Phase, HostPhase
    <3> QED BY <1>3, <1>9, <2>2, <3>1, HostMadeBefore
  <2> QED BY <2>1, <2>2
<1>10. \A y \in Ciphertexts : ~MadeBy(e, y) \/ \A z \in N : z.k # y.k
  BY <1>9
<1> HIDE DEF N
<1> QED BY <1>2, <1>3, <1>4, <1>5, <1>6, <1>7, <1>10, Progresses

\* one that is not the last goes out
WritesAnother(e, pt) ==
    \E hs, x : /\ Moved(e, hs, pt) /\ wire' = wire \cup {<<Clear(e), x>>}
              /\ x.k.out = 0 /\ MadeBy(e, x)' /\ Phase(e)'

LEMMA Write1Sends ==
  ASSUME ChannelInv, NEW e \in Ends, IsOpen(e), ch[e].next = "write1", e \in Phones, NEW pt, NEW w,
         w = WriteMessage(ch[e].hs, pt),
         ch' = [ch EXCEPT ![e] = [Advanced(e, w.hs) EXCEPT !.payload = pt]],
         wire' = wire \cup {w.parts}
  PROVE  WritesAnother(e, pt)
<1>1. Phase(e)
  BY DEF ChannelInv
<1>2. PICK h : IsSeq(h) /\ ch[e].hs = Hs(Initiator, PhoneKey, e, HostKey, Empty, XK, Sym(h, <<>>, NoKey, 0))
  BY <1>1 DEF Phase, PhonePhase
<1>3. PICK g, x : /\ IsSeq(g) /\ x.k = Key(PhoneCk1(e), 0) /\ x.n = 0
                  /\ w = Good(Hs(Initiator, PhoneKey, e, HostKey, Empty, Tail(XK),
                                 Sym(g, PhoneCk1(e), Key(PhoneCk1(e), 0), 1)), <<Clear(e), x>>)
  BY <1>2, Write1Is
<1> DEFINE hs == Hs(Initiator, PhoneKey, e, HostKey, Empty, Tail(XK), Sym(g, PhoneCk1(e), Key(PhoneCk1(e), 0), 1))
           parts == <<Clear(e), x>>
<1>4. w = Good(hs, parts)
  BY <1>3
<1>5. parts = <<Clear(e), x>> /\ hs = Hs(Initiator, PhoneKey, e, HostKey, Empty, Tail(XK), Sym(g, PhoneCk1(e), Key(PhoneCk1(e), 0), 1))
  BY Zenon
<1> HIDE DEF hs, parts
<1>6. w.hs = hs /\ w.parts = parts
  BY <1>4, GoodFields
<1>7. Moved(e, hs, pt)
  BY <1>6, MovesOn
<1>8. wire' = wire \cup {<<Clear(e), x>>}
  BY <1>5, <1>6, Zenon
<1>9. ch'[e].next = "read2" /\ ch'[e].hs = hs /\ ch'[e].binding = <<>> /\ ~ch'[e].closed
  BY <1>1, <1>7, Afters DEF Moved, Phase, IsOpen
<1>10. MadeBy(e, x)'
  BY <1>3, <1>9 DEF MadeBy, PhoneMade, Past
<1>11. Phase(e)'
  BY <1>3, <1>5, <1>9 DEF Phase, PhonePhase
<1>12. x.k.out = 0
  BY <1>3 DEF Key
<1> QED BY <1>7, <1>8, <1>10, <1>11, <1>12, Zenon DEF WritesAnother

LEMMA Write2Sends ==
  ASSUME ChannelInv, NEW e \in Ends, IsOpen(e), ch[e].next = "write2", e \notin Phones, NEW pt, NEW w,
         w = WriteMessage(ch[e].hs, pt),
         ch' = [ch EXCEPT ![e] = [Advanced(e, w.hs) EXCEPT !.payload = pt]],
         wire' = wire \cup {w.parts}
  PROVE  WritesAnother(e, pt)
<1>1. Phase(e)
  BY DEF ChannelInv
<1>2. PICK h, r : /\ IsSeq(h)
                  /\ ch[e].hs = Hs(Responder, HostKey, e, Empty, r, Tail(XK),
                                   Sym(h, HostCk1(r), Key(HostCk1(r), 0), 1))
  BY <1>1 DEF Phase, HostPhase
<1>3. PICK g, x : /\ IsSeq(g) /\ x.k = Key(HostCk2(e, r), 0) /\ x.n = 0
                  /\ w = Good(Hs(Responder, HostKey, e, Empty, r, Tail(Tail(XK)),
                                 Sym(g, HostCk2(e, r), Key(HostCk2(e, r), 0), 1)), <<Clear(e), x>>)
  <2>1. Wrote2(w, e, r)
    BY <1>2, Write2Is
  <2> QED BY <2>1, Zenon DEF Wrote2
<1> DEFINE hs == Hs(Responder, HostKey, e, Empty, r, Tail(Tail(XK)), Sym(g, HostCk2(e, r), Key(HostCk2(e, r), 0), 1))
           parts == <<Clear(e), x>>
<1>4. w = Good(hs, parts)
  BY <1>3
<1>5. /\ parts = <<Clear(e), x>>
      /\ hs = Hs(Responder, HostKey, e, Empty, r, Tail(Tail(XK)), Sym(g, HostCk2(e, r), Key(HostCk2(e, r), 0), 1))
  BY Zenon
<1> HIDE DEF hs, parts
<1>6. w.hs = hs /\ w.parts = parts
  BY <1>4, GoodFields
<1>7. Moved(e, hs, pt)
  BY <1>6, MovesOn
<1>8. wire' = wire \cup {<<Clear(e), x>>}
  BY <1>5, <1>6, Zenon
<1>9. ch'[e].next = "read3" /\ ch'[e].hs = hs /\ ch'[e].binding = <<>> /\ ~ch'[e].closed
  BY <1>1, <1>7, Afters DEF Moved, Phase, IsOpen
<1>10. MadeBy(e, x)'
  BY <1>3, <1>9 DEF MadeBy, HostMade, Past
<1>11. Phase(e)'
  BY <1>3, <1>5, <1>9 DEF Phase, HostPhase
<1>12. x.k.out = 0
  BY <1>3 DEF Key
<1> QED BY <1>7, <1>8, <1>10, <1>11, <1>12, Zenon DEF WritesAnother

\* the last handshake message, as its writer and as its reader end with it
Finishes(e, hs, rs, g, z, ck) ==
    /\ IsSeq(g) /\ z.k = Key(ck, 0) /\ z.n = 0 /\ z.ad = g
    /\ hs.init = (IF e \in Phones THEN Initiator ELSE Responder) /\ hs.rs = rs /\ hs.y.h = Mixed(g, z) /\ hs.y.ck = ck

LEMMA Write3Finishes ==
  ASSUME ChannelInv, NEW e \in Ends, IsOpen(e), ch[e].next = "write3", e \in Phones, NEW pt, NEW w,
         w = WriteMessage(ch[e].hs, pt),
         ch' = [ch EXCEPT ![e] = [Advanced(e, w.hs) EXCEPT !.payload = pt]],
         wire' = wire \cup {w.parts}
  PROVE  \E r, g, x, z, hs :
            /\ x.k = Key(PhoneCk2(e, r), 0) /\ x.n = 1 /\ z.pt = pt /\ wire' = wire \cup {<<x, z>>}
            /\ Moved(e, hs, pt) /\ Finishes(e, hs, HostKey, g, z, PhoneCk3(e, r))
<1>1. Phase(e)
  BY DEF ChannelInv
<1>2. PICK h, r : /\ IsSeq(h)
                  /\ ch[e].hs = Hs(Initiator, PhoneKey, e, HostKey, r, Tail(Tail(XK)),
                                   Sym(h, PhoneCk2(e, r), Key(PhoneCk2(e, r), 0), 1))
  BY <1>1 DEF Phase, PhonePhase
<1> DEFINE k2 == Key(PhoneCk2(e, r), 0)
           k3 == Key(PhoneCk3(e, r), 0)
<1>3. PICK g, x, z :
         /\ IsSeq(g) /\ x.k = k2 /\ x.n = 1 /\ z = Ct(k3, 0, g, pt)
         /\ w = Good(Hs(Initiator, PhoneKey, e, HostKey, r, Tail(Tail(Tail(XK))),
                        Sym(Mixed(g, z), PhoneCk3(e, r), Key(PhoneCk3(e, r), 0), 1)), <<x, z>>)
  <2>1. Wrote3(w, e, r, pt)
    BY <1>2, Write3Is
  <2> QED BY <2>1, Zenon DEF Wrote3
<1> DEFINE hs == Hs(Initiator, PhoneKey, e, HostKey, r, Tail(Tail(Tail(XK))),
                    Sym(Mixed(g, z), PhoneCk3(e, r), Key(PhoneCk3(e, r), 0), 1))
           parts == <<x, z>>
<1>4. w = Good(hs, parts)
  BY <1>3
<1>5. parts = <<x, z>>
  BY Zenon
<1>6. hs.init = Initiator /\ hs.rs = HostKey /\ hs.y.h = Mixed(g, z) /\ hs.y.ck = PhoneCk3(e, r)
  <2> DEFINE b == Mixed(g, z)
             left == Tail(Tail(Tail(XK)))
             one == 1
  <2>1. hs = Hs(Initiator, PhoneKey, e, HostKey, r, left, Sym(b, PhoneCk3(e, r), k3, one))
    BY Zenon
  <2> HIDE DEF hs, b, left, k3, one
  <2>2. hs.init = Initiator /\ hs.rs = HostKey /\ hs.y.h = b /\ hs.y.ck = PhoneCk3(e, r)
    BY <2>1, HsFields
  <2> QED BY <2>2 DEF b
<1>7. z.k = k3 /\ z.n = 0 /\ z.ad = g /\ z.pt = pt
  BY <1>3, CtFields
<1>8. k2 = Key(PhoneCk2(e, r), 0) /\ k3 = Key(PhoneCk3(e, r), 0)
  BY Zenon
<1> HIDE DEF hs, parts, k2, k3
<1>9. w.hs = hs /\ w.parts = parts
  BY <1>4, GoodFields
<1>10. Moved(e, hs, pt)
  BY <1>9, MovesOn
<1>11. wire' = wire \cup {<<x, z>>}
  BY <1>5, <1>9, Zenon
<1>12. Finishes(e, hs, HostKey, g, z, PhoneCk3(e, r))
  BY <1>3, <1>6, <1>7, <1>8 DEF Finishes
<1> QED BY <1>3, <1>7, <1>8, <1>10, <1>11, <1>12

\* after the third message the phone is done and nothing was sent under its
\* transport key
LEMMA Write3Keeps ==
  ASSUME ChannelInv, NEW e \in Ends, IsOpen(e), ch[e].next = "write3", e \in Phones, NEW pt, NEW w,
         w = WriteMessage(ch[e].hs, pt),
         ch' = [ch EXCEPT ![e] = [Advanced(e, w.hs) EXCEPT !.payload = pt]],
         wire' = wire \cup {w.parts}
  PROVE  ChannelInv'
<1>1. Phase(e)
  BY DEF ChannelInv
<1>2. PICK r, g, x, z, hs :
         /\ x.k = Key(PhoneCk2(e, r), 0) /\ x.n = 1 /\ z.pt = pt /\ wire' = wire \cup {<<x, z>>}
         /\ Moved(e, hs, pt) /\ Finishes(e, hs, HostKey, g, z, PhoneCk3(e, r))
  BY Write3Finishes
<1> DEFINE k2 == Key(PhoneCk2(e, r), 0)
           k3 == Key(PhoneCk3(e, r), 0)
           key == Key(PhoneCk3(e, r), 1)
           N == {x, z}
<1>3. IsSeq(g) /\ x.k = k2 /\ x.n = 1
  BY <1>2 DEF Finishes
<1>6. hs.init = Initiator /\ hs.rs = HostKey /\ hs.y.h = Mixed(g, z) /\ hs.y.ck = PhoneCk3(e, r)
  BY <1>2 DEF Finishes
<1>7. z.k = k3 /\ z.n = 0 /\ z.ad = g /\ z.pt = pt
  BY <1>2 DEF Finishes
<1>8. k2 # k3 /\ k2 # key /\ k3 # key /\ Key(PhoneCk1(e), 0) # k2 /\ Key(PhoneCk1(e), 0) # k3
      /\ Key(PhoneCk1(e), 0) # key
  <2>1. PhoneCk2(e, r) # PhoneCk3(e, r) /\ PhoneCk1(e) # PhoneCk2(e, r) /\ PhoneCk1(e) # PhoneCk3(e, r)
    BY Lens DEF PhoneCk1, PhoneCk2, PhoneCk3
  <2> QED BY <2>1 DEF Key
<1>9. k2 = Key(PhoneCk2(e, r), 0) /\ k3 = Key(PhoneCk3(e, r), 0) /\ key = Key(PhoneCk3(e, r), 1)
  BY Zenon
<1> HIDE DEF k2, k3, key
<1>11. Moved(e, hs, pt)
  BY <1>2
<1>12. wire' = wire \cup {<<x, z>>}
  BY <1>2
<1>13. /\ ch'[e].next = "complete" /\ ~ch'[e].closed /\ ch'[e].binding = Mixed(g, z)
       /\ ch'[e].peer = HostKey /\ ch'[e].payload = pt
       /\ \A f \in Ends \ {e} : ch'[f] = ch[f]
  BY <1>6, <1>11, Afters DEF Moved, IsOpen
<1>14. ch'[e].enc = [k |-> key, n |-> 0]
  BY <1>6, <1>9, <1>11, Afters DEF Moved
<1>15. Shape' /\ Ciphertexts' \subseteq Ciphertexts \cup N
  BY <1>11, <1>12, Written
<1>16. Onward(e)
  BY <1>13 DEF Onward, Past, Late, IsOpen
<1>17. MadeBy(e, x)' /\ MadeBy(e, z)'
  <2>1. Late(e)'
    BY <1>13 DEF Late
  <2>2. PhoneMade(e, x)'
    BY <1>3, <1>9, <2>1 DEF PhoneMade
  <2>3. PhoneMade(e, z)'
    BY <1>3, <1>7, <1>9, <1>13, <2>1 DEF PhoneMade
  <2> QED BY <2>2, <2>3 DEF MadeBy
<1>18. \A y \in N : y.k = NoKey \/ MadeBy(e, y)'
  BY <1>17
<1>19. \A y, q \in N : y.k # NoKey /\ y.k = q.k /\ y.n = q.n => y = q
  BY <1>3, <1>7, <1>8
<1>20. ASSUME NEW y, MadeBy(e, y) PROVE y.k = Key(PhoneCk1(e), 0)
  BY <1>20, PhoneMadeBefore
<1>21. \A y \in N, q \in Ciphertexts : y.k # NoKey /\ MadeBy(e, q) /\ y.k = q.k /\ y.n = q.n => y = q
  BY <1>3, <1>7, <1>8, <1>20
<1>22. AllMade' /\ NoncesAreUnique' /\ \A f \in Ends \ {e} : Phase(f)'
  <2> HIDE DEF N
  <2> QED BY <1>13, <1>15, <1>16, <1>18, <1>19, <1>21, Adds
<1>23. Bindings' /\ HandshakeAgrees'
  <2>1. ~Completed(e)
    BY <1>1 DEF Phase, Completed
  <2>2. Closing(e, ch'[e].binding)
    <3>1. Mixed(g, z) = Append(g, <<k3, 0, pt>>)
      BY <1>7 DEF Mixed
    <3>2. IsSeq(g) /\ ch'[e].binding = Append(g, <<k3, 0, pt>>)
      BY <1>3, <1>13, <3>1
    <3>3. \E q : k3 = Key(PhoneCk3(e, q), 0)
      BY <1>9
    <3> QED BY <3>2, <3>3, Zenon DEF Closing
  <2> QED BY <1>13, <2>1, <2>2, PhoneCompletes DEF ChannelInv
<1>24. SendsUnder(e, key)'
  <2>1. ASSUME NEW y \in Ciphertexts', y.k = key PROVE FALSE
    <3>1. y \in Ciphertexts
      BY <1>3, <1>7, <1>8, <1>15, <2>1
    <3>2. key # NoKey
      BY <1>9, TransportKeyed DEF TransportKey
    <3>3. PICK f \in Ends : MadeBy(f, y)
      BY <2>1, <3>1, <3>2 DEF ChannelInv, AllMade
    <3>4. CASE f = e
      BY <1>8, <1>20, <2>1, <3>3, <3>4
    <3>5. CASE f # e
      <4>1. MadeUnder(f, key, y.n)
        BY <2>1, <3>3, MadeOwned
      <4> QED BY <1>9, <3>5, <4>1, TransportIsOwn
    <3> QED BY <3>4, <3>5
  <2>2. 0 \in 0 .. MaxNonce
    BY NoiseAssumption
  <2> QED BY <1>14, <2>1, <2>2 DEF SendsUnder
<1>25. Phase(e)'
  BY <1>9, <1>13, <1>24 DEF Phase, PhonePhase
<1> QED BY <1>15, <1>22, <1>23, <1>25 DEF ChannelInv

LEMMA WriteHandshakeKeeps ==
  ASSUME ChannelInv, NEW e \in Ends, WriteHandshake(e)
  PROVE  ChannelInv'
<1>1. IsOpen(e) /\ ch[e].next \in {"write1", "write2", "write3"}
  BY DEF WriteHandshake
<1>2. PICK pt : LET w == WriteMessage(ch[e].hs, pt)
                IN /\ ch' = [ch EXCEPT ![e] = [Advanced(e, w.hs) EXCEPT !.payload = pt]]
                   /\ wire' = wire \cup {w.parts}
  BY Zenon DEF WriteHandshake
<1> DEFINE w == WriteMessage(ch[e].hs, pt)
<1>3. w = WriteMessage(ch[e].hs, pt)
  OBVIOUS
<1>4. /\ ch' = [ch EXCEPT ![e] = [Advanced(e, w.hs) EXCEPT !.payload = pt]]
      /\ wire' = wire \cup {w.parts}
  BY <1>2, Zenon
<1> HIDE DEF w
<1>5. Phase(e)
  BY DEF ChannelInv
<1>6. CASE e \in Phones
  <2>1. ch[e].next = "write1" \/ ch[e].next = "write3"
    BY <1>1, <1>5, <1>6 DEF Phase, PhonePhase
  <2>2. CASE ch[e].next = "write1"
    <3>1. WritesAnother(e, pt)
      BY <1>1, <1>3, <1>4, <1>6, <2>2, Write1Sends
    <3> QED BY <1>1, <2>2, <3>1, WritesOne DEF WritesAnother
  <2>3. CASE ch[e].next = "write3"
    BY <1>1, <1>3, <1>4, <1>6, <2>3, Write3Keeps
  <2> QED BY <2>1, <2>2, <2>3
<1>7. CASE e \notin Phones
  <2>1. ch[e].next = "write2"
    BY <1>1, <1>5, <1>7 DEF Phase, HostPhase
  <2>2. WritesAnother(e, pt)
    BY <1>1, <1>3, <1>4, <1>7, <2>1, Write2Sends
  <2> QED BY <1>1, <2>1, <2>2, WritesOne DEF WritesAnother
<1> QED BY <1>6, <1>7

\* a part with a key is as it was sent, whatever was damaged around it
LEMMA ArrivingParts ==
  ASSUME Shape, NEW m \in Arriving
  PROVE  /\ IsSeq(m) /\ \A x \in Parts(m) : x.k = NoKey \/ x \in Ciphertexts
<1>1. CASE m \in wire
  <2>1. IsSeq(m)
    BY <1>1 DEF Shape
  <2>2. ASSUME NEW x \in Parts(m) PROVE x \in Ciphertexts
    BY <1>1, InCiphertexts
  <2> QED BY <2>1, <2>2
<1>2. CASE m \notin wire
  <2> DEFINE junk == Clear(Junk)
  <2>0. PICK m0 \in wire : \E i \in DOMAIN m0 : m = [m0 EXCEPT ![i] = junk]
    BY <1>2 DEF Arriving
  <2>1. PICK i \in DOMAIN m0 : m = [m0 EXCEPT ![i] = junk]
    BY <2>0
  <2>2. junk.k = NoKey
    BY ClearHasNoKey
  <2> HIDE DEF junk
  <2>3. PICK S : m0 \in Seq(S)
    BY DEF Shape, IsSeq
  <2> DEFINE T == S \cup {junk}
  <2>4. m0 \in Seq(T) /\ junk \in T
    BY <2>3
  <2> HIDE DEF T
  <2>5. m \in Seq(T)
    BY <2>1, <2>4
  <2>6. ASSUME NEW x \in Parts(m) PROVE x.k = NoKey \/ x \in Ciphertexts
    <3>1. PICK j \in DOMAIN m : x = m[j]
      BY DEF Parts
    <3>2. DOMAIN m = DOMAIN m0
      BY <2>1
    <3>3. CASE j = i
      BY <2>1, <2>2, <3>1, <3>2, <3>3
    <3>4. CASE j # i
      <4>1. x = m0[j]
        BY <2>1, <3>1, <3>2, <3>4
      <4>2. x \in Parts(m0)
        BY <3>2, <4>1 DEF Parts
      <4> QED BY <4>2, InCiphertexts
    <3> QED BY <3>3, <3>4
  <2> QED BY <2>5, <2>6 DEF IsSeq
<1> QED BY <1>1, <1>2

\* the first two messages only move their reader on
LEMMA ReadsOne ==
  ASSUME ChannelInv, NEW e \in Ends, IsOpen(e), ch[e].next \in {"read1", "read2"},
         NEW hs, NEW pt, Moved(e, hs, pt), wire' = wire, Phase(e)'
  PROVE  ChannelInv'
<1> DEFINE N == {}
<1>0. Shape
  BY DEF ChannelInv
<1>1. ch[e].next # "complete" /\ After(ch[e].next) # "complete"
  BY Afters
<1>2. ch'[e].binding = ch[e].binding /\ \A f \in Ends \ {e} : ch'[f] = ch[f]
  BY <1>1 DEF Moved
<1>3. Shape'
  BY <1>0, ShapeKept DEF Moved, Shape
<1>4. Ciphertexts' \subseteq Ciphertexts
  BY WireKept DEF Moved
<1>5. Phase(e)
  BY DEF ChannelInv
<1>6. Onward(e)
  <2>1. CASE e \in Phones
    <3>1. ch[e].next = "read2"
      BY <1>5, <2>1 DEF Phase, PhonePhase
    <3> QED BY <1>1, <3>1, Afters DEF Onward, Past, Late, Moved, IsOpen
  <2>2. CASE e \notin Phones
    <3>1. ch[e].next = "read1"
      BY <1>5, <2>2 DEF Phase, HostPhase
    <3> QED BY <1>1, <3>1, Afters DEF Onward, Past, Late, Moved, IsOpen
  <2> QED BY <2>1, <2>2
<1>7. /\ Ciphertexts' \subseteq Ciphertexts \cup N
      /\ \A x \in N : x.k = NoKey \/ MadeBy(e, x)'
      /\ \A x, y \in N : x.k # NoKey /\ x.k = y.k /\ x.n = y.n => x = y
      /\ \A y \in Ciphertexts : ~MadeBy(e, y) \/ \A x \in N : x.k # y.k
  BY <1>4
<1> HIDE DEF N
<1> QED BY <1>1, <1>2, <1>3, <1>6, <1>7, Progresses

LEMMA Read1Keeps ==
  ASSUME ChannelInv, NEW e \in Ends, IsOpen(e), ch[e].next = "read1", e \notin Phones, NEW m, NEW r,
         r = ReadMessage(ch[e].hs, m), r.ok,
         ch' = [ch EXCEPT ![e] = [Advanced(e, r.hs) EXCEPT !.payload = r.pt]], wire' = wire
  PROVE  ChannelInv'
<1>1. Phase(e)
  BY DEF ChannelInv
<1>2. PICK t : IsSeq(t) /\ ch[e].hs = Hs(Responder, HostKey, e, Empty, Empty, XK, Sym(t, <<>>, NoKey, 0))
  BY <1>1 DEF Phase, HostPhase
<1>3. PICK x, g : /\ IsSeq(g)
                  /\ r.hs = Hs(Responder, HostKey, e, Empty, x, Tail(XK), Sym(g, HostCk1(x), Key(HostCk1(x), 0), 1))
  BY <1>2, Read1Is
<1> DEFINE hs == r.hs
           pt == r.pt
<1>4. Moved(e, hs, pt)
  <2>1. ch' = [ch EXCEPT ![e] = [Advanced(e, hs) EXCEPT !.payload = pt]]
    OBVIOUS
  <2> HIDE DEF hs, pt
  <2> QED BY <2>1, MovesOn
<1>5. ch'[e].next = "write2" /\ ch'[e].hs = hs /\ ch'[e].binding = <<>> /\ ~ch'[e].closed
  <2> HIDE DEF hs, pt
  <2> QED BY <1>1, <1>4, Afters DEF Moved, Phase, IsOpen
<1>6. Phase(e)'
  BY <1>3, <1>5 DEF Phase, HostPhase
<1> HIDE DEF hs, pt
<1> QED BY <1>4, <1>6, ReadsOne

LEMMA Read2Keeps ==
  ASSUME ChannelInv, NEW e \in Ends, IsOpen(e), ch[e].next = "read2", e \in Phones, NEW m, NEW r,
         r = ReadMessage(ch[e].hs, m), r.ok,
         ch' = [ch EXCEPT ![e] = [Advanced(e, r.hs) EXCEPT !.payload = r.pt]], wire' = wire
  PROVE  ChannelInv'
<1>1. Phase(e)
  BY DEF ChannelInv
<1>2. PICK t : /\ IsSeq(t)
               /\ ch[e].hs = Hs(Initiator, PhoneKey, e, HostKey, Empty, Tail(XK),
                                Sym(t, PhoneCk1(e), Key(PhoneCk1(e), 0), 1))
  BY <1>1 DEF Phase, PhonePhase
<1>3. PICK x, g : /\ IsSeq(g)
                  /\ r.hs = Hs(Initiator, PhoneKey, e, HostKey, x, Tail(Tail(XK)),
                               Sym(g, PhoneCk2(e, x), Key(PhoneCk2(e, x), 0), 1))
  BY <1>2, Read2Is
<1> DEFINE hs == r.hs
           pt == r.pt
<1>4. Moved(e, hs, pt)
  <2>1. ch' = [ch EXCEPT ![e] = [Advanced(e, hs) EXCEPT !.payload = pt]]
    OBVIOUS
  <2> HIDE DEF hs, pt
  <2> QED BY <2>1, MovesOn
<1>5. ch'[e].next = "write3" /\ ch'[e].hs = hs /\ ch'[e].binding = <<>> /\ ~ch'[e].closed
  <2> HIDE DEF hs, pt
  <2> QED BY <1>1, <1>4, Afters DEF Moved, Phase, IsOpen
<1>6. Phase(e)'
  BY <1>3, <1>5 DEF Phase, PhonePhase
<1> HIDE DEF hs, pt
<1> QED BY <1>4, <1>6, ReadsOne

\* the last handshake message a host accepts is the one a phone that completed
\* the same handshake sent
LEMMA WhoSentLast ==
  ASSUME ChannelInv, NEW h \in Hosts, NEW q, NEW x, NEW g, NEW b \in Ciphertexts,
         b.k = Key(HostCk3(h, q, x), 0), b.n = 0
  PROVE  /\ q \in Phones /\ x = PhoneKey /\ b.k = Key(PhoneCk3(q, h), 0)
         /\ ch[q].binding = Mixed(b.ad, b) /\ ch[q].peer = HostKey /\ ch[q].payload = b.pt
<1> DEFINE ck == HostCk3(h, q, x)
<1>1. /\ \A p, r : ck # PhoneCk1(p) /\ ck # PhoneCk2(p, r) /\ ck # HostCk2(p, r)
      /\ ck # <<>>
  BY Lens DEF PhoneCk1, PhoneCk2, HostCk2, HostCk3
<1>2. b.k = Key(ck, 0)
  OBVIOUS
<1>3. \A p, r : ck = PhoneCk3(p, r) => {HostKey, q} = {p, HostKey} /\ {h, q} = {p, r} /\ {h, x} = {PhoneKey, r}
  BY Pairs3 DEF HostCk3, PhoneCk3
<1> HIDE DEF ck
<1>4. b.k # NoKey
  BY <1>1, <1>2 DEF Key, NoKey
<1>5. PICK p \in Ends : MadeBy(p, b)
  BY <1>4 DEF ChannelInv, AllMade
<1>6. p \in Phones
  <2>1. SUFFICES ASSUME p \notin Phones PROVE FALSE
    OBVIOUS
  <2>2. HostMade(p, b)
    BY <1>5, <2>1 DEF MadeBy
  <2>3. CASE \E r : b.k = Key(HostCk2(p, r), 0)
    BY <1>1, <1>2, <2>3, KeysDiffer
  <2>4. CASE \E r, y : b.k = Key(HostCk3(p, r, y), 2)
    BY <1>2, <2>4, KeysDiffer
  <2> QED BY <2>2, <2>3, <2>4 DEF HostMade
<1>7. PhoneMade(p, b)
  BY <1>5, <1>6 DEF MadeBy
<1>8. b.k # Key(PhoneCk1(p), 0) /\ \A r : b.k # Key(PhoneCk2(p, r), 0) /\ b.k # Key(PhoneCk3(p, r), 1)
  BY <1>1, <1>2, KeysDiffer
<1>9. PICK r : /\ b.k = Key(PhoneCk3(p, r), 0)
               /\ ch[p].binding = Mixed(b.ad, b) /\ ch[p].peer = HostKey /\ ch[p].payload = b.pt
  BY <1>7, <1>8 DEF PhoneMade
<1>10. ck = PhoneCk3(p, r)
  BY <1>2, <1>9, KeysDiffer
<1>11. q = p
  BY <1>3, <1>10, Cancels
<1>12. r = h
  BY <1>3, <1>10, <1>11, Cancels
<1>13. x = PhoneKey
  BY <1>3, <1>10, <1>12, Cancels
<1> QED BY <1>6, <1>9, <1>11, <1>12, <1>13

LEMMA Read3Finishes ==
  ASSUME ChannelInv, NEW e \in Ends, IsOpen(e), ch[e].next = "read3", e \notin Phones, NEW m \in Arriving, NEW r,
         r = ReadMessage(ch[e].hs, m), r.ok,
         ch' = [ch EXCEPT ![e] = [Advanced(e, r.hs) EXCEPT !.payload = r.pt]], wire' = wire
  PROVE  \E x, q, g, b, hs :
            b \in Parts(m) /\ Moved(e, hs, b.pt) /\ Finishes(e, hs, x, g, b, HostCk3(e, q, x))
<1>0. Shape /\ Phase(e) /\ e \in Hosts
  BY EndsAre DEF ChannelInv
<1>1. PICK t, q : /\ IsSeq(t)
                  /\ ch[e].hs = Hs(Responder, HostKey, e, Empty, q, Tail(Tail(XK)),
                                   Sym(t, HostCk2(e, q), Key(HostCk2(e, q), 0), 1))
  BY <1>0 DEF Phase, HostPhase
<1>2. PICK S : m \in Seq(S)
  BY <1>0, ArrivingParts DEF IsSeq
<1>3. PICK x, g, b :
         /\ IsSeq(g)
         /\ r.hs = Hs(Responder, HostKey, e, x, q, Tail(Tail(Tail(XK))),
                      Sym(Mixed(g, b), HostCk3(e, q, x), Key(HostCk3(e, q, x), 0), 1))
         /\ b.k = Key(HostCk3(e, q, x), 0) /\ b.n = 0 /\ b.ad = g /\ b.pt = r.pt
         /\ b \in Parts(m)
  BY <1>1, <1>2, Read3Is
<1> DEFINE hs == r.hs
           pt == r.pt
<1>4. hs.init = Responder /\ hs.rs = x /\ hs.y.h = Mixed(g, b) /\ hs.y.ck = HostCk3(e, q, x)
  <2> DEFINE f == Mixed(g, b)
             left == Tail(Tail(Tail(XK)))
             one == 1
             k == Key(HostCk3(e, q, x), 0)
  <2>1. hs = Hs(Responder, HostKey, e, x, q, left, Sym(f, HostCk3(e, q, x), k, one))
    BY <1>3, Zenon
  <2> HIDE DEF hs, f, left, k, one
  <2>2. hs.init = Responder /\ hs.rs = x /\ hs.y.h = f /\ hs.y.ck = HostCk3(e, q, x)
    BY <2>1, HsFields
  <2> QED BY <2>2 DEF f
<1>5. Moved(e, hs, pt)
  <2>1. ch' = [ch EXCEPT ![e] = [Advanced(e, hs) EXCEPT !.payload = pt]]
    OBVIOUS
  <2> HIDE DEF hs, pt
  <2> QED BY <2>1, MovesOn
<1>6. pt = b.pt
  BY <1>3
<1> HIDE DEF hs, pt
<1>7. Finishes(e, hs, x, g, b, HostCk3(e, q, x))
  BY <1>3, <1>4 DEF Finishes
<1> QED BY <1>3, <1>5, <1>6, <1>7

\* the third message completes a host, which agrees with the phone that sent it
LEMMA Read3Keeps ==
  ASSUME ChannelInv, NEW e \in Ends, IsOpen(e), ch[e].next = "read3", e \notin Phones, NEW m \in Arriving, NEW r,
         r = ReadMessage(ch[e].hs, m), r.ok,
         ch' = [ch EXCEPT ![e] = [Advanced(e, r.hs) EXCEPT !.payload = r.pt]], wire' = wire
  PROVE  ChannelInv'
<1>0. Shape /\ Phase(e) /\ e \in Hosts
  BY EndsAre DEF ChannelInv
<1>1. PICK x, q, g, b, hs :
            b \in Parts(m) /\ Moved(e, hs, b.pt) /\ Finishes(e, hs, x, g, b, HostCk3(e, q, x))
  BY Read3Finishes
<1> DEFINE key == Key(HostCk3(e, q, x), 2)
<1>3. IsSeq(g) /\ b.k = Key(HostCk3(e, q, x), 0) /\ b.n = 0 /\ b.ad = g /\ b \in Parts(m)
  BY <1>1 DEF Finishes
<1>4. hs.init = Responder /\ hs.rs = x /\ hs.y.h = Mixed(g, b) /\ hs.y.ck = HostCk3(e, q, x)
  BY <1>1 DEF Finishes
<1>5. Moved(e, hs, b.pt)
  BY <1>1
<1>6. key = Key(HostCk3(e, q, x), 2)
  OBVIOUS
<1> HIDE DEF key
<1>7. /\ ch'[e].next = "complete" /\ ~ch'[e].closed /\ ch'[e].binding = Mixed(g, b)
      /\ ch'[e].peer = x /\ ch'[e].payload = b.pt /\ ch'[e].out = ch[e].out
      /\ \A f \in Ends \ {e} : ch'[f] = ch[f]
      /\ DOMAIN ch' = Ends /\ DOMAIN ch'[e] = Fields /\ ch'[e].closed = ch[e].closed
  BY <1>4, <1>5, <1>6, Afters DEF Moved, IsOpen
<1>8. ch'[e].enc = [k |-> key, n |-> 0]
  BY <1>4, <1>5, <1>6, Afters DEF Moved
<1>9. b \in Ciphertexts
  <2>1. b.k # NoKey
    <3>1. HostCk3(e, q, x) # <<>>
      BY Lens DEF HostCk3
    <3> QED BY <1>3, <3>1 DEF Key, NoKey
  <2> QED BY <1>0, <1>3, <2>1, ArrivingParts
<1>10. /\ q \in Phones /\ x = PhoneKey
       /\ ch[q].binding = Mixed(g, b) /\ ch[q].peer = HostKey /\ ch[q].payload = b.pt
  BY <1>0, <1>3, <1>9, WhoSentLast
<1>11. Shape'
  BY <1>0, <1>7, ShapeKept DEF Shape
<1>12. Ciphertexts' \subseteq Ciphertexts
  BY <1>7, WireKept
<1>13. Onward(e)
  BY <1>0, <1>7 DEF Onward, Past, Late, IsOpen
<1>14. AllMade' /\ NoncesAreUnique' /\ \A f \in Ends \ {e} : Phase(f)'
  <2> DEFINE N == {}
  <2>1. /\ Ciphertexts' \subseteq Ciphertexts \cup N
        /\ \A y \in N : y.k = NoKey \/ MadeBy(e, y)'
        /\ \A y, z \in N : y.k # NoKey /\ y.k = z.k /\ y.n = z.n => y = z
        /\ \A y \in N, z \in Ciphertexts : y.k # NoKey /\ MadeBy(e, z) /\ y.k = z.k /\ y.n = z.n => y = z
    BY <1>12
  <2> HIDE DEF N
  <2> QED BY <1>7, <1>13, <2>1, Adds
<1>15. Bindings' /\ HandshakeAgrees'
  <2>1. ~Completed(e)
    BY <1>0 DEF Phase, Completed
  <2>2. Closing(e, ch'[e].binding)
    <3> DEFINE k3 == Key(HostCk3(e, q, x), 0)
               p3 == b.pt
    <3>1. Mixed(g, b) = Append(g, <<k3, 0, p3>>)
      BY <1>3 DEF Mixed
    <3>2. IsSeq(g) /\ ch'[e].binding = Append(g, <<k3, 0, p3>>)
      BY <1>3, <1>7, <3>1
    <3>3. \E s, y : k3 = Key(HostCk3(e, s, y), 0)
      OBVIOUS
    <3> HIDE DEF k3, p3
    <3> QED BY <3>2, <3>3, Zenon DEF Closing
  <2> QED BY <1>0, <1>7, <1>10, <2>1, <2>2, HostCompletes DEF ChannelInv
<1>16. SendsUnder(e, key)'
  <2>1. ASSUME NEW y \in Ciphertexts', y.k = key PROVE FALSE
    <3>1. y \in Ciphertexts
      BY <1>12, <2>1
    <3>2. key # NoKey
      BY <1>6, TransportKeyed DEF TransportKey
    <3>3. PICK f \in Ends : MadeBy(f, y)
      BY <2>1, <3>1, <3>2 DEF ChannelInv, AllMade
    <3>4. CASE f = e
      <4>1. \E s : y.k = Key(HostCk2(e, s), 0)
        BY <1>0, <3>3, <3>4, HostMadeBefore
      <4> QED BY <1>6, <2>1, <4>1, KeysDiffer
    <3>5. CASE f # e
      <4>1. MadeUnder(f, key, y.n)
        BY <2>1, <3>3, MadeOwned
      <4> QED BY <1>6, <3>5, <4>1, TransportIsOwn
    <3> QED BY <3>4, <3>5
  <2>2. 0 \in 0 .. MaxNonce
    BY NoiseAssumption
  <2> QED BY <1>8, <2>1, <2>2 DEF SendsUnder
<1>17. Phase(e)'
  BY <1>6, <1>7, <1>16 DEF Phase, HostPhase
<1> QED BY <1>11, <1>14, <1>15, <1>17 DEF ChannelInv

LEMMA ReadHandshakeKeeps ==
  ASSUME ChannelInv, NEW e \in Ends, NEW m \in Arriving, ReadHandshake(e, m)
  PROVE  ChannelInv'
<1> DEFINE r == ReadMessage(ch[e].hs, m)
           ok == r.ok /\ r.parts = <<>> /\ (ch[e].next # "read3" => r.pt = NoPayload)
           to == [Advanced(e, r.hs) EXCEPT !.payload = r.pt]
<1>1. /\ IsOpen(e) /\ ch[e].next \in {"read1", "read2", "read3"} /\ wire' = wire
      /\ ch' = [ch EXCEPT ![e] = IF ok THEN to ELSE Shut(@)]
  BY Zenon DEF ReadHandshake
<1>2. r = ReadMessage(ch[e].hs, m) /\ to = [Advanced(e, r.hs) EXCEPT !.payload = r.pt] /\ (ok => r.ok)
  BY Zenon
<1> HIDE DEF r, ok, to
<1>3. CASE ~ok
  <2>1. ch' = [ch EXCEPT ![e] = Shut(@)]
    BY <1>1, <1>3
  <2> QED BY <1>1, <2>1, Shuts
<1>4. CASE ok
  <2>0. ch' = [ch EXCEPT ![e] = to]
    BY <1>1, <1>4
  <2>1. ch' = [ch EXCEPT ![e] = [Advanced(e, r.hs) EXCEPT !.payload = r.pt]]
    BY <1>2, <2>0, Zenon
  <2>2. r.ok
    BY <1>2, <1>4
  <2>3. Phase(e)
    BY DEF ChannelInv
  <2>4. CASE e \in Phones
    <3>1. ch[e].next = "read2"
      BY <1>1, <2>3, <2>4 DEF Phase, PhonePhase
    <3> QED BY <1>1, <1>2, <2>1, <2>2, <2>4, <3>1, Read2Keeps
  <2>5. CASE e \notin Phones
    <3>1. ch[e].next = "read1" \/ ch[e].next = "read3"
      BY <1>1, <2>3, <2>5 DEF Phase, HostPhase
    <3>2. CASE ch[e].next = "read1"
      BY <1>1, <1>2, <2>1, <2>2, <2>5, <3>2, Read1Keeps
    <3>3. CASE ch[e].next = "read3"
      BY <1>1, <1>2, <2>1, <2>2, <2>5, <3>3, Read3Keeps
    <3> QED BY <3>1, <3>2, <3>3
  <2> QED BY <2>4, <2>5
<1> QED BY <1>3, <1>4

\* the invariant holds at first and every step keeps it
LEMMA ChannelInvInit == ChannelInit => ChannelInv
<1> SUFFICES ASSUME ChannelInit PROVE ChannelInv
  OBVIOUS
<1>1. /\ DOMAIN NotOpened = Fields /\ NotOpened.closed = FALSE /\ NotOpened.out = <<>> /\ NotOpened.binding = <<>>
      /\ NotOpened.next = "new"
  BY DEF NotOpened, Closed, Fields
<1>2. DOMAIN ch = Ends /\ (\A e \in Ends : ch[e] = NotOpened) /\ wire = {}
  BY DEF ChannelInit
<1> DEFINE d == NotOpened
<1>3. \A e \in Ends : /\ DOMAIN ch[e] = Fields /\ ~ch[e].closed /\ ch[e].closed \in BOOLEAN
                       /\ ch[e].out = <<>> /\ ch[e].binding = <<>> /\ ch[e].next = "new"
  BY <1>1, <1>2
<1>4. Shape
  BY <1>2, <1>3, EmptyIsSeq DEF Shape
<1>5. Ciphertexts = {}
  BY <1>2, <1>3, InCiphertexts, NoParts
<1>6. AllMade /\ NoncesAreUnique
  BY <1>5 DEF AllMade, NoncesAreUnique
<1>7. \A e \in Ends : ~Completed(e)
  BY <1>3 DEF Completed
<1>8. Bindings /\ HandshakeAgrees
  BY <1>7, EndsAre DEF Bindings, HandshakeAgrees
<1>9. \A e \in Ends : Phase(e)
  BY <1>3 DEF Phase, PhonePhase, HostPhase
<1> QED BY <1>4, <1>6, <1>8, <1>9 DEF ChannelInv

LEMMA ChannelInvNext == ChannelInv /\ [ChannelNext]_channelVars => ChannelInv'
<1> SUFFICES ASSUME ChannelInv, [ChannelNext]_channelVars PROVE ChannelInv'
  OBVIOUS
<1>1. CASE UNCHANGED channelVars
  <2>1. ch' = ch /\ wire' = wire
    BY <1>1 DEF channelVars
  <2>2. Ciphertexts' = Ciphertexts
    BY <2>1 DEF Ciphertexts
  <2>3. \A e : (Phase(e)' <=> Phase(e)) /\ (Completed(e)' <=> Completed(e))
    BY <2>1, <2>2 DEF Phase, PhonePhase, HostPhase, SendsUnder, IsOpen, Completed
  <2>4. \A e, x : MadeBy(e, x)' <=> MadeBy(e, x)
    BY <2>1, OthersMade
  <2>5. AllMade' /\ NoncesAreUnique'
    BY <2>2, <2>4 DEF ChannelInv, AllMade, NoncesAreUnique
  <2>6. Bindings' /\ HandshakeAgrees'
    BY <2>1, AgreementKept DEF ChannelInv
  <2>7. Shape'
    BY <2>1 DEF ChannelInv, Shape
  <2> QED BY <2>3, <2>5, <2>6, <2>7 DEF ChannelInv
<1>2. CASE ChannelNext
  <2>1. PICK e \in Ends :
          \/ Open(e) \/ WriteHandshake(e) \/ MarkAdmitted(e) \/ BindTransport(e) \/ Close(e)
          \/ \E m \in Arriving : ReadHandshake(e, m) \/ FeedCiphertext(e, m)
          \/ \E len \in Lengths : NextCiphertexts(e, len)
          \/ SendRecord(e)
          \/ \E r \in Misframed(ch[e], e) : PhoneMisframes(e, r)
    BY <1>2, Zenon DEF ChannelNext
  <2>2. CASE Open(e)
    BY <2>2, OpenKeeps
  <2>3. CASE WriteHandshake(e)
    BY <2>3, WriteHandshakeKeeps
  <2>4. CASE MarkAdmitted(e)
    BY <2>4, MarkAdmittedKeeps
  <2>5. CASE BindTransport(e)
    BY <2>5, BindTransportKeeps
  <2>6. CASE Close(e)
    BY <2>6, CloseKeeps
  <2>7. CASE \E m \in Arriving : ReadHandshake(e, m)
    BY <2>7, ReadHandshakeKeeps
  <2>8. CASE \E m \in Arriving : FeedCiphertext(e, m)
    BY <2>8, FeedCiphertextKeeps
  <2>9. CASE \E len \in Lengths : NextCiphertexts(e, len)
    BY <2>9, NextCiphertextsKeeps
  <2>10. CASE SendRecord(e)
    BY <2>10, SendRecordKeeps
  <2>11. CASE \E r \in Misframed(ch[e], e) : PhoneMisframes(e, r)
    BY <2>11, PhoneMisframesKeeps
  <2> QED BY <2>1, <2>2, <2>3, <2>4, <2>5, <2>6, <2>7, <2>8, <2>9, <2>10, <2>11
<1> QED BY <1>1, <1>2

(***************************************************************************)
(* What is delivered.  First a record and the reassembler (encode_message, *)
(* Reassembler.push): the records of a message, pushed in order, give the  *)
(* message; one that does not fit gives nothing, and blocks the            *)
(* reassembler where it is taken.                                          *)
(***************************************************************************)

Pieces(m) == FragmentCount(Len(m))

\* the reassembler after j records of m
Partial(b, id, m, j) ==
    [msg |-> id, chan |-> b, count |-> Pieces(m), len |-> Len(m), next |-> j,
     bytes |-> SubSeq(m, 1, MinOf(j * MaxPayload, Len(m)))]

LEMMA Halves ==
  ASSUME NEW S, NEW m \in Seq(S), NEW p \in 0 .. Len(m), NEW q \in 0 .. Len(m), p <= q
  PROVE  SubSeq(m, 1, p) \o SubSeq(m, p + 1, q) = SubSeq(m, 1, q)
<1> DEFINE s == SubSeq(m, 1, p)
           t == SubSeq(m, p + 1, q)
           u == SubSeq(m, 1, q)
<1>1. s \in Seq(S) /\ Len(s) = p /\ \A i \in 1 .. p : s[i] = m[i]
  OBVIOUS
<1>2. t \in Seq(S) /\ Len(t) = q - p /\ \A i \in 1 .. q - p : t[i] = m[p + i]
  OBVIOUS
<1>3. u \in Seq(S) /\ Len(u) = q /\ \A i \in 1 .. q : u[i] = m[i]
  OBVIOUS
<1>0. p \in Nat /\ q \in Nat
  OBVIOUS
<1> HIDE DEF s, t, u
<1>4. s \o t \in Seq(S) /\ Len(s \o t) = q
  BY <1>1, <1>2
<1>5. ASSUME NEW i \in 1 .. q PROVE (s \o t)[i] = u[i]
  <2>1. CASE i <= p
    <3>1. i \in 1 .. p
      BY <1>0, <2>1
    <3>2. (s \o t)[i] = s[i]
      BY <1>1, <1>2, <3>1
    <3> QED BY <1>1, <1>3, <3>1, <3>2
  <2>2. CASE i > p
    <3>1. (s \o t)[i] = t[i - p] /\ i - p \in 1 .. q - p
      BY <1>1, <1>2, <2>2
    <3>2. p + (i - p) = i
      BY <1>0
    <3> QED BY <1>2, <1>3, <3>1, <3>2
  <2>3. i <= p \/ i > p
    BY <1>0
  <2> QED BY <2>1, <2>2, <2>3
<1> QED BY <1>3, <1>4, <1>5

\* a slice continues the prefix before it
LEMMA SlicesJoin ==
  ASSUME NEW m, IsSeq(m), NEW j \in Nat
  PROVE  /\ SubSeq(m, 1, MinOf(j * MaxPayload, Len(m))) \o Slice(m, j)
            = SubSeq(m, 1, MinOf((j + 1) * MaxPayload, Len(m)))
         /\ MinOf((j + 1) * MaxPayload, Len(m)) \in 0 .. Len(m)
<1>1. PICK S : m \in Seq(S)
  BY DEF IsSeq
<1> DEFINE L == Len(m)
           a == j * MaxPayload
           b == (j + 1) * MaxPayload
           p == MinOf(a, L)
           q == MinOf(b, L)
<1>2. MaxPayload \in Nat /\ L \in Nat
  BY <1>1, FramingAssumption
<1>3. a \in Nat /\ b = a + MaxPayload
  BY <1>2
<1>4. p \in 0 .. L /\ q \in 0 .. L /\ p <= q
  <2> HIDE DEF a, b, L
  <2> QED BY <1>2, <1>3 DEF MinOf
<1>5. Slice(m, j) = SubSeq(m, a + 1, q)
  BY DEF Slice
<1>6. SubSeq(m, a + 1, q) = SubSeq(m, p + 1, q)
  <2>1. CASE a <= L
    <3>1. p = a
      BY <2>1 DEF MinOf
    <3> HIDE DEF a, p, q
    <3> QED BY <3>1
  <2>2. CASE ~(a <= L)
    <3>1. p = L /\ q = L /\ a > L
      <4> HIDE DEF a, b, L
      <4> QED BY <1>2, <1>3, <2>2 DEF MinOf
    <3> HIDE DEF a, p, q, L
    <3>2. SubSeq(m, a + 1, L) = <<>>
      BY <1>1, <1>2, <1>3, <3>1
    <3>3. SubSeq(m, L + 1, L) = <<>>
      BY <1>1, <1>2
    <3> QED BY <3>1, <3>2, <3>3
  <2> QED BY <2>1, <2>2
<1> HIDE DEF a, b, p, q
<1>7. SubSeq(m, 1, p) \o SubSeq(m, p + 1, q) = SubSeq(m, 1, q)
  BY <1>1, <1>4, Halves
<1>8. SubSeq(m, 1, p) \o Slice(m, j) = SubSeq(m, 1, q) /\ q \in 0 .. L
  BY <1>4, <1>5, <1>6, <1>7
<1> QED BY <1>8 DEF p, q, a, b

LEMMA PiecesIs ==
  ASSUME NEW m, IsSeq(m)
  PROVE  Len(m) \in Nat /\ Pieces(m) \in Nat \ {0}
<1>1. Len(m) \in Nat
  BY DEF IsSeq
<1> DEFINE L == Len(m)
<1>2. MaxPayload \in Nat \ {0}
  BY FramingAssumption
<1>3. CASE L = 0
  BY <1>3 DEF Pieces, FragmentCount
<1>4. CASE L # 0
  <2> HIDE DEF L
  <2>1. L + MaxPayload - 1 \in Nat /\ L + MaxPayload - 1 >= MaxPayload
    BY <1>1, <1>2, <1>4 DEF L
  <2>2. (L + MaxPayload - 1) \div MaxPayload \in Nat \ {0}
    BY <1>2, <2>1
  <2> QED BY <1>4, <2>2 DEF Pieces, FragmentCount, CeilDiv, L
<1> QED BY <1>3, <1>4

\* where the next record goes
Base(a, r) == IF a.msg = NoMessage THEN Begun(r) ELSE a
Extended(a, bytes) == [a EXCEPT !.next = @ + 1, !.bytes = bytes]

\* what comes of a record that is not refused
Pushed(p, a, r, bytes) ==
    /\ r.index = a.next /\ ~(Len(bytes) > a.len)
    /\ IF a.next + 1 = a.count
       THEN Len(bytes) = a.len /\ p.res = "whole" /\ p.a = Idle /\ p.bytes = bytes
       ELSE p.res = "more" /\ p.a = Extended(a, bytes)

\* Reassembler.push where it takes the record
LEMMA Pushes ==
  ASSUME NEW a, NEW b, NEW r, NEW p, p = Push(a, b, r), p.res # "rejected"
  PROVE  /\ Canonical(r) /\ r.chan = b /\ Continues(a, r)
         /\ Pushed(p, Base(a, r), r, Base(a, r).bytes \o r.payload)
<1> DEFINE base == Base(a, r)
           bytes == base.bytes \o r.payload
           refused == \/ ~Canonical(r) \/ r.chan # b
                      \/ ~Continues(a, r)
                      \/ r.index # base.next
                      \/ Len(bytes) > base.len
                      \/ base.next + 1 = base.count /\ Len(bytes) # base.len
           idle == Idle
           rejected == [res |-> "rejected", a |-> idle, bytes |-> <<>>]
           next == Extended(base, bytes)
           more == [res |-> "more", a |-> next, bytes |-> <<>>]
           whole == [res |-> "whole", a |-> idle, bytes |-> bytes]
<1>1. p = IF refused THEN rejected ELSE IF base.next + 1 # base.count THEN more ELSE whole
  BY Zenon DEF Push, Base, Extended
<1>2. rejected.res = "rejected"
  <2> HIDE DEF idle
  <2> QED OBVIOUS
<1>3. more.res = "more" /\ more.a = next
  <2> HIDE DEF next
  <2> QED OBVIOUS
<1>4. whole.res = "whole" /\ whole.a = idle /\ whole.bytes = bytes
  <2> HIDE DEF idle, bytes
  <2> QED OBVIOUS
<1> HIDE DEF rejected, more, whole, next
<1>5. ~refused
  <2> HIDE DEF refused
  <2> QED BY <1>1, <1>2
<1>6. p = IF base.next + 1 # base.count THEN more ELSE whole
  <2> HIDE DEF refused
  <2> QED BY <1>1, <1>5
<1>7. r.index = base.next /\ ~(Len(bytes) > base.len)
  BY <1>5
<1>8. ASSUME base.next + 1 = base.count PROVE Pushed(p, base, r, bytes)
  <2>1. p.res = "whole" /\ p.a = idle /\ p.bytes = bytes
    BY <1>4, <1>6, <1>8
  <2>2. Len(bytes) = base.len
    BY <1>5, <1>8
  <2> HIDE DEF base, bytes, idle
  <2> QED BY <1>8, <1>7, <2>1, <2>2 DEF Pushed, idle
<1>9. ASSUME base.next + 1 # base.count PROVE Pushed(p, base, r, bytes)
  <2>1. p.res = "more" /\ p.a = next
    BY <1>3, <1>6, <1>9
  <2> HIDE DEF base, bytes
  <2> QED BY <1>9, <1>7, <2>1 DEF Pushed, next
<1>10. Pushed(p, base, r, bytes)
  BY <1>8, <1>9
<1> QED BY <1>5, <1>10

LEMMA RecordFields ==
  ASSUME NEW b, NEW id, NEW m, NEW j, NEW r, r = Record(b, id, m, j)
  PROVE  /\ r.chan = b /\ r.msg = id /\ r.index = j /\ r.count = Pieces(m) /\ r.len = Len(m)
         /\ r.payload = Slice(m, j)
<1> DEFINE pl == PayloadLength(Len(m), j)
           s == Slice(m, j)
           c == FragmentCount(Len(m))
           l == Len(m)
<1>1. r = [v1 |-> TRUE, chan |-> b, msg |-> id, index |-> j, count |-> c, len |-> l, plen |-> pl, payload |-> s]
  BY DEF Record
<1>2. c = Pieces(m)
  BY DEF Pieces
<1> HIDE DEF pl, s, c
<1>3. r.chan = b /\ r.msg = id /\ r.index = j /\ r.count = c /\ r.len = l /\ r.payload = s
  BY <1>1
<1> QED BY <1>2, <1>3 DEF s

LEMMA PartialFields ==
  ASSUME NEW b, NEW id, NEW m, NEW j, NEW a, a = Partial(b, id, m, j)
  PROVE  /\ a.msg = id /\ a.chan = b /\ a.count = Pieces(m) /\ a.len = Len(m) /\ a.next = j
         /\ a.bytes = SubSeq(m, 1, MinOf(j * MaxPayload, Len(m)))
<1> DEFINE c == Pieces(m)
           l == Len(m)
           s == SubSeq(m, 1, MinOf(j * MaxPayload, Len(m)))
<1>1. a = [msg |-> id, chan |-> b, count |-> c, len |-> l, next |-> j, bytes |-> s]
  BY DEF Partial
<1> HIDE DEF c, l, s
<1>2. a.msg = id /\ a.chan = b /\ a.count = c /\ a.len = l /\ a.next = j /\ a.bytes = s
  BY <1>1
<1> QED BY <1>2 DEF c, l, s

LEMMA Extends ==
  ASSUME NEW id, NEW b, NEW c, NEW l, NEW j, NEW s, NEW t
  PROVE  Extended([msg |-> id, chan |-> b, count |-> c, len |-> l, next |-> j, bytes |-> s], t)
         = [msg |-> id, chan |-> b, count |-> c, len |-> l, next |-> j + 1, bytes |-> t]
<1> DEFINE a == [msg |-> id, chan |-> b, count |-> c, len |-> l, next |-> j, bytes |-> s]
           i == j + 1
<1>1. a.next = j
  OBVIOUS
<1>2. Extended(a, t) = [a EXCEPT !.next = i, !.bytes = t]
  <2> HIDE DEF a
  <2> QED BY <1>1 DEF Extended
<1> HIDE DEF i
<1> DEFINE a1 == [msg |-> id, chan |-> b, count |-> c, len |-> l, next |-> i, bytes |-> s]
<1>3. [a EXCEPT !.next = i] = a1
  OBVIOUS
<1>4. [a1 EXCEPT !.bytes = t] = [msg |-> id, chan |-> b, count |-> c, len |-> l, next |-> i, bytes |-> t]
  OBVIOUS
<1>5. [a EXCEPT !.next = i, !.bytes = t] = [msg |-> id, chan |-> b, count |-> c, len |-> l, next |-> i, bytes |-> t]
  <2> HIDE DEF a, a1
  <2> QED BY <1>3, <1>4
<1> HIDE DEF a
<1> QED BY <1>2, <1>5 DEF i, a

LEMMA PartialNext ==
  ASSUME NEW b, NEW id, NEW m, NEW j
  PROVE  Extended(Partial(b, id, m, j), SubSeq(m, 1, MinOf((j + 1) * MaxPayload, Len(m)))) = Partial(b, id, m, j + 1)
<1> DEFINE c == Pieces(m)
           l == Len(m)
           s == SubSeq(m, 1, MinOf(j * MaxPayload, Len(m)))
           t == SubSeq(m, 1, MinOf((j + 1) * MaxPayload, Len(m)))
<1>1. /\ Partial(b, id, m, j) = [msg |-> id, chan |-> b, count |-> c, len |-> l, next |-> j, bytes |-> s]
      /\ Partial(b, id, m, j + 1) = [msg |-> id, chan |-> b, count |-> c, len |-> l, next |-> j + 1, bytes |-> t]
  BY DEF Partial
<1> HIDE DEF c, l, s, t
<1>2. Extended(Partial(b, id, m, j), t) = Partial(b, id, m, j + 1)
  BY <1>1, Extends
<1> QED BY <1>2 DEF t

LEMMA Begins ==
  ASSUME NEW b, NEW id, NEW m, IsSeq(m), NEW r, r = Record(b, id, m, 0)
  PROVE  Begun(r) = Partial(b, id, m, 0)
<1> DEFINE c == Pieces(m)
           l == Len(m)
           s == SubSeq(m, 1, MinOf(0 * MaxPayload, Len(m)))
           none == <<>>
           zero == 0
<1>1. r.chan = b /\ r.msg = id /\ r.count = c /\ r.len = l
  BY RecordFields
<1>2. s = none
  <2>1. 0 * MaxPayload = 0 /\ Len(m) \in Nat
    BY FramingAssumption, PiecesIs
  <2>2. MinOf(0 * MaxPayload, Len(m)) = 0
    BY <2>1 DEF MinOf
  <2>3. PICK S : m \in Seq(S)
    BY DEF IsSeq
  <2>4. SubSeq(m, 1, 0) = <<>>
    BY <2>3
  <2> QED BY <2>2, <2>4
<1>3. Partial(b, id, m, 0) = [msg |-> id, chan |-> b, count |-> c, len |-> l, next |-> zero, bytes |-> s]
  BY DEF Partial
<1> HIDE DEF c, l, s
<1>4. Begun(r) = [msg |-> id, chan |-> b, count |-> c, len |-> l, next |-> zero, bytes |-> none]
  <2>1. Begun(r) = [Idle EXCEPT !.msg = id, !.chan = b, !.count = c, !.len = l]
    BY <1>1 DEF Begun
  <2>2. Idle = [msg |-> none, chan |-> none, count |-> zero, len |-> zero, next |-> zero, bytes |-> none]
    BY DEF Idle, NoMessage
  <2> HIDE DEF none, zero
  <2> QED BY <2>1, <2>2
<1> QED BY <1>2, <1>3, <1>4

\* the records of a message, one after the other, make up the message
LEMMA PushesNext ==
  ASSUME NEW b, NEW id, id # NoMessage, NEW m, IsSeq(m), NEW j \in Nat,
         NEW a, a = IF j = 0 THEN Idle ELSE Partial(b, id, m, j),
         NEW r, r = Record(b, id, m, j), NEW p, p = Push(a, b, r), p.res # "rejected"
  PROVE  IF j + 1 = Pieces(m) THEN p.res = "whole" /\ p.a = Idle /\ p.bytes = m
         ELSE p.res = "more" /\ p.a = Partial(b, id, m, j + 1)
<1> DEFINE part == Partial(b, id, m, j)
           bytes == SubSeq(m, 1, MinOf((j + 1) * MaxPayload, Len(m)))
<1>1. Base(a, r) = part
  <2>1. CASE j = 0
    <3>1. a.msg = NoMessage
      BY <2>1 DEF Idle
    <3> QED BY <2>1, <3>1, Begins DEF Base
  <2>2. CASE j # 0
    <3>1. a = part /\ a.msg # NoMessage
      BY <2>2, PartialFields
    <3> QED BY <3>1 DEF Base
  <2> QED BY <2>1, <2>2
<1>2. part.bytes \o r.payload = bytes
  <2>1. part.bytes = SubSeq(m, 1, MinOf(j * MaxPayload, Len(m))) /\ r.payload = Slice(m, j)
    BY RecordFields, PartialFields
  <2> HIDE DEF part
  <2> QED BY <2>1, SlicesJoin
<1>3. part.next = j /\ part.count = Pieces(m) /\ part.len = Len(m)
  BY PartialFields
<1>4. Extended(part, bytes) = Partial(b, id, m, j + 1)
  BY PartialNext
<1>5. Len(bytes) = Len(m) => bytes = m
  <2> DEFINE q == MinOf((j + 1) * MaxPayload, Len(m))
  <2>1. q \in 0 .. Len(m)
    BY SlicesJoin
  <2>2. PICK S : m \in Seq(S)
    BY DEF IsSeq
  <2> HIDE DEF q
  <2>3. Len(SubSeq(m, 1, q)) = q /\ SubSeq(m, 1, Len(m)) = m
    BY <2>1, <2>2
  <2>4. bytes = SubSeq(m, 1, q)
    BY DEF q
  <2> QED BY <2>3, <2>4
<1>6. Pushed(p, part, r, bytes)
  <2>1. Pushed(p, Base(a, r), r, Base(a, r).bytes \o r.payload)
    BY Pushes
  <2> HIDE DEF part, bytes
  <2> QED BY <1>1, <1>2, <2>1
<1> HIDE DEF part, bytes
<1> QED BY <1>3, <1>4, <1>5, <1>6 DEF Pushed

OddRecord(b, f) == Misframed([binding |-> b], f)

LEMMA MaxPayloadIs == MaxPayload \in Nat \ {0} /\ MaxLogical \in Nat /\ MaxMessages \in Nat
BY FramingAssumption, ChannelAssumption

LEMMA BytesAre ==
  ASSUME NEW e, NEW n, NEW len \in Nat
  PROVE  IsSeq(Bytes(e, n, len)) /\ Len(Bytes(e, n, len)) = len
<1> DEFINE s == Bytes(e, n, len)
           S == {<<e, n, i>> : i \in 1 .. len}
<1>1. s \in [1 .. len -> S]
  BY DEF Bytes
<1>2. s \in Seq(S) /\ Len(s) = len
  <2> HIDE DEF s, S
  <2> QED BY <1>1
<1> QED BY <1>2 DEF IsSeq

LEMMA IdsDiffer ==
  ASSUME NEW f, NEW i, NEW g, NEW j
  PROVE  MessageId(f, i) = MessageId(g, j) => f = g /\ i = j
BY DEF MessageId

LEMMA IdIsSome ==
  ASSUME NEW f, NEW i
  PROVE  MessageId(f, i) # NoMessage
BY DEF MessageId, NoMessage

\* a record that does not fit is none of a message the phone hands over
OddFields(f, r) ==
    \/ /\ r.msg = MessageId(f, 0) /\ r.index = 0
       /\ r.chan = <<>> \/ r.len = MaxPayload + 1 \/ r.len = MaxLogical + 1
    \/ r.msg = MessageId(f, MaxMessages + 1) /\ r.index = 1

LEMMA OddFieldsAre ==
  ASSUME NEW b, NEW f, NEW r \in OddRecord(b, f)
  PROVE  OddFields(f, r)
<1> DEFINE m == Bytes(f, 0, MaxPayload + 1)
           lm == Bytes(f, MaxMessages + 1, MaxPayload + 1)
           rec == Record(b, MessageId(f, 0), m, 0)
           last == Record(b, MessageId(f, MaxMessages + 1), lm, 1)
           nochan == [rec EXCEPT !.chan = <<>>]
           nocount == [rec EXCEPT !.count = 1]
           nolen == [rec EXCEPT !.len = MaxLogical + 1]
<1>1. r \in {rec, last, nochan, nocount, nolen}
  <2>1. [binding |-> b].binding = b
    OBVIOUS
  <2> QED BY <2>1 DEF OddRecord, Misframed
<1>2. Len(m) = MaxPayload + 1
  BY MaxPayloadIs, BytesAre
<1>3. /\ rec.chan = b /\ rec.msg = MessageId(f, 0) /\ rec.index = 0 /\ rec.len = MaxPayload + 1
  <2> HIDE DEF m
  <2> QED BY <1>2, RecordFields
<1>4. last.msg = MessageId(f, MaxMessages + 1) /\ last.index = 1
  <2> HIDE DEF lm
  <2> QED BY RecordFields
<1>5. /\ nochan.msg = rec.msg /\ nochan.index = rec.index /\ nochan.chan = <<>>
      /\ nocount.msg = rec.msg /\ nocount.index = rec.index /\ nocount.len = rec.len
      /\ nolen.msg = rec.msg /\ nolen.index = rec.index /\ nolen.len = MaxLogical + 1
  <2> DEFINE id == MessageId(f, 0)
             pl == PayloadLength(Len(m), 0)
             s == Slice(m, 0)
             c == FragmentCount(Len(m))
             l == Len(m)
             z == 0
             none == <<>>
             one == 1
             long == MaxLogical + 1
  <2>1. rec = [v1 |-> TRUE, chan |-> b, msg |-> id, index |-> z, count |-> c, len |-> l, plen |-> pl, payload |-> s]
    BY DEF Record
  <2>2. nochan = [rec EXCEPT !.chan = none] /\ nocount = [rec EXCEPT !.count = one] /\ nolen = [rec EXCEPT !.len = long]
    OBVIOUS
  <2> HIDE DEF id, pl, s, c, l, z, none, one, long, rec, nochan, nocount, nolen
  <2>3. nochan.msg = rec.msg /\ nochan.index = rec.index /\ nochan.chan = none
    BY <2>1, <2>2
  <2>4. nocount.msg = rec.msg /\ nocount.index = rec.index /\ nocount.len = rec.len
    BY <2>1, <2>2
  <2>5. nolen.msg = rec.msg /\ nolen.index = rec.index /\ nolen.len = long
    BY <2>1, <2>2
  <2> QED BY <2>3, <2>4, <2>5 DEF none, long
<1> HIDE DEF rec, last, nochan, nocount, nolen
<1> QED BY <1>1, <1>3, <1>4, <1>5 DEF OddFields

LEMMA BegunIs ==
  ASSUME NEW r
  PROVE  Begun(r) = [msg |-> r.msg, chan |-> r.chan, count |-> r.count, len |-> r.len, next |-> 0, bytes |-> <<>>]
<1> DEFINE none == <<>>
           zero == 0
           c == r.count
           l == r.len
           i == r.msg
           b == r.chan
<1>1. Begun(r) = [Idle EXCEPT !.msg = i, !.chan = b, !.count = c, !.len = l]
  BY DEF Begun
<1>2. Idle = [msg |-> none, chan |-> none, count |-> zero, len |-> zero, next |-> zero, bytes |-> none]
  BY DEF Idle, NoMessage
<1> HIDE DEF none, zero, c, l, i, b
<1>3. Begun(r) = [msg |-> i, chan |-> b, count |-> c, len |-> l, next |-> zero, bytes |-> none]
  BY <1>1, <1>2
<1> QED BY <1>3 DEF none, zero, c, l, i, b

\* a reassembler that took a lone record of the phone
Stuck(a, f) == a.msg = MessageId(f, 0) /\ a.next = 1

LEMMA TwoPieces == FragmentCount(MaxPayload + 1) # 1
<1> DEFINE M == MaxPayload
<1>1. M \in Nat \ {0}
  BY MaxPayloadIs
<1> HIDE DEF M
<1>2. M + 1 # 0 /\ (M + 1) + M - 1 = 2 * M
  BY <1>1
<1>3. (2 * M) \div M = 2
  BY <1>1
<1> QED BY <1>2, <1>3 DEF FragmentCount, CeilDiv, M

\* taken first, such a record leaves the reassembler with a message that never ends
LEMMA PushOdd ==
  ASSUME NEW f, NEW b, b # <<>>, NEW r \in OddRecord(b, f), NEW p, p = Push(Idle, b, r), p.res # "rejected"
  PROVE  p.res = "more" /\ Stuck(p.a, f)
<1> DEFINE base == Begun(r)
           idle == Idle
           bytes == base.bytes \o r.payload
<1>1. idle.msg = NoMessage
  BY DEF Idle
<1>2. Base(idle, r) = base
  <2> HIDE DEF idle
  <2> QED BY <1>1 DEF Base
<1>3. Canonical(r) /\ r.chan = b /\ Continues(idle, r) /\ Pushed(p, base, r, bytes)
  <2> HIDE DEF idle, base
  <2>1. p = Push(idle, b, r)
    BY DEF idle
  <2> QED BY <1>2, <2>1, Pushes
<1>4. r.index = 0
  <2> HIDE DEF idle
  <2> QED BY <1>1, <1>3 DEF Continues
<1>5. r.msg = MessageId(f, 0) /\ (r.len = MaxPayload + 1 \/ r.len = MaxLogical + 1)
  BY <1>3, <1>4, OddFieldsAre DEF OddFields
<1>6. r.len <= MaxLogical /\ r.count = FragmentCount(r.len)
  BY <1>3 DEF Canonical
<1>7. r.count # 1
  BY <1>5, <1>6, TwoPieces, MaxPayloadIs
<1> DEFINE c == r.count
           l == r.len
           none == <<>>
           id == r.msg
           ch0 == r.chan
<1>8. base = [msg |-> id, chan |-> ch0, count |-> c, len |-> l, next |-> 0, bytes |-> none]
  BY BegunIs
<1> HIDE DEF bytes, base, c, l, none, id, ch0
<1>9. base.next = 0 /\ base.count = c
  BY <1>8
<1>10. p.res = "more" /\ p.a = Extended(base, bytes)
  BY <1>3, <1>7, <1>9 DEF Pushed, c
<1>11. Extended(base, bytes) = [msg |-> id, chan |-> ch0, count |-> c, len |-> l, next |-> 0 + 1, bytes |-> bytes]
  BY <1>8, Extends
<1>12. Extended(base, bytes).msg = id /\ Extended(base, bytes).next = 0 + 1
  BY <1>11
<1> QED BY <1>5, <1>10, <1>12 DEF Stuck, id

LEMMA StuckRejects ==
  ASSUME NEW f, NEW b, NEW a, Stuck(a, f), NEW r, NEW p, p = Push(a, b, r), p.res # "rejected",
         \/ r \in OddRecord(b, f)
         \/ \E i \in Nat \ {0} : r.msg = MessageId(f, i)
  PROVE  FALSE
<1>1. a.msg = MessageId(f, 0) /\ a.next = 1 /\ a.msg # NoMessage
  BY IdIsSome DEF Stuck
<1>2. Base(a, r) = a
  BY <1>1 DEF Base
<1>3. Continues(a, r) /\ Pushed(p, a, r, a.bytes \o r.payload)
  BY <1>2, Pushes
<1>4. r.msg = MessageId(f, 0)
  BY <1>1, <1>3 DEF Continues
<1>5. r.index = 1
  BY <1>1, <1>3 DEF Pushed
<1>6. OddFields(f, r) => r.msg = MessageId(f, MaxMessages + 1)
  BY <1>5 DEF OddFields
<1>7. MaxMessages + 1 # 0
  BY MaxPayloadIs
<1> QED BY <1>4, <1>6, <1>7, OddFieldsAre, IdsDiffer

\* in the middle of a message nothing else is taken
LEMMA OddInside ==
  ASSUME NEW f, NEW b, NEW i \in 1 .. MaxMessages, NEW m, NEW j, NEW a, a = Partial(b, MessageId(f, i), m, j),
         NEW r \in OddRecord(b, f), NEW p, p = Push(a, b, r), p.res # "rejected"
  PROVE  FALSE
<1>1. a.msg = MessageId(f, i) /\ a.msg # NoMessage
  BY PartialFields, IdIsSome
<1>2. Continues(a, r)
  BY Pushes
<1>3. r.msg = MessageId(f, i)
  BY <1>1, <1>2 DEF Continues
<1>4. OddFields(f, r)
  BY OddFieldsAre
<1>5. i # 0 /\ i # MaxMessages + 1
  BY MaxPayloadIs
<1> QED BY <1>3, <1>4, <1>5, IdsDiffer DEF OddFields

(***************************************************************************)
(* The records under one key are a chain: by their nonces they are the     *)
(* pieces of the messages the end handed over, in order, with records that *)
(* do not fit in between.                                                  *)
(***************************************************************************)

\* x carries the piece j of the message i of s
Real(b, s, f, i, j, x) ==
    i \in 1 .. Len(s) /\ j \in Nat /\ j < Pieces(s[i]) /\ x.pt = Record(b, MessageId(f, i), s[i], j)

Odd(b, f, x) == x.pt \in OddRecord(b, f)

\* what may come after that piece
Follows(b, s, f, i, j, y) ==
    \/ Odd(b, f, y)
    \/ IF j + 1 < Pieces(s[i]) THEN Real(b, s, f, i, j + 1, y) ELSE Real(b, s, f, i + 1, 0, y)

First(b, s, f, y) == Odd(b, f, y) \/ Real(b, s, f, 1, 0, y)

\* the records under one key are those of the messages, in order, and some that do not fit
Chain(X, b, s, f) ==
    /\ \A x \in X : Odd(b, f, x) \/ \E i, j : Real(b, s, f, i, j, x)
    /\ \A x, y \in X : y.n = x.n + 1 => \A i, j : Real(b, s, f, i, j, x) => Follows(b, s, f, i, j, y)
    /\ \A x \in X : x.n = 0 => First(b, s, f, x)

\* the message of the last one before the nonce n is the last and whole
EndsAt(X, b, s, f, n) ==
    /\ \A x \in X : x.n + 1 = n => \A i, j : Real(b, s, f, i, j, x) => i = Len(s) /\ j + 1 = Pieces(s[i])
    /\ n = 0 => Len(s) = 0

Messages(s) == IsSeq(s) /\ Len(s) <= MaxMessages /\ \A i \in 1 .. Len(s) : IsSeq(s[i])

LEMMA LengthIs ==
  ASSUME NEW s, IsSeq(s)
  PROVE  Len(s) \in Nat
BY DEF IsSeq

LEMMA RealFields ==
  ASSUME NEW b, NEW s, NEW f, NEW i, NEW j, NEW x, Real(b, s, f, i, j, x)
  PROVE  x.pt.msg = MessageId(f, i) /\ x.pt.index = j
<1> DEFINE r == x.pt
           m == s[i]
           id == MessageId(f, i)
<1>1. r = Record(b, id, m, j)
  BY DEF Real
<1> HIDE DEF r, m, id
<1>2. r.msg = id /\ r.index = j
  BY <1>1, RecordFields
<1> QED BY <1>2 DEF r, id

\* a record is one piece of one message, or none
LEMMA RealAgain ==
  ASSUME NEW b, NEW s, NEW s2, NEW f, NEW i, NEW j, NEW i2, NEW j2, NEW x, Real(b, s, f, i, j, x), Real(b, s2, f, i2, j2, x)
  PROVE  i = i2 /\ j = j2
BY RealFields, IdsDiffer

LEMMA OddIsNotReal ==
  ASSUME NEW b, NEW s, NEW f, NEW i, NEW j, NEW x, Messages(s), Odd(b, f, x), Real(b, s, f, i, j, x)
  PROVE  FALSE
<1>1. i \in 1 .. Len(s)
  BY DEF Real
<1>2. x.pt.msg = MessageId(f, i)
  BY RealFields
<1>3. OddFields(f, x.pt)
  BY OddFieldsAre DEF Odd
<1>4. Len(s) \in Nat /\ Len(s) <= MaxMessages
  BY LengthIs DEF Messages
<1>5. i # 0 /\ i # MaxMessages + 1
  BY <1>1, <1>4, MaxPayloadIs
<1> QED BY <1>2, <1>3, <1>5, IdsDiffer DEF OddFields

LEMMA ChainSubset ==
  ASSUME NEW X, NEW Y, Y \subseteq X, NEW b, NEW s, NEW f, NEW n
  PROVE  /\ Chain(X, b, s, f) => Chain(Y, b, s, f)
         /\ EndsAt(X, b, s, f, n) => EndsAt(Y, b, s, f, n)
<1>1. Chain(X, b, s, f) => Chain(Y, b, s, f)
  <2> SUFFICES ASSUME Chain(X, b, s, f) PROVE Chain(Y, b, s, f)
    OBVIOUS
  <2>1. \A x \in Y : Odd(b, f, x) \/ \E i, j : Real(b, s, f, i, j, x)
    BY DEF Chain
  <2>2. \A x, y \in Y : y.n = x.n + 1 => \A i, j : Real(b, s, f, i, j, x) => Follows(b, s, f, i, j, y)
    BY DEF Chain
  <2>3. \A x \in Y : x.n = 0 => First(b, s, f, x)
    BY DEF Chain
  <2> QED BY <2>1, <2>2, <2>3 DEF Chain
<1>2. EndsAt(X, b, s, f, n) => EndsAt(Y, b, s, f, n)
  BY DEF EndsAt
<1> QED BY <1>1, <1>2

LEMMA NoChain ==
  ASSUME NEW b, NEW s, NEW f
  PROVE  Chain({}, b, s, f) /\ (Len(s) = 0 => EndsAt({}, b, s, f, 0))
BY DEF Chain, EndsAt

\* the phone adds a record that does not fit
LEMMA ChainOdd ==
  ASSUME NEW X, NEW b, NEW s, NEW f, NEW n \in Nat, Messages(s), Chain(X, b, s, f), EndsAt(X, b, s, f, n),
         \A x \in X : x.n \in Nat /\ x.n < n,
         NEW c, c.n = n, Odd(b, f, c), NEW Y, Y \subseteq X \cup {c}
  PROVE  Chain(Y, b, s, f) /\ EndsAt(Y, b, s, f, n + 1)
<1> DEFINE Z == X \cup {c}
<1>1. \A x \in Z : Odd(b, f, x) \/ \E i, j : Real(b, s, f, i, j, x)
  BY DEF Chain
<1>2. ASSUME NEW x \in Z, NEW y \in Z, y.n = x.n + 1, NEW i, NEW j, Real(b, s, f, i, j, x)
      PROVE  Follows(b, s, f, i, j, y)
  <2>1. x # c
    BY <1>2, OddIsNotReal
  <2>2. CASE y = c
    BY <2>2 DEF Follows
  <2>3. CASE y # c
    BY <1>2, <2>1, <2>3 DEF Chain
  <2> QED BY <2>2, <2>3
<1>3. \A x \in Z : x.n = 0 => First(b, s, f, x)
  BY DEF Chain, First
<1>4. Chain(Z, b, s, f)
  BY <1>1, <1>2, <1>3 DEF Chain
<1>5. ASSUME NEW x \in Z, x.n + 1 = n + 1, NEW i, NEW j, Real(b, s, f, i, j, x) PROVE FALSE
  <2>1. x = c
    BY <1>5
  <2> QED BY <1>5, <2>1, OddIsNotReal
<1>6. EndsAt(Z, b, s, f, n + 1)
  BY <1>5 DEF EndsAt
<1> HIDE DEF Z
<1> QED BY <1>4, <1>6, ChainSubset DEF Z

Grows(s, m, t) == IsSeq(m) /\ t = Append(s, m) /\ Len(s) + 1 <= MaxMessages

LEMMA GrownList ==
  ASSUME NEW s, Messages(s), NEW m, NEW t, Grows(s, m, t)
  PROVE  /\ Messages(t) /\ Len(t) = Len(s) + 1 /\ t[Len(s) + 1] = m
         /\ \A i \in 1 .. Len(s) : t[i] = s[i]
         /\ \A i \in 1 .. Len(t) : i \in 1 .. Len(s) \/ i = Len(s) + 1
<1>1. PICK S : s \in Seq(S)
  BY DEF Messages, IsSeq
<1> DEFINE T == S \cup {m}
<1>2. s \in Seq(T) /\ m \in T
  BY <1>1
<1> HIDE DEF T
<1>3. t \in Seq(T) /\ Len(t) = Len(s) + 1 /\ t[Len(s) + 1] = m /\ \A i \in 1 .. Len(s) : t[i] = s[i]
  BY <1>2 DEF Grows
<1>4. Len(s) \in Nat
  BY <1>2
<1>5. \A i \in 1 .. Len(t) : i \in 1 .. Len(s) \/ i = Len(s) + 1
  BY <1>3, <1>4
<1>6. \A i \in 1 .. Len(t) : IsSeq(t[i])
  BY <1>3, <1>5 DEF Messages, Grows
<1>7. IsSeq(t)
  BY <1>3 DEF IsSeq
<1> QED BY <1>3, <1>5, <1>6, <1>7 DEF Messages, Grows

LEMMA RealStays ==
  ASSUME NEW s, Messages(s), NEW m, NEW t, Grows(s, m, t),
         NEW b, NEW f, NEW i, NEW j, NEW x, Real(b, s, f, i, j, x)
  PROVE  Real(b, t, f, i, j, x)
<1>1. i \in 1 .. Len(s) /\ t[i] = s[i] /\ Len(t) = Len(s) + 1
  BY GrownList DEF Real
<1>2. Len(s) \in Nat
  BY LengthIs DEF Messages
<1>3. i \in 1 .. Len(t)
  BY <1>1, <1>2
<1> QED BY <1>1, <1>3 DEF Real

Precedes(X, n) == \A x \in X : x.n \in Nat /\ x.n < n
Carries(N, b, s, f, n, m) ==
    \A c \in N : /\ c.n \in Nat /\ n <= c.n /\ c.n < n + Pieces(m)
               /\ c.pt = Record(b, MessageId(f, Len(s) + 1), m, c.n - n)
Chained(X, b, s, f, n) == Chain(X, b, s, f) /\ EndsAt(X, b, s, f, n)

\* an end adds the records of its next message
LEMMA ChainMessage ==
  ASSUME NEW X, NEW b, NEW s, NEW f, NEW n \in Nat, Messages(s), Chained(X, b, s, f, n), Precedes(X, n),
         NEW m, NEW t, Grows(s, m, t), NEW N, Carries(N, b, s, f, n, m), NEW n2, n2 = n + Pieces(m)
  PROVE  Chained(X \cup N, b, t, f, n2) /\ Messages(t)
<1>a. /\ Chain(X, b, s, f) /\ EndsAt(X, b, s, f, n)
      /\ \A x \in X : x.n \in Nat /\ x.n < n
      /\ \A c \in N : /\ c.n \in Nat /\ n <= c.n /\ c.n < n + Pieces(m)
                     /\ c.pt = Record(b, MessageId(f, Len(s) + 1), m, c.n - n)
  BY DEF Chained, Precedes, Carries
<1> USE <1>a
<1> DEFINE Z == X \cup N
           P == Pieces(m)
           L == Len(s) + 1
<1>0. L \in Nat /\ L # 0 /\ Len(s) \in Nat /\ P \in Nat \ {0}
  BY LengthIs, PiecesIs DEF Messages, Grows
<1>1. Messages(t) /\ Len(t) = L /\ t[L] = m /\ \A i \in 1 .. Len(s) : t[i] = s[i]
  <2>1. /\ Messages(t) /\ Len(t) = Len(s) + 1 /\ t[Len(s) + 1] = m
        /\ \A i \in 1 .. Len(s) : t[i] = s[i]
    BY GrownList
  <2> QED BY <2>1
<1>2. ASSUME NEW c \in N PROVE Real(b, t, f, L, c.n - n, c)
  <2>1. c.n - n \in Nat /\ c.n - n < P
    BY <1>0
  <2>2. L \in 1 .. Len(t)
    BY <1>0, <1>1
  <2> QED BY <1>1, <2>1, <2>2 DEF Real
<1>3. ASSUME NEW x \in X, NEW i, NEW j, Real(b, t, f, i, j, x) PROVE Real(b, s, f, i, j, x)
  <2>1. ~Odd(b, f, x)
    BY <1>1, <1>3, OddIsNotReal
  <2>2. PICK i0, j0 : Real(b, s, f, i0, j0, x)
    BY <2>1 DEF Chain
  <2>3. i0 = i /\ j0 = j
    BY <1>3, <2>2, RealAgain
  <2> QED BY <2>2, <2>3
<1>4. ASSUME NEW i \in 1 .. Len(s), NEW j, NEW y, Follows(b, s, f, i, j, y) PROVE Follows(b, t, f, i, j, y)
  <2>1. t[i] = s[i]
    BY <1>1
  <2>2. \A i2, j2 : Real(b, s, f, i2, j2, y) => Real(b, t, f, i2, j2, y)
    BY RealStays
  <2> QED BY <1>4, <2>1, <2>2 DEF Follows
<1>5. \A x \in Z : Odd(b, f, x) \/ \E i, j : Real(b, t, f, i, j, x)
  <2>1. ASSUME NEW x \in X PROVE Odd(b, f, x) \/ \E i, j : Real(b, t, f, i, j, x)
    <3>1. Odd(b, f, x) \/ \E i, j : Real(b, s, f, i, j, x)
      BY DEF Chain
    <3> QED BY <3>1, RealStays
  <2> QED BY <1>2, <2>1
<1>6. ASSUME NEW x \in Z, NEW y \in Z, y.n = x.n + 1, NEW i, NEW j, Real(b, t, f, i, j, x)
      PROVE  Follows(b, t, f, i, j, y)
  <2>1. CASE x \in X /\ y \in X
    <3>1. Real(b, s, f, i, j, x)
      BY <1>3, <1>6, <2>1
    <3>2. Follows(b, s, f, i, j, y) /\ i \in 1 .. Len(s)
      BY <1>6, <2>1, <3>1 DEF Chain, Real
    <3> QED BY <1>4, <3>2
  <2>2. CASE x \in X /\ y \in N
    <3>1. Real(b, s, f, i, j, x)
      BY <1>3, <1>6, <2>2
    <3>2. x.n + 1 = n /\ y.n = n
      BY <1>6, <2>2
    <3>3. i = Len(s) /\ j + 1 = Pieces(s[i]) /\ i \in 1 .. Len(s)
      BY <2>2, <3>1, <3>2 DEF EndsAt, Real
    <3>4. t[i] = s[i] /\ ~(j + 1 < Pieces(t[i]))
      <4>1. t[i] = s[i] /\ IsSeq(s[i])
        BY <1>1, <3>3 DEF Messages
      <4>2. Pieces(s[i]) \in Nat
        BY <4>1, PiecesIs
      <4> QED BY <3>3, <4>1, <4>2
    <3>5. Real(b, t, f, L, 0, y)
      BY <1>2, <2>2, <3>2
    <3> QED BY <3>3, <3>4, <3>5 DEF Follows
  <2>3. CASE x \in N /\ y \in N
    <3>1. Real(b, t, f, L, x.n - n, x)
      BY <1>2, <2>3
    <3>2. i = L /\ j = x.n - n
      BY <1>6, <3>1, RealAgain
    <3>3. Real(b, t, f, L, y.n - n, y) /\ y.n - n < P
      BY <1>2, <2>3, <1>0
    <3>4. y.n - n = j + 1
      BY <1>6, <2>3, <3>2
    <3> QED BY <1>1, <3>2, <3>3, <3>4 DEF Follows
  <2>4. CASE x \in N /\ y \in X
    BY <1>6, <2>4
  <2> QED BY <2>1, <2>2, <2>3, <2>4
<1>7. ASSUME NEW x \in Z, x.n = 0 PROVE First(b, t, f, x)
  <2>1. CASE x \in X
    <3>1. First(b, s, f, x)
      BY <1>7, <2>1 DEF Chain
    <3> QED BY <3>1, RealStays DEF First
  <2>2. CASE x \in N
    <3>1. n = 0 /\ L = 1
      BY <1>7, <2>2 DEF EndsAt
    <3>2. Real(b, t, f, 1, 0, x)
      BY <1>2, <1>7, <2>2, <3>1
    <3> QED BY <3>2 DEF First
  <2> QED BY <2>1, <2>2
<1>8. Chain(Z, b, t, f)
  <2> HIDE DEF Z
  <2> QED BY <1>5, <1>6, <1>7 DEF Chain
<1>9. EndsAt(Z, b, t, f, n + P)
  <2>1. ASSUME NEW x \in Z, x.n + 1 = n + P, NEW i, NEW j, Real(b, t, f, i, j, x)
        PROVE  i = Len(t) /\ j + 1 = Pieces(t[i])
    <3>1. x \in N
      <4> HIDE DEF P
      <4> QED BY <1>0, <2>1
    <3>2. i = L /\ j = x.n - n
      BY <1>2, <2>1, <3>1, RealAgain
    <3>3. j + 1 = P
      <4>1. x.n \in Nat
        BY <3>1
      <4> HIDE DEF P
      <4> QED BY <1>0, <2>1, <3>2, <4>1
    <3> QED BY <1>1, <3>2, <3>3
  <2>2. n + P # 0
    <3> HIDE DEF P
    <3> QED BY <1>0
  <2> HIDE DEF Z, P
  <2> QED BY <2>1, <2>2 DEF EndsAt
<1> QED BY <1>1, <1>8, <1>9 DEF Chained, Z

(***************************************************************************)
(* How far a receiver is with a chain: it has whole messages, and the      *)
(* beginning of the one after them.                                        *)
(***************************************************************************)

Delivered(g, s, c) == c \in 0 .. Len(s) /\ g = SubSeq(s, 1, c)

\* what an end has after the piece j of the message i
Has(b, s, f, i, j, a, g) ==
    IF j + 1 = Pieces(s[i]) THEN a = Idle /\ Delivered(g, s, i)
    ELSE a = Partial(b, MessageId(f, i), s[i], j + 1) /\ Delivered(g, s, i - 1)

\* and before it
Awaits(b, s, f, i, j, a, g) ==
    /\ a = IF j = 0 THEN Idle ELSE Partial(b, MessageId(f, i), s[i], j)
    /\ Delivered(g, s, i - 1)

Got(g, p) == IF p.res = "whole" THEN Append(g, p.bytes) ELSE g

LEMMA DeliveredNext ==
  ASSUME NEW s, IsSeq(s), NEW i \in 1 .. Len(s), NEW g, Delivered(g, s, i - 1)
  PROVE  Delivered(Append(g, s[i]), s, i)
<1>1. PICK S : s \in Seq(S)
  BY DEF IsSeq
<1> DEFINE h == Append(g, s[i])
           u == SubSeq(s, 1, i)
<1>2. g \in Seq(S) /\ Len(g) = i - 1 /\ \A c \in 1 .. i - 1 : g[c] = s[c]
  BY <1>1 DEF Delivered
<1>3. s[i] \in S
  BY <1>1
<1>4. h \in Seq(S) /\ Len(h) = i /\ h[i] = s[i] /\ \A c \in 1 .. i - 1 : h[c] = s[c]
  BY <1>2, <1>3
<1>5. u \in Seq(S) /\ Len(u) = i /\ \A c \in 1 .. i : u[c] = s[c]
  BY <1>1
<1> HIDE DEF h, u
<1>6. \A c \in 1 .. i : c \in 1 .. i - 1 \/ c = i
  OBVIOUS
<1>7. h = u
  BY <1>4, <1>5, <1>6
<1>8. i \in 0 .. Len(s)
  OBVIOUS
<1> QED BY <1>7, <1>8 DEF Delivered, h, u

\* what the reassembler makes of the piece it awaits
LEMMA TakesReal ==
  ASSUME NEW b, NEW s, Messages(s), NEW f, NEW i, NEW j, NEW y, Real(b, s, f, i, j, y), NEW a, NEW g,
         Awaits(b, s, f, i, j, a, g), NEW p, p = Push(a, b, y.pt), p.res # "rejected"
  PROVE  Has(b, s, f, i, j, p.a, Got(g, p))
<1> DEFINE m == s[i]
           id == MessageId(f, i)
           r == y.pt
<1>1. i \in 1 .. Len(s) /\ j \in Nat /\ r = Record(b, id, m, j)
  BY DEF Real
<1>2. IsSeq(m) /\ id # NoMessage
  BY <1>1, IdIsSome DEF Messages
<1>3. a = IF j = 0 THEN Idle ELSE Partial(b, id, m, j)
  BY DEF Awaits
<1>4. p = Push(a, b, r)
  OBVIOUS
<1>5. IF j + 1 = Pieces(m) THEN p.res = "whole" /\ p.a = Idle /\ p.bytes = m
      ELSE p.res = "more" /\ p.a = Partial(b, id, m, j + 1)
  <2> HIDE DEF m, id, r
  <2> QED BY <1>1, <1>2, <1>3, <1>4, PushesNext
<1>6. Delivered(g, s, i - 1) /\ IsSeq(s)
  BY DEF Awaits, Messages
<1>7. CASE j + 1 = Pieces(m)
  <2>1. Got(g, p) = Append(g, s[i]) /\ p.a = Idle
    BY <1>5, <1>7 DEF Got
  <2>2. Delivered(Got(g, p), s, i)
    BY <1>1, <1>6, <2>1, DeliveredNext
  <2> QED BY <1>7, <2>1, <2>2 DEF Has
<1>8. CASE j + 1 # Pieces(m)
  <2>1. Got(g, p) = g /\ p.a = Partial(b, id, m, j + 1)
    BY <1>5, <1>8 DEF Got
  <2> QED BY <1>6, <1>8, <2>1 DEF Has
<1> QED BY <1>7, <1>8

LEMMA HadAwaits ==
  ASSUME NEW b, NEW s, Messages(s), NEW f, NEW i, NEW j, NEW x, Real(b, s, f, i, j, x), NEW a, NEW g,
         Has(b, s, f, i, j, a, g)
  PROVE  IF j + 1 < Pieces(s[i]) THEN Awaits(b, s, f, i, j + 1, a, g)
         ELSE a = Idle /\ Awaits(b, s, f, i + 1, 0, a, g)
<1>1. i \in 1 .. Len(s) /\ j \in Nat /\ j < Pieces(s[i]) /\ Pieces(s[i]) \in Nat /\ Len(s) \in Nat
  BY PiecesIs, LengthIs DEF Real, Messages
<1>2. CASE j + 1 < Pieces(s[i])
  BY <1>1, <1>2 DEF Has, Awaits
<1>3. CASE ~(j + 1 < Pieces(s[i]))
  <2>1. j + 1 = Pieces(s[i])
    BY <1>1, <1>3
  <2>2. a = Idle /\ Delivered(g, s, i) /\ (i + 1) - 1 = i
    BY <1>1, <2>1 DEF Has
  <2> QED BY <1>3, <2>2 DEF Awaits
<1> QED BY <1>2, <1>3

LEMMA HasDelivered ==
  ASSUME NEW b, NEW s, NEW f, NEW i, NEW j, NEW a, NEW g, Has(b, s, f, i, j, a, g)
  PROVE  \E c : Delivered(g, s, c)
BY DEF Has

\* how far the receiving end is with the records of f under the key k, before nonce n
Received(W, k, b, s, f, n, a, g) ==
    \/ \E x \in W : x.k = k /\ x.n + 1 = n /\ \E i, j : Real(b, s, f, i, j, x) /\ Has(b, s, f, i, j, a, g)
    \/ Stuck(a, f) /\ \E c : Delivered(g, s, c)

LEMMA ReceivedDelivered ==
  ASSUME NEW W, NEW k, NEW b, NEW s, NEW f, NEW n, NEW a, NEW g, Received(W, k, b, s, f, n, a, g)
  PROVE  \E c : Delivered(g, s, c)
<1>1. CASE Stuck(a, f) /\ \E c : Delivered(g, s, c)
  BY <1>1
<1>2. CASE \E x \in W : x.k = k /\ x.n + 1 = n /\ \E i, j : Real(b, s, f, i, j, x) /\ Has(b, s, f, i, j, a, g)
  <2>1. PICK i, j : Has(b, s, f, i, j, a, g)
    BY <1>2
  <2> QED BY <2>1, HasDelivered
<1> QED BY <1>1, <1>2 DEF Received

\* the next record under the key: one that does not fit, one that does, the first
LEMMA ReceivesOdd ==
  ASSUME NEW W, NEW k, NEW b, b # <<>>, NEW s, Messages(s), NEW f, NEW n, NEW y, Odd(b, f, y), NEW a, NEW g,
         a = Idle \/ \E i \in 1 .. Len(s) : \E j : a = Partial(b, MessageId(f, i), s[i], j),
         \E c : Delivered(g, s, c),
         NEW p, p = Push(a, b, y.pt), p.res # "rejected"
  PROVE  Received(W, k, b, s, f, n, p.a, Got(g, p))
<1> DEFINE r == y.pt
<1>1. r \in OddRecord(b, f) /\ p = Push(a, b, r)
  BY DEF Odd
<1> HIDE DEF r
<1>2. CASE a = Idle
  <2>1. p.res = "more" /\ Stuck(p.a, f)
    BY <1>1, <1>2, PushOdd
  <2>2. Got(g, p) = g
    BY <2>1 DEF Got
  <2> QED BY <2>1, <2>2 DEF Received
<1>3. CASE \E i \in 1 .. Len(s) : \E j : a = Partial(b, MessageId(f, i), s[i], j)
  <2>1. PICK i \in 1 .. Len(s) : \E j : a = Partial(b, MessageId(f, i), s[i], j)
    BY <1>3
  <2>2. PICK j : a = Partial(b, MessageId(f, i), s[i], j)
    BY <2>1
  <2>3. i \in 1 .. MaxMessages
    BY LengthIs, MaxPayloadIs DEF Messages
  <2> DEFINE m == s[i]
  <2> HIDE DEF m
  <2>4. a = Partial(b, MessageId(f, i), m, j)
    BY <2>2 DEF m
  <2> QED BY <1>1, <2>3, <2>4, OddInside
<1> QED BY <1>2, <1>3

LEMMA ReceivesNext ==
  ASSUME NEW W, NEW k, NEW b, b # <<>>, NEW s, Messages(s), NEW f, NEW n, NEW X, Chain(X, b, s, f),
         \A x \in W : x.k = k => x \in X,
         NEW a, NEW g, Received(W, k, b, s, f, n, a, g),
         NEW y \in W, y.k = k, y.n = n, NEW p, p = Push(a, b, y.pt), p.res # "rejected"
  PROVE  Received(W, k, b, s, f, n + 1, p.a, Got(g, p))
<1>0. y \in X
  OBVIOUS
<1>1. CASE Stuck(a, f)
  <2> DEFINE r == y.pt
  <2>1. p = Push(a, b, r)
    OBVIOUS
  <2>2. Odd(b, f, y) \/ \E i, j : Real(b, s, f, i, j, y)
    BY <1>0 DEF Chain
  <2>3. ASSUME NEW i, NEW j, Real(b, s, f, i, j, y) PROVE \E i2 \in Nat \ {0} : r.msg = MessageId(f, i2)
    <3>1. r.msg = MessageId(f, i)
      BY <2>3, RealFields
    <3>2. i \in Nat \ {0}
      BY <2>3, LengthIs DEF Real, Messages
    <3> QED BY <3>1, <3>2
  <2>4. r \in OddRecord(b, f) \/ \E i2 \in Nat \ {0} : r.msg = MessageId(f, i2)
    BY <2>2, <2>3 DEF Odd
  <2> HIDE DEF r
  <2> QED BY <1>1, <2>1, <2>4, StuckRejects
<1>2. ASSUME NEW x \in W, x.k = k, x.n + 1 = n, NEW i, NEW j, Real(b, s, f, i, j, x), Has(b, s, f, i, j, a, g)
      PROVE  Received(W, k, b, s, f, n + 1, p.a, Got(g, p))
  <2>1. x \in X
    BY <1>2
  <2>2. Follows(b, s, f, i, j, y)
    BY <1>0, <1>2, <2>1 DEF Chain
  <2>3. IF j + 1 < Pieces(s[i]) THEN Awaits(b, s, f, i, j + 1, a, g)
        ELSE a = Idle /\ Awaits(b, s, f, i + 1, 0, a, g)
    BY <1>2, HadAwaits
  <2>4. CASE Odd(b, f, y)
    <3>1. \E c : Delivered(g, s, c)
      BY <1>2, HasDelivered
    <3>2. a = Idle \/ \E i2 \in 1 .. Len(s) : \E j2 : a = Partial(b, MessageId(f, i2), s[i2], j2)
      BY <1>2 DEF Has, Real
    <3> DEFINE n2 == n + 1
    <3>3. Received(W, k, b, s, f, n2, p.a, Got(g, p))
      <4> HIDE DEF n2
      <4> QED BY <2>4, <3>1, <3>2, ReceivesOdd
    <3> QED BY <3>3
  <2>5. CASE Real(b, s, f, i, j + 1, y) /\ Awaits(b, s, f, i, j + 1, a, g)
    <3> DEFINE j2 == j + 1
    <3>1. Real(b, s, f, i, j2, y) /\ Awaits(b, s, f, i, j2, a, g)
      BY <2>5
    <3> HIDE DEF j2
    <3>2. Has(b, s, f, i, j2, p.a, Got(g, p))
      BY <3>1, TakesReal
    <3> QED BY <3>1, <3>2 DEF Received
  <2>6. CASE Real(b, s, f, i + 1, 0, y) /\ Awaits(b, s, f, i + 1, 0, a, g)
    <3> DEFINE i2 == i + 1
               j2 == 0
    <3>1. Real(b, s, f, i2, j2, y) /\ Awaits(b, s, f, i2, j2, a, g)
      BY <2>6
    <3> HIDE DEF i2, j2
    <3>2. Has(b, s, f, i2, j2, p.a, Got(g, p))
      BY <3>1, TakesReal
    <3> QED BY <3>1, <3>2 DEF Received
  <2> QED BY <2>2, <2>3, <2>4, <2>5, <2>6 DEF Follows
<1> QED BY <1>1, <1>2 DEF Received

LEMMA ReceivesFirst ==
  ASSUME NEW W, NEW k, NEW b, b # <<>>, NEW s, Messages(s), NEW f, NEW X, Chain(X, b, s, f),
         \A x \in W : x.k = k => x \in X,
         NEW a, a = Idle, NEW g, g = <<>>,
         NEW y \in W, y.k = k, y.n = 0, NEW p, p = Push(a, b, y.pt), p.res # "rejected"
  PROVE  Received(W, k, b, s, f, 0 + 1, p.a, Got(g, p))
<1>1. First(b, s, f, y)
  BY DEF Chain
<1>2. Delivered(g, s, 0)
  <2>1. PICK S : s \in Seq(S)
    BY DEF Messages, IsSeq
  <2>2. SubSeq(s, 1, 0) = <<>> /\ 0 \in 0 .. Len(s)
    BY <2>1
  <2> QED BY <2>2 DEF Delivered
<1>3. CASE Odd(b, f, y)
  <2> DEFINE n2 == 0 + 1
  <2>1. Received(W, k, b, s, f, n2, p.a, Got(g, p))
    <3> HIDE DEF n2
    <3> QED BY <1>2, <1>3, ReceivesOdd
  <2> QED BY <2>1
<1>4. CASE Real(b, s, f, 1, 0, y)
  <2>1. Awaits(b, s, f, 1, 0, a, g)
    BY <1>2 DEF Awaits
  <2> DEFINE i == 1
             j == 0
  <2>2. Real(b, s, f, i, j, y) /\ Awaits(b, s, f, i, j, a, g)
    BY <1>4, <2>1
  <2> HIDE DEF i, j
  <2>3. Has(b, s, f, i, j, p.a, Got(g, p))
    BY <2>2, TakesReal
  <2> QED BY <2>2, <2>3 DEF Received
<1> QED BY <1>1, <1>3, <1>4 DEF First

(***************************************************************************)
(* The invariant of delivery: both keys of an end come from the handshake  *)
(* its binding closes with (KeyedAs, Tied), what it encrypted is a chain   *)
(* (Sender), what it decrypted is a beginning of the chain of its partner  *)
(* (Receiver), and that is kept as history when it closes (History).       *)
(***************************************************************************)

Continued(s, t) == t = s \/ \E m : Grows(s, m, t)

\* what was delivered stays delivered while the sender goes on
LEMMA DeliveredStays ==
  ASSUME NEW s, Messages(s), NEW t, Continued(s, t), NEW g, NEW c, Delivered(g, s, c)
  PROVE  Delivered(g, t, c)
<1>1. CASE t = s
  BY <1>1
<1>2. ASSUME NEW m, Grows(s, m, t) PROVE Delivered(g, t, c)
  <2>1. /\ Messages(t) /\ Len(t) = Len(s) + 1
        /\ \A i \in 1 .. Len(s) : t[i] = s[i]
    BY <1>2, GrownList
  <2>2. c \in 0 .. Len(s) /\ g = SubSeq(s, 1, c) /\ Len(s) \in Nat
    BY LengthIs DEF Delivered, Messages
  <2>3. PICK S : s \in Seq(S)
    BY DEF Messages, IsSeq
  <2>4. PICK T : t \in Seq(T)
    BY <2>1 DEF Messages, IsSeq
  <2> DEFINE u == SubSeq(s, 1, c)
             v == SubSeq(t, 1, c)
  <2>5. u \in Seq(S) /\ Len(u) = c /\ \A i \in 1 .. c : u[i] = s[i]
    BY <2>2, <2>3
  <2>6. v \in Seq(T) /\ Len(v) = c /\ \A i \in 1 .. c : v[i] = t[i]
    BY <2>1, <2>2, <2>4
  <2>7. \A i \in 1 .. c : i \in 1 .. Len(s)
    BY <2>2
  <2>8. c \in 0 .. Len(t)
    BY <2>1, <2>2
  <2> HIDE DEF u, v
  <2>9. u = v
    BY <2>1, <2>5, <2>6, <2>7
  <2> QED BY <2>2, <2>8, <2>9 DEF Delivered, u, v
<1> QED BY <1>1, <1>2 DEF Continued

LEMMA HasStays ==
  ASSUME NEW s, Messages(s), NEW t, Continued(s, t), NEW b, NEW f, NEW i, NEW j, NEW x, NEW a, NEW g,
         Real(b, s, f, i, j, x), Has(b, s, f, i, j, a, g)
  PROVE  Real(b, t, f, i, j, x) /\ Has(b, t, f, i, j, a, g)
<1>1. CASE t = s
  BY <1>1
<1>2. ASSUME NEW m, Grows(s, m, t) PROVE Real(b, t, f, i, j, x) /\ t[i] = s[i]
  BY <1>2, RealStays, GrownList DEF Real
<1>3. CASE \E m : Grows(s, m, t)
  <2>1. Real(b, t, f, i, j, x) /\ t[i] = s[i]
    BY <1>2, <1>3
  <2>2. \A c : Delivered(g, s, c) => Delivered(g, t, c)
    BY DeliveredStays
  <2> QED BY <2>1, <2>2 DEF Has
<1> QED BY <1>1, <1>3 DEF Continued

\* the sender goes on
LEMMA ReceivedStays ==
  ASSUME NEW W, NEW V, W \subseteq V, NEW k, NEW b, NEW s, Messages(s), NEW f, NEW n, NEW a, NEW g,
         Received(W, k, b, s, f, n, a, g), NEW t, Continued(s, t)
  PROVE  Received(V, k, b, t, f, n, a, g)
<1>1. CASE Stuck(a, f) /\ \E c : Delivered(g, s, c)
  <2>1. \E c : Delivered(g, t, c)
    BY <1>1, DeliveredStays
  <2> QED BY <1>1, <2>1 DEF Received
<1>2. ASSUME NEW x \in W, x.k = k, x.n + 1 = n, NEW i, NEW j, Real(b, s, f, i, j, x), Has(b, s, f, i, j, a, g)
      PROVE  Received(V, k, b, t, f, n, a, g)
  <2>1. Real(b, t, f, i, j, x) /\ Has(b, t, f, i, j, a, g)
    BY <1>2, HasStays
  <2> QED BY <1>2, <2>1 DEF Received
<1> QED BY <1>1, <1>2 DEF Received

Sends(e) == IF e \in Phones THEN 1 ELSE 2
Reads(e) == IF e \in Phones THEN 2 ELSE 1

ClosesWith(b, ck) == \E a, pt : IsSeq(a) /\ b = Append(a, <<Key(ck, 0), 0, pt>>)

Under(X, k) == {x \in X : x.k = k}
Wired == UNION {Parts(m) : m \in wire}

\* both keys of an end come from the chaining key its binding closes with
KeyedAs(c, e) ==
    \E ck : \E n1 \in 0 .. MaxNonce, n2 \in 0 .. MaxNonce :
        /\ c.enc = [k |-> Key(ck, Sends(e)), n |-> n1] /\ c.dec = [k |-> Key(ck, Reads(e)), n |-> n2]
        /\ ClosesWith(c.binding, ck)

Tied(e) == \A x \in Ciphertexts : TransportKey(e, x.k) => ClosesWith(ch[e].binding, x.k.ck)

Sender(e) ==
    /\ Messages(sent[e])
    /\ \A k : TransportKey(e, k) => Chain(Under(Ciphertexts, k), ch[e].binding, sent[e], e)
    /\ Finished(e) => EndsAt(Under(Ciphertexts, ch[e].enc.k), ch[e].binding, sent[e], e, ch[e].enc.n)
    /\ IsOpen(e) /\ ch[e].next # "complete" => Len(sent[e]) = 0

ReceivedFrom(f, e) ==
    /\ TransportKey(f, ch[e].dec.k)
    /\ Received(Wired, ch[e].dec.k, ch[e].binding, sent[f], f, ch[e].dec.n, ch[e].asm, got[e])

Receiver(e) ==
    /\ IsOpen(e) /\ ch[e].next # "complete" => got[e] = <<>> /\ ch[e].asm = Idle
    /\ Finished(e) => \/ ch[e].dec.n = 0 /\ ch[e].asm = Idle /\ got[e] = <<>>
                      \/ \E f \in Partners(e) : ReceivedFrom(f, e)

History(e) ==
    got[e] # <<>> => Completed(e) /\ \E f \in Partners(e) : \E c : Delivered(got[e], sent[f], c)

DeliveryOf(e) ==
    /\ Finished(e) => KeyedAs(ch[e], e)
    /\ Tied(e) /\ Sender(e) /\ Receiver(e) /\ History(e)

DeliveryInv ==
    /\ DOMAIN sent = Ends /\ DOMAIN got = Ends
    /\ \A e \in Ends : DeliveryOf(e)

\* what a step of e leaves alone
Frame(e) ==
    /\ DOMAIN sent' = Ends /\ DOMAIN got' = Ends
    /\ \A f \in Ends \ {e} : ch'[f] = ch[f] /\ sent'[f] = sent[f] /\ got'[f] = got[f]
    /\ Wired \subseteq Wired'
    /\ Continued(sent[e], sent'[e])
    /\ Completed(e) => ch'[e].binding = ch[e].binding
    /\ \A f \in Ends \ {e} : \A x \in Ciphertexts' : TransportKey(f, x.k) => x \in Ciphertexts

LEMMA ClosesSome ==
  ASSUME NEW b, NEW ck, ClosesWith(b, ck)
  PROVE  b # <<>>
<1>1. PICK a, pt : IsSeq(a) /\ b = Append(a, <<Key(ck, 0), 0, pt>>)
  BY DEF ClosesWith
<1> DEFINE z == <<Key(ck, 0), 0, pt>>
<1> HIDE DEF z
<1>2. PICK S : a \in Seq(S)
  BY <1>1 DEF IsSeq
<1>3. a \in Seq(S \cup {z})
  BY <1>2
<1>4. Len(Append(a, z)) = Len(a) + 1 /\ Len(a) \in Nat
  BY <1>3
<1>5. Append(a, z) # <<>>
  BY <1>4
<1> QED BY <1>1, <1>5 DEF z

LEMMA FinishedCompleted ==
  ASSUME NEW e, Finished(e) => KeyedAs(ch[e], e)
  PROVE  Finished(e) => Completed(e)
BY ClosesSome DEF KeyedAs, Completed

\* a step of e leaves the other ends as they are
LEMMA PartnersStay ==
  ASSUME NEW e \in Ends, Frame(e), NEW g \in Ends, Completed(g), NEW f \in Partners(g)
  PROVE  /\ f \in Partners(g)' /\ ch'[g].binding = ch[g].binding /\ ch'[f].binding = ch[f].binding
         /\ f \in Ends /\ Continued(sent[f], sent'[f])
<1>1. f \in Ends \ {g} /\ ch[f].binding = ch[g].binding /\ Completed(f)
  BY DEF Partners, Completed
<1>2. ch'[g].binding = ch[g].binding /\ ch'[f].binding = ch[f].binding
  BY <1>1 DEF Frame
<1>3. Continued(sent[f], sent'[f])
  BY <1>1 DEF Frame, Continued
<1> QED BY <1>1, <1>2, <1>3 DEF Partners

LEMMA HistoryStays ==
  ASSUME NEW e \in Ends, Frame(e), NEW g \in Ends, History(g), \A f \in Ends : Messages(sent[f]), got'[g] = got[g]
  PROVE  History(g)'
<1> SUFFICES ASSUME got[g] # <<>> PROVE Completed(g)' /\ \E f \in Partners(g)' : \E c : Delivered(got'[g], sent'[f], c)
  BY DEF History
<1>1. PICK f \in Partners(g) : \E c : Delivered(got[g], sent[f], c)
  BY DEF History
<1>2. PICK c : Delivered(got[g], sent[f], c)
  BY <1>1
<1>3. Completed(g)
  BY DEF History
<1>4. f \in Partners(g)' /\ ch'[g].binding = ch[g].binding /\ f \in Ends /\ Continued(sent[f], sent'[f])
  BY <1>3, PartnersStay
<1>5. Delivered(got[g], sent'[f], c)
  BY <1>2, <1>4, DeliveredStays
<1> QED BY <1>3, <1>4, <1>5 DEF Completed

LEMMA ReceiverStays ==
  ASSUME NEW e \in Ends, Frame(e), NEW g \in Ends, Receiver(g), \A f \in Ends : Messages(sent[f]), got'[g] = got[g],
         Finished(g) => Completed(g),
         /\ ch'[g].closed = ch[g].closed /\ ch'[g].next = ch[g].next /\ ch'[g].dec = ch[g].dec /\ ch'[g].asm = ch[g].asm
  PROVE  Receiver(g)'
<1>1. IsOpen(g)' = IsOpen(g) /\ Finished(g)' = Finished(g)
  BY DEF IsOpen, Finished
<1>2. IsOpen(g) /\ ch[g].next # "complete" => got'[g] = <<>> /\ ch'[g].asm = Idle
  BY DEF Receiver
<1>3. ASSUME Finished(g), NEW f \in Partners(g), ReceivedFrom(f, g) PROVE f \in Partners(g)' /\ ReceivedFrom(f, g)'
  <2>1. /\ f \in Partners(g)' /\ ch'[g].binding = ch[g].binding
        /\ f \in Ends /\ Continued(sent[f], sent'[f])
    BY <1>3, PartnersStay
  <2>2. Messages(sent[f]) /\ Wired \subseteq Wired'
    BY <2>1 DEF Frame
  <2> DEFINE k == ch[g].dec.k
             b == ch[g].binding
             s == sent[f]
             t == sent'[f]
             n == ch[g].dec.n
             a == ch[g].asm
             d == got[g]
             W == Wired
             V == Wired'
  <2>3. Received(W, k, b, s, f, n, a, d)
    BY <1>3 DEF ReceivedFrom
  <2>4. Messages(s) /\ W \subseteq V /\ Continued(s, t)
    BY <2>1, <2>2
  <2> HIDE DEF k, b, s, t, n, a, d, W, V
  <2>5. Received(V, k, b, t, f, n, a, d)
    BY <2>3, <2>4, ReceivedStays
  <2>6. TransportKey(f, ch[g].dec.k) /\ TransportKey(f, ch[g].dec.k)' = TransportKey(f, ch'[g].dec.k)
    BY <1>3 DEF ReceivedFrom, TransportKey
  <2>7. TransportKey(f, ch'[g].dec.k)
    BY <2>6
  <2>8. Received(Wired', ch'[g].dec.k, ch'[g].binding, sent'[f], f, ch'[g].dec.n, ch'[g].asm, got'[g])
    BY <2>1, <2>5 DEF k, b, s, t, n, a, d, W, V
  <2> QED BY <2>1, <2>7, <2>8 DEF ReceivedFrom
<1>4. Finished(g) => \/ ch'[g].dec.n = 0 /\ ch'[g].asm = Idle /\ got'[g] = <<>>
                     \/ \E f \in Partners(g)' : ReceivedFrom(f, g)'
  BY <1>3 DEF Receiver
<1> QED BY <1>1, <1>2, <1>4 DEF Receiver

LEMMA EncKeyed ==
  ASSUME ChannelInv, NEW e \in Ends, Finished(e)
  PROVE  /\ TransportKey(e, ch[e].enc.k) /\ ch[e].enc.n \in 0 .. MaxNonce
         /\ \A x \in Under(Ciphertexts, ch[e].enc.k) : x.n \in Nat /\ x.n < ch[e].enc.n
<1>1. PICK k : TransportKey(e, k) /\ SendsUnder(e, k)
  BY SendsOwn
<1>2. PICK n \in 0 .. MaxNonce : /\ ch[e].enc = [k |-> k, n |-> n]
                                 /\ \A x \in Ciphertexts : x.k = k => x.n < n
  BY <1>1 DEF SendsUnder
<1>3. ch[e].enc.k = k /\ ch[e].enc.n = n
  BY <1>2
<1>4. \A x \in Under(Ciphertexts, k) : x.k = k /\ x \in Ciphertexts
  BY DEF Under
<1>5. ASSUME NEW x \in Under(Ciphertexts, k) PROVE x.n \in Nat
  <2>1. k # NoKey
    BY <1>1, TransportKeyed
  <2>2. PICK f \in Ends : MadeBy(f, x)
    BY <1>4, <2>1 DEF ChannelInv, AllMade
  <2> QED BY <2>2, MadeOwned, OwnedUnder
<1> QED BY <1>1, <1>2, <1>3, <1>4, <1>5

LEMMA OthersDeliver ==
  ASSUME ChannelInv, DeliveryInv, NEW e \in Ends, Frame(e), NEW g \in Ends \ {e}
  PROVE  DeliveryOf(g)'
<1>0. DeliveryOf(g) /\ \A f \in Ends : Messages(sent[f])
  BY DEF DeliveryInv, DeliveryOf, Sender
<1>1. ch'[g] = ch[g] /\ sent'[g] = sent[g] /\ got'[g] = got[g]
  BY DEF Frame
<1>2. \A x \in Ciphertexts' : TransportKey(g, x.k) => x \in Ciphertexts
  BY DEF Frame
<1>3. Finished(g)' = Finished(g) /\ IsOpen(g)' = IsOpen(g)
  BY <1>1 DEF Finished, IsOpen
<1>4. Finished(g)' => KeyedAs(ch'[g], g)
  BY <1>0, <1>1, <1>3 DEF DeliveryOf
<1>5. Tied(g)'
  BY <1>0, <1>1, <1>2 DEF DeliveryOf, Tied, TransportKey
<1>6. ASSUME NEW k, TransportKey(g, k) PROVE Under(Ciphertexts', k) \subseteq Under(Ciphertexts, k)
  BY <1>2, <1>6 DEF Under
<1>7. Sender(g)'
  <2>1. ASSUME NEW k, TransportKey(g, k) PROVE Chain(Under(Ciphertexts', k), ch'[g].binding, sent'[g], g)
    <3>1. Chain(Under(Ciphertexts, k), ch[g].binding, sent[g], g)
      BY <1>0, <2>1 DEF DeliveryOf, Sender
    <3>2. Under(Ciphertexts', k) \subseteq Under(Ciphertexts, k)
      BY <1>6, <2>1
    <3> QED BY <1>1, <3>1, <3>2, ChainSubset
  <2>2. ASSUME Finished(g)
        PROVE  EndsAt(Under(Ciphertexts', ch'[g].enc.k), ch'[g].binding, sent'[g], g, ch'[g].enc.n)
    <3> DEFINE k == ch[g].enc.k
    <3>1. EndsAt(Under(Ciphertexts, k), ch[g].binding, sent[g], g, ch[g].enc.n)
      BY <1>0, <2>2 DEF DeliveryOf, Sender
    <3>2. Under(Ciphertexts', k) \subseteq Under(Ciphertexts, k)
      BY <1>2, <2>2, EncKeyed DEF Under
    <3> QED BY <1>1, <3>1, <3>2, ChainSubset
  <2> QED BY <1>0, <1>1, <1>3, <2>1, <2>2 DEF DeliveryOf, Sender, TransportKey
<1>8. Finished(g) => Completed(g)
  BY <1>0, FinishedCompleted DEF DeliveryOf
<1>9. Receiver(g)' /\ History(g)'
  BY <1>0, <1>1, <1>8, ReceiverStays, HistoryStays DEF DeliveryOf
<1> QED BY <1>4, <1>5, <1>7, <1>9 DEF DeliveryOf

StepOf(e) ==
    /\ DOMAIN sent' = Ends /\ DOMAIN got' = Ends
    /\ \A f \in Ends \ {e} : ch'[f] = ch[f] /\ sent'[f] = sent[f] /\ got'[f] = got[f]
    /\ wire \subseteq wire'

LEMMA TransportOut ==
  ASSUME NEW e, NEW k, TransportKey(e, k)
  PROVE  k.out = Sends(e) /\ k.out \in {1, 2}
<1>1. ASSUME NEW ck, NEW out, k = Key(ck, out) PROVE k.out = out
  BY <1>1 DEF Key
<1>2. CASE e \in Phones
  BY <1>1, <1>2 DEF TransportKey, Sends
<1>3. CASE e \notin Phones
  BY <1>1, <1>3 DEF TransportKey, Sends
<1> QED BY <1>2, <1>3

\* a transport key has one owner
LEMMA OwnTransport ==
  ASSUME NEW e \in Ends, NEW f \in Ends, NEW k, TransportKey(e, k), TransportKey(f, k)
  PROVE  e = f
<1>1. MadeUnder(e, k, 0)
  BY TransportKeyed
<1> QED BY <1>1, TransportIsOwn DEF TransportKey

LEMMA FrameOf ==
  ASSUME NEW e \in Ends, StepOf(e), Continued(sent[e], sent'[e]), Completed(e) => ch'[e].binding = ch[e].binding,
         NEW N, Ciphertexts' \subseteq Ciphertexts \cup N, \A x \in N : x.k.out = 0 \/ TransportKey(e, x.k)
  PROVE  Frame(e)
<1>1. Wired \subseteq Wired'
  BY DEF StepOf, Wired
<1>2. ASSUME NEW f \in Ends \ {e}, NEW x \in Ciphertexts', TransportKey(f, x.k) PROVE x \in Ciphertexts
  <2>1. x.k.out # 0
    BY <1>2, TransportOut
  <2>2. ~TransportKey(e, x.k)
    BY <1>2, OwnTransport
  <2> QED BY <2>1, <2>2
<1> QED BY <1>1, <1>2 DEF Frame, StepOf

LEMMA Delivers ==
  ASSUME ChannelInv, DeliveryInv, NEW e \in Ends, Frame(e), DeliveryOf(e)'
  PROVE  DeliveryInv'
<1>1. \A g \in Ends \ {e} : DeliveryOf(g)'
  BY OthersDeliver
<1>2. \A g \in Ends : DeliveryOf(g)'
  BY <1>1
<1>3. DOMAIN sent' = Ends /\ DOMAIN got' = Ends
  BY DEF Frame
<1> QED BY <1>2, <1>3 DEF DeliveryInv

LEMMA Sequences ==
  ASSUME DeliveryInv
  PROVE  \A f \in Ends : DeliveryOf(f) /\ Messages(sent[f]) /\ (Finished(f) => Completed(f))
BY FinishedCompleted DEF DeliveryInv, DeliveryOf, Sender

\* nothing is encrypted: what was sent stands
LEMMA NothingNew ==
  ASSUME ChannelInv, DeliveryInv, NEW e \in Ends, Ciphertexts' \subseteq Ciphertexts, sent'[e] = sent[e],
         ch'[e].binding = ch[e].binding
  PROVE  /\ Tied(e)' /\ Messages(sent'[e])
         /\ \A k : TransportKey(e, k) => Chain(Under(Ciphertexts', k), ch'[e].binding, sent'[e], e)
<1>1. DeliveryOf(e)
  BY DEF DeliveryInv
<1>2. Tied(e)'
  BY <1>1 DEF DeliveryOf, Tied, TransportKey
<1>3. Messages(sent'[e])
  BY Sequences
<1>4. ASSUME NEW k, TransportKey(e, k) PROVE Chain(Under(Ciphertexts', k), ch'[e].binding, sent'[e], e)
  <2>1. Chain(Under(Ciphertexts, k), ch[e].binding, sent[e], e)
    BY <1>1, <1>4 DEF DeliveryOf, Sender
  <2>2. Under(Ciphertexts', k) \subseteq Under(Ciphertexts, k)
    BY DEF Under
  <2> QED BY <2>1, <2>2, ChainSubset
<1> QED BY <1>2, <1>3, <1>4

LEMMA SenderStays ==
  ASSUME ChannelInv, DeliveryInv, NEW e \in Ends, Ciphertexts' \subseteq Ciphertexts, sent'[e] = sent[e],
         /\ ch'[e].closed = ch[e].closed /\ ch'[e].next = ch[e].next /\ ch'[e].binding = ch[e].binding
         /\ ch'[e].enc = ch[e].enc
  PROVE  Tied(e)' /\ Sender(e)'
<1>2. DeliveryOf(e)
  BY Sequences
<1>3. Finished(e)' = Finished(e) /\ IsOpen(e)' = IsOpen(e)
  BY DEF Finished, IsOpen
<1>5. /\ Tied(e)' /\ Messages(sent'[e])
      /\ \A k : TransportKey(e, k) => Chain(Under(Ciphertexts', k), ch'[e].binding, sent'[e], e)
  BY NothingNew
<1>6. Finished(e) => EndsAt(Under(Ciphertexts', ch'[e].enc.k), ch'[e].binding, sent'[e], e, ch'[e].enc.n)
  <2> SUFFICES ASSUME Finished(e)
               PROVE  EndsAt(Under(Ciphertexts', ch'[e].enc.k), ch'[e].binding, sent'[e], e, ch'[e].enc.n)
    OBVIOUS
  <2> DEFINE k == ch[e].enc.k
  <2>1. EndsAt(Under(Ciphertexts, k), ch[e].binding, sent[e], e, ch[e].enc.n)
    BY <1>2 DEF DeliveryOf, Sender
  <2>2. Under(Ciphertexts', k) \subseteq Under(Ciphertexts, k)
    BY DEF Under
  <2> HIDE DEF k
  <2>3. EndsAt(Under(Ciphertexts', k), ch[e].binding, sent[e], e, ch[e].enc.n)
    BY <2>1, <2>2, ChainSubset
  <2> QED BY <2>3 DEF k
<1>7. Sender(e)'
  BY <1>2, <1>3, <1>5, <1>6 DEF DeliveryOf, Sender, TransportKey
<1> QED BY <1>5, <1>7

\* the steps that encrypt and deliver nothing, one by one
LEMMA QuietDelivers ==
  ASSUME ChannelInv, DeliveryInv, NEW e \in Ends, StepOf(e), Ciphertexts' \subseteq Ciphertexts,
         sent'[e] = sent[e], got'[e] = got[e],
         /\ ch'[e].closed = ch[e].closed /\ ch'[e].next = ch[e].next /\ ch'[e].binding = ch[e].binding
         /\ ch'[e].enc = ch[e].enc /\ ch'[e].dec = ch[e].dec /\ ch'[e].asm = ch[e].asm
  PROVE  DeliveryInv'
<1>1. Frame(e)
  <2> DEFINE N == {}
  <2>1. Ciphertexts' \subseteq Ciphertexts \cup N /\ \A x \in N : x.k.out = 0 \/ TransportKey(e, x.k)
    OBVIOUS
  <2> HIDE DEF N
  <2> QED BY <2>1, FrameOf DEF Continued
<1>2. DeliveryOf(e) /\ (Finished(e) => Completed(e)) /\ \A f \in Ends : Messages(sent[f])
  BY Sequences
<1>3. Finished(e)' = Finished(e) /\ IsOpen(e)' = IsOpen(e)
  BY DEF Finished, IsOpen
<1>4. Finished(e)' => KeyedAs(ch'[e], e)
  BY <1>2, <1>3 DEF DeliveryOf, KeyedAs
<1>5. Tied(e)' /\ Sender(e)'
  BY SenderStays
<1>8. Receiver(e)' /\ History(e)'
  BY <1>1, <1>2, ReceiverStays, HistoryStays DEF DeliveryOf
<1> QED BY <1>1, <1>4, <1>5, <1>8, Delivers DEF DeliveryOf

LEMMA ShutDelivers ==
  ASSUME ChannelInv, DeliveryInv, NEW e \in Ends, ch' = [ch EXCEPT ![e] = Shut(@)], wire' = wire, sent' = sent, got' = got
  PROVE  DeliveryInv'
<1>0. Shape
  BY DEF ChannelInv
<1>1. /\ ch'[e] = Shut(ch[e]) /\ \A f \in Ends \ {e} : ch'[f] = ch[f]
  BY <1>0 DEF Shape
<1>2. ch'[e].closed = TRUE /\ ch'[e].out = <<>> /\ ch'[e].binding = ch[e].binding
  BY <1>1, ShutIs
<1>3. StepOf(e)
  BY <1>1 DEF StepOf, DeliveryInv
<1>4. Ciphertexts' \subseteq Ciphertexts
  BY <1>1, <1>2, WireKept, NoParts
<1>5. Frame(e)
  <2> DEFINE N == {}
  <2>1. Ciphertexts' \subseteq Ciphertexts \cup N /\ \A x \in N : x.k.out = 0 \/ TransportKey(e, x.k)
    BY <1>4
  <2> HIDE DEF N
  <2> QED BY <1>2, <1>3, <2>1, FrameOf DEF Continued
<1>6. DeliveryOf(e) /\ \A f \in Ends : Messages(sent[f])
  BY Sequences
<1>7. ~Finished(e)' /\ ~IsOpen(e)'
  BY <1>2 DEF Finished, IsOpen
<1>8. /\ Tied(e)' /\ Messages(sent'[e])
      /\ \A k : TransportKey(e, k) => Chain(Under(Ciphertexts', k), ch'[e].binding, sent'[e], e)
  BY <1>2, <1>4, NothingNew
<1>9. Sender(e)'
  BY <1>7, <1>8 DEF Sender, TransportKey
<1>10. Receiver(e)' /\ History(e)'
  BY <1>5, <1>6, <1>7, HistoryStays DEF DeliveryOf, Receiver
<1> QED BY <1>5, <1>7, <1>8, <1>9, <1>10, Delivers DEF DeliveryOf

LEMMA MarkAdmittedDelivers ==
  ASSUME ChannelInv, DeliveryInv, NEW e \in Ends, MarkAdmitted(e)
  PROVE  DeliveryInv'
<1>0. Shape
  BY DEF ChannelInv
<1>1. /\ \A f \in Ends \ {e} : ch'[f] = ch[f]
      /\ wire' = wire /\ ch'[e].out = ch[e].out /\ sent' = sent /\ got' = got
      /\ ch'[e].closed = ch[e].closed /\ ch'[e].next = ch[e].next /\ ch'[e].binding = ch[e].binding
      /\ ch'[e].enc = ch[e].enc /\ ch'[e].dec = ch[e].dec /\ ch'[e].asm = ch[e].asm
  BY <1>0 DEF MarkAdmitted, Shape, Fields
<1>2. Ciphertexts' \subseteq Ciphertexts
  BY <1>1, WireKept
<1>3. StepOf(e)
  BY <1>1 DEF StepOf, DeliveryInv
<1> QED BY <1>1, <1>2, <1>3, QuietDelivers

LEMMA BindTransportDelivers ==
  ASSUME ChannelInv, DeliveryInv, NEW e \in Ends, BindTransport(e)
  PROVE  DeliveryInv'
<1>0. Shape
  BY DEF ChannelInv
<1>1. /\ \A f \in Ends \ {e} : ch'[f] = ch[f]
      /\ wire' = wire /\ ch'[e].out = ch[e].out /\ sent' = sent /\ got' = got
      /\ ch'[e].closed = ch[e].closed /\ ch'[e].next = ch[e].next /\ ch'[e].binding = ch[e].binding
      /\ ch'[e].enc = ch[e].enc /\ ch'[e].dec = ch[e].dec /\ ch'[e].asm = ch[e].asm
  BY <1>0 DEF BindTransport, Shape, Fields
<1>2. Ciphertexts' \subseteq Ciphertexts
  BY <1>1, WireKept
<1>3. StepOf(e)
  BY <1>1 DEF StepOf, DeliveryInv
<1> QED BY <1>1, <1>2, <1>3, QuietDelivers

LEMMA SendRecordDelivers ==
  ASSUME ChannelInv, DeliveryInv, NEW e \in Ends, SendRecord(e)
  PROVE  DeliveryInv'
<1>0. Shape
  BY DEF ChannelInv
<1>1. /\ \A f \in Ends \ {e} : ch'[f] = ch[f]
      /\ wire' = wire \cup {<<Head(ch[e].out)>>} /\ ch'[e].out = Tail(ch[e].out) /\ sent' = sent /\ got' = got
      /\ ch'[e].closed = ch[e].closed /\ ch'[e].next = ch[e].next /\ ch'[e].binding = ch[e].binding
      /\ ch'[e].enc = ch[e].enc /\ ch'[e].dec = ch[e].dec /\ ch'[e].asm = ch[e].asm
  BY <1>0 DEF SendRecord, Shape, Fields
<1>2. /\ Parts(Tail(ch[e].out)) \subseteq Parts(ch[e].out)
      /\ Parts(<<Head(ch[e].out)>>) \subseteq Parts(ch[e].out)
  BY <1>0, HeadAndTail DEF SendRecord, Shape
<1>3. Ciphertexts' \subseteq Ciphertexts
  <2> DEFINE N == {}
  <2>0. Parts(ch[e].out) \subseteq Ciphertexts
    BY InCiphertexts
  <2>1. Parts(ch'[e].out) \subseteq Ciphertexts \cup N
    BY <1>1, <1>2, <2>0
  <2>2. \A m \in wire' \ wire : Parts(m) \subseteq Ciphertexts \cup N
    BY <1>1, <1>2, <2>0
  <2>3. Ciphertexts' \subseteq Ciphertexts \cup N
    BY <1>1, <2>1, <2>2, NewCiphertexts
  <2> QED BY <2>3
<1>4. StepOf(e)
  BY <1>1 DEF StepOf, DeliveryInv
<1> QED BY <1>1, <1>3, <1>4, QuietDelivers

(***************************************************************************)
(* An end that can decrypt a record shares its handshake with the end that *)
(* encrypted it.                                                           *)
(***************************************************************************)

\* a ciphertext that arrives was sent
LEMMA ArrivingWired ==
  ASSUME Shape, NEW m \in Arriving, NEW x \in Parts(m), x.k # NoKey
  PROVE  x \in Wired
<1>1. CASE m \in wire
  BY <1>1 DEF Wired
<1>2. CASE m \notin wire
  <2> DEFINE junk == Clear(Junk)
  <2>0. PICK m0 \in wire : \E i \in DOMAIN m0 : m = [m0 EXCEPT ![i] = junk]
    BY <1>2 DEF Arriving
  <2>1. PICK i \in DOMAIN m0 : m = [m0 EXCEPT ![i] = junk]
    BY <2>0
  <2>2. junk.k = NoKey
    BY ClearHasNoKey
  <2> HIDE DEF junk
  <2>3. PICK j \in DOMAIN m : x = m[j]
    BY DEF Parts
  <2>4. DOMAIN m = DOMAIN m0
    BY <2>1
  <2>5. j # i
    BY <2>1, <2>2, <2>3, <2>4
  <2>6. x = m0[j]
    BY <2>1, <2>3, <2>4, <2>5
  <2>7. x \in Parts(m0)
    BY <2>3, <2>4, <2>6 DEF Parts
  <2> QED BY <2>7 DEF Wired
<1> QED BY <1>1, <1>2

LEMMA WiredAre == Wired \subseteq Ciphertexts
BY InCiphertexts DEF Wired

LEMMA ClosesOnce ==
  ASSUME NEW b, NEW ck, ClosesWith(b, ck), NEW p, p \in Phones, Closing(p, b)
  PROVE  \E r : ck = PhoneCk3(p, r)
<1>1. PICK a, pt : IsSeq(a) /\ b = Append(a, <<Key(ck, 0), 0, pt>>)
  BY DEF ClosesWith
<1>2. PICK a2, k, pt2 : /\ IsSeq(a2) /\ b = Append(a2, <<k, 0, pt2>>)
                        /\ \E r : k = Key(PhoneCk3(p, r), 0)
  BY DEF Closing
<1>3. PICK r : k = Key(PhoneCk3(p, r), 0)
  BY <1>2
<1> DEFINE x == <<Key(ck, 0), 0, pt>>
           y == <<k, 0, pt2>>
<1>4. x[1] = Key(ck, 0) /\ y[1] = k
  OBVIOUS
<1> HIDE DEF x, y
<1>5. Append(a, x) = Append(a2, y)
  BY <1>1, <1>2 DEF x, y
<1>6. x = y
  BY <1>1, <1>2, <1>5, LastMixed
<1>7. Key(ck, 0) = Key(PhoneCk3(p, r), 0)
  BY <1>3, <1>4, <1>6
<1> QED BY <1>7, KeysDiffer

\* a host and a phone with the same chaining key have the same binding
LEMMA SameBinding ==
  ASSUME ChannelInv, NEW h \in Hosts, NEW p \in Phones, NEW ck,
         ClosesWith(ch[h].binding, ck), ClosesWith(ch[p].binding, ck)
  PROVE  ch[h].binding = ch[p].binding
<1>1. Completed(h) /\ Completed(p)
  BY ClosesSome DEF Completed
<1>2. PICK q \in Phones : Partners(h) = {q}
  BY <1>1 DEF ChannelInv, HandshakeAgrees
<1>3. q \in Ends /\ p \in Ends /\ ch[q].binding = ch[h].binding /\ Completed(q)
  BY <1>1, <1>2 DEF Partners, Ends, Completed
<1>4. Closing(p, ch[p].binding) /\ Closing(q, ch[q].binding)
  BY <1>1, <1>3 DEF ChannelInv, Bindings
<1>5. PICK r : ck = PhoneCk3(p, r)
  BY <1>4, ClosesOnce
<1>6. PICK r2 : ck = PhoneCk3(q, r2)
  BY <1>3, <1>4, ClosesOnce
<1>7. {p, HostKey} = {q, HostKey}
  BY <1>5, <1>6, Pairs3 DEF PhoneCk3
<1>8. p = q
  BY <1>7, Cancels
<1> QED BY <1>3, <1>8

LEMMA PartnerFound ==
  ASSUME ChannelInv, NEW e \in Ends, NEW f \in Ends, NEW ck,
         ClosesWith(ch[e].binding, ck), ClosesWith(ch[f].binding, ck), Sends(f) = Reads(e)
  PROVE  f \in Partners(e)
<1>1. e # f /\ ((e \in Phones) # (f \in Phones))
  BY DEF Sends, Reads
<1>2. CASE e \in Phones
  <2>1. f \in Hosts
    BY <1>1, <1>2, EndsAre
  <2>2. ch[f].binding = ch[e].binding
    BY <1>2, <2>1, SameBinding
  <2> QED BY <1>1, <2>2 DEF Partners
<1>3. CASE e \notin Phones
  <2>1. e \in Hosts /\ f \in Phones
    BY <1>1, <1>3, EndsAre
  <2>2. ch[f].binding = ch[e].binding
    BY <2>1, SameBinding
  <2> QED BY <1>1, <2>2 DEF Partners
<1> QED BY <1>2, <1>3

LEMMA MadeUnderTransport ==
  ASSUME NEW f, NEW k, NEW n, MadeUnder(f, k, n), k.out # 0
  PROVE  TransportKey(f, k)
<1>1. ASSUME NEW ck, k = Key(ck, 0) PROVE FALSE
  BY <1>1 DEF Key
<1>2. CASE f \in Phones
  BY <1>1, <1>2 DEF MadeUnder, TransportKey
<1>3. CASE f \notin Phones
  BY <1>1, <1>3 DEF MadeUnder, TransportKey
<1> QED BY <1>2, <1>3

\* who encrypted what an end can read
LEMMA WhoSent ==
  ASSUME ChannelInv, DeliveryInv, NEW e \in Ends, NEW ck, ClosesWith(ch[e].binding, ck),
         NEW k, k = Key(ck, Reads(e)), NEW x \in Ciphertexts, x.k = k
  PROVE  \E f \in Partners(e) : TransportKey(f, k)
<1>1. k.out = Reads(e) /\ k.ck = ck /\ k.out # 0 /\ NoKey.out = 0
  BY DEF Key, Reads, NoKey
<1>2. PICK f \in Ends : MadeBy(f, x)
  BY <1>1 DEF ChannelInv, AllMade
<1>3. MadeUnder(f, k, x.n)
  BY <1>2, MadeOwned
<1>4. TransportKey(f, k)
  BY <1>1, <1>3, MadeUnderTransport
<1>5. Sends(f) = Reads(e)
  BY <1>1, <1>4, TransportOut
<1>6. ClosesWith(ch[f].binding, ck)
  BY <1>1, <1>4, Sequences DEF DeliveryOf, Tied
<1>7. f \in Partners(e)
  BY <1>5, <1>6, PartnerFound
<1> QED BY <1>4, <1>7

LEMMA DecryptOk ==
  ASSUME NEW k, NEW n, NEW ct, Decrypt([k |-> k, n |-> n], ct).ok
  PROVE  n # MaxNonce
<1> DEFINE c == [k |-> k, n |-> n]
<1>1. c.n = n
  OBVIOUS
<1> HIDE DEF c
<1>2. ASSUME n = MaxNonce PROVE FALSE
  <2>1. DecryptWithAd(c, <<>>, ct) = [ok |-> FALSE, c |-> c, pt |-> Junk]
    BY <1>1, <1>2 DEF DecryptWithAd
  <2>2. ~[ok |-> FALSE, c |-> c, pt |-> Junk].ok
    OBVIOUS
  <2>3. Decrypt(c, ct).ok
    BY DEF c
  <2> QED BY <2>1, <2>2, <2>3 DEF Decrypt
<1> QED BY <1>2

LEMMA DecryptsTo ==
  ASSUME NEW c, NEW ct
  PROVE  \E ok, c2, pt : Decrypt(c, ct) = [ok |-> ok, c |-> c2, pt |-> pt]
<1> DEFINE c1 == [c EXCEPT !.n = @ + 1]
<1>1. \/ Decrypt(c, ct) = [ok |-> FALSE, c |-> c, pt |-> Junk]
      \/ Decrypt(c, ct) = [ok |-> TRUE, c |-> c, pt |-> ct.pt]
      \/ Decrypt(c, ct) = [ok |-> TRUE, c |-> c1, pt |-> ct.pt]
  <2> HIDE DEF c1
  <2>1. Decrypt(c, ct) = IF c.n = MaxNonce THEN [ok |-> FALSE, c |-> c, pt |-> Junk]
                         ELSE IF ~HasKey(c) THEN [ok |-> TRUE, c |-> c, pt |-> ct.pt]
                         ELSE IF ~Authentic(c, <<>>, ct) THEN [ok |-> FALSE, c |-> c, pt |-> Junk]
                         ELSE [ok |-> TRUE, c |-> c1, pt |-> ct.pt]
    BY Zenon DEF Decrypt, DecryptWithAd, c1
  <2> QED BY <2>1
<1> HIDE DEF c1
<1> DEFINE pt == ct.pt
           no == FALSE
           yes == TRUE
<1>2. \/ Decrypt(c, ct) = [ok |-> no, c |-> c, pt |-> Junk]
      \/ Decrypt(c, ct) = [ok |-> yes, c |-> c, pt |-> pt]
      \/ Decrypt(c, ct) = [ok |-> yes, c |-> c1, pt |-> pt]
  BY <1>1
<1> HIDE DEF pt, no, yes
<1> QED BY <1>2

DecryptedAs(d, m, k, n) ==
    /\ Len(m) = 1 /\ m[1].k = k /\ m[1].n = n /\ n + 1 \in 0 .. MaxNonce
    /\ d.c = [k |-> k, n |-> n + 1] /\ d.pt = m[1].pt

LEMMA DecryptsRecord ==
  ASSUME NEW e, NEW m, NEW k, k # NoKey, NEW n \in 0 .. MaxNonce, ch[e].dec = [k |-> k, n |-> n],
         NEW d, d = Decrypted(e, m), d.ok
  PROVE  DecryptedAs(d, m, k, n)
<1> DEFINE c == ch[e].dec
           ct == m[1]
           d0 == Decrypt(c, ct)
<1>1. d = [d0 EXCEPT !.ok = @ /\ Len(m) = 1]
  BY DEF Decrypted
<1>2. PICK ok, c2, pt : d0 = [ok |-> ok, c |-> c2, pt |-> pt]
  <2> HIDE DEF c, ct
  <2> QED BY DecryptsTo
<1> HIDE DEF d0
<1>3. d.ok = (d0.ok /\ Len(m) = 1) /\ d.c = d0.c /\ d.pt = d0.pt
  BY <1>1, <1>2
<1>4. d0.ok /\ Len(m) = 1
  BY <1>3
<1>5. d0 = DecryptWithAd([k |-> k, n |-> n], <<>>, ct)
  BY DEF Decrypt, d0
<1>6. n # MaxNonce
  <2> HIDE DEF ct
  <2>1. d0 = Decrypt([k |-> k, n |-> n], ct)
    BY DEF d0
  <2> QED BY <1>4, <2>1, DecryptOk
<1>7. n \in Nat /\ n < MaxNonce /\ n + 1 \in 0 .. MaxNonce
  BY <1>6, NoiseAssumption
<1>8. ct.k = k /\ ct.n = n /\ d0.c = [k |-> k, n |-> n + 1] /\ d0.pt = ct.pt
  <2> HIDE DEF ct
  <2> QED BY <1>4, <1>5, <1>7, DecryptsKeyed
<1> QED BY <1>3, <1>4, <1>7, <1>8 DEF DecryptedAs

\* a record that is decrypted and taken brings the end one further
LEMMA FeedAccepts ==
  ASSUME ChannelInv, DeliveryInv, NEW e \in Ends, Finished(e), NEW k, NEW n \in 0 .. MaxNonce, ch[e].dec = [k |-> k, n |-> n],
         NEW x \in Wired, x.k = k, x.n = n, NEW p, p = Push(ch[e].asm, ch[e].binding, x.pt), p.res # "rejected"
  PROVE  \E f \in Partners(e) :
            /\ TransportKey(f, k)
            /\ Received(Wired, k, ch[e].binding, sent[f], f, n + 1, p.a, Got(got[e], p))
<1> DEFINE b == ch[e].binding
           a == ch[e].asm
           g == got[e]
           X == Under(Ciphertexts, k)
           W == Wired
<1>1. DeliveryOf(e) /\ \A f \in Ends : DeliveryOf(f) /\ Messages(sent[f])
  BY Sequences
<1>2. ch[e].dec.k = k /\ ch[e].dec.n = n
  OBVIOUS
<1>3. PICK ck : k = Key(ck, Reads(e)) /\ ClosesWith(b, ck)
  <2>1. KeyedAs(ch[e], e)
    BY <1>1 DEF DeliveryOf
  <2>2. PICK ck : \E n2 : ch[e].dec = [k |-> Key(ck, Reads(e)), n |-> n2] /\ ClosesWith(b, ck)
    BY <2>1 DEF KeyedAs
  <2> DEFINE k2 == Key(ck, Reads(e))
  <2>3. PICK n2 : ch[e].dec = [k |-> k2, n |-> n2]
    BY <2>2
  <2> HIDE DEF k2
  <2>4. ch[e].dec.k = k2
    BY <2>3
  <2> QED BY <1>2, <2>2, <2>4 DEF k2
<1>4. b # <<>>
  BY <1>3, ClosesSome
<1>5. \A z \in W : z.k = k => z \in X
  BY WiredAre DEF Under
<1>6. p = Push(a, b, x.pt)
  OBVIOUS
<1>7. ASSUME NEW f \in Partners(e), TransportKey(f, k)
      PROVE  Chain(X, b, sent[f], f) /\ Messages(sent[f])
  <2>1. f \in Ends /\ ch[f].binding = b
    BY DEF Partners
  <2>2. Chain(X, ch[f].binding, sent[f], f)
    BY <1>1, <1>7, <2>1 DEF DeliveryOf, Sender
  <2> QED BY <1>1, <2>1, <2>2
<1>8. CASE n = 0 /\ a = Idle /\ g = <<>>
  <2>1. x \in Ciphertexts
    BY WiredAre
  <2>2. PICK f \in Partners(e) : TransportKey(f, k)
    BY <1>3, <2>1, WhoSent
  <2> DEFINE s == sent[f]
  <2>3. Chain(X, b, s, f) /\ Messages(s)
    BY <1>7, <2>2
  <2>4. x.n = 0
    BY <1>8
  <2> HIDE DEF s, X, W, a, b, g
  <2>5. Received(W, k, b, s, f, 0 + 1, p.a, Got(g, p))
    BY <1>4, <1>5, <1>6, <1>8, <2>3, <2>4, ReceivesFirst DEF W
  <2> QED BY <1>8, <2>2, <2>5 DEF s, W, b, g
<1>9. ASSUME NEW f \in Partners(e), ReceivedFrom(f, e)
      PROVE  TransportKey(f, k) /\ Received(W, k, b, sent[f], f, n + 1, p.a, Got(g, p))
  <2> DEFINE s == sent[f]
  <2>1. TransportKey(f, k) /\ Received(W, k, b, s, f, n, a, g)
    BY <1>2, <1>9 DEF ReceivedFrom
  <2>2. Chain(X, b, s, f) /\ Messages(s)
    BY <1>7, <2>1
  <2> HIDE DEF s, X, W, a, b, g
  <2>3. Received(W, k, b, s, f, n + 1, p.a, Got(g, p))
    BY <1>4, <1>5, <1>6, <2>1, <2>2, ReceivesNext DEF W
  <2> QED BY <2>1, <2>3 DEF s
<1>10. (n = 0 /\ a = Idle /\ g = <<>>) \/ \E f \in Partners(e) : ReceivedFrom(f, e)
  BY <1>1, <1>2 DEF DeliveryOf, Receiver
<1> QED BY <1>8, <1>9, <1>10

LEMMA FeedDelivers ==
  ASSUME ChannelInv, DeliveryInv, NEW e \in Ends, NEW m \in Arriving, FeedCiphertext(e, m)
  PROVE  DeliveryInv'
<1> DEFINE d == Decrypted(e, m)
           p == Push(ch[e].asm, ch[e].binding, d.pt)
<1>0. Shape /\ Finished(e) /\ DOMAIN got = Ends /\ DOMAIN sent = Ends
  BY DEF ChannelInv, FeedCiphertext, DeliveryInv
<1>1. wire' = wire /\ sent' = sent
  BY DEF FeedCiphertext
<1>2. CASE ch' = [ch EXCEPT ![e] = Shut(@)] /\ got' = got
  BY <1>1, <1>2, ShutDelivers
<1>3. \/ ch' = [ch EXCEPT ![e] = Shut(@)] /\ got' = got
      \/ /\ d.ok /\ p.res # "rejected"
         /\ ch' = [ch EXCEPT ![e].dec = d.c, ![e].asm = p.a]
         /\ got' = IF p.res = "whole" THEN [got EXCEPT ![e] = Append(@, p.bytes)] ELSE got
  BY Zenon DEF FeedCiphertext
<1>4. CASE /\ d.ok /\ p.res # "rejected"
           /\ ch' = [ch EXCEPT ![e].dec = d.c, ![e].asm = p.a]
           /\ got' = IF p.res = "whole" THEN [got EXCEPT ![e] = Append(@, p.bytes)] ELSE got
  <2> DEFINE dc == d.c
             pa == p.a
             x == m[1]
             b == ch[e].binding
  <2>1. DeliveryOf(e) /\ \A f \in Ends : Messages(sent[f])
    BY Sequences
  <2>2. PICK ck : \E n1 \in 0 .. MaxNonce, n2 \in 0 .. MaxNonce :
            /\ ch[e].enc = [k |-> Key(ck, Sends(e)), n |-> n1] /\ ch[e].dec = [k |-> Key(ck, Reads(e)), n |-> n2]
            /\ ClosesWith(b, ck)
    BY <1>0, <2>1 DEF DeliveryOf, KeyedAs
  <2> DEFINE k1 == Key(ck, Sends(e))
             k == Key(ck, Reads(e))
  <2>3. PICK n1 \in 0 .. MaxNonce : \E n2 \in 0 .. MaxNonce :
            ch[e].enc = [k |-> k1, n |-> n1] /\ ch[e].dec = [k |-> k, n |-> n2] /\ ClosesWith(b, ck)
    BY <2>2
  <2>4. PICK n \in 0 .. MaxNonce :
            ch[e].enc = [k |-> k1, n |-> n1] /\ ch[e].dec = [k |-> k, n |-> n] /\ ClosesWith(b, ck)
    BY <2>3
  <2>5. k # NoKey
    <3>1. k.out # 0 /\ NoKey.out = 0
      BY DEF Key, Reads, NoKey
    <3> QED BY <3>1
  <2>6. Len(m) = 1 /\ x.k = k /\ x.n = n /\ n + 1 \in 0 .. MaxNonce /\ dc = [k |-> k, n |-> n + 1] /\ d.pt = x.pt
    <3> HIDE DEF k
    <3>1. d = Decrypted(e, m) /\ d.ok
      BY <1>4
    <3>2. ch[e].dec = [k |-> k, n |-> n]
      BY <2>4
    <3> HIDE DEF d
    <3>3. DecryptedAs(d, m, k, n)
      BY <2>5, <3>1, <3>2, DecryptsRecord
    <3> QED BY <3>3 DEF DecryptedAs
  <2>7. x \in Wired
    <3>1. IsSeq(m)
      BY <1>0, ArrivingParts
    <3>2. x \in Parts(m)
      BY <2>6, <3>1 DEF IsSeq, Parts
    <3> QED BY <1>0, <2>5, <2>6, <3>2, ArrivingWired
  <2>8. p = Push(ch[e].asm, b, x.pt)
    BY <2>6
  <2> HIDE DEF d, p, k, k1, dc, pa, x
  <2>9. PICK f \in Partners(e) :
            TransportKey(f, k) /\ Received(Wired, k, b, sent[f], f, n + 1, p.a, Got(got[e], p))
    BY <1>0, <1>4, <2>4, <2>6, <2>7, <2>8, FeedAccepts
  <2>10. ch' = [ch EXCEPT ![e].dec = dc, ![e].asm = pa]
    BY <1>4 DEF dc, pa
  <2>11. /\ \A h \in Ends \ {e} : ch'[h] = ch[h]
         /\ ch'[e].out = ch[e].out
         /\ ch'[e].closed = ch[e].closed /\ ch'[e].next = ch[e].next /\ ch'[e].binding = ch[e].binding
         /\ ch'[e].enc = ch[e].enc /\ ch'[e].dec = dc /\ ch'[e].asm = pa
    BY <1>0, <2>10 DEF Shape, Fields
  <2>12. got'[e] = Got(got[e], p) /\ DOMAIN got' = Ends /\ \A h \in Ends \ {e} : got'[h] = got[h]
    BY <1>0, <1>4 DEF Got
  <2>13. Ciphertexts' \subseteq Ciphertexts
    BY <1>1, <2>11, WireKept
  <2>14. StepOf(e)
    BY <1>0, <1>1, <2>11, <2>12 DEF StepOf
  <2>15. Frame(e)
    <3> DEFINE N == {}
    <3>1. Ciphertexts' \subseteq Ciphertexts \cup N /\ \A z \in N : z.k.out = 0 \/ TransportKey(e, z.k)
      BY <2>13
    <3> HIDE DEF N
    <3> QED BY <1>1, <2>11, <2>14, <3>1, FrameOf DEF Continued
  <2>16. Tied(e)' /\ Sender(e)'
    BY <1>1, <2>11, <2>13, SenderStays
  <2>17. KeyedAs(ch'[e], e)
    <3>1. ch'[e].enc = [k |-> k1, n |-> n1] /\ ch'[e].dec = [k |-> k, n |-> n + 1] /\ ClosesWith(ch'[e].binding, ck)
      BY <2>4, <2>6, <2>11
    <3> QED BY <2>6, <3>1 DEF KeyedAs, k, k1
  <2>18. Completed(e) /\ f \in Partners(e)' /\ Wired' = Wired
    <3>1. Completed(e)
      BY <1>0, Sequences
    <3>2. f \in Partners(e)'
      BY <2>15, <3>1, PartnersStay
    <3> QED BY <1>1, <3>1, <3>2 DEF Wired
  <2>19. ReceivedFrom(f, e)'
    <3>1. ch'[e].dec.k = k /\ ch'[e].dec.n = n + 1 /\ ch'[e].asm = p.a
      BY <2>6, <2>11 DEF pa
    <3>2. TransportKey(f, ch'[e].dec.k)
      BY <2>9, <3>1
    <3>3. Received(Wired', ch'[e].dec.k, ch'[e].binding, sent'[f], f, ch'[e].dec.n, ch'[e].asm, got'[e])
      BY <1>1, <2>9, <2>11, <2>12, <2>18, <3>1
    <3> QED BY <3>2, <3>3 DEF ReceivedFrom, TransportKey
  <2>20. Receiver(e)'
    <3>1. ~(IsOpen(e)' /\ ch'[e].next # "complete")
      BY <1>0, <2>11 DEF Finished
    <3> QED BY <2>18, <2>19, <3>1 DEF Receiver
  <2>21. History(e)'
    <3>1. \E c : Delivered(Got(got[e], p), sent[f], c)
      BY <2>9, ReceivedDelivered
    <3>2. \E c : Delivered(got'[e], sent'[f], c)
      BY <1>1, <2>12, <3>1
    <3> QED BY <2>11, <2>18, <3>2 DEF History, Completed
  <2> QED BY <2>15, <2>16, <2>17, <2>20, <2>21, Delivers DEF DeliveryOf
<1> QED BY <1>2, <1>3, <1>4

(***************************************************************************)
(* The steps that encrypt.                                                 *)
(***************************************************************************)

\* the records of a message, one for each piece
LEMMA EncodedAre ==
  ASSUME NEW b, NEW id, NEW m, IsSeq(m), NEW s, s = EncodeMessage(b, id, m)
  PROVE  Len(s) = Pieces(m) /\ \A j \in 1 .. Pieces(m) : s[j] = Record(b, id, m, j - 1)
<1> DEFINE F == Pieces(m)
           rec(i) == Record(b, id, m, i - 1)
           S == {rec(i) : i \in 1 .. F}
<1>1. F \in Nat
  BY PiecesIs
<1>2. s = [i \in 1 .. F |-> rec(i)]
  BY DEF EncodeMessage, Pieces
<1> HIDE DEF F, rec
<1>3. s \in Seq(S) /\ Len(s) = F /\ \A j \in 1 .. F : s[j] = rec(j)
  BY <1>1, <1>2
<1> QED BY <1>3 DEF F, rec

LEMMA TransportIs ==
  ASSUME NEW e, NEW k, TransportKey(e, k)
  PROVE  k = Key(k.ck, Sends(e))
<1>1. ASSUME NEW ck, NEW out, k = Key(ck, out) PROVE k = Key(k.ck, out)
  BY <1>1 DEF Key
<1>2. CASE e \in Phones
  BY <1>1, <1>2 DEF TransportKey, Sends
<1>3. CASE e \notin Phones
  BY <1>1, <1>3 DEF TransportKey, Sends
<1> QED BY <1>2, <1>3

LEMMA ClosesWithOne ==
  ASSUME NEW b, NEW ck, NEW ck2, ClosesWith(b, ck), ClosesWith(b, ck2)
  PROVE  ck = ck2
<1>1. PICK a, pt : IsSeq(a) /\ b = Append(a, <<Key(ck, 0), 0, pt>>)
  BY DEF ClosesWith
<1>2. PICK a2, pt2 : IsSeq(a2) /\ b = Append(a2, <<Key(ck2, 0), 0, pt2>>)
  BY DEF ClosesWith
<1> DEFINE x == <<Key(ck, 0), 0, pt>>
           y == <<Key(ck2, 0), 0, pt2>>
<1>4. x[1] = Key(ck, 0) /\ y[1] = Key(ck2, 0)
  OBVIOUS
<1> HIDE DEF x, y
<1>5. Append(a, x) = Append(a2, y)
  BY <1>1, <1>2 DEF x, y
<1>6. x = y
  BY <1>1, <1>2, <1>5, LastMixed
<1>7. Key(ck, 0) = Key(ck2, 0)
  BY <1>4, <1>6
<1> QED BY <1>7, KeysDiffer

\* e sends more under its one transport key
LEMMA SendsMore ==
  ASSUME ChannelInv, DeliveryInv, NEW e \in Ends, Finished(e), NEW k, NEW n, NEW n2, NEW N, Encrypts(e, k, n, n2, N),
         StepOf(e), Continued(sent[e], sent'[e]), got'[e] = got[e], Messages(sent'[e]),
         Chain(Under(Ciphertexts, k) \cup N, ch[e].binding, sent'[e], e),
         EndsAt(Under(Ciphertexts, k) \cup N, ch[e].binding, sent'[e], e, n2)
  PROVE  DeliveryInv'
<1> DEFINE b == ch[e].binding
<1>1. DeliveryOf(e) /\ Completed(e) /\ \A f \in Ends : Messages(sent[f])
  BY Sequences
<1>2. /\ TransportKey(e, k) /\ n2 \in 0 .. MaxNonce
      /\ Ciphertexts' \subseteq Ciphertexts \cup N /\ \A x \in N : x.k = k
      /\ ch'[e].closed = ch[e].closed /\ ch'[e].next = ch[e].next /\ ch'[e].binding = b
      /\ ch'[e].dec = ch[e].dec /\ ch'[e].asm = ch[e].asm
  BY DEF Encrypts, Same
<1>3. ch[e].enc = [k |-> k, n |-> n] /\ ch'[e].enc = [k |-> k, n |-> n2]
  BY DEF Encrypts
<1>4. PICK ck : \E n1 \in 0 .. MaxNonce, n3 \in 0 .. MaxNonce :
            /\ ch[e].enc = [k |-> Key(ck, Sends(e)), n |-> n1] /\ ch[e].dec = [k |-> Key(ck, Reads(e)), n |-> n3]
            /\ ClosesWith(b, ck)
  BY <1>1 DEF DeliveryOf, KeyedAs
<1> DEFINE k1 == Key(ck, Sends(e))
           k3 == Key(ck, Reads(e))
<1>5. PICK n1 \in 0 .. MaxNonce : \E n3 \in 0 .. MaxNonce :
            ch[e].enc = [k |-> k1, n |-> n1] /\ ch[e].dec = [k |-> k3, n |-> n3] /\ ClosesWith(b, ck)
  BY <1>4
<1>6. PICK n3 \in 0 .. MaxNonce :
            ch[e].enc = [k |-> k1, n |-> n1] /\ ch[e].dec = [k |-> k3, n |-> n3] /\ ClosesWith(b, ck)
  BY <1>5
<1> HIDE DEF k1, k3
<1>7. k = k1
  <2>1. ch[e].enc.k = k /\ ch[e].enc.k = k1
    BY <1>3, <1>6
  <2> QED BY <2>1
<1>8. KeyedAs(ch'[e], e)
  <2>1. ch'[e].enc = [k |-> k1, n |-> n2] /\ ch'[e].dec = [k |-> k3, n |-> n3] /\ ClosesWith(ch'[e].binding, ck)
    BY <1>2, <1>3, <1>6, <1>7
  <2> QED BY <1>2, <2>1 DEF KeyedAs, k1, k3
<1>9. Frame(e)
  BY <1>2, FrameOf
<1>10. k.ck = ck
  BY <1>7 DEF k1, Key
<1>11. Tied(e)'
  <2>1. ASSUME NEW x \in Ciphertexts', TransportKey(e, x.k) PROVE ClosesWith(b, x.k.ck)
    <3>1. CASE x \in N
      BY <1>2, <1>6, <1>10, <3>1
    <3>2. CASE x \in Ciphertexts
      BY <1>1, <2>1, <3>2 DEF DeliveryOf, Tied
    <3> QED BY <1>2, <3>1, <3>2
  <2> QED BY <1>2, <2>1 DEF Tied, TransportKey
<1>12. ASSUME NEW k2, TransportKey(e, k2)
       PROVE  Chain(Under(Ciphertexts', k2), ch'[e].binding, sent'[e], e)
  <2>1. CASE k2 = k
    <3>1. Under(Ciphertexts', k) \subseteq Under(Ciphertexts, k) \cup N
      BY <1>2 DEF Under
    <3> QED BY <1>2, <2>1, <3>1, ChainSubset
  <2>2. CASE k2 # k
    <3>1. ASSUME NEW x \in Ciphertexts, x.k = k2 PROVE FALSE
      <4>1. ClosesWith(b, k2.ck)
        BY <1>1, <1>12, <3>1 DEF DeliveryOf, Tied
      <4>2. k2.ck = ck
        BY <1>6, <4>1, ClosesWithOne
      <4>3. k2 = Key(ck, Sends(e))
        BY <1>12, <4>2, TransportIs
      <4> QED BY <1>7, <2>2, <4>3 DEF k1
    <3>2. Under(Ciphertexts', k2) = {}
      BY <1>2, <2>2, <3>1 DEF Under
    <3> QED BY <3>2, NoChain
  <2> QED BY <2>1, <2>2
<1>13. EndsAt(Under(Ciphertexts', ch'[e].enc.k), ch'[e].binding, sent'[e], e, ch'[e].enc.n)
  <2>1. Under(Ciphertexts', k) \subseteq Under(Ciphertexts, k) \cup N
    BY <1>2 DEF Under
  <2>2. EndsAt(Under(Ciphertexts', k), b, sent'[e], e, n2)
    BY <2>1, ChainSubset
  <2>3. ch'[e].enc.k = k /\ ch'[e].enc.n = n2
    BY <1>3
  <2> QED BY <1>2, <2>2, <2>3
<1>14. Sender(e)'
  <2>1. ~(IsOpen(e)' /\ ch'[e].next # "complete")
    BY <1>2 DEF Finished
  <2> QED BY <1>12, <1>13, <2>1 DEF Sender, TransportKey
<1>15. Receiver(e)' /\ History(e)'
  BY <1>1, <1>2, <1>9, ReceiverStays, HistoryStays DEF DeliveryOf
<1> QED BY <1>8, <1>9, <1>11, <1>14, <1>15, Delivers DEF DeliveryOf

LEMMA Before ==
  ASSUME ChannelInv, NEW e \in Ends, Finished(e), NEW k, NEW n, NEW n2, NEW N, Encrypts(e, k, n, n2, N)
  PROVE  \A x \in Under(Ciphertexts, k) : x.n \in Nat /\ x.n < n
<1>1. ch[e].enc = [k |-> k, n |-> n]
  BY DEF Encrypts
<1>2. ch[e].enc.k = k /\ ch[e].enc.n = n
  BY <1>1
<1> QED BY <1>2, EncKeyed

LEMMA PhoneMisframesDelivers ==
  ASSUME ChannelInv, DeliveryInv, NEW e \in Ends, NEW r \in Misframed(ch[e], e), PhoneMisframes(e, r)
  PROVE  DeliveryInv'
<1> DEFINE b == ch[e].binding
<1>1. PICK k, n : Encrypts(e, k, n, n + 1, {Ct(k, n, <<>>, r)})
  BY PhoneMisframesEncrypts
<1> DEFINE c == Ct(k, n, <<>>, r)
           N == {c}
           X == Under(Ciphertexts, k)
           s == sent[e]
<1>2. Finished(e) /\ sent' = sent /\ got' = got /\ wire \subseteq wire'
  BY DEF PhoneMisframes
<1>3. DeliveryOf(e) /\ Messages(s)
  BY Sequences
<1>4. TransportKey(e, k) /\ n \in Nat /\ \A f \in Ends \ {e} : ch'[f] = ch[f]
  BY <1>1 DEF Encrypts
<1>5. Chain(X, b, s, e)
  BY <1>3, <1>4 DEF DeliveryOf, Sender
<1>6. EndsAt(X, b, s, e, n)
  <2>1. ch[e].enc = [k |-> k, n |-> n]
    BY <1>1 DEF Encrypts
  <2>2. ch[e].enc.k = k /\ ch[e].enc.n = n
    BY <2>1
  <2> QED BY <1>2, <1>3, <2>2 DEF DeliveryOf, Sender
<1>7. \A x \in X : x.n \in Nat /\ x.n < n
  BY <1>1, <1>2, Before
<1>8. c.n = n /\ c.pt = r
  BY CtFields
<1>9. Odd(b, e, c)
  <2>1. [binding |-> b].binding = b
    OBVIOUS
  <2>2. r \in OddRecord(b, e)
    BY <2>1 DEF OddRecord, Misframed
  <2> QED BY <1>8, <2>2 DEF Odd
<1>10. Encrypts(e, k, n, n + 1, N)
  BY <1>1
<1> HIDE DEF c, b, s, X
<1>11. Chain(X \cup {c}, b, s, e) /\ EndsAt(X \cup {c}, b, s, e, n + 1)
  BY <1>3, <1>4, <1>5, <1>6, <1>7, <1>8, <1>9, ChainOdd
<1>12. StepOf(e)
  BY <1>2, <1>4 DEF StepOf, DeliveryInv
<1> DEFINE n2 == n + 1
<1>13. /\ Chain(Under(Ciphertexts, k) \cup N, ch[e].binding, sent'[e], e)
       /\ EndsAt(Under(Ciphertexts, k) \cup N, ch[e].binding, sent'[e], e, n2)
  BY <1>2, <1>11 DEF X, b, s
<1>14. Messages(sent'[e]) /\ Continued(sent[e], sent'[e]) /\ got'[e] = got[e] /\ Encrypts(e, k, n, n2, N)
  BY <1>2, <1>3, <1>10 DEF Continued, s
<1> HIDE DEF N, n2
<1> QED BY <1>2, <1>12, <1>13, <1>14, SendsMore

LEMMA NextCiphertextsDelivers ==
  ASSUME ChannelInv, DeliveryInv, NEW e \in Ends, NEW len \in Lengths, NextCiphertexts(e, len)
  PROVE  DeliveryInv'
<1> DEFINE b == ch[e].binding
           s == sent[e]
           i == Len(s) + 1
           m == Bytes(e, i, len)
           id == MessageId(e, i)
           records == EncodeMessage(b, id, m)
<1>1. Finished(e) /\ wire' = wire /\ got' = got /\ Len(s) + 1 <= MaxMessages
  BY DEF NextCiphertexts
<1>2. \/ ch' = [ch EXCEPT ![e] = Shut(@)] /\ sent' = sent
      \/ Encodes(e, m, records)
  BY NextCiphertextsEncrypts
<1>3. CASE ch' = [ch EXCEPT ![e] = Shut(@)] /\ sent' = sent
  BY <1>1, <1>3, ShutDelivers
<1>4. CASE Encodes(e, m, records)
  <2>1. PICK k, n, N : /\ Encrypts(e, k, n, n + Len(records), N)
                       /\ \A y \in N : y.pt = records[y.n - n + 1]
    BY <1>4 DEF Encodes
  <2> DEFINE X == Under(Ciphertexts, k)
             t == sent'[e]
             P == Pieces(m)
             n2 == n + P
  <2>2. DeliveryOf(e) /\ Messages(s) /\ e \in DOMAIN sent /\ DOMAIN sent = Ends /\ DOMAIN got = Ends
    BY Sequences DEF DeliveryInv
  <2>3. t = Append(s, m) /\ \A f \in Ends \ {e} : sent'[f] = sent[f]
    BY <1>4, <2>2 DEF Encodes
  <2>4. IsSeq(m)
    BY BytesAre, ChannelAssumption
  <2>5. Grows(s, m, t)
    BY <1>1, <2>3, <2>4 DEF Grows
  <2>6. Len(records) = P /\ \A j \in 1 .. P : records[j] = Record(b, id, m, j - 1)
    <3> HIDE DEF m, id, b
    <3> QED BY <2>4, EncodedAre
  <2>7. Encrypts(e, k, n, n2, N)
    BY <2>1, <2>6
  <2>8. TransportKey(e, k) /\ n \in Nat /\ \A f \in Ends \ {e} : ch'[f] = ch[f]
    BY <2>7 DEF Encrypts
  <2>9. Chain(X, b, s, e)
    BY <2>2, <2>8 DEF DeliveryOf, Sender
  <2>10. EndsAt(X, b, s, e, n)
    <3>1. ch[e].enc = [k |-> k, n |-> n]
      BY <2>7 DEF Encrypts
    <3>2. ch[e].enc.k = k /\ ch[e].enc.n = n
      BY <3>1
    <3> QED BY <1>1, <2>2, <3>2 DEF DeliveryOf, Sender
  <2>11. \A x \in X : x.n \in Nat /\ x.n < n
    BY <1>1, <2>7, Before
  <2>12. ASSUME NEW c \in N
         PROVE  /\ c.n \in Nat /\ n <= c.n /\ c.n < n + P
                /\ c.pt = Record(b, id, m, c.n - n)
    <3>1. c.n \in Nat /\ n <= c.n /\ c.n < n + P
      BY <2>7 DEF Encrypts
    <3>2. c.n - n + 1 \in 1 .. P /\ (c.n - n + 1) - 1 = c.n - n
      <4>1. P \in Nat
        BY <2>4, PiecesIs
      <4> HIDE DEF P
      <4> QED BY <2>8, <3>1, <4>1
    <3>3. c.pt = records[c.n - n + 1]
      BY <2>1
    <3> DEFINE j == c.n - n + 1
    <3>4. records[j] = Record(b, id, m, j - 1)
      BY <2>6, <3>2
    <3> QED BY <3>1, <3>2, <3>3, <3>4
  <2>13. DOMAIN sent' = Ends /\ DOMAIN got' = Ends
    BY <1>1, <1>4, <2>2 DEF Encodes
  <2>14. StepOf(e)
    BY <1>1, <2>3, <2>8, <2>13 DEF StepOf
  <2>15. Continued(s, t)
    BY <2>5 DEF Continued
  <2> HIDE DEF X, t, P, m, b, records
  <2>16. Chain(X \cup N, b, t, e) /\ EndsAt(X \cup N, b, t, e, n + P) /\ Messages(t)
    <3>1. \A c \in N : /\ c.n \in Nat /\ n <= c.n /\ c.n < n + Pieces(m)
                       /\ c.pt = Record(b, MessageId(e, Len(s) + 1), m, c.n - n)
      BY <2>12 DEF P
    <3> HIDE DEF s
    <3>2. Chained(X, b, s, e, n) /\ Precedes(X, n) /\ Carries(N, b, s, e, n, m)
      BY <2>9, <2>10, <2>11, <3>1 DEF Chained, Precedes, Carries
    <3>3. n2 = n + Pieces(m)
      BY DEF P
    <3> HIDE DEF n2
    <3>4. Chained(X \cup N, b, t, e, n2) /\ Messages(t)
      BY <2>2, <2>5, <2>8, <3>2, <3>3, ChainMessage
    <3> QED BY <3>3, <3>4 DEF Chained, P
  <2>17. /\ Chain(Under(Ciphertexts, k) \cup N, ch[e].binding, sent'[e], e)
         /\ EndsAt(Under(Ciphertexts, k) \cup N, ch[e].binding, sent'[e], e, n2)
         /\ Messages(sent'[e]) /\ Continued(sent[e], sent'[e])
    BY <2>15, <2>16 DEF X, b, t
  <2>18. got'[e] = got[e]
    BY <1>1
  <2> HIDE DEF n2, s
  <2> QED BY <1>1, <2>7, <2>14, <2>17, <2>18, SendsMore
<1> QED BY <1>2, <1>3, <1>4

(***************************************************************************)
(* The steps of the handshake: nothing is encrypted under a transport key, *)
(* or delivered, before the handshake is complete.                         *)
(***************************************************************************)

\* before the handshake is complete nothing is encrypted under a transport key
LEMMA NoneYet ==
  ASSUME ChannelInv, NEW e \in Ends, IsOpen(e), ch[e].next # "complete", NEW k, TransportKey(e, k),
         NEW N, Ciphertexts' \subseteq Ciphertexts \cup N, \A x \in N : x.k.out = 0
  PROVE  Under(Ciphertexts', k) = {}
<1>1. k # NoKey /\ k.out \in {1, 2}
  BY TransportKeyed, TransportOut
<1>2. ASSUME NEW x \in Ciphertexts, x.k = k PROVE FALSE
  <2>1. PICK f \in Ends : MadeBy(f, x)
    BY <1>1, <1>2 DEF ChannelInv, AllMade
  <2>2. CASE f # e
    <3>1. MadeUnder(f, k, x.n)
      BY <1>2, <2>1, MadeOwned
    <3> QED BY <2>2, <3>1, TransportIsOwn DEF TransportKey
  <2>3. CASE f = e
    <3>1. \A ck : Key(ck, 0).out = 0
      BY DEF Key
    <3>2. x.k.out = 0
      <4>1. CASE e \in Phones
        BY <2>1, <2>3, <3>1, <4>1, PhoneMadeBefore
      <4>2. CASE e \notin Phones
        BY <2>1, <2>3, <3>1, <4>2, HostMadeBefore
      <4> QED BY <4>1, <4>2
    <3> QED BY <1>1, <1>2, <3>2
  <2> QED BY <2>2, <2>3
<1> QED BY <1>1, <1>2 DEF Under

StartsAfresh(e, c) == TransportKey(e, c.enc.k) /\ c.enc.n = 0 /\ c.dec.n = 0

\* a step of the handshake
LEMMA StepsForward ==
  ASSUME ChannelInv, DeliveryInv, NEW e \in Ends, IsOpen(e), ch[e].next # "complete",
         StepOf(e), sent'[e] = sent[e], got'[e] = got[e], ch'[e].asm = ch[e].asm,
         NEW N, Ciphertexts' \subseteq Ciphertexts \cup N, \A x \in N : x.k.out = 0,
         ch'[e].next = "complete" => KeyedAs(ch'[e], e) /\ StartsAfresh(e, ch'[e])
  PROVE  DeliveryInv'
<1>1. ~Completed(e)
  BY DEF ChannelInv, Phase, Completed
<1>2. DeliveryOf(e)
  BY Sequences
<1>3. Frame(e)
  BY <1>1, FrameOf DEF Continued
<1>4. Len(sent[e]) = 0 /\ Messages(sent[e]) /\ got[e] = <<>> /\ ch[e].asm = Idle
  BY <1>2 DEF DeliveryOf, Sender, Receiver
<1>5. ASSUME NEW k, TransportKey(e, k) PROVE Under(Ciphertexts', k) = {}
  BY <1>5, NoneYet
<1>6. Tied(e)'
  <2>1. ASSUME NEW x \in Ciphertexts', TransportKey(e, x.k) PROVE FALSE
    BY <1>5, <2>1 DEF Under
  <2> QED BY <2>1 DEF Tied, TransportKey
<1>7. Finished(e)' => KeyedAs(ch'[e], e) /\ StartsAfresh(e, ch'[e])
  BY DEF Finished
<1>8. Finished(e)' => TransportKey(e, ch'[e].enc.k) /\ ch'[e].enc.n = 0 /\ ch'[e].dec.n = 0
  BY <1>7 DEF StartsAfresh
<1>9. Sender(e)'
  <2>1. ASSUME NEW k, TransportKey(e, k) PROVE Chain(Under(Ciphertexts', k), ch'[e].binding, sent'[e], e)
    BY <1>5, <2>1, NoChain
  <2>2. ASSUME Finished(e)'
        PROVE  EndsAt(Under(Ciphertexts', ch'[e].enc.k), ch'[e].binding, sent'[e], e, ch'[e].enc.n)
    BY <1>4, <1>5, <1>8, <2>2, NoChain
  <2> QED BY <1>4, <2>1, <2>2 DEF Sender, TransportKey
<1>10. Receiver(e)' /\ History(e)'
  BY <1>4, <1>8 DEF Receiver, History
<1> QED BY <1>3, <1>6, <1>7, <1>9, <1>10, Delivers DEF DeliveryOf

LEMMA StepOfHandshake ==
  ASSUME DeliveryInv, NEW e \in Ends, \A f \in Ends \ {e} : ch'[f] = ch[f], sent' = sent, got' = got, wire \subseteq wire'
  PROVE  StepOf(e) /\ sent'[e] = sent[e] /\ got'[e] = got[e]
BY DEF StepOf, DeliveryInv

LEMMA OpenDelivers ==
  ASSUME ChannelInv, DeliveryInv, NEW e \in Ends, Open(e)
  PROVE  DeliveryInv'
<1>0. Shape /\ wire' = wire /\ sent' = sent /\ got' = got
  BY DEF ChannelInv, Open
<1> DEFINE next == IF e \in Phones THEN "write1" ELSE "read1"
<1>1. PICK i : ch' = [ch EXCEPT ![e].next = next,
                                ![e].hs = Initialize(e \in Phones, i, IF e \in Phones THEN PhoneKey ELSE HostKey, e,
                                                     IF e \in Phones THEN HostKey ELSE Empty)]
  BY Zenon DEF Open
<1> DEFINE hs == Initialize(e \in Phones, i, IF e \in Phones THEN PhoneKey ELSE HostKey, e,
                            IF e \in Phones THEN HostKey ELSE Empty)
<1>2. ch' = [ch EXCEPT ![e].next = next, ![e].hs = hs]
  BY <1>1, Zenon
<1>3. next # "complete"
  OBVIOUS
<1> HIDE DEF hs, next
<1>4. /\ \A f \in Ends \ {e} : ch'[f] = ch[f]
      /\ ch'[e].next = next /\ ch'[e].asm = ch[e].asm /\ ch'[e].out = ch[e].out
  BY <1>0, <1>2 DEF Shape, Fields
<1>5. ch[e].next = "new" /\ IsOpen(e)
  <2>1. ch[e] = NotOpened
    BY DEF Open
  <2>2. NotOpened.next = "new" /\ ~NotOpened.closed
    BY DEF NotOpened, Closed
  <2> QED BY <2>1, <2>2 DEF IsOpen
<1> DEFINE N == {}
<1>6. Ciphertexts' \subseteq Ciphertexts \cup N /\ \A x \in N : x.k.out = 0
  BY <1>0, <1>4, WireKept
<1> HIDE DEF N
<1>7. StepOf(e) /\ sent'[e] = sent[e] /\ got'[e] = got[e]
  BY <1>0, <1>4, StepOfHandshake
<1> QED BY <1>3, <1>4, <1>5, <1>6, <1>7, StepsForward

\* the last message gives both ends the two keys, unused
LEMMA FinishesFresh ==
  ASSUME NEW e \in Ends, NEW hs, NEW pt, Moved(e, hs, pt), After(ch[e].next) = "complete",
         NEW rs, NEW g, NEW z, NEW ck, Finishes(e, hs, rs, g, z, ck), TransportKey(e, Key(ck, Sends(e)))
  PROVE  KeyedAs(ch'[e], e) /\ StartsAfresh(e, ch'[e])
<1> DEFINE k1 == Key(ck, Sends(e))
           k2 == Key(ck, Reads(e))
           one == Key(ck, 1)
           two == Key(ck, 2)
           b == ch'[e].binding
<1>1. /\ IsSeq(g) /\ z.k = Key(ck, 0) /\ z.n = 0
      /\ hs.init = (IF e \in Phones THEN Initiator ELSE Responder) /\ hs.y.h = Mixed(g, z) /\ hs.y.ck = ck
  BY DEF Finishes
<1>2. /\ b = hs.y.h
      /\ hs.init = Initiator => ch'[e].enc = [k |-> one, n |-> 0] /\ ch'[e].dec = [k |-> two, n |-> 0]
      /\ hs.init = Responder => ch'[e].enc = [k |-> two, n |-> 0] /\ ch'[e].dec = [k |-> one, n |-> 0]
  BY <1>1 DEF Moved
<1>3. IF e \in Phones THEN k1 = one /\ k2 = two ELSE k1 = two /\ k2 = one
  BY DEF Sends, Reads
<1>4. k1 = Key(ck, Sends(e)) /\ k2 = Key(ck, Reads(e)) /\ TransportKey(e, k1)
  OBVIOUS
<1>5. ClosesWith(b, ck)
  <2> DEFINE p == z.pt
  <2>1. b = Append(g, <<Key(ck, 0), 0, p>>)
    BY <1>1, <1>2 DEF Mixed
  <2> HIDE DEF p, b
  <2> QED BY <1>1, <2>1 DEF ClosesWith
<1> HIDE DEF k1, k2, one, two, b
<1>6. ch'[e].enc = [k |-> k1, n |-> 0] /\ ch'[e].dec = [k |-> k2, n |-> 0]
  BY <1>1, <1>2, <1>3
<1>7. 0 \in 0 .. MaxNonce
  BY NoiseAssumption
<1>8. KeyedAs(ch'[e], e)
  BY <1>4, <1>5, <1>6, <1>7 DEF KeyedAs, b
<1>9. ch'[e].enc.k = k1 /\ ch'[e].enc.n = 0 /\ ch'[e].dec.n = 0
  BY <1>6
<1>10. StartsAfresh(e, ch'[e])
  BY <1>4, <1>9 DEF StartsAfresh
<1> QED BY <1>8, <1>10

LEMMA MovesDeliver ==
  ASSUME ChannelInv, DeliveryInv, NEW e \in Ends, IsOpen(e), ch[e].next # "complete",
         NEW hs, NEW pt, Moved(e, hs, pt), sent' = sent, got' = got, wire \subseteq wire',
         NEW N, Ciphertexts' \subseteq Ciphertexts \cup N, \A x \in N : x.k.out = 0,
         After(ch[e].next) = "complete" => KeyedAs(ch'[e], e) /\ StartsAfresh(e, ch'[e])
  PROVE  DeliveryInv'
<1>1. /\ \A f \in Ends \ {e} : ch'[f] = ch[f]
      /\ ch'[e].next = After(ch[e].next) /\ ch'[e].asm = ch[e].asm
  BY DEF Moved
<1>2. StepOf(e) /\ sent'[e] = sent[e] /\ got'[e] = got[e]
  BY <1>1, StepOfHandshake
<1> QED BY <1>1, <1>2, StepsForward

LEMMA OutOfKeys ==
  /\ NoKey.out = 0
  /\ \A ck : Key(ck, 0).out = 0
BY DEF NoKey, Key

LEMMA WriteHandshakeDelivers ==
  ASSUME ChannelInv, DeliveryInv, NEW e \in Ends, WriteHandshake(e)
  PROVE  DeliveryInv'
<1>1. IsOpen(e) /\ ch[e].next \in {"write1", "write2", "write3"} /\ sent' = sent /\ got' = got
  BY DEF WriteHandshake
<1>2. PICK pt : LET w == WriteMessage(ch[e].hs, pt)
                IN /\ ch' = [ch EXCEPT ![e] = [Advanced(e, w.hs) EXCEPT !.payload = pt]]
                   /\ wire' = wire \cup {w.parts}
  BY Zenon DEF WriteHandshake
<1> DEFINE w == WriteMessage(ch[e].hs, pt)
<1>3. w = WriteMessage(ch[e].hs, pt)
  OBVIOUS
<1>4. /\ ch' = [ch EXCEPT ![e] = [Advanced(e, w.hs) EXCEPT !.payload = pt]]
      /\ wire' = wire \cup {w.parts}
  BY <1>2, Zenon
<1> HIDE DEF w
<1>5. Phase(e) /\ wire \subseteq wire' /\ ch[e].next # "complete"
  BY <1>1, <1>4 DEF ChannelInv
<1>6. ASSUME WritesAnother(e, pt), ch[e].next \in {"write1", "write2"} PROVE DeliveryInv'
  <2>1. PICK hs, x : Moved(e, hs, pt) /\ wire' = wire \cup {<<Clear(e), x>>} /\ x.k.out = 0
    BY <1>6 DEF WritesAnother
  <2> DEFINE a == Clear(e)
             N == {a, x}
  <2>2. a.k.out = 0
    BY ClearHasNoKey, OutOfKeys
  <2> HIDE DEF a
  <2>3. Ciphertexts' \subseteq Ciphertexts \cup N
    BY <2>1, Written DEF a
  <2>4. \A y \in N : y.k.out = 0
    BY <2>1, <2>2
  <2>5. After(ch[e].next) # "complete"
    BY <1>6, Afters
  <2> HIDE DEF N
  <2> QED BY <1>1, <1>5, <2>1, <2>3, <2>4, <2>5, MovesDeliver
<1>7. CASE ch[e].next = "write1"
  <2>1. e \in Phones
    BY <1>1, <1>5, <1>7 DEF Phase, HostPhase
  <2> QED BY <1>1, <1>3, <1>4, <1>6, <1>7, <2>1, Write1Sends
<1>8. CASE ch[e].next = "write2"
  <2>1. e \notin Phones
    BY <1>1, <1>5, <1>8 DEF Phase, PhonePhase
  <2> QED BY <1>1, <1>3, <1>4, <1>6, <1>8, <2>1, Write2Sends
<1>9. CASE ch[e].next = "write3"
  <2>1. e \in Phones
    BY <1>1, <1>5, <1>9 DEF Phase, HostPhase
  <2>2. PICK r, g, x, z, hs :
           /\ x.k = Key(PhoneCk2(e, r), 0) /\ wire' = wire \cup {<<x, z>>}
           /\ Moved(e, hs, pt) /\ Finishes(e, hs, HostKey, g, z, PhoneCk3(e, r))
    BY <1>1, <1>3, <1>4, <1>9, <2>1, Write3Finishes
  <2> DEFINE N == {x, z}
             ck == PhoneCk3(e, r)
  <2>3. Ciphertexts' \subseteq Ciphertexts \cup N
    BY <2>2, Written
  <2>4. \A y \in N : y.k.out = 0
    BY <2>2, OutOfKeys DEF Finishes
  <2>5. TransportKey(e, Key(ck, Sends(e)))
    BY <2>1 DEF TransportKey, Sends
  <2> HIDE DEF N, ck
  <2>6. KeyedAs(ch'[e], e) /\ StartsAfresh(e, ch'[e])
    BY <1>9, <2>2, <2>5, Afters, FinishesFresh DEF ck
  <2> QED BY <1>1, <1>5, <2>2, <2>3, <2>4, <2>6, MovesDeliver
<1> QED BY <1>1, <1>7, <1>8, <1>9

LEMMA ReadHandshakeDelivers ==
  ASSUME ChannelInv, DeliveryInv, NEW e \in Ends, NEW m \in Arriving, ReadHandshake(e, m)
  PROVE  DeliveryInv'
<1> DEFINE r == ReadMessage(ch[e].hs, m)
           ok == r.ok /\ r.parts = <<>> /\ (ch[e].next # "read3" => r.pt = NoPayload)
           to == [Advanced(e, r.hs) EXCEPT !.payload = r.pt]
<1>1. /\ IsOpen(e) /\ ch[e].next \in {"read1", "read2", "read3"} /\ wire' = wire /\ sent' = sent /\ got' = got
      /\ ch' = [ch EXCEPT ![e] = IF ok THEN to ELSE Shut(@)]
  BY Zenon DEF ReadHandshake
<1>2. r = ReadMessage(ch[e].hs, m) /\ to = [Advanced(e, r.hs) EXCEPT !.payload = r.pt] /\ (ok => r.ok)
  BY Zenon
<1> HIDE DEF r, ok, to
<1>3. CASE ~ok
  <2>1. ch' = [ch EXCEPT ![e] = Shut(@)]
    BY <1>1, <1>3
  <2> QED BY <1>1, <2>1, ShutDelivers
<1>4. CASE ok
  <2>0. ch' = [ch EXCEPT ![e] = to]
    BY <1>1, <1>4
  <2>1. ch' = [ch EXCEPT ![e] = [Advanced(e, r.hs) EXCEPT !.payload = r.pt]] /\ r.ok
    BY <1>2, <1>4, <2>0, Zenon
  <2> DEFINE N == {}
  <2>2. \A x \in N : x.k.out = 0
    OBVIOUS
  <2>3. ASSUME NEW hs, NEW pt, Moved(e, hs, pt) PROVE Ciphertexts' \subseteq Ciphertexts \cup N /\ wire \subseteq wire'
    BY <1>1, <2>3, WireKept DEF Moved
  <2> HIDE DEF N
  <2>4. CASE ch[e].next # "read3"
    <3> DEFINE hs == r.hs
               pt == r.pt
    <3>1. ch' = [ch EXCEPT ![e] = [Advanced(e, hs) EXCEPT !.payload = pt]]
      BY <2>1
    <3> HIDE DEF hs, pt
    <3>2. Moved(e, hs, pt)
      BY <3>1, MovesOn
    <3>3. After(ch[e].next) # "complete" /\ ch[e].next # "complete"
      BY <1>1, <2>4, Afters
    <3> QED BY <1>1, <2>2, <2>3, <3>2, <3>3, MovesDeliver
  <2>5. CASE ch[e].next = "read3"
    <3>1. e \notin Phones
      BY <1>1, <2>5 DEF ChannelInv, Phase, PhonePhase
    <3>2. PICK x, q, g, b, hs : Moved(e, hs, b.pt) /\ Finishes(e, hs, x, g, b, HostCk3(e, q, x))
      BY <1>1, <1>2, <2>1, <2>5, <3>1, Read3Finishes
    <3> DEFINE ck == HostCk3(e, q, x)
               pt == b.pt
    <3>3. TransportKey(e, Key(ck, Sends(e)))
      BY <3>1 DEF TransportKey, Sends
    <3>4. Moved(e, hs, pt)
      BY <3>2
    <3> HIDE DEF ck, pt
    <3>5. KeyedAs(ch'[e], e) /\ StartsAfresh(e, ch'[e])
      BY <2>5, <3>2, <3>3, <3>4, Afters, FinishesFresh DEF ck
    <3> QED BY <1>1, <2>2, <2>3, <2>5, <3>4, <3>5, MovesDeliver
  <2> QED BY <2>4, <2>5
<1> QED BY <1>3, <1>4

LEMMA CloseDelivers ==
  ASSUME ChannelInv, DeliveryInv, NEW e \in Ends, Close(e)
  PROVE  DeliveryInv'
BY ShutDelivers DEF Close

\* the invariant holds at first, every step keeps it, and it says what is delivered
LEMMA DeliveryInvInit == ChannelInit => DeliveryInv
<1> SUFFICES ASSUME ChannelInit PROVE DeliveryInv
  OBVIOUS
<1>1. /\ ~NotOpened.closed /\ NotOpened.next = "new" /\ NotOpened.asm = Idle /\ NotOpened.out = <<>>
  BY DEF NotOpened, Closed
<1>2. wire = {} /\ ch = [e \in Ends |-> NotOpened]
  BY DEF ChannelInit
<1>3. \A e \in Ends : sent[e] = <<>> /\ got[e] = <<>> /\ ch[e] = NotOpened
  BY <1>2 DEF ChannelInit
<1>4. \A e \in Ends : ch[e].out = <<>> /\ ch[e].next = "new" /\ ch[e].asm = Idle
  BY <1>1, <1>3
<1>5. Ciphertexts = {}
  <2>1. ASSUME NEW x \in Ciphertexts PROVE FALSE
    BY <1>2, <1>4, <2>1, InCiphertexts, NoParts
  <2> QED BY <2>1
<1>6. ASSUME NEW e \in Ends PROVE DeliveryOf(e)
  <2>1. ~Finished(e)
    BY <1>4 DEF Finished
  <2>2. Tied(e) /\ \A k : Under(Ciphertexts, k) = {}
    BY <1>5 DEF Tied, Under
  <2>3. Messages(sent[e]) /\ Len(sent[e]) = 0
    <3>1. Len(<<>>) = 0 /\ 0 <= MaxMessages /\ \A i \in 1 .. 0 : FALSE
      BY ChannelAssumption
    <3> QED BY <1>3, <3>1, EmptyIsSeq DEF Messages
  <2>4. Sender(e)
    BY <2>1, <2>2, <2>3, NoChain DEF Sender
  <2>5. Receiver(e) /\ History(e)
    BY <1>3, <1>4, <2>1 DEF Receiver, History
  <2> QED BY <2>1, <2>2, <2>4, <2>5 DEF DeliveryOf
<1> QED BY <1>6 DEF ChannelInit, DeliveryInv

LEMMA DeliveryInvNext == ChannelInv /\ DeliveryInv /\ [ChannelNext]_channelVars => DeliveryInv'
<1> SUFFICES ASSUME ChannelInv, DeliveryInv, [ChannelNext]_channelVars PROVE DeliveryInv'
  OBVIOUS
<1>1. CASE UNCHANGED channelVars
  <2>1. ch' = ch /\ wire' = wire /\ sent' = sent /\ got' = got
    BY <1>1 DEF channelVars
  <2>2. CASE Ends = {}
    BY <2>1, <2>2 DEF DeliveryInv
  <2>3. CASE Ends # {}
    <3>1. PICK e \in Ends : TRUE
      BY <2>3
    <3>2. Ciphertexts' \subseteq Ciphertexts
      BY <2>1, WireKept
    <3>3. StepOf(e)
      BY <2>1 DEF StepOf, DeliveryInv
    <3> QED BY <2>1, <3>2, <3>3, QuietDelivers
  <2> QED BY <2>2, <2>3
<1>2. CASE ChannelNext
  <2>1. PICK e \in Ends :
          \/ Open(e) \/ WriteHandshake(e) \/ MarkAdmitted(e) \/ BindTransport(e) \/ Close(e)
          \/ \E m \in Arriving : ReadHandshake(e, m) \/ FeedCiphertext(e, m)
          \/ \E len \in Lengths : NextCiphertexts(e, len)
          \/ SendRecord(e)
          \/ \E r \in Misframed(ch[e], e) : PhoneMisframes(e, r)
    BY <1>2, Zenon DEF ChannelNext
  <2>2. CASE Open(e)
    BY <2>2, OpenDelivers
  <2>3. CASE WriteHandshake(e)
    BY <2>3, WriteHandshakeDelivers
  <2>4. CASE MarkAdmitted(e)
    BY <2>4, MarkAdmittedDelivers
  <2>5. CASE BindTransport(e)
    BY <2>5, BindTransportDelivers
  <2>6. CASE Close(e)
    BY <2>6, CloseDelivers
  <2>7. CASE \E m \in Arriving : ReadHandshake(e, m)
    BY <2>7, ReadHandshakeDelivers
  <2>8. CASE \E m \in Arriving : FeedCiphertext(e, m)
    BY <2>8, FeedDelivers
  <2>9. CASE \E len \in Lengths : NextCiphertexts(e, len)
    BY <2>9, NextCiphertextsDelivers
  <2>10. CASE SendRecord(e)
    BY <2>10, SendRecordDelivers
  <2>11. CASE \E r \in Misframed(ch[e], e) : PhoneMisframes(e, r)
    BY <2>11, PhoneMisframesDelivers
  <2> QED BY <2>1, <2>2, <2>3, <2>4, <2>5, <2>6, <2>7, <2>8, <2>9, <2>10, <2>11
<1> QED BY <1>1, <1>2

LEMMA DeliveryIsPrefix == DeliveryInv => DeliveredIsPrefix
<1> SUFFICES ASSUME DeliveryInv, NEW e \in Ends, got[e] # <<>>
             PROVE  \E f \in Partners(e) :
                       Len(got[e]) <= Len(sent[f]) /\ SubSeq(sent[f], 1, Len(got[e])) = got[e]
  BY DEF DeliveredIsPrefix
<1>0. PICK f \in Partners(e) : \E c : Delivered(got[e], sent[f], c)
  BY DEF DeliveryInv, DeliveryOf, History
<1>1. PICK c : Delivered(got[e], sent[f], c)
  BY <1>0
<1> DEFINE s == sent[f]
           g == got[e]
<1>2. c \in 0 .. Len(s) /\ g = SubSeq(s, 1, c)
  BY <1>1 DEF Delivered
<1>3. PICK S : s \in Seq(S)
  BY Sequences DEF Partners, Messages, IsSeq
<1> HIDE DEF s, g
<1>4. Len(s) \in Nat
  BY <1>3
<1>5. Len(SubSeq(s, 1, c)) = c
  BY <1>2, <1>3, <1>4
<1>6. Len(g) <= Len(s) /\ SubSeq(s, 1, Len(g)) = g
  BY <1>2, <1>4, <1>5
<1> QED BY <1>6 DEF s, g

(***************************************************************************)
(* No key ever encrypts two plaintexts under one nonce, for any number of  *)
(* phones and hosts, over a relay that loses, repeats, reorders, damages   *)
(* and misroutes what is sent: a key has one end that encrypts under it    *)
(* for each nonce, and that end counts its nonces up                       *)
(* (CipherState.encrypt_with_ad, SymmetricState.split, next_ciphertexts).  *)
(***************************************************************************)
THEOREM NoncesAreUniqueHolds == ChannelSpec => []NoncesAreUnique
<1>1. ChannelInv => NoncesAreUnique
  BY DEF ChannelInv
<1>2. QED
  BY <1>1, ChannelInvInit, ChannelInvNext, PTL DEF ChannelSpec

(***************************************************************************)
(* A host that finished its handshake agrees with exactly one phone on the *)
(* binding, the keys and the payload: the last ciphertext it accepted can  *)
(* only have been made by a phone that had completed the same handshake,   *)
(* and no other end closes its hash alike (read_handshake,                 *)
(* write_handshake, _finish_handshake).                                    *)
(***************************************************************************)
THEOREM HandshakeAgreesHolds == ChannelSpec => []HandshakeAgrees
<1>1. ChannelInv => HandshakeAgrees
  BY DEF ChannelInv
<1>2. QED
  BY <1>1, ChannelInvInit, ChannelInvNext, PTL DEF ChannelSpec

(***************************************************************************)
(* What an end delivered is a prefix of what its partner handed over, for  *)
(* any number of ends and messages of any length: only the partner         *)
(* encrypts under the key an end reads with, by consecutive nonces, and an *)
(* end reads each nonce once and in order, so that what it takes are the   *)
(* records of whole messages in the order they were handed over            *)
(* (feed_ciphertext, next_ciphertexts, Reassembler.push).                  *)
(***************************************************************************)
THEOREM DeliveredIsPrefixHolds == ChannelSpec => []DeliveredIsPrefix
<1>1. ChannelInit => ChannelInv /\ DeliveryInv
  BY ChannelInvInit, DeliveryInvInit
<1>2. ChannelInv /\ DeliveryInv /\ [ChannelNext]_channelVars => (ChannelInv /\ DeliveryInv)'
  BY ChannelInvNext, DeliveryInvNext
<1>3. ChannelInv /\ DeliveryInv => DeliveredIsPrefix
  BY DeliveryIsPrefix
<1>4. QED
  BY <1>1, <1>2, <1>3, PTL DEF ChannelSpec
=============================================================================
