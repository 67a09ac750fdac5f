---------------------------- MODULE SessionLease ----------------------------
(***************************************************************************)
(* One host-owned controller lease (session_lease.py, SessionLease and     *)
(* LeaseAttachment) with the sender task of each of its attachments        *)
(* (controller_transport.py, pump_outbound and close) and the phone that   *)
(* consumes the retained event stream.                                     *)
(*                                                                         *)
(* asyncio runs one task at a time, so one action is the code between two  *)
(* awaits.  Times are abstract: an event may become too old, and the       *)
(* detach TTL may elapse, whenever the code reads the clock.               *)
(***************************************************************************)
EXTENDS Integers, Sequences, FiniteSets

CONSTANTS
    MaxEvents,       \* LeaseLimits.max_events
    MaxEventBytes,   \* LeaseLimits.max_event_bytes
    Sizes,           \* byte lengths of the frames the inner controller emits
    LocalSize,       \* byte length of a synthesized local response
    WrapBytes,       \* bytes frame_text adds around an event for recovery v1
    MaxReplies,      \* bound: duplicate submissions one Hermes frame answers (0: no local replies)
    MaxSeq,          \* bound: events the inner controller emits
    MaxAttachments   \* bound: attachments made over the life of the lease

ASSUME LimitsAssumption ==
    /\ MaxEvents \in Nat \ {0}
    /\ MaxEventBytes \in Nat \ {0}
    /\ Sizes \subseteq Nat
    /\ LocalSize \in Nat /\ WrapBytes \in Nat /\ MaxReplies \in Nat
    /\ MaxSeq \in Nat /\ MaxAttachments \in Nat \ {0}

Att == 1..MaxAttachments
None == 0

(***************************************************************************)
(* What an attachment can hand to the encrypted channel: the ordered       *)
(* attach-status preamble, an event, the replay_complete marker, or a      *)
(* response synthesized by the relay (a read, a duplicate submission).     *)
(* "from" is replayed_from of a preamble (None when nothing is replayed).  *)
(***************************************************************************)
Frame == [kind : {"attached", "event", "complete", "local"},
          seq : Nat, from : Nat, gap : BOOLEAN, size : Nat]

Attached(last, from, gap) ==
    [kind |-> "attached", seq |-> last, from |-> from, gap |-> gap, size |-> 0]
ReplayComplete(last) ==
    [kind |-> "complete", seq |-> last, from |-> None, gap |-> FALSE, size |-> 0]
Local ==
    [kind |-> "local", seq |-> 0, from |-> None, gap |-> FALSE, size |-> LocalSize]
\* frame_text wraps an event for a recovery attachment and only for it
EventFrame(seq, size, wrapped) ==
    [kind |-> "event", seq |-> seq, from |-> None, gap |-> FALSE,
     size |-> IF wrapped THEN size + WrapBytes ELSE size]

RetainedEvent == [seq : Nat, size : Nat]

VARIABLES
    (* SessionLease *)
    lastSeq, ring, trimmedThrough, current, recoveryEnabled,
    released, releaseReason,
    pump,        \* the _pump task: run, cancelled, releasing (awaits its own release), done
    expiry,      \* the expiry task: none, armed, cancelled
    capPending,  \* a scheduled release("retention_cap") that has not run yet
    cleanup,     \* _finish_release: none, fenced, joining, closing, succeeded, failed
    initiator,   \* the task that called release first
    (* LeaseAttachment and its transport, one entry per attachment made *)
    made,        \* attachments made so far; the next one is made + 1
    detached, recovery,
    out,         \* frames not yet handed to the socket, in next_text order
    taken,       \* 1 while the sender holds Head(out) inside send, else 0
    backlog,     \* how many of the next frames of out are preamble/replay/complete
    sender,      \* the pump_outbound task: none, starting, run, cancelled, done
    closed,      \* EncryptedControllerTransport._closed
    (* the phone *)
    link,        \* the attachment the phone still listens to, or None
    cursor,      \* its resume_cursor
    applied,     \* sequences of the events it has applied
    reconciled   \* sequences it was told it missed (replay_gap)

leaseVars == <<lastSeq, ring, trimmedThrough, current, recoveryEnabled, capPending>>
releaseVars == <<released, releaseReason, cleanup, initiator>>
attVars == <<made, detached, recovery, out, taken, backlog, sender, closed>>
phoneVars == <<link, cursor, applied, reconciled>>
vars == <<leaseVars, releaseVars, attVars, phoneVars, pump, expiry>>

(***************************************************************************)
(* The frames a new attachment starts with: the preamble, the replayed     *)
(* events, and for recovery v1 the marker that ends the replay.            *)
(***************************************************************************)
Backlog(events, last, gap, wrapped) ==
    LET from == IF events = <<>> THEN None ELSE Head(events).seq
    IN  (<<Attached(last, from, gap)>> \o
         [i \in 1..Len(events) |-> EventFrame(events[i].seq, events[i].size, wrapped)]) \o
        (IF wrapped THEN <<ReplayComplete(last)>> ELSE <<>>)

(***************************************************************************)
(* A fresh open registers the lease, which starts its pump, and attaches   *)
(* the phone at cursor 0 without an await in between.                      *)
(***************************************************************************)
First(v, w) == [a \in Att |-> IF a = 1 THEN v ELSE w]

Init ==
    /\ lastSeq = 0 /\ ring = <<>> /\ trimmedThrough = 0
    /\ current = 1 /\ capPending = FALSE
    /\ recoveryEnabled \in BOOLEAN
    /\ released = FALSE /\ releaseReason = "none"
    /\ cleanup = "none" /\ initiator = "none"
    /\ pump = "run" /\ expiry = "none"
    /\ made = 1
    /\ detached = [a \in Att |-> FALSE]
    /\ recovery = First(recoveryEnabled, FALSE)
    /\ out = First(Backlog(<<>>, 0, FALSE, recoveryEnabled), <<>>)
    /\ taken = [a \in Att |-> 0]
    /\ backlog = First(Len(out[1]), 0)
    /\ sender = First("starting", "none")
    /\ closed = [a \in Att |-> FALSE]
    /\ link = 1 /\ cursor = 0 /\ applied = {} /\ reconciled = {}

-----------------------------------------------------------------------------
(* Byte accounting: _ring_bytes and _live_bytes always equal these sums,   *)
(* since every size added is the size later subtracted.                    *)

Bytes(s) ==
    LET sum[i \in 0..Len(s)] == IF i = 0 THEN 0 ELSE sum[i - 1] + s[i].size
    IN  sum[Len(s)]

Live(a) == SubSeq(out[a], taken[a] + backlog[a] + 1, Len(out[a]))

WithinLimits(s) == Len(s) <= MaxEvents /\ Bytes(s) <= MaxEventBytes

DropFirst(s, d) == SubSeq(s, d + 1, Len(s))

(***************************************************************************)
(* _trim drops events from the front while the first is too old or the     *)
(* ring exceeds a limit.  "aged" is how many leading events are too old.   *)
(***************************************************************************)
TrimDrops(s, aged, d) ==
    /\ d >= aged
    /\ WithinLimits(DropFirst(s, d))
    /\ \A e \in aged..(d - 1) : ~WithinLimits(DropFirst(s, e))

TrimmedThroughAfter(s, d) == IF d = 0 THEN trimmedThrough ELSE s[d].seq

\* _trim reports overflow when some drop began beyond a limit
Overflowed(s) == ~WithinLimits(s)

-----------------------------------------------------------------------------
(* Detaching and delivery                                                  *)

\* Faulty: an invalidated sender is left running
CancelledNot(task) == task

Cancelled(task) == IF task = "run" THEN "cancelled" ELSE task

(***************************************************************************)
(* _mark_detached(a): cancel the sender; when "invalidated" (lease         *)
(* released or attachment replaced) also drop everything still queued.     *)
(* A frame the sender already holds stays with the cancelled sender.       *)
(***************************************************************************)
MarkedOut(a, q, invalidated) ==
    IF invalidated THEN SubSeq(q, 1, taken[a]) ELSE q

MarkDetached(a, q, invalidated) ==
    /\ detached' = [detached EXCEPT ![a] = TRUE]
    /\ sender' = [sender EXCEPT ![a] = Cancelled(@)]
    /\ out' = [out EXCEPT ![a] = MarkedOut(a, q, invalidated)]
    /\ backlog' = [backlog EXCEPT ![a] = IF invalidated THEN 0 ELSE @]

\* Faulty: any attachment's detach gives up the lease (no identity fence)
DetachAttachmentUnfenced(a, q) ==
    /\ current' = None
    /\ expiry' = IF ~released THEN "armed" ELSE expiry
    /\ MarkDetached(a, q, FALSE)

\* Faulty: the detach TTL is not started
DetachAttachmentNoTtl(a, q) ==
    /\ current' = IF current = a THEN None ELSE current
    /\ expiry' = expiry
    /\ MarkDetached(a, q, FALSE)

(***************************************************************************)
(* SessionLease.detach(a): only the current attachment gives up the lease, *)
(* and doing so starts the detach TTL.  q is a's queue at that point.      *)
(***************************************************************************)
DetachAttachment(a, q) ==
    /\ current' = IF current = a THEN None ELSE current
    /\ expiry' = IF current = a /\ ~released THEN "armed" ELSE expiry
    /\ MarkDetached(a, q, FALSE)

(***************************************************************************)
(* LeaseAttachment._deliver, for frames fs offered one after the other to  *)
(* the current attachment a: the longest prefix that fits the live queue   *)
(* is appended; a frame that does not fit detaches a (backpressure), and   *)
(* the frames after it find no attachment.                                 *)
(***************************************************************************)
Fitting(a, fs, k) ==
    /\ k \in 0..Len(fs)
    /\ \A i \in 1..k : WithinLimits(Live(a) \o SubSeq(fs, 1, i))
    /\ k < Len(fs) => ~WithinLimits(Live(a) \o SubSeq(fs, 1, k + 1))

\* Faulty: a frame that does not fit is dropped and the attachment stays
OfferDropping(a, fs) ==
    \E k \in 0..Len(fs) :
        /\ Fitting(a, fs, k)
        /\ out' = [out EXCEPT ![a] = @ \o SubSeq(fs, 1, k)]
        /\ UNCHANGED <<current, expiry, detached, sender, backlog>>

Offer(a, fs) ==
    \E k \in 0..Len(fs) :
        /\ Fitting(a, fs, k)
        /\ LET q == out[a] \o SubSeq(fs, 1, k)
           IN  IF k < Len(fs)
               THEN DetachAttachment(a, q)
               ELSE /\ out' = [out EXCEPT ![a] = q]
                    /\ UNCHANGED <<current, expiry, detached, sender, backlog>>

OfferToCurrent(fs) ==
    IF current = None
    THEN UNCHANGED <<current, expiry, detached, sender, backlog, out>>
    ELSE Offer(current, fs)

-----------------------------------------------------------------------------
(* The pump: one frame of the inner controller                             *)

(***************************************************************************)
(* _retain: number the frame, answer the duplicate submissions that were   *)
(* waiting for it (_record_outcome), append it to the ring, trim, and      *)
(* deliver it.  If the ring overflowed while no attachment was there to    *)
(* take the frame and the lease never served recovery v1, a release is     *)
(* scheduled instead.  The new event itself is never too old.              *)
(***************************************************************************)
Retain(size, replies, aged, d) ==
    LET seq    == lastSeq + 1
        full   == Append(ring, [seq |-> seq, size |-> size])
        locals == [i \in 1..replies |-> Local]
        absent == current = None \/ ~Fitting(current, locals, replies)
        capped == Overflowed(full) /\ absent /\ ~recoveryEnabled
        frames == Append(locals, EventFrame(seq, size, current # None /\ recovery[current]))
    IN  /\ pump = "run" /\ lastSeq < MaxSeq
        /\ TrimDrops(full, aged, d)
        /\ lastSeq' = seq
        /\ ring' = DropFirst(full, d)
        /\ trimmedThrough' = TrimmedThroughAfter(full, d)
        /\ capPending' = (capPending \/ capped)
        /\ OfferToCurrent(frames)
        /\ UNCHANGED <<recoveryEnabled, releaseVars, made, recovery, taken, closed,
                       phoneVars, pump>>

(***************************************************************************)
(* _deliver_local outside the pump: a read, a mutation or a repeated       *)
(* submission of the current attachment is answered.                       *)
(***************************************************************************)
LocalReply ==
    /\ MaxReplies > 0
    /\ ~released /\ current # None
    /\ Offer(current, <<Local>>)
    /\ UNCHANGED <<lastSeq, ring, trimmedThrough, recoveryEnabled, capPending, releaseVars,
                   made, recovery, taken, closed, phoneVars, pump>>

-----------------------------------------------------------------------------
(* Release                                                                 *)

(***************************************************************************)
(* The synchronous first part of release(): fence the lease and invalidate *)
(* the attachment before anything is awaited.                              *)
(***************************************************************************)
Fence(reason, who) ==
    /\ ~released
    /\ released' = TRUE /\ releaseReason' = reason /\ initiator' = who
    /\ cleanup' = "fenced"
    /\ current' = None
    /\ IF current = None
       THEN UNCHANGED <<detached, sender, out, backlog>>
       ELSE MarkDetached(current, out[current], TRUE)
    /\ UNCHANGED <<made, recovery, taken, closed, recoveryEnabled, phoneVars>>

\* the detach TTL elapsed
Expire ==
    /\ expiry = "armed"
    /\ Fence("expired", "expiry")
    /\ UNCHANGED <<lastSeq, ring, trimmedThrough, capPending, pump, expiry>>

\* next_text of the virtual websocket raised: the inner controller is gone
PumpClosed ==
    /\ pump = "run"
    /\ IF released
       THEN /\ pump' = "done"
            /\ UNCHANGED <<current, recoveryEnabled, releaseVars, attVars, phoneVars>>
       ELSE /\ Fence("controller_closed", "pump")
            /\ pump' = "releasing"
    /\ UNCHANGED <<lastSeq, ring, trimmedThrough, capPending, expiry>>

\* _retain raised after numbering the frame (the recovery projection could not persist)
RetainFails ==
    /\ pump = "run" /\ lastSeq < MaxSeq
    /\ lastSeq' = lastSeq + 1
    /\ IF released
       THEN /\ pump' = "done"
            /\ UNCHANGED <<current, recoveryEnabled, releaseVars, attVars, phoneVars>>
       ELSE /\ Fence("controller_failed", "pump")
            /\ pump' = "releasing"
    /\ UNCHANGED <<ring, trimmedThrough, capPending, expiry>>

\* the task ensure_future(release("retention_cap")) gets to run
CapRelease ==
    /\ capPending /\ capPending' = FALSE
    /\ IF released
       THEN UNCHANGED <<current, recoveryEnabled, releaseVars, attVars, phoneVars>>
       ELSE Fence("retention_cap", "other")
    /\ UNCHANGED <<lastSeq, ring, trimmedThrough, pump, expiry>>

\* revocation, a superseding open, an authorization change or plugin shutdown
ExternalRelease ==
    /\ Fence("released", "other")
    /\ UNCHANGED <<lastSeq, ring, trimmedThrough, capPending, pump, expiry>>

(***************************************************************************)
(* _finish_release: cancel every owned task except the initiator, wait for *)
(* all of them, and only then forget the ring and close the controller.    *)
(***************************************************************************)
BeginJoin ==
    /\ cleanup = "fenced" /\ cleanup' = "joining"
    /\ pump' = IF initiator = "pump" THEN pump ELSE Cancelled(pump)
    /\ expiry' = IF expiry = "armed" /\ initiator # "expiry" THEN "cancelled" ELSE expiry
    /\ sender' = [a \in Att |-> Cancelled(sender[a])]
    /\ UNCHANGED <<leaseVars, released, releaseReason, initiator, made, detached, recovery,
                   out, taken, backlog, closed, phoneVars>>

CancelDelivered ==
    /\ \/ pump = "cancelled" /\ pump' = "done" /\ UNCHANGED expiry
       \/ expiry = "cancelled" /\ expiry' = "none" /\ UNCHANGED pump
    /\ UNCHANGED <<leaseVars, releaseVars, attVars, phoneVars>>

\* Faulty: the cleanup task also waits for the task that awaits it
OwnedTaskRunningInitiator ==
    \/ pump \in {"run", "cancelled", "releasing"}
    \/ expiry = "cancelled"
    \/ \E a \in Att : sender[a] \in {"run", "cancelled"}

OwnedTaskRunning ==
    \/ pump \in {"run", "cancelled"}
    \/ expiry = "cancelled"
    \/ \E a \in Att : sender[a] \in {"run", "cancelled"}

\* Faulty: the senders of the lease are cancelled but not awaited
JoinDoneEarly ==
    /\ cleanup = "joining" /\ pump \notin {"run", "cancelled"} /\ expiry # "cancelled"
    /\ cleanup' = "closing"
    /\ ring' = <<>>
    /\ UNCHANGED <<lastSeq, trimmedThrough, current, recoveryEnabled, capPending, released,
                   releaseReason, initiator, attVars, phoneVars, pump, expiry>>

JoinDone ==
    /\ cleanup = "joining" /\ ~OwnedTaskRunning
    /\ cleanup' = "closing"
    /\ ring' = <<>>
    /\ UNCHANGED <<lastSeq, trimmedThrough, current, recoveryEnabled, capPending, released,
                   releaseReason, initiator, attVars, phoneVars, pump, expiry>>

\* await close_controller(controller_id), which may raise; then the initiator resumes
CloseController ==
    /\ cleanup = "closing" /\ cleanup' \in {"succeeded", "failed"}
    /\ pump' = IF pump = "releasing" THEN "done" ELSE pump
    /\ expiry' = IF initiator = "expiry" THEN "none" ELSE expiry
    /\ UNCHANGED <<leaseVars, released, releaseReason, initiator, attVars, phoneVars>>

-----------------------------------------------------------------------------
(* Attaching                                                               *)

\* Faulty: a gap of exactly one event goes unreported
ReplayGapOffByOne(trimmed) == cursor + 1 < trimmed

\* something after the phone's cursor is no longer retained
ReplayGap(trimmed) == cursor < trimmed

(***************************************************************************)
(* attach(cursor): trim, replay what is retained after the phone's cursor, *)
(* report a gap when something after the cursor is already gone.  A live   *)
(* attachment is replaced only for recovery v1 with an explicit cursor.    *)
(* The k retained events up to the cursor are skipped.                     *)
(***************************************************************************)
CanAttach(wrapped, replace) ==
    /\ ~released
    /\ cursor <= lastSeq
    /\ current = None \/ (wrapped /\ replace)

Attach(wrapped, replace, aged, d, k) ==
    LET a       == made + 1
        kept    == DropFirst(ring, d)
        trimmed == TrimmedThroughAfter(ring, d)
        frames  == Backlog(DropFirst(kept, k), lastSeq, ReplayGap(trimmed), wrapped)
    IN  /\ made < MaxAttachments
        /\ CanAttach(wrapped, replace)
        /\ TrimDrops(ring, aged, d)
        /\ k \in 0..Len(kept)
        /\ \A i \in 1..Len(kept) : i <= k <=> kept[i].seq <= cursor
        /\ ring' = kept
        /\ trimmedThrough' = trimmed
        /\ made' = a
        /\ detached' = IF current = None THEN detached ELSE [detached EXCEPT ![current] = TRUE]
        /\ sender' = [b \in Att |-> IF b = a THEN "starting"
                                    ELSE IF b = current THEN Cancelled(sender[b]) ELSE sender[b]]
        /\ out' = [b \in Att |-> IF b = a THEN frames
                                 ELSE IF b = current THEN MarkedOut(b, out[b], TRUE) ELSE out[b]]
        /\ backlog' = [b \in Att |-> IF b = a THEN Len(frames)
                                     ELSE IF b = current THEN 0 ELSE backlog[b]]
        /\ recovery' = [recovery EXCEPT ![a] = wrapped]
        /\ taken' = [taken EXCEPT ![a] = 0]
        /\ recoveryEnabled' = (recoveryEnabled \/ wrapped)
        /\ current' = a
        /\ expiry' = "none"
        /\ link' = a
        /\ UNCHANGED <<lastSeq, capPending, releaseVars, closed,
                       cursor, applied, reconciled, pump>>

-----------------------------------------------------------------------------
(* The sender of an attachment, and the end of its transport               *)

(***************************************************************************)
(* An attachment whose sender has ended and whose transport is closed is   *)
(* unreachable; what it still queued is garbage.                           *)
(***************************************************************************)
Discard(a) ==
    /\ out' = [out EXCEPT ![a] = <<>>]
    /\ taken' = [taken EXCEPT ![a] = 0]
    /\ backlog' = [backlog EXCEPT ![a] = 0]

(***************************************************************************)
(* pump_outbound starts: register_outbound refuses a detached attachment,  *)
(* whose transport is then closed.                                         *)
(***************************************************************************)
RegisterOutbound(a) ==
    /\ sender[a] = "starting"
    /\ IF detached[a] \/ released
       THEN /\ sender' = [sender EXCEPT ![a] = "done"]
            /\ closed' = [closed EXCEPT ![a] = TRUE]
            /\ Discard(a)
       ELSE /\ sender' = [sender EXCEPT ![a] = "run"]
            /\ UNCHANGED <<closed, out, taken, backlog>>
    /\ UNCHANGED <<leaseVars, releaseVars, made, detached, recovery, phoneVars, pump, expiry>>

\* Faulty: only a live delivery wakes the sender
TakeNextLive(a) ==
    /\ sender[a] = "run" /\ taken[a] = 0 /\ Live(a) # <<>>
    /\ ~detached[a] /\ ~released
    /\ taken' = [taken EXCEPT ![a] = 1]
    /\ backlog' = [backlog EXCEPT ![a] = IF @ > 0 THEN @ - 1 ELSE 0]
    /\ UNCHANGED <<leaseVars, releaseVars, made, detached, recovery, out, sender, closed,
                   phoneVars, pump, expiry>>

\* next_text pops the next frame, and the sender enters send() with it
TakeNext(a) ==
    /\ sender[a] = "run" /\ taken[a] = 0 /\ out[a] # <<>>
    /\ ~detached[a] /\ ~released
    /\ taken' = [taken EXCEPT ![a] = 1]
    /\ backlog' = [backlog EXCEPT ![a] = IF @ > 0 THEN @ - 1 ELSE 0]
    /\ UNCHANGED <<leaseVars, releaseVars, made, detached, recovery, out, sender, closed,
                   phoneVars, pump, expiry>>

GapEnd(f) == IF f.from = None THEN f.seq ELSE f.from - 1

PhoneApplies(a, f) ==
    \/ /\ f.kind = "attached" /\ f.gap
       /\ cursor' = GapEnd(f)
       /\ reconciled' = reconciled \cup ((cursor + 1)..GapEnd(f))
       /\ UNCHANGED applied
    \/ /\ f.kind = "event"
       /\ cursor' = IF recovery[a] THEN f.seq ELSE cursor + 1
       /\ applied' = applied \cup {f.seq}
       /\ UNCHANGED reconciled
    \/ /\ f.kind \in {"complete", "local"} \/ (f.kind = "attached" /\ ~f.gap)
       /\ UNCHANGED <<cursor, applied, reconciled>>

(***************************************************************************)
(* send() hands the held frame to the socket.  A phone that no longer      *)
(* listens on this connection loses it and everything after it.            *)
(***************************************************************************)
Publish(a) ==
    /\ sender[a] = "run" /\ taken[a] = 1
    /\ out' = [out EXCEPT ![a] = Tail(@)]
    /\ taken' = [taken EXCEPT ![a] = 0]
    /\ IF link = a THEN PhoneApplies(a, Head(out[a]))
       ELSE UNCHANGED <<cursor, applied, reconciled>>
    /\ UNCHANGED <<leaseVars, releaseVars, made, detached, recovery, backlog, sender, closed,
                   link, pump, expiry>>

\* _session_loop cancels its pumps (the connection ended or the service closes)
CancelSender(a) ==
    /\ sender[a] = "run"
    /\ sender' = [sender EXCEPT ![a] = "cancelled"]
    /\ UNCHANGED <<leaseVars, releaseVars, made, detached, recovery, out, taken, backlog,
                   closed, phoneVars, pump, expiry>>

(***************************************************************************)
(* The CancelledError reaches the sender: it drops the frame it holds; if  *)
(* the attachment was invalidated it also closes its transport.            *)
(***************************************************************************)
SenderStops(a) ==
    /\ sender[a] = "cancelled"
    /\ sender' = [sender EXCEPT ![a] = "done"]
    /\ IF detached[a] \/ released
       THEN /\ closed' = [closed EXCEPT ![a] = TRUE]
            /\ Discard(a)
       ELSE /\ taken' = [taken EXCEPT ![a] = 0]
            /\ out' = [out EXCEPT ![a] = SubSeq(@, taken[a] + 1, Len(@))]
            /\ UNCHANGED <<closed, backlog>>
    /\ UNCHANGED <<leaseVars, releaseVars, made, detached, recovery, phoneVars, pump, expiry>>

(***************************************************************************)
(* EncryptedControllerTransport.close, once: a failed record, a lost       *)
(* connection or the end of _session_loop.  It may come long after the     *)
(* attachment was replaced.                                                *)
(***************************************************************************)
TransportClose(a) ==
    /\ a <= made /\ ~closed[a]
    /\ closed' = [closed EXCEPT ![a] = TRUE]
    /\ DetachAttachment(a, IF sender[a] = "done" THEN <<>> ELSE out[a])
    /\ UNCHANGED <<lastSeq, ring, trimmedThrough, recoveryEnabled, capPending, releaseVars,
                   made, recovery, taken, phoneVars, pump>>

-----------------------------------------------------------------------------
(* The phone's connection.  Once the lease is released nothing reaches the *)
(* phone through it, so what the phone does later is left out.             *)

LinkLost ==
    /\ ~released /\ link # None /\ link' = None
    /\ UNCHANGED <<leaseVars, releaseVars, attVars, cursor, applied, reconciled, pump, expiry>>

\* the app process restarts without a durable checkpoint: it resumes at cursor 0
PhoneRelaunch ==
    /\ ~released
    /\ link' = None /\ cursor' = 0 /\ applied' = {} /\ reconciled' = {}
    /\ UNCHANGED <<leaseVars, releaseVars, attVars, pump, expiry>>

-----------------------------------------------------------------------------

RetainStep ==
    \E size \in Sizes, replies \in 0..MaxReplies, aged \in 0..Len(ring), d \in 0..(Len(ring) + 1) :
        Retain(size, replies, aged, d)

AttachStep ==
    \E wrapped, replace \in BOOLEAN, aged, d, k \in 0..Len(ring) :
        Attach(wrapped, replace, aged, d, k)

SenderStep(a) == RegisterOutbound(a) \/ TakeNext(a) \/ Publish(a) \/ SenderStops(a)

Cleanup == BeginJoin \/ CancelDelivered \/ JoinDone \/ CloseController

Next ==
    \/ RetainStep \/ LocalReply \/ RetainFails \/ PumpClosed
    \/ AttachStep
    \/ Expire \/ CapRelease \/ ExternalRelease
    \/ Cleanup
    \/ \E a \in Att : SenderStep(a) \/ CancelSender(a) \/ TransportClose(a)
    \/ LinkLost \/ PhoneRelaunch

Spec == Init /\ [][Next]_vars

(***************************************************************************)
(* Ready asyncio tasks run: senders, the cleanup task, the expiry timer    *)
(* and the finally block that closes a transport whose sender has ended.   *)
(* A send makes progress or fails.  The controller, the phone and the      *)
(* network owe nothing.                                                    *)
(***************************************************************************)
Fairness ==
    /\ WF_vars(Cleanup)
    /\ WF_vars(Expire)
    /\ \A a \in Att : /\ WF_vars(SenderStep(a))
                      /\ WF_vars(sender[a] = "done" /\ TransportClose(a))

FairSpec == Spec /\ Fairness

-----------------------------------------------------------------------------
(* Properties                                                              *)

LeaseTypeOK ==
    /\ lastSeq \in Nat /\ trimmedThrough \in Nat
    /\ ring \in Seq(RetainedEvent)
    /\ current \in Att \cup {None}
    /\ recoveryEnabled \in BOOLEAN /\ capPending \in BOOLEAN

TaskTypeOK ==
    /\ released \in BOOLEAN
    /\ releaseReason \in {"none", "expired", "controller_closed", "controller_failed",
                          "retention_cap", "released"}
    /\ initiator \in {"none", "pump", "expiry", "other"}
    /\ cleanup \in {"none", "fenced", "joining", "closing", "succeeded", "failed"}
    /\ pump \in {"run", "cancelled", "releasing", "done"}
    /\ expiry \in {"none", "armed", "cancelled"}

AttachmentTypeOK ==
    /\ made \in 0..MaxAttachments
    /\ detached \in [Att -> BOOLEAN] /\ recovery \in [Att -> BOOLEAN]
    /\ closed \in [Att -> BOOLEAN]
    /\ out \in [Att -> Seq(Frame)]
    /\ taken \in [Att -> {0, 1}] /\ backlog \in [Att -> Nat]
    /\ sender \in [Att -> {"none", "starting", "run", "cancelled", "done"}]

PhoneTypeOK ==
    /\ link \in Att \cup {None} /\ cursor \in Nat
    /\ applied \subseteq Nat /\ reconciled \subseteq Nat

TypeOK == LeaseTypeOK /\ TaskTypeOK /\ AttachmentTypeOK /\ PhoneTypeOK

(***************************************************************************)
(* Everything up to the phone's resume cursor was either applied by the    *)
(* phone or reported to it as a gap: no event is lost silently through     *)
(* trimming, backpressure, a lost connection, a replacement or a relaunch  *)
(* (attach's replay/replay_gap arithmetic, _trim, _deliver).               *)
(***************************************************************************)
NoSilentLoss ==
    \A n \in 1..cursor : n \in applied \/ n \in reconciled

IsEvent(f) == f.kind = "event"

Continues(s, c) ==
    /\ \A i \in 1..Len(s) : IsEvent(s[i]) =>
           /\ s[i].seq > c
           /\ s[i].seq = c + 1 \/ \E j \in 1..(i - 1) : IsEvent(s[j]) /\ s[j].seq = s[i].seq - 1
    /\ \A i, j \in 1..Len(s) : IsEvent(s[i]) /\ IsEvent(s[j]) /\ i < j => s[i].seq < s[j].seq

Reaches(s, c) == lastSeq = c \/ \E i \in 1..Len(s) : IsEvent(s[i]) /\ s[i].seq = lastSeq

\* where the phone's cursor will be once the preamble, if still ahead of it, is applied
CursorAfterPreamble(s) ==
    IF s # <<>> /\ Head(s).kind = "attached" /\ Head(s).gap THEN GapEnd(Head(s)) ELSE cursor

\* the phone listens to the current attachment, whose sender has not ended
Serving == current # None /\ link = current /\ sender[current] # "done"

(***************************************************************************)
(* The events waiting for a phone that listens to the lease's current      *)
(* attachment continue its cursor without a hole and without a repeat, up  *)
(* to the last event the controller emitted (attach's replay followed by   *)
(* _retain's live delivery).                                               *)
(***************************************************************************)
ContiguousPipeline ==
    Serving =>
        LET c == CursorAfterPreamble(out[current])
        IN  c >= cursor /\ Continues(out[current], c) /\ Reaches(out[current], c)

RingContiguous ==
    /\ \A i \in 1..Len(ring) : ring[i].seq = trimmedThrough + i
    /\ trimmedThrough + Len(ring) = lastSeq

(***************************************************************************)
(* At most one attachment is live, and it is the lease's own: an           *)
(* attachment that lost the lease (detached, replaced, fenced) is marked,  *)
(* and the late cleanup of a replaced one does not evict its successor.    *)
(***************************************************************************)
SingleConsumer ==
    \A a \in Att : a <= made => (detached[a] <=> current # a)

(***************************************************************************)
(* The inductive invariant behind NoSilentLoss.  A sender that holds a     *)
(* frame still has it queued; only the sender of the current attachment    *)
(* runs; a fenced lease has no attachment; the queue of an attachment that *)
(* is being served begins with its preamble, if that is still there, and   *)
(* holds no event of the future.                                           *)
(***************************************************************************)
HeldFrameQueued ==
    \A a \in Att : taken[a] = 1 => out[a] # <<>> /\ sender[a] \in {"run", "cancelled"}

Ownership ==
    /\ SingleConsumer
    /\ \A a \in Att : sender[a] = "run" => a <= made /\ ~detached[a]
    /\ \A a \in Att : a > made => ~detached[a] /\ sender[a] = "none"
    /\ current <= made
    /\ released => current = None
    /\ cleanup # "none" => released

QueueShape ==
    Serving => \A i \in 1..Len(out[current]) :
        /\ IsEvent(out[current][i]) => out[current][i].seq <= lastSeq
        /\ out[current][i].kind = "attached" => i = 1

RetainedIsContiguous == ~released => RingContiguous

DeliveryInv ==
    /\ TypeOK /\ HeldFrameQueued
    /\ Ownership
    /\ RetainedIsContiguous
    /\ QueueShape /\ ContiguousPipeline /\ NoSilentLoss

(***************************************************************************)
(* Once a lease is fenced, or an attachment lost it, nothing further       *)
(* reaches the phone through it: queued private frames are dropped and the *)
(* sender is cancelled inside send (_mark_detached, pump_outbound).        *)
(***************************************************************************)
NothingAfterFence ==
    [][released \/ link # current => applied' \subseteq applied /\ reconciled' \subseteq reconciled]_vars

(***************************************************************************)
(* The inner controller is closed only when no task of the lease can still *)
(* touch it: every sender, also those of replaced attachments, the pump    *)
(* and the timer have ended, and nothing retained is left (_finish_release).*)
(***************************************************************************)
ClosedAfterJoin ==
    cleanup \in {"closing", "succeeded", "failed"} => ~OwnedTaskRunning /\ ring = <<>>

(***************************************************************************)
(* release always settles, whichever task starts it: the initiator is not  *)
(* joined by the cleanup task that it awaits.                              *)
(***************************************************************************)
ReleaseSettles == released ~> cleanup \in {"succeeded", "failed"}

(***************************************************************************)
(* A lease nobody comes back to is released: the detach TTL cannot be lost *)
(* over detaches, replacements and backpressure.                           *)
(***************************************************************************)
AbsentEndsOrReturns ==
    \A n \in 0..MaxAttachments : (current = None /\ made = n) ~> (released \/ made > n)

(***************************************************************************)
(* An event the controller emitted reaches a phone that keeps listening to *)
(* the attachment that owns the lease (next_text, pump_outbound).          *)
(***************************************************************************)
ListeningPhoneCatchesUp ==
    \A a \in Att, n \in 1..MaxSeq :
        (current = a /\ link = a /\ lastSeq >= n)
            ~> (cursor >= n \/ current # a \/ link # a \/ sender[a] \in {"cancelled", "done"})

=============================================================================
