--------------------------- MODULE SubmissionLedger ---------------------------
(***************************************************************************)
(* The prompt.submit ledger of one lease (session_lease.py, submit_text,   *)
(* _record_outcome, _deliver_outcome) between the phone's attachments and  *)
(* the bounded virtual WebSocket of the inner Hermes controller.           *)
(*                                                                         *)
(* A phone that reconnects repeats a submission under its submission_id;   *)
(* the ledger answers repeats instead of dispatching them.  Responses are  *)
(* matched by request id only, so the phone must not use one request id    *)
(* for two submissions (LEASE_RECOVERY.md: request ids are namespaced by   *)
(* attachment generation).                                                 *)
(***************************************************************************)
EXTENDS Naturals, FiniteSets, SequencesExt

CONSTANTS
    Submissions,      \* submission ids
    Requests,         \* JSON-RPC request ids
    MaxTracked,       \* LeaseLimits.max_tracked_submissions
    MaxWaiters,       \* the 8 waiters submit_text keeps for one record
    MaxQueue,         \* VirtualWebSocket.max_queue_items
    PolicyRejects,    \* submissions the method policy may reject, now or then
    MaxDispatches,    \* bound: dispatches of one submission
    MaxAttachments    \* bound: attachments made over the life of the lease

None == 0
Att == 1..MaxAttachments

ASSUME LedgerAssumption ==
    /\ None \notin Submissions
    /\ IsFiniteSet(Submissions) /\ IsFiniteSet(Requests)
    /\ PolicyRejects \subseteq Submissions
    /\ MaxTracked \in Nat \ {0} /\ MaxQueue \in Nat \ {0}
    /\ MaxWaiters \in Nat /\ MaxDispatches \in Nat /\ MaxAttachments \in Nat \ {0}

(***************************************************************************)
(* A frame on its way to or from Hermes: the n-th dispatch of submission   *)
(* sub, sent under request id req.  What Hermes answers to it, result or   *)
(* error, is told apart by <<sub, n>>.                                     *)
(***************************************************************************)
Frame == [sub : Submissions, req : Requests, n : Nat]
Outcome == Submissions \X Nat
Pending == <<>>       \* outcome of a record that has none yet

VARIABLES
    ledger,      \* _submissions in insertion order
    current,     \* the lease's attachment, or None
    made,        \* attachments made so far
    released,    \* SessionLease.released
    cleared,     \* _finish_release has cleared the ledger
    inbound,     \* queued for Hermes
    running,     \* received by Hermes, not yet answered
    outbound,    \* answered, not yet retained by the lease pump
    wsClosed,    \* VirtualWebSocket.closed
    dispatched,  \* how often each submission entered the inbound queue
    owner,       \* the submission the phone uses a request id for, or None
    asked,       \* duplicates the phone is entitled to an answer for
    replies      \* synthesized answers delivered to an attachment

innerVars == <<inbound, running, outbound, wsClosed, dispatched>>
vars == <<ledger, current, made, released, cleared, innerVars, owner, asked, replies>>

Init ==
    /\ ledger = <<>>
    /\ current = 1 /\ made = 1
    /\ released = FALSE /\ cleared = FALSE
    /\ inbound = <<>> /\ running = {} /\ outbound = <<>> /\ wsClosed = FALSE
    /\ dispatched = [s \in Submissions |-> 0]
    /\ owner = [r \in Requests |-> None]
    /\ asked = {} /\ replies = {}

-----------------------------------------------------------------------------
(* The ledger                                                              *)

Index(sub) == {i \in 1..Len(ledger) : ledger[i].sub = sub}
Tracked(sub) == Index(sub) # {}

\* Faulty: the oldest record goes, answered or not
EvictableAny == {i \in 1..Len(ledger) : TRUE}

\* records that may make room: the ones whose outcome is known
Evictable == {i \in 1..Len(ledger) : ledger[i].outcome # Pending}

\* the ledger once there is room for one more record
Roomy ==
    IF Len(ledger) < MaxTracked THEN ledger ELSE RemoveAt(ledger, Min(Evictable))

HasRoom == Len(ledger) < MaxTracked \/ Evictable # {}

\* _deliver_local: only the attachment that asked, and only while it is the lease's own
DeliverTo(att) == IF ~released /\ current = att THEN att ELSE None

Answer(sub, outcome, waiters) ==
    {[att |-> DeliverTo(w[2]), req |-> w[1], sub |-> sub, outcome |-> outcome] :
        w \in {x \in waiters : DeliverTo(x[2]) # None}}

-----------------------------------------------------------------------------
(* submit_text on the current attachment.  A failure that is raised closes *)
(* the transport (feed_ciphertext), which detaches the attachment.         *)

\* the phone submits (or repeats) sub under a request id of its own for it
Submit(sub, req) ==
    /\ ~released /\ current # None
    /\ owner[req] \in {None, sub}
    /\ owner' = [owner EXCEPT ![req] = sub]

CloseInner ==
    /\ wsClosed' = TRUE
    /\ inbound' = <<>> /\ outbound' = <<>> /\ running' = {}

(***************************************************************************)
(* A submission that is not tracked: make room, track it, and feed it to   *)
(* the virtual WebSocket.                                                  *)
(***************************************************************************)
NewRecord(sub, req) ==
    [sub |-> sub, req |-> req, outcome |-> Pending, waiters |-> {}]

Dispatch(sub, req) ==
    /\ Submit(sub, req)
    /\ ~Tracked(sub) /\ HasRoom
    /\ ~wsClosed /\ Len(inbound) < MaxQueue
    /\ dispatched[sub] < MaxDispatches
    /\ ledger' = Append(Roomy, NewRecord(sub, req))
    /\ dispatched' = [dispatched EXCEPT ![sub] = @ + 1]
    /\ inbound' = Append(inbound, [sub |-> sub, req |-> req, n |-> dispatched[sub] + 1])
    /\ UNCHANGED <<current, made, released, cleared, running, outbound, wsClosed, asked, replies>>

\* every tracked submission is still unanswered: submission_tracking_exhausted
Exhausted(sub, req) ==
    /\ Submit(sub, req)
    /\ ~Tracked(sub) /\ ~HasRoom
    /\ current' = None
    /\ UNCHANGED <<ledger, made, released, cleared, innerVars, asked, replies>>

\* the virtual WebSocket is closed, over its item or byte budget (which closes it), or the
\* frame is too large: the record is taken back
FeedFails(sub, req) ==
    /\ Submit(sub, req)
    /\ ~Tracked(sub) /\ HasRoom
    /\ \/ (wsClosed \/ inbound # <<>>) /\ CloseInner
       \/ UNCHANGED <<inbound, running, outbound, wsClosed>>
    /\ ledger' = Roomy
    /\ current' = None
    /\ UNCHANGED <<made, released, cleared, dispatched, asked, replies>>

\* the method policy raises MethodPolicyRejected, which is no VirtualWebSocketError
PolicyRejected(sub, req) ==
    /\ Submit(sub, req)
    /\ sub \in PolicyRejects
    /\ ~Tracked(sub) /\ HasRoom /\ ~wsClosed
    /\ ledger' = Append(Roomy, NewRecord(sub, req))
    /\ current' = None
    /\ UNCHANGED <<made, released, cleared, innerVars, asked, replies>>

(***************************************************************************)
(* A repeat: answered at once when the outcome is known, else noted as a   *)
(* waiter of the record while there is room for one.                       *)
(***************************************************************************)
Repeat(sub, req) ==
    /\ Submit(sub, req)
    /\ Tracked(sub)
    /\ LET i == Min(Index(sub))
           r == ledger[i]
           w == <<req, current>>
       IN  /\ asked' = asked \cup {[att |-> current, req |-> req, sub |-> sub]}
           /\ IF r.outcome # Pending
              THEN /\ replies' = replies \cup Answer(sub, r.outcome, {w})
                   /\ UNCHANGED ledger
              ELSE /\ ledger' = IF Cardinality(r.waiters) < MaxWaiters
                                THEN [ledger EXCEPT ![i].waiters = @ \cup {w}] ELSE ledger
                   /\ UNCHANGED replies
    /\ UNCHANGED <<current, made, released, cleared, innerVars>>

-----------------------------------------------------------------------------
(* Hermes, as the virtual WebSocket shows it: it receives requests in      *)
(* order and answers each once, in any order.                              *)

HermesReceives ==
    /\ inbound # <<>> /\ ~wsClosed
    /\ running' = running \cup {Head(inbound)}
    /\ inbound' = Tail(inbound)
    /\ UNCHANGED <<ledger, current, made, released, cleared, outbound, wsClosed, dispatched,
                   owner, asked, replies>>

\* send_text: a full outbound queue closes the virtual WebSocket
HermesAnswers(f) ==
    /\ f \in running
    /\ IF Len(outbound) < MaxQueue
       THEN /\ running' = running \ {f}
            /\ outbound' = Append(outbound, f)
            /\ UNCHANGED <<inbound, wsClosed>>
       ELSE CloseInner
    /\ UNCHANGED <<ledger, current, made, released, cleared, dispatched, owner, asked, replies>>

(***************************************************************************)
(* _record_outcome: the first unanswered record sent under the response's  *)
(* id gets the outcome, and its waiters are answered.                      *)
(***************************************************************************)
\* Faulty: the answered submission is forgotten
RecordOutcomeForgetting(f) ==
    LET hits == {i \in 1..Len(ledger) : ledger[i].outcome = Pending /\ ledger[i].req = f.req}
        i    == Min(hits)
    IN  IF hits = {} THEN UNCHANGED <<ledger, replies>>
        ELSE /\ ledger' = RemoveAt(ledger, i)
             /\ replies' = replies \cup Answer(ledger[i].sub, <<f.sub, f.n>>, ledger[i].waiters)

\* Faulty: the oldest unanswered record gets the outcome, whatever it was sent under
RecordOutcomeOldest(f) ==
    LET hits == {i \in 1..Len(ledger) : ledger[i].outcome = Pending}
        i    == Min(hits)
    IN  IF hits = {} THEN UNCHANGED <<ledger, replies>>
        ELSE /\ ledger' = [ledger EXCEPT ![i].outcome = <<f.sub, f.n>>, ![i].waiters = {}]
             /\ replies' = replies \cup Answer(ledger[i].sub, <<f.sub, f.n>>, ledger[i].waiters)

RecordOutcome(f) ==
    LET hits == {i \in 1..Len(ledger) : ledger[i].outcome = Pending /\ ledger[i].req = f.req}
        i    == Min(hits)
    IN  IF hits = {} THEN UNCHANGED <<ledger, replies>>
        ELSE /\ ledger' = [ledger EXCEPT ![i].outcome = <<f.sub, f.n>>, ![i].waiters = {}]
             /\ replies' = replies \cup Answer(ledger[i].sub, <<f.sub, f.n>>, ledger[i].waiters)

\* the lease pump retains the next answer of Hermes
PumpRetains ==
    /\ outbound # <<>> /\ ~cleared
    /\ RecordOutcome(Head(outbound))
    /\ outbound' = Tail(outbound)
    /\ UNCHANGED <<current, made, released, cleared, inbound, running, wsClosed, dispatched,
                   owner, asked>>

-----------------------------------------------------------------------------
(* The lease around the ledger                                             *)

Attach ==
    /\ ~released /\ made < MaxAttachments
    /\ made' = made + 1 /\ current' = made + 1
    /\ UNCHANGED <<ledger, released, cleared, innerVars, owner, asked, replies>>

Detach ==
    /\ ~released /\ current # None /\ current' = None
    /\ UNCHANGED <<ledger, made, released, cleared, innerVars, owner, asked, replies>>

\* release: the fence comes first
Release ==
    /\ ~released /\ released' = TRUE
    /\ current' = None
    /\ UNCHANGED <<ledger, made, cleared, innerVars, owner, asked, replies>>

\* _finish_release, once the pump has been joined
FinishRelease ==
    /\ released /\ ~cleared /\ cleared' = TRUE
    /\ ledger' = <<>>
    /\ CloseInner
    /\ UNCHANGED <<current, made, released, dispatched, owner, asked, replies>>

\* the handler exits: the bridge closes the virtual WebSocket
BridgeExits ==
    /\ ~wsClosed /\ CloseInner
    /\ UNCHANGED <<ledger, current, made, released, cleared, dispatched, owner, asked, replies>>

Next ==
    \/ \E sub \in Submissions, req \in Requests :
          \/ Dispatch(sub, req) \/ Exhausted(sub, req) \/ FeedFails(sub, req)
          \/ PolicyRejected(sub, req) \/ Repeat(sub, req)
    \/ HermesReceives \/ (\E f \in running : HermesAnswers(f)) \/ PumpRetains
    \/ Attach \/ Detach \/ Release \/ FinishRelease \/ BridgeExits

Spec == Init /\ [][Next]_vars

-----------------------------------------------------------------------------
(* Properties                                                              *)

Record == [sub : Submissions, req : Requests, outcome : Outcome \cup {Pending},
           waiters : SUBSET (Requests \X Att)]
Reply == [att : Att, req : Requests, sub : Submissions, outcome : Outcome]
Ask == [att : Att, req : Requests, sub : Submissions]

TypeOK ==
    /\ ledger \in Seq(Record) /\ Len(ledger) <= MaxTracked
    /\ current \in Att \cup {None} /\ made \in Att
    /\ released \in BOOLEAN /\ cleared \in BOOLEAN /\ wsClosed \in BOOLEAN
    /\ inbound \in Seq(Frame) /\ outbound \in Seq(Frame)
    /\ running \subseteq Frame
    /\ Len(inbound) <= MaxQueue /\ Len(outbound) <= MaxQueue
    /\ dispatched \in [Submissions -> Nat]
    /\ owner \in [Requests -> Submissions \cup {None}]
    /\ asked \subseteq Ask /\ replies \subseteq Reply

\* the frames of submissions somewhere in the inner controller
InFlight ==
    {inbound[i] : i \in 1..Len(inbound)} \cup running \cup {outbound[i] : i \in 1..Len(outbound)}

(***************************************************************************)
(* Every answer a repeat gets is the outcome Hermes gave to that very      *)
(* submission, and it goes to the attachment that asked, under the request *)
(* id it asked with (_record_outcome, _deliver_local's attachment fence).  *)
(***************************************************************************)
RepliesAreOriginal ==
    \A r \in replies :
        /\ r.outcome[1] = r.sub
        /\ [att |-> r.att, req |-> r.req, sub |-> r.sub] \in asked

\* a record without an outcome will get one: Hermes has the submission, or the virtual
\* WebSocket is closed and the lease about to end, or the method policy refused it, the one
\* failure of the feed that submit_text does not take back
NothingStranded ==
    \A i \in 1..Len(ledger) : ledger[i].outcome = Pending =>
        \/ \E f \in InFlight : f.sub = ledger[i].sub
        \/ wsClosed \/ ledger[i].sub \in PolicyRejects

(***************************************************************************)
(* Whatever Hermes still works on is tracked and unanswered: eviction at   *)
(* the limit never makes the ledger forget work that a repeat could        *)
(* dispatch a second time while the first is running, and a full ledger    *)
(* does not grow.  Conversely no failed feed leaves a record behind that   *)
(* nothing will ever answer: it could not be evicted, and a repeat would   *)
(* wait on it instead of being dispatched (submit_text).                   *)
(***************************************************************************)
InFlightIsTracked ==
    /\ TypeOK
    /\ ~cleared => \A f \in InFlight :
          \E i \in 1..Len(ledger) :
              ledger[i].sub = f.sub /\ ledger[i].req = f.req /\ ledger[i].outcome = Pending
    /\ NothingStranded

(***************************************************************************)
(* A lease that sees no more submission ids than it tracks dispatches each *)
(* at most once, over reconnects, repeats and failed feeds (submit_text).  *)
(***************************************************************************)
OnceWithinWindow ==
    Cardinality({owner[r] : r \in Requests} \ {None}) <= MaxTracked =>
        \A s \in Submissions : dispatched[s] <= 1

=============================================================================
