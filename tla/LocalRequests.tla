--------------------------- MODULE LocalRequests ---------------------------
(***************************************************************************)
(* Requests a lease answers itself: bounded reads and the one mutation,     *)
(* folder creation.  Each becomes a task of the lease that checks the       *)
(* device's authorization, awaits a thread, checks again and answers the    *)
(* attachment that asked.  A mutation goes through a ledger keyed by its    *)
(* request id; the device reconnects and repeats it while the first run is  *)
(* in flight, done, failed or forgotten.  Release cancels the tasks; their  *)
(* threads run on.                                                          *)
(***************************************************************************)
EXTENDS HostFiles, SessionReads, FiniteSetsExt, SequencesExt

CONSTANTS
  Ids,              \* request ids
  Payloads,         \* what a mutation's payload fingerprint tells apart
  MaxReads,         \* MAX_READS_IN_FLIGHT
  MaxMutations,     \* MAX_LOCAL_MUTATIONS
  MaxAsks,          \* bound: folder and image requests
  MaxAttachments,   \* bound: attachments
  NoOne

ASSUME RequestsAssumption ==
  /\ {MaxReads, MaxMutations, MaxAsks, MaxAttachments} \subseteq Nat
  /\ MaxAttachments > 0
  /\ NoOne \notin Ids \cup Payloads
  /\ Tasks \subseteq Nat

VARIABLES
  current,      \* the current attachment, 0 for none
  attachments,  \* attachments so far
  release,      \* "no", "begun", "done"
  authorized,   \* the device is authorized in the lease's epoch
  ledger,       \* mutation records, oldest use first
  task,         \* the lease's tasks
  page,         \* the page a task's thread has read
  asked,        \* mutation requests the device still waits for
  answered,     \* payloads of the runs that answered requests
  asks          \* requests so far

leaseVars == <<current, attachments, release, authorized, ledger, task, page, asked,
               answered, asks>>
vars == <<fileVars, thread, readVars, leaseVars>>

NoTask == [kind |-> "none", id |-> NoOne, payload |-> NoOne, to |-> 0, live |-> FALSE]
Records == [id : Ids, payload : Payloads, outcome : {"none", "ok"}, waiter : 0..MaxAttachments]

TypeOK ==
  /\ FilesTypeOK
  /\ ReadsTypeOK
  /\ current \in 0..attachments
  /\ attachments \in 0..MaxAttachments
  /\ release \in {"no", "begun", "done"}
  /\ authorized \in BOOLEAN
  /\ ledger \in Seq(Records)
  /\ Len(ledger) <= MaxMutations
  /\ task \in [Tasks -> [kind : {"none", "create", "list", "image", "page"},
                         id : Ids \cup {NoOne}, payload : Payloads \cup {NoOne},
                         to : 0..MaxAttachments, live : BOOLEAN]]
  /\ page \in [Tasks -> Pages]
  /\ asked \subseteq [id : Ids, payload : Payloads, to : 1..MaxAttachments]
  /\ answered \subseteq [asked : Payloads, ran : Payloads]
  /\ asks \in 0..MaxAsks

Init ==
  /\ FilesInit
  /\ ReadsInit
  /\ current = 1
  /\ attachments = 1
  /\ release = "no"
  /\ authorized = TRUE
  /\ ledger = <<>>
  /\ task = [t \in Tasks |-> NoTask]
  /\ page = [t \in Tasks |-> NoPage]
  /\ asked = {}
  /\ answered = {}
  /\ asks = 0

----------------------------------------------------------------------------
Live == {t \in Tasks : task[t].live}
Free == {t \in Tasks : task[t] = NoTask}
Positions(id) == {i \in DOMAIN ledger : ledger[i].id = id}
Ask(id, payload) == [id |-> id, payload |-> payload, to |-> current]

\* submit_text takes a request from the current attachment only.
MaySubmit == current # 0 /\ release = "no" /\ asks < MaxAsks

\* _deliver_local: to the attachment that asked, while it is current.
Reaches(to) == release = "no" /\ to = current /\ to # 0

\* A new task of the lease; its coroutine has not run yet.
Started(t, kind, id, payload) ==
  task' = [task EXCEPT ![t] =
    [kind |-> kind, id |-> id, payload |-> payload, to |-> current, live |-> TRUE]]

----------------------------------------------------------------------------
(***************************************************************************)
(* Mutations                                                               *)
(***************************************************************************)

\* Faulty: the oldest record goes, answered or not
EvictAny(records) == IF records = <<>> THEN {} ELSE {1}

\* A record is only given up once it has an outcome.
Evictable(records) ==
  LET settled == {i \in DOMAIN records : records[i].outcome # "none"}
  IN IF settled = {} THEN {} ELSE {Min(settled)}

Room(records) == Len(records) < MaxMutations

\* The first request under an id: a record, its waiter and a task.
StartMutation(id, payload) ==
  /\ MaySubmit
  /\ Positions(id) = {}
  /\ Room(ledger) \/ Evictable(ledger) # {}
  /\ Free # {}
  /\ LET kept == IF Room(ledger) THEN ledger ELSE RemoveAt(ledger, Max(Evictable(ledger)))
     IN ledger' = Append(kept, [id |-> id, payload |-> payload, outcome |-> "none",
                                waiter |-> current])
  /\ Started(Min(Free), "create", id, payload)
  /\ asked' = asked \cup {Ask(id, payload)}
  /\ asks' = asks + 1
  /\ UNCHANGED <<fileVars, thread, readVars, current, attachments, release, authorized, page,
                 answered>>

\* Every record is in flight: the request is answered with rate_limited.
MutationRateLimited(id) ==
  /\ MaySubmit
  /\ Positions(id) = {}
  /\ ~Room(ledger)
  /\ Evictable(ledger) = {}
  /\ asks' = asks + 1
  /\ UNCHANGED <<fileVars, thread, readVars, current, attachments, release, authorized,
                 ledger, task, page, asked, answered>>

\* An outcome goes out under the id; what the attachment asked under it, this
\* request included, is answered.
Answered(id, to, now, ran) ==
  LET waiting == {q \in asked \cup now : q.id = id /\ q.to = to}
  IN /\ asked' = asked \ waiting
     /\ answered' = answered \cup {[asked |-> q.payload, ran |-> ran] :
                                   q \in {w \in waiting : ran # NoOne}}

\* The id is known: another payload is refused, a settled one answered, and
\* one in flight answers the latest attachment that asked.
RepeatMutation(id, payload) ==
  /\ MaySubmit
  /\ \E i \in Positions(id) :
       LET record == ledger[i]
           moved(r) == Append(RemoveAt(ledger, i), r)
       IN \/ /\ record.payload # payload
             /\ ledger' = moved(record)
             /\ UNCHANGED <<asked, answered>>
          \/ /\ record.payload = payload
             /\ record.outcome # "none"
             /\ ledger' = moved(record)
             /\ Answered(id, current, {Ask(id, payload)}, record.payload)
          \/ /\ record.payload = payload
             /\ record.outcome = "none"
             /\ ledger' = moved([record EXCEPT !.waiter = current])
             /\ asked' = asked \cup {Ask(id, payload)}
             /\ UNCHANGED answered
  /\ asks' = asks + 1
  /\ UNCHANGED <<fileVars, thread, readVars, current, attachments, release, authorized,
                 task, page>>

----------------------------------------------------------------------------
(***************************************************************************)
(* Reads                                                                   *)
(***************************************************************************)

StartRead(kind) ==
  /\ MaySubmit
  /\ Cardinality(Live) < MaxReads
  /\ Free # {}
  /\ Started(Min(Free), kind, NoOne, NoOne)
  /\ asks' = asks + 1
  /\ UNCHANGED <<fileVars, thread, readVars, current, attachments, release, authorized,
                 ledger, page, asked, answered>>

StartPage ==
  /\ current # 0
  /\ release = "no"
  /\ pager.state = "want"
  /\ Cardinality(Live) < MaxReads
  /\ Free # {}
  /\ Started(Min(Free), "page", NoOne, NoOne)
  /\ pager' = [pager EXCEPT !.state = "wait"]
  /\ UNCHANGED <<fileVars, thread, rows, current, attachments, release, authorized,
                 ledger, page, asked, answered, asks>>

ReadRateLimited ==
  /\ MaySubmit
  /\ Cardinality(Live) >= MaxReads
  /\ asks' = asks + 1
  /\ UNCHANGED <<fileVars, thread, readVars, current, attachments, release, authorized,
                 ledger, task, page, asked, answered>>

----------------------------------------------------------------------------
(***************************************************************************)
(* A task's run                                                            *)
(***************************************************************************)

\* authorized_read checks the device, then awaits the thread.
RunTask(t) ==
  /\ task[t].live
  /\ At(t, "none")
  /\ thread' = [thread EXCEPT ![t] =
       IF ~authorized THEN [NoThread EXCEPT !.pc = "done", !.out = "error"]
       ELSE IF task[t].kind = "page" THEN [NoThread EXCEPT !.pc = "page"]
       ELSE Spawn(task[t].kind)]
  /\ UNCHANGED <<fileVars, readVars, leaseVars>>

\* The thread's one query for a page.
ReadPage(t) ==
  /\ At(t, "page")
  /\ page' = [page EXCEPT ![t] = Page(pager.order, pager.offset)]
  /\ End(t, "ok")
  /\ UNCHANGED <<fileVars, readVars, current, attachments, release, authorized, ledger, task,
                 asked, answered, asks>>

\* A thread moves whether or not its task still waits for it.
RunThread(t) ==
  /\ FileStep(t) \/ ThreadFails(t)
  /\ UNCHANGED <<readVars, leaseVars>>

\* Faulty: the device is not checked again after the run
OutcomeUnchecked(t) == thread[t].out

\* The second check of the device: what the run may report.
Outcome(t) == IF authorized THEN thread[t].out ELSE "error"

Reset(t) ==
  /\ task' = [task EXCEPT ![t] = NoTask]
  /\ thread' = [thread EXCEPT ![t] = NoThread]
  /\ page' = [page EXCEPT ![t] = NoPage]

\* A mutation's run ends: the outcome is kept and answered, or an error
\* answered and forgotten, unless the lease has been released meanwhile.
FinishMutation(t) ==
  /\ task[t].live
  /\ task[t].kind = "create"
  /\ At(t, "done")
  /\ IF release # "no" THEN UNCHANGED <<ledger, asked, answered>>
     ELSE \E i \in Positions(task[t].id) :
            LET record == ledger[i]
                ran == IF Outcome(t) = "ok" THEN task[t].payload ELSE NoOne
            IN /\ ledger' = IF Outcome(t) = "ok"
                            THEN [ledger EXCEPT ![i].outcome = "ok", ![i].waiter = 0]
                            ELSE RemoveAt(ledger, i)
               /\ IF Reaches(record.waiter) THEN Answered(record.id, record.waiter, {}, ran)
                  ELSE UNCHANGED <<asked, answered>>
  /\ Reset(t)
  /\ UNCHANGED <<fileVars, readVars, current, attachments, release, authorized, asks>>

FinishRead(t) ==
  /\ task[t].live
  /\ task[t].kind \in {"list", "image", "page"}
  /\ At(t, "done")
  /\ pager' = IF task[t].kind # "page" THEN pager
              ELSE IF Reaches(task[t].to) /\ Outcome(t) = "ok" THEN PageTaken(page[t])
              ELSE AskAgain
  /\ Reset(t)
  /\ UNCHANGED <<fileVars, rows, current, attachments, release, authorized, ledger, asked,
                 answered, asks>>

\* A thread whose task was cancelled ends unheard.
Reap(t) ==
  /\ ~task[t].live
  /\ At(t, "done")
  /\ Reset(t)
  /\ UNCHANGED <<fileVars, readVars, current, attachments, release, authorized, ledger,
                 asked, answered, asks>>

----------------------------------------------------------------------------
(***************************************************************************)
(* The lease around them                                                   *)
(***************************************************************************)

\* The device reconnects, with or without the old transport gone.
Attach ==
  /\ release = "no"
  /\ attachments < MaxAttachments
  /\ attachments' = attachments + 1
  /\ current' = attachments'
  /\ pager' = AskAgain
  /\ UNCHANGED <<fileVars, thread, rows, release, authorized, ledger, task, page, asked,
                 answered, asks>>

Detach ==
  /\ current # 0
  /\ current' = 0
  /\ UNCHANGED <<fileVars, thread, readVars, attachments, release, authorized, ledger, task,
                 page, asked, answered, asks>>

\* Another process or the dashboard revokes the device; the lease's release
\* follows in its own time.
Revoke ==
  /\ authorized
  /\ authorized' = FALSE
  /\ UNCHANGED <<fileVars, thread, readVars, current, attachments, release, ledger, task,
                 page, asked, answered, asks>>

BeginRelease ==
  /\ release = "no"
  /\ release' = "begun"
  /\ current' = 0
  /\ UNCHANGED <<fileVars, thread, readVars, attachments, authorized, ledger, task, page,
                 asked, answered, asks>>

\* _finish_release cancels what still runs, waits for it and drops the ledger.
FinishRelease ==
  /\ release = "begun"
  /\ release' = "done"
  /\ task' = [t \in Tasks |-> IF At(t, "none") THEN NoTask ELSE [task[t] EXCEPT !.live = FALSE]]
  /\ ledger' = <<>>
  /\ UNCHANGED <<fileVars, thread, readVars, current, attachments, authorized, page, asked,
                 answered, asks>>

Environment ==
  /\ \/ (OwnerChangesFolder \/ OwnerChangesEntry) /\ UNCHANGED <<thread, readVars>>
     \/ (\E k \in {"shown", "hidden"} : AppendRow(k)) /\ UNCHANGED <<fileVars, thread>>
     \/ (\E o \in Orders : OpenTranscript(o)) /\ UNCHANGED <<fileVars, thread>>
  /\ UNCHANGED leaseVars

Next ==
  \/ \E id \in Ids, payload \in Payloads :
       StartMutation(id, payload) \/ RepeatMutation(id, payload)
  \/ \E id \in Ids : MutationRateLimited(id)
  \/ \E kind \in {"list", "image"} : StartRead(kind)
  \/ StartPage \/ ReadRateLimited
  \/ \E t \in Tasks :
       \/ RunTask(t) \/ RunThread(t) \/ ReadPage(t)
       \/ FinishMutation(t) \/ FinishRead(t) \/ Reap(t)
  \/ Attach \/ Detach \/ Revoke \/ BeginRelease \/ FinishRelease
  \/ Environment

Spec == Init /\ [][Next]_vars

----------------------------------------------------------------------------
(***************************************************************************)
(* Properties                                                              *)
(***************************************************************************)

\* However often a mutation is repeated, by whichever attachment, one run at
\* a time serves its id: a record leaves the ledger only with its outcome.
OneRunPerId ==
  \A id \in Ids : Cardinality({t \in Live : task[t].id = id}) <= 1

\* Whatever the current attachment has asked for and not been answered is
\* what some run in flight will answer it.
AskedIsTracked ==
  \A q \in asked : Reaches(q.to) =>
    /\ \E i \in Positions(q.id) : ledger[i].outcome = "none" /\ ledger[i].waiter = q.to
    /\ \E t \in Live : task[t].id = q.id

\* A request is answered with the outcome of a run of its own payload.
AnswersAreOwn == \A x \in answered : x.asked = x.ran

\* The ledger of local mutations: one run for an id at a time, nobody who still
\* listens is forgotten, and no answer is another request's.
LedgerIsFaithful == TypeOK /\ OneRunPerId /\ AskedIsTracked /\ AnswersAreOwn

\* Revocation while a thread works: its result is neither kept nor delivered.
RevokedRunsYieldNothing ==
  [][~authorized =>
       /\ \A i \in DOMAIN ledger' : ledger'[i].outcome = "ok" =>
            \E j \in DOMAIN ledger : ledger[j].id = ledger'[i].id /\ ledger[j].outcome = "ok"
       /\ pager'.seen = pager.seen]_vars
=============================================================================
