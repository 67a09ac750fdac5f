------------------------------ MODULE PushBridge ------------------------------
(* The push bridge of push.py: wake handles registered with the push Worker  *)
(* for each device, the rows that remember them, the queue and the single     *)
(* worker task that talk to it, registration calls, wakes and their tap      *)
(* routes, revocation, save failures, crash and restart.                     *)
(*                                                                         *)
(* A row belongs to the relay origin and installation it was registered      *)
(* under, its binding; a process serves the rows of its own binding only,   *)
(* and what it owes elsewhere waits for a process that is bound there.      *)
(*                                                                         *)
(* The Worker is external: it applies a request at most once and never after *)
(* a later request of the same host.                                        *)
EXTENDS Naturals, Sequences, FiniteSets

CONSTANTS
    Devices,
    Callers,      \* bound: the dispatch calls ever made, each its own caller
    Keys,         \* preview keys a device may register with
    Bindings,     \* relay origins with an installation id, one of them a process's
    None,
    QueueSize,    \* QUEUE_SIZE
    MaxRows,      \* MAX_ROWS
    MaxHandles,   \* bound: wake handles ever made
    MaxWakes,     \* bound: wakes ever queued
    MaxRevokes,   \* bound: calls of revoke
    MaxCrashes,   \* bound: restarts of the process
    SaveMayFail   \* whether writing push.json may fail

ASSUME PushAssumption ==
    /\ {QueueSize, MaxRows, MaxHandles} \subseteq Nat \ {0}
    /\ {MaxWakes, MaxRevokes, MaxCrashes} \subseteq Nat
    /\ SaveMayFail \in BOOLEAN /\ None \notin Callers \cup Devices \cup Bindings

Handles == 1 .. MaxHandles
Modes == {"generic"} \cup Keys      \* a preview row is known by its key

VARIABLES
    rows,      \* self.rows and _generation of each handle; "none": no row
    queue,     \* self.queue
    http,      \* _http_handle and _http_task: the operation the worker awaits
    tap,       \* pending_routes and arrival_routes: the wake a tap on h opens
    here,      \* self.origin and self.route of the process
    failed,    \* self.failed
    calls,     \* dispatch calls for a registration
    lock,      \* the holder of _registration_lock
    auth,      \* devices the repository authorizes
    disk,      \* push.json
    remote,    \* external: handles the Worker has, each under a binding
    up,        \* the process runs
    made,      \* handles made so far
    wakes, revokes, crashes,
    givenUp    \* history: pending rows owed since a repeat found the queue full

bridge == <<rows, queue, http, tap, failed, here>>
counters == <<made, wakes, revokes, crashes, givenUp>>
vars == <<bridge, calls, lock, auth, disk, remote, up, counters>>

Status == {"none", "pending", "active", "debt"}
Row == [st : Status, dev : Devices \cup {None}, mode : Modes, gen : Nat,
        bind : Bindings \cup {None}]
NoRow == [st |-> "none", dev |-> None, mode |-> "generic", gen |-> 0, bind |-> None]
Job == [act : {"register", "unregister", "wake"}, h : Handles, gen : Nat,
        c : Callers \cup {None}, n : 0 .. MaxWakes]
NoHttp == [at |-> "idle"]
HttpPhase == {"created", "flying", "arrived", "ok", "err", "cancelled"}
IdleCall == [at |-> "idle", dev |-> None, mode |-> "generic", h |-> 0]

TypeOK ==
    /\ rows \in [Handles -> Row]
    /\ queue \in Seq(Job) /\ Len(queue) <= QueueSize
    /\ http \in {NoHttp} \cup [at : HttpPhase, job : Job]
    /\ tap \in [Handles -> 0 .. MaxWakes]
    /\ failed \in BOOLEAN /\ up \in BOOLEAN
    /\ calls \in [Callers -> [at : {"idle", "lock", "future", "set", "raised", "done"},
                              dev : Devices \cup {None}, mode : Modes, h : 0 .. MaxHandles]]
    /\ lock \in Callers \cup {None}
    /\ auth \subseteq Devices /\ remote \subseteq Handles \X Bindings /\ here \in Bindings
    /\ disk \in [Handles -> Row]
    /\ made \in 0 .. MaxHandles
    /\ wakes \in 0 .. MaxWakes /\ revokes \in 0 .. MaxRevokes /\ crashes \in 0 .. MaxCrashes
    /\ givenUp \subseteq Handles

Init ==
    /\ rows = [h \in Handles |-> NoRow] /\ disk = rows
    /\ queue = <<>> /\ http = NoHttp /\ tap = [h \in Handles |-> 0]
    /\ failed = FALSE /\ up = TRUE /\ here \in Bindings
    /\ calls = [c \in Callers |-> IdleCall] /\ lock = None
    /\ auth = Devices /\ remote = {}
    /\ made = 0 /\ wakes = 0 /\ revokes = 0 /\ crashes = 0 /\ givenUp = {}

-----------------------------------------------------------------------------

Present == {h \in Handles : rows[h].st # "none"}
RowsOf(d) == {h \in Present : rows[h].dev = d}

\* _authorized, _bound, _valid_scope and _valid
Authorized(d) == up /\ ~failed /\ d \in auth
Bound(h) == rows[h].bind = here
ValidScope(h) == Bound(h) /\ Authorized(rows[h].dev)
Valid(h) == rows[h].st = "active" /\ ValidScope(h)

\* _make_debt of a row
Debt(r) == [r EXCEPT !.st = "debt", !.gen = @ + 1]

InDebt(H) == [h \in Handles |-> IF h \in H THEN Debt(rows[h]) ELSE rows[h]]
RoutesWithout(H) == [h \in Handles |-> IF h \in H THEN 0 ELSE tap[h]]

\* The members of a set of numbers, in order.
Upto(S, i) == Cardinality({j \in S : j <= i})
Ordered(S) == [n \in 1 .. Cardinality(S) |-> CHOOSE i \in S : Upto(S, i) = n]

\* _drop_queued of each handle of H, and the callers it answers with an error
QueueWithout(H) ==
    LET kept == Ordered({i \in 1 .. Len(queue) : queue[i].h \notin H})
    IN [n \in DOMAIN kept |-> queue[kept[n]]]
Waiting(H) == {queue[i].c : i \in {k \in 1 .. Len(queue) : queue[k].h \in H}} \ {None}
Answered(cs, at) ==
    [c \in Callers |-> IF c \in cs /\ calls[c].at = "future" THEN [calls[c] EXCEPT !.at = at]
                       ELSE calls[c]]

\* Faulty: the request in flight goes on
NotCancelled(H) == http

\* _http_task.cancel() when it works for a handle of H and is not done
Cancelled(H) ==
    IF http # NoHttp /\ http.at \notin {"ok", "err"} /\ http.job.h \in H
    THEN [http EXCEPT !.at = "cancelled"] ELSE http

\* Faulty: the job names no generation
UnregisterJobStale(h, rs) == [act |-> "unregister", h |-> h, gen |-> 0, c |-> None, n |-> 0]

UnregisterJob(h, rs) == [act |-> "unregister", h |-> h, gen |-> rs[h].gen, c |-> None, n |-> 0]

WithAllUnregisters(q, H, rs) ==
    LET hs == Ordered(H)
    IN q \o [i \in 1 .. Len(hs) |-> UnregisterJob(hs[i], rs)]

\* _enqueue of an unregister for each handle of H, oldest first: what does not
\* fit is left to the idle sweep
WithUnregisters(q, H, rs) ==
    LET hs == Ordered(H)
        all == q \o [i \in 1 .. Len(hs) |-> UnregisterJob(hs[i], rs)]
    IN SubSeq(all, 1, IF Len(all) < QueueSize THEN Len(all) ELSE QueueSize)

\* _save of rs: the file has it, or the bridge is marked failed
Saves(rs, ok) ==
    /\ ok \/ SaveMayFail
    /\ disk' = IF ok THEN rs ELSE disk
    /\ failed' = (failed \/ ~ok)

-----------------------------------------------------------------------------
(* Registration: dispatch *)

Register(c, d, mode) ==
    /\ calls[c].at = "idle" /\ Authorized(d)
    /\ calls' = [calls EXCEPT ![c] = [at |-> "lock", dev |-> d, mode |-> mode, h |-> 0]]
    /\ UNCHANGED <<bridge, lock, auth, disk, remote, up, counters>>

\* _find_idempotent_preview: the device's live row with this preview key
SamePreview(d, mode) ==
    {h \in RowsOf(d) : mode \in Keys /\ rows[h].mode = mode /\ rows[h].st \in {"active", "pending"}}

RegisterJob(c, h, g) == [act |-> "register", h |-> h, gen |-> g, c |-> c, n |-> 0]

Awaiting(c, h) == [calls EXCEPT ![c].at = "future", ![c].h = h]
Done(c) == [calls EXCEPT ![c].at = "done"]

\* a call repeats its live preview registration: only the job is queued; if
\* the queue is full a pending row is given up, with no word to the request
\* that may be about to start for it
RegisterAgain(c) ==
    /\ calls[c].at = "lock" /\ lock = None
    /\ \E h \in SamePreview(calls[c].dev, calls[c].mode) :
        IF Len(queue) < QueueSize
        THEN /\ queue' = Append(queue, RegisterJob(c, h, rows[h].gen))
             /\ calls' = Awaiting(c, h)
             /\ lock' = c
             /\ UNCHANGED <<rows, tap, disk, failed, givenUp>>
        ELSE /\ IF rows[h].st = "pending"
                THEN /\ rows' = InDebt({h}) /\ tap' = RoutesWithout({h})
                     /\ givenUp' = givenUp \cup {h}
                     /\ \E ok \in BOOLEAN : Saves(rows', ok)
                ELSE UNCHANGED <<rows, tap, disk, failed, givenUp>>
             /\ calls' = Done(c)
             /\ UNCHANGED <<queue, lock>>
    /\ UNCHANGED <<http, here, auth, remote, up, made, wakes, revokes, crashes>>

\* a new row is saved as pending before anything is sent
RegisterFresh(c) ==
    /\ calls[c].at = "lock" /\ lock = None
    /\ SamePreview(calls[c].dev, calls[c].mode) = {}
    /\ IF Len(queue) = QueueSize \/ Cardinality(Present) >= MaxRows
       THEN calls' = Done(c) /\ UNCHANGED <<rows, queue, disk, failed, lock, made>>
       ELSE \E h \in Handles, ok \in BOOLEAN :
            /\ h = made + 1 /\ made' = h
            /\ rows' = [rows EXCEPT ![h] = [st |-> "pending", dev |-> calls[c].dev,
                                            mode |-> calls[c].mode, gen |-> 0, bind |-> here]]
            /\ Saves(rows', ok)
            /\ IF ok
               THEN /\ queue' = Append(queue, RegisterJob(c, h, 0))
                    /\ calls' = Awaiting(c, h)
                    /\ lock' = c
               ELSE calls' = Done(c) /\ UNCHANGED <<queue, lock>>
    /\ UNCHANGED <<http, tap, here, auth, remote, up, wakes, revokes, crashes, givenUp>>

\* the future is set: the caller learns its handle, or an error
Returns(c) ==
    /\ calls[c].at \in {"set", "raised"}
    /\ calls' = Done(c) /\ lock' = None
    /\ UNCHANGED <<bridge, auth, disk, remote, up, counters>>

\* the caller's task is cancelled (its lease was released); its job stays
CallCancelled(c) ==
    /\ calls[c].at \in {"lock", "future"}
    /\ calls' = Done(c)
    /\ lock' = IF lock = c THEN None ELSE lock
    /\ UNCHANGED <<bridge, auth, disk, remote, up, counters>>

-----------------------------------------------------------------------------
(* Revocation and wakes *)

\* revoke: every row of the device, whatever its status
RevokeRows(d) ==
    LET H == RowsOf(d)
        rs == InDebt(H)
    IN IF H = {} THEN UNCHANGED <<rows, queue, http, tap, failed, calls, disk>>
       ELSE /\ rows' = rs /\ tap' = RoutesWithout(H) /\ http' = Cancelled(H)
            /\ calls' = Answered(Waiting(H), "raised")
            /\ \E ok \in BOOLEAN :
                /\ Saves(rs, ok)
                /\ queue' = IF ok THEN WithUnregisters(QueueWithout(H), H, rs) ELSE QueueWithout(H)

\* revoke_device takes the device's authorization and then calls revoke;
\* relay.push.unregister only calls revoke
Revoke(d) ==
    /\ up /\ revokes < MaxRevokes
    /\ revokes' = revokes + 1
    /\ \/ auth' = auth \ {d}
       \/ Authorized(d) /\ UNCHANGED auth
    /\ RevokeRows(d)
    /\ UNCHANGED <<here, lock, remote, up, made, wakes, crashes, givenUp>>

\* wake, once per identity, for the valid handle; the tap route is the last
\* queued wake's
Wake(h) ==
    /\ Valid(h) /\ wakes < MaxWakes
    /\ wakes' = wakes + 1
    /\ IF Len(queue) < QueueSize
       THEN /\ queue' = Append(queue, [act |-> "wake", h |-> h, gen |-> rows[h].gen,
                                       c |-> None, n |-> wakes + 1])
            /\ tap' = [tap EXCEPT ![h] = wakes + 1]
       ELSE UNCHANGED <<queue, tap>>
    /\ UNCHANGED <<rows, http, failed, here, calls, lock, auth, disk, remote, up, made,
                   revokes, crashes, givenUp>>

\* _resolve: a tap opens the route once; routes also expire
TapOrExpiry(h) ==
    /\ tap[h] # 0
    /\ tap' = [tap EXCEPT ![h] = 0]
    /\ UNCHANGED <<rows, queue, http, failed, here, calls, lock, auth, disk, remote, up, counters>>

-----------------------------------------------------------------------------
(* The worker task: _run *)

\* checks made when a job is taken
Worthwhile(j) ==
    LET r == rows[j.h] IN
    /\ r.st # "none" /\ r.gen = j.gen
    /\ CASE j.act = "unregister" -> r.st = "debt"
         [] j.act = "register" -> r.st \in {"active", "pending"} /\ ValidScope(j.h)
         [] j.act = "wake" -> Valid(j.h)

\* the finally block: an unsuccessful wake loses its own route, and the
\* caller's future is settled by the outcome and the row as it is now
Settle(j, success) ==
    /\ tap' = IF j.act = "wake" /\ ~success /\ tap[j.h] = j.n THEN [tap EXCEPT ![j.h] = 0] ELSE tap
    /\ calls' = Answered({j.c}, IF success /\ Valid(j.h) THEN "set" ELSE "raised")

TakeJob ==
    /\ up /\ http = NoHttp /\ queue # <<>>
    /\ LET j == Head(queue) IN
        /\ queue' = Tail(queue)
        /\ IF Worthwhile(j)
           THEN http' = [at |-> "created", job |-> j] /\ UNCHANGED <<tap, calls>>
           ELSE Settle(j, FALSE) /\ UNCHANGED http
    /\ UNCHANGED <<rows, failed, here, lock, auth, disk, remote, up, counters>>

\* the rows that are owed to the Worker of binding b
Owed(rs, b) == {h \in Handles : rs[h].st = "debt" /\ rs[h].bind = b}

\* the 60 s wait for a job times out
IdleSweep ==
    /\ up /\ http = NoHttp /\ queue = <<>>
    /\ Owed(rows, here) # {}
    /\ queue' = WithUnregisters(<<>>, Owed(rows, here), rows)
    /\ UNCHANGED <<rows, http, tap, failed, here, calls, lock, auth, disk, remote, up, counters>>

\* the task made for the operation runs for the first time; a row of another
\* binding, whose unregister revoke queued, is not posted
PostBegins ==
    /\ http.at = "created"
    /\ http' = [http EXCEPT !.at =
                   IF http.job.h \in Present /\ Bound(http.job.h) THEN "flying" ELSE "err"]
    /\ UNCHANGED <<rows, queue, tap, failed, here, calls, lock, auth, disk, remote, up, counters>>

\* external: the Worker applies the request
Arrives ==
    /\ http.at = "flying"
    /\ http' = [http EXCEPT !.at = "arrived"]
    /\ remote' = CASE http.job.act = "register" -> remote \cup {<<http.job.h, here>>}
                   [] http.job.act = "unregister" -> remote \ {<<http.job.h, here>>}
                   [] http.job.act = "wake" -> remote
    /\ UNCHANGED <<rows, queue, tap, failed, here, calls, lock, auth, disk, up, counters>>

\* a 2xx answer in time
PostSucceeds ==
    /\ http.at = "arrived"
    /\ http' = [http EXCEPT !.at = "ok"]
    /\ UNCHANGED <<rows, queue, tap, failed, here, calls, lock, auth, disk, remote, up, counters>>

\* timeout, refusal or a broken connection, before or after the Worker acted
PostFails ==
    /\ http.at \in {"created", "flying", "arrived"}
    /\ http' = [http EXCEPT !.at = "err"]
    /\ UNCHANGED <<rows, queue, tap, failed, here, calls, lock, auth, disk, remote, up, counters>>

Over == http.at \in {"ok", "err", "cancelled"}
Success == http.at = "ok"
Current == rows[http.job.h].st # "none" /\ rows[http.job.h].gen = http.job.gen

\* an unregister the Worker confirmed: the row goes
UnregisterOver ==
    /\ Over /\ http.job.act = "unregister"
    /\ IF Success /\ Current
       THEN \E ok \in BOOLEAN : rows' = [rows EXCEPT ![http.job.h] = NoRow] /\ Saves(rows', ok)
       ELSE UNCHANGED <<rows, disk, failed>>
    /\ http' = NoHttp
    /\ UNCHANGED <<queue, tap, here, calls, lock, auth, remote, up, counters>>

\* _retire_others: every other row of the device
Others(h) == RowsOf(rows[h].dev) \ {h}

\* a registration the Worker confirmed: the row is active, the others retire
\* and their callers are told; without the save the caller is not told
RegisterConfirmed ==
    LET j == http.job
        H == Others(j.h)
        rs == [InDebt(H) EXCEPT ![j.h].st = "active"]
    IN /\ Success /\ Current /\ rows[j.h].st = "pending" /\ ValidScope(j.h)
       /\ rows' = rs /\ tap' = RoutesWithout(H)
       /\ queue' = WithUnregisters(QueueWithout(H), H, rs)
       /\ \E ok \in BOOLEAN :
            /\ Saves(rs, ok)
            /\ calls' = [c \in Callers |->
                  IF calls[c].at # "future" THEN calls[c]
                  ELSE IF c \in Waiting(H) THEN [calls[c] EXCEPT !.at = "raised"]
                  ELSE IF c = j.c THEN [calls[c] EXCEPT !.at = IF ok THEN "set" ELSE "raised"]
                  ELSE calls[c]]

\* Faulty: a rejected registration leaves no debt
RegisterForgotten ==
    LET j == http.job
        rs == [rows EXCEPT ![j.h] = NoRow]
    IN /\ Current /\ rows[j.h].st = "pending" /\ ~(Success /\ ValidScope(j.h))
       /\ rows' = rs /\ tap' = RoutesWithout({j.h})
       /\ Saves(rs, TRUE)
       /\ calls' = Answered({j.c}, "raised")
       /\ UNCHANGED queue

\* it failed, or its device lost its authorization meanwhile: a pending row
\* is owed to the Worker
RegisterRejected ==
    LET j == http.job
        rs == InDebt({j.h})
    IN /\ Current /\ rows[j.h].st = "pending" /\ ~(Success /\ ValidScope(j.h))
       /\ rows' = rs /\ tap' = RoutesWithout({j.h})
       /\ \E ok \in BOOLEAN :
            /\ Saves(rs, ok)
            /\ queue' = IF ok THEN WithUnregisters(queue, {j.h}, rs) ELSE queue
       /\ calls' = Answered({j.c}, "raised")

\* the row was retired or revoked meanwhile, or it is an active one whose
\* preview registration was repeated
RegisterMoot ==
    /\ ~(Current /\ rows[http.job.h].st = "pending")
    /\ Settle(http.job, Success)
    /\ UNCHANGED <<rows, queue, disk, failed>>

RegisterOver ==
    /\ Over /\ http.job.act = "register"
    /\ RegisterConfirmed \/ RegisterRejected \/ RegisterMoot
    /\ http' = NoHttp
    /\ UNCHANGED <<here, lock, auth, remote, up, counters>>

WakeOver ==
    /\ Over /\ http.job.act = "wake"
    /\ Settle(http.job, Success)
    /\ http' = NoHttp
    /\ UNCHANGED <<rows, queue, failed, here, lock, auth, disk, remote, up, counters>>

-----------------------------------------------------------------------------
(* close, a crash, and the next start *)

Stop ==
    /\ up /\ crashes < MaxCrashes
    /\ crashes' = crashes + 1 /\ up' = FALSE
    /\ queue' = <<>> /\ http' = NoHttp /\ tap' = [h \in Handles |-> 0]
    /\ rows' = [h \in Handles |-> NoRow] /\ failed' = FALSE
    /\ calls' = [c \in Callers |-> IF calls[c].at = "idle" THEN calls[c]
                                    ELSE [calls[c] EXCEPT !.at = "done"]]
    /\ lock' = None
    /\ UNCHANGED <<here, auth, disk, remote, made, wakes, revokes, givenUp>>

\* __init__ under binding b: rows that may not be used any more are owed to
\* the Worker of their own binding; a pending preview row waits for the
\* device's repeated registration
Loaded(r, b) ==
    IF \/ r.st \in {"active", "pending"} /\ (r.dev \notin auth \/ r.bind # b)
       \/ r.st = "pending" /\ r.mode = "generic"
    THEN [r EXCEPT !.st = "debt", !.gen = 1]
    ELSE [r EXCEPT !.gen = 0]

\* __init__ and start; the relay or the installation may be another one now
Start ==
    \E b \in Bindings :
        LET rs == [h \in Handles |-> Loaded(disk[h], b)]
        IN /\ ~up
           /\ up' = TRUE /\ here' = b
           /\ rows' = rs
           /\ \/ (\A h \in Handles : rs[h].st = disk[h].st) /\ UNCHANGED <<disk, failed>>
              \/ (\E h \in Handles : rs[h].st # disk[h].st) /\ Saves(rs, TRUE)
           /\ queue' = WithUnregisters(<<>>, Owed(rs, b), rs)
           /\ UNCHANGED <<http, tap, calls, lock, auth, remote, counters>>

-----------------------------------------------------------------------------

WorkerStep ==
    TakeJob \/ PostBegins \/ PostFails \/ UnregisterOver \/ RegisterOver \/ WakeOver

Next ==
    \/ \E c \in Callers :
        \/ \E d \in Devices, mode \in Modes : Register(c, d, mode)
        \/ RegisterAgain(c) \/ RegisterFresh(c) \/ Returns(c) \/ CallCancelled(c)
    \/ \E d \in Devices : Revoke(d)
    \/ \E h \in Handles : Wake(h) \/ TapOrExpiry(h)
    \/ WorkerStep \/ IdleSweep \/ Arrives \/ PostSucceeds
    \/ Stop \/ Start

Spec == Init /\ [][Next]_vars

\* the worker task runs, the process is started again, and the Worker answers
\* a request that is made again and again
Fairness ==
    /\ WF_vars(WorkerStep) /\ WF_vars(IdleSweep) /\ WF_vars(Start)
    /\ SF_vars(PostBegins) /\ SF_vars(Arrives) /\ SF_vars(PostSucceeds)

FairSpec == Spec /\ Fairness

-----------------------------------------------------------------------------

\* A table that has handle h as one of binding b
Known(rs, h, b) == rs[h].st # "none" /\ rs[h].bind = b

\* Every handle the Worker has is still known here and with the relay and the
\* installation it is registered under, in memory while the process runs and
\* in push.json whatever happens, so that it can be unregistered there: across
\* lost answers, retirement, revocation, failed saves, crashes and a restart
\* under another binding (_run, _post, revoke, dispatch, __init__).
RemoteIsKnown ==
    \A h \in Handles, b \in Bindings : <<h, b>> \in remote =>
        Known(disk, h, b) /\ (up => Known(rows, h, b))

\* A device is woken through one handle: two registrations that overtake each
\* other never leave two active rows (_retire_others).
OneActiveRow ==
    \A d \in Devices : Cardinality({h \in RowsOf(d) : rows[h].st = "active"}) <= 1

\* A tap on a notification opens a session only through a live row: no route
\* outlives the retirement, revocation or removal of its handle (_make_debt).
TapsAreLive == \A h \in Handles : tap[h] # 0 => rows[h].st = "active"

\* The rows say what the Worker has: no handle of it is forgotten, a device
\* has at most one active row, and only an active row has a route.
RowsAreTrue == TypeOK /\ RemoteIsKnown /\ OneActiveRow /\ TapsAreLive

\* A wake or a registration is only started for a device that is authorized
\* at that moment and for the row as it was queued, although the job waited
\* in the queue and its task starts later (revoke, _retire_others, _run); only
\* a row that was given up meanwhile may still be registered, and is owed.
StartsAreCurrent ==
    [][http.at = "created" /\ http'.at = "flying" /\ http.job.act # "unregister" =>
        LET r == rows[http.job.h] IN
        /\ r.dev \in auth
        /\ \/ r.st \in {"active", "pending"} /\ r.gen = http.job.gen
           \/ /\ http.job.act = "register" /\ http.job.h \in givenUp
              /\ r.st = "debt" /\ r.gen = http.job.gen + 1]_vars

\* A row that is owed to the Worker of the present relay and installation is
\* unregistered in the end, unless the process ends first: neither a full queue
\* nor a lost answer nor a newer revocation forgets it (_run). What is owed
\* elsewhere stays, blocked, until a process is bound there again.
DebtIsPaid ==
    \A h \in Handles :
        (up /\ rows[h].st = "debt" /\ Bound(h)) ~> (~up \/ rows[h].st = "none")
=============================================================================
