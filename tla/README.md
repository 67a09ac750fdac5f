# Verification of the Mercury relay plugin

The plugin runs beside a Hermes agent on the owner's machine. It lets a paired phone drive Hermes
sessions through a hosted router that only sees ciphertext. This directory holds TLA+ models of the
plugin's core, the TLC configurations that check them, and TLAPS proofs of their main properties.
Paths below are relative to `src/src/mercury_relay_plugin/` unless they start with `docs/`.

## 1. The system

### Components, their state and operations

| component | state | operations | what makes it correct |
|---|---|---|---|
| Session lease (`session_lease.py`, `SessionLease`, `LeaseAttachment`) | ring of retained events, `last_seq`, `trimmed_through`, the one attachment, pump/expiry/cleanup tasks, submission and mutation ledgers | pump and retain, attach (fresh, resume, replace), detach, submit, release | the phone applies every event or is told of a gap; one consumer; nothing after the fence; the controller is closed last; an abandoned lease ends |
| Controller transport (`controller_transport.py`) | sender task, closed flag, reassembler | pump_outbound, feed_ciphertext, close | a sender suspended in `send` publishes nothing once its attachment is invalid |
| Submission ledger (`session_lease.py`, `submit_text`) | records of outcome and waiters, in insertion order | dispatch, repeat, record outcome, evict | a repeat gets the original outcome and does not run twice |
| Authorization repository (`authorization.py`) | device records, revoked-key evidence, the pairing offer | create, cancel, consume offer; approve, deny, revoke, expire | revoked keys stay banned; a capability pairs once; nothing stale is approved; the saved state always loads |
| Admission (`admission.py`) | admission lock, recovery store | complete_pairing, open_controller, revoke_device, close | no lease outlives its authorization; no deadlock of lock and cleanup |
| Lease manager (`SessionLeaseManager`) | registry of leases, closed flag | get, register, release_lease, release_device, close | one lease for each device and channel, bounded, none after close |
| Controller runtime (`runtime.py`) and bridge (`hermes_compat.py`) | controllers, lock, handler task | open_controller, close_controller, close | no orphan controller, never more than the limit |
| Virtual WebSocket (`virtual_ws.py`), method policy (`method_policy.py`) | two bounded queues, closed flag | feed, receive, send, next, close | bounded, closed on overflow |
| Connector service (`connector.py`) | accept loop, session tasks | accept, session loop (handshake, pairing or admission, pumps), close | a pairing without acknowledgement is rolled back; no device is left connected to nobody; nothing runs after close |
| Hosted relay client (`relay_client.py`) | host socket, runner, device connections, accept queue, pacing lock | connect loop, control and data frames, send, close | nothing reaches a replaced socket or another device; inbound records have no gap |
| Framing (`framing.py`), secure channel (`secure_channel.py`) | reassembly state, Noise state | encode, push, handshake, encrypt, decrypt | both ends agree on the handshake; a message is delivered whole and in order or not at all; no nonce is used twice |
| Lease recovery (`lease_recovery.py`) | task projection, durable rows, revision | observe, put, snapshot, revoke, load | ended tasks stay ended or the snapshot says it is truncated; an event id names one report |
| Push bridge (`push.py`) | rows, generations, job queue, worker | register, resolve, wake, revoke, run, save, load | no handle the Worker has is forgotten; no wake for a revoked device; debts are paid |
| Local requests (`_start_read`, `_start_mutation`, `folders.py`, `image_reads.py`, `session_reads.py`) | tasks, threads, mutation ledger | folder list and create, image, transcript pages | threads stay inside the root; one run for an id; nothing for a revoked device; pages leave out nothing |
| State file (`state_store.py`, `identity.py`, `secure_fs.py`) | directory, lock file, `state.json` | load or create, transaction, atomic write | readable after any crash; what was acknowledged stays; one identity, one issuer |
| Management (`management.py`, `pairing_qr.py`, `routing_auth.py`) | none of its own | create offer with token and QR, approve, deny, revoke | what a call answered holds although its transactions interleave with others |
| Journal (`connection_journal.py`), metrics (`operational_metrics.py`) | bounded list, queue, writer thread, files; counters | record, write, rotate, load, close; count, save | order kept, losses visible, counts true |
| Update checker (`update_check.py`) | latest release, cache, locks | check, timer, apply | the release shown never goes back |
| Life of the process (`plugin_api.py:_lifespan`, `shutdown.py`) | what was started | start, ordered clean-up | everything is closed, in order, whatever fails |
| Push previews, configuration, strict JSON | none | parse, format, encrypt | outside the models (section 8) |

### Interactions

The connector accepts a connection from the relay client and runs the Noise handshake. A pairing
connection consumes an offer; any other opens or resumes a lease through admission, which asks the
repository, the lease manager and the runtime. The connector then runs two tasks: one feeds
decrypted requests to the lease (`submit_text`), one pumps the attachment's frames to the phone. The
lease's own pump takes frames from the virtual WebSocket into the ring and to the attachment; its
projection puts what it sees of child tasks into the recovery store, and the push bridge wakes devices
that are away. Requests the lease answers itself run as tasks of it whose threads work on the host's
files. Several processes (gateway, dashboards, command line) share the state file. Leases end by TTL, retention cap, controller close, supersession, revocation or shutdown.

### What is hard

Most of it runs on one asyncio loop, so races sit at awaits: an open suspended in
the bridge's start while the device is revoked, a sender suspended in `send` when its attachment is
replaced, a release started by the very task that the cleanup joins. The phone disappears at any
point, comes back with an old cursor, relaunches with none, and repeats requests. Rings, queues,
ledgers and history all have limits at which something is dropped. The wall clock goes back. Threads
(file requests, journal writer, update check) go on when their task is cancelled, other processes and
the owner change files under them, and a crash or power loss hits a write at any step. The relay
drops, repeats and reorders, its socket breaks and its connection ids return. The full list, with lines and the properties aimed at each, is `hazards` in `PROJECT.json`.

## 2. Plan

Done, in this order: `SessionLease`, its type and delivery proofs; `SubmissionLedger`;
`Authorization` and its proofs; `Admission`; `RelayClient` and `ConnectorService`; `PushBridge`;
`NoiseXK`, `Framing` and `SecureChannel`; `LeaseRecovery`; `StateFile` with the abstract
`AtomicState`; `HostFiles`, `SessionReads` and `LocalRequests`; `Journal`, `UpdateChecker`, `Metrics`
and `Lifespan`; `Management` and its proofs; the proofs about `SubmissionLedger`, `Admission`,
`ConnectorService` with `RelayClient`, `StateFile` with its refinement of `AtomicState`,
`PushBridge`, `LocalRequests`, `Lifespan`, `LeaseRecovery` and `SecureChannel`.

```
SessionLease   SubmissionLedger   Admission   PushBridge   LeaseRecovery
Management -> Authorization       ConnectorService -> RelayClient
SecureChannel -> NoiseXK, Framing LocalRequests -> HostFiles, SessionReads
Lifespan -> Journal, Metrics, UpdateChecker        StateFile => AtomicState (implements)
```

Every safety property of a run is proved; what is left to TLC is at the end of section 6.

## 3. The modules

`SessionLease`. One lease and every attachment made on it.
`lastSeq`, `ring`, `trimmedThrough`, `current` are the fields of `SessionLease`; `out[a]` is what
attachment `a` has queued (preamble, replay, live frames, in `next_text` order), `backlog[a]` how much
of that is preamble and replay, `taken[a]` the frame its sender holds inside `send`. `pump`, `expiry`,
`cleanup` and `sender[a]` are the asyncio tasks. `Retain`, `Attach`, `TransportClose`,
`ExternalRelease` and so on are the methods; `Retain` includes the trim, the delivery to the current
attachment and the detach that backpressure causes in the middle of it. `link`, `cursor`, `applied`,
`reconciled` are the phone. Sizes are kept (limits are in bytes), contents are not. Ages and the TTL
are nondeterministic: an event may be too old, and the TTL over, whenever the code looks.

`SubmissionLedger`. `ledger` is `_submissions` in insertion order. `inbound`, `running`, `outbound` are
the virtual WebSocket's queues and Hermes. `Dispatch`, `Exhausted`, `FeedFails`, `PolicyRejected` and
`Repeat` are the branches of `submit_text`; a branch that raises closes the transport, so it also
detaches. `HermesReceives` and `HermesAnswers` are external: Hermes answers each request once, in any
order.

`Authorization`. Every operation of the repository is one transaction under the file lock and an
atomic save, hence one action; an operation that raises changes nothing (except that `approve` has
saved the expiry first). `devices`, `evidence`, `offer` are the persisted state; `banned` and `spent`
are history variables the properties need. `Savable` is the part of `_validate_auth_state` that the
operations do not satisfy by construction.

`Admission`. `open_controller` is cut at its awaits: waiting for the admission lock, for the cleanup of
a superseded lease, for the runtime's lock, for the bridge, for a cleanup after a failed check.
`lock` and `bridgeLock` are the two asyncio locks, `lease[c]` the lease connection `c` made,
`controllers` the runtime's table, `scheduled` the gathered release tasks that have not run yet.
`Faults` says whether the state file may be unavailable to the second check.

`Management` (extends `Authorization`). Each surface is a process; `call[s]` is where its
`create_pairing_offer` is between two transactions, `qr` the QR handed out last. `refused` are the offers
whose call answered `qr_render_failed`, `kept` those of them whose `cancel_offer` raised, which the call
suppresses (`CancelFails`, `management.py:118-120`); both are history. The other routes are single transactions of
`Authorization`. A routing token is its `iat` and `exp` (`Mint`, `Accepts`). `back` marks what the
clock's correction takes the ground from.

`RelayClient`, `ConnectorService`. `socket`, `registry`, `accepted`, `lock`, `gen` are fields of
`CloudflareRelayConnector`, `conn[c]` one `HostedDeviceConnection`, `sending[c]` a call of
`_send_binary` cut at its two awaits (the pacing lock with its sleep, and the socket's send).
`phase[c]` is where the session task of a connection is; handshake, pairing, admission, pumps and
closing each end where they await. `pend[c]` follows the record of a pairing; a failed
acknowledgement ends in a denial or, where that raises too, in `undenied` (`RolledBack`). The router and the devices (`link`, `wire`, `dev`) are external. A
timeout may fire in every phase that has one.

`SecureChannel` (over `NoiseXK` and `Framing`). Terms stand for bytes: a ciphertext opens only under
its key, nonce and associated data. `NoiseXK` has the cipher and symmetric states and the three
handshake messages of the vendored runtime, one operator for each token, `Framing` the fragmenting and the reassembler with its
rejections. `wire` holds everything ever sent and may be read by anyone, again or never.

`LeaseRecovery`. `store` and `disk` are `RecoveryStore` and its file, `lease[s]` a lease with its
`RecoveryProjection`; a row is scope, child, terminal or not, revision. The store's list grows at
its end with a new revision each time, so it is modelled as the set of its rows. `told` and `ended` are history.

`PushBridge`. `rows`, `disk`, `queue`, `http`, `calls` are the bridge's fields and coroutines, `remote`
what the Worker has, `auth` the authorized devices, `tap` the wake routes, `here` the relay origin and
installation of the process. Every row has the binding it was made under (`bind`); `Bound` is `_bound`,
and guards what the code guards with it: validity, posting, the sweep, and what a restart makes a debt
(`Loaded`). Each start may be under another binding. The worker's iteration is
cut at its HTTP call, a registration at its lock and its future. `givenUp` is history: the pending rows
that a repeated registration turned into debts.

`StateFile`. `proc[p]` walks a call of one process through directory, lock file, `flock`, read, write,
sync, replace and directory sync; `file` is what processes see, `disk` what a power loss leaves.
`AtomicState` is the promise: items added one at a time, an acknowledged one for ever, at most one
identity and one issuer. The mapping (`Promised`) takes the state file's items for the abstract ones.

`LocalRequests` (over `HostFiles` and `SessionReads`). `task[t]` is a lease's read or mutation task,
`thread[t]` the thread it awaits, which outlives its cancellation, `ledger` the mutation records.
`HostFiles` has a root with one folder that the owner may replace by a link, and walks by path or by
open directory as the code does; `SessionReads` has stored rows, hidden or shown.

`Lifespan` (over `Journal`, `UpdateChecker`, `Metrics`). `part[p]` is what became of each part;
`step` runs through the clean-up steps in order, each of which may fail, while cancellations are kept
for the end. `Journal` has the loop's `record` and `close` and the writer thread, cut between taking
a line, looking at the size, rotating and appending. Its history follows every event a process took for
its files: of this process (`life`), of the earlier ones (`former`), and those that went with the oldest
file or the end of a process (`gone`); `past` is what the earlier processes had counted. `UpdateChecker`
has the callers of `check` and `apply` with the two locks, `Metrics` the counters in memory and on disk,
with the events that no successful write has covered yet (`unsaved`) and those lost that way when a
process ended (`forgiven`).

Definitions whose comment starts with "Faulty" are deliberate mistakes, one for each checked
property; replacing the definition that follows by it makes TLC report that property. They are part
of no specification.

## 4. The runs

| run | checks | instance | distinct states |
|---|---|---|---|
| lease_delivery | NoSilentLoss, ContiguousPipeline, SingleConsumer | 3 events of 2 sizes, 1 relay answer, ring and queue of 2 events or 4 bytes, 2 attachments | 1.1M |
| lease_release | ClosedAfterJoin, NothingAfterFence, ReleaseSettles, AbsentEndsOrReturns, ListeningPhoneCatchesUp | 1 event, 2 attachments, fairness | 0.13M |
| submissions | RepliesAreOriginal, InFlightIsTracked, OnceWithinWindow | 3 submissions, two of which the policy rejects, 3 request ids, ledger of 2, 1 waiter, queue of 1 | 1.2M |
| revocation | EpochMeansRevoked, BannedNeverPairs, SpentNeverPairs, StaleNeverApproved, CreateIsAsAnswered | 2 dashboards, 2 keys, 2 records, 1 digest, 4 offers, clock to 3 and back by 1 | 1.1M |
| admission | CutLeasesAreReleased, ControllersAreOwned, AdmissionSettles | 3 connections of a device, 2 channels, 2 leases, faults, fairness | 0.13M |
| connector | InboundHasNoGap, OnlyOwnFrames, UnacknowledgedIsDenied, EndsAreSeen | 2 connections, 2 ids, 2 sockets, queues of 1 | 3.6M |
| push | RowsAreTrue, StartsAreCurrent, DebtIsPaid | 1 device, 3 registrations, 2 handles, 2 bindings, queue of 1, a wake, a revocation, a crash, failing saves, fairness | 0.4M |
| recovery | RecoveryIsFaithful | 2 scopes, 2 tasks, 2 rows, projection of 1, 3 revisions, a restart | 0.7M |
| channel | HandshakeAgrees, DeliveredIsPrefix, NoncesAreUnique | 2 phones, 2 hosts, 2 messages of up to 2 records, 3 nonces | 75k |
| storage | StateSurvives, ImplementsAtomicState | 2 processes, 4 transactions, 2 crashes | 1.4M |
| local_requests | StaysInside, PagesAreComplete, LedgerIsFaithful, RevokedRunsYieldNothing | 2 tasks, 3 ids, ledger of 2, 3 rows in pages of 2, 2 attachments | 0.7M |
| lifespan | DiagnosticsAreHonest, TeardownIsComplete, LatestNeverRegresses, ShutdownCompletes | 4 events, queue of 1, 2 files of 2 bytes, 2 callers, 2 releases, 2 counted events, 2 processes, fairness | 0.4M |

The type invariant of a module is a conjunct of a property of its run (`ControllersAreOwned`,
`EndsAreSeen`, `RowsAreTrue`, `RecoveryIsFaithful`, `StateSurvives`, `LedgerIsFaithful`,
`InFlightIsTracked`); those of `SessionLease` and `Authorization` are theorems, and those of the modules
section 6 proves something about are parts of their inductive invariants.

Why the bounds are enough. Two attachments give a predecessor and a successor, the only pair the
lease's code distinguishes; a ring shorter than the events emitted makes trimming, gaps and
backpressure happen. A ledger of two with three ids makes eviction, exhaustion and repeats of evicted
ids happen, in `submissions` and in `local_requests`. Two record slots and one digest with four offers
reach compaction, full evidence and pruning of denied history; the clock passes the age limit and
every TTL. Three connections to two leases reach the controller limit, supersession and a refused
registration; which connection takes which part is fixed (`Scenario`), since they are alike. Two
sockets and two ids give every id a second life, and queues of one overflow. Two registrations of one
device overtake each other, a third finds the queue full while the first one's request is about to
start, and a queue of one is full when a debt falls due; the one restart is under the same binding or
another. A return to an earlier binding takes two restarts, which the run does not have: `RowsAreTrue`
and `StartsAreCurrent` are proved for any number of them. It takes four events of two
bytes to overwrite the oldest of two rotated files. A store of two rows and
a projection of one evict. Two phones and two hosts cross their records, and three nonces run out.
Two processes race for directory, lock and file; a crash may be followed by another during the
recovery. The safety of the lease, the ledger, the repository, the dashboards, admission, the connector,
the push bridge, the state file, the local requests, the lifespan and the recovery store is also proved without bounds (section 6), for those runs' properties that are not
liveness.

Constraints name what a run leaves to another. `lease_delivery` stops at the release (`Retained`),
which is `lease_release`'s subject, and follows relay answers among the first events only
(`RepliesEarly`). In `revocation` calls of `create_pairing_offer` overlap the rest while there are two
offers and one device (`Interleaved`, `LaterCallsAreLost`). `recovery` has one lease at a time, since
leases meet only in the store. `channel` exchanges messages when one phone is about, and only
handshakes with two (`FewMessages`). `local_requests` either pages or runs folder requests
(`OneThingAtATime`), which meet only in the limit on reads. In `push` callers, who are alike, call in
their order (`CallsInOrder`), and a third one calls only without a wake, revocation or restart
(`ThirdCallAlone`); the bindings are alike, so the first process has a fixed one (`FirstBinding`).
`lifespan` is about the journal, the metrics, the updates or the choice of parts at a time
(`OneAtATime`), with at most one fault or drop of the journal over its processes (`FewFaults`), and shuts
down with lines to write in its first process only. Deadlock is not an error anywhere: released leases, ended connections and exhausted
bounds stop for good. Symmetry is used only in runs without liveness, for sets of identities.

### What the modelling showed

The code does the following. The models have these steps; the properties say what holds with them.

- **Lease.** The release scheduled when the ring overflows for an absent phone (`session_lease.py:457`)
  is not called off when the phone reattaches before it runs; a live lease is lost. A submission that
  the method policy rejects (626) stays in the ledger: only `VirtualWebSocketError` takes the record
  back, so its repeats wait for ever and it can not be evicted. An answered submission that newer ones
  evict is dispatched again when repeated (`OnceWithinWindow` states what does hold). Waiters of dead
  attachments occupy a record's eight slots. A recovery v1 open with a cursor replaces a live
  attachment, which `docs/LEASE_RECOVERY.md` lines 7-9 rule out.
- **Repository.** After the host's clock was set back below a record's creation time, the record can be
  neither revoked, denied nor approved (`authorization.py:304`). A key that paired twice has two
  pending records (644); revoking one leaves the other to be approved.
- **Dashboards.** When the QR cannot be rendered and the cancellation of its offer raises, the error is
  suppressed and the answer is still `qr_render_failed` (`management.py:118-120`): the offer stays active
  and whoever has its capability can pair. `CreateIsAsAnswered` excepts those offers (`kept`).
- **Admission.** If the second authorization check of an open raises (`admission.py:395`), the lease
  stays registered and attached to a connection that has ended; a revocation that passed before does
  not cut it and its TTL does not run (`Stranded`).
- **Connector.** An open with the accept queue full raises "backpressure" and drops the whole host
  socket with every device on it, where the comment at `relay_client.py:413` speaks of refusing the
  device. A shutdown that cancels a session during the acknowledgement of its pairing passes the
  roll-back of `connector.py:401` by, and a `deny` that raises (state busy, clock set back) is suppressed
  (407-408). In both cases the record stays pending, in its slot, until it is stale;
  `UnacknowledgedIsDenied` excepts the two.
- **Push.** A registration that waited for the registration lock does not look at the authorization
  again; the worker does before it acts. A repeated preview registration that finds the queue full makes
  a pending row a debt (`push.py:549-552`) without cancelling the request that may be about to start for
  it: the Worker then gets a handle that is already owed, and the idle sweep unregisters it. What is owed
  under another relay origin or installation is neither swept nor posted (`push.py:310`, asserted by
  `tests/test_push_binding.py`), so it stays registered at that Worker until a process is bound there again.
  `revoke` queues an unregister for such a row all the same, and `_post` refuses it. While the relay gives
  the bridge no credentials, debts wait as well.
- **State file.** Between the replace and the sync of the directory other processes see a state that
  a power loss takes back; a failed directory sync is reported as a failure although the file was
  replaced. A crash leaves its temporary file for good.
- **Local requests.** A repeat under an id with a kept outcome is answered without asking whether the
  device is still authorized. The thread of a cancelled task runs on to its end.
- **Journal.** `_rotate` keeps a file `.max_files` that `_persisted_paths` never reads. Three losses are
  not counted, and `LossIsVisible` names them: a short write leaves a line without its end, which spoils
  the next one too; a single full file (`max_files` of 1) that cannot be deleted takes no line; without
  storage no line is written. After a load that raised midway the snapshot's `persistence_available` (738)
  still says True, although nothing is written. What the queue and the line under way held is lost without a
  count when the process ends, at most `writer_queue_limit` and one. When the thread cannot be started,
  lines stay queued and `close` still answers True.
- **Metrics.** A change whose save failed stays in memory until a later save, or is lost with the process;
  nobody is told. Without metrics (the file could not be loaded or written at the start) events are not
  counted anywhere.
- **Shutdown.** The journal's close is bounded, but four closes before it may write a file with `fsync` on
  the event loop itself: the metrics and each lease release (`admission.py:580`, the gauge of active
  leases), the push bridge (a registration given up is saved), the connector (an unanswered pairing is
  denied). A disk that hangs there hangs the shutdown, and the loop.
- **Updates.** A cancelled `apply` frees its lock while the updater still runs.
- **Routing.** `machine_id_check_char` also misses the transposition of an adjacent `A` and `7`.

## 5. Fairness

`SessionLease`: weak fairness of the cleanup task, of the expiry timer, of each sender and of the
`finally` block that closes a transport whose sender has ended. asyncio runs every ready task, the
timer is a sleep, and a send ends because the connector bounds it with a timeout. Nothing is assumed
of the phone, the network or Hermes, so `ListeningPhoneCatchesUp` excuses a sender that was cancelled
or ended. `Admission`: weak fairness of each connection's open, each gathered release and each step
of a cleanup. Weak fairness of an open that waits for the lock is enough because each connection
opens once, so the lock is not taken infinitely often. A bridge's start and close end because
`HermesSessionBridge` bounds them (`close_timeout`, then cancellation).

`PushBridge`: weak fairness of the worker's steps between suspensions, of its idle sweep and of the
start of the task, and strong fairness of a request being sent, arriving and being answered with
success. The last is an assumption about the network, the Worker and the relay's credentials, not about
this code: a debt that is tried again and again is paid only if some try can get through. `DebtIsPaid`
speaks of debts under the present binding; no fairness makes a process return to another one.

`Lifespan`: weak fairness of the steps that the event loop takes by itself (`OwnStep`): it settles the
cancelled update task, waits for the journal's writer for a bounded time, closes the runtime, passes over
absent parts and returns. Nothing is assumed of the closes of metrics, leases, push bridge and connector, which
may write files on the loop, nor of the writer thread. So `ShutdownCompletes` says that a shutdown ends or hangs in
one of those four closes (`Hangs`), and that the journal never is what holds it up. The other
modules have safety properties only. The constraints of `admission`, `push` and `lifespan` bound who takes
part, never a step that fairness speaks of.

## 6. Proofs

TLAPS checks every proof to the last leaf, for every value of the constants that satisfies the
modules' `ASSUME`s: positive limits, `None` different from what it stands for the absence of, and
finite sets of connections where they are counted. A cipher has at least the two nonces that a handshake
message takes (`MaxNonce` is 2^64 - 1 in the code). Nothing else is assumed of sizes or counts; the bounds
of the runs, such as `MaxMessages`, may be any number.

**The lease** (`SessionLeaseProofs`). `TypeCorrect` carries one extra fact, that
a sender that holds a frame still has it queued (`HeldFrameQueued`), without which `Publish` has no
type. On top of it `Ownership` is inductive by itself: an attachment is live exactly while the lease
points to it, only the live one has a running sender, and a fenced lease has none; that gives
`SingleConsumerHolds` and `NothingAfterFenceHolds`. Delivery needs in addition that the ring is the
contiguous suffix after `trimmedThrough` (so that a replay starts right after the cursor or the gap is
reported) and that a queue holds its preamble only at its head and no event of the future
(`QueueShape`). With those, `ContiguousPipeline` is preserved by retain (append at the end), attach
(preamble and replay), take and publish (drop the head, move the cursor), and `NoSilentLoss` follows
from publishing the head of a contiguous queue. The conjunction is `DeliveryInv`; the theorems are
`NoSilentLossHolds` and `ContiguousPipelineHolds`. `ClosedAfterJoinHolds` rests on `Ownership` alone:
once the cleanup has joined the tasks the lease has no owner, and only an owner's steps start a task.

**The submission ledger** (`ReplayProofs`, first part). That no work of Hermes is forgotten needs to know
that every frame in flight has its record, still unanswered (`FlightInv`); for an answer to leave that
true of the others, a submission may be in flight only once (`OneFrame`), and a record may be evicted
only when answered, which the code's search for a victim guarantees. `NothingStranded` is the other direction: a record without an
outcome has its frame in flight, or the virtual WebSocket is closed, or the policy rejected it; a failed
feed satisfies it only because it takes its record back. `RecordsInv` (one record for each
submission, each known outcome its own) then makes the answers original. `WindowInv` counts: while
the phone has made no more submissions than are tracked the ledger holds every one that was dispatched,
so a repeat finds its record and nothing is evicted.

**Lease recovery** (`ReplayProofs`, second part). `ReportsInv` says that no revision names two rows among
what was reported, what is in memory and what is in the file, and that the file is at most one revision ahead,
by a write that failed after it replaced the file; the next write takes that revision again, but replaces
the file, and a restart before it takes the row and the revision together. `EndsInv` says that the end of every
stored task is in memory and in the file alike, or the one that lacks it says that it is truncated; it has
to hold of the file's rows that nobody was told of as well, since a restart brings them back. `PruneIs`
and `PutIs` say what one operation of the store does; `AfterAll` takes them from task to task where a binding
proven late stores all of them at once (a least number of tasks for which it fails cannot be, which stands
in for the induction). `KeptIsReported` goes from the store to the snapshot.

**The repository** (`PluginApiProofs`, first part). The invariant `AuthInv` is stated over an arbitrary device
list and evidence, because a transaction passes through two intermediate states: after the expiry and
after a slot was made. Lemmas show that `Expired` and `Slotted` preserve `DevicesOK` (ids unique and
given out, active records have epoch 0), `Remembers` (every banned key is in a revoked record or in
the evidence) and the limits; each action then composes them. From it follow `StateStaysValid`,
`BannedIsRememberedHolds`, `EpochMeansRevokedHolds`, and the action properties
`BannedNeverPairsHolds`, `SpentNeverPairsHolds` (an active offer is never spent, and offer numbers
are not reused) and `StaleNeverApprovedHolds` (device ids are unique, so the approved record is the one
that the expiry left pending).

**The dashboards** (`PluginApiProofs`, second part). `ManagementRefinesAuthorization` shows that a step of
`Management` is one transaction of `Authorization` or none, so the theorems above hold of any number
of dashboards; it needs `AuthInv` to know that a cancelled offer is one that was made. For
`CreateIsAsAnsweredHolds`, `ManageInv` adds that the token of a call or of the last QR expires no
earlier than its offer unless the clock was set back since (`Fits`; before the token is minted,
`CallFits` has the bound it will need), and that refused offers are not active, those excepted whose
cancellation raised (`RefusedIsOver`).
`OfferEffect` sums up what a transaction may do to the offer and the clock, so that the invariant is
preserved by one argument for all of them.

**Admission** (`AdmissionProofs`). `AdmissionInv` says who may be between which awaits: the admission lock
is held by exactly the open that is past it, the runtime's lock by the one that starts its bridge, and
the runtime has room for that controller (`LocksInv`). Under the lock the channel is free, or what holds
it is being awaited (`ChannelFree`); a lease the registry refused is awaited by the open that made it
(`Registry`). With those, `ControllersAreOwnedHolds`. `CutInv` says that what revocation and shutdown
found is scheduled for release; an open that was suspended meanwhile is caught by its second check,
hence `CutLeasesAreReleasedHolds`, whose exception is the check that raises (`Stranded`).

**The channel** (`AdmissionProofs`, second part, over `NoiseXK` and `SecureChannel`). A derived key is a term that names
the Diffie-Hellman pairs mixed into it, and a pair and one of its keys tell the other key; so a key tells
whose ephemerals made it, and two ends share one only where each took part with its own (`Owners`). `ChannelInv` says:
every ciphertext with a key was made by an end that owns key and nonce, at a point of its handshake it has passed
(`AllMade`); an open end has the handshake state that the messages so far have led to, and encrypts under a
transport key whose nonces so far are below its counter (`Phase`, `SendsUnder`); the last thing mixed
into a binding is of the end that has it (`Bindings`). With those the two properties are inductive: a new
ciphertext has an owner nobody else is and a nonce that owner has not used, hence `NoncesAreUniqueHolds`; the last
message a host accepts was made by a phone whose binding ends in it, and that phone had no other host yet, hence
`HandshakeAgreesHolds`. The lemmas before say what every operation of the runtime computes on states written
out field by field; a message of any number of records takes consecutive nonces (`EncryptedIs`).

Delivery (the third part) needs what the reassembler holds after each record. `PushesNext` says that it holds the
beginning of a message and, after the last record, gives the whole; a record that does not fit is refused, or taken
as the first of a message that never ends (`PushOdd`), after which everything is refused (`StuckRejects`).
`DeliveryInv` says of each end that the records under its transport key are, by their nonces, the pieces of the
messages it handed over, in order, with records that do not fit in between (`Chain`, `EndsAt`); that both its keys
come from the handshake its binding closes with (`KeyedAs`, `Tied`), so that only its partner can have encrypted
what it decrypts (`WhoSent`); and that the last record it took says what it holds and has delivered (`Received`).
It takes nonces one after the other, so the next record is the next of the chain, hence
`DeliveredIsPrefixHolds`. An end that closes keeps what it delivered (`History`), and what its partner sends
later continues what was sent (`Continued`).

**The connector** (`ConnectorProofs`, over `RelayClient` and `ConnectorService` together). The router gives
ids again, so everything rests on `IdsInv`: one connection at most uses an id, as an open device, in the
client's registry or on the wire. It needs that on the wire a connection's open comes first and its
close last (`WireInv`), and that the client knows nothing of a connection before its open (`UnreadInv`).
For `InboundHasNoGapHolds`, `DataInv` says that what the client has not read of an open connection is
still on the wire, in order, and `QueueInv` that the queue continues what the session got. The pacing
lock and the socket a suspended send has in hand (`SendInv`) give `OnlyOwnFramesHolds` with
`DeliveryInv`. `PairingInv` ties a pending record to the session that is about to acknowledge it,
`ServedInv` an open device to a session, the accept queue or its open on the wire, `AcceptInv` a
connection to one session, and `ShutdownInv` a closed service to silence: hence
`UnacknowledgedIsDeniedHolds` and `EndsAreSeenHolds`.

**The push bridge** (`PushBridgeProofs`). `PushInv` says that a process that is down runs nothing
(`DownInv`); that in both tables, memory and `push.json`, rows are of handles that were made and a device
has one active row, and that a row in memory is in the file unless a save failed (`TablesInv`); that a
handle being registered is in both tables and one the Worker has unregistered is gone there
(`RequestInv`). A row only goes once its unregister has succeeded, so `RemoteIsKnown` needs just that, and
`RowsAreTrueHolds` follows. A handle is known under its binding or not at all (`Known`), whatever binding
the process has: rows keep theirs over a restart, and only a row of the present one is posted. A route
needs an active row (`TapsAreLive`) because every step that takes a row out of that status takes its route.
`StartInv` says that a request about to start fits its row: whoever changes the row
cancels it, except the registration that gives a pending row up, hence the exception of
`StartsAreCurrentHolds`. `OrderedType` (a set of numbers, put in order, has just its members) gives the
queues their types.

**The state file** (`StateFileProofs`). `StorageInv`: exactly the holder is inside the lock (`LockInv`), so
that what it holds stays the file's items and the one it adds (`InHand`); entries are whole and synced,
what a power loss leaves is part of the file and has everything acknowledged (`EntriesInv`). That
gives `StateFileSurvives`. `StateFileImplementsAtomicState` shows step by step that a replace is an
abstract `Update`, the end of a call an `Acknowledge`, a power loss a `Lose` of what was not acknowledged, and
everything else a stutter; it needs that no two transactions make the same change (`ChangesDiffer`) and
that an identity or issuer is only added when the file has none.

**Local requests** (`LocalRequestsProofs`). `ThreadInv` says what a thread has in hand between two
calls of the file system: a name below the root, which every call opens without following links, and
once it has opened the parent, that folder itself; `StaysInsideHolds` follows. `TaskInv` ties
a thread to the kind of its task, since a thread outlives the task that awaited it. `PagesInv` says where
the next page begins: every visible row behind the offset was seen, counted from the end if the order
is newest first, and a page that was read but not yet taken goes on from there (`PageOK`); rows written
meanwhile come after the start. For `LedgerIsFaithfulHolds`, `LedgerInv` matches records without an outcome
and live runs one to one, by id and payload, and `AskedInv` finds for everybody who still listens the record
that waits for them: hence an eviction, which takes only records with an outcome, forgets nobody.
`RevokedRunsYieldNothingHolds` follows from `TaskInv` and `LedgerInv`.

**The lifespan** (`PluginApiProofs`, third part). `OrderInv` orders everything the journal holds: the files from
the oldest to the newest, then the line under way, then the queue; so what a restart loads is ascending
(`LoadedIs`) and memory continues it. `LossInv` follows a rotation file by file: it moves each into a place that is
free, so a kept event stays kept until the oldest file is overwritten (`gone`). What is neither kept, on its way
nor gone is `Missing`, of this process, and `FormerMissing`, of the earlier ones; a step that loses nothing leaves
them no larger (`NothingLost`), a failed write adds one event and counts one (`OneLost`), and a drop
counts the event it never queued. At the end of a process its `Missing` becomes `FormerMissing`, its count
`past`. `PendingIsBounded` limits what goes uncounted then. This holds for every number of files and
processes. `CloseInv` says that `close` answers once and that
after "drained" no writer and no line is left. `FetchInv` says that one fetch at a time runs, under its
lock, and read no older release than the one shown, hence `LatestNeverRegressesHolds`. `CountInv` bounds the
counters from both sides: memory and what the next process will load are at most the events there were, and lack
at most what was forgiven and, on disk, what is unsaved; after a write that succeeded the two agree
(`CountSavesInv`), and a start moves the older file without counting anything twice
(`LoadedIsWritten`).
`TeardownInv` says that the steps run in order: what lies behind is not open, what lies ahead is untouched.
`DiagnosticsAreHonestHolds` and `TeardownIsCompleteHolds` follow.

**Only model-checked.** The liveness properties (fairness and ENABLED are outside the prover) and the
ring's byte limits (a recursive sum).

## 7. Assumptions

- The phone stops applying frames from its old connection once it has sent a resume cursor on a new
  one, and advances its cursor over a reported gap as `docs/LEASE_RECOVERY.md` describes.
- Request ids are not reused for two submissions (`docs/LEASE_RECOVERY.md` has them namespaced by
  attachment).
- Keys, capabilities, digests and ephemeral keys do not collide, and cryptography is ideal (free
  terms). `SessionLease` takes from `SecureChannel` that a channel delivers a prefix of what was sent.
- `Authorization` takes an operation for one step: that is what `StateFile` shows of the file lock and
  the atomic write (`ImplementsAtomicState`). POSIX; the entry of the agent's own directory, whose
  parent nobody syncs (`config.py:165-170`), is on disk once a name in it is; a synced file and a synced directory survive a power loss, nothing else does.
- The two readings of the clock in one `approve` (`authorization.py:632` and 650, 683 and 699) give the
  same second; the first decides what has expired.
- The router keeps the order of a socket's frames and gives an id again only when its last connection
  is gone at both ends. The push Worker applies a request at most once and never after a later one.
- `RelayRuntime.close_controller` does not raise (it gathers the bridge's exceptions), so a cleanup
  started by `Admission` succeeds. `SessionLease` also has the failing case.
- `None` is no submission, connection, id or frame, and connections are finitely many: a matter of
  the models' encoding, which the code meets with Python's `None` and a process that ends.
- An authorized device's epoch changes only when it is revoked; `Admission` relies on it and
  `Authorization` proves it (`EpochMeansRevoked`).
- The router's clock is the host's, up to the skew that `verify_routing_token` allows. Each dashboard
  runs its routes one at a time (they are `async` and do not await inside `create_pairing_offer`).
- Journal and metrics are called on the loop's thread only; processes crash, the machine does not lose
  power (the journal does not sync). A process does not start a second journal while an old writer
  still drains.
- Both ends of a channel run `NoiseChannel`. A cancelled `feed` or `pump` of a transport is followed by
  its close.

## 8. Not modelled

- Push previews (`push_preview.py`) and `PushObserver`: which events wake a device, and the preview's
  encryption; a wake may come at any time.
- `config.py` (except the checks of the state directory) and `strict_json.py`: validation of values
  read once. Parsing and formatting of envelopes, and the signatures of routing tokens.
- Windows, and the repair of permissions in `secure_fs.py`.
- Sessions list and status in `session_reads.py`, single queries without state.
- In the vendored Noise library everything XK does not use; the vendored QR encoder.
- The rest of `Management`: labels, device names, diagnostics and status; `is_authorized` is read by
  `Admission`. In `Authorization`, `expire_pending` with a shorter age has no caller.
- Push rows of version 1, which have no binding and are never served or swept, and a reload that finds
  previews or production pushes switched off.
- The registry slot of a lease whose `close_controller` failed (`session_lease.py:430`).
- Start of the plugin, which has no suspension, and the journal's snapshot with its ages.
- The byte budgets of the virtual WebSocket (a choice to fail) and which requests the policy rejects.
- The JavaScript user interface, scripts and tests.
