----------------------------- MODULE LeaseRecovery -----------------------------
(* lease_recovery.py: the bounded store of child-task observations shared by  *)
(* every lease (RecoveryStore) and each lease's projection of its live stream *)
(* (RecoveryProjection), with ageing, eviction, failing writes, revocation    *)
(* and restart of the process.                                              *)
(*                                                                         *)
(* A scope is one (device, channel, epoch).  Of a task's payload only its    *)
(* child and whether its status is terminal are kept.  Rows are put at the   *)
(* end of the list with a new revision, so the store's list is a set of rows *)
(* in the order of their revisions.  They age in that order as well: the     *)
(* clock is the revision up to which rows have expired.                      *)
EXTENDS Naturals, FiniteSets, SequencesExt

CONSTANTS
    Scopes, Children,
    MaxStore,      \* max_rows of the store
    MaxTasks,      \* MAX_ROWS: tasks a projection holds, rows of a snapshot
    MaxRev,        \* bound: revisions
    MaxRestarts    \* bound: restarts of the process

ASSUME RecoveryAssumption == {MaxStore, MaxTasks, MaxRev, MaxRestarts} \subseteq Nat \ {0}

Status == {"run", "end"}

VARIABLES
    store,     \* RecoveryStore: rows, revision, truncated
    disk,      \* lease-recovery.json
    aged,      \* rows with a revision up to this one have expired
    lease,     \* the projection of each scope's lease
    revoked,   \* scopes revoked: no new lease can have them
    ended,     \* history: tasks whose end was stored
    told,      \* history: relay_event_id -> what was reported under it
    restarts

recoveryVars == <<store, disk, aged, lease, revoked, ended, told, restarts>>

Row == [s : Scopes, k : Children, st : Status, rev : 1 .. MaxRev]
Store == [rows : SUBSET Row, rev : 0 .. MaxRev, trunc : BOOLEAN]
\* "bound": the event carries its durable binding; rev 0: not in the store
Task == [k : Children, st : Status, bound : BOOLEAN, rev : 0 .. MaxRev]
Lease == [on : BOOLEAN, stored : BOOLEAN, asked : BOOLEAN, bound : BOOLEAN,
          tasks : Seq(Task), trunc : BOOLEAN]
NoLease == [on |-> FALSE, stored |-> FALSE, asked |-> FALSE, bound |-> FALSE,
            tasks |-> <<>>, trunc |-> FALSE]

RecoveryTypeOK ==
    /\ store \in Store /\ disk \in Store /\ Cardinality(store.rows) <= MaxStore
    /\ aged \in 0 .. MaxRev
    /\ lease \in [Scopes -> Lease] /\ \A s \in Scopes : Len(lease[s].tasks) <= MaxTasks
    /\ revoked \subseteq Scopes
    /\ ended \subseteq Scopes \X Children
    /\ told \subseteq Row
    /\ restarts \in 0 .. MaxRestarts

RecoveryInit ==
    /\ store = [rows |-> {}, rev |-> 0, trunc |-> FALSE] /\ disk = store
    /\ aged = 0
    /\ lease = [s \in Scopes |-> NoLease]
    /\ revoked = {} /\ ended = {} /\ told = {} /\ restarts = 0

-----------------------------------------------------------------------------
(* RecoveryStore *)

\* the n newest of some rows
Newest(R, n) == {r \in R : Cardinality({q \in R : q.rev >= r.rev}) <= n}

\* _prune: expired rows go, then the oldest above the limit
Prune(S) ==
    LET kept == {r \in S.rows : r.rev > aged}
    IN [S EXCEPT !.rows = Newest(kept, MaxStore),
                 !.trunc = @ \/ kept # S.rows \/ Cardinality(kept) > MaxStore]

Without(R, s, k) == {r \in R : ~(r.s = s /\ r.k = k)}

\* Faulty: any row of the task is replaced
PutOver(S, s, k, st) ==
    LET P == Prune(S)
        new == [s |-> s, k |-> k, st |-> st, rev |-> P.rev + 1]
    IN [store |-> Prune([P EXCEPT !.rev = @ + 1, !.rows = Without(@, s, k) \cup {new}]),
        writes |-> TRUE, row |-> new]

\* put: the store afterwards, whether it has to be written, and the row that
\* now stands for the task; a terminal row is never replaced
Put(S, s, k, st) ==
    LET P == Prune(S)
        prior == {r \in P.rows : r.s = s /\ r.k = k /\ r.st = "end"}
        new == [s |-> s, k |-> k, st |-> st, rev |-> P.rev + 1]
    IN IF prior # {}
       THEN [store |-> P, writes |-> FALSE, row |-> CHOOSE r \in prior : TRUE]
       ELSE [store |-> Prune([P EXCEPT !.rev = @ + 1, !.rows = Without(@, s, k) \cup {new}]),
             writes |-> TRUE, row |-> new]

\* __init__ after a restart
Load == Prune(disk)

Reported(rs) == told' = told \cup rs
Ended(rs) == ended' = ended \cup {<<r.s, r.k>> : r \in {x \in rs : x.st = "end"}}

-----------------------------------------------------------------------------
(* RecoveryProjection *)

Find(s, k) == {i \in 1 .. Len(lease[s].tasks) : lease[s].tasks[i].k = k}

LastOf(q, n) == IF Len(q) <= n THEN q ELSE SubSeq(q, Len(q) - n + 1, Len(q))

\* tasks[key] = event, moved to the end; the oldest goes above the limit
WithTask(s, t) ==
    LET l == lease[s]
        q == l.tasks
        others == IF Find(s, t.k) = {} THEN q
                  ELSE RemoveAt(q, CHOOSE i \in Find(s, t.k) : TRUE)
        all == Append(others, t)
    IN [l EXCEPT !.tasks = LastOf(all, MaxTasks), !.trunc = @ \/ Len(all) > MaxTasks]

\* the write of a put fails, before or after the file was replaced: the store
\* rolls back, observe raises and the lease is released
WriteFails(s, S) ==
    /\ disk' \in {disk, S}
    /\ lease' = [lease EXCEPT ![s] = NoLease]
    /\ UNCHANGED <<store, ended, told>>

\* observe of a child event
Observe(s, k, st) ==
    LET l == lease[s]
        known == Find(s, k)
        p == Put(store, s, k, st)
    IN /\ l.on
       /\ \A i \in known : l.tasks[i].st # "end"
       /\ IF l.bound /\ l.stored
          THEN /\ store.rev < MaxRev
               /\ \/ /\ store' = p.store
                     /\ disk' = IF p.writes THEN p.store ELSE disk
                     /\ lease' = [lease EXCEPT ![s] = WithTask(s,
                                    [k |-> k, st |-> p.row.st, bound |-> TRUE, rev |-> p.row.rev])]
                     /\ Reported({p.row}) /\ Ended({p.row})
                  \/ p.writes /\ WriteFails(s, p.store)
          ELSE /\ lease' = [lease EXCEPT ![s] = WithTask(s,
                              [k |-> k, st |-> st, bound |-> l.bound, rev |-> 0])]
               /\ UNCHANGED <<store, disk, ended, told>>
       /\ UNCHANGED <<aged, revoked, restarts>>

\* _persist of every task of a projection, in order: after[n] is the store
\* when n of them are in, rows[n] the row of the n-th
After(s) ==
    LET q == lease[s].tasks
        after[n \in 0 .. Len(q)] ==
            IF n = 0 THEN [store |-> store, row |-> <<>>, writes |-> FALSE]
            ELSE Put(after[n - 1].store, s, q[n].k, q[n].st)
    IN after

\* all of them are stored, or the n-th write fails
PersistAll(s, l) ==
    LET q == lease[s].tasks
        after == After(s)
        rs(n) == {after[i].row : i \in 1 .. n}
    IN /\ store.rev + Len(q) <= MaxRev
       /\ \/ /\ store' = after[Len(q)].store
             /\ disk' = IF \E i \in 1 .. Len(q) : after[i].writes THEN store' ELSE disk
             /\ lease' = [lease EXCEPT ![s] = [l EXCEPT !.tasks =
                            [i \in 1 .. Len(q) |-> [k |-> q[i].k, st |-> after[i].row.st,
                                                   bound |-> TRUE, rev |-> after[i].row.rev]]]]
             /\ Reported(rs(Len(q))) /\ Ended(rs(Len(q)))
          \/ \E n \in 1 .. Len(q) :
             /\ after[n].writes
             /\ store' = after[n - 1].store
             /\ disk' \in {IF \E i \in 1 .. n - 1 : after[i].writes THEN store' ELSE disk,
                           after[n].store}
             /\ lease' = [lease EXCEPT ![s] = NoLease]
             /\ Reported(rs(n - 1)) /\ Ended(rs(n - 1))

\* request: session.create or session.resume names a profile
Request(s) ==
    /\ lease[s].on /\ ~lease[s].asked /\ ~lease[s].bound
    /\ lease' = [lease EXCEPT ![s].asked = TRUE]
    /\ UNCHANGED <<store, disk, aged, revoked, ended, told, restarts>>

\* observe of its reply: the binding is proven and earlier events are stored
Bind(s) ==
    /\ lease[s].asked
    /\ LET l == [lease[s] EXCEPT !.asked = FALSE, !.bound = TRUE]
       IN IF l.stored THEN PersistAll(s, l)
          ELSE /\ lease' = [lease EXCEPT ![s] = [l EXCEPT !.tasks =
                              [i \in 1 .. Len(@) |-> [@[i] EXCEPT !.bound = TRUE]]]]
               /\ UNCHANGED <<store, disk, ended, told>>
    /\ UNCHANGED <<aged, revoked, restarts>>

\* ... or the reply names another profile
Mismatch(s) ==
    /\ lease[s].asked
    /\ lease' = [lease EXCEPT ![s].asked = FALSE, ![s].trunc = TRUE]
    /\ UNCHANGED <<store, disk, aged, revoked, ended, told, restarts>>

\* _reattach_lease gives a lease without a store the store
Upgrade(s) ==
    /\ lease[s].on /\ ~lease[s].stored
    /\ LET l == [lease[s] EXCEPT !.stored = TRUE]
       IN IF l.bound THEN PersistAll(s, l)
          ELSE lease' = [lease EXCEPT ![s] = l] /\ UNCHANGED <<store, disk, ended, told>>
    /\ UNCHANGED <<aged, revoked, restarts>>

\* a fresh lease, for a phone with recovery or without; it replaces the old one
Open(s, stored) ==
    /\ s \notin revoked
    /\ lease' = [lease EXCEPT ![s] = [NoLease EXCEPT !.on = TRUE, !.stored = stored]]
    /\ UNCHANGED <<store, disk, aged, revoked, ended, told, restarts>>

\* snapshot prunes the store in memory
TakeSnapshot(s) ==
    /\ lease[s].on /\ lease[s].stored
    /\ store' = Prune(store)
    /\ UNCHANGED <<disk, aged, lease, revoked, ended, told, restarts>>

-----------------------------------------------------------------------------
(* snapshot *)

\* the stored rows of the scope, the newest MaxTasks of them
OfScope(s) == {r \in Prune(store).rows : r.s = s}
Historical(s) == Newest(OfScope(s), MaxTasks)
Crowded(s) == Cardinality(OfScope(s)) > MaxTasks

\* rows of the snapshot by binding and child: a live observation replaces the
\* stored one, but never a terminal one by one that is not
SnapshotRows(s) ==
    LET live == ToSet(lease[s].tasks)
        stored == {r \in Historical(s) :
                    \A t \in live : t.bound /\ t.k = r.k => r.st = "end" /\ t.st # "end"}
    IN {<<TRUE, r.k, r.st>> : r \in stored} \cup
       {<<t.bound, t.k, t.st>> : t \in {x \in live : ~x.bound \/ \A r \in stored : r.k # x.k}}

\* snapshot_truncated; the rows above the limit are cut off
Truncated(s) ==
    \/ lease[s].trunc \/ Prune(store).trunc \/ Crowded(s)
    \/ Cardinality(SnapshotRows(s)) > MaxTasks

-----------------------------------------------------------------------------
(* revocation, time, restart *)

\* revoke: the rows of the scope go from memory; the write may fail
Revoke(s) ==
    LET S == Prune([store EXCEPT !.rows = {r \in @ : r.s # s}])
    IN /\ s \notin revoked
       /\ revoked' = revoked \cup {s}
       /\ lease' = [lease EXCEPT ![s] = NoLease]
       /\ store' = S
       /\ disk' \in {disk, S}
       /\ UNCHANGED <<aged, ended, told, restarts>>

Age ==
    /\ aged < store.rev
    /\ aged' = aged + 1
    /\ UNCHANGED <<store, disk, lease, revoked, ended, told, restarts>>

Restart ==
    /\ restarts < MaxRestarts
    /\ restarts' = restarts + 1
    /\ store' = Load
    /\ lease' = [s \in Scopes |-> NoLease]
    /\ Reported(Load.rows)
    /\ UNCHANGED <<disk, aged, revoked, ended>>

LeaseEnds(s) ==
    /\ lease[s].on
    /\ lease' = [lease EXCEPT ![s] = NoLease]
    /\ UNCHANGED <<store, disk, aged, revoked, ended, told, restarts>>

RecoveryNext ==
    \/ \E s \in Scopes :
        \/ \E k \in Children, st \in Status : Observe(s, k, st)
        \/ Request(s) \/ Bind(s) \/ Mismatch(s) \/ Upgrade(s)
        \/ \E stored \in BOOLEAN : Open(s, stored)
        \/ TakeSnapshot(s) \/ Revoke(s) \/ LeaseEnds(s)
    \/ Age \/ Restart

RecoverySpec == RecoveryInit /\ [][RecoveryNext]_recoveryVars

-----------------------------------------------------------------------------

\* A task whose end was stored is reported as ended by every later snapshot of
\* its scope, or the snapshot says that it is truncated: across stale starts,
\* eviction by other scopes, ageing, failed writes, upgraded leases and
\* restarts (RecoveryStore.put, _save, __init__; RecoveryProjection.snapshot).
EndIsKeptOrReported ==
    \A e \in ended :
        lease[e[1]].on /\ lease[e[1]].stored =>
            \/ <<TRUE, e[2], "end">> \in SnapshotRows(e[1])
            \/ Truncated(e[1])

\* A relay_event_id names one report only: a write that failed, was rolled
\* back or reached the file all the same never lets a revision be used for two
\* different reports (RecoveryStore.put).
EventIdsAreUnique ==
    RecoveryTypeOK /\ \A r, q \in told : r.rev = q.rev => r = q

\* What the store promises a phone that comes back: no end is lost in silence
\* and no report stands for two.
RecoveryIsFaithful == EndIsKeptOrReported /\ EventIdsAreUnique
=============================================================================
