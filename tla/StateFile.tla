----------------------------- MODULE StateFile -----------------------------
(***************************************************************************)
(* The profile's state.json, shared by every process that opens the profile *)
(* (the gateway, the dashboard, a command line): the lock file and its      *)
(* advisory lock, load-or-create of the host identity and of the routing    *)
(* issuer, the transactions of the authorization repository, and the atomic *)
(* write underneath them, on a disk that keeps a name in the directory only *)
(* once the directory is synced and a file's bytes only once the file is.   *)
(* The agent directory's own name, whose parent nobody syncs, is assumed to *)
(* be on disk by the time a name in it is.                                  *)
(*                                                                         *)
(* A state is the items in it; an entry adds whether its bytes are whole    *)
(* and synced.  A transaction's number stands for the random bytes it       *)
(* draws, so that no two of them make the same item.                        *)
(***************************************************************************)
EXTENDS Naturals, FiniteSets

CONSTANTS
  Procs,       \* the processes
  None,
  StateLimit,  \* items that fit MAX_STATE_BYTES
  MaxOps,      \* bound: transactions begun
  MaxFaults    \* bound: crashed processes and power losses

ASSUME StateAssumption ==
  /\ None \notin Procs
  /\ {StateLimit, MaxOps, MaxFaults} \subseteq Nat

\* HostIdentityStore.load_or_create, RoutingIssuerStore.load_or_create,
\* create_offer and consume_offer, and the other transactions.
Ops == {"identity", "issuer", "offer", "decide"}
Kinds == {"identity", "issuer", "change"}
Items == [kind : Kinds, op : 1..MaxOps]
NoItem == [kind |-> "none", op |-> 0]
Entries == [items : SUBSET Items, whole : BOOLEAN, synced : BOOLEAN]

\* Nothing on disk yet: load() answers the default state.
Missing == [items |-> {}, whole |-> TRUE, synced |-> TRUE]

Idle == [pc |-> "idle", op |-> "none", mine |-> NoItem, state |-> {}, next |-> "none"]
Steps == {"idle", "ensure", "mkdir", "look", "create", "lock", "load", "ident", "reload", "encode",
          "write", "sync", "replace", "syncdir", "return"}

VARIABLES
  dir,      \* the profile's mercury-relay directory exists
  locked,   \* the lock file exists
  holder,   \* who holds the advisory lock
  file,     \* the entry the name state.json leads to
  disk,     \* the entry it leads to after a power loss
  temp,     \* each process' temporary file
  proc,     \* each process' place in its transaction
  acked,    \* items reported as stored, or handed out from a durable entry
  ops,      \* transactions begun
  faults    \* crashes so far

vars == <<dir, locked, holder, file, disk, temp, proc, acked, ops, faults>>

TypeOK ==
  /\ dir \in BOOLEAN
  /\ locked \in BOOLEAN
  /\ holder \in Procs \cup {None}
  /\ {file, disk} \subseteq Entries
  /\ temp \in [Procs -> Entries \cup {Missing}]
  /\ proc \in [Procs -> [pc : Steps, op : Ops \cup {"none"}, mine : Items \cup {NoItem},
                         state : SUBSET Items, next : {"none", "reload", "return"}]]
  /\ acked \subseteq Items
  /\ ops \in 0..MaxOps
  /\ faults \in 0..MaxFaults

Init ==
  /\ dir = FALSE
  /\ locked = FALSE
  /\ holder = None
  /\ file = Missing
  /\ disk = Missing
  /\ temp = [p \in Procs |-> Missing]
  /\ proc = [p \in Procs |-> Idle]
  /\ acked = {}
  /\ ops = 0
  /\ faults = 0

At(p, pc) == proc[p].pc = pc
Goto(p, pc) == proc' = [proc EXCEPT ![p].pc = pc]
OfKind(state, kind) == {i \in state : i.kind = kind}

----------------------------------------------------------------------------
(***************************************************************************)
(* The transaction lock.                                                   *)
(***************************************************************************)

Begin(p, op) ==
  /\ At(p, "idle")
  /\ ops < MaxOps
  /\ ops' = ops + 1
  /\ proc' = [proc EXCEPT ![p] = [Idle EXCEPT
       !.pc = "ensure", !.op = op,
       !.mine = [kind |-> IF op \in Kinds THEN op ELSE "change", op |-> ops + 1]]]
  /\ UNCHANGED <<dir, locked, holder, file, disk, temp, acked, faults>>

\* _secure_directory: the directory is opened, or made first; losing the race
\* to make it is no error.
EnsureDirectory(p) ==
  /\ At(p, "ensure")
  /\ Goto(p, IF dir THEN "look" ELSE "mkdir")
  /\ UNCHANGED <<dir, locked, holder, file, disk, temp, acked, ops, faults>>

MakeDirectory(p) ==
  /\ At(p, "mkdir")
  /\ dir' = TRUE
  /\ Goto(p, "look")
  /\ UNCHANGED <<locked, holder, file, disk, temp, acked, ops, faults>>

\* _open_lock: the lock file is looked up, and opened when it is there.
LookForLock(p) ==
  /\ At(p, "look")
  /\ Goto(p, IF locked THEN "lock" ELSE "create")
  /\ UNCHANGED <<dir, locked, holder, file, disk, temp, acked, ops, faults>>

\* Exclusive creation: whoever loses the race goes round once more, and then
\* finds the file.
CreateLock(p) ==
  /\ At(p, "create")
  /\ Goto(p, IF locked THEN "look" ELSE "lock")
  /\ locked' = TRUE
  /\ UNCHANGED <<dir, holder, file, disk, temp, acked, ops, faults>>

\* A non-blocking exclusive lock on the open lock file.
LockFree == holder = None

\* _transaction_lock: the lock is tried until it is free.
Acquire(p) ==
  /\ At(p, "lock")
  /\ LockFree
  /\ holder' = p
  /\ Goto(p, "load")
  /\ UNCHANGED <<dir, locked, file, disk, temp, acked, ops, faults>>

Unlocked(p) == IF holder = p THEN None ELSE holder

\* The with-block is left, by a result or an error: unlock, close.
Leave(p) ==
  /\ holder' = Unlocked(p)
  /\ proc' = [proc EXCEPT ![p] = Idle]

\* A link, a foreign file or broad permissions on the way refuse the call.
PathRefused(p) ==
  /\ proc[p].pc \in {"ensure", "mkdir", "look", "create"}
  /\ Leave(p)
  /\ UNCHANGED <<dir, locked, file, disk, temp, acked, ops, faults>>

\* The lock stays taken until the deadline.
LockTimesOut(p) ==
  /\ At(p, "lock")
  /\ holder \notin {None, p}
  /\ Leave(p)
  /\ UNCHANGED <<dir, locked, file, disk, temp, acked, ops, faults>>

----------------------------------------------------------------------------
(***************************************************************************)
(* Reading.  A file that does not parse or validate refuses the whole       *)
(* transaction; it is never replaced by a fresh one.                        *)
(***************************************************************************)

Readable == file.whole

\* What the caller may rely on from now on: the item this transaction wrote,
\* or one it found that a power loss can no longer take back.
Stored(p) ==
  {i \in {proc[p].mine} : proc[p].state # {} \/ i \in disk.items}

\* The item of a kind that the file holds; its record has to be the one of a
\* key pair.
Held(kind) == OfKind(file.items, kind)

\* A fresh key pair, drawn by this transaction.
Fresh(p, kind) == [proc[p].mine EXCEPT !.kind = kind]

\* Load-or-create of a single item: hand out the one the file holds, or put
\* a new one into the state that was read.
LoadOrCreate(p, kind, next) ==
  \/ /\ Held(kind) = {}
     /\ proc' = [proc EXCEPT ![p].pc = "encode", ![p].next = next,
          ![p].state = file.items \cup {Fresh(p, kind)}]
  \/ \E found \in Held(kind) :
       proc' = [proc EXCEPT ![p].pc = next, ![p].mine = IF next = "return" THEN found ELSE @]

LoadIdentity(p) ==
  /\ At(p, "load")
  /\ proc[p].op = "identity"
  /\ Readable
  /\ LoadOrCreate(p, "identity", "return")
  /\ UNCHANGED <<dir, locked, holder, file, disk, temp, acked, ops, faults>>

LoadIssuer(p) ==
  /\ At(p, "load")
  /\ proc[p].op = "issuer"
  /\ Readable
  /\ LoadOrCreate(p, "issuer", "return")
  /\ UNCHANGED <<dir, locked, holder, file, disk, temp, acked, ops, faults>>

\* approve, deny, revoke and the rest: load, change, save.
LoadAndChange(p) ==
  /\ At(p, "load")
  /\ proc[p].op = "decide"
  /\ Readable
  /\ proc' = [proc EXCEPT ![p].pc = "encode", ![p].next = "return",
                          ![p].state = file.items \cup {proc[p].mine}]
  /\ UNCHANGED <<dir, locked, holder, file, disk, temp, acked, ops, faults>>

LoadForOffer(p) ==
  /\ At(p, "load")
  /\ proc[p].op = "offer"
  /\ Readable
  /\ proc' = [proc EXCEPT ![p].pc = "ident", ![p].state = file.items]
  /\ UNCHANGED <<dir, locked, holder, file, disk, temp, acked, ops, faults>>

\* create_offer and consume_offer make the identity on the way, with a write
\* of its own, inside the same lock.
EnsureIdentity(p) ==
  /\ At(p, "ident")
  /\ Readable
  /\ LoadOrCreate(p, "identity", "reload")
  /\ UNCHANGED <<dir, locked, holder, file, disk, temp, acked, ops, faults>>

\* Faulty: the change goes onto the state read before that write
ReloadStale(p) ==
  /\ At(p, "reload")
  /\ Readable
  /\ proc' = [proc EXCEPT ![p].pc = "encode", ![p].next = "return",
                          ![p].state = {i \in @ : i.op # proc[p].mine.op} \cup {proc[p].mine}]
  /\ UNCHANGED <<dir, locked, holder, file, disk, temp, acked, ops, faults>>

\* The state read before that write is discarded: the change goes onto what
\* the file holds now.
Reload(p) ==
  /\ At(p, "reload")
  /\ Readable
  /\ proc' = [proc EXCEPT ![p].pc = "encode", ![p].next = "return",
                          ![p].state = file.items \cup {proc[p].mine}]
  /\ UNCHANGED <<dir, locked, holder, file, disk, temp, acked, ops, faults>>

LoadFails(p) ==
  /\ proc[p].pc \in {"load", "ident", "reload"}
  /\ Leave(p)
  /\ UNCHANGED <<dir, locked, file, disk, temp, acked, ops, faults>>

----------------------------------------------------------------------------
(***************************************************************************)
(* Writing.                                                                *)
(***************************************************************************)

\* StateStore.save validates and encodes before it touches a file.
Encode(p) ==
  /\ At(p, "encode")
  /\ Cardinality(proc[p].state) <= StateLimit
  /\ Goto(p, "write")
  /\ UNCHANGED <<dir, locked, holder, file, disk, temp, acked, ops, faults>>

TooLarge(p) ==
  /\ At(p, "encode")
  /\ Cardinality(proc[p].state) > StateLimit
  /\ Leave(p)
  /\ UNCHANGED <<dir, locked, file, disk, temp, acked, ops, faults>>

\* A temporary file of its own, created exclusively, written and flushed.
WriteTemp(p) ==
  /\ At(p, "write")
  /\ temp' = [temp EXCEPT ![p] = [items |-> proc[p].state, whole |-> TRUE, synced |-> FALSE]]
  /\ Goto(p, "sync")
  /\ UNCHANGED <<dir, locked, holder, file, disk, acked, ops, faults>>

\* Faulty: the new file is not synced before the replace
SyncTempSkipped(p) ==
  /\ At(p, "sync")
  /\ Goto(p, "replace")
  /\ UNCHANGED <<dir, locked, holder, file, disk, temp, acked, ops, faults>>

SyncTemp(p) ==
  /\ At(p, "sync")
  /\ temp' = [temp EXCEPT ![p].synced = TRUE]
  /\ Goto(p, "replace")
  /\ UNCHANGED <<dir, locked, holder, file, disk, acked, ops, faults>>

Replace(p) ==
  /\ At(p, "replace")
  /\ file' = temp[p]
  /\ temp' = [temp EXCEPT ![p] = Missing]
  /\ Goto(p, "syncdir")
  /\ UNCHANGED <<dir, locked, holder, disk, acked, ops, faults>>

SyncDirectory(p) ==
  /\ At(p, "syncdir")
  /\ disk' = file
  /\ Goto(p, proc[p].next)
  /\ UNCHANGED <<dir, locked, holder, file, temp, acked, ops, faults>>

\* Any of these raises: the temporary file is removed, the lock released, the
\* caller told of a failure - after the replacement too, although the new
\* state is then in force.
WriteFails(p) ==
  /\ proc[p].pc \in {"write", "sync", "replace", "syncdir"}
  /\ temp' = [temp EXCEPT ![p] = Missing]
  /\ Leave(p)
  /\ UNCHANGED <<dir, locked, file, disk, acked, ops, faults>>

\* The with-block ends and the caller gets the item, or the outcome.
Return(p) ==
  /\ At(p, "return")
  /\ acked' = acked \cup Stored(p)
  /\ Leave(p)
  /\ UNCHANGED <<dir, locked, file, disk, temp, ops, faults>>

----------------------------------------------------------------------------
(***************************************************************************)
(* Faults.  A killed process loses its lock and leaves its temporary file   *)
(* behind under a name nobody reads.  A power loss ends every process; the  *)
(* name leads to the durable entry or to a later one, whose bytes are       *)
(* complete only if they were synced.  The directory may go as long as no   *)
(* state was ever made durable in it, and stays from then on: the           *)
(* assumption above, which _secure_directory alone does not establish.  *)
(***************************************************************************)

ProcessDies(p) ==
  /\ faults < MaxFaults
  /\ ~At(p, "idle")
  /\ Leave(p)
  /\ temp' = [temp EXCEPT ![p] = Missing]
  /\ faults' = faults + 1
  /\ UNCHANGED <<dir, locked, file, disk, acked, ops>>

AfterPowerLoss(entry) == [entry EXCEPT !.whole = @ /\ entry.synced, !.synced = TRUE]

PowerLoss ==
  /\ faults < MaxFaults
  /\ \E entry \in {file, disk} : file' = AfterPowerLoss(entry) /\ disk' = file'
  /\ dir' \in {dir, dir /\ disk.items # {}}
  /\ locked' \in {locked /\ dir', FALSE}
  /\ holder' = None
  /\ proc' = [p \in Procs |-> Idle]
  /\ temp' = [p \in Procs |-> Missing]
  /\ faults' = faults + 1
  /\ UNCHANGED <<acked, ops>>

Next ==
  \/ \E p \in Procs :
       \/ \E op \in Ops : Begin(p, op)
       \/ EnsureDirectory(p) \/ MakeDirectory(p) \/ PathRefused(p)
       \/ LookForLock(p) \/ CreateLock(p) \/ Acquire(p) \/ LockTimesOut(p)
       \/ LoadIdentity(p) \/ LoadIssuer(p) \/ LoadAndChange(p) \/ LoadForOffer(p)
       \/ EnsureIdentity(p) \/ Reload(p) \/ LoadFails(p)
       \/ Encode(p) \/ TooLarge(p)
       \/ WriteTemp(p) \/ SyncTemp(p) \/ Replace(p) \/ SyncDirectory(p) \/ WriteFails(p)
       \/ Return(p) \/ ProcessDies(p)
  \/ PowerLoss

Spec == Init /\ [][Next]_vars

----------------------------------------------------------------------------
(***************************************************************************)
(* Properties                                                              *)
(***************************************************************************)

\* A crash at any step of a write, a power loss included, leaves a state file
\* that parses: _atomic_write syncs the temporary file before it replaces
\* the old one.
FileIsWhole == file.whole /\ disk.whole

\* What a caller was told is stored survives everything that can happen to
\* the machine next: it is in the durable entry, whoever wrote it and whoever
\* has written since.
AckedIsDurable == acked \subseteq disk.items

\* The two together: whatever crashes or fails at whichever step, the file
\* can be read again and has what was acknowledged.
StateSurvives == TypeOK /\ FileIsWhole /\ AckedIsDurable

Promised == INSTANCE AtomicState WITH
  held <- file.items, acked <- acked, Singles <- {"identity", "issuer"}

\* Processes that race, fail and crash inside the lock together look like
\* transactions that take effect one at a time, with one identity and one
\* issuer and no acknowledged item ever lost.
ImplementsAtomicState == Promised!Spec
=============================================================================
