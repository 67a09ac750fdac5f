-------------------------- MODULE StateFileProofs --------------------------
(***************************************************************************)
(* For any number of processes, any size limit and any number of crashes:  *)
(* the state file stays readable with everything that was acknowledged,    *)
(* and what the processes do to it together is what AtomicState promises.  *)
(***************************************************************************)
EXTENDS StateFile, TLAPS

\* The steps of a transaction inside the lock, and those of a write that has
\* not replaced the file yet.
Inside == {"load", "ident", "reload", "encode", "write", "sync", "replace", "syncdir", "return"}
Writing == {"encode", "write", "sync", "replace"}

\* The item that the write under way adds.
Added(p) == IF proc[p].next = "return" THEN proc[p].mine ELSE Fresh(p, "identity")

\* One process at a time is inside the lock, and it is the holder.
LockInv == \A p \in Procs : proc[p].pc \in Inside <=> holder = p

\* A transaction has an item of its own, of the kind its operation makes.
OwnItem(p) ==
  /\ proc[p].pc # "idle" => proc[p].mine \in Items /\ proc[p].op \in Ops
  /\ proc[p].pc = "idle" => proc[p] = Idle
  /\ proc[p].mine.op <= ops
  /\ proc[p].op \in {"identity", "issuer"} => proc[p].mine.kind = proc[p].op
  /\ proc[p].op \in {"offer", "decide"} => proc[p].mine.kind = "change"

\* No two transactions make the same change, and one that has not replaced
\* the file yet has not put its change there.
ChangesDiffer ==
  /\ \A i \in file.items : i.op <= ops
  /\ \A p, q \in Procs : p # q /\ proc[p].mine.kind = "change" => proc[p].mine # proc[q].mine
  /\ \A p \in Procs :
       /\ proc[p].mine.kind = "change"
       /\ proc[p].pc # "return"
       /\ ~(proc[p].pc = "syncdir" /\ proc[p].next = "return")
       => proc[p].mine \notin file.items

\* What a transaction has in hand: at first nothing, then the file's items
\* and the one it adds, and at the end an item that the file holds.
InHand(p) ==
  /\ proc[p].pc \in {"ensure", "mkdir", "look", "create", "lock", "load"} => proc[p].state = {}
  /\ proc[p].pc \in {"ident", "reload"} => proc[p].op = "offer"
  /\ proc[p].pc \in Writing \cup {"syncdir"} =>
       /\ proc[p].next \in {"reload", "return"}
       /\ proc[p].next = "reload" => proc[p].op = "offer"
  /\ proc[p].pc \in Writing =>
       /\ proc[p].state = file.items \cup {Added(p)}
       /\ Added(p).kind # "change" => Held(Added(p).kind) = {}
  /\ proc[p].pc = "sync" => temp[p] = [items |-> proc[p].state, whole |-> TRUE, synced |-> FALSE]
  /\ proc[p].pc = "replace" => temp[p] = [items |-> proc[p].state, whole |-> TRUE, synced |-> TRUE]
  /\ proc[p].pc = "syncdir" => Added(p) \in file.items
  /\ proc[p].pc = "return" =>
       /\ proc[p].mine \in file.items
       /\ proc[p].state # {} => proc[p].mine \in disk.items

\* The entries are whole and synced, and the durable one lags behind.
EntriesInv ==
  /\ file.whole = TRUE /\ file.synced = TRUE
  /\ disk.whole = TRUE /\ disk.synced = TRUE
  /\ disk.items \subseteq file.items
  /\ acked \subseteq disk.items

StorageInv ==
  /\ TypeOK
  /\ LockInv
  /\ \A p \in Procs : OwnItem(p)
  /\ ChangesDiffer
  /\ \A p \in Procs : InHand(p)
  /\ EntriesInv

-----------------------------------------------------------------------------
(* Lemmas                                                                  *)

ProcType == [pc : Steps, op : Ops \cup {"none"}, mine : Items \cup {NoItem},
             state : SUBSET Items, next : {"none", "reload", "return"}]

\* A process between two transactions has nothing.
LEMMA IdleFacts ==
  /\ Idle.pc = "idle" /\ Idle.op = "none" /\ Idle.mine = NoItem /\ Idle.state = {} /\ Idle.next = "none"
  /\ NoItem.op = 0 /\ NoItem.kind = "none"
  /\ Idle \in ProcType
<1>1. Idle.pc = "idle" /\ Idle.op = "none" /\ Idle.mine = NoItem /\ Idle.state = {} /\ Idle.next = "none"
  BY DEF Idle
<1>2. NoItem.op = 0 /\ NoItem.kind = "none"
  BY DEF NoItem
<1>3. Idle \in ProcType
  BY DEF Idle, ProcType, Steps
<1>4. QED
  BY <1>1, <1>2, <1>3

LEMMA MissingEntry == Missing \in Entries
  BY DEF Missing, Entries

\* The empty state file is whole, and nobody is inside the lock.
LEMMA StorageInit == Init => StorageInv
<1> SUFFICES ASSUME Init PROVE StorageInv
  OBVIOUS
<1> USE DEF Init
<1>1. \A p \in Procs : proc[p] = Idle /\ temp[p] = Missing
  OBVIOUS
<1>2. /\ Idle.pc = "idle" /\ Idle.op = "none" /\ Idle.mine = NoItem /\ NoItem.op = 0 /\ NoItem.kind = "none"
      /\ Idle \in ProcType
  BY IdleFacts
<1>3. TypeOK
  <2>1. proc \in [Procs -> ProcType] /\ temp \in [Procs -> Entries \cup {Missing}]
    BY <1>2, MissingEntry
  <2>2. ops \in 0..MaxOps /\ faults \in 0..MaxFaults
    BY StateAssumption
  <2>3. dir \in BOOLEAN /\ locked \in BOOLEAN /\ holder \in Procs \cup {None} /\ {file, disk} \subseteq Entries
    BY MissingEntry
  <2>4. QED
    BY <2>1, <2>2, <2>3, Zenon DEF TypeOK, ProcType
<1>4. LockInv
  BY <1>1, <1>2, StateAssumption DEF LockInv, Inside
<1>5. \A p \in Procs : OwnItem(p)
  BY <1>1, <1>2 DEF OwnItem
<1>6. ChangesDiffer
  BY <1>1, <1>2 DEF ChangesDiffer, Missing
<1>7. \A p \in Procs : InHand(p)
  BY <1>1, <1>2 DEF InHand, Writing
<1>8. EntriesInv
  BY DEF EntriesInv, Missing
<1>9. QED
  BY <1>3, <1>4, <1>5, <1>6, <1>7, <1>8 DEF StorageInv

\* While p is inside the lock nobody else has anything in hand that depends
\* on the file.
LEMMA OthersWait ==
  ASSUME StorageInv, NEW p \in Procs, holder = p,
         NEW q \in Procs, q # p, proc'[q] = proc[q]
  PROVE  proc[q].pc \notin Inside /\ InHand(q)'
<1>1. proc[q].pc \notin Inside
  BY DEF StorageInv, LockInv
<1>2. InHand(q)
  BY DEF StorageInv
<1>3. QED
  BY <1>1, <1>2 DEF InHand, Inside, Writing

\* What a process has in hand depends on its own place, its temporary file
\* and what the entries hold.
LEMMA SameInHand ==
  ASSUME NEW q \in Procs, InHand(q), proc'[q] = proc[q], temp'[q] = temp[q],
         file' = file, disk' = disk
  PROVE  InHand(q)'
<1>1. Added(q)' = Added(q)
  BY DEF Added, Fresh
<1>2. QED
  BY <1>1 DEF InHand, Held

\* Before the lock, a step that moves only p's place among the steps there.
LEMMA ApproachStep ==
  ASSUME StorageInv, NEW p \in Procs, NEW c \in {"mkdir", "look", "create", "lock"},
         proc[p].pc \in {"ensure", "mkdir", "look", "create"},
         Goto(p, c), dir' \in BOOLEAN, locked' \in BOOLEAN,
         UNCHANGED <<holder, file, disk, temp, acked, ops, faults>>
  PROVE  StorageInv'
<1>1. proc \in [Procs -> ProcType]
  BY DEF StorageInv, TypeOK, ProcType
<1>2. \A q \in Procs \ {p} : proc'[q] = proc[q]
  BY <1>1 DEF Goto
<1>3. /\ proc'[p].pc = c /\ proc'[p].op = proc[p].op /\ proc'[p].mine = proc[p].mine
      /\ proc'[p].state = proc[p].state /\ proc'[p].next = proc[p].next
  BY <1>1 DEF Goto, ProcType
<1>4. proc' \in [Procs -> ProcType]
  <2>1. c \in Steps
    BY DEF Steps
  <2>2. QED
    BY <1>1, <2>1, Zenon DEF Goto, ProcType
<1>5. TypeOK'
  BY <1>4 DEF StorageInv, TypeOK, ProcType
<1>6. LockInv'
  BY <1>2, <1>3 DEF StorageInv, LockInv, Inside
<1>7. \A q \in Procs : OwnItem(q)'
  BY <1>2, <1>3 DEF StorageInv, OwnItem
<1>8. ChangesDiffer'
  BY <1>2, <1>3 DEF StorageInv, ChangesDiffer
<1>9. \A q \in Procs : InHand(q)'
  <2>1. InHand(p)'
    BY <1>3 DEF StorageInv, InHand, Writing
  <2>2. QED
    BY <1>2, <2>1, SameInHand DEF StorageInv
<1>10. EntriesInv'
  BY DEF StorageInv, EntriesInv
<1>11. QED
  BY <1>5, <1>6, <1>7, <1>8, <1>9, <1>10 DEF StorageInv

\* A new transaction draws a number nobody has used.
LEMMA BeginStep ==
  ASSUME StorageInv, NEW p \in Procs, NEW op \in Ops, Begin(p, op)
  PROVE  StorageInv'
<1> DEFINE k == IF op \in Kinds THEN op ELSE "change"
           m == [kind |-> k, op |-> ops + 1]
           r == [Idle EXCEPT !.pc = "ensure", !.op = op, !.mine = m]
<1>1. proc \in [Procs -> ProcType] /\ ops \in Nat
  BY StateAssumption DEF StorageInv, TypeOK, ProcType
<1>2. /\ k \in Kinds /\ k = (IF op \in {"identity", "issuer"} THEN op ELSE "change")
      /\ ops + 1 \in 1..MaxOps
  BY <1>1, StateAssumption DEF Begin, Ops, Kinds
<1>3. m \in Items /\ m.kind = k /\ m.op = ops + 1
  BY <1>2 DEF Items
<1> HIDE DEF k, m
<1>4. /\ r.pc = "ensure" /\ r.op = op /\ r.mine = m /\ r.state = {} /\ r.next = "none"
      /\ r \in ProcType
  BY <1>3, IdleFacts DEF Idle, ProcType, Steps
<1>5. proc' = [proc EXCEPT ![p] = r]
  BY DEF Begin, k, m
<1> HIDE DEF r
<1>6. /\ \A q \in Procs \ {p} : proc'[q] = proc[q]
      /\ proc'[p] = r
      /\ proc' \in [Procs -> ProcType]
  BY <1>1, <1>4, <1>5
<1>7. UNCHANGED <<dir, locked, holder, file, disk, temp, acked, faults>> /\ ops' = ops + 1 /\ proc[p].pc = "idle"
  BY DEF Begin, At
<1>8. TypeOK'
  BY <1>2, <1>6, <1>7 DEF StorageInv, TypeOK, ProcType
<1>9. LockInv'
  BY <1>4, <1>6, <1>7 DEF StorageInv, LockInv, Inside
<1>10. \A q \in Procs : OwnItem(q)'
  <2>1. OwnItem(p)'
    BY <1>1, <1>2, <1>3, <1>4, <1>6, <1>7 DEF OwnItem, Ops
  <2>2. ASSUME NEW q \in Procs \ {p} PROVE OwnItem(q)'
    <3>1. proc[q].mine.op \in Nat
      BY <1>1, IdleFacts DEF ProcType, Items
    <3>2. OwnItem(q)
      BY DEF StorageInv
    <3>3. QED
      BY <1>1, <1>6, <1>7, <3>1, <3>2 DEF OwnItem
  <2>3. QED
    BY <2>1, <2>2
<1>11. ChangesDiffer'
  <2>1. \A q \in Procs : proc[q].mine.op <= ops /\ proc[q].mine.op \in Nat
    BY <1>1, IdleFacts DEF StorageInv, OwnItem, ProcType, Items
  <2>2. \A i \in file.items : i.op \in Nat /\ i.op <= ops
    BY DEF StorageInv, ChangesDiffer, TypeOK, Entries, Items
  <2>3. \A i \in file'.items : i.op <= ops'
    BY <1>1, <1>7, <2>2
  <2>4. \A q \in Procs : proc[q].mine # m
    BY <1>1, <1>3, <2>1
  <2>5. m \notin file.items
    BY <1>1, <1>3, <2>2
  <2>6. QED
    BY <1>4, <1>6, <1>7, <2>3, <2>4, <2>5 DEF StorageInv, ChangesDiffer
<1>12. \A q \in Procs : InHand(q)'
  <2>1. InHand(p)'
    BY <1>4, <1>6 DEF InHand, Writing
  <2>2. QED
    BY <1>6, <1>7, <2>1, SameInHand DEF StorageInv
<1>13. EntriesInv'
  BY <1>7 DEF StorageInv, EntriesInv
<1>14. QED
  BY <1>8, <1>9, <1>10, <1>11, <1>12, <1>13 DEF StorageInv

\* The lock is taken only when nobody is inside.
LEMMA AcquireStep ==
  ASSUME StorageInv, NEW p \in Procs, Acquire(p)
  PROVE  StorageInv'
<1>1. proc \in [Procs -> ProcType]
  BY DEF StorageInv, TypeOK, ProcType
<1>2. \A q \in Procs \ {p} : proc'[q] = proc[q]
  BY <1>1 DEF Acquire, Goto
<1>3. /\ proc'[p].pc = "load" /\ proc'[p].op = proc[p].op /\ proc'[p].mine = proc[p].mine
      /\ proc'[p].state = proc[p].state /\ proc'[p].next = proc[p].next
  BY <1>1 DEF Acquire, Goto, ProcType
<1>4. proc' \in [Procs -> ProcType]
  <2>1. "load" \in Steps
    BY DEF Steps
  <2>2. QED
    BY <1>1, <2>1, Zenon DEF Acquire, Goto, ProcType
<1>5. /\ proc[p].pc = "lock" /\ holder = None /\ holder' = p
      /\ UNCHANGED <<dir, locked, file, disk, temp, acked, ops, faults>>
  BY DEF Acquire, At, LockFree
<1>6. TypeOK'
  BY <1>4, <1>5 DEF StorageInv, TypeOK, ProcType
<1>7. LockInv'
  BY <1>2, <1>3, <1>5, StateAssumption DEF StorageInv, LockInv, Inside
<1>8. \A q \in Procs : OwnItem(q)'
  BY <1>2, <1>3, <1>5 DEF StorageInv, OwnItem
<1>9. ChangesDiffer'
  BY <1>2, <1>3, <1>5 DEF StorageInv, ChangesDiffer
<1>10. \A q \in Procs : InHand(q)'
  <2>1. InHand(p)'
    BY <1>3, <1>5 DEF StorageInv, InHand, Writing
  <2>2. QED
    BY <1>2, <1>5, <2>1, SameInHand DEF StorageInv
<1>11. EntriesInv'
  BY <1>5 DEF StorageInv, EntriesInv
<1>12. QED
  BY <1>6, <1>7, <1>8, <1>9, <1>10, <1>11 DEF StorageInv

\* Leaving the with-block, by a result, an error or a death, from any step:
\* what the file holds and what is durable stay.
LEMMA LeaveStep ==
  ASSUME StorageInv, NEW p \in Procs, Leave(p),
         temp' \in {temp, [temp EXCEPT ![p] = Missing]},
         acked' \subseteq disk.items, faults' \in 0..MaxFaults,
         UNCHANGED <<dir, locked, file, disk, ops>>
  PROVE  StorageInv'
<1>1. proc \in [Procs -> ProcType] /\ temp \in [Procs -> Entries \cup {Missing}]
  BY DEF StorageInv, TypeOK, ProcType
<1>2. /\ \A q \in Procs \ {p} : proc'[q] = proc[q] /\ temp'[q] = temp[q]
      /\ proc'[p] = Idle
      /\ proc' \in [Procs -> ProcType]
  BY <1>1, IdleFacts DEF Leave
<1>3. holder' = IF holder = p THEN None ELSE holder
  BY DEF Leave, Unlocked
<1>4. TypeOK'
  <2>1. temp' \in [Procs -> Entries \cup {Missing}]
    BY <1>1
  <2>2. acked' \in SUBSET Items
    BY DEF StorageInv, TypeOK, Entries
  <2>3. holder' \in Procs \cup {None}
    BY <1>3 DEF StorageInv, TypeOK
  <2>4. QED
    BY <1>2, <2>1, <2>2, <2>3 DEF StorageInv, TypeOK, ProcType
<1>5. LockInv'
  BY <1>2, <1>3, IdleFacts, StateAssumption DEF StorageInv, LockInv, Inside
<1>6. \A q \in Procs : OwnItem(q)'
  <2>1. OwnItem(p)'
    <3>1. 0 <= ops
      BY DEF StorageInv, TypeOK
    <3>2. QED
      BY <1>2, <3>1, IdleFacts DEF OwnItem
  <2>2. QED
    BY <1>2, <2>1 DEF StorageInv, OwnItem
<1>7. ChangesDiffer'
  <2>1. proc'[p].mine.kind = "none"
    BY <1>2, IdleFacts
  <2>2. \A q \in Procs \ {p} : proc[q].mine.kind = "change" => proc'[q].mine # proc'[p].mine
    BY <1>2, <2>1
  <2>3. QED
    BY <1>2, <2>1, <2>2 DEF StorageInv, ChangesDiffer
<1>8. \A q \in Procs : InHand(q)'
  <2>1. InHand(p)'
    BY <1>2, IdleFacts DEF InHand, Writing
  <2>2. QED
    BY <1>2, <2>1, SameInHand DEF StorageInv
<1>9. EntriesInv'
  BY DEF StorageInv, EntriesInv
<1>10. QED
  BY <1>4, <1>5, <1>6, <1>7, <1>8, <1>9 DEF StorageInv

\* A step inside the lock that leaves the file and the durable entry alone:
\* the holder's next place, with what it then has in hand.
LEMMA InsideStep ==
  ASSUME StorageInv, NEW p \in Procs, holder = p, NEW r \in ProcType,
         proc' = [proc EXCEPT ![p] = r], r.pc \in Inside, r.op = proc[p].op,
         \/ r.mine = proc[p].mine
         \/ r.mine \in file.items /\ r.mine.kind = proc[p].mine.kind /\ r.mine.kind # "change",
         r.mine.kind = "change" /\ r.pc # "return" => proc[p].mine \notin file.items,
         InHand(p)', temp' \in [Procs -> Entries \cup {Missing}],
         UNCHANGED <<dir, locked, holder, file, disk, acked, ops, faults>>
  PROVE  StorageInv'
<1>1. proc \in [Procs -> ProcType]
  BY DEF StorageInv, TypeOK, ProcType
<1>2. /\ \A q \in Procs \ {p} : proc'[q] = proc[q]
      /\ proc'[p] = r
      /\ proc' \in [Procs -> ProcType]
  BY <1>1
<1>3. TypeOK'
  BY <1>2 DEF StorageInv, TypeOK, ProcType
<1>4. LockInv'
  BY <1>2 DEF StorageInv, LockInv
<1>5. proc[p].pc # "idle" /\ r.pc # "idle"
  BY DEF StorageInv, LockInv, Inside
<1>6. \A q \in Procs : OwnItem(q)'
  <2>1. OwnItem(p)'
    <3>1. r.mine \in Items
      BY <1>5 DEF StorageInv, OwnItem, TypeOK, Entries
    <3>2. r.mine.op <= ops
      BY DEF StorageInv, OwnItem, ChangesDiffer
    <3>3. QED
      BY <1>2, <1>5, <3>1, <3>2 DEF StorageInv, OwnItem
  <2>2. QED
    BY <1>2, <2>1 DEF StorageInv, OwnItem
<1>7. ChangesDiffer'
  <2>1. \A q \in Procs \ {p} : proc[q].mine.kind = "change" => proc[q].mine # r.mine
    BY DEF StorageInv, ChangesDiffer
  <2>2. \A q \in Procs \ {p} : r.mine.kind = "change" => proc[q].mine # r.mine
    BY DEF StorageInv, ChangesDiffer
  <2>3. QED
    BY <1>2, <2>1, <2>2 DEF StorageInv, ChangesDiffer
<1>8. \A q \in Procs : InHand(q)'
  BY <1>2, OthersWait
<1>9. EntriesInv'
  BY DEF StorageInv, EntriesInv
<1>10. QED
  BY <1>3, <1>4, <1>6, <1>7, <1>8, <1>9 DEF StorageInv

\* The holder, at a step before the replacement.
LEMMA HolderFacts ==
  ASSUME StorageInv, NEW p \in Procs, proc[p].pc \in Inside
  PROVE  /\ holder = p
         /\ proc \in [Procs -> ProcType]
         /\ proc[p].mine \in Items
         /\ proc[p].op \in Ops
         /\ file.items \subseteq Items
         /\ proc[p].mine.kind = (IF proc[p].op \in {"identity", "issuer"} THEN proc[p].op ELSE "change")
         /\ proc[p].pc \notin {"syncdir", "return"} /\ proc[p].mine.kind = "change"
              => proc[p].mine \notin file.items
<1>1. holder = p
  BY DEF StorageInv, LockInv
<1>2. proc \in [Procs -> ProcType] /\ file.items \subseteq Items
  BY DEF StorageInv, TypeOK, ProcType, Entries
<1>3. proc[p].mine \in Items /\ proc[p].op \in Ops
  BY DEF StorageInv, OwnItem, Inside
<1>4. proc[p].mine.kind = (IF proc[p].op \in {"identity", "issuer"} THEN proc[p].op ELSE "change")
  BY <1>3 DEF StorageInv, OwnItem, Ops
<1>5. proc[p].pc \notin {"syncdir", "return"} /\ proc[p].mine.kind = "change" => proc[p].mine \notin file.items
  BY DEF StorageInv, ChangesDiffer
<1>6. QED
  BY <1>1, <1>2, <1>3, <1>4, <1>5

\* A change is put onto what the file holds now.
LEMMA ChangeStep ==
  ASSUME StorageInv, NEW p \in Procs, proc[p].pc \in {"load", "reload"},
         proc[p].op \in {"offer", "decide"},
         proc' = [proc EXCEPT ![p].pc = "encode", ![p].next = "return",
                              ![p].state = file.items \cup {proc[p].mine}],
         UNCHANGED <<dir, locked, holder, file, disk, temp, acked, ops, faults>>
  PROVE  StorageInv'
<1> DEFINE r == [proc[p] EXCEPT !.pc = "encode", !.next = "return",
                                !.state = file.items \cup {proc[p].mine}]
<1>1. /\ holder = p /\ proc \in [Procs -> ProcType] /\ proc[p].mine \in Items
      /\ proc[p].mine.kind = "change" /\ proc[p].mine \notin file.items /\ file.items \subseteq Items
  BY HolderFacts DEF Inside
<1>2. proc' = [proc EXCEPT ![p] = r]
  BY <1>1
<1>3. /\ r.pc = "encode" /\ r.next = "return" /\ r.state = file.items \cup {proc[p].mine}
      /\ r.mine = proc[p].mine /\ r.op = proc[p].op /\ r \in ProcType
  BY <1>1 DEF ProcType, Steps
<1> HIDE DEF r
<1>4. proc'[p] = r
  BY <1>1, <1>2
<1>5. InHand(p)'
  BY <1>1, <1>3, <1>4 DEF InHand, Writing, Added
<1>6. temp' \in [Procs -> Entries \cup {Missing}]
  BY DEF StorageInv, TypeOK
<1>7. QED
  BY <1>1, <1>2, <1>3, <1>5, <1>6, InsideStep DEF Inside

\* Load-or-create of the identity or the issuer: hand out the one the file
\* holds, or add one when it holds none.
LEMMA LoadOrCreateStep ==
  ASSUME StorageInv, NEW p \in Procs, NEW kind \in {"identity", "issuer"},
         NEW next \in {"reload", "return"},
         \/ proc[p].pc = "load" /\ next = "return" /\ proc[p].op = kind
         \/ proc[p].pc = "ident" /\ next = "reload" /\ kind = "identity",
         LoadOrCreate(p, kind, next),
         UNCHANGED <<dir, locked, holder, file, disk, temp, acked, ops, faults>>
  PROVE  StorageInv'
<1>1. /\ holder = p /\ proc \in [Procs -> ProcType] /\ proc[p].mine \in Items
      /\ proc[p].mine.kind = "change" => proc[p].mine \notin file.items
      /\ proc[p].mine.kind = (IF proc[p].op \in {"identity", "issuer"} THEN proc[p].op ELSE "change")
      /\ file.items \subseteq Items
  BY HolderFacts DEF Inside
<1>2. /\ proc[p].pc = "ident" => proc[p].op = "offer" /\ proc[p].mine.kind = "change"
      /\ proc[p].pc = "load" => proc[p].state = {}
  BY <1>1 DEF StorageInv, InHand
<1>3. temp' \in [Procs -> Entries \cup {Missing}]
  BY DEF StorageInv, TypeOK
<1>4. CASE /\ Held(kind) = {}
           /\ proc' = [proc EXCEPT ![p].pc = "encode", ![p].next = next,
                                   ![p].state = file.items \cup {Fresh(p, kind)}]
  <2> DEFINE r == [proc[p] EXCEPT !.pc = "encode", !.next = next, !.state = file.items \cup {Fresh(p, kind)}]
  <2>1. Fresh(p, kind) \in Items /\ Fresh(p, kind).kind = kind
        /\ (proc[p].mine.kind = kind => Fresh(p, kind) = proc[p].mine)
    BY <1>1 DEF Fresh, Items, Kinds
  <2>2. proc' = [proc EXCEPT ![p] = r]
    BY <1>1, <1>4
  <2>3. /\ r.pc = "encode" /\ r.next = next /\ r.state = file.items \cup {Fresh(p, kind)}
        /\ r.mine = proc[p].mine /\ r.op = proc[p].op /\ r \in ProcType
    BY <1>1, <2>1 DEF ProcType, Steps
  <2> HIDE DEF r
  <2>4. proc'[p] = r
    BY <1>1, <2>2
  <2>5. Added(p)' = Fresh(p, kind)
    BY <1>1, <2>1, <2>3, <2>4 DEF Added, Fresh
  <2>6. InHand(p)'
    BY <1>2, <1>4, <2>1, <2>3, <2>4, <2>5 DEF InHand, Writing, Held
  <2>7. QED
    BY <1>1, <1>3, <2>2, <2>3, <2>6, InsideStep DEF Inside
<1>5. ASSUME NEW found \in Held(kind),
             proc' = [proc EXCEPT ![p].pc = next, ![p].mine = IF next = "return" THEN found ELSE @]
      PROVE  StorageInv'
  <2> DEFINE r == [proc[p] EXCEPT !.pc = next, !.mine = IF next = "return" THEN found ELSE @]
  <2>1. found \in file.items /\ found.kind = kind /\ found \in Items
    BY <1>1 DEF Held, OfKind
  <2>2. proc' = [proc EXCEPT ![p] = r]
    BY <1>1, <1>5
  <2>3. /\ r.pc = next /\ r.next = proc[p].next /\ r.state = proc[p].state
        /\ r.mine = (IF next = "return" THEN found ELSE proc[p].mine) /\ r.op = proc[p].op /\ r \in ProcType
    BY <1>1, <2>1 DEF ProcType, Steps
  <2> HIDE DEF r
  <2>4. proc'[p] = r
    BY <1>1, <2>2
  <2>5. InHand(p)'
    BY <1>2, <2>1, <2>3, <2>4 DEF InHand, Writing
  <2>6. QED
    BY <1>1, <1>3, <2>1, <2>2, <2>3, <2>5, InsideStep DEF Inside
<1>6. QED
  BY <1>4, <1>5 DEF LoadOrCreate

\* create_offer and consume_offer read the state that they will not use.
LEMMA LoadForOfferStep ==
  ASSUME StorageInv, NEW p \in Procs, LoadForOffer(p)
  PROVE  StorageInv'
<1> DEFINE r == [proc[p] EXCEPT !.pc = "ident", !.state = file.items]
<1>1. /\ proc[p].pc = "load" /\ proc[p].op = "offer"
      /\ UNCHANGED <<dir, locked, holder, file, disk, temp, acked, ops, faults>>
  BY DEF LoadForOffer, At
<1>2. /\ holder = p /\ proc \in [Procs -> ProcType] /\ file.items \subseteq Items
      /\ proc[p].mine.kind = "change" => proc[p].mine \notin file.items
  BY <1>1, HolderFacts DEF Inside
<1>3. proc' = [proc EXCEPT ![p] = r]
  BY <1>2 DEF LoadForOffer
<1>4. /\ r.pc = "ident" /\ r.op = proc[p].op /\ r.mine = proc[p].mine /\ r \in ProcType
  BY <1>2 DEF ProcType, Steps
<1> HIDE DEF r
<1>5. proc'[p] = r
  BY <1>2, <1>3
<1>6. InHand(p)'
  BY <1>1, <1>4, <1>5 DEF InHand, Writing
<1>7. temp' \in [Procs -> Entries \cup {Missing}]
  BY <1>1 DEF StorageInv, TypeOK
<1>8. QED
  BY <1>1, <1>2, <1>3, <1>4, <1>6, <1>7, InsideStep DEF Inside

\* Encoding, and writing and syncing the temporary file, up to the replacement.
LEMMA WriteStep ==
  ASSUME StorageInv, NEW p \in Procs, Encode(p) \/ WriteTemp(p) \/ SyncTemp(p)
  PROVE  StorageInv'
<1> DEFINE c == IF Encode(p) THEN "write" ELSE IF WriteTemp(p) THEN "sync" ELSE "replace"
           r == [proc[p] EXCEPT !.pc = c]
<1>1. /\ proc[p].pc = (IF Encode(p) THEN "encode" ELSE IF WriteTemp(p) THEN "write" ELSE "sync")
      /\ UNCHANGED <<dir, locked, holder, file, disk, acked, ops, faults>>
      /\ Goto(p, c)
  BY DEF Encode, WriteTemp, SyncTemp, At
<1>2. proc[p].pc \in Writing /\ proc[p].pc # "replace" /\ c \in Writing /\ c # "encode"
  BY <1>1 DEF Writing
<1>3. /\ holder = p /\ proc \in [Procs -> ProcType]
      /\ proc[p].mine.kind = "change" => proc[p].mine \notin file.items
  BY <1>2, HolderFacts DEF Inside, Writing
<1>4. temp \in [Procs -> Entries \cup {Missing}] /\ InHand(p)
  BY DEF StorageInv, TypeOK
<1>5. proc' = [proc EXCEPT ![p] = r]
  BY <1>1, <1>3 DEF Goto
<1>6. /\ \/ temp' = temp
         \/ temp' = [temp EXCEPT ![p] = [items |-> proc[p].state, whole |-> TRUE, synced |-> FALSE]]
         \/ temp' = [temp EXCEPT ![p] = [temp[p] EXCEPT !.synced = TRUE]]
      /\ (c = "sync" => temp' = [temp EXCEPT ![p] = [items |-> proc[p].state, whole |-> TRUE, synced |-> FALSE]])
      /\ (c = "replace" => temp' = [temp EXCEPT ![p].synced = TRUE] /\ proc[p].pc = "sync")
  BY <1>1 DEF Encode, WriteTemp, SyncTemp
<1>7. c \in Steps
  BY DEF Steps
<1> HIDE DEF c
<1>8. /\ r.pc = c /\ r.next = proc[p].next /\ r.state = proc[p].state
      /\ r.mine = proc[p].mine /\ r.op = proc[p].op /\ r \in ProcType
  BY <1>3, <1>7 DEF ProcType
<1> HIDE DEF r
<1>9. proc'[p] = r
  BY <1>3, <1>5
<1>10. c = "sync" => temp'[p] = [items |-> proc[p].state, whole |-> TRUE, synced |-> FALSE]
  BY <1>4, <1>6
<1>11. c = "replace" => temp'[p] = [items |-> proc[p].state, whole |-> TRUE, synced |-> TRUE]
  BY <1>4, <1>6 DEF InHand, Entries, Missing
<1>12. temp' \in [Procs -> Entries \cup {Missing}]
  <2>1. proc[p].state \in SUBSET Items
    BY <1>3 DEF ProcType
  <2>2. temp[p] \in Entries
    BY <1>4, MissingEntry
  <2>3. [items |-> proc[p].state, whole |-> TRUE, synced |-> FALSE] \in Entries
    BY <2>1 DEF Entries
  <2>4. [temp[p] EXCEPT !.synced = TRUE] \in Entries
    BY <2>2 DEF Entries
  <2>5. QED
    BY <1>4, <1>6, <2>3, <2>4
<1>13. Added(p)' = Added(p)
  BY <1>8, <1>9 DEF Added, Fresh
<1>14. InHand(p)'
  BY <1>1, <1>2, <1>4, <1>8, <1>9, <1>10, <1>11, <1>13 DEF InHand, Writing, Held
<1>15. c \in Inside /\ c # "return"
  BY <1>2 DEF Inside, Writing
<1>16. QED
  BY <1>1, <1>3, <1>5, <1>8, <1>12, <1>14, <1>15, InsideStep

\* The replacement adds one item to what the file holds, and no second one of
\* a kind of which there is one.
LEMMA ReplaceAdds ==
  ASSUME StorageInv, NEW p \in Procs, Replace(p)
  PROVE  /\ file' = [items |-> file.items \cup {Added(p)}, whole |-> TRUE, synced |-> TRUE]
         /\ Added(p) \in Items /\ Added(p) \notin file.items
         /\ Added(p).kind # "change" => Held(Added(p).kind) = {}
         /\ Added(p).op = proc[p].mine.op
         /\ Added(p).kind = "change" => Added(p) = proc[p].mine
         /\ proc[p].next = "reload" => Added(p).kind = "identity"
         /\ Added(p)' = Added(p)
         /\ UNCHANGED <<dir, locked, holder, disk, acked, ops, faults>>
<1>1. /\ proc[p].pc = "replace" /\ file' = temp[p]
      /\ UNCHANGED <<dir, locked, holder, disk, acked, ops, faults>>
  BY DEF Replace, At
<1>2. /\ holder = p /\ proc \in [Procs -> ProcType] /\ proc[p].mine \in Items
      /\ proc[p].mine.kind = "change" => proc[p].mine \notin file.items
  BY <1>1, HolderFacts DEF Inside
<1>3. InHand(p)
  BY DEF StorageInv
<1>4. /\ temp[p] = [items |-> file.items \cup {Added(p)}, whole |-> TRUE, synced |-> TRUE]
      /\ Added(p).kind # "change" => Held(Added(p).kind) = {}
      /\ proc[p].next \in {"reload", "return"}
  BY <1>1, <1>3 DEF InHand, Writing
<1>5. /\ Fresh(p, "identity") \in Items /\ Fresh(p, "identity").kind = "identity"
      /\ Fresh(p, "identity").op = proc[p].mine.op
  BY <1>2 DEF Fresh, Items, Kinds
<1>6. /\ Added(p) \in Items /\ Added(p).op = proc[p].mine.op
      /\ Added(p).kind = "change" => Added(p) = proc[p].mine
      /\ proc[p].next = "reload" => Added(p).kind = "identity"
  BY <1>2, <1>4, <1>5 DEF Added
<1>7. Added(p) \notin file.items
  BY <1>2, <1>4, <1>6 DEF Held, OfKind
<1>8. Added(p)' = Added(p)
  BY <1>2 DEF Replace, Goto, Added, Fresh, ProcType
<1>9. QED
  BY <1>1, <1>4, <1>6, <1>7, <1>8

LEMMA ReplaceStep ==
  ASSUME StorageInv, NEW p \in Procs, Replace(p)
  PROVE  StorageInv'
<1> DEFINE new == Added(p)
<1>1. /\ file' = [items |-> file.items \cup {new}, whole |-> TRUE, synced |-> TRUE]
      /\ new \in Items /\ new.op = proc[p].mine.op
      /\ new.kind = "change" => new = proc[p].mine
      /\ proc[p].next = "reload" => new.kind = "identity"
      /\ Added(p)' = new
      /\ UNCHANGED <<dir, locked, holder, disk, acked, ops, faults>>
  BY ReplaceAdds
<1>2. proc[p].pc = "replace" /\ temp' = [temp EXCEPT ![p] = Missing] /\ Goto(p, "syncdir")
  BY DEF Replace, At
<1>3. /\ holder = p /\ proc \in [Procs -> ProcType] /\ file.items \subseteq Items
      /\ proc[p].mine.kind = "change" => proc[p].mine \notin file.items
  BY <1>2, HolderFacts DEF Inside
<1> HIDE DEF new
<1>4. /\ proc'[p].pc = "syncdir" /\ proc'[p].op = proc[p].op /\ proc'[p].mine = proc[p].mine
      /\ proc'[p].state = proc[p].state /\ proc'[p].next = proc[p].next
  BY <1>2, <1>3 DEF Goto, ProcType
<1>5. \A q \in Procs \ {p} : proc'[q] = proc[q]
  BY <1>2, <1>3 DEF Goto
<1>6. proc' \in [Procs -> ProcType]
  <2>1. "syncdir" \in Steps
    BY DEF Steps
  <2>2. QED
    BY <1>2, <1>3, <2>1, Zenon DEF Goto, ProcType
<1>7. file'.items = file.items \cup {new} /\ file'.whole = TRUE /\ file'.synced = TRUE
  BY <1>1
<1>8. TypeOK'
  <2>1. file' \in Entries
    BY <1>1, <1>3 DEF Entries
  <2>2. temp' \in [Procs -> Entries \cup {Missing}]
    BY <1>2 DEF StorageInv, TypeOK
  <2>3. QED
    BY <1>1, <1>6, <2>1, <2>2 DEF StorageInv, TypeOK, ProcType
<1>9. LockInv'
  BY <1>1, <1>2, <1>4, <1>5 DEF StorageInv, LockInv, Inside
<1>10. \A q \in Procs : OwnItem(q)'
  BY <1>1, <1>2, <1>4, <1>5 DEF StorageInv, OwnItem
<1>11. ChangesDiffer'
  <2>1. \A i \in file'.items : i.op <= ops'
    <3>1. new.op <= ops /\ \A i \in file.items : i.op <= ops
      BY <1>1 DEF StorageInv, ChangesDiffer, OwnItem
    <3>2. QED
      BY <1>1, <1>7, <3>1
  <2>2. \A q, u \in Procs : q # u /\ proc'[q].mine.kind = "change" => proc'[q].mine # proc'[u].mine
    BY <1>4, <1>5 DEF StorageInv, ChangesDiffer
  <2>3. ASSUME NEW q \in Procs \ {p}, proc'[q].mine.kind = "change"
        PROVE  proc'[q].mine \notin file'.items
    <3>1. proc[q].mine # new
      BY <1>1, <1>5, <2>3 DEF StorageInv, ChangesDiffer
    <3>2. proc[q].pc \notin {"return", "syncdir"}
      BY <1>3 DEF StorageInv, LockInv, Inside
    <3>3. QED
      BY <1>5, <1>7, <2>3, <3>1, <3>2 DEF StorageInv, ChangesDiffer
  <2>4. proc'[p].mine.kind = "change" /\ proc'[p].next # "return" => proc'[p].mine \notin file'.items
    <3>1. proc[p].next \in {"reload", "return"}
      BY <1>2 DEF StorageInv, InHand, Writing
    <3>2. QED
      BY <1>1, <1>3, <1>4, <1>7, <3>1
  <2>5. \A q \in Procs :
          /\ proc'[q].mine.kind = "change"
          /\ ~(proc'[q].pc = "syncdir" /\ proc'[q].next = "return")
          => proc'[q].mine \notin file'.items
    BY <1>4, <2>3, <2>4
  <2>6. QED
    BY <2>1, <2>2, <2>5 DEF ChangesDiffer
<1>12. \A q \in Procs : InHand(q)'
  <2>1. InHand(p)'
    <3>1. proc[p].next \in {"reload", "return"} /\ (proc[p].next = "reload" => proc[p].op = "offer")
      BY <1>2 DEF StorageInv, InHand, Writing
    <3>2. QED
      BY <1>1, <1>4, <1>7, <3>1 DEF InHand, Writing
  <2>2. QED
    BY <1>3, <1>5, <2>1, OthersWait
<1>13. EntriesInv'
  BY <1>1, <1>7 DEF StorageInv, EntriesInv
<1>14. QED
  BY <1>8, <1>9, <1>10, <1>11, <1>12, <1>13 DEF StorageInv

\* Syncing the directory makes what the file holds durable, the new item
\* with it.
LEMMA SyncDirectoryStep ==
  ASSUME StorageInv, NEW p \in Procs, SyncDirectory(p)
  PROVE  StorageInv'
<1>1. /\ proc[p].pc = "syncdir" /\ disk' = file /\ Goto(p, proc[p].next)
      /\ UNCHANGED <<dir, locked, holder, file, temp, acked, ops, faults>>
  BY DEF SyncDirectory, At
<1>2. holder = p /\ proc \in [Procs -> ProcType]
  BY <1>1, HolderFacts DEF Inside
<1>3. /\ proc[p].next \in {"reload", "return"}
      /\ proc[p].next = "reload" => proc[p].op = "offer"
      /\ Added(p) \in file.items
  BY <1>1 DEF StorageInv, InHand
<1>4. /\ proc'[p].pc = proc[p].next /\ proc'[p].op = proc[p].op /\ proc'[p].mine = proc[p].mine
      /\ proc'[p].state = proc[p].state /\ proc'[p].next = proc[p].next
  BY <1>1, <1>2 DEF Goto, ProcType
<1>5. \A q \in Procs \ {p} : proc'[q] = proc[q]
  BY <1>1, <1>2 DEF Goto
<1>6. proc' \in [Procs -> ProcType]
  <2>1. proc[p].next \in Steps
    BY <1>3 DEF Steps
  <2>2. QED
    BY <1>1, <1>2, <2>1, Zenon DEF Goto, ProcType
<1>7. TypeOK'
  BY <1>1, <1>6 DEF StorageInv, TypeOK, ProcType
<1>8. LockInv'
  BY <1>1, <1>2, <1>3, <1>4, <1>5 DEF StorageInv, LockInv, Inside
<1>9. \A q \in Procs : OwnItem(q)'
  BY <1>1, <1>3, <1>4, <1>5 DEF StorageInv, OwnItem
<1>10. ChangesDiffer'
  BY <1>1, <1>3, <1>4, <1>5 DEF StorageInv, ChangesDiffer
<1>11. \A q \in Procs : InHand(q)'
  <2>1. InHand(p)'
    BY <1>1, <1>3, <1>4 DEF InHand, Writing, Added
  <2>2. QED
    BY <1>2, <1>5, <2>1, OthersWait
<1>12. EntriesInv'
  BY <1>1 DEF StorageInv, EntriesInv
<1>13. QED
  BY <1>7, <1>8, <1>9, <1>10, <1>11, <1>12 DEF StorageInv

\* What is reported as stored is durable at that moment.
LEMMA StoredIsDurable ==
  ASSUME StorageInv, NEW p \in Procs, proc[p].pc = "return"
  PROVE  Stored(p) \subseteq disk.items /\ proc[p].mine \in file.items
BY DEF StorageInv, InHand, Stored

\* A power loss leaves the entry the name led to or the durable one, both
\* whole, with everything acknowledged.
LEMMA PowerLossLeaves ==
  ASSUME StorageInv, PowerLoss
  PROVE  /\ file' \in {file, disk} /\ disk' = file'
         /\ disk.items \subseteq file'.items /\ file'.items \subseteq file.items
<1>1. file \in Entries /\ disk \in Entries
  BY DEF StorageInv, TypeOK
<1>2. \A e \in {file, disk} : AfterPowerLoss(e) = e
  BY <1>1 DEF StorageInv, EntriesInv, AfterPowerLoss, Entries
<1>3. QED
  BY <1>2 DEF StorageInv, EntriesInv, PowerLoss

LEMMA PowerLossStep ==
  ASSUME StorageInv, PowerLoss
  PROVE  StorageInv'
<1>1. /\ file' \in {file, disk} /\ disk' = file'
      /\ disk.items \subseteq file'.items /\ file'.items \subseteq file.items
  BY PowerLossLeaves
<1>2. /\ holder' = None /\ acked' = acked /\ ops' = ops
      /\ proc' = [p \in Procs |-> Idle] /\ temp' = [p \in Procs |-> Missing]
      /\ faults < MaxFaults /\ faults' = faults + 1
  BY DEF PowerLoss
<1>3. \A p \in Procs : proc'[p] = Idle
  BY <1>2
<1>4. TypeOK'
  <2>1. dir' \in BOOLEAN /\ locked' \in BOOLEAN
    BY DEF PowerLoss, StorageInv, TypeOK
  <2>2. proc' \in [Procs -> ProcType] /\ temp' \in [Procs -> Entries \cup {Missing}]
    BY <1>2, IdleFacts
  <2>3. faults' \in 0..MaxFaults
    BY <1>2, StateAssumption DEF StorageInv, TypeOK
  <2>4. QED
    BY <1>1, <1>2, <2>1, <2>2, <2>3 DEF StorageInv, TypeOK, ProcType
<1>5. LockInv'
  BY <1>2, <1>3, IdleFacts, StateAssumption DEF LockInv, Inside
<1>6. \A p \in Procs : OwnItem(p)'
  <2>1. 0 <= ops'
    BY <1>2 DEF StorageInv, TypeOK
  <2>2. QED
    BY <1>3, <2>1, IdleFacts DEF OwnItem
<1>7. ChangesDiffer'
  BY <1>1, <1>2, <1>3, IdleFacts DEF StorageInv, ChangesDiffer
<1>8. \A p \in Procs : InHand(p)'
  BY <1>3, IdleFacts DEF InHand, Writing
<1>9. EntriesInv'
  BY <1>1, <1>2 DEF StorageInv, EntriesInv
<1>10. QED
  BY <1>4, <1>5, <1>6, <1>7, <1>8, <1>9 DEF StorageInv

-----------------------------------------------------------------------------
(* Theorems                                                                *)

\* Every step of every process keeps the invariant.
LEMMA StorageNext == StorageInv /\ [Next]_vars => StorageInv'
<1> SUFFICES ASSUME StorageInv, [Next]_vars PROVE StorageInv'
  OBVIOUS
<1>0. dir \in BOOLEAN /\ locked \in BOOLEAN /\ faults \in 0..MaxFaults /\ acked \subseteq disk.items
  BY DEF StorageInv, TypeOK, EntriesInv
<1>1. ASSUME NEW p \in Procs, NEW op \in Ops, Begin(p, op) PROVE StorageInv'
  BY <1>1, BeginStep
<1>2. ASSUME NEW p \in Procs, EnsureDirectory(p) PROVE StorageInv'
  BY <1>0, <1>2, ApproachStep DEF EnsureDirectory, At
<1>3. ASSUME NEW p \in Procs, MakeDirectory(p) PROVE StorageInv'
  BY <1>0, <1>3, ApproachStep DEF MakeDirectory, At
<1>4. ASSUME NEW p \in Procs, LookForLock(p) PROVE StorageInv'
  BY <1>0, <1>4, ApproachStep DEF LookForLock, At
<1>5. ASSUME NEW p \in Procs, CreateLock(p) PROVE StorageInv'
  BY <1>0, <1>5, ApproachStep DEF CreateLock, At
<1>6. ASSUME NEW p \in Procs, Acquire(p) PROVE StorageInv'
  BY <1>6, AcquireStep
<1>7. ASSUME NEW p \in Procs,
             PathRefused(p) \/ LockTimesOut(p) \/ LoadFails(p) \/ TooLarge(p) \/ WriteFails(p)
      PROVE  StorageInv'
  BY <1>0, <1>7, LeaveStep DEF PathRefused, LockTimesOut, LoadFails, TooLarge, WriteFails
<1>8. ASSUME NEW p \in Procs, LoadIdentity(p) PROVE StorageInv'
  BY <1>8, LoadOrCreateStep DEF LoadIdentity, At
<1>9. ASSUME NEW p \in Procs, LoadIssuer(p) PROVE StorageInv'
  BY <1>9, LoadOrCreateStep DEF LoadIssuer, At
<1>10. ASSUME NEW p \in Procs, EnsureIdentity(p) PROVE StorageInv'
  BY <1>10, LoadOrCreateStep DEF EnsureIdentity, At
<1>11. ASSUME NEW p \in Procs, LoadAndChange(p) PROVE StorageInv'
  BY <1>11, ChangeStep DEF LoadAndChange, At
<1>12. ASSUME NEW p \in Procs, Reload(p) PROVE StorageInv'
  <2>1. proc[p].pc = "reload" /\ proc[p].op = "offer"
    BY <1>12 DEF Reload, At, StorageInv, InHand
  <2>2. QED
    BY <1>12, <2>1, ChangeStep DEF Reload
<1>13. ASSUME NEW p \in Procs, LoadForOffer(p) PROVE StorageInv'
  BY <1>13, LoadForOfferStep
<1>14. ASSUME NEW p \in Procs, Encode(p) \/ WriteTemp(p) \/ SyncTemp(p) PROVE StorageInv'
  BY <1>14, WriteStep
<1>15. ASSUME NEW p \in Procs, Replace(p) PROVE StorageInv'
  BY <1>15, ReplaceStep
<1>16. ASSUME NEW p \in Procs, SyncDirectory(p) PROVE StorageInv'
  BY <1>16, SyncDirectoryStep
<1>17. ASSUME NEW p \in Procs, Return(p) PROVE StorageInv'
  <2>1. acked' \subseteq disk.items
    BY <1>0, <1>17, StoredIsDurable DEF Return, At
  <2>2. QED
    BY <1>0, <1>17, <2>1, LeaveStep DEF Return
<1>18. ASSUME NEW p \in Procs, ProcessDies(p) PROVE StorageInv'
  <2>1. faults' \in 0..MaxFaults
    BY <1>0, <1>18, StateAssumption DEF ProcessDies
  <2>2. QED
    BY <1>0, <1>18, <2>1, LeaveStep DEF ProcessDies
<1>19. CASE PowerLoss
  BY <1>19, PowerLossStep
<1>20. CASE UNCHANGED vars
  <2>1. TypeOK' /\ LockInv' /\ ChangesDiffer' /\ EntriesInv'
    BY <1>20 DEF vars, StorageInv, TypeOK, LockInv, ChangesDiffer, EntriesInv
  <2>2. \A p \in Procs : OwnItem(p)' /\ InHand(p)'
    BY <1>20, SameInHand DEF vars, StorageInv, OwnItem
  <2>3. QED
    BY <2>1, <2>2 DEF StorageInv
<1>21. QED
  BY <1>1, <1>2, <1>3, <1>4, <1>5, <1>6, <1>7, <1>8, <1>9, <1>10, <1>11, <1>12, <1>13, <1>14, <1>15,
     <1>16, <1>17, <1>18, <1>19, <1>20 DEF Next

\* Whatever crashes or fails at whichever step of however many processes'
\* transactions, the state file can be read again, and everything a caller
\* was told is stored is in the entry that a power loss leaves.
THEOREM StateFileSurvives == Spec => []StateSurvives
<1>1. Init => StorageInv
  BY StorageInit
<1>2. StorageInv /\ [Next]_vars => StorageInv'
  BY StorageNext
<1>3. StorageInv => StateSurvives
  BY DEF StorageInv, EntriesInv, StateSurvives, FileIsWhole, AckedIsDurable
<1>4. QED
  BY <1>1, <1>2, <1>3, PTL DEF Spec

\* Each step of the processes is a step of AtomicState or none: only the
\* replacement updates, only the return acknowledges, and only a power loss
\* takes something back, never what was acknowledged.
LEMMA StepRefines ==
  ASSUME StorageInv, [Next]_vars
  PROVE  [Promised!Next]_Promised!vars
<1> SUFFICES Promised!Next \/ (file'.items = file.items /\ acked' = acked)
  BY DEF Promised!vars
<1>1. ASSUME NEW p \in Procs, Replace(p) PROVE Promised!Next
  <2>1. /\ Added(p) \notin file.items /\ file'.items = file.items \cup {Added(p)} /\ acked' = acked
        /\ Added(p).kind # "change" => Held(Added(p).kind) = {}
    BY <1>1, ReplaceAdds
  <2>2. Promised!Update(Added(p))
    BY <2>1 DEF Promised!Update, Held, OfKind
  <2>3. QED
    BY <2>1, <2>2 DEF Promised!Next
<1>2. ASSUME NEW p \in Procs, Return(p)
      PROVE  Promised!Next \/ (file'.items = file.items /\ acked' = acked)
  <2>1. /\ proc[p].mine \in file.items /\ file' = file /\ acked' = acked \cup Stored(p)
        /\ Stored(p) \in {{}, {proc[p].mine}}
    BY <1>2, StoredIsDurable DEF Return, At, Stored
  <2>2. CASE Stored(p) = {}
    BY <2>1, <2>2
  <2>3. CASE Stored(p) = {proc[p].mine}
    <3>1. Promised!Acknowledge(proc[p].mine) /\ proc[p].mine \in acked'
      BY <2>1, <2>3 DEF Promised!Acknowledge
    <3>2. QED
      BY <3>1 DEF Promised!Next
  <2>4. QED
    BY <2>1, <2>2, <2>3
<1>3. CASE PowerLoss
  <2>1. acked' = acked /\ acked \subseteq file'.items /\ file'.items \subseteq file.items
    BY <1>3, PowerLossLeaves DEF PowerLoss, StorageInv, EntriesInv
  <2>2. QED
    BY <2>1 DEF Promised!Next, Promised!Lose
<1>4. ASSUME NEW p \in Procs,
             \/ \E op \in Ops : Begin(p, op)
             \/ EnsureDirectory(p) \/ MakeDirectory(p) \/ PathRefused(p)
             \/ LookForLock(p) \/ CreateLock(p) \/ Acquire(p) \/ LockTimesOut(p)
             \/ LoadIdentity(p) \/ LoadIssuer(p) \/ LoadAndChange(p) \/ LoadForOffer(p)
             \/ EnsureIdentity(p) \/ Reload(p) \/ LoadFails(p)
             \/ Encode(p) \/ TooLarge(p)
             \/ WriteTemp(p) \/ SyncTemp(p) \/ SyncDirectory(p) \/ WriteFails(p) \/ ProcessDies(p)
      PROVE  file' = file /\ acked' = acked
  BY <1>4 DEF Begin, EnsureDirectory, MakeDirectory, PathRefused, LookForLock, CreateLock, Acquire,
       LockTimesOut, LoadIdentity, LoadIssuer, LoadAndChange, LoadForOffer, EnsureIdentity, Reload,
       LoadFails, Encode, TooLarge, WriteTemp, SyncTemp, SyncDirectory, WriteFails, ProcessDies
<1>5. CASE UNCHANGED vars
  BY <1>5 DEF vars
<1>6. QED
  BY <1>1, <1>2, <1>3, <1>4, <1>5 DEF Next

\* Processes that race, fail and crash inside the lock together look like
\* transactions of AtomicState, one at a time: one identity, one issuer, no
\* update lost to another process' write, no acknowledged item gone.
THEOREM StateFileImplementsAtomicState == Spec => ImplementsAtomicState
<1>1. Init => Promised!Init
  BY DEF Init, Promised!Init, Missing
<1>2. Init => StorageInv
  BY StorageInit
<1>3. StorageInv /\ [Next]_vars => StorageInv'
  BY StorageNext
<1>4. StorageInv /\ [Next]_vars => [Promised!Next]_Promised!vars
  BY StepRefines
<1>5. QED
  BY <1>1, <1>2, <1>3, <1>4, PTL DEF Spec, ImplementsAtomicState, Promised!Spec
=============================================================================
