------------------------- MODULE LocalRequestsProofs -------------------------
(***************************************************************************)
(* Proofs about the requests a lease answers itself, for any number of      *)
(* tasks, ids, payloads, rows, attachments and changes by the owner, and    *)
(* any limits.  LocalInv is the inductive invariant: threads (ThreadInv),   *)
(* pages (PagesInv), tasks (TaskInv), the ledger and who waits (LedgerInv). *)
(***************************************************************************)
EXTENDS LocalRequests, FiniteSetTheorems, TLAPS

(***************************************************************************)
(* The inductive invariant                                                 *)
(***************************************************************************)

FileCalls == {"first", "canon", "final", "open", "look", "mkdir", "check", "list", "read"}

\* a thread works below the root: with the spelling it was given until it
\* holds the folder open, and in the folder it opened from then on
ThreadOK(t) ==
    /\ thread[t].path \in {"none", "R/a", "R/a/n"} /\ thread[t].dir \in {"none", "in"}
    /\ thread[t].pc \in FileCalls => thread[t].path # "none"
    /\ thread[t].pc \in {"look", "mkdir", "check"} => thread[t].dir = "in"
    /\ thread[t].pc = "open" => thread[t].dir = "none" /\ thread[t].op = "create"
    /\ thread[t].pc \in {"first", "canon", "final", "open"}
          /\ thread[t].op = "create" /\ thread[t].dir = "none" => thread[t].path = "R/a"

ThreadInv == \A t \in Tasks : ThreadOK(t)

\* a task's kind says what it was asked with and what its thread may do
TaskOK(t) ==
    /\ task[t].kind = "none" => ~task[t].live /\ thread[t].pc = "none"
    /\ IF task[t].kind = "create" THEN task[t].id \in Ids /\ task[t].payload \in Payloads
       ELSE task[t].id = NoOne
    /\ task[t].kind = "page" => thread[t].pc \in {"none", "page", "done"} /\ pager.state # "off"
    /\ thread[t].pc = "page" => task[t].kind = "page"
    /\ thread[t].out = "ok" => thread[t].pc = "done"

TaskInv == \A t \in Tasks : TaskOK(t)

\* rows the client has to have seen when the next page begins at an offset
Behind(offset) ==
    {i \in 1..pager.start : rows[i] = "shown" /\
        (IF pager.order = "oldest" THEN i <= offset ELSE Len(rows) < i + offset)}

All == {i \in 1..pager.start : rows[i] = "shown"}

\* a page that a thread has read goes on from where the client will be
PageOK(p) ==
    /\ p.next <= Len(rows)
    /\ p.seen \subseteq {i \in 1..Len(rows) : rows[i] = "shown"}
    /\ Behind(p.next) \subseteq pager.seen \cup p.seen
    /\ p.raw # PageLimit => All \subseteq pager.seen \cup p.seen

PagesInv ==
    /\ pager.offset <= Len(rows) /\ pager.start <= Len(rows)
    /\ pager.seen \subseteq {i \in 1..Len(rows) : rows[i] = "shown"}
    /\ Behind(pager.offset) \subseteq pager.seen
    /\ pager.state = "done" => All \subseteq pager.seen
    /\ pager.state = "off" => pager.offset = 0
    /\ \A t \in Tasks : task[t].kind = "page" /\ thread[t].out = "ok" => PageOK(page[t])

Has(records, r) == \E i \in DOMAIN records : records[i] = r

UniqueIds(records) ==
    \A i \in DOMAIN records, j \in DOMAIN records : records[i].id = records[j].id => i = j

\* the run of a record in flight, and the record of a run
RunsFor(t, r) ==
    task[t].kind = "create" /\ task[t].id = r.id /\ task[t].payload = r.payload

OneRun ==
    \A t, u \in Live : task[t].id = task[u].id /\ task[t].id # NoOne => t = u

LedgerInv ==
    /\ UniqueIds(ledger)
    /\ OneRun
    /\ release = "no" =>
          /\ \A r \in Records : Has(ledger, r) /\ r.outcome = "none" =>
                \E t \in Live : RunsFor(t, r)
          /\ \A t \in Live : task[t].kind = "create" =>
                \E r \in Records : Has(ledger, r) /\ r.outcome = "none" /\ RunsFor(t, r)
    /\ release # "no" => current = 0
    /\ release = "done" => Live = {}

\* who still waits does so at the record of what it asked
AskedInv ==
    /\ \A q \in asked :
          /\ q.to <= attachments
          /\ Reaches(q.to) =>
                \E r \in Records : /\ Has(ledger, r) /\ r.outcome = "none"
                                   /\ r.id = q.id /\ r.payload = q.payload /\ r.waiter = q.to
    /\ AnswersAreOwn

LocalInv == TypeOK /\ ThreadInv /\ TaskInv /\ PagesInv /\ LedgerInv /\ AskedInv

-----------------------------------------------------------------------------
(* Lemmas about sequences and numbers                                      *)

\* The least member of a set of numbers is a member.
LEMMA MinIn ==
    ASSUME NEW S, S \subseteq Nat, S # {}
    PROVE  Min(S) \in S
<1> DEFINE R == OpToRel(<, Nat)
<1>1. \A x, y \in Nat : <<x, y>> \in R <=> x < y
  BY DEF OpToRel
<1>2. IsWellFoundedOn(R, Nat)
  BY NatLessThanWellFounded
<1> HIDE DEF R
<1>3. PICK x \in S : \A y \in S : ~(<<y, x>> \in R)
  BY <1>2, WFMin
<1>4. \A y \in S : x =< y
  <2>1. SUFFICES ASSUME NEW y \in S PROVE x =< y
    OBVIOUS
  <2>2. ~(y < x)
    BY <1>1, <1>3
  <2> QED BY <2>2
<1> QED BY <1>4 DEF Min

\* RemoveAt takes out one place, and the rest keep their order.
LEMMA RemoveAtIs ==
    ASSUME NEW T, NEW s \in Seq(T), NEW i \in 1..Len(s)
    PROVE  /\ RemoveAt(s, i) \in Seq(T) /\ Len(RemoveAt(s, i)) = Len(s) - 1
           /\ \A j \in 1..Len(s) - 1 :
                 RemoveAt(s, i)[j] = IF j < i THEN s[j] ELSE s[j + 1]
<1> DEFINE front == SubSeq(s, 1, i - 1)
           rest == SubSeq(s, i + 1, Len(s))
<1>1. front \in Seq(T) /\ Len(front) = i - 1 /\ \A j \in 1..i - 1 : front[j] = s[j]
  OBVIOUS
<1>2. rest \in Seq(T) /\ Len(rest) = Len(s) - i /\ \A j \in 1..Len(s) - i : rest[j] = s[i + j]
  OBVIOUS
<1>3. RemoveAt(s, i) = front \o rest
  BY DEF RemoveAt
<1> HIDE DEF front, rest
<1>4. front \o rest \in Seq(T) /\ Len(front \o rest) = Len(s) - 1
  <2>1. front \in Seq(T) /\ rest \in Seq(T)
    BY <1>1, <1>2
  <2>2. front \o rest \in Seq(T)
    BY <2>1
  <2>3. Len(front \o rest) = Len(front) + Len(rest)
    BY <2>1
  <2> QED BY <2>2, <2>3, <1>1, <1>2
<1>5. \A j \in 1..Len(s) - 1 :
        (front \o rest)[j] = IF j < i THEN front[j] ELSE rest[j - (i - 1)]
  BY <1>1, <1>2
<1> QED BY <1>1, <1>2, <1>3, <1>4, <1>5

\* A ledger without one of its records.
LEMMA Removed ==
    ASSUME NEW s \in Seq(Records), UniqueIds(s), NEW i \in 1..Len(s)
    PROVE  /\ RemoveAt(s, i) \in Seq(Records) /\ Len(RemoveAt(s, i)) = Len(s) - 1
           /\ UniqueIds(RemoveAt(s, i))
           /\ \A r \in Records : Has(RemoveAt(s, i), r) <=> Has(s, r) /\ r # s[i]
<1> DEFINE u == RemoveAt(s, i)
<1>1. /\ u \in Seq(Records) /\ Len(u) = Len(s) - 1
      /\ \A j \in 1..Len(s) - 1 : u[j] = IF j < i THEN s[j] ELSE s[j + 1]
  BY RemoveAtIs
<1> HIDE DEF u
<1>2. DOMAIN u = 1..Len(s) - 1 /\ DOMAIN s = 1..Len(s) /\ Len(s) \in Nat
  BY <1>1
<1> DEFINE Old(j) == IF j < i THEN j ELSE j + 1
<1>3. \A j \in DOMAIN u : Old(j) \in DOMAIN s /\ Old(j) # i /\ u[j] = s[Old(j)]
  BY <1>1, <1>2
<1>4. \A k \in DOMAIN s : k # i => \E j \in DOMAIN u : Old(j) = k
  <2>1. SUFFICES ASSUME NEW k \in DOMAIN s, k # i PROVE \E j \in DOMAIN u : Old(j) = k
    OBVIOUS
  <2>2. CASE k < i
    BY <2>1, <2>2, <1>2
  <2>3. CASE k > i
    <3>1. k - 1 \in DOMAIN u /\ Old(k - 1) = k
      BY <2>1, <2>3, <1>2
    <3> QED BY <3>1
  <2> QED BY <2>1, <2>2, <2>3, <1>2
<1>5. \A j \in DOMAIN u, k \in DOMAIN u : Old(j) = Old(k) => j = k
  BY <1>2
<1> HIDE DEF Old
<1>6. UniqueIds(u)
  BY <1>3, <1>5 DEF UniqueIds
<1>7. \A k \in DOMAIN s : s[k] = s[i] => k = i
  BY <1>2 DEF UniqueIds
<1>8. \A r \in Records : Has(u, r) <=> Has(s, r) /\ r # s[i]
  BY <1>2, <1>3, <1>4, <1>7 DEF Has
<1> QED BY <1>1, <1>6, <1>8 DEF u

\* A ledger with one record more.
LEMMA Appended ==
    ASSUME NEW s \in Seq(Records), UniqueIds(s), NEW e \in Records,
           \A r \in Records : Has(s, r) => r.id # e.id
    PROVE  /\ Append(s, e) \in Seq(Records) /\ Len(Append(s, e)) = Len(s) + 1
           /\ UniqueIds(Append(s, e))
           /\ \A r \in Records : Has(Append(s, e), r) <=> Has(s, r) \/ r = e
<1> DEFINE u == Append(s, e)
<1>1. /\ u \in Seq(Records) /\ Len(u) = Len(s) + 1 /\ u[Len(s) + 1] = e
      /\ \A j \in 1..Len(s) : u[j] = s[j]
  OBVIOUS
<1> HIDE DEF u
<1>2. DOMAIN u = 1..Len(s) + 1 /\ DOMAIN s = 1..Len(s) /\ Len(s) \in Nat
  BY <1>1
<1>3. \A j \in DOMAIN u : j \in DOMAIN s \/ j = Len(s) + 1
  BY <1>2
<1>4. \A j \in DOMAIN s : s[j] \in Records /\ s[j].id # e.id
  BY DEF Has
<1>5. UniqueIds(u)
  BY <1>1, <1>2, <1>3, <1>4 DEF UniqueIds
<1>6. \A r \in Records : Has(u, r) <=> Has(s, r) \/ r = e
  BY <1>1, <1>2, <1>3 DEF Has
<1> QED BY <1>1, <1>5, <1>6 DEF u

\* A ledger with one of its records settled.
LEMMA Settled ==
    ASSUME NEW s \in Seq(Records), UniqueIds(s), NEW i \in 1..Len(s),
           NEW e \in Records, e.id = s[i].id
    PROVE  /\ [s EXCEPT ![i] = e] \in Seq(Records) /\ Len([s EXCEPT ![i] = e]) = Len(s)
           /\ UniqueIds([s EXCEPT ![i] = e])
           /\ \A r \in Records : Has([s EXCEPT ![i] = e], r) <=> (Has(s, r) /\ r # s[i]) \/ r = e
<1> DEFINE u == [s EXCEPT ![i] = e]
<1>1. u \in Seq(Records) /\ Len(u) = Len(s) /\ DOMAIN u = DOMAIN s /\ DOMAIN s = 1..Len(s)
  OBVIOUS
<1>2. u[i] = e /\ \A j \in DOMAIN s : j # i => u[j] = s[j]
  OBVIOUS
<1> HIDE DEF u
<1>3. UniqueIds(u)
  BY <1>1, <1>2 DEF UniqueIds
<1>4. \A k \in DOMAIN s : s[k] = s[i] => k = i
  BY <1>1 DEF UniqueIds
<1>5. \A r \in Records : Has(u, r) <=> (Has(s, r) /\ r # s[i]) \/ r = e
  BY <1>1, <1>2, <1>4 DEF Has
<1> QED BY <1>1, <1>3, <1>5 DEF u

-----------------------------------------------------------------------------
(* Threads                                                                 *)

ThreadType == [op : Operations, pc : Calls, path : Paths \cup {"none"},
               dir : Folders \cup {"none"}, out : {"none", "ok", "error"}]

\* What the two ways of moving a thread on do to it.
LEMMA GotoIs ==
    ASSUME thread \in [Tasks -> ThreadType], NEW t \in Tasks, NEW pc \in Calls, Goto(t, pc)
    PROVE  /\ thread' \in [Tasks -> ThreadType]
           /\ \A u \in Tasks \ {t} : thread'[u] = thread[u]
           /\ thread'[t].pc = pc /\ thread'[t].op = thread[t].op
           /\ thread'[t].path = thread[t].path /\ thread'[t].dir = thread[t].dir
           /\ thread'[t].out = thread[t].out
BY DEF Goto, ThreadType

LEMMA EndIs ==
    ASSUME thread \in [Tasks -> ThreadType], NEW t \in Tasks,
           NEW out \in {"none", "ok", "error"}, End(t, out)
    PROVE  /\ thread' \in [Tasks -> ThreadType]
           /\ \A u \in Tasks \ {t} : thread'[u] = thread[u]
           /\ thread'[t].pc = "done" /\ thread'[t].op = thread[t].op
           /\ thread'[t].path = thread[t].path /\ thread'[t].dir = thread[t].dir
           /\ thread'[t].out = out
BY DEF End, ThreadType, Calls

\* A walk that refuses links ends below the root; R/a itself is the folder.
LEMMA WalksStayInside ==
    /\ OpenNoFollow("R/a") \subseteq {"in"}
    /\ OpenNoFollow("R/a/n") \subseteq {"in/n"}
    /\ \A p : FileNoFollow(p) \subseteq {"in"}
BY DEF OpenNoFollow, FileNoFollow

\* What the host resolves R/a to and lies below the root is R/a.
LEMMA ResolvesToItself ==
    \A p \in Canonical("R/a") : Under(p) => p = "R/a"
BY DEF Canonical, Under

\* the folders' part of the state
InsideInv == ThreadInv /\ StaysInside

\* A thread's call keeps it on its way, and what it uses is inside.
LEMMA FileStepInside ==
    ASSUME FilesTypeOK, InsideInv, NEW t \in Tasks, FileStep(t) \/ ThreadFails(t)
    PROVE  /\ FilesTypeOK' /\ InsideInv'
           /\ \A u \in Tasks \ {t} : thread'[u] = thread[u]
           /\ thread[t].pc \notin {"none", "done"}
           /\ thread'[t].pc \in FileCalls \cup {"done"}
           /\ thread'[t].out = "ok" => thread'[t].pc = "done" \/ thread[t].out = "ok"
           /\ thread[t].pc = "page" => thread'[t].pc = "done" /\ thread'[t].out = "error"
<1> USE DEF FilesTypeOK, At
<1>1. /\ thread \in [Tasks -> ThreadType] /\ thread[t] \in ThreadType
      /\ ThreadOK(t) /\ \A u \in Tasks : ThreadOK(u)
  BY DEF InsideInv, ThreadInv, ThreadType
<1> DEFINE Frame == \A u \in Tasks \ {t} : thread'[u] = thread[u]
           Still == UNCHANGED fileVars
<1>2. ASSUME thread' \in [Tasks -> ThreadType], Frame, ThreadOK(t)'
      PROVE  ThreadInv'
  BY <1>1, <1>2 DEF ThreadInv, ThreadOK
<1>3. ASSUME Still, thread' \in [Tasks -> ThreadType], Frame, ThreadOK(t)'
      PROVE  FilesTypeOK' /\ InsideInv'
  BY <1>2, <1>3 DEF fileVars, ThreadType, InsideInv, StaysInside
<1>4. ASSUME Still, End(t, "error"), thread[t].pc \notin {"none", "done"}
      PROVE  /\ FilesTypeOK' /\ InsideInv' /\ Frame /\ thread'[t].pc = "done"
             /\ thread'[t].out = "error"
  <2>1. /\ thread' \in [Tasks -> ThreadType] /\ Frame /\ thread'[t].pc = "done"
        /\ thread'[t].path = thread[t].path /\ thread'[t].dir = thread[t].dir
        /\ thread'[t].out = "error"
    BY <1>1, <1>4, EndIs
  <2>2. ThreadOK(t)'
    BY <1>1, <2>1 DEF ThreadOK, FileCalls
  <2> QED BY <1>3, <1>4, <2>1, <2>2
<1>5. CASE OpenSpelling(t)
  <2>1. CASE End(t, "error")
    BY <1>4, <1>5, <2>1 DEF OpenSpelling
  <2>2. CASE Goto(t, "canon")
    <3>1. /\ thread' \in [Tasks -> ThreadType] /\ Frame /\ thread'[t].pc = "canon"
          /\ thread'[t].path = thread[t].path /\ thread'[t].dir = thread[t].dir
          /\ thread'[t].op = thread[t].op /\ thread'[t].out = thread[t].out
      BY <1>1, <2>2, GotoIs DEF Calls
    <3>2. ThreadOK(t)'
      BY <1>1, <1>5, <3>1 DEF OpenSpelling, ThreadOK, FileCalls
    <3> QED BY <1>3, <1>5, <3>1, <3>2 DEF OpenSpelling, FileCalls
  <2> QED BY <1>5, <2>1, <2>2 DEF OpenSpelling
<1>6. CASE Resolve(t)
  <2>1. CASE End(t, "error")
    BY <1>4, <1>6, <2>1 DEF Resolve
  <2>2. CASE ~End(t, "error")
    <3> DEFINE pc == IF thread[t].op = "image" THEN "read" ELSE "final"
    <3>1. PICK p \in Canonical(thread[t].path) : Under(p) /\
            thread' = [thread EXCEPT ![t].path = p, ![t].pc = pc]
      BY <1>6, <2>2 DEF Resolve
    <3>2. p \in Paths /\ p \in {"R/a", "R/a/n"} /\ pc \in Calls
      BY <3>1 DEF Under, Paths, Calls
    <3>3. /\ thread' \in [Tasks -> ThreadType] /\ Frame /\ thread'[t].pc = pc
          /\ thread'[t].path = p /\ thread'[t].dir = thread[t].dir
          /\ thread'[t].op = thread[t].op /\ thread'[t].out = thread[t].out
      <4> HIDE DEF pc
      <4> QED BY <1>1, <3>1, <3>2 DEF ThreadType
    <3>4. thread[t].path = "R/a" => p = "R/a"
      BY <3>1, ResolvesToItself
    <3>5. ThreadOK(t)'
      BY <1>1, <1>6, <3>2, <3>3, <3>4 DEF Resolve, ThreadOK, FileCalls
    <3> QED BY <1>3, <1>6, <3>3, <3>5 DEF Resolve, FileCalls
  <2> QED BY <2>1, <2>2
<1>7. CASE OpenResolved(t)
  <2>1. CASE End(t, "error")
    BY <1>4, <1>7, <2>1 DEF OpenResolved
  <2>2. CASE ~End(t, "error")
    <3> DEFINE pc == IF thread[t].op = "create" /\ thread[t].dir = "none" THEN "open" ELSE "list"
    <3>0. Goto(t, pc) /\ pc \in Calls
      BY <1>7, <2>2 DEF OpenResolved, Calls
    <3>1. /\ thread' \in [Tasks -> ThreadType] /\ Frame /\ thread'[t].pc = pc
          /\ thread'[t].path = thread[t].path /\ thread'[t].dir = thread[t].dir
          /\ thread'[t].op = thread[t].op /\ thread'[t].out = thread[t].out
      BY <1>1, <3>0, GotoIs
    <3>2. ThreadOK(t)'
      BY <1>1, <1>7, <3>1 DEF OpenResolved, ThreadOK, FileCalls
    <3> QED BY <1>3, <1>7, <3>1, <3>2 DEF OpenResolved, FileCalls
  <2> QED BY <2>1, <2>2
<1>8. CASE OpenParent(t)
  <2>1. CASE End(t, "error")
    BY <1>4, <1>8, <2>1 DEF OpenParent
  <2>2. CASE ~End(t, "error")
    <3>1. thread[t].path = "R/a" /\ thread[t].pc = "open"
      BY <1>1, <1>8 DEF OpenParent, ThreadOK
    <3>2. thread' = [thread EXCEPT ![t].pc = "look", ![t].dir = "in"]
      BY <1>8, <2>2, <3>1, WalksStayInside DEF OpenParent
    <3>3. /\ thread' \in [Tasks -> ThreadType] /\ Frame /\ thread'[t].pc = "look"
          /\ thread'[t].path = thread[t].path /\ thread'[t].dir = "in"
          /\ thread'[t].op = thread[t].op /\ thread'[t].out = thread[t].out
      BY <1>1, <3>2 DEF ThreadType, Calls, Folders
    <3>4. ThreadOK(t)'
      BY <1>1, <3>1, <3>3 DEF ThreadOK, FileCalls
    <3> QED BY <1>3, <1>8, <3>1, <3>3, <3>4 DEF OpenParent, FileCalls
  <2> QED BY <2>1, <2>2
<1>9. ASSUME Accept(t), Still, thread[t].pc \in {"look", "check"}
      PROVE  /\ FilesTypeOK' /\ InsideInv' /\ Frame
             /\ thread'[t].pc \in {"first", "done"}
             /\ thread'[t].out = thread[t].out \/ thread'[t].out = "error"
  <2>1. CASE End(t, "error")
    BY <1>4, <1>9, <2>1
  <2>2. CASE ~End(t, "error")
    <3>1. thread' = [thread EXCEPT ![t].pc = "first", ![t].path = "R/a/n"]
      BY <1>9, <2>2 DEF Accept
    <3>2. /\ thread' \in [Tasks -> ThreadType] /\ Frame /\ thread'[t].pc = "first"
          /\ thread'[t].path = "R/a/n" /\ thread'[t].dir = thread[t].dir
          /\ thread'[t].op = thread[t].op /\ thread'[t].out = thread[t].out
      BY <1>1, <3>1 DEF ThreadType, Calls, Paths
    <3>3. ThreadOK(t)'
      BY <1>1, <1>9, <3>2 DEF ThreadOK, FileCalls
    <3> QED BY <1>3, <1>9, <3>2, <3>3
  <2> QED BY <2>1, <2>2
<1>10. CASE LookUp(t)
  <2>1. CASE Accept(t)
    BY <1>9, <1>10, <2>1 DEF LookUp, FileCalls
  <2>2. CASE Goto(t, "mkdir")
    <3>1. /\ thread' \in [Tasks -> ThreadType] /\ Frame /\ thread'[t].pc = "mkdir"
          /\ thread'[t].path = thread[t].path /\ thread'[t].dir = thread[t].dir
          /\ thread'[t].op = thread[t].op /\ thread'[t].out = thread[t].out
      BY <1>1, <2>2, GotoIs DEF Calls
    <3>2. ThreadOK(t)'
      BY <1>1, <1>10, <3>1 DEF LookUp, ThreadOK, FileCalls
    <3> QED BY <1>3, <1>10, <3>1, <3>2 DEF LookUp, FileCalls
  <2> QED BY <1>10, <2>1, <2>2 DEF LookUp
<1>11. CASE CheckEntry(t)
  BY <1>9, <1>11 DEF CheckEntry, FileCalls
<1>12. CASE MakeEntry(t)
  <2>1. /\ thread' \in [Tasks -> ThreadType] /\ Frame /\ thread'[t].pc = "check"
        /\ thread'[t].path = thread[t].path /\ thread'[t].dir = thread[t].dir
        /\ thread'[t].op = thread[t].op /\ thread'[t].out = thread[t].out
    BY <1>1, <1>12, GotoIs DEF MakeEntry, Calls
  <2>2. thread[t].dir = "in" /\ thread[t].pc = "mkdir"
    BY <1>1, <1>12 DEF MakeEntry, ThreadOK
  <2>3. ThreadOK(t)'
    BY <1>1, <2>1, <2>2 DEF ThreadOK, FileCalls
  <2>4. n' \in [{"in", "out"} -> Entries] /\ used' \subseteq used \cup {"in"}
    BY <1>12, <2>2 DEF MakeEntry, Uses, Entries
  <2>5. FilesTypeOK'
    BY <1>12, <2>1, <2>4 DEF MakeEntry, ThreadType, Folders
  <2>6. InsideInv'
    BY <1>2, <2>1, <2>3, <2>4 DEF InsideInv, StaysInside
  <2> QED BY <2>1, <2>2, <2>5, <2>6 DEF FileCalls
<1>13. ASSUME NEW out \in {"ok", "error"}, End(t, out), thread[t].pc \in {"list", "read"},
              UNCHANGED <<a, n, touches>>, used' \subseteq used \cup {"in", "in/n"}
       PROVE  FilesTypeOK' /\ InsideInv' /\ Frame /\ thread'[t].pc = "done"
  <2>1. /\ thread' \in [Tasks -> ThreadType] /\ Frame /\ thread'[t].pc = "done"
        /\ thread'[t].path = thread[t].path /\ thread'[t].dir = thread[t].dir
    BY <1>1, <1>13, EndIs
  <2>2. ThreadOK(t)'
    BY <1>1, <2>1 DEF ThreadOK, FileCalls
  <2>3. FilesTypeOK'
    BY <1>13, <2>1 DEF ThreadType, Folders
  <2>4. InsideInv'
    BY <1>2, <1>13, <2>1, <2>2 DEF InsideInv, StaysInside
  <2> QED BY <2>1, <2>3, <2>4
<1>14. CASE ListFolder(t)
  <2>1. OpenNoFollow(thread[t].path) \subseteq {"in", "in/n"}
    BY <1>1, <1>14, WalksStayInside DEF ListFolder, ThreadOK, FileCalls
  <2>2. CASE End(t, "error") /\ UNCHANGED used
    BY <1>13, <1>14, <2>2 DEF ListFolder
  <2>3. CASE \E f \in OpenNoFollow(thread[t].path) : End(t, "ok") /\ Uses(f)
    <3>1. End(t, "ok") /\ used' \subseteq used \cup {"in", "in/n"}
      BY <2>1, <2>3 DEF Uses
    <3> QED BY <1>13, <1>14, <3>1 DEF ListFolder
  <2> QED BY <1>14, <2>2, <2>3 DEF ListFolder
<1>15. CASE ReadImage(t)
  <2>1. FileNoFollow(thread[t].path) \subseteq {"in"}
    BY WalksStayInside
  <2>2. CASE End(t, "error") /\ UNCHANGED used
    BY <1>13, <1>15, <2>2 DEF ReadImage
  <2>3. CASE \E f \in FileNoFollow(thread[t].path) : End(t, "ok") /\ Uses(f)
    <3>1. End(t, "ok") /\ used' \subseteq used \cup {"in", "in/n"}
      BY <2>1, <2>3 DEF Uses
    <3> QED BY <1>13, <1>15, <3>1 DEF ReadImage
  <2> QED BY <1>15, <2>2, <2>3 DEF ReadImage
<1>16. CASE ThreadFails(t)
  BY <1>4, <1>16 DEF ThreadFails
<1> QED BY <1>5, <1>6, <1>7, <1>8, <1>10, <1>11, <1>12, <1>14, <1>15, <1>16 DEF FileStep

-----------------------------------------------------------------------------
(* Pages                                                                   *)

\* The rows of a page are next to each other, so that counting them tells
\* where the page ends.
LEMMA StoredIs ==
    ASSUME ReadsTypeOK, PagesInv
    PROVE  LET k == Cardinality(Stored(pager.order, pager.offset))
           IN /\ k \in 0..PageLimit /\ pager.offset + k <= Len(rows)
              /\ \A i \in 1..Len(rows) :
                    i \in Stored(pager.order, pager.offset) <=>
                      IF pager.order = "oldest"
                      THEN pager.offset < i /\ i <= pager.offset + k
                      ELSE Len(rows) - pager.offset - k < i /\ i <= Len(rows) - pager.offset
              /\ k # PageLimit => pager.offset + k = Len(rows)
<1> DEFINE last == Len(rows)
           o == pager.offset
           stored == Stored(pager.order, pager.offset)
           room == last - o
           len == IF room < PageLimit THEN room ELSE PageLimit
<1>1. last \in Nat /\ o \in Nat /\ o <= last /\ PageLimit \in Nat \ {0}
  BY ReadsAssumption DEF ReadsTypeOK, PagesInv
<1>2. room \in Nat /\ len \in 0..PageLimit /\ o + len <= last /\ (len # PageLimit => o + len = last)
  BY <1>1
<1>3. CASE pager.order = "oldest"
  <2>1. stored = (o + 1)..(o + len)
    <3>1. \A i \in 1..last : (o < i /\ i <= o + PageLimit) <=> i \in (o + 1)..(o + len)
      BY <1>1
    <3>2. (o + 1)..(o + len) \subseteq 1..last
      BY <1>1, <1>2
    <3>3. stored = {i \in 1..last : o < i /\ i <= o + PageLimit}
      BY <1>3 DEF Stored
    <3> QED
      <4> HIDE DEF stored, len
      <4> QED BY <3>1, <3>2, <3>3
  <2>2. Cardinality((o + 1)..(o + len)) = len
    <3> HIDE DEF len, o
    <3>1. o + 1 \in Int /\ o + len \in Int /\ (IF o + 1 > o + len THEN 0 ELSE (o + len) - (o + 1) + 1) = len
      BY <1>1, <1>2
    <3> QED BY <3>1, FS_Interval
  <2> HIDE DEF len, room, o, last
  <2>3. \A i \in 1..last : i \in stored <=> o < i /\ i <= o + len
    BY <1>1, <1>2, <2>1
  <2> QED BY <1>2, <1>3, <2>1, <2>2, <2>3 DEF o, last
<1>4. CASE pager.order # "oldest"
  <2>1. stored = (last - o - len + 1)..(last - o)
    <3>1. \A i \in 1..last : (i + o <= last /\ last < i + o + PageLimit)
                               <=> i \in (last - o - len + 1)..(last - o)
      BY <1>1
    <3>2. (last - o - len + 1)..(last - o) \subseteq 1..last
      BY <1>1, <1>2
    <3>3. stored = {i \in 1..last : i + o <= last /\ last < i + o + PageLimit}
      BY <1>4 DEF Stored
    <3> QED
      <4> HIDE DEF stored, len
      <4> QED BY <3>1, <3>2, <3>3
  <2>2. Cardinality((last - o - len + 1)..(last - o)) = len
    <3> HIDE DEF len, o
    <3>1. /\ last - o - len + 1 \in Int /\ last - o \in Int
          /\ (IF last - o - len + 1 > last - o THEN 0 ELSE (last - o) - (last - o - len + 1) + 1) = len
      BY <1>1, <1>2
    <3> QED BY <3>1, FS_Interval
  <2> HIDE DEF len, room, o, last
  <2>3. \A i \in 1..last : i \in stored <=> last - o - len < i /\ i <= last - o
    BY <1>1, <1>2, <2>1
  <2> QED BY <1>2, <1>4, <2>1, <2>2, <2>3 DEF o, last
<1> QED BY <1>3, <1>4

\* A page has what lies between its offset and the next one; a short page is
\* the last.
LEMMA PageFacts ==
    ASSUME ReadsTypeOK, PagesInv
    PROVE  Page(pager.order, pager.offset) \in Pages /\ PageOK(Page(pager.order, pager.offset))
<1> DEFINE stored == Stored(pager.order, pager.offset)
           k == Cardinality(stored)
           shown == {i \in stored : rows[i] = "shown"}
           p == Page(pager.order, pager.offset)
<1>1. p.seen = shown /\ p.raw = k /\ p.next = pager.offset + k
  BY DEF Page
<1>2. /\ k \in 0..PageLimit /\ pager.offset + k <= Len(rows)
      /\ \A i \in 1..Len(rows) :
            i \in stored <=> IF pager.order = "oldest"
                             THEN pager.offset < i /\ i <= pager.offset + k
                             ELSE Len(rows) - pager.offset - k < i /\ i <= Len(rows) - pager.offset
      /\ k # PageLimit => pager.offset + k = Len(rows)
  BY StoredIs
<1>3. /\ Len(rows) \in Nat /\ Len(rows) <= MaxRows /\ MaxRows \in Nat /\ PageLimit \in Nat
      /\ pager.offset \in Nat /\ pager.start \in Nat /\ pager.start <= Len(rows)
      /\ Behind(pager.offset) \subseteq pager.seen
  BY ReadsAssumption DEF ReadsTypeOK, PagesInv
<1>4. stored \subseteq 1..Len(rows)
  BY DEF Stored
<1>5. p = [seen |-> shown, raw |-> k, next |-> pager.offset + k]
  BY DEF Page
<1> HIDE DEF p, k, stored
<1>6. k \in Nat
  BY <1>2, <1>3
<1>7. p \in Pages
  <2>1. shown \in SUBSET (1..MaxRows)
    <3>1. 1..Len(rows) \subseteq 1..MaxRows
      BY <1>3
    <3>2. shown \subseteq stored
      OBVIOUS
    <3> HIDE DEF shown
    <3> QED BY <1>4, <3>1, <3>2
  <2>2. pager.offset + k \in 0..(2 * MaxRows)
    BY <1>2, <1>3, <1>6
  <2> HIDE DEF shown
  <2> QED BY <1>2, <1>5, <2>1, <2>2 DEF Pages
<1>8. ASSUME NEW i \in All, \/ i \in Behind(pager.offset + k)
                            \/ k # PageLimit
      PROVE  i \in pager.seen \cup shown
  <2>1. i \in 1..pager.start /\ i \in 1..Len(rows) /\ rows[i] = "shown"
    BY <1>3, <1>8 DEF All
  <2>2. CASE i \in Behind(pager.offset)
    BY <1>3, <2>2
  <2>3. CASE i \notin Behind(pager.offset)
    <3>1. CASE pager.order = "oldest"
      <4>1. pager.offset < i
        BY <1>3, <2>1, <2>3, <3>1 DEF Behind
      <4>2. i <= pager.offset + k
        BY <1>2, <1>3, <1>8, <2>1, <3>1 DEF Behind
      <4> QED BY <1>2, <2>1, <3>1, <4>1, <4>2
    <3>2. CASE pager.order # "oldest"
      <4>1. i + pager.offset <= Len(rows)
        BY <1>3, <2>1, <2>3, <3>2 DEF Behind
      <4>2. Len(rows) < i + (pager.offset + k)
        BY <1>2, <1>3, <1>8, <2>1, <3>2 DEF Behind
      <4>3. Len(rows) - pager.offset - k < i /\ i <= Len(rows) - pager.offset
        BY <1>3, <1>6, <2>1, <4>1, <4>2
      <4> QED BY <1>2, <2>1, <3>2, <4>3
    <3> QED BY <3>1, <3>2
  <2> QED BY <2>2, <2>3
<1>9. Behind(pager.offset + k) \subseteq All
  BY DEF Behind, All
<1>10. PageOK(p)
  BY <1>1, <1>2, <1>4, <1>8, <1>9 DEF PageOK
<1> QED BY <1>7, <1>10 DEF p

\* A page that was read stays good while rows are added and the client sees
\* more.
LEMMA PageStands ==
    ASSUME ReadsTypeOK, PagesInv, Len(rows') \in Nat, Len(rows) <= Len(rows'),
           \A i \in 1..Len(rows) : rows'[i] = rows[i],
           pager'.start = pager.start, pager'.order = pager.order,
           pager.seen \subseteq pager'.seen
    PROVE  /\ \A o \in Nat : Behind(o)' \subseteq Behind(o)
           /\ All' = All
           /\ \A p \in Pages : PageOK(p) => PageOK(p)'
<1>1. Len(rows) \in Nat /\ pager.start \in Nat /\ pager.start <= Len(rows)
  BY DEF ReadsTypeOK, PagesInv
<1>2. \A i \in 1..pager.start : rows'[i] = rows[i]
  BY <1>1
<1>3. ASSUME NEW o \in Nat PROVE Behind(o)' \subseteq Behind(o)
  BY <1>1, <1>2, <1>3 DEF Behind
<1>4. All' = All
  BY <1>2 DEF All
<1>5. ASSUME NEW p \in Pages, PageOK(p) PROVE PageOK(p)'
  <2>1. p.next \in Nat
    BY ReadsAssumption DEF Pages
  <2>2. Behind(p.next)' \subseteq Behind(p.next)
    BY <1>3, <2>1
  <2>3. p.seen \subseteq {i \in 1..Len(rows) : rows[i] = "shown"}'
    BY <1>1, <1>5 DEF PageOK
  <2> QED BY <1>1, <1>4, <1>5, <2>1, <2>2, <2>3 DEF PageOK
<1> QED BY <1>3, <1>4, <1>5

-----------------------------------------------------------------------------
(* Tasks                                                                   *)

TaskType == [kind : {"none", "create", "list", "image", "page"},
             id : Ids \cup {NoOne}, payload : Payloads \cup {NoOne},
             to : 0..MaxAttachments, live : BOOLEAN]

\* What TypeOK says, part by part.
LEMMA TypesAre ==
    TypeOK <=>
      /\ FilesTypeOK /\ ReadsTypeOK
      /\ current \in 0..attachments /\ attachments \in 0..MaxAttachments
      /\ release \in {"no", "begun", "done"} /\ authorized \in BOOLEAN
      /\ ledger \in Seq(Records) /\ Len(ledger) <= MaxMutations
      /\ task \in [Tasks -> TaskType] /\ page \in [Tasks -> Pages]
      /\ asked \subseteq [id : Ids, payload : Payloads, to : 1..MaxAttachments]
      /\ answered \subseteq [asked : Payloads, ran : Payloads]
      /\ asks \in 0..MaxAsks
BY DEF TypeOK, TaskType

\* The empty task, thread and page.
LEMMA NoneIs ==
    /\ NoTask \in TaskType /\ NoTask.kind = "none" /\ ~NoTask.live /\ NoTask.id = NoOne
    /\ NoThread \in ThreadType /\ NoThread.pc = "none" /\ NoThread.out = "none"
    /\ NoThread.path = "none" /\ NoThread.dir = "none" /\ NoThread.op = "none"
    /\ NoPage \in Pages
<1>1. NoPage \in Pages
  <2>1. {} \in SUBSET (1..MaxRows) /\ 0 \in 0..PageLimit /\ 0 \in 0..(2 * MaxRows)
    BY ReadsAssumption
  <2> QED BY <2>1 DEF NoPage, Pages
<1>2. NoTask \in TaskType
  BY RequestsAssumption DEF NoTask, TaskType
<1>3. NoThread \in ThreadType
  BY DEF NoThread, ThreadType, Operations, Calls
<1> QED BY <1>1, <1>2, <1>3 DEF NoTask, NoThread

\* A new task takes a free place.
LEMMA StartedIs ==
    ASSUME TypeOK, TaskInv, Free # {}, NEW kind \in {"create", "list", "image", "page"},
           NEW id \in Ids \cup {NoOne}, NEW payload \in Payloads \cup {NoOne},
           Started(Min(Free), kind, id, payload)
    PROVE  \E t \in Tasks :
             /\ task' \in [Tasks -> TaskType] /\ \A u \in Tasks \ {t} : task'[u] = task[u]
             /\ task[t].kind = "none" /\ t \notin Live /\ thread[t].pc = "none"
             /\ task'[t].kind = kind /\ task'[t].id = id /\ task'[t].payload = payload
             /\ task'[t].to = current /\ task'[t].live
<1> DEFINE t == Min(Free)
           fresh == [kind |-> kind, id |-> id, payload |-> payload, to |-> current, live |-> TRUE]
<1>1. t \in Free
  <2>1. Free \subseteq Nat
    BY RequestsAssumption DEF Free
  <2> QED BY <2>1, MinIn
<1>2. t \in Tasks /\ task[t].kind = "none" /\ t \notin Live
  BY <1>1, NoneIs DEF Free, Live
<1>3. task' = [task EXCEPT ![t] = fresh]
  BY DEF Started
<1>4. fresh \in TaskType
  <2>1. current \in 0..MaxAttachments
    BY TypesAre, RequestsAssumption
  <2> QED BY <2>1 DEF TaskType
<1>5. /\ fresh.kind = kind /\ fresh.id = id /\ fresh.payload = payload /\ fresh.to = current
      /\ fresh.live
  OBVIOUS
<1>6. task \in [Tasks -> TaskType]
  BY TypesAre
<1> HIDE DEF fresh, t
<1>7. /\ task' \in [Tasks -> TaskType] /\ \A u \in Tasks \ {t} : task'[u] = task[u]
      /\ task'[t] = fresh
  BY <1>2, <1>3, <1>4, <1>6
<1> QED BY <1>2, <1>5, <1>7 DEF TaskInv, TaskOK

\* An ended task leaves its place free.
LEMMA ResetIs ==
    ASSUME TypeOK, NEW t \in Tasks, Reset(t)
    PROVE  /\ task' \in [Tasks -> TaskType] /\ \A u \in Tasks \ {t} : task'[u] = task[u]
           /\ thread' \in [Tasks -> ThreadType] /\ \A u \in Tasks \ {t} : thread'[u] = thread[u]
           /\ page' \in [Tasks -> Pages] /\ \A u \in Tasks \ {t} : page'[u] = page[u]
           /\ task'[t] = NoTask /\ thread'[t] = NoThread
           /\ Live' = Live \ {t}
<1>1. /\ task \in [Tasks -> TaskType] /\ page \in [Tasks -> Pages]
      /\ thread \in [Tasks -> ThreadType]
  BY TypesAre DEF FilesTypeOK, ThreadType
<1>2. /\ task' = [task EXCEPT ![t] = NoTask] /\ thread' = [thread EXCEPT ![t] = NoThread]
      /\ page' = [page EXCEPT ![t] = NoPage]
  BY DEF Reset
<1>3. /\ task' \in [Tasks -> TaskType] /\ \A u \in Tasks \ {t} : task'[u] = task[u]
      /\ task'[t] = NoTask
  BY <1>1, <1>2, NoneIs
<1>4. /\ thread' \in [Tasks -> ThreadType] /\ \A u \in Tasks \ {t} : thread'[u] = thread[u]
      /\ thread'[t] = NoThread
  BY <1>1, <1>2, NoneIs
<1>5. page' \in [Tasks -> Pages] /\ \A u \in Tasks \ {t} : page'[u] = page[u]
  BY <1>1, <1>2, NoneIs
<1>6. Live' = Live \ {t}
  BY <1>3, NoneIs DEF Live
<1> QED BY <1>3, <1>4, <1>5, <1>6

-----------------------------------------------------------------------------
(* Parts of the invariant that a step leaves alone                         *)

\* The mutations under way.
Mutates(t) == task[t].live /\ task[t].kind = "create"

LEMMA LedgerKept ==
    ASSUME TaskInv', LedgerInv, ledger' = ledger, release' = release,
           \A t \in Tasks : Mutates(t) \/ Mutates(t)' => task'[t] = task[t],
           release # "no" => current' = 0, release = "done" => Live' = {}
    PROVE  LedgerInv'
<1>1. UniqueIds(ledger)' /\ (release # "no" => current = 0)' /\ (release = "done" => Live = {})'
  BY DEF LedgerInv, UniqueIds
<1>2. \A t \in Tasks : Mutates(t)' <=> Mutates(t)
  BY DEF Mutates
<1>3. OneRun'
  <2>1. \A t \in Live' : task'[t].id # NoOne => t \in Tasks /\ Mutates(t)'
    BY DEF Live, TaskInv, TaskOK, Mutates
  <2>2. \A t \in Live' : task'[t].id # NoOne => t \in Live /\ task'[t] = task[t]
    BY <1>2, <2>1 DEF Live, Mutates
  <2> QED BY <2>2 DEF OneRun, LedgerInv
<1>4. ASSUME release = "no", NEW r \in Records, Has(ledger, r), r.outcome = "none"
      PROVE  \E t \in Live' : RunsFor(t, r)'
  <2>1. PICK t \in Live : RunsFor(t, r)
    BY <1>4 DEF LedgerInv
  <2>2. t \in Tasks /\ Mutates(t)
    BY <2>1 DEF RunsFor, Mutates, Live
  <2>3. task'[t] = task[t]
    BY <2>2
  <2> QED BY <2>1, <2>2, <2>3 DEF RunsFor, Live
<1>5. ASSUME release = "no", NEW t \in Live', task'[t].kind = "create"
      PROVE  \E r \in Records : Has(ledger, r) /\ r.outcome = "none" /\ RunsFor(t, r)'
  <2>1. t \in Tasks /\ Mutates(t)'
    BY <1>5 DEF Mutates, Live
  <2>2. t \in Live /\ task'[t] = task[t]
    BY <1>2, <2>1 DEF Mutates, Live
  <2>3. PICK r \in Records : Has(ledger, r) /\ r.outcome = "none" /\ RunsFor(t, r)
    BY <1>5, <2>2 DEF LedgerInv
  <2> QED BY <2>2, <2>3 DEF RunsFor
<1> QED BY <1>1, <1>3, <1>4, <1>5 DEF LedgerInv, Has

LEMMA AskedKept ==
    ASSUME TypeOK, AskedInv, UNCHANGED <<asked, answered, ledger>>,
           attachments' \in Nat, attachments <= attachments',
           \A to \in 1..attachments : Reaches(to)' => Reaches(to)
    PROVE  AskedInv'
<1>1. \A q \in asked : q.to \in 1..attachments
  BY TypesAre DEF AskedInv
<1>2. \A q \in asked : Reaches(q.to)' => Reaches(q.to)
  BY <1>1
<1>3. \A q \in asked : q.to <= attachments'
  BY <1>1, TypesAre
<1> QED BY <1>2, <1>3 DEF AskedInv, AnswersAreOwn, Has

LEMMA PagesKept ==
    ASSUME ReadsTypeOK, PagesInv, UNCHANGED readVars,
           \A t \in Tasks : task'[t].kind = "page" /\ thread'[t].out = "ok" =>
               task[t].kind = "page" /\ thread[t].out = "ok" /\ page'[t] = page[t]
    PROVE  ReadsTypeOK' /\ PagesInv'
<1>1. ReadsTypeOK'
  BY DEF ReadsTypeOK, readVars
<1>2. \A t \in Tasks : task'[t].kind = "page" /\ thread'[t].out = "ok" => PageOK(page[t])'
  BY DEF PagesInv, PageOK, Behind, All, readVars
<1>3. PagesInv'
  BY <1>2 DEF PagesInv, Behind, All, readVars
<1> QED BY <1>1, <1>3

-----------------------------------------------------------------------------
(* The steps                                                               *)

\* The whole invariant, with what was used kept inside.
LocalInside == LocalInv /\ StaysInside

\* the files, the threads and what was used are as they were
LEMMA FilesKept ==
    ASSUME FilesTypeOK, InsideInv, UNCHANGED <<fileVars, thread>>
    PROVE  FilesTypeOK' /\ InsideInv'
BY DEF FilesTypeOK, InsideInv, ThreadInv, ThreadOK, StaysInside, fileVars

\* the parts of LocalInside, as the steps below put it together
LEMMA PartsAre ==
    LocalInside <=> TypeOK /\ InsideInv /\ TaskInv /\ PagesInv /\ LedgerInv /\ AskedInv
BY DEF LocalInside, LocalInv, InsideInv

\* A request that is refused for lack of room changes nothing but the count.
LEMMA RefusedStep ==
    ASSUME LocalInside, (\E id \in Ids : MutationRateLimited(id)) \/ ReadRateLimited
    PROVE  LocalInside'
<1>1. /\ UNCHANGED <<fileVars, thread, readVars, current, attachments, release, authorized,
                     ledger, task, page, asked, answered>>
      /\ asks' = asks + 1 /\ asks < MaxAsks
  BY DEF MutationRateLimited, ReadRateLimited, MaySubmit
<1>2. /\ TypeOK /\ InsideInv /\ TaskInv /\ PagesInv /\ LedgerInv /\ AskedInv
      /\ FilesTypeOK /\ ReadsTypeOK
  BY PartsAre, TypesAre
<1>3. FilesTypeOK' /\ InsideInv'
  BY <1>1, <1>2, FilesKept
<1>4. ReadsTypeOK' /\ PagesInv'
  BY <1>1, <1>2, PagesKept
<1>5. TaskInv'
  BY <1>1, <1>2 DEF TaskInv, TaskOK, readVars
<1>6. LedgerInv'
  BY <1>1, <1>2, <1>5, LedgerKept DEF LedgerInv, Live
<1>7. AskedInv'
  BY <1>1, <1>2, TypesAre, AskedKept DEF Reaches
<1>8. TypeOK'
  <2>1. asks' \in 0..MaxAsks
    BY <1>1, <1>2, TypesAre, RequestsAssumption
  <2> QED BY <1>1, <1>2, <1>3, <1>4, <2>1 DEF TypeOK
<1> QED BY <1>3, <1>4, <1>5, <1>6, <1>7, <1>8 DEF LocalInside, LocalInv, InsideInv

\* A read that starts takes a free place and is no mutation.
LEMMA StartReadStep ==
    ASSUME LocalInside, (\E kind \in {"list", "image"} : StartRead(kind)) \/ StartPage
    PROVE  LocalInside'
<1>1. /\ TypeOK /\ InsideInv /\ TaskInv /\ PagesInv /\ LedgerInv /\ AskedInv
      /\ FilesTypeOK /\ ReadsTypeOK
  BY PartsAre, TypesAre
<1>2. PICK kind \in {"list", "image", "page"} :
        /\ Started(Min(Free), kind, NoOne, NoOne) /\ Free # {}
        /\ IF kind = "page"
           THEN /\ pager.state = "want" /\ pager' = [pager EXCEPT !.state = "wait"]
                /\ UNCHANGED asks
           ELSE UNCHANGED pager /\ asks' = asks + 1 /\ asks < MaxAsks
  BY DEF StartRead, StartPage, readVars, MaySubmit
<1>3. UNCHANGED <<fileVars, thread, rows, current, attachments, release, authorized, ledger,
                  page, asked, answered>>
  BY DEF StartRead, StartPage, readVars
<1>4. release = "no"
  BY DEF StartRead, StartPage, MaySubmit
<1>5. PICK t \in Tasks :
        /\ task' \in [Tasks -> TaskType] /\ \A u \in Tasks \ {t} : task'[u] = task[u]
        /\ task[t].kind = "none" /\ t \notin Live /\ thread[t].pc = "none"
        /\ task'[t].kind = kind /\ task'[t].id = NoOne /\ task'[t].live
  BY <1>1, <1>2, StartedIs
<1>6. /\ pager'.order = pager.order /\ pager'.offset = pager.offset
      /\ pager'.start = pager.start /\ pager'.seen = pager.seen
      /\ pager'.state = IF kind = "page" THEN "wait" ELSE pager.state
      /\ ReadsTypeOK'
  BY <1>1, <1>2, <1>3 DEF ReadsTypeOK
<1>7. FilesTypeOK' /\ InsideInv'
  BY <1>1, <1>3, FilesKept
<1>8. TaskInv'
  <2>1. TaskOK(t)'
    BY <1>1, <1>2, <1>3, <1>5, <1>6 DEF TaskInv, TaskOK
  <2>2. ASSUME NEW u \in Tasks \ {t} PROVE TaskOK(u)'
    BY <1>1, <1>2, <1>3, <1>5, <1>6 DEF TaskInv, TaskOK
  <2> QED BY <2>1, <2>2 DEF TaskInv
<1>9. PagesInv'
  <2>1. \A u \in Tasks : task'[u].kind = "page" /\ thread'[u].out = "ok" =>
           task[u].kind = "page" /\ thread[u].out = "ok" /\ page'[u] = page[u]
    BY <1>1, <1>3, <1>5 DEF TaskInv, TaskOK
  <2>2. \A u \in Tasks : task'[u].kind = "page" /\ thread'[u].out = "ok" => PageOK(page[u])'
    BY <1>1, <1>3, <1>6, <2>1 DEF PagesInv, PageOK, Behind, All
  <2> QED BY <1>1, <1>2, <1>3, <1>6, <2>2 DEF PagesInv, Behind, All
<1>10. LedgerInv'
  <2>1. \A u \in Tasks : Mutates(u) \/ Mutates(u)' => task'[u] = task[u]
    BY <1>2, <1>5 DEF Mutates, Live
  <2> QED BY <1>1, <1>3, <1>4, <1>8, <2>1, LedgerKept
<1>11. AskedInv'
  BY <1>1, <1>3, TypesAre, AskedKept DEF Reaches
<1>12. TypeOK'
  <2>1. asks' \in 0..MaxAsks
    BY <1>1, <1>2, TypesAre, RequestsAssumption
  <2> QED BY <1>1, <1>3, <1>5, <1>6, <1>7, <2>1 DEF TypeOK, TaskType
<1> QED BY <1>7, <1>8, <1>9, <1>10, <1>11, <1>12 DEF LocalInside, LocalInv, InsideInv

\* A task that runs for the first time spawns its thread at the root.
LEMMA RunTaskStep ==
    ASSUME LocalInside, NEW t \in Tasks, RunTask(t)
    PROVE  LocalInside'
<1>1. /\ TypeOK /\ InsideInv /\ TaskInv /\ PagesInv /\ LedgerInv /\ AskedInv
      /\ FilesTypeOK /\ ReadsTypeOK
  BY PartsAre, TypesAre
<1>2. UNCHANGED <<fileVars, readVars, leaseVars>>
  BY DEF RunTask
<1>3. task[t].live /\ task[t] \in TaskType /\ task[t].kind \in {"create", "list", "image", "page"}
  BY <1>1, TypesAre DEF RunTask, TaskInv, TaskOK, TaskType
<1> DEFINE th == IF ~authorized THEN [NoThread EXCEPT !.pc = "done", !.out = "error"]
                 ELSE IF task[t].kind = "page" THEN [NoThread EXCEPT !.pc = "page"]
                 ELSE Spawn(task[t].kind)
<1>4. thread' = [thread EXCEPT ![t] = th]
  BY DEF RunTask
<1>5. /\ th \in ThreadType /\ th.dir = "none" /\ th.out # "ok"
      /\ th.path \in {"none", "R/a", "R/a/n"}
      /\ th.pc \in IF task[t].kind = "page" THEN {"page", "done"} ELSE {"first", "canon", "done"}
      /\ th.pc \in FileCalls => /\ th.op = task[t].kind
                                /\ th.path = IF th.op = "image" THEN "R/a/n" ELSE "R/a"
  <2>1. CASE ~authorized
    BY <2>1, NoneIs DEF ThreadType, Calls, FileCalls
  <2>2. CASE authorized /\ task[t].kind = "page"
    BY <2>2, NoneIs DEF ThreadType, Calls, FileCalls
  <2>3. CASE authorized /\ task[t].kind # "page"
    BY <2>3, <1>3, NoneIs DEF ThreadType, Calls, FileCalls, Spawn, Operations, Paths
  <2> QED BY <2>1, <2>2, <2>3
<1> HIDE DEF th
<1>6. /\ thread' \in [Tasks -> ThreadType] /\ thread'[t] = th
      /\ \A u \in Tasks \ {t} : thread'[u] = thread[u]
  BY <1>1, <1>4, <1>5 DEF FilesTypeOK, ThreadType
<1>7. InsideInv'
  <2>1. ThreadOK(t)'
    BY <1>5, <1>6 DEF ThreadOK, FileCalls
  <2>2. ASSUME NEW u \in Tasks \ {t} PROVE ThreadOK(u)'
    BY <1>1, <1>6 DEF InsideInv, ThreadInv, ThreadOK
  <2> QED BY <1>1, <1>2, <2>1, <2>2 DEF InsideInv, ThreadInv, StaysInside, fileVars
<1>8. TaskInv'
  <2>1. TaskOK(t)'
    BY <1>1, <1>2, <1>3, <1>5, <1>6 DEF TaskInv, TaskOK, leaseVars, readVars
  <2>2. ASSUME NEW u \in Tasks \ {t} PROVE TaskOK(u)'
    BY <1>1, <1>2, <1>6 DEF TaskInv, TaskOK, leaseVars, readVars
  <2> QED BY <2>1, <2>2 DEF TaskInv
<1>9. ReadsTypeOK' /\ PagesInv'
  <2>1. \A u \in Tasks : task'[u].kind = "page" /\ thread'[u].out = "ok" =>
           task[u].kind = "page" /\ thread[u].out = "ok" /\ page'[u] = page[u]
    BY <1>2, <1>5, <1>6 DEF leaseVars
  <2> QED BY <1>1, <1>2, <2>1, PagesKept
<1>10. LedgerInv'
  BY <1>1, <1>2, <1>8, LedgerKept DEF LedgerInv, Live, leaseVars
<1>11. AskedInv'
  BY <1>1, <1>2, TypesAre, AskedKept DEF Reaches, leaseVars
<1>12. TypeOK'
  BY <1>1, <1>2, <1>6, <1>9 DEF TypeOK, FilesTypeOK, fileVars, leaseVars, ThreadType
<1> QED BY <1>7, <1>8, <1>9, <1>10, <1>11, <1>12 DEF LocalInside, LocalInv, InsideInv

\* A thread's call concerns the files and its own place.
LEMMA RunThreadStep ==
    ASSUME LocalInside, NEW t \in Tasks, RunThread(t)
    PROVE  LocalInside'
<1>1. /\ TypeOK /\ InsideInv /\ TaskInv /\ PagesInv /\ LedgerInv /\ AskedInv
      /\ FilesTypeOK /\ ReadsTypeOK
  BY PartsAre, TypesAre
<1>2. UNCHANGED <<readVars, leaseVars>> /\ (FileStep(t) \/ ThreadFails(t))
  BY DEF RunThread
<1>3. /\ FilesTypeOK' /\ InsideInv'
      /\ \A u \in Tasks \ {t} : thread'[u] = thread[u]
      /\ thread[t].pc \notin {"none", "done"}
      /\ thread'[t].pc \in FileCalls \cup {"done"}
      /\ thread'[t].out = "ok" => thread'[t].pc = "done" \/ thread[t].out = "ok"
      /\ thread[t].pc = "page" => thread'[t].pc = "done" /\ thread'[t].out = "error"
  BY <1>1, <1>2, FileStepInside
<1>4. TaskInv'
  <2>1. TaskOK(t)'
    BY <1>1, <1>2, <1>3 DEF TaskInv, TaskOK, leaseVars, readVars, FileCalls
  <2>2. ASSUME NEW u \in Tasks \ {t} PROVE TaskOK(u)'
    BY <1>1, <1>2, <1>3 DEF TaskInv, TaskOK, leaseVars, readVars
  <2> QED BY <2>1, <2>2 DEF TaskInv
<1>5. ReadsTypeOK' /\ PagesInv'
  <2>1. \A u \in Tasks : task'[u].kind = "page" /\ thread'[u].out = "ok" =>
           task[u].kind = "page" /\ thread[u].out = "ok" /\ page'[u] = page[u]
    BY <1>1, <1>2, <1>3 DEF leaseVars, TaskInv, TaskOK
  <2> QED BY <1>1, <1>2, <2>1, PagesKept
<1>6. LedgerInv'
  BY <1>1, <1>2, <1>4, LedgerKept DEF LedgerInv, Live, leaseVars
<1>7. AskedInv'
  BY <1>1, <1>2, TypesAre, AskedKept DEF Reaches, leaseVars
<1>8. TypeOK'
  BY <1>1, <1>2, <1>3, <1>5 DEF TypeOK, leaseVars
<1> QED BY <1>3, <1>4, <1>5, <1>6, <1>7, <1>8 DEF LocalInside, LocalInv, InsideInv

\* The query reads the page that the client's offset asks for.
LEMMA ReadPageStep ==
    ASSUME LocalInside, NEW t \in Tasks, ReadPage(t)
    PROVE  LocalInside'
<1>1. /\ TypeOK /\ InsideInv /\ TaskInv /\ PagesInv /\ LedgerInv /\ AskedInv
      /\ FilesTypeOK /\ ReadsTypeOK
  BY PartsAre, TypesAre
<1>2. /\ UNCHANGED <<fileVars, readVars, current, attachments, release, authorized, ledger,
                     task, asked, answered, asks>>
      /\ thread[t].pc = "page" /\ End(t, "ok")
  BY DEF ReadPage, At
<1> DEFINE p == Page(pager.order, pager.offset)
<1>3. p \in Pages /\ PageOK(p)
  BY <1>1, PageFacts
<1>4. page' = [page EXCEPT ![t] = p]
  BY DEF ReadPage
<1> HIDE DEF p
<1>5. page' \in [Tasks -> Pages] /\ page'[t] = p /\ \A u \in Tasks \ {t} : page'[u] = page[u]
  BY <1>1, <1>3, <1>4, TypesAre
<1>6. /\ thread' \in [Tasks -> ThreadType] /\ \A u \in Tasks \ {t} : thread'[u] = thread[u]
      /\ thread'[t].pc = "done" /\ thread'[t].out = "ok"
      /\ thread'[t].path = thread[t].path /\ thread'[t].dir = thread[t].dir
  BY <1>1, <1>2, EndIs DEF FilesTypeOK, ThreadType
<1>7. InsideInv'
  <2>1. ThreadOK(t)'
    BY <1>1, <1>6 DEF InsideInv, ThreadInv, ThreadOK, FileCalls
  <2>2. ASSUME NEW u \in Tasks \ {t} PROVE ThreadOK(u)'
    BY <1>1, <1>6 DEF InsideInv, ThreadInv, ThreadOK
  <2> QED BY <1>1, <1>2, <2>1, <2>2 DEF InsideInv, ThreadInv, StaysInside, fileVars
<1>8. TaskInv'
  <2>1. TaskOK(t)'
    BY <1>1, <1>2, <1>6 DEF TaskInv, TaskOK, readVars
  <2>2. ASSUME NEW u \in Tasks \ {t} PROVE TaskOK(u)'
    BY <1>1, <1>2, <1>6 DEF TaskInv, TaskOK, readVars
  <2> QED BY <2>1, <2>2 DEF TaskInv
<1>9. ReadsTypeOK' /\ PagesInv'
  <2>1. ReadsTypeOK'
    BY <1>1, <1>2 DEF ReadsTypeOK, readVars
  <2>2. PageOK(page[t])'
    BY <1>2, <1>3, <1>5 DEF PageOK, Behind, All, readVars
  <2>3. ASSUME NEW u \in Tasks \ {t}, task'[u].kind = "page", thread'[u].out = "ok"
        PROVE  PageOK(page[u])'
    BY <1>1, <1>2, <1>5, <1>6, <2>3 DEF PagesInv, PageOK, Behind, All, readVars
  <2> QED BY <1>1, <1>2, <2>1, <2>2, <2>3 DEF PagesInv, Behind, All, readVars
<1>10. LedgerInv'
  BY <1>1, <1>2, <1>8, LedgerKept DEF LedgerInv, Live
<1>11. AskedInv'
  BY <1>1, <1>2, TypesAre, AskedKept DEF Reaches
<1>12. TypeOK'
  BY <1>1, <1>2, <1>5, <1>6, <1>9 DEF TypeOK, FilesTypeOK, fileVars, ThreadType
<1> QED BY <1>7, <1>8, <1>9, <1>10, <1>11, <1>12 DEF LocalInside, LocalInv, InsideInv

\* The client moves on, and what it will take in is still good.
LEMMA PagesTurn ==
    ASSUME TypeOK, PagesInv, UNCHANGED rows, ReadsTypeOK',
           pager'.start = pager.start, pager'.order = pager.order,
           pager.seen \subseteq pager'.seen,
           pager'.seen \subseteq {i \in 1..Len(rows) : rows[i] = "shown"},
           pager'.offset <= Len(rows), Behind(pager'.offset) \subseteq pager'.seen,
           pager'.state = "done" => All \subseteq pager'.seen,
           pager'.state = "off" => pager'.offset = 0,
           \A u \in Tasks : task'[u].kind = "page" /\ thread'[u].out = "ok" =>
               task[u].kind = "page" /\ thread[u].out = "ok" /\ page'[u] = page[u]
    PROVE  PagesInv'
<1>1. ReadsTypeOK /\ page \in [Tasks -> Pages]
  BY TypesAre
<1>2. \A p \in Pages : PageOK(p) => PageOK(p)'
  BY <1>1, PageStands DEF ReadsTypeOK
<1>3. ASSUME NEW u \in Tasks, task'[u].kind = "page", thread'[u].out = "ok"
      PROVE  PageOK(page[u])'
  <2>1. page[u] \in Pages /\ PageOK(page[u]) /\ page'[u] = page[u]
    BY <1>1, <1>3 DEF PagesInv
  <2> QED BY <1>2, <2>1 DEF PageOK
<1>4. Behind(pager.offset)' = Behind(pager'.offset) /\ All' = All
  BY DEF Behind, All
<1> QED BY <1>3, <1>4 DEF PagesInv

\* What the client does with an answer.
LEMMA AskAgainIs ==
    ASSUME ReadsTypeOK, pager' = AskAgain, UNCHANGED rows
    PROVE  /\ ReadsTypeOK'
           /\ pager'.order = pager.order /\ pager'.offset = pager.offset
           /\ pager'.start = pager.start /\ pager'.seen = pager.seen
           /\ pager'.state = IF pager.state = "wait" THEN "want" ELSE pager.state
BY DEF ReadsTypeOK, AskAgain

LEMMA PageTakenIs ==
    ASSUME ReadsTypeOK, NEW p \in Pages, pager' = PageTaken(p), UNCHANGED rows
    PROVE  /\ ReadsTypeOK'
           /\ pager'.order = pager.order /\ pager'.offset = p.next
           /\ pager'.start = pager.start /\ pager'.seen = pager.seen \cup p.seen
           /\ pager'.state = IF p.raw = PageLimit THEN "want" ELSE "done"
BY DEF ReadsTypeOK, PageTaken, Pages

\* A read that ends leaves its place free; the client takes a page in or
\* asks again.
LEMMA FinishReadStep ==
    ASSUME LocalInside, NEW t \in Tasks, FinishRead(t) \/ Reap(t)
    PROVE  LocalInside'
<1>1. /\ TypeOK /\ InsideInv /\ TaskInv /\ PagesInv /\ LedgerInv /\ AskedInv
      /\ FilesTypeOK /\ ReadsTypeOK
  BY PartsAre, TypesAre
<1>2. /\ UNCHANGED <<fileVars, rows, current, attachments, release, authorized, ledger, asked,
                     answered, asks>>
      /\ Reset(t) /\ ~Mutates(t)
  BY DEF FinishRead, Reap, Mutates, readVars
<1>3. /\ task' \in [Tasks -> TaskType] /\ \A u \in Tasks \ {t} : task'[u] = task[u]
      /\ thread' \in [Tasks -> ThreadType] /\ \A u \in Tasks \ {t} : thread'[u] = thread[u]
      /\ page' \in [Tasks -> Pages] /\ \A u \in Tasks \ {t} : page'[u] = page[u]
      /\ task'[t] = NoTask /\ thread'[t] = NoThread
      /\ Live' = Live \ {t}
  BY <1>1, <1>2, ResetIs
<1>4. \A u \in Tasks : task'[u].kind = "page" /\ thread'[u].out = "ok" =>
          task[u].kind = "page" /\ thread[u].out = "ok" /\ page'[u] = page[u]
  BY <1>3, NoneIs
<1>5. ReadsTypeOK' /\ PagesInv' /\ (pager.state # "off" => pager'.state # "off")
  <2>1. CASE UNCHANGED pager
    BY <1>1, <1>2, <1>4, <2>1, PagesKept DEF readVars
  <2>2. CASE pager' = AskAgain
    <3>1. /\ ReadsTypeOK' /\ pager'.order = pager.order /\ pager'.offset = pager.offset
          /\ pager'.start = pager.start /\ pager'.seen = pager.seen
          /\ pager'.state = IF pager.state = "wait" THEN "want" ELSE pager.state
      BY <1>1, <1>2, <2>2, AskAgainIs
    <3> QED BY <1>1, <1>2, <1>4, <3>1, PagesTurn DEF PagesInv
  <2>3. CASE pager' = PageTaken(page[t]) /\ task[t].kind = "page" /\ thread[t].out = "ok"
    <3>1. page[t] \in Pages /\ PageOK(page[t])
      BY <1>1, <2>3, TypesAre DEF PagesInv
    <3>2. /\ ReadsTypeOK' /\ pager'.order = pager.order /\ pager'.offset = page[t].next
          /\ pager'.start = pager.start /\ pager'.seen = pager.seen \cup page[t].seen
          /\ pager'.state = IF page[t].raw = PageLimit THEN "want" ELSE "done"
      BY <1>1, <1>2, <2>3, <3>1, PageTakenIs
    <3>3. PagesInv'
      BY <1>1, <1>2, <1>4, <3>1, <3>2, PagesTurn DEF PagesInv, PageOK
    <3> QED BY <3>2, <3>3
  <2> QED BY <2>1, <2>2, <2>3 DEF FinishRead, Reap, readVars, Outcome
<1>6. InsideInv'
  <2>1. ThreadOK(t)'
    BY <1>3, NoneIs DEF ThreadOK, FileCalls
  <2>2. ASSUME NEW u \in Tasks \ {t} PROVE ThreadOK(u)'
    BY <1>1, <1>3 DEF InsideInv, ThreadInv, ThreadOK
  <2> QED BY <1>1, <1>2, <2>1, <2>2 DEF InsideInv, ThreadInv, StaysInside, fileVars
<1>7. TaskInv'
  <2>1. TaskOK(t)'
    BY <1>3, NoneIs DEF TaskOK
  <2>2. ASSUME NEW u \in Tasks \ {t} PROVE TaskOK(u)'
    BY <1>1, <1>3, <1>5 DEF TaskInv, TaskOK
  <2> QED BY <2>1, <2>2 DEF TaskInv
<1>8. LedgerInv'
  <2>1. \A u \in Tasks : Mutates(u) \/ Mutates(u)' => task'[u] = task[u]
    BY <1>2, <1>3, NoneIs DEF Mutates
  <2> QED BY <1>1, <1>2, <1>3, <1>7, <2>1, LedgerKept DEF LedgerInv
<1>9. AskedInv'
  BY <1>1, <1>2, TypesAre, AskedKept DEF Reaches
<1>10. TypeOK'
  BY <1>1, <1>2, <1>3, <1>5 DEF TypeOK, FilesTypeOK, fileVars, ThreadType, TaskType
<1> QED BY <1>5, <1>6, <1>7, <1>8, <1>9, <1>10 DEF LocalInside, LocalInv, InsideInv

\* The device reconnects: what the old attachments asked reaches nobody.
LEMMA AttachStep ==
    ASSUME LocalInside, Attach
    PROVE  LocalInside'
<1>1. /\ TypeOK /\ InsideInv /\ TaskInv /\ PagesInv /\ LedgerInv /\ AskedInv
      /\ FilesTypeOK /\ ReadsTypeOK
  BY PartsAre, TypesAre
<1>2. /\ UNCHANGED <<fileVars, thread, rows, release, authorized, ledger, task, page, asked,
                     answered, asks>>
      /\ release = "no" /\ attachments < MaxAttachments /\ attachments' = attachments + 1
      /\ current' = attachments' /\ pager' = AskAgain
  BY DEF Attach
<1>3. /\ attachments \in Nat /\ attachments' \in 0..MaxAttachments /\ current' \in 0..attachments'
  BY <1>1, <1>2, TypesAre, RequestsAssumption
<1>4. FilesTypeOK' /\ InsideInv'
  BY <1>1, <1>2, FilesKept
<1>5. /\ ReadsTypeOK' /\ pager'.order = pager.order /\ pager'.offset = pager.offset
      /\ pager'.start = pager.start /\ pager'.seen = pager.seen
      /\ pager'.state = IF pager.state = "wait" THEN "want" ELSE pager.state
  BY <1>1, <1>2, AskAgainIs
<1>6. PagesInv'
  BY <1>1, <1>2, <1>5, PagesTurn DEF PagesInv
<1>7. TaskInv'
  BY <1>1, <1>2, <1>5 DEF TaskInv, TaskOK
<1>8. LedgerInv'
  BY <1>1, <1>2, <1>7, LedgerKept DEF Mutates
<1>9. AskedInv'
  BY <1>1, <1>2, <1>3, AskedKept DEF Reaches
<1>10. TypeOK'
  BY <1>1, <1>2, <1>3, <1>4, <1>5 DEF TypeOK
<1> QED BY <1>4, <1>6, <1>7, <1>8, <1>9, <1>10 DEF LocalInside, LocalInv, InsideInv

\* A detach, a revocation and the start of a release only silence.
LEMMA SilenceStep ==
    ASSUME LocalInside, Detach \/ Revoke \/ BeginRelease
    PROVE  LocalInside'
<1>1. /\ TypeOK /\ InsideInv /\ TaskInv /\ PagesInv /\ LedgerInv /\ AskedInv
      /\ FilesTypeOK /\ ReadsTypeOK
  BY PartsAre, TypesAre
<1>2. /\ UNCHANGED <<fileVars, thread, readVars, attachments, ledger, task, page, asked,
                     answered, asks>>
      /\ \/ current' = 0 /\ UNCHANGED <<release, authorized>>
         \/ authorized' = FALSE /\ UNCHANGED <<release, current>>
         \/ release' = "begun" /\ current' = 0 /\ UNCHANGED authorized
  BY DEF Detach, Revoke, BeginRelease
<1>3. FilesTypeOK' /\ InsideInv'
  BY <1>1, <1>2, FilesKept
<1>4. ReadsTypeOK' /\ PagesInv'
  BY <1>1, <1>2, PagesKept
<1>5. TaskInv'
  BY <1>1, <1>2 DEF TaskInv, TaskOK, readVars
<1>6. LedgerInv'
  <2>1. CASE UNCHANGED release
    BY <1>1, <1>2, <1>5, <2>1, LedgerKept DEF LedgerInv, Live
  <2>2. CASE release' = "begun" /\ current' = 0
    BY <1>1, <1>2, <2>2 DEF LedgerInv, UniqueIds, OneRun, Live
  <2> QED BY <1>2, <2>1, <2>2
<1>7. AskedInv'
  BY <1>1, <1>2, TypesAre, AskedKept DEF Reaches
<1>8. TypeOK'
  <2>1. /\ release' \in {"no", "begun", "done"} /\ authorized' \in BOOLEAN
        /\ current' \in 0..attachments'
    <3>1. /\ release \in {"no", "begun", "done"} /\ authorized \in BOOLEAN
          /\ current \in 0..attachments /\ attachments \in Nat
      BY <1>1, TypesAre, RequestsAssumption
    <3>2. current' = 0 \/ current' = current
      BY <1>2
    <3>3. authorized' \in BOOLEAN
      BY <1>2, <3>1
    <3>4. release' \in {"no", "begun", "done"}
      BY <1>2, <3>1
    <3> QED BY <1>2, <3>1, <3>2, <3>3, <3>4
  <2>2. /\ ledger \in Seq(Records) /\ Len(ledger) <= MaxMutations
        /\ attachments \in 0..MaxAttachments
        /\ task \in [Tasks -> TaskType] /\ page \in [Tasks -> Pages]
        /\ asked \subseteq [id : Ids, payload : Payloads, to : 1..MaxAttachments]
        /\ answered \subseteq [asked : Payloads, ran : Payloads]
        /\ asks \in 0..MaxAsks
    BY <1>1, TypesAre
  <2> QED BY <1>2, <1>3, <1>4, <2>1, <2>2 DEF TypeOK, TaskType
<1> QED BY <1>3, <1>4, <1>5, <1>6, <1>7, <1>8 DEF LocalInside, LocalInv, InsideInv

\* The end of a release drops the ledger and lets no task go on.
LEMMA FinishReleaseStep ==
    ASSUME LocalInside, FinishRelease
    PROVE  LocalInside'
<1>1. /\ TypeOK /\ InsideInv /\ TaskInv /\ PagesInv /\ LedgerInv /\ AskedInv
      /\ FilesTypeOK /\ ReadsTypeOK
  BY PartsAre, TypesAre
<1>2. /\ UNCHANGED <<fileVars, thread, readVars, current, attachments, authorized, page, asked,
                     answered, asks>>
      /\ release = "begun" /\ release' = "done" /\ ledger' = <<>>
      /\ task' = [t \in Tasks |->
                    IF At(t, "none") THEN NoTask ELSE [task[t] EXCEPT !.live = FALSE]]
  BY DEF FinishRelease
<1>3. ASSUME NEW t \in Tasks
      PROVE  /\ task'[t] \in TaskType /\ ~task'[t].live
             /\ \/ task'[t] = NoTask /\ thread[t].pc = "none"
                \/ /\ task'[t].kind = task[t].kind /\ task'[t].id = task[t].id
                   /\ task'[t].payload = task[t].payload
  <2>1. task[t] \in TaskType
    BY <1>1, TypesAre
  <2>2. CASE At(t, "none")
    <3>1. task'[t] = NoTask
      BY <1>2, <2>2
    <3>2. thread[t].pc = "none"
      BY <2>2 DEF At
    <3>3. task'[t] \in TaskType
      BY <3>1, NoneIs
    <3>4. ~task'[t].live
      BY <3>1, NoneIs
    <3> QED BY <3>1, <3>2, <3>3, <3>4
  <2>3. CASE ~At(t, "none")
    <3>1. task'[t] = [task[t] EXCEPT !.live = FALSE]
      BY <1>2, <2>3
    <3> QED BY <2>1, <3>1 DEF TaskType
  <2> QED BY <2>2, <2>3
<1>4. FilesTypeOK' /\ InsideInv'
  BY <1>1, <1>2, FilesKept
<1>5. ReadsTypeOK' /\ PagesInv'
  <2>1. \A t \in Tasks : task'[t].kind = "page" /\ thread'[t].out = "ok" =>
           task[t].kind = "page" /\ thread[t].out = "ok" /\ page'[t] = page[t]
    BY <1>2, <1>3, NoneIs
  <2> QED BY <1>1, <1>2, <2>1, PagesKept
<1>6. TaskInv'
  <2>1. ASSUME NEW t \in Tasks PROVE TaskOK(t)'
    BY <1>1, <1>2, <1>3, NoneIs DEF TaskInv, TaskOK, readVars
  <2> QED BY <2>1 DEF TaskInv
<1>7. Live' = {}
  BY <1>3 DEF Live
<1>8. LedgerInv'
  BY <1>1, <1>2, <1>7 DEF LedgerInv, UniqueIds, OneRun
<1>9. AskedInv'
  BY <1>1, <1>2 DEF AskedInv, Reaches, AnswersAreOwn
<1>10. TypeOK'
  <2>1. task' \in [Tasks -> TaskType]
    BY <1>2, <1>3
  <2>2. ledger' \in Seq(Records) /\ Len(ledger') <= MaxMutations
    BY <1>2, RequestsAssumption
  <2> QED BY <1>1, <1>2, <1>4, <1>5, <2>1, <2>2 DEF TypeOK, TaskType
<1> QED BY <1>4, <1>5, <1>6, <1>8, <1>9, <1>10 DEF LocalInside, LocalInv, InsideInv

\* The owner changes the folders, the agent writes and the client opens the
\* transcript.
LEMMA EnvironmentStep ==
    ASSUME LocalInside, Environment
    PROVE  LocalInside'
<1>1. /\ TypeOK /\ InsideInv /\ TaskInv /\ PagesInv /\ LedgerInv /\ AskedInv
      /\ FilesTypeOK /\ ReadsTypeOK
  BY PartsAre, TypesAre
<1>2. UNCHANGED leaseVars /\ UNCHANGED thread
  BY DEF Environment, fileVars, readVars
<1>3. FilesTypeOK' /\ InsideInv'
  <2>1. CASE UNCHANGED fileVars
    BY <1>1, <1>2, <2>1, FilesKept
  <2>2. CASE OwnerChangesFolder \/ OwnerChangesEntry
    <3>1. touches' \in 0..MaxTouches /\ UNCHANGED used
      BY <1>1, <2>2, FilesAssumption DEF OwnerChangesFolder, OwnerChangesEntry, FilesTypeOK
    <3>2. a' \in {"in", "link", "none"} /\ n' \in [{"in", "out"} -> Entries]
      BY <1>1, <2>2 DEF OwnerChangesFolder, OwnerChangesEntry, FilesTypeOK
    <3>3. FilesTypeOK'
      BY <1>1, <1>2, <3>1, <3>2 DEF FilesTypeOK
    <3> QED BY <1>1, <1>2, <3>1, <3>3 DEF InsideInv, ThreadInv, ThreadOK, StaysInside
  <2> QED BY <2>1, <2>2 DEF Environment
<1>4. ReadsTypeOK' /\ PagesInv' /\ (pager.state # "off" => pager'.state # "off")
  <2>1. CASE UNCHANGED readVars
    BY <1>1, <1>2, <2>1, PagesKept DEF readVars, leaseVars
  <2>2. ASSUME NEW k \in {"shown", "hidden"}, AppendRow(k)
        PROVE  ReadsTypeOK' /\ PagesInv' /\ UNCHANGED pager
    <3>1. /\ rows' = Append(rows, k) /\ UNCHANGED pager /\ Len(rows) < MaxRows
          /\ rows \in Seq({"shown", "hidden"})
      BY <1>1, <2>2 DEF AppendRow, ReadsTypeOK
    <3>2. /\ rows' \in Seq({"shown", "hidden"}) /\ Len(rows') = Len(rows) + 1
          /\ \A i \in 1..Len(rows) : rows'[i] = rows[i]
          /\ Len(rows) \in Nat
      BY <3>1
    <3>3. ReadsTypeOK'
      BY <1>1, <3>1, <3>2, ReadsAssumption DEF ReadsTypeOK
    <3>4. /\ \A o \in Nat : Behind(o)' \subseteq Behind(o)
          /\ All' = All
          /\ \A p \in Pages : PageOK(p) => PageOK(p)'
      BY <1>1, <3>1, <3>2, PageStands
    <3>5. ASSUME NEW u \in Tasks, task'[u].kind = "page", thread'[u].out = "ok"
          PROVE  PageOK(page[u])'
      <4>1. page[u] \in Pages /\ PageOK(page[u]) /\ page'[u] = page[u]
        BY <1>1, <1>2, <3>5, TypesAre DEF PagesInv, leaseVars
      <4> QED BY <3>4, <4>1 DEF PageOK
    <3>6. pager.offset \in Nat /\ pager.start \in Nat
      BY <1>1, ReadsAssumption DEF ReadsTypeOK
    <3>7. Behind(pager.offset)' \subseteq Behind(pager.offset)
      BY <3>1, <3>4, <3>6 DEF Behind
    <3>8. pager.seen \subseteq {i \in 1..Len(rows) : rows[i] = "shown"}'
      BY <1>1, <3>2 DEF PagesInv
    <3> QED BY <1>1, <3>1, <3>2, <3>3, <3>4, <3>5, <3>6, <3>7, <3>8 DEF PagesInv, Behind
  <2>3. ASSUME NEW o \in Orders, OpenTranscript(o)
        PROVE  ReadsTypeOK' /\ PagesInv' /\ pager'.state # "off"
    <3>1. /\ UNCHANGED rows /\ pager.state = "off" /\ pager.offset = 0
          /\ pager' = [pager EXCEPT !.order = o, !.start = Len(rows), !.state = "want"]
      BY <1>1, <2>3 DEF OpenTranscript, PagesInv
    <3>2. /\ ReadsTypeOK' /\ pager'.offset = 0 /\ pager'.start = Len(rows)
          /\ pager'.seen = pager.seen /\ pager'.state = "want" /\ Len(rows) \in Nat
      <4>1. Len(rows) \in Nat /\ Len(rows) \in 0..MaxRows
        BY <1>1, ReadsAssumption DEF ReadsTypeOK
      <4> QED BY <1>1, <3>1, <4>1 DEF ReadsTypeOK
    <3>3. Behind(pager.offset)' = {}
      BY <3>1, <3>2 DEF Behind
    <3>4. \A u \in Tasks : task'[u].kind # "page"
      BY <1>1, <1>2, <3>1 DEF TaskInv, TaskOK, leaseVars
    <3> QED BY <1>1, <3>1, <3>2, <3>3, <3>4 DEF PagesInv
  <2> QED BY <2>1, <2>2, <2>3 DEF Environment, readVars
<1>5. TaskInv'
  BY <1>1, <1>2, <1>4 DEF TaskInv, TaskOK, leaseVars
<1>6. LedgerInv'
  BY <1>1, <1>2, <1>5, LedgerKept DEF LedgerInv, Live, leaseVars
<1>7. AskedInv'
  BY <1>1, <1>2, TypesAre, AskedKept DEF Reaches, leaseVars
<1>8. TypeOK'
  BY <1>1, <1>2, <1>3, <1>4 DEF TypeOK, leaseVars
<1> QED BY <1>3, <1>4, <1>5, <1>6, <1>7, <1>8 DEF LocalInside, LocalInv, InsideInv

-----------------------------------------------------------------------------
(* The ledger's steps                                                      *)

\* A ledger has one record of an id.
LEMMA OneOfAnId ==
    ASSUME NEW s \in Seq(Records), UniqueIds(s)
    PROVE  \A r \in Records, e \in Records : Has(s, r) /\ Has(s, e) /\ r.id = e.id => r = e
BY DEF UniqueIds, Has

\* A record that is looked up goes to the end, as it is or changed.
LEMMA MovedIs ==
    ASSUME NEW s \in Seq(Records), UniqueIds(s), NEW i \in 1..Len(s),
           NEW e \in Records, e.id = s[i].id
    PROVE  /\ Append(RemoveAt(s, i), e) \in Seq(Records)
           /\ Len(Append(RemoveAt(s, i), e)) = Len(s)
           /\ UniqueIds(Append(RemoveAt(s, i), e))
           /\ \A r \in Records :
                 Has(Append(RemoveAt(s, i), e), r) <=> (Has(s, r) /\ r # s[i]) \/ r = e
<1> DEFINE u == RemoveAt(s, i)
<1>1. /\ u \in Seq(Records) /\ Len(u) = Len(s) - 1 /\ UniqueIds(u)
      /\ \A r \in Records : Has(u, r) <=> Has(s, r) /\ r # s[i]
  BY Removed
<1>2. s[i] \in Records /\ Has(s, s[i]) /\ Len(s) \in Nat
  BY DEF Has
<1> HIDE DEF u
<1>3. \A r \in Records : Has(u, r) => r.id # e.id
  BY <1>1, <1>2, OneOfAnId
<1>4. /\ Append(u, e) \in Seq(Records) /\ Len(Append(u, e)) = Len(u) + 1
      /\ UniqueIds(Append(u, e))
      /\ \A r \in Records : Has(Append(u, e), r) <=> Has(u, r) \/ r = e
  BY <1>1, <1>3, Appended
<1> QED BY <1>1, <1>2, <1>4 DEF u

\* An answer goes to the requests of one id and attachment, those before and
\* one that was just made.
LEMMA AnsweredIs ==
    ASSUME NEW id \in Ids, NEW to \in 1..MaxAttachments, NEW ran \in Payloads \cup {NoOne},
           NEW now, now \subseteq [id : Ids, payload : Payloads, to : 1..MaxAttachments],
           asked \subseteq [id : Ids, payload : Payloads, to : 1..MaxAttachments],
           answered \subseteq [asked : Payloads, ran : Payloads],
           Answered(id, to, now, ran)
    PROVE  /\ asked' \subseteq asked \cup now
           /\ \A q \in asked' : ~(q.id = id /\ q.to = to)
           /\ answered' \subseteq [asked : Payloads, ran : Payloads]
           /\ \A x \in answered' : \/ x \in answered
                                   \/ \E q \in asked \cup now : /\ q.id = id /\ q.to = to
                                                                /\ x.asked = q.payload
                                                                /\ x.ran = ran /\ ran \in Payloads
<1> DEFINE waiting == {q \in asked \cup now : q.id = id /\ q.to = to}
<1>1. /\ asked' = asked \ waiting
      /\ answered' = answered \cup {[asked |-> q.payload, ran |-> ran] :
                                      q \in {w \in waiting : ran # NoOne}}
  BY DEF Answered
<1>2. ASSUME NEW x \in answered', x \notin answered
      PROVE  /\ x \in [asked : Payloads, ran : Payloads]
             /\ \E q \in asked \cup now : /\ q.id = id /\ q.to = to
                                          /\ x.asked = q.payload
                                          /\ x.ran = ran /\ ran \in Payloads
  <2>1. PICK q \in waiting : x = [asked |-> q.payload, ran |-> ran] /\ ran # NoOne
    BY <1>1, <1>2
  <2>2. q \in asked \cup now /\ q.id = id /\ q.to = to /\ q.payload \in Payloads /\ ran \in Payloads
    BY <2>1
  <2>3. x.asked = q.payload /\ x.ran = ran
    BY <2>1
  <2> HIDE DEF waiting
  <2>4. x \in [asked : Payloads, ran : Payloads]
    BY <2>1, <2>2
  <2> QED BY <2>2, <2>3, <2>4
<1> QED BY <1>1, <1>2

\* Making room takes out a settled record at most.
Kept == IF Room(ledger) THEN ledger ELSE RemoveAt(ledger, Max(Evictable(ledger)))

LEMMA RoomIsMade ==
    ASSUME TypeOK, UniqueIds(ledger), Room(ledger) \/ Evictable(ledger) # {}
    PROVE  /\ Kept \in Seq(Records) /\ Len(Kept) < MaxMutations /\ UniqueIds(Kept)
           /\ \A r \in Records : Has(Kept, r) => Has(ledger, r)
           /\ \A r \in Records : Has(ledger, r) /\ r.outcome = "none" => Has(Kept, r)
<1>1. ledger \in Seq(Records) /\ Len(ledger) \in Nat /\ Len(ledger) <= MaxMutations
      /\ MaxMutations \in Nat
  BY TypesAre, RequestsAssumption
<1>2. CASE Room(ledger)
  BY <1>1, <1>2 DEF Kept, Room
<1>3. CASE ~Room(ledger)
  <2> DEFINE settled == {i \in DOMAIN ledger : ledger[i].outcome # "none"}
             m == Min(settled)
  <2>1. Evictable(ledger) = {m} /\ settled # {}
    BY <1>3 DEF Evictable
  <2>2. settled \subseteq Nat
    BY <1>1
  <2>3. m \in settled
    <3> HIDE DEF settled
    <3> QED BY <2>1, <2>2, MinIn
  <2>4. m \in 1..Len(ledger) /\ ledger[m].outcome # "none" /\ m \in Nat
    BY <1>1, <2>3
  <2> HIDE DEF m, settled
  <2>5. Max(Evictable(ledger)) = m
    BY <2>1, <2>4 DEF Max
  <2>6. Kept = RemoveAt(ledger, m)
    BY <1>3, <2>5 DEF Kept
  <2>7. /\ Kept \in Seq(Records) /\ Len(Kept) = Len(ledger) - 1 /\ UniqueIds(Kept)
        /\ \A r \in Records : Has(Kept, r) <=> Has(ledger, r) /\ r # ledger[m]
    BY <1>1, <2>4, <2>6, Removed
  <2>8. Len(Kept) < MaxMutations
    BY <1>1, <2>7
  <2> QED BY <2>4, <2>7, <2>8
<1> QED BY <1>2, <1>3

\* The first request of an id: its record, its run and who waits.
LEMMA StartMutationStep ==
    ASSUME LocalInside, NEW id \in Ids, NEW payload \in Payloads, StartMutation(id, payload)
    PROVE  LocalInside'
<1>1. /\ TypeOK /\ InsideInv /\ TaskInv /\ PagesInv /\ LedgerInv /\ AskedInv
      /\ FilesTypeOK /\ ReadsTypeOK
  BY PartsAre, TypesAre
<1> DEFINE e == [id |-> id, payload |-> payload, outcome |-> "none", waiter |-> current]
<1>2. /\ UNCHANGED <<fileVars, thread, readVars, current, attachments, release, authorized,
                     page, answered>>
      /\ asks' = asks + 1 /\ asks < MaxAsks /\ release = "no" /\ current # 0
      /\ asked' = asked \cup {Ask(id, payload)} /\ Positions(id) = {}
      /\ Started(Min(Free), "create", id, payload) /\ Free # {}
      /\ Room(ledger) \/ Evictable(ledger) # {}
      /\ ledger' = Append(Kept, e)
  BY DEF StartMutation, MaySubmit, Kept
<1>3. /\ current \in 1..MaxAttachments /\ current \in 0..MaxAttachments
      /\ current <= attachments /\ attachments \in Nat
  BY <1>1, <1>2, TypesAre, RequestsAssumption
<1>4. e \in Records /\ e.id = id /\ e.payload = payload /\ e.outcome = "none" /\ e.waiter = current
  BY <1>3 DEF Records
<1> HIDE DEF e
<1>5. PICK t \in Tasks :
        /\ task' \in [Tasks -> TaskType] /\ \A u \in Tasks \ {t} : task'[u] = task[u]
        /\ task[t].kind = "none" /\ t \notin Live /\ thread[t].pc = "none"
        /\ task'[t].kind = "create" /\ task'[t].id = id /\ task'[t].payload = payload
        /\ task'[t].to = current /\ task'[t].live
  BY <1>1, <1>2, StartedIs
<1>6. ledger \in Seq(Records) /\ UniqueIds(ledger)
  BY <1>1, TypesAre DEF LedgerInv
<1>7. /\ Kept \in Seq(Records) /\ Len(Kept) < MaxMutations /\ UniqueIds(Kept)
      /\ \A r \in Records : Has(Kept, r) => Has(ledger, r)
      /\ \A r \in Records : Has(ledger, r) /\ r.outcome = "none" => Has(Kept, r)
  BY <1>1, <1>2, <1>6, RoomIsMade
<1>8. \A r \in Records : Has(ledger, r) => r.id # id
  BY <1>2 DEF Positions, Has
<1>9. /\ ledger' \in Seq(Records) /\ Len(ledger') = Len(Kept) + 1 /\ UniqueIds(ledger')
      /\ \A r \in Records : Has(ledger', r) <=> Has(Kept, r) \/ r = e
  BY <1>2, <1>4, <1>7, <1>8, Appended
<1>10. FilesTypeOK' /\ InsideInv'
  BY <1>1, <1>2, FilesKept
<1>11. ReadsTypeOK' /\ PagesInv'
  <2>1. \A u \in Tasks : task'[u].kind = "page" /\ thread'[u].out = "ok" =>
           task[u].kind = "page" /\ thread[u].out = "ok" /\ page'[u] = page[u]
    BY <1>2, <1>5
  <2> QED BY <1>1, <1>2, <2>1, PagesKept
<1>12. TaskInv'
  <2>1. TaskOK(t)'
    BY <1>1, <1>2, <1>5 DEF TaskInv, TaskOK, readVars
  <2>2. ASSUME NEW u \in Tasks \ {t} PROVE TaskOK(u)'
    BY <1>1, <1>2, <1>5 DEF TaskInv, TaskOK, readVars
  <2> QED BY <2>1, <2>2 DEF TaskInv
<1>13. Live' = Live \cup {t} /\ \A u \in Live : u \in Tasks /\ u # t /\ task'[u] = task[u]
  BY <1>5 DEF Live
<1>14. \A u \in Live : task[u].id # id
  <2>1. SUFFICES ASSUME NEW u \in Live, task[u].id = id PROVE FALSE
    OBVIOUS
  <2>2. task[u].kind = "create"
    BY <1>1, <2>1, RequestsAssumption DEF TaskInv, TaskOK, Live
  <2>3. PICK r \in Records : Has(ledger, r) /\ RunsFor(u, r)
    BY <1>1, <1>2, <2>2 DEF LedgerInv
  <2> QED BY <1>8, <2>1, <2>3 DEF RunsFor
<1>15. OneRun'
  <2>1. OneRun
    BY <1>1 DEF LedgerInv
  <2> QED BY <1>5, <1>13, <1>14, <2>1 DEF OneRun
<1>16. ASSUME NEW r \in Records, Has(ledger', r), r.outcome = "none"
       PROVE  \E u \in Live' : RunsFor(u, r)'
  <2>1. CASE r = e
    BY <1>4, <1>5, <1>13, <2>1 DEF RunsFor
  <2>2. CASE Has(ledger, r)
    <3>1. PICK u \in Live : RunsFor(u, r)
      BY <1>1, <1>2, <1>16, <2>2 DEF LedgerInv
    <3> QED BY <1>13, <3>1 DEF RunsFor
  <2> QED BY <1>7, <1>9, <1>16, <2>1, <2>2
<1>17. ASSUME NEW u \in Live', task'[u].kind = "create"
       PROVE  \E r \in Records : Has(ledger', r) /\ r.outcome = "none" /\ RunsFor(u, r)'
  <2>1. CASE u = t
    <3>1. PICK r \in Records : r = e
      BY <1>4
    <3>2. Has(ledger', r) /\ r.outcome = "none" /\ r.id = id /\ r.payload = payload
      BY <1>4, <1>9, <3>1
    <3>3. RunsFor(t, r)'
      BY <1>5, <3>2 DEF RunsFor
    <3> QED BY <2>1, <3>2, <3>3
  <2>2. CASE u \in Live
    <3>1. PICK r \in Records : Has(ledger, r) /\ r.outcome = "none" /\ RunsFor(u, r)
      BY <1>1, <1>2, <1>13, <1>17, <2>2 DEF LedgerInv
    <3>2. Has(ledger', r)
      BY <1>7, <1>9, <3>1
    <3>3. RunsFor(u, r)'
      BY <1>13, <2>2, <3>1 DEF RunsFor
    <3> QED BY <3>1, <3>2, <3>3
  <2> QED BY <1>13, <2>1, <2>2
<1>18. LedgerInv'
  BY <1>2, <1>9, <1>15, <1>16, <1>17 DEF LedgerInv
<1>19. AskedInv'
  <2>1. ASSUME NEW q \in asked'
        PROVE  /\ q.to <= attachments'
               /\ Reaches(q.to)' =>
                    \E r \in Records : /\ Has(ledger', r) /\ r.outcome = "none"
                                       /\ r.id = q.id /\ r.payload = q.payload /\ r.waiter = q.to
    <3>1. CASE q = Ask(id, payload)
      <4>1. q.id = id /\ q.payload = payload /\ q.to = current
        BY <3>1 DEF Ask
      <4>2. Has(ledger', e)
        BY <1>4, <1>9
      <4> QED BY <1>2, <1>3, <1>4, <4>1, <4>2
    <3>2. CASE q \in asked
      <4>1. q.to <= attachments
        BY <1>1, <3>2 DEF AskedInv
      <4>2. ASSUME Reaches(q.to)'
            PROVE  \E r \in Records : /\ Has(ledger', r) /\ r.outcome = "none"
                                      /\ r.id = q.id /\ r.payload = q.payload /\ r.waiter = q.to
        <5>1. Reaches(q.to)
          BY <1>2, <4>2 DEF Reaches
        <5>2. PICK r \in Records : /\ Has(ledger, r) /\ r.outcome = "none"
                                   /\ r.id = q.id /\ r.payload = q.payload /\ r.waiter = q.to
          BY <1>1, <3>2, <5>1 DEF AskedInv
        <5>3. Has(ledger', r)
          BY <1>7, <1>9, <5>2
        <5> QED BY <5>2, <5>3
      <4> QED BY <1>2, <4>1, <4>2
    <3> QED BY <1>2, <3>1, <3>2
  <2>2. AnswersAreOwn'
    BY <1>1, <1>2 DEF AskedInv, AnswersAreOwn
  <2> QED BY <2>1, <2>2 DEF AskedInv
<1>20. TypeOK'
  <2>1. asks' \in 0..MaxAsks /\ Len(ledger') <= MaxMutations
    BY <1>1, <1>2, <1>7, <1>9, TypesAre, RequestsAssumption
  <2>2. asked' \subseteq [id : Ids, payload : Payloads, to : 1..MaxAttachments]
    BY <1>1, <1>2, <1>3, TypesAre DEF Ask
  <2> QED BY <1>1, <1>2, <1>5, <1>9, <1>10, <1>11, <2>1, <2>2 DEF TypeOK, TaskType
<1> QED BY <1>10, <1>11, <1>12, <1>18, <1>19, <1>20 DEF LocalInside, LocalInv, InsideInv

\* A repeat moves its record to the end; only the waiter of one in flight
\* changes.
LEMMA RepeatMutationStep ==
    ASSUME LocalInside, NEW id \in Ids, NEW payload \in Payloads, RepeatMutation(id, payload)
    PROVE  LocalInside'
<1>1. /\ TypeOK /\ InsideInv /\ TaskInv /\ PagesInv /\ LedgerInv /\ AskedInv
      /\ FilesTypeOK /\ ReadsTypeOK
  BY PartsAre, TypesAre
<1>2. /\ UNCHANGED <<fileVars, thread, readVars, current, attachments, release, authorized,
                     task, page>>
      /\ asks' = asks + 1 /\ asks < MaxAsks /\ release = "no" /\ current # 0
  BY DEF RepeatMutation, MaySubmit
<1>3. /\ current \in 1..MaxAttachments /\ current \in 0..MaxAttachments
      /\ current <= attachments /\ attachments \in Nat
  BY <1>1, <1>2, TypesAre, RequestsAssumption
<1>4. /\ ledger \in Seq(Records) /\ UniqueIds(ledger) /\ Len(ledger) <= MaxMutations
      /\ asked \subseteq [id : Ids, payload : Payloads, to : 1..MaxAttachments]
      /\ answered \subseteq [asked : Payloads, ran : Payloads]
  BY <1>1, TypesAre DEF LedgerInv
<1>5. /\ Ask(id, payload) \in [id : Ids, payload : Payloads, to : 1..MaxAttachments]
      /\ Ask(id, payload).id = id /\ Ask(id, payload).payload = payload
      /\ Ask(id, payload).to = current
  BY <1>3 DEF Ask
<1>6. PICK i \in Positions(id) :
        \/ /\ ledger[i].payload # payload
           /\ ledger' = Append(RemoveAt(ledger, i), ledger[i])
           /\ UNCHANGED <<asked, answered>>
        \/ /\ ledger[i].payload = payload /\ ledger[i].outcome # "none"
           /\ ledger' = Append(RemoveAt(ledger, i), ledger[i])
           /\ Answered(id, current, {Ask(id, payload)}, ledger[i].payload)
        \/ /\ ledger[i].payload = payload /\ ledger[i].outcome = "none"
           /\ ledger' = Append(RemoveAt(ledger, i), [ledger[i] EXCEPT !.waiter = current])
           /\ asked' = asked \cup {Ask(id, payload)} /\ UNCHANGED answered
  BY DEF RepeatMutation
<1>7. /\ i \in 1..Len(ledger) /\ ledger[i].id = id /\ ledger[i] \in Records
      /\ Has(ledger, ledger[i])
  BY <1>4, <1>6 DEF Positions, Has
<1> DEFINE record == ledger[i]
           e == IF record.payload = payload /\ record.outcome = "none"
                THEN [record EXCEPT !.waiter = current] ELSE record
<1>8. /\ e \in Records /\ e.id = id /\ e.payload = record.payload /\ e.outcome = record.outcome
      /\ e.waiter = IF record.payload = payload /\ record.outcome = "none" THEN current
                    ELSE record.waiter
  BY <1>3, <1>7 DEF Records
<1>9. ledger' = Append(RemoveAt(ledger, i), e)
  BY <1>6
<1> HIDE DEF e
<1>10. /\ ledger' \in Seq(Records) /\ Len(ledger') = Len(ledger) /\ UniqueIds(ledger')
       /\ \A r \in Records : Has(ledger', r) <=> (Has(ledger, r) /\ r # record) \/ r = e
  BY <1>4, <1>7, <1>8, <1>9, MovedIs
<1>11. FilesTypeOK' /\ InsideInv'
  BY <1>1, <1>2, FilesKept
<1>12. ReadsTypeOK' /\ PagesInv'
  BY <1>1, <1>2, PagesKept
<1>13. TaskInv'
  BY <1>1, <1>2 DEF TaskInv, TaskOK, readVars
<1>14. LedgerInv'
  <2>1. ASSUME NEW r \in Records, Has(ledger', r), r.outcome = "none"
        PROVE  \E u \in Live' : RunsFor(u, r)'
    <3>1. PICK s \in Records : /\ Has(ledger, s) /\ s.outcome = "none"
                               /\ s.id = r.id /\ s.payload = r.payload
      <4>1. CASE r = e
        BY <1>7, <1>8, <2>1, <4>1
      <4> QED BY <1>10, <2>1, <4>1
    <3>2. PICK u \in Live : RunsFor(u, s)
      BY <1>1, <1>2, <3>1 DEF LedgerInv
    <3> QED BY <1>2, <3>1, <3>2 DEF RunsFor, Live
  <2>2. ASSUME NEW u \in Live', task'[u].kind = "create"
        PROVE  \E r \in Records : Has(ledger', r) /\ r.outcome = "none" /\ RunsFor(u, r)'
    <3>1. u \in Live /\ task[u].kind = "create"
      BY <1>2, <2>2 DEF Live
    <3>2. PICK r \in Records : Has(ledger, r) /\ r.outcome = "none" /\ RunsFor(u, r)
      BY <1>1, <1>2, <3>1 DEF LedgerInv
    <3>3. CASE r = record
      <4>1. PICK s \in Records : s = e
        BY <1>8
      <4>2. Has(ledger', s) /\ s.outcome = "none" /\ s.id = r.id /\ s.payload = r.payload
        BY <1>7, <1>8, <1>10, <3>2, <3>3, <4>1
      <4>3. RunsFor(u, s)'
        BY <1>2, <3>2, <4>2 DEF RunsFor
      <4> QED BY <4>2, <4>3
    <3>4. CASE r # record
      <4>1. Has(ledger', r)
        BY <1>10, <3>2, <3>4
      <4>2. RunsFor(u, r)'
        BY <1>2, <3>2 DEF RunsFor
      <4> QED BY <3>2, <4>1, <4>2
    <3> QED BY <3>3, <3>4
  <2> QED BY <1>1, <1>2, <1>10, <2>1, <2>2 DEF LedgerInv, OneRun, Live
<1>15. ASSUME NEW q \in asked, Reaches(q.to)
       PROVE  /\ q.to = current
              /\ q.id = id => record.outcome = "none" /\ record.payload = q.payload
              /\ \E r \in Records : /\ Has(ledger', r) /\ r.outcome = "none"
                                    /\ r.id = q.id /\ r.payload = q.payload /\ r.waiter = q.to
  <2>1. PICK r \in Records : /\ Has(ledger, r) /\ r.outcome = "none"
                             /\ r.id = q.id /\ r.payload = q.payload /\ r.waiter = q.to
    BY <1>1, <1>15 DEF AskedInv
  <2>2. q.to = current
    BY <1>15 DEF Reaches
  <2>3. q.id = id => r = record
    BY <1>4, <1>7, <2>1, OneOfAnId
  <2>4. CASE r = record
    <3>1. PICK s \in Records : s = e
      BY <1>8
    <3>2. /\ Has(ledger', s) /\ s.outcome = "none"
          /\ s.id = q.id /\ s.payload = q.payload /\ s.waiter = q.to
      BY <1>7, <1>8, <1>10, <2>1, <2>2, <2>4, <3>1
    <3> QED BY <2>1, <2>2, <2>4, <3>2
  <2>5. CASE r # record
    <3>1. Has(ledger', r)
      BY <1>10, <2>1, <2>5
    <3> QED BY <2>1, <2>2, <2>3, <2>5, <3>1
  <2> QED BY <2>4, <2>5
<1>16. Reaches(current)
  BY <1>2 DEF Reaches
<1>17. /\ asked' \subseteq asked \cup {Ask(id, payload)}
       /\ Ask(id, payload) \in asked' =>
            \/ Ask(id, payload) \in asked
            \/ record.payload = payload /\ record.outcome = "none"
       /\ answered' \subseteq [asked : Payloads, ran : Payloads]
       /\ \A x \in answered' : x \in answered \/ x.asked = x.ran
  <2>1. CASE UNCHANGED <<asked, answered>>
    <3>1. asked' = asked /\ answered' = answered
      BY <2>1
    <3>2. answered \subseteq [asked : Payloads, ran : Payloads]
      BY <1>4
    <3> QED BY <3>1, <3>2, Zenon
  <2>2. CASE /\ record.payload = payload /\ record.outcome # "none"
             /\ Answered(id, current, {Ask(id, payload)}, record.payload)
    <3> DEFINE now == {Ask(id, payload)}
    <3>1. record.payload \in Payloads \cup {NoOne}
      BY <1>7 DEF Records
    <3>2. now \subseteq [id : Ids, payload : Payloads, to : 1..MaxAttachments]
      BY <1>5
    <3>3. /\ asked' \subseteq asked \cup now
          /\ \A q \in asked' : ~(q.id = id /\ q.to = current)
          /\ answered' \subseteq [asked : Payloads, ran : Payloads]
          /\ \A x \in answered' :
                \/ x \in answered
                \/ \E q \in asked \cup now : /\ q.id = id /\ q.to = current
                                             /\ x.asked = q.payload
                                             /\ x.ran = record.payload /\ record.payload \in Payloads
      <4> HIDE DEF now
      <4> QED BY <1>3, <1>4, <2>2, <3>1, <3>2, AnsweredIs DEF now
    <3>4. Ask(id, payload) \notin asked'
      BY <1>5, <3>3
    <3>5. ASSUME NEW x \in answered', x \notin answered PROVE x.asked = x.ran
      <4>1. PICK q \in asked \cup now : /\ q.id = id /\ q.to = current
                                        /\ x.asked = q.payload /\ x.ran = record.payload
        BY <3>3, <3>5
      <4>2. q \notin asked
        BY <1>15, <1>16, <2>2, <4>1
      <4>3. q = Ask(id, payload)
        BY <4>2
      <4> QED BY <1>5, <2>2, <4>1, <4>3
    <3> QED BY <3>3, <3>4, <3>5
  <2>3. CASE /\ record.payload = payload /\ record.outcome = "none"
             /\ asked' = asked \cup {Ask(id, payload)} /\ UNCHANGED answered
    BY <1>4, <2>3
  <2> QED BY <1>6, <2>1, <2>2, <2>3
<1>18. AskedInv'
  <2>1. ASSUME NEW q \in asked'
        PROVE  /\ q.to <= attachments'
               /\ Reaches(q.to)' =>
                    \E r \in Records : /\ Has(ledger', r) /\ r.outcome = "none"
                                       /\ r.id = q.id /\ r.payload = q.payload /\ r.waiter = q.to
    <3>1. CASE q \in asked
      <4>1. q.to <= attachments
        BY <1>1, <3>1 DEF AskedInv
      <4>2. Reaches(q.to)' => Reaches(q.to)
        BY <1>2 DEF Reaches
      <4> QED BY <1>2, <1>15, <3>1, <4>1, <4>2
    <3>2. CASE q \notin asked
      <4>1. q = Ask(id, payload) /\ record.payload = payload /\ record.outcome = "none"
        BY <1>17, <3>2
      <4>2. PICK s \in Records : s = e
        BY <1>8
      <4>3. /\ Has(ledger', s) /\ s.outcome = "none"
            /\ s.id = q.id /\ s.payload = q.payload /\ s.waiter = q.to
        BY <1>5, <1>8, <1>10, <4>1, <4>2
      <4>4. q.to <= attachments'
        BY <1>2, <1>3, <1>5, <4>1
      <4> QED BY <4>3, <4>4
    <3> QED BY <3>1, <3>2
  <2>2. AnswersAreOwn'
    BY <1>1, <1>17 DEF AskedInv, AnswersAreOwn
  <2> QED BY <2>1, <2>2 DEF AskedInv
<1>19. TypeOK'
  <2>1. asks' \in 0..MaxAsks /\ Len(ledger') <= MaxMutations
    BY <1>1, <1>2, <1>4, <1>10, TypesAre, RequestsAssumption
  <2>2. asked' \subseteq [id : Ids, payload : Payloads, to : 1..MaxAttachments]
    BY <1>4, <1>5, <1>17
  <2> QED BY <1>1, <1>2, <1>10, <1>11, <1>12, <1>17, <2>1, <2>2 DEF TypeOK
<1> QED BY <1>11, <1>12, <1>13, <1>14, <1>18, <1>19 DEF LocalInside, LocalInv, InsideInv

\* A run that ends settles its record or takes it out, and answers who waits
\* at it.
LEMMA FinishMutationStep ==
    ASSUME LocalInside, NEW t \in Tasks, FinishMutation(t)
    PROVE  LocalInside'
<1>1. /\ TypeOK /\ InsideInv /\ TaskInv /\ PagesInv /\ LedgerInv /\ AskedInv
      /\ FilesTypeOK /\ ReadsTypeOK
  BY PartsAre, TypesAre
<1>2. /\ UNCHANGED <<fileVars, readVars, current, attachments, release, authorized, asks>>
      /\ Reset(t) /\ task[t].live /\ task[t].kind = "create"
  BY DEF FinishMutation
<1>3. /\ task' \in [Tasks -> TaskType] /\ \A u \in Tasks \ {t} : task'[u] = task[u]
      /\ thread' \in [Tasks -> ThreadType] /\ \A u \in Tasks \ {t} : thread'[u] = thread[u]
      /\ page' \in [Tasks -> Pages] /\ \A u \in Tasks \ {t} : page'[u] = page[u]
      /\ task'[t] = NoTask /\ thread'[t] = NoThread
      /\ Live' = Live \ {t}
  BY <1>1, <1>2, ResetIs
<1>4. /\ task[t].id \in Ids /\ task[t].payload \in Payloads /\ t \in Live
      /\ task[t].id # NoOne /\ task[t].payload # NoOne
  BY <1>1, <1>2, RequestsAssumption DEF TaskInv, TaskOK, Live
<1>5. InsideInv'
  <2>1. ThreadOK(t)'
    BY <1>3, NoneIs DEF ThreadOK, FileCalls
  <2>2. ASSUME NEW u \in Tasks \ {t} PROVE ThreadOK(u)'
    BY <1>1, <1>3 DEF InsideInv, ThreadInv, ThreadOK
  <2> QED BY <1>1, <1>2, <2>1, <2>2 DEF InsideInv, ThreadInv, StaysInside, fileVars
<1>6. ReadsTypeOK' /\ PagesInv'
  <2>1. \A u \in Tasks : task'[u].kind = "page" /\ thread'[u].out = "ok" =>
           task[u].kind = "page" /\ thread[u].out = "ok" /\ page'[u] = page[u]
    BY <1>3, NoneIs
  <2> QED BY <1>1, <1>2, <2>1, PagesKept
<1>7. TaskInv'
  <2>1. TaskOK(t)'
    BY <1>3, NoneIs DEF TaskOK
  <2>2. ASSUME NEW u \in Tasks \ {t} PROVE TaskOK(u)'
    BY <1>1, <1>2, <1>3 DEF TaskInv, TaskOK, readVars
  <2> QED BY <2>1, <2>2 DEF TaskInv
<1>8. OneRun'
  BY <1>1, <1>3 DEF LedgerInv, OneRun, Live
<1>9. /\ ledger \in Seq(Records) /\ UniqueIds(ledger) /\ Len(ledger) <= MaxMutations
      /\ asked \subseteq [id : Ids, payload : Payloads, to : 1..MaxAttachments]
      /\ answered \subseteq [asked : Payloads, ran : Payloads] /\ MaxMutations \in Nat
  BY <1>1, TypesAre, RequestsAssumption DEF LedgerInv
<1>10. CASE release # "no"
  <2>1. UNCHANGED <<ledger, asked, answered>>
    BY <1>10 DEF FinishMutation
  <2>2. LedgerInv'
    BY <1>1, <1>2, <1>3, <1>8, <1>10, <2>1 DEF LedgerInv, UniqueIds
  <2>3. AskedInv'
    BY <1>1, <1>2, <2>1, TypesAre, AskedKept DEF Reaches
  <2>4. TypeOK'
    BY <1>1, <1>2, <1>3, <1>6, <2>1 DEF TypeOK, FilesTypeOK, fileVars, ThreadType, TaskType
  <2> QED BY <1>5, <1>6, <1>7, <2>2, <2>3, <2>4 DEF LocalInside, LocalInv, InsideInv
<1>11. CASE release = "no"
  <2> DEFINE ran == IF Outcome(t) = "ok" THEN task[t].payload ELSE NoOne
  <2>1. PICK i \in Positions(task[t].id) :
          /\ ledger' = IF Outcome(t) = "ok"
                       THEN [ledger EXCEPT ![i].outcome = "ok", ![i].waiter = 0]
                       ELSE RemoveAt(ledger, i)
          /\ IF Reaches(ledger[i].waiter) THEN Answered(ledger[i].id, ledger[i].waiter, {}, ran)
             ELSE UNCHANGED <<asked, answered>>
    BY <1>11 DEF FinishMutation
  <2> DEFINE record == ledger[i]
             e == [record EXCEPT !.outcome = "ok", !.waiter = 0]
  <2>2. /\ i \in 1..Len(ledger) /\ record.id = task[t].id /\ record \in Records
        /\ Has(ledger, record) /\ record.waiter \in 0..MaxAttachments
    <3>1. i \in DOMAIN ledger /\ ledger[i].id = task[t].id
      BY <2>1 DEF Positions
    <3>2. i \in 1..Len(ledger) /\ ledger[i] \in Records
      BY <1>9, <3>1
    <3>3. Has(ledger, ledger[i])
      BY <3>1 DEF Has
    <3> QED BY <3>1, <3>2, <3>3 DEF Records
  <2>3. record.outcome = "none" /\ record.payload = task[t].payload
    <3>1. PICK r \in Records : Has(ledger, r) /\ r.outcome = "none" /\ RunsFor(t, r)
      BY <1>1, <1>2, <1>4, <1>11 DEF LedgerInv
    <3>2. r = record
      BY <1>9, <2>2, <3>1, OneOfAnId DEF RunsFor
    <3> QED BY <3>1, <3>2 DEF RunsFor
  <2>4. e \in Records /\ e.id = record.id /\ e.outcome = "ok"
    <3>1. 0 \in 0..MaxAttachments
      BY RequestsAssumption
    <3> QED BY <2>2, <3>1 DEF Records
  <2>5. /\ ledger' \in Seq(Records) /\ Len(ledger') <= MaxMutations /\ UniqueIds(ledger')
        /\ \A r \in Records : r.outcome = "none" =>
              (Has(ledger', r) <=> Has(ledger, r) /\ r # record)
    <3>1. CASE Outcome(t) = "ok"
      <4>1. ledger' = [ledger EXCEPT ![i] = e]
        BY <1>9, <2>1, <2>2, <3>1
      <4> HIDE DEF e
      <4>2. /\ ledger' \in Seq(Records) /\ Len(ledger') = Len(ledger) /\ UniqueIds(ledger')
            /\ \A r \in Records : Has(ledger', r) <=> (Has(ledger, r) /\ r # record) \/ r = e
        BY <1>9, <2>2, <2>4, <4>1, Settled
      <4> QED BY <1>9, <2>4, <4>2
    <3>2. CASE Outcome(t) # "ok"
      <4>1. ledger' = RemoveAt(ledger, i)
        BY <2>1, <3>2
      <4>2. /\ ledger' \in Seq(Records) /\ Len(ledger') = Len(ledger) - 1 /\ UniqueIds(ledger')
            /\ \A r \in Records : Has(ledger', r) <=> Has(ledger, r) /\ r # record
        BY <1>9, <2>2, <4>1, Removed
      <4> QED BY <1>9, <4>2
    <3> QED BY <3>1, <3>2
  <2> HIDE DEF e
  <2>6. LedgerInv'
    <3>1. ASSUME NEW r \in Records, Has(ledger', r), r.outcome = "none"
          PROVE  \E u \in Live' : RunsFor(u, r)'
      <4>1. Has(ledger, r) /\ r # record
        BY <2>5, <3>1
      <4>2. PICK u \in Live : RunsFor(u, r)
        BY <1>1, <1>11, <3>1, <4>1 DEF LedgerInv
      <4>3. r.id # record.id
        BY <1>9, <2>2, <4>1, OneOfAnId
      <4>4. u # t
        BY <2>2, <4>2, <4>3 DEF RunsFor
      <4> QED BY <1>3, <4>2, <4>4 DEF RunsFor, Live
    <3>2. ASSUME NEW u \in Live', task'[u].kind = "create"
          PROVE  \E r \in Records : Has(ledger', r) /\ r.outcome = "none" /\ RunsFor(u, r)'
      <4>1. u \in Live /\ u # t /\ task'[u] = task[u]
        BY <1>3, <3>2 DEF Live
      <4>2. PICK r \in Records : Has(ledger, r) /\ r.outcome = "none" /\ RunsFor(u, r)
        BY <1>1, <1>11, <3>2, <4>1 DEF LedgerInv
      <4>3. task[u].id # task[t].id
        BY <1>1, <1>4, <4>1 DEF LedgerInv, OneRun
      <4>4. Has(ledger', r)
        BY <2>2, <2>5, <4>2, <4>3 DEF RunsFor
      <4>5. RunsFor(u, r)'
        BY <4>1, <4>2 DEF RunsFor
      <4> QED BY <4>2, <4>4, <4>5
    <3> QED BY <1>2, <1>8, <1>11, <2>5, <3>1, <3>2 DEF LedgerInv
  <2>7. ASSUME NEW q \in asked, Reaches(q.to)
        PROVE  /\ q.id = record.id => record.payload = q.payload /\ record.waiter = q.to
               /\ q.id # record.id =>
                    \E r \in Records : /\ Has(ledger', r) /\ r.outcome = "none"
                                       /\ r.id = q.id /\ r.payload = q.payload /\ r.waiter = q.to
    <3>1. PICK r \in Records : /\ Has(ledger, r) /\ r.outcome = "none"
                               /\ r.id = q.id /\ r.payload = q.payload /\ r.waiter = q.to
      BY <1>1, <2>7 DEF AskedInv
    <3>2. q.id = record.id => r = record
      BY <1>9, <2>2, <3>1, OneOfAnId
    <3>3. q.id # record.id => Has(ledger', r)
      BY <2>5, <3>1
    <3> QED BY <3>1, <3>2, <3>3
  <2>8. /\ asked' \subseteq asked /\ answered' \subseteq [asked : Payloads, ran : Payloads]
        /\ \A q \in asked' : ~(q.id = record.id /\ q.to = record.waiter /\ Reaches(record.waiter))
        /\ \A x \in answered' : x \in answered \/ x.asked = x.ran
    <3>1. CASE ~Reaches(record.waiter)
      BY <1>9, <2>1, <3>1
    <3>2. CASE Reaches(record.waiter)
      <4>1. record.waiter \in 1..MaxAttachments /\ record.id \in Ids
        BY <1>4, <2>2, <3>2, RequestsAssumption DEF Reaches
      <4>2. ran \in Payloads \cup {NoOne} /\ (ran \in Payloads => ran = task[t].payload)
        BY <1>4, RequestsAssumption
      <4>3. Answered(record.id, record.waiter, {}, ran)
        BY <2>1, <3>2
      <4> HIDE DEF ran, record
      <4>4. {} \subseteq [id : Ids, payload : Payloads, to : 1..MaxAttachments]
        OBVIOUS
      <4>5. /\ asked' \subseteq asked \cup {}
            /\ \A q \in asked' : ~(q.id = record.id /\ q.to = record.waiter)
            /\ answered' \subseteq [asked : Payloads, ran : Payloads]
            /\ \A x \in answered' :
                  \/ x \in answered
                  \/ \E q \in asked \cup {} : /\ q.id = record.id /\ q.to = record.waiter
                                              /\ x.asked = q.payload
                                              /\ x.ran = ran /\ ran \in Payloads
        BY <1>9, <4>1, <4>2, <4>3, <4>4, AnsweredIs
      <4>6. ASSUME NEW x \in answered', x \notin answered PROVE x.asked = x.ran
        <5>1. PICK q \in asked : /\ q.id = record.id /\ q.to = record.waiter
                                 /\ x.asked = q.payload /\ x.ran = ran /\ ran \in Payloads
          BY <4>5, <4>6
        <5>2. record.payload = q.payload
          BY <2>7, <3>2, <5>1
        <5> QED BY <2>3, <4>2, <5>1, <5>2
      <4> QED BY <4>5, <4>6
    <3> QED BY <3>1, <3>2
  <2>9. AskedInv'
    <3>1. ASSUME NEW q \in asked'
          PROVE  /\ q.to <= attachments'
                 /\ Reaches(q.to)' =>
                      \E r \in Records : /\ Has(ledger', r) /\ r.outcome = "none"
                                         /\ r.id = q.id /\ r.payload = q.payload /\ r.waiter = q.to
      <4>1. q \in asked /\ q.to <= attachments /\ (Reaches(q.to)' => Reaches(q.to))
        BY <1>1, <1>2, <2>8 DEF AskedInv, Reaches
      <4>2. ASSUME Reaches(q.to) PROVE q.id # record.id
        BY <2>7, <2>8, <4>1, <4>2
      <4> QED BY <1>2, <2>7, <4>1, <4>2
    <3>2. AnswersAreOwn'
      BY <1>1, <2>8 DEF AskedInv, AnswersAreOwn
    <3> QED BY <3>1, <3>2 DEF AskedInv
  <2>10. TypeOK'
    <3>1. asked' \subseteq [id : Ids, payload : Payloads, to : 1..MaxAttachments]
      BY <1>9, <2>8
    <3>2. FilesTypeOK'
      BY <1>1, <1>2, <1>3 DEF FilesTypeOK, fileVars, ThreadType
    <3> QED BY <1>1, <1>2, <1>3, <1>6, <2>5, <2>8, <3>1, <3>2 DEF TypeOK, TaskType
  <2> QED BY <1>5, <1>6, <1>7, <2>6, <2>9, <2>10 DEF LocalInside, LocalInv, InsideInv
<1> QED BY <1>10, <1>11

-----------------------------------------------------------------------------
(* The theorems                                                            *)

LEMMA LocalInit == Init => LocalInside
<1> SUFFICES ASSUME Init PROVE LocalInside
  OBVIOUS
<1>1. FilesTypeOK /\ ThreadInv /\ StaysInside
  <2>1. /\ a = "in" /\ touches = 0 /\ used = {} /\ thread = [t \in Tasks |-> NoThread]
    BY DEF Init, FilesInit
  <2>2. n \in [{"in", "out"} -> Entries]
    BY DEF Init, FilesInit, Entries
  <2>3. thread \in [Tasks -> ThreadType]
    BY <2>1, NoneIs
  <2>4. ThreadInv
    BY <2>1, NoneIs DEF ThreadInv, ThreadOK, FileCalls
  <2> QED BY <2>1, <2>2, <2>3, <2>4, FilesAssumption DEF FilesTypeOK, ThreadType, StaysInside
<1>2. /\ pager.order = "oldest" /\ pager.offset = 0 /\ pager.start = 0 /\ pager.seen = {}
      /\ pager.state = "off" /\ ReadsTypeOK /\ Len(rows) \in Nat
  <2>1. pager = [order |-> "oldest", offset |-> 0, start |-> 0, seen |-> {}, state |-> "off"]
    BY DEF Init, ReadsInit
  <2>2. PICK k \in 0..MaxRows : rows \in [1..k -> {"shown", "hidden"}]
    BY DEF Init, ReadsInit
  <2>3. k \in Nat /\ k <= MaxRows /\ 0 \in 0..(2 * MaxRows) /\ 0 \in 0..MaxRows
    BY ReadsAssumption
  <2>4. rows \in Seq({"shown", "hidden"}) /\ Len(rows) = k
    BY <2>2, <2>3
  <2>5. pager \in [order : Orders, offset : 0..(2 * MaxRows), start : 0..MaxRows,
                   seen : SUBSET (1..MaxRows), state : {"off", "want", "wait", "done"}]
    BY <2>1, <2>3 DEF Orders
  <2> QED BY <2>1, <2>3, <2>4, <2>5 DEF ReadsTypeOK
<1>3. /\ current = 1 /\ attachments = 1 /\ release = "no" /\ authorized = TRUE /\ ledger = <<>>
      /\ task = [t \in Tasks |-> NoTask] /\ page = [t \in Tasks |-> NoPage]
      /\ thread = [t \in Tasks |-> NoThread]
      /\ asked = {} /\ answered = {} /\ asks = 0
  BY DEF Init, FilesInit
<1>4. task \in [Tasks -> TaskType] /\ page \in [Tasks -> Pages]
  BY <1>3, NoneIs
<1>5. TypeOK
  <2>1. /\ ledger \in Seq(Records) /\ Len(ledger) <= MaxMutations
        /\ attachments \in 0..MaxAttachments /\ current \in 0..attachments /\ asks \in 0..MaxAsks
    BY <1>3, RequestsAssumption
  <2> QED BY <1>1, <1>2, <1>3, <1>4, <2>1 DEF TypeOK, TaskType
<1>6. Live = {}
  BY <1>3, NoneIs DEF Live
<1>7. TaskInv
  BY <1>3, NoneIs DEF TaskInv, TaskOK
<1>8. PagesInv
  <2>1. \A t \in Tasks : task[t].kind # "page"
    BY <1>3, NoneIs
  <2> QED BY <1>2, <2>1 DEF PagesInv, Behind
<1>9. LedgerInv
  BY <1>3, <1>6 DEF LedgerInv, UniqueIds, OneRun, Has
<1>10. AskedInv
  BY <1>3 DEF AskedInv, AnswersAreOwn
<1> QED BY <1>1, <1>5, <1>7, <1>8, <1>9, <1>10 DEF LocalInside, LocalInv

LEMMA LocalStep == LocalInside /\ [Next]_vars => LocalInside'
<1> SUFFICES ASSUME LocalInside, [Next]_vars PROVE LocalInside'
  OBVIOUS
<1>1. ASSUME NEW id \in Ids, NEW payload \in Payloads,
             StartMutation(id, payload) \/ RepeatMutation(id, payload)
      PROVE  LocalInside'
  BY <1>1, StartMutationStep, RepeatMutationStep
<1>2. CASE (\E id \in Ids : MutationRateLimited(id)) \/ ReadRateLimited
  BY <1>2, RefusedStep
<1>3. CASE (\E kind \in {"list", "image"} : StartRead(kind)) \/ StartPage
  BY <1>3, StartReadStep
<1>4. ASSUME NEW t \in Tasks,
             \/ RunTask(t) \/ RunThread(t) \/ ReadPage(t)
             \/ FinishMutation(t) \/ FinishRead(t) \/ Reap(t)
      PROVE  LocalInside'
  BY <1>4, RunTaskStep, RunThreadStep, ReadPageStep, FinishMutationStep, FinishReadStep
<1>5. CASE Attach
  BY <1>5, AttachStep
<1>6. CASE Detach \/ Revoke \/ BeginRelease
  BY <1>6, SilenceStep
<1>7. CASE FinishRelease
  BY <1>7, FinishReleaseStep
<1>8. CASE Environment
  BY <1>8, EnvironmentStep
<1>9. CASE UNCHANGED vars
  <2>1. /\ TypeOK /\ InsideInv /\ TaskInv /\ PagesInv /\ LedgerInv /\ AskedInv
        /\ FilesTypeOK /\ ReadsTypeOK
    BY PartsAre, TypesAre
  <2>2. UNCHANGED <<fileVars, thread, readVars, leaseVars>>
    BY <1>9 DEF vars
  <2>3. FilesTypeOK' /\ InsideInv'
    BY <2>1, <2>2, FilesKept
  <2>4. ReadsTypeOK' /\ PagesInv'
    BY <2>1, <2>2, PagesKept DEF leaseVars
  <2>5. TaskInv'
    BY <2>1, <2>2 DEF TaskInv, TaskOK, readVars, leaseVars
  <2>6. LedgerInv'
    BY <2>1, <2>2, <2>5, LedgerKept DEF LedgerInv, Live, leaseVars
  <2>7. AskedInv'
    BY <2>1, <2>2, TypesAre, AskedKept DEF Reaches, leaseVars
  <2>8. TypeOK'
    BY <2>1, <2>2, <2>3, <2>4 DEF TypeOK, leaseVars
  <2> QED BY <2>3, <2>4, <2>5, <2>6, <2>7, <2>8 DEF LocalInside, LocalInv, InsideInv
<1> QED BY <1>1, <1>2, <1>3, <1>4, <1>5, <1>6, <1>7, <1>8, <1>9 DEF Next

LEMMA LocalInsideAlways == Spec => []LocalInside
BY LocalInit, LocalStep, PTL DEF Spec

(***************************************************************************)
(* However often and whenever the owner replaces the folder by a link, a   *)
(* thread lists, makes and reads only below the locked root (folders.py).  *)
(***************************************************************************)
THEOREM StaysInsideHolds == Spec => []StaysInside
<1>1. LocalInside => StaysInside
  BY DEF LocalInside
<1> QED BY <1>1, LocalInsideAlways, PTL

(***************************************************************************)
(* A client that follows next_offset to a short page has every visible row *)
(* that was stored when it began, in either order, whatever was appended,  *)
(* hidden, lost or asked twice meanwhile (session_reads.py).               *)
(***************************************************************************)
THEOREM PagesAreCompleteHolds == Spec => []PagesAreComplete
<1>1. LocalInside => PagesAreComplete
  BY DEF LocalInside, LocalInv, PagesInv, PagesAreComplete, All
<1> QED BY <1>1, LocalInsideAlways, PTL

\* What has at most one member has at most that cardinality.
LEMMA AtMostOne ==
    ASSUME NEW S, \A x, y \in S : x = y
    PROVE  Cardinality(S) <= 1
<1>1. CASE S = {}
  <2>1. Cardinality(S) = 0
    BY <1>1, FS_EmptySet
  <2> QED BY <2>1
<1>2. CASE S # {}
  <2>1. PICK x \in S : S = {x}
    BY <1>2
  <2>2. Cardinality({x}) = 1
    BY FS_Singleton
  <2>3. Cardinality(S) = 1
    BY <2>1, <2>2
  <2> QED BY <2>3
<1> QED BY <1>1, <1>2

(***************************************************************************)
(* For any number of attachments, repeats and evictions: one run at a time *)
(* serves an id, whoever still listens waits at a record whose run goes on,*)
(* and an answer is that of a run of the request's own payload             *)
(* (_start_mutation, _run_mutation).                                       *)
(***************************************************************************)
THEOREM LedgerIsFaithfulHolds == Spec => []LedgerIsFaithful
<1>1. LocalInside => LedgerIsFaithful
  <2> SUFFICES ASSUME LocalInside PROVE LedgerIsFaithful
    OBVIOUS
  <2>1. TypeOK /\ TaskInv /\ LedgerInv /\ AskedInv
    BY PartsAre
  <2>2. OneRunPerId
    <3>1. ASSUME NEW id \in Ids PROVE Cardinality({t \in Live : task[t].id = id}) <= 1
      <4> DEFINE S == {t \in Live : task[t].id = id}
      <4>1. \A x, y \in S : x = y
        BY <2>1, RequestsAssumption DEF LedgerInv, OneRun
      <4>2. Cardinality(S) <= 1
        <5> HIDE DEF S
        <5> QED BY <4>1, AtMostOne
      <4> QED BY <4>2
    <3> QED BY <3>1 DEF OneRunPerId
  <2>3. ASSUME NEW q \in asked, Reaches(q.to)
        PROVE  /\ \E i \in Positions(q.id) : ledger[i].outcome = "none" /\ ledger[i].waiter = q.to
               /\ \E t \in Live : task[t].id = q.id
    <3>1. PICK r \in Records : /\ Has(ledger, r) /\ r.outcome = "none"
                               /\ r.id = q.id /\ r.waiter = q.to
      BY <2>1, <2>3 DEF AskedInv
    <3>2. release = "no"
      BY <2>3 DEF Reaches
    <3>3. \E t \in Live : RunsFor(t, r)
      BY <2>1, <3>1, <3>2 DEF LedgerInv
    <3> QED BY <3>1, <3>3 DEF Positions, Has, RunsFor
  <2> QED BY <2>1, <2>2, <2>3 DEF LedgerIsFaithful, AskedIsTracked, AskedInv
<1> QED BY <1>1, LocalInsideAlways, PTL

\* Without authorization no record becomes settled and no page is taken in.
LEMMA RevokedStep ==
    ASSUME LocalInside, [Next]_vars, ~authorized
    PROVE  /\ \A r \in Records : Has(ledger', r) /\ r.outcome = "ok" => Has(ledger, r)
           /\ pager'.seen = pager.seen
<1>1. /\ TypeOK /\ ReadsTypeOK /\ ledger \in Seq(Records) /\ UniqueIds(ledger)
      /\ current \in 0..MaxAttachments
  <2>1. TypeOK /\ LedgerInv
    BY PartsAre
  <2> QED BY <2>1, TypesAre, RequestsAssumption DEF LedgerInv
<1>2. ASSUME UNCHANGED ledger
      PROVE  \A r \in Records : Has(ledger', r) /\ r.outcome = "ok" => Has(ledger, r)
  BY <1>2 DEF Has
<1>3. ASSUME NEW id \in Ids, NEW payload \in Payloads, StartMutation(id, payload)
      PROVE  \A r \in Records : Has(ledger', r) /\ r.outcome = "ok" => Has(ledger, r)
  <2> DEFINE e == [id |-> id, payload |-> payload, outcome |-> "none", waiter |-> current]
  <2>1. e \in Records /\ e.id = id /\ e.outcome = "none"
    BY <1>1 DEF Records
  <2>2. /\ ledger' = Append(Kept, e) /\ Positions(id) = {}
        /\ Room(ledger) \/ Evictable(ledger) # {}
    BY <1>3 DEF StartMutation, Kept
  <2>3. /\ Kept \in Seq(Records) /\ UniqueIds(Kept)
        /\ \A r \in Records : Has(Kept, r) => Has(ledger, r)
    BY <1>1, <2>2, RoomIsMade
  <2>4. \A r \in Records : Has(ledger, r) => r.id # id
    BY <2>2 DEF Positions, Has
  <2> HIDE DEF e
  <2>5. \A r \in Records : Has(ledger', r) <=> Has(Kept, r) \/ r = e
    BY <2>1, <2>2, <2>3, <2>4, Appended
  <2> QED BY <2>1, <2>3, <2>5
<1>4. ASSUME NEW id \in Ids, NEW payload \in Payloads, RepeatMutation(id, payload)
      PROVE  \A r \in Records : Has(ledger', r) /\ r.outcome = "ok" => Has(ledger, r)
  <2>1. PICK i \in Positions(id) :
          \/ ledger' = Append(RemoveAt(ledger, i), ledger[i])
          \/ /\ ledger[i].outcome = "none"
             /\ ledger' = Append(RemoveAt(ledger, i), [ledger[i] EXCEPT !.waiter = current])
    BY <1>4 DEF RepeatMutation
  <2>2. /\ i \in 1..Len(ledger) /\ ledger[i] \in Records /\ Has(ledger, ledger[i])
    BY <1>1, <2>1 DEF Positions, Has
  <2>3. CASE ledger' = Append(RemoveAt(ledger, i), ledger[i])
    <3>1. \A r \in Records : Has(ledger', r) <=> (Has(ledger, r) /\ r # ledger[i]) \/ r = ledger[i]
      BY <1>1, <2>2, <2>3, MovedIs
    <3> QED BY <2>2, <3>1
  <2>4. CASE /\ ledger[i].outcome = "none"
             /\ ledger' = Append(RemoveAt(ledger, i), [ledger[i] EXCEPT !.waiter = current])
    <3> DEFINE e == [ledger[i] EXCEPT !.waiter = current]
    <3>1. e \in Records /\ e.id = ledger[i].id /\ e.outcome = "none"
      BY <1>1, <2>2, <2>4 DEF Records
    <3>2. ledger' = Append(RemoveAt(ledger, i), e)
      BY <2>4
    <3> HIDE DEF e
    <3>3. \A r \in Records : Has(ledger', r) <=> (Has(ledger, r) /\ r # ledger[i]) \/ r = e
      BY <1>1, <2>2, <3>1, <3>2, MovedIs
    <3> QED BY <3>1, <3>3
  <2> QED BY <2>1, <2>3, <2>4
<1>5. ASSUME NEW t \in Tasks, FinishMutation(t)
      PROVE  \A r \in Records : Has(ledger', r) /\ r.outcome = "ok" => Has(ledger, r)
  <2>1. CASE release # "no"
    BY <1>2, <1>5, <2>1 DEF FinishMutation
  <2>2. CASE release = "no"
    <3>1. PICK i \in Positions(task[t].id) : ledger' = RemoveAt(ledger, i)
      BY <1>5, <2>2 DEF FinishMutation, Outcome
    <3>2. i \in 1..Len(ledger)
      BY <1>1, <3>1 DEF Positions
    <3> QED BY <1>1, <3>1, <3>2, Removed
  <2> QED BY <2>1, <2>2
<1>6. ASSUME NEW t \in Tasks, FinishRead(t) PROVE UNCHANGED ledger /\ pager'.seen = pager.seen
  <2>1. pager' = pager \/ pager' = AskAgain
    BY <1>6 DEF FinishRead, Outcome
  <2>2. UNCHANGED <<ledger, rows>>
    BY <1>6 DEF FinishRead
  <2> QED BY <1>1, <2>1, <2>2, AskAgainIs
<1>7. CASE Attach
  <2>1. pager' = AskAgain /\ UNCHANGED <<ledger, rows>>
    BY <1>7 DEF Attach
  <2> QED BY <1>1, <1>2, <2>1, AskAgainIs
<1>8. CASE StartPage
  <2>1. pager'.seen = pager.seen /\ UNCHANGED ledger
    BY <1>1, <1>8 DEF StartPage, ReadsTypeOK
  <2> QED BY <1>2, <2>1
<1>9. CASE Environment
  <2>1. UNCHANGED ledger
    BY <1>9 DEF Environment, leaseVars
  <2>2. pager'.seen = pager.seen
    BY <1>1, <1>9 DEF Environment, AppendRow, OpenTranscript, readVars, ReadsTypeOK
  <2> QED BY <1>2, <2>1, <2>2
<1>10. CASE FinishRelease
  BY <1>10 DEF FinishRelease, readVars, Has
<1>11. CASE \/ (\E id \in Ids : MutationRateLimited(id)) \/ ReadRateLimited
            \/ (\E kind \in {"list", "image"} : StartRead(kind))
            \/ (\E t \in Tasks : RunTask(t) \/ RunThread(t) \/ ReadPage(t) \/ Reap(t))
            \/ Detach \/ Revoke \/ BeginRelease \/ UNCHANGED vars
  <2>1. UNCHANGED <<ledger, pager>>
    BY <1>11 DEF MutationRateLimited, ReadRateLimited, StartRead, RunTask, RunThread, ReadPage,
                 Reap, Detach, Revoke, BeginRelease, vars, readVars, leaseVars
  <2> QED BY <1>2, <2>1
<1>12. ASSUME NEW id \in Ids, NEW payload \in Payloads,
              StartMutation(id, payload) \/ RepeatMutation(id, payload)
       PROVE  UNCHANGED pager
  BY <1>12 DEF StartMutation, RepeatMutation, readVars
<1>13. ASSUME NEW t \in Tasks, FinishMutation(t) PROVE UNCHANGED pager
  BY <1>13 DEF FinishMutation, readVars
<1> QED BY <1>2, <1>3, <1>4, <1>5, <1>6, <1>7, <1>8, <1>9, <1>10, <1>11, <1>12, <1>13 DEF Next

(***************************************************************************)
(* Once the device is revoked nothing a thread did before is kept as an    *)
(* outcome or taken in as a page: the second check of the device, after    *)
(* the thread (authorized_read).                                           *)
(***************************************************************************)
THEOREM RevokedRunsYieldNothingHolds == Spec => RevokedRunsYieldNothing
<1> DEFINE Action == ~authorized =>
               /\ \A i \in DOMAIN ledger' : ledger'[i].outcome = "ok" =>
                    \E j \in DOMAIN ledger : ledger[j].id = ledger'[i].id /\ ledger[j].outcome = "ok"
               /\ pager'.seen = pager.seen
<1>1. LocalInside /\ LocalInside' /\ [Next]_vars => [Action]_vars
  <2> SUFFICES ASSUME LocalInside, LocalInside', [Next]_vars, ~authorized PROVE Action
    OBVIOUS
  <2>1. /\ \A r \in Records : Has(ledger', r) /\ r.outcome = "ok" => Has(ledger, r)
        /\ pager'.seen = pager.seen
    BY RevokedStep
  <2>2. ledger' \in Seq(Records)
    BY DEF LocalInside, LocalInv, TypeOK
  <2>3. ASSUME NEW i \in DOMAIN ledger', ledger'[i].outcome = "ok"
        PROVE  \E j \in DOMAIN ledger : ledger[j].id = ledger'[i].id /\ ledger[j].outcome = "ok"
    <3>1. PICK r \in Records : r = ledger'[i]
      BY <2>2, <2>3
    <3>2. Has(ledger', r)
      BY <2>3, <3>1 DEF Has
    <3>3. Has(ledger, r)
      BY <2>1, <2>3, <3>1, <3>2
    <3> QED BY <2>3, <3>1, <3>3 DEF Has
  <2> QED BY <2>1, <2>3
<1> QED BY <1>1, LocalInsideAlways, PTL DEF Spec, RevokedRunsYieldNothing
=============================================================================
