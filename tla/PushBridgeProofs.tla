--------------------------- MODULE PushBridgeProofs ---------------------------
(***************************************************************************)
(* For any number of devices, registrations, handles, wakes, revocations   *)
(* and restarts, and any limits: the rows know every handle the Worker     *)
(* has, a device has one active row, and no request is started for a       *)
(* device or a row that is no longer what it was when the job was queued.  *)
(***************************************************************************)
EXTENDS PushBridge, FiniteSetTheorems, SequenceTheorems, TLAPS

\* A process that is down runs no task.
DownInv ==
    ~up => /\ http = NoHttp /\ queue = <<>>
           /\ \A c \in Callers : calls[c].at \in {"idle", "done"}
           /\ \A h \in Handles : tap[h] = 0

\* Rows have handles that were made; a row of a table without a failed save
\* is in push.json too, under the same binding, and a device has one active
\* row in either.
OneActive(rs) ==
    \A g, h \in Handles :
        rs[g].st = "active" /\ rs[h].st = "active" /\ rs[g].dev = rs[h].dev => g = h

TablesInv ==
    /\ \A h \in Handles : rows[h].st # "none" \/ disk[h].st # "none" => h <= made
    /\ up /\ ~failed => \A h \in Handles : rows[h].st # "none" => disk[h].st # "none"
    /\ \A h \in Handles :
          rows[h].st # "none" /\ disk[h].st # "none" => rows[h].bind = disk[h].bind
    /\ OneActive(rows) /\ OneActive(disk)

\* A handle being registered is known; one the Worker has unregistered is gone;
\* a request is posted for a row of the process's own binding.
RequestInv ==
    http # NoHttp =>
        /\ http.job.act = "register" =>
              rows[http.job.h].st # "none" /\ disk[http.job.h].st # "none"
        /\ http.job.act = "unregister" /\ http.at \in {"arrived", "ok"} =>
              \A b \in Bindings : <<http.job.h, b>> \notin remote
        /\ http.job.act = "unregister" => rows[http.job.h].st # "active"
        /\ http.at \in {"flying", "arrived", "ok"} =>
              rows[http.job.h].st # "none" /\ rows[http.job.h].bind = here

\* A request about to start is for an authorized device, and its row is still
\* the one that was queued or was given up.
Startable(j) ==
    /\ rows[j.h].dev \in auth
    /\ \/ rows[j.h].st \in {"active", "pending"} /\ rows[j.h].gen = j.gen
       \/ /\ j.act = "register" /\ j.h \in givenUp
          /\ rows[j.h].st = "debt" /\ rows[j.h].gen = j.gen + 1
    /\ j.act = "wake" => rows[j.h].st = "active"

StartInv == http # NoHttp /\ http.at = "created" /\ http.job.act # "unregister" => Startable(http.job)

PushInv ==
    /\ TypeOK /\ DownInv /\ TablesInv /\ RequestInv /\ StartInv /\ RemoteIsKnown
    /\ TapsAreLive

-----------------------------------------------------------------------------
(* Lemmas about the operators                                              *)

\* The members of a set of numbers, put in order, are its members.
LEMMA OrderedType ==
    ASSUME NEW k \in Nat, NEW S \in SUBSET (1 .. k)
    PROVE  /\ Cardinality(S) \in Nat /\ Cardinality(S) <= k
           /\ Ordered(S) \in [1 .. Cardinality(S) -> S]
<1> DEFINE n == Cardinality(S)
           Low(i) == {j \in S : j <= i}
           rank == [i \in S |-> Upto(S, i)]
<1>0. \A i \in S : i \in Int
  OBVIOUS
<1>1. /\ IsFiniteSet(S) /\ n \in Nat /\ n <= k
      /\ IsFiniteSet(1 .. n) /\ Cardinality(1 .. n) = n
  <2>1. IsFiniteSet(1 .. k) /\ Cardinality(1 .. k) = k
    BY FS_Interval
  <2>2. IsFiniteSet(S) /\ n <= k /\ n \in Nat
    BY <2>1, FS_Subset, FS_CardinalityType
  <2>3. QED
    BY <2>2, FS_Interval
<1>2. ASSUME NEW i \in S
      PROVE  IsFiniteSet(Low(i)) /\ Upto(S, i) = Cardinality(Low(i)) /\ Upto(S, i) \in 1 .. n
  <2>1. IsFiniteSet(Low(i)) /\ Cardinality(Low(i)) <= n /\ Cardinality(Low(i)) \in Nat
    <3>1. Low(i) \subseteq S
      OBVIOUS
    <3>2. QED
      BY <3>1, <1>1, FS_Subset, FS_CardinalityType
  <2>2. i \in Low(i)
    OBVIOUS
  <2>3. Cardinality(Low(i)) # 0
    <3> HIDE DEF Low
    <3>1. QED
      BY <2>1, <2>2, FS_EmptySet
  <2>4. Upto(S, i) = Cardinality(Low(i))
    BY DEF Upto
  <2>5. QED
    BY <1>1, <2>1, <2>3, <2>4
<1>3. ASSUME NEW i \in S, NEW j \in S, i < j PROVE Upto(S, i) < Upto(S, j)
  <2>1. Low(i) \subseteq Low(j) /\ j \in Low(j) /\ j \notin Low(i)
    <3>1. i \in Int /\ j \in Int /\ i <= j /\ ~(j <= i) /\ j <= j
      BY <1>0, <1>3
    <3>2. \A m \in S : m <= i => m <= j
      BY <1>0, <3>1
    <3>3. QED
      BY <3>1, <3>2
  <2>2. Cardinality(Low(i)) < Cardinality(Low(j))
    <3> HIDE DEF Low
    <3>1. /\ Cardinality(Low(i)) \in Nat /\ Cardinality(Low(j)) \in Nat
          /\ Cardinality(Low(i)) <= Cardinality(Low(j))
          /\ Cardinality(Low(i)) = Cardinality(Low(j)) => Low(i) = Low(j)
      BY <1>2, <2>1, FS_Subset, FS_CardinalityType
    <3>2. QED
      BY <2>1, <3>1
  <2>3. QED
    BY <1>2, <2>2
<1>4. rank \in Injection(S, 1 .. n)
  <2>1. \A i, j \in S : rank[i] = rank[j] => i = j
    <3> SUFFICES ASSUME NEW i \in S, NEW j \in S, Upto(S, i) = Upto(S, j), i # j PROVE FALSE
      OBVIOUS
    <3>1. i < j \/ j < i
      BY <1>0
    <3>2. Upto(S, i) < Upto(S, j) \/ Upto(S, j) < Upto(S, i)
      BY <1>3, <3>1
    <3>3. Upto(S, i) \in Int
      <4>1. Upto(S, i) \in 1 .. n
        BY <1>2
      <4> HIDE DEF n
      <4>2. QED
        BY <4>1
    <3>4. QED
      BY <3>2, <3>3
  <2>2. rank \in [S -> 1 .. n]
    BY <1>2
  <2>3. QED
    <3> HIDE DEF rank, n
    <3>1. QED
      BY <2>1, <2>2 DEF Injection, IsInjective
<1>5. rank \in Surjection(S, 1 .. n)
  <2> HIDE DEF rank, n
  <2>1. QED
    BY <1>1, <1>4, FS_Injection DEF n
<1>6. \A m \in 1 .. n : \E i \in S : Upto(S, i) = m
  BY <1>5 DEF Surjection
<1>7. \A m \in 1 .. n : (CHOOSE i \in S : Upto(S, i) = m) \in S
  BY <1>6
<1>8. QED
  BY <1>1, <1>7 DEF Ordered

\* _drop_queued leaves jobs that were queued.
LEMMA QueueWithoutType ==
    ASSUME queue \in Seq(Job), Len(queue) <= QueueSize, NEW H
    PROVE  QueueWithout(H) \in Seq(Job) /\ Len(QueueWithout(H)) <= QueueSize
<1> DEFINE K == {i \in 1 .. Len(queue) : queue[i].h \notin H}
           kept == Ordered(K)
<1>1. /\ Cardinality(K) \in Nat /\ Cardinality(K) <= Len(queue)
      /\ kept \in [1 .. Cardinality(K) -> K]
  BY OrderedType
<1>2. QueueWithout(H) = [n \in DOMAIN kept |-> queue[kept[n]]]
  BY DEF QueueWithout
<1> HIDE DEF kept
<1>3. QueueWithout(H) = [n \in 1 .. Cardinality(K) |-> queue[kept[n]]]
  BY <1>1, <1>2
<1>4. \A n \in 1 .. Cardinality(K) : queue[kept[n]] \in Job
  BY <1>1
<1> HIDE DEF K
<1>5. QueueWithout(H) \in [1 .. Cardinality(K) -> Job]
  BY <1>3, <1>4
<1>6. QueueWithout(H) \in Seq(Job) /\ Len(QueueWithout(H)) = Cardinality(K)
  BY <1>1, <1>5, SeqDef, LenProperties
<1>7. QED
  BY <1>1, <1>6, PushAssumption

\* _enqueue adds unregisters of the handles, as many as there is room for.
LEMMA WithUnregistersType ==
    ASSUME NEW q \in Seq(Job), NEW H \in SUBSET Handles, NEW rs \in [Handles -> Row]
    PROVE  /\ WithUnregisters(q, H, rs) \in Seq(Job)
           /\ Len(WithUnregisters(q, H, rs)) <= QueueSize
<1> DEFINE hs == Ordered(H)
           new == [i \in 1 .. Len(hs) |-> UnregisterJob(hs[i], rs)]
           all == q \o new
           fits == IF Len(all) < QueueSize THEN Len(all) ELSE QueueSize
<1>1. hs \in Seq(Handles) /\ Len(hs) \in Nat
  <2>1. Cardinality(H) \in Nat /\ hs \in [1 .. Cardinality(H) -> H]
    BY OrderedType, PushAssumption DEF Handles
  <2> HIDE DEF hs
  <2>2. hs \in [1 .. Cardinality(H) -> Handles]
    BY <2>1
  <2>3. QED
    BY <2>1, <2>2, SeqDef, LenProperties
<1> HIDE DEF hs
<1>2. \A i \in 1 .. Len(hs) : UnregisterJob(hs[i], rs) \in Job
  <2> SUFFICES ASSUME NEW i \in 1 .. Len(hs) PROVE UnregisterJob(hs[i], rs) \in Job
    OBVIOUS
  <2>1. hs[i] \in Handles
    BY <1>1
  <2>2. rs[hs[i]].gen \in Nat
    BY <2>1 DEF Row
  <2>3. 0 \in 0 .. MaxWakes
    BY PushAssumption
  <2>4. QED
    BY <2>1, <2>2, <2>3 DEF UnregisterJob, Job
<1>3. new \in Seq(Job)
  <2>1. new \in [1 .. Len(hs) -> Job]
    BY <1>2
  <2>2. QED
    BY <1>1, <2>1, SeqDef
<1> HIDE DEF new
<1>4. all \in Seq(Job) /\ Len(all) \in Nat
  BY <1>3, ConcatProperties, LenProperties
<1> HIDE DEF all
<1>5. fits \in Nat /\ fits <= QueueSize /\ fits <= Len(all)
  BY <1>4, PushAssumption
<1> HIDE DEF fits
<1>6. WithUnregisters(q, H, rs) = SubSeq(all, 1, fits)
  BY DEF WithUnregisters, hs, new, all, fits
<1>7. \A i \in 1 .. fits : all[i] \in Job
  BY <1>4, <1>5
<1>8. SubSeq(all, 1, fits) \in Seq(Job) /\ Len(SubSeq(all, 1, fits)) = fits
  BY <1>5, <1>7, SubSeqProperties
<1>9. QED
  BY <1>5, <1>6, <1>8

CallType == [at : {"idle", "lock", "future", "set", "raised", "done"},
             dev : Devices \cup {None}, mode : Modes, h : 0 .. MaxHandles]
HttpType == [at : HttpPhase, job : Job]

\* What the table has after _make_debt of some handles.
LEMMA InDebtFacts ==
    ASSUME rows \in [Handles -> Row], NEW H
    PROVE  /\ InDebt(H) \in [Handles -> Row]
           /\ \A h \in Handles :
                 /\ InDebt(H)[h].dev = rows[h].dev /\ InDebt(H)[h].bind = rows[h].bind
                 /\ h \in H => InDebt(H)[h].st = "debt" /\ InDebt(H)[h].gen = rows[h].gen + 1
                 /\ h \notin H => InDebt(H)[h] = rows[h]
<1>1. ASSUME NEW r \in Row
      PROVE  /\ Debt(r) \in Row /\ Debt(r).dev = r.dev /\ Debt(r).bind = r.bind
             /\ Debt(r).st = "debt" /\ Debt(r).gen = r.gen + 1
  <2> DEFINE n == r.gen + 1
  <2>1. n \in Nat /\ Debt(r) = [r EXCEPT !.st = "debt", !.gen = n]
    BY DEF Debt, Row
  <2> HIDE DEF n
  <2>2. QED
    BY <2>1 DEF Row, Status, n
<1>2. \A h \in Handles : rows[h] \in Row
  OBVIOUS
<1>3. \A h \in Handles : InDebt(H)[h] = IF h \in H THEN Debt(rows[h]) ELSE rows[h]
  BY DEF InDebt
<1>4. \A h \in Handles : InDebt(H)[h] \in Row
  BY <1>1, <1>2, <1>3
<1>5. InDebt(H) \in [Handles -> Row]
  BY <1>4 DEF InDebt
<1>6. QED
  BY <1>1, <1>2, <1>3, <1>5

\* _clear_pending and _clear_arrival
LEMMA RoutesWithoutType ==
    ASSUME tap \in [Handles -> 0 .. MaxWakes], NEW H
    PROVE  RoutesWithout(H) \in [Handles -> 0 .. MaxWakes]
BY PushAssumption DEF RoutesWithout

\* A future that is answered leaves its caller's task ready to return.
LEMMA AnsweredType ==
    ASSUME calls \in [Callers -> CallType], NEW cs, NEW at \in {"set", "raised"}
    PROVE  /\ Answered(cs, at) \in [Callers -> CallType]
           /\ \A c \in Callers : calls[c].at # "future" => Answered(cs, at)[c] = calls[c]
<1>1. ASSUME NEW c \in Callers PROVE [calls[c] EXCEPT !.at = at] \in CallType
  BY DEF CallType
<1>2. QED
  BY <1>1 DEF Answered

\* Cancelling the request in flight ends it, whatever it was doing.
LEMMA CancelledFacts ==
    ASSUME http \in {NoHttp} \cup HttpType, NEW H
    PROVE  /\ Cancelled(H) \in {NoHttp} \cup HttpType
           /\ Cancelled(H) = NoHttp <=> http = NoHttp
           /\ http # NoHttp =>
                 /\ Cancelled(H).job = http.job
                 /\ Cancelled(H).at \in {http.at, "cancelled"}
                 /\ http.at = "created" /\ http.job.h \in H => Cancelled(H).at = "cancelled"
<1>1. CASE http = NoHttp
  BY <1>1 DEF Cancelled
<1>2. CASE http \in HttpType
  <2>1. http # NoHttp
    BY <1>2 DEF NoHttp, HttpType, HttpPhase
  <2>2. [http EXCEPT !.at = "cancelled"] \in HttpType
    BY <1>2 DEF HttpType, HttpPhase
  <2>3. /\ [http EXCEPT !.at = "cancelled"].job = http.job
        /\ [http EXCEPT !.at = "cancelled"].at = "cancelled"
    BY <1>2 DEF HttpType
  <2>4. [http EXCEPT !.at = "cancelled"] # NoHttp
    BY <2>3 DEF NoHttp
  <2>5. QED
    BY <1>2, <2>1, <2>2, <2>3, <2>4 DEF Cancelled
<1>3. QED
  BY <1>1, <1>2

\* _save writes the table or marks the bridge as failed.
LEMMA SavesFacts ==
    ASSUME NEW rs, NEW ok \in BOOLEAN, Saves(rs, ok), failed \in BOOLEAN
    PROVE  /\ failed' \in BOOLEAN
           /\ disk' = rs \/ disk' = disk
           /\ ~failed' => ~failed /\ disk' = rs
BY DEF Saves

\* The finally block of _run
LEMMA SettleType ==
    ASSUME TypeOK, NEW j, NEW success \in BOOLEAN, Settle(j, success)
    PROVE  /\ tap' \in [Handles -> 0 .. MaxWakes]
           /\ calls' \in [Callers -> CallType]
           /\ \A c \in Callers : calls[c].at # "future" => calls'[c] = calls[c]
<1>1. tap \in [Handles -> 0 .. MaxWakes] /\ calls \in [Callers -> CallType] /\ 0 \in 0 .. MaxWakes
  BY PushAssumption DEF TypeOK, CallType
<1>2. tap' \in [Handles -> 0 .. MaxWakes]
  BY <1>1 DEF Settle
<1>3. \E at \in {"set", "raised"} : calls' = Answered({j.c}, at)
  BY DEF Settle
<1>4. QED
  BY <1>1, <1>2, <1>3, AnsweredType
-----------------------------------------------------------------------------
(* Types                                                                   *)

\* The parts of TypeOK a step of the bridge changes.
TableTyped(rs, ds, q, ht, tp, cs) ==
    /\ rs \in [Handles -> Row] /\ ds \in [Handles -> Row]
    /\ q \in Seq(Job) /\ Len(q) <= QueueSize
    /\ ht \in {NoHttp} \cup HttpType
    /\ tp \in [Handles -> 0 .. MaxWakes]
    /\ cs \in [Callers -> CallType]

LEMMA TypeParts ==
    TypeOK <=>
        /\ TableTyped(rows, disk, queue, http, tap, calls)
        /\ failed \in BOOLEAN /\ up \in BOOLEAN
        /\ lock \in Callers \cup {None}
        /\ auth \subseteq Devices /\ remote \subseteq Handles \X Bindings /\ here \in Bindings
        /\ made \in 0 .. MaxHandles
        /\ wakes \in 0 .. MaxWakes /\ revokes \in 0 .. MaxRevokes /\ crashes \in 0 .. MaxCrashes
        /\ givenUp \subseteq Handles
BY DEF TypeOK, TableTyped, HttpType, CallType

LEMMA TypePartsNext ==
    TypeOK' <=>
        /\ TableTyped(rows', disk', queue', http', tap', calls')
        /\ failed' \in BOOLEAN /\ up' \in BOOLEAN
        /\ lock' \in Callers \cup {None}
        /\ auth' \subseteq Devices /\ remote' \subseteq Handles \X Bindings /\ here' \in Bindings
        /\ made' \in 0 .. MaxHandles
        /\ wakes' \in 0 .. MaxWakes /\ revokes' \in 0 .. MaxRevokes /\ crashes' \in 0 .. MaxCrashes
        /\ givenUp' \subseteq Handles
BY DEF TypeOK, TableTyped, HttpType, CallType

LEMMA TypeInit == Init => TypeOK
<1> SUFFICES ASSUME Init PROVE TypeOK
  OBVIOUS
<1>1. NoRow \in Row /\ IdleCall \in CallType
  BY PushAssumption DEF NoRow, Row, Status, Modes, IdleCall, CallType
<1>2. rows \in [Handles -> Row] /\ disk \in [Handles -> Row] /\ calls \in [Callers -> CallType]
  BY <1>1 DEF Init
<1>3. queue \in Seq(Job) /\ Len(queue) <= QueueSize /\ http = NoHttp
  BY PushAssumption DEF Init
<1>4. tap \in [Handles -> 0 .. MaxWakes]
  BY PushAssumption DEF Init
<1>5. TableTyped(rows, disk, queue, http, tap, calls)
  BY <1>2, <1>3, <1>4 DEF TableTyped
<1>6. /\ 0 \in 0 .. MaxHandles /\ 0 \in 0 .. MaxWakes
      /\ 0 \in 0 .. MaxRevokes /\ 0 \in 0 .. MaxCrashes
  BY PushAssumption
<1>7. /\ failed \in BOOLEAN /\ up \in BOOLEAN /\ lock \in Callers \cup {None}
      /\ auth \subseteq Devices /\ remote \subseteq Handles \X Bindings /\ here \in Bindings
      /\ givenUp \subseteq Handles
      /\ made = 0 /\ wakes = 0 /\ revokes = 0 /\ crashes = 0
  BY DEF Init
<1>8. QED
  BY <1>5, <1>6, <1>7, TypeParts

\* The steps of a call for a registration.
LEMMA TypeCalls ==
    ASSUME TypeOK, NEW c \in Callers,
           \/ \E d \in Devices, mode \in Modes : Register(c, d, mode)
           \/ Returns(c) \/ CallCancelled(c)
    PROVE  TypeOK'
<1>1. calls \in [Callers -> CallType] /\ calls[c] \in CallType
  BY TypeParts DEF TableTyped
<1>2. ASSUME NEW d \in Devices, NEW mode \in Modes, Register(c, d, mode) PROVE TypeOK'
  <2>1. [at |-> "lock", dev |-> d, mode |-> mode, h |-> 0] \in CallType
    BY PushAssumption DEF CallType
  <2>2. calls' \in [Callers -> CallType]
    BY <1>1, <1>2, <2>1 DEF Register
  <2>3. QED
    BY <1>2, <2>2, TypeParts, TypePartsNext DEF Register, TableTyped, bridge, counters
<1>3. Done(c) \in [Callers -> CallType]
  <2>1. [calls[c] EXCEPT !.at = "done"] \in CallType
    BY <1>1 DEF CallType
  <2>2. QED
    BY <1>1, <2>1 DEF Done
<1>4. ASSUME Returns(c) PROVE TypeOK'
  BY <1>3, <1>4, TypeParts, TypePartsNext DEF Returns, TableTyped, bridge, counters
<1>5. ASSUME CallCancelled(c) PROVE TypeOK'
  BY <1>3, <1>5, TypeParts, TypePartsNext DEF CallCancelled, TableTyped, bridge, counters
<1>6. QED
  BY <1>2, <1>4, <1>5

\* A job for the queue; a call that waits for it or is refused.
LEMMA JobsTyped ==
    /\ \A c \in Callers, h \in Handles, g \in Nat : RegisterJob(c, h, g) \in Job
    /\ \A q \in Seq(Job), j \in Job :
          Len(q) < QueueSize => Append(q, j) \in Seq(Job) /\ Len(Append(q, j)) <= QueueSize
<1>1. \A c \in Callers, h \in Handles, g \in Nat : RegisterJob(c, h, g) \in Job
  BY PushAssumption DEF RegisterJob, Job
<1>2. ASSUME NEW q \in Seq(Job), NEW j \in Job, Len(q) < QueueSize
      PROVE  Append(q, j) \in Seq(Job) /\ Len(Append(q, j)) <= QueueSize
  BY <1>2, AppendProperties, LenProperties, PushAssumption
<1>3. QED
  BY <1>1, <1>2

LEMMA CallsTyped ==
    ASSUME calls \in [Callers -> CallType], NEW c \in Callers
    PROVE  /\ Done(c) \in [Callers -> CallType]
           /\ \A h \in Handles : Awaiting(c, h) \in [Callers -> CallType]
<1>1. calls[c] \in CallType
  OBVIOUS
<1>2. Done(c) \in [Callers -> CallType]
  <2>1. [calls[c] EXCEPT !.at = "done"] \in CallType
    BY <1>1 DEF CallType
  <2>2. QED
    BY <2>1 DEF Done
<1>3. ASSUME NEW h \in Handles
      PROVE  Awaiting(c, h) \in [Callers -> CallType]
  <2>1. h \in 0 .. MaxHandles
    BY PushAssumption DEF Handles
  <2>2. [calls[c] EXCEPT !.at = "future", !.h = h] \in CallType
    BY <1>1, <2>1 DEF CallType
  <2>3. QED
    BY <2>2 DEF Awaiting
<1>4. QED
  BY <1>2, <1>3

LEMMA TypeRegisterAgain ==
    ASSUME TypeOK, NEW c \in Callers, RegisterAgain(c) PROVE TypeOK'
<1>1. PICK h \in SamePreview(calls[c].dev, calls[c].mode) :
        IF Len(queue) < QueueSize
        THEN /\ queue' = Append(queue, RegisterJob(c, h, rows[h].gen))
             /\ calls' = Awaiting(c, h)
             /\ lock' = c
             /\ UNCHANGED <<rows, tap, disk, failed, givenUp>>
        ELSE /\ IF rows[h].st = "pending"
                THEN /\ rows' = InDebt({h}) /\ tap' = RoutesWithout({h})
                     /\ givenUp' = givenUp \cup {h}
                     /\ \E ok \in BOOLEAN : Saves(rows', ok)
                ELSE UNCHANGED <<rows, tap, disk, failed, givenUp>>
             /\ calls' = Done(c)
             /\ UNCHANGED <<queue, lock>>
  BY DEF RegisterAgain
<1>2. /\ UNCHANGED <<http, here, auth, remote, up, made, wakes, revokes, crashes>>
      /\ h \in Handles /\ rows[h] \in Row /\ rows[h].gen \in Nat
  BY TypeParts DEF RegisterAgain, SamePreview, RowsOf, Present, TableTyped, Row
<1>3. CASE Len(queue) < QueueSize
  <2>1. queue' \in Seq(Job) /\ Len(queue') <= QueueSize
    BY <1>1, <1>2, <1>3, JobsTyped, TypeParts DEF TableTyped
  <2>2. calls' \in [Callers -> CallType]
    BY <1>1, <1>2, <1>3, CallsTyped, TypeParts DEF TableTyped
  <2>3. QED
    BY <1>1, <1>2, <1>3, <2>1, <2>2, TypeParts, TypePartsNext DEF TableTyped
<1>4. CASE ~(Len(queue) < QueueSize)
  <2>1. calls' \in [Callers -> CallType]
    BY <1>1, <1>4, CallsTyped, TypeParts DEF TableTyped
  <2>2. CASE rows[h].st = "pending"
    <3>1. rows' \in [Handles -> Row] /\ tap' \in [Handles -> 0 .. MaxWakes]
      BY <1>1, <1>4, <2>2, InDebtFacts, RoutesWithoutType, TypeParts DEF TableTyped
    <3>2. failed' \in BOOLEAN /\ (disk' = rows' \/ disk' = disk)
      BY <1>1, <1>4, <2>2, SavesFacts, TypeParts
    <3>3. QED
      BY <1>1, <1>2, <1>4, <2>1, <2>2, <3>1, <3>2, TypeParts, TypePartsNext DEF TableTyped
  <2>3. CASE rows[h].st # "pending"
    BY <1>1, <1>2, <1>4, <2>1, <2>3, TypeParts, TypePartsNext DEF TableTyped
  <2>4. QED
    BY <2>2, <2>3
<1>5. QED
  BY <1>3, <1>4

LEMMA TypeRegisterFresh ==
    ASSUME TypeOK, NEW c \in Callers, RegisterFresh(c) PROVE TypeOK'
<1>1. CASE Len(queue) = QueueSize \/ Cardinality(Present) >= MaxRows
  <2>1. Done(c) \in [Callers -> CallType]
    BY CallsTyped, TypeParts DEF TableTyped
  <2>2. QED
    BY <1>1, <2>1, TypeParts, TypePartsNext DEF RegisterFresh, TableTyped
<1>2. CASE ~(Len(queue) = QueueSize \/ Cardinality(Present) >= MaxRows)
  <2>1. PICK h \in Handles, ok \in BOOLEAN :
            /\ h = made + 1 /\ made' = h
            /\ rows' = [rows EXCEPT ![h] = [st |-> "pending", dev |-> calls[c].dev,
                                            mode |-> calls[c].mode, gen |-> 0, bind |-> here]]
            /\ Saves(rows', ok)
            /\ IF ok
               THEN /\ queue' = Append(queue, RegisterJob(c, h, 0))
                    /\ calls' = Awaiting(c, h)
                    /\ lock' = c
               ELSE calls' = Done(c) /\ UNCHANGED <<queue, lock>>
    BY <1>2 DEF RegisterFresh
  <2>2. UNCHANGED <<http, tap, here, auth, remote, up, wakes, revokes, crashes, givenUp>>
    BY DEF RegisterFresh
  <2>3. [st |-> "pending", dev |-> calls[c].dev, mode |-> calls[c].mode, gen |-> 0,
         bind |-> here] \in Row
    BY TypeParts DEF TableTyped, CallType, Row, Status
  <2>4. rows' \in [Handles -> Row]
    BY <2>1, <2>3, TypeParts DEF TableTyped
  <2>5. Len(queue) < QueueSize
    BY <1>2, TypeParts, LenProperties, PushAssumption DEF TableTyped
  <2>6. queue' \in Seq(Job) /\ Len(queue') <= QueueSize /\ calls' \in [Callers -> CallType]
    <3>1. CASE ok
      BY <2>1, <2>5, <3>1, JobsTyped, CallsTyped, TypeParts DEF TableTyped
    <3>2. CASE ~ok
      BY <2>1, <3>2, CallsTyped, TypeParts DEF TableTyped
    <3>3. QED
      BY <3>1, <3>2
  <2>7. failed' \in BOOLEAN /\ (disk' = rows' \/ disk' = disk)
    BY <2>1, SavesFacts, TypeParts
  <2>8. made' \in 0 .. MaxHandles /\ lock' \in Callers \cup {None}
    BY <2>1, TypeParts, PushAssumption DEF Handles
  <2>9. QED
    BY <2>2, <2>4, <2>6, <2>7, <2>8, TypeParts, TypePartsNext DEF TableTyped
<1>3. QED
  BY <1>1, <1>2
LEMMA TypeRevoke ==
    ASSUME TypeOK, NEW d \in Devices, Revoke(d) PROVE TypeOK'
<1> DEFINE H == RowsOf(d)
<1>1. /\ UNCHANGED <<here, lock, remote, up, made, wakes, crashes, givenUp>>
      /\ auth' \subseteq Devices /\ revokes' \in 0 .. MaxRevokes
  BY TypeParts, PushAssumption DEF Revoke
<1>2. CASE H = {}
  BY <1>1, <1>2, TypeParts, TypePartsNext DEF Revoke, RevokeRows, bridge, TableTyped
<1>3. CASE H # {}
  <2>1. PICK ok \in BOOLEAN :
          /\ rows' = InDebt(H) /\ tap' = RoutesWithout(H) /\ http' = Cancelled(H)
          /\ calls' = Answered(Waiting(H), "raised")
          /\ Saves(InDebt(H), ok)
          /\ queue' = IF ok THEN WithUnregisters(QueueWithout(H), H, InDebt(H)) ELSE QueueWithout(H)
    BY <1>3 DEF Revoke, RevokeRows
  <2>2. H \in SUBSET Handles
    BY DEF RowsOf, Present
  <2> HIDE DEF H
  <2>3. InDebt(H) \in [Handles -> Row]
    BY InDebtFacts, TypeParts DEF TableTyped
  <2>4. tap' \in [Handles -> 0 .. MaxWakes] /\ http' \in {NoHttp} \cup HttpType
    BY <2>1, RoutesWithoutType, CancelledFacts, TypeParts DEF TableTyped
  <2>5. calls' \in [Callers -> CallType]
    BY <2>1, AnsweredType, TypeParts DEF TableTyped
  <2>6. QueueWithout(H) \in Seq(Job) /\ Len(QueueWithout(H)) <= QueueSize
    BY QueueWithoutType, TypeParts DEF TableTyped
  <2>7. queue' \in Seq(Job) /\ Len(queue') <= QueueSize
    BY <2>1, <2>2, <2>3, <2>6, WithUnregistersType
  <2>8. failed' \in BOOLEAN /\ (disk' = InDebt(H) \/ disk' = disk)
    BY <2>1, SavesFacts, TypeParts
  <2>9. QED
    BY <1>1, <2>1, <2>3, <2>4, <2>5, <2>7, <2>8, TypeParts, TypePartsNext DEF TableTyped
<1>4. QED
  BY <1>2, <1>3

LEMMA TypeWake ==
    ASSUME TypeOK, NEW h \in Handles, Wake(h) \/ TapOrExpiry(h) PROVE TypeOK'
<1>1. CASE Wake(h)
  <2>1. wakes' \in 0 .. MaxWakes /\ wakes + 1 \in 0 .. MaxWakes
    BY <1>1, TypeParts, PushAssumption DEF Wake
  <2>2. rows[h].gen \in Nat
    BY TypeParts DEF TableTyped, Row
  <2>3. [act |-> "wake", h |-> h, gen |-> rows[h].gen, c |-> None, n |-> wakes + 1] \in Job
    BY <2>1, <2>2 DEF Job
  <2>4. queue' \in Seq(Job) /\ Len(queue') <= QueueSize
    BY <1>1, <2>3, JobsTyped, TypeParts DEF Wake, TableTyped
  <2>5. tap' \in [Handles -> 0 .. MaxWakes]
    BY <1>1, <2>1, TypeParts DEF Wake, TableTyped
  <2>6. QED
    BY <1>1, <2>1, <2>4, <2>5, TypeParts, TypePartsNext DEF Wake, TableTyped
<1>2. CASE TapOrExpiry(h)
  <2>1. tap' \in [Handles -> 0 .. MaxWakes]
    BY <1>2, TypeParts, PushAssumption DEF TapOrExpiry, TableTyped
  <2>2. QED
    BY <1>2, <2>1, TypeParts, TypePartsNext DEF TapOrExpiry, TableTyped, counters
<1>3. QED
  BY <1>1, <1>2

\* The operation the worker awaits.
LEMMA HttpTyped ==
    ASSUME TypeOK
    PROVE  /\ http # NoHttp => http \in HttpType /\ http.job \in Job /\ http.at \in HttpPhase
           /\ http.at \in HttpPhase => http # NoHttp
           /\ \A j \in Job : [at |-> "created", job |-> j] \in HttpType
           /\ \A at \in HttpPhase : http \in HttpType =>
                 /\ [http EXCEPT !.at = at] \in HttpType
                 /\ [http EXCEPT !.at = at].at = at /\ [http EXCEPT !.at = at].job = http.job
<1>1. http \in {NoHttp} \cup HttpType
  BY TypeParts DEF TableTyped
<1>2. http # NoHttp => http \in HttpType /\ http.job \in Job /\ http.at \in HttpPhase
  BY <1>1 DEF HttpType
<1>3. http.at \in HttpPhase => http # NoHttp
  BY DEF NoHttp, HttpPhase
<1>4. \A j \in Job : [at |-> "created", job |-> j] \in HttpType
  BY DEF HttpType, HttpPhase
<1>5. \A at \in HttpPhase : http \in HttpType =>
                 /\ [http EXCEPT !.at = at] \in HttpType
                 /\ [http EXCEPT !.at = at].at = at /\ [http EXCEPT !.at = at].job = http.job
  BY DEF HttpType
<1>6. QED
  BY <1>2, <1>3, <1>4, <1>5

LEMMA TypeTakeJob == ASSUME TypeOK, TakeJob PROVE TypeOK'
<1> DEFINE j == Head(queue)
<1>1. j \in Job /\ queue' \in Seq(Job) /\ Len(queue') <= QueueSize
  BY TypeParts, HeadTailProperties, LenProperties, PushAssumption DEF TakeJob, TableTyped
<1>2. UNCHANGED <<rows, failed, here, lock, auth, disk, remote, up, counters>>
  BY DEF TakeJob
<1>3. CASE Worthwhile(j)
  BY <1>1, <1>2, <1>3, HttpTyped, TypeParts, TypePartsNext DEF TakeJob, TableTyped, counters
<1>4. CASE ~Worthwhile(j)
  <2>1. Settle(j, FALSE) /\ UNCHANGED http
    BY <1>4 DEF TakeJob
  <2>2. tap' \in [Handles -> 0 .. MaxWakes] /\ calls' \in [Callers -> CallType]
    BY <2>1, SettleType
  <2>3. QED
    BY <1>1, <1>2, <2>1, <2>2, TypeParts, TypePartsNext DEF TableTyped, counters
<1>5. QED
  BY <1>3, <1>4

LEMMA TypeRequest ==
    ASSUME TypeOK, IdleSweep \/ PostBegins \/ Arrives \/ PostSucceeds \/ PostFails PROVE TypeOK'
<1>1. CASE IdleSweep
  <2>1. <<>> \in Seq(Job) /\ Owed(rows, here) \in SUBSET Handles
    BY DEF Owed
  <2>2. queue' \in Seq(Job) /\ Len(queue') <= QueueSize
    BY <1>1, <2>1, WithUnregistersType, TypeParts DEF IdleSweep, TableTyped
  <2>3. QED
    BY <1>1, <2>2, TypeParts, TypePartsNext DEF IdleSweep, TableTyped, counters
<1>2. CASE PostBegins \/ Arrives \/ PostSucceeds \/ PostFails
  <2>1. /\ UNCHANGED <<rows, queue, tap, failed, here, calls, lock, auth, disk, up, counters>>
        /\ \E at \in HttpPhase : http' = [http EXCEPT !.at = at]
        /\ http.at \in HttpPhase
    BY <1>2 DEF PostBegins, Arrives, PostSucceeds, PostFails, HttpPhase
  <2>2. http' \in {NoHttp} \cup HttpType
    BY <2>1, HttpTyped
  <2>3. remote' \subseteq Handles \X Bindings
    <3>1. http.job.h \in Handles /\ http.job.act \in {"register", "unregister", "wake"}
      BY <2>1, HttpTyped DEF Job
    <3>2. \/ remote' = remote \/ remote' = remote \cup {<<http.job.h, here>>}
          \/ remote' = remote \ {<<http.job.h, here>>}
      BY <1>2, <3>1 DEF PostBegins, Arrives, PostSucceeds, PostFails
    <3>3. QED
      BY <3>1, <3>2, TypeParts
  <2>4. QED
    BY <2>1, <2>2, <2>3, TypeParts, TypePartsNext DEF TableTyped, counters
<1>3. QED
  BY <1>1, <1>2
LEMMA TypeUnregisterOver == ASSUME TypeOK, UnregisterOver PROVE TypeOK'
<1>1. NoRow \in Row
  BY DEF NoRow, Row, Status, Modes
<1>2. /\ http' = NoHttp /\ UNCHANGED <<queue, tap, here, calls, lock, auth, remote, up, counters>>
  BY DEF UnregisterOver
<1>3. CASE Success /\ Current
  <2>1. PICK ok \in BOOLEAN : rows' = [rows EXCEPT ![http.job.h] = NoRow] /\ Saves(rows', ok)
    BY <1>3 DEF UnregisterOver
  <2>2. rows' \in [Handles -> Row]
    BY <1>1, <2>1, TypeParts DEF TableTyped
  <2>3. failed' \in BOOLEAN /\ (disk' = rows' \/ disk' = disk)
    BY <2>1, SavesFacts, TypeParts
  <2>4. QED
    BY <1>2, <2>2, <2>3, TypeParts, TypePartsNext DEF TableTyped, counters
<1>4. CASE ~(Success /\ Current)
  BY <1>2, <1>4, TypeParts, TypePartsNext DEF UnregisterOver, TableTyped, counters
<1>5. QED
  BY <1>3, <1>4

\* What _run does to the table when a registration is over.
LEMMA TypeRegisterOver == ASSUME TypeOK, RegisterOver PROVE TypeOK'
<1> DEFINE j == http.job
           H == Others(j.h)
<1>1. /\ http' = NoHttp /\ UNCHANGED <<here, lock, auth, remote, up, counters>>
      /\ j \in Job /\ j.h \in Handles
  BY HttpTyped DEF RegisterOver, Over, HttpPhase, Job
<1>2. ASSUME rows' \in [Handles -> Row], disk' \in [Handles -> Row], queue' \in Seq(Job),
             Len(queue') <= QueueSize, tap' \in [Handles -> 0 .. MaxWakes], failed' \in BOOLEAN,
             calls' \in [Callers -> CallType]
      PROVE  TypeOK'
  BY <1>1, <1>2, TypeParts, TypePartsNext DEF TableTyped, counters
<1>3. CASE RegisterConfirmed
  <2> DEFINE rs == [InDebt(H) EXCEPT ![j.h].st = "active"]
  <2>1. PICK ok \in BOOLEAN :
          /\ rows' = rs /\ tap' = RoutesWithout(H)
          /\ queue' = WithUnregisters(QueueWithout(H), H, rs)
          /\ Saves(rs, ok)
          /\ calls' = [c \in Callers |->
                  IF calls[c].at # "future" THEN calls[c]
                  ELSE IF c \in Waiting(H) THEN [calls[c] EXCEPT !.at = "raised"]
                  ELSE IF c = j.c THEN [calls[c] EXCEPT !.at = IF ok THEN "set" ELSE "raised"]
                  ELSE calls[c]]
    BY <1>3 DEF RegisterConfirmed
  <2>2. H \in SUBSET Handles
    BY DEF Others, RowsOf, Present
  <2>3. rs \in [Handles -> Row]
    <3>1. InDebt(H) \in [Handles -> Row]
      BY InDebtFacts, TypeParts DEF TableTyped
    <3>2. [InDebt(H)[j.h] EXCEPT !.st = "active"] \in Row
      BY <1>1, <3>1 DEF Row, Status
    <3>3. QED
      BY <3>1, <3>2
  <2> HIDE DEF rs, H
  <2>4. QueueWithout(H) \in Seq(Job)
    BY QueueWithoutType, TypeParts DEF TableTyped
  <2>5. queue' \in Seq(Job) /\ Len(queue') <= QueueSize
    BY <2>1, <2>2, <2>3, <2>4, WithUnregistersType
  <2>6. tap' \in [Handles -> 0 .. MaxWakes]
    BY <2>1, RoutesWithoutType, TypeParts DEF TableTyped
  <2>7. failed' \in BOOLEAN /\ disk' \in [Handles -> Row]
    BY <2>1, <2>3, SavesFacts, TypeParts DEF TableTyped
  <2>8. calls' \in [Callers -> CallType]
    <3>1. \A c \in Callers : calls[c] \in CallType
      BY TypeParts DEF TableTyped
    <3>2. \A c \in Callers, at \in {"set", "raised"} : [calls[c] EXCEPT !.at = at] \in CallType
      BY <3>1 DEF CallType
    <3>3. (IF ok THEN "set" ELSE "raised") \in {"set", "raised"}
      OBVIOUS
    <3>4. QED
      BY <2>1, <3>1, <3>2, <3>3
  <2>9. QED
    BY <1>2, <2>1, <2>3, <2>5, <2>6, <2>7, <2>8
<1>4. CASE RegisterRejected
  <2> DEFINE rs == InDebt({j.h})
  <2>1. PICK ok \in BOOLEAN :
          /\ rows' = rs /\ tap' = RoutesWithout({j.h})
          /\ Saves(rs, ok)
          /\ queue' = IF ok THEN WithUnregisters(queue, {j.h}, rs) ELSE queue
          /\ calls' = Answered({j.c}, "raised")
    BY <1>4 DEF RegisterRejected
  <2>2. rs \in [Handles -> Row]
    BY InDebtFacts, TypeParts DEF TableTyped
  <2> HIDE DEF rs
  <2>3. queue' \in Seq(Job) /\ Len(queue') <= QueueSize
    <3>1. {j.h} \in SUBSET Handles
      BY <1>1
    <3>2. queue \in Seq(Job) /\ Len(queue) <= QueueSize
      BY TypeParts DEF TableTyped
    <3>3. QED
      BY <2>1, <2>2, <3>1, <3>2, WithUnregistersType
  <2>4. tap' \in [Handles -> 0 .. MaxWakes]
    BY <2>1, RoutesWithoutType, TypeParts DEF TableTyped
  <2>5. failed' \in BOOLEAN /\ disk' \in [Handles -> Row]
    BY <2>1, <2>2, SavesFacts, TypeParts DEF TableTyped
  <2>6. calls' \in [Callers -> CallType]
    BY <2>1, AnsweredType, TypeParts DEF TableTyped
  <2>7. QED
    BY <1>2, <2>1, <2>2, <2>3, <2>4, <2>5, <2>6
<1>5. CASE RegisterMoot
  <2>1. Settle(http.job, Success) /\ Success \in BOOLEAN /\ UNCHANGED <<rows, queue, disk, failed>>
    BY <1>5 DEF RegisterMoot, Success
  <2>2. tap' \in [Handles -> 0 .. MaxWakes] /\ calls' \in [Callers -> CallType]
    BY <2>1, SettleType
  <2>3. QED
    BY <1>2, <2>1, <2>2, TypeParts DEF TableTyped
<1>6. QED
  BY <1>3, <1>4, <1>5 DEF RegisterOver

LEMMA TypeWakeOver == ASSUME TypeOK, WakeOver PROVE TypeOK'
<1>1. /\ Settle(http.job, Success) /\ Success \in BOOLEAN /\ http' = NoHttp
      /\ UNCHANGED <<rows, queue, failed, here, lock, auth, disk, remote, up, counters>>
  BY DEF WakeOver, Success
<1>2. tap' \in [Handles -> 0 .. MaxWakes] /\ calls' \in [Callers -> CallType]
  BY <1>1, SettleType
<1>3. QED
  BY <1>1, <1>2, TypeParts, TypePartsNext DEF TableTyped, counters

LEMMA LoadedFacts ==
    ASSUME NEW r \in Row, NEW b
    PROVE  /\ Loaded(r, b) \in Row /\ Loaded(r, b).dev = r.dev /\ Loaded(r, b).bind = r.bind
           /\ Loaded(r, b).st = "none" <=> r.st = "none"
           /\ Loaded(r, b).st = "active" => r.st = "active"
<1>1. [r EXCEPT !.st = "debt", !.gen = 1] \in Row /\ [r EXCEPT !.gen = 0] \in Row
  BY DEF Row, Status
<1>2. /\ [r EXCEPT !.st = "debt", !.gen = 1].dev = r.dev /\ [r EXCEPT !.gen = 0].dev = r.dev
      /\ [r EXCEPT !.st = "debt", !.gen = 1].bind = r.bind /\ [r EXCEPT !.gen = 0].bind = r.bind
      /\ [r EXCEPT !.st = "debt", !.gen = 1].st = "debt" /\ [r EXCEPT !.gen = 0].st = r.st
  BY DEF Row
<1>3. QED
  BY <1>1, <1>2 DEF Loaded

LEMMA TypeRestart == ASSUME TypeOK, Stop \/ Start PROVE TypeOK'
<1>1. CASE Stop
  <2>1. rows' \in [Handles -> Row] /\ tap' \in [Handles -> 0 .. MaxWakes]
    <3>1. NoRow \in Row /\ 0 \in 0 .. MaxWakes
      BY PushAssumption DEF NoRow, Row, Status, Modes
    <3>2. QED
      BY <1>1, <3>1 DEF Stop
  <2>2. calls' \in [Callers -> CallType]
    <3>1. \A c \in Callers : calls[c] \in CallType /\ [calls[c] EXCEPT !.at = "done"] \in CallType
      BY TypeParts DEF TableTyped, CallType
    <3>2. QED
      BY <1>1, <3>1 DEF Stop
  <2>3. queue' \in Seq(Job) /\ Len(queue') <= QueueSize /\ crashes' \in 0 .. MaxCrashes
    BY <1>1, TypeParts, PushAssumption DEF Stop
  <2>4. QED
    BY <1>1, <2>1, <2>2, <2>3, TypeParts, TypePartsNext DEF Stop, TableTyped
<1>2. CASE Start
  <2>0. PICK b \in Bindings :
          LET rs == [h \in Handles |-> Loaded(disk[h], b)]
          IN /\ up' = TRUE /\ here' = b /\ rows' = rs
             /\ \/ UNCHANGED <<disk, failed>>
                \/ Saves(rs, TRUE)
             /\ queue' = WithUnregisters(<<>>, Owed(rs, b), rs)
             /\ UNCHANGED <<http, tap, calls, lock, auth, remote, counters>>
    BY <1>2 DEF Start
  <2> DEFINE rs == [h \in Handles |-> Loaded(disk[h], b)]
             owed == Owed(rs, b)
  <2>1. rs \in [Handles -> Row]
    BY LoadedFacts, TypeParts DEF TableTyped
  <2>2. /\ up' = TRUE /\ rows' = rs /\ here' \in Bindings
        /\ disk' = rs \/ disk' = disk
        /\ failed' \in BOOLEAN
        /\ queue' = WithUnregisters(<<>>, owed, rs)
        /\ UNCHANGED <<http, tap, calls, lock, auth, remote, counters>>
    BY <2>0, TypeParts DEF Saves
  <2>3. owed \in SUBSET Handles /\ <<>> \in Seq(Job)
    BY DEF Owed
  <2> HIDE DEF rs, owed
  <2>4. queue' \in Seq(Job) /\ Len(queue') <= QueueSize
    BY <2>1, <2>2, <2>3, WithUnregistersType
  <2>5. QED
    BY <2>1, <2>2, <2>4, TypeParts, TypePartsNext DEF TableTyped, counters
<1>3. QED
  BY <1>1, <1>2

LEMMA TypeStep == TypeOK /\ [Next]_vars => TypeOK'
<1> SUFFICES ASSUME TypeOK, [Next]_vars PROVE TypeOK'
  OBVIOUS
<1>1. ASSUME UNCHANGED vars PROVE TypeOK'
  BY <1>1, TypeParts, TypePartsNext DEF vars, bridge, counters, TableTyped
<1>2. QED
  BY <1>1, TypeCalls, TypeRegisterAgain, TypeRegisterFresh, TypeRevoke, TypeWake, TypeTakeJob,
     TypeRequest, TypeUnregisterOver, TypeRegisterOver, TypeWakeOver, TypeRestart
     DEF Next, WorkerStep
-----------------------------------------------------------------------------
(* Tables and requests                                                     *)

\* What is kept besides types and a process that is down.
Agree == TablesInv /\ RequestInv /\ StartInv /\ RemoteIsKnown

\* Steps that leave the table alone and start nothing.
LEMMA CalmStep ==
    ASSUME Agree, UNCHANGED <<rows, disk, failed, here, made, up, remote, auth, givenUp>>,
           http' = http \/ http' = NoHttp
    PROVE  Agree'
<1>1. TablesInv' /\ RemoteIsKnown'
  BY DEF Agree, TablesInv, OneActive, RemoteIsKnown, Known
<1>2. RequestInv' /\ StartInv'
  <2>1. CASE http' = NoHttp
    BY <2>1 DEF RequestInv, StartInv
  <2>2. CASE http' = http
    BY <2>2 DEF Agree, RequestInv, StartInv, Startable
  <2>3. QED
    BY <2>1, <2>2
<1>3. QED
  BY <1>1, <1>2 DEF Agree

\* Steps that change the table and save it, or fail to.
LEMMA TableStep ==
    ASSUME Agree, TypeOK, TypeOK', up, up', remote' = remote,
           \A h \in Handles : rows[h].st # "none" => rows'[h].st # "none",
           \A h \in Handles : rows[h].st # "none" => rows'[h].bind = rows[h].bind,
           \A h \in Handles :
              rows'[h].st # "none" => rows[h].st # "none" \/ (made < h /\ h <= made'),
           http' # NoHttp => \A h \in Handles : rows'[h].st = "active" => rows[h].st = "active",
           made <= made', OneActive(rows'), here' = here,
           \E ok \in BOOLEAN : Saves(rows', ok),
           http' # NoHttp => http # NoHttp /\ http'.job = http.job /\ http'.at \in {http.at, "cancelled"}
    PROVE  TablesInv' /\ RequestInv' /\ RemoteIsKnown'
<1>1. disk' = rows' \/ disk' = disk
  BY SavesFacts, TypeParts
<1>2. ~failed' => ~failed /\ disk' = rows'
  BY SavesFacts, TypeParts
<1>3. made \in Int /\ made' \in Int /\ \A h \in Handles : h \in Int
  BY TypeParts, TypePartsNext DEF Handles
<1>4. \A h \in Handles : disk'[h].st # "none" => disk[h].st # "none" \/ rows'[h].st # "none"
  BY <1>1
<1>5. TablesInv'
  <2>1. \A h \in Handles : rows'[h].st # "none" \/ disk'[h].st # "none" => h <= made'
    BY <1>3, <1>4 DEF Agree, TablesInv
  <2>2. OneActive(disk')
    BY <1>1 DEF Agree, TablesInv
  <2>3. ~failed' => \A h \in Handles : rows'[h].st # "none" => disk'[h].st # "none"
    BY <1>2
  <2>4. \A h \in Handles :
            rows'[h].st # "none" /\ disk'[h].st # "none" => rows'[h].bind = disk'[h].bind
    <3>1. \A h \in Handles : rows[h].st = "none" /\ rows'[h].st # "none" => disk[h].st = "none"
      BY <1>3 DEF Agree, TablesInv
    <3>2. \A h \in Handles : rows[h].st # "none" /\ disk[h].st # "none" => rows'[h].bind = disk[h].bind
      BY DEF Agree, TablesInv
    <3>3. QED
      BY <1>1, <3>1, <3>2
  <2>5. QED
    BY <2>1, <2>2, <2>3, <2>4 DEF TablesInv, OneActive
<1>6. \A h \in Handles : rows[h].st # "none" /\ disk[h].st # "none" =>
          rows'[h].st # "none" /\ disk'[h].st # "none"
  BY <1>1
<1>7. RequestInv'
  <2> SUFFICES ASSUME http' # NoHttp
               PROVE  /\ http'.job.act = "register" =>
                            rows'[http'.job.h].st # "none" /\ disk'[http'.job.h].st # "none"
                      /\ http'.job.act = "unregister" /\ http'.at \in {"arrived", "ok"} =>
                            \A b \in Bindings : <<http'.job.h, b>> \notin remote'
                      /\ http'.job.act = "unregister" => rows'[http'.job.h].st # "active"
                      /\ http'.at \in {"flying", "arrived", "ok"} =>
                            rows'[http'.job.h].st # "none" /\ rows'[http'.job.h].bind = here'
    BY DEF RequestInv
  <2>1. http # NoHttp /\ http'.job = http.job /\ http'.at \in {http.at, "cancelled"}
    OBVIOUS
  <2>2. http.job.h \in Handles
    BY <2>1, HttpTyped DEF Job
  <2>3. QED
    BY <1>6, <2>1, <2>2 DEF Agree, RequestInv
<1>8. RemoteIsKnown'
  <2>1. \A h \in Handles, b \in Bindings : <<h, b>> \in remote =>
            /\ disk[h].st # "none" /\ disk[h].bind = b
            /\ rows[h].st # "none" /\ rows[h].bind = b
    BY DEF Agree, RemoteIsKnown, Known
  <2>2. \A h \in Handles, b \in Bindings : <<h, b>> \in remote =>
            /\ disk'[h].st # "none" /\ disk'[h].bind = b
            /\ rows'[h].st # "none" /\ rows'[h].bind = b
    BY <1>1, <2>1
  <2>3. QED
    BY <2>2 DEF RemoteIsKnown, Known
<1>9. QED
  BY <1>5, <1>7, <1>8

\* Rows that are owed do not become active.
LEMMA DebtsAreNotActive ==
    ASSUME TypeOK, OneActive(rows), NEW H
    PROVE  /\ OneActive(InDebt(H))
           /\ \A h \in Handles : rows[h].st # "none" => InDebt(H)[h].st # "none"
           /\ \A h \in Handles : InDebt(H)[h].bind = rows[h].bind
           /\ \A h \in Handles : InDebt(H)[h].st = "active" => rows[h].st = "active"
<1>1. rows \in [Handles -> Row]
  BY TypeParts DEF TableTyped
<1>2. \A h \in Handles : InDebt(H)[h].st = "active" =>
          rows[h].st = "active" /\ InDebt(H)[h].dev = rows[h].dev
  BY <1>1, InDebtFacts
<1>3. \A h \in Handles :
         /\ rows[h].st # "none" => InDebt(H)[h].st # "none"
         /\ InDebt(H)[h].bind = rows[h].bind
  BY <1>1, InDebtFacts
<1>4. QED
  BY <1>2, <1>3 DEF OneActive
\* Who runs while the process is up.
LEMMA RunningIsUp ==
    ASSUME TypeOK, DownInv
    PROVE  /\ http # NoHttp => up
           /\ \A c \in Callers : calls[c].at \in {"lock", "future", "set", "raised"} => up
BY DEF DownInv

LEMMA AgreeCalls ==
    ASSUME TypeOK, DownInv, Agree, NEW c \in Callers,
           \/ \E d \in Devices, mode \in Modes : Register(c, d, mode)
           \/ Returns(c) \/ CallCancelled(c)
    PROVE  Agree'
BY CalmStep DEF Register, Returns, CallCancelled, bridge, counters

LEMMA AgreeRegisterAgain ==
    ASSUME TypeOK, TypeOK', DownInv, Agree, NEW c \in Callers, RegisterAgain(c) PROVE Agree'
<1>1. PICK h \in SamePreview(calls[c].dev, calls[c].mode) :
        IF Len(queue) < QueueSize
        THEN /\ queue' = Append(queue, RegisterJob(c, h, rows[h].gen))
             /\ calls' = Awaiting(c, h)
             /\ lock' = c
             /\ UNCHANGED <<rows, tap, disk, failed, givenUp>>
        ELSE /\ IF rows[h].st = "pending"
                THEN /\ rows' = InDebt({h}) /\ tap' = RoutesWithout({h})
                     /\ givenUp' = givenUp \cup {h}
                     /\ \E ok \in BOOLEAN : Saves(rows', ok)
                ELSE UNCHANGED <<rows, tap, disk, failed, givenUp>>
             /\ calls' = Done(c)
             /\ UNCHANGED <<queue, lock>>
  BY DEF RegisterAgain
<1>2. UNCHANGED <<http, here, auth, remote, up, made>>
  BY DEF RegisterAgain
<1>3. CASE UNCHANGED <<rows, disk, failed, givenUp>>
  BY <1>2, <1>3, CalmStep
<1>4. CASE ~(Len(queue) < QueueSize) /\ rows[h].st = "pending"
  <2>1. /\ rows' = InDebt({h}) /\ givenUp' = givenUp \cup {h}
        /\ \E ok \in BOOLEAN : Saves(rows', ok)
    BY <1>1, <1>4
  <2>2. up
    BY RunningIsUp DEF RegisterAgain
  <2>3. /\ OneActive(rows') /\ \A g \in Handles : rows[g].st # "none" => rows'[g].st # "none"
        /\ \A g \in Handles : rows'[g].bind = rows[g].bind
        /\ \A g \in Handles : rows'[g].st = "active" => rows[g].st = "active"
    BY <2>1, DebtsAreNotActive DEF Agree, TablesInv
  <2>4. h \in Handles /\ rows \in [Handles -> Row]
    BY TypeParts DEF SamePreview, RowsOf, Present, TableTyped
  <2>5. \A g \in Handles : rows'[g].st # "none" => rows[g].st # "none"
    BY <1>4, <2>1, <2>4, InDebtFacts
  <2>6. made <= made'
    BY <1>2, TypeParts
  <2>7. TablesInv' /\ RequestInv' /\ RemoteIsKnown'
    BY <1>2, <2>1, <2>2, <2>3, <2>5, <2>6, TableStep
  <2>8. StartInv'
    <3> SUFFICES ASSUME http # NoHttp, http.at = "created", http.job.act # "unregister"
                 PROVE  Startable(http.job)'
      BY <1>2 DEF StartInv
    <3>1. Startable(http.job)
      BY DEF Agree, StartInv
    <3>2. http.job.h \in Handles /\ http.job.gen \in Nat
      BY HttpTyped DEF Job
    <3>3. rows'[http.job.h].dev = rows[http.job.h].dev
      BY <2>1, <2>4, <3>2, InDebtFacts
    <3>4. CASE http.job.h # h
      <4>1. rows'[http.job.h] = rows[http.job.h]
        BY <2>1, <2>4, <3>2, <3>4, InDebtFacts
      <4>2. QED
        BY <1>2, <2>1, <3>1, <4>1 DEF Startable
    <3>5. CASE http.job.h = h
      <4>1. http.job.act # "wake" /\ rows[h].gen = http.job.gen
        BY <1>4, <3>1, <3>5 DEF Startable
      <4>2. rows'[h].st = "debt" /\ rows'[h].gen = http.job.gen + 1
        BY <2>1, <2>4, <4>1, InDebtFacts
      <4>3. http.job.act = "register"
        BY <4>1, HttpTyped DEF Job
      <4>4. QED
        BY <1>2, <2>1, <3>1, <3>3, <3>5, <4>2, <4>3 DEF Startable
    <3>6. QED
      BY <3>4, <3>5
  <2>9. QED
    BY <2>7, <2>8 DEF Agree
<1>5. QED
  BY <1>1, <1>3, <1>4

LEMMA AgreeRegisterFresh ==
    ASSUME TypeOK, TypeOK', DownInv, Agree, NEW c \in Callers, RegisterFresh(c) PROVE Agree'
<1>1. CASE Len(queue) = QueueSize \/ Cardinality(Present) >= MaxRows
  BY <1>1, CalmStep DEF RegisterFresh
<1>2. CASE ~(Len(queue) = QueueSize \/ Cardinality(Present) >= MaxRows)
  <2>1. PICK h \in Handles, ok \in BOOLEAN :
            /\ h = made + 1 /\ made' = h
            /\ rows' = [rows EXCEPT ![h] = [st |-> "pending", dev |-> calls[c].dev,
                                            mode |-> calls[c].mode, gen |-> 0, bind |-> here]]
            /\ Saves(rows', ok)
    BY <1>2 DEF RegisterFresh
  <2>2. UNCHANGED <<http, here, auth, remote, up, givenUp>> /\ up
    BY RunningIsUp DEF RegisterFresh
  <2>3. rows \in [Handles -> Row] /\ made \in Nat
    BY TypeParts DEF TableTyped
  <2>4. rows'[h].st = "pending" /\ \A g \in Handles : g # h => rows'[g] = rows[g]
    BY <2>1, <2>3
  <2>5. OneActive(rows')
    BY <2>4 DEF OneActive, Agree, TablesInv
  <2>6. made <= made' /\ h <= made' /\ h \in Int
    BY <2>1, <2>3 DEF Handles
  <2>7. /\ \A g \in Handles : rows[g].st # "none" => rows'[g].st # "none"
        /\ \A g \in Handles : rows[g].st # "none" => rows'[g].bind = rows[g].bind
        /\ \A g \in Handles :
              rows'[g].st # "none" => rows[g].st # "none" \/ (made < g /\ g <= made')
        /\ \A g \in Handles : rows'[g].st = "active" => rows[g].st = "active"
    <3>1. rows[h].st = "none"
      BY <2>1, <2>3, <2>6 DEF Agree, TablesInv
    <3>2. QED
      BY <2>1, <2>3, <2>4, <2>6, <3>1
  <2>8. TablesInv' /\ RequestInv' /\ RemoteIsKnown'
    BY <2>1, <2>2, <2>5, <2>6, <2>7, TableStep
  <2>9. StartInv'
    <3> SUFFICES ASSUME http # NoHttp, http.at = "created", http.job.act # "unregister"
                 PROVE  Startable(http.job)'
      BY <2>2 DEF StartInv
    <3>1. Startable(http.job) /\ http.job.h \in Handles
      BY HttpTyped DEF Agree, StartInv, Job
    <3>2. rows[http.job.h].st # "none"
      BY <3>1 DEF Startable
    <3>3. http.job.h <= made /\ http.job.h \in Int
      BY <3>1, <3>2 DEF Agree, TablesInv, Handles
    <3>4. http.job.h # h
      BY <2>1, <2>3, <3>3
    <3>5. rows'[http.job.h] = rows[http.job.h]
      BY <2>4, <3>1, <3>4
    <3>6. QED
      BY <2>2, <3>1, <3>5 DEF Startable
  <2>10. QED
    BY <2>8, <2>9 DEF Agree
<1>3. QED
  BY <1>1, <1>2

LEMMA AgreeRevoke ==
    ASSUME TypeOK, TypeOK', DownInv, Agree, NEW d \in Devices, Revoke(d) PROVE Agree'
<1> DEFINE H == RowsOf(d)
<1>1. UNCHANGED <<here, remote, up, made, givenUp>> /\ up /\ auth \ {d} \subseteq auth'
  BY DEF Revoke
<1>2. \A h \in Handles : rows[h].st # "none" /\ h \notin H => rows[h].dev # d
  BY DEF RowsOf, Present
<1>3. CASE H = {}
  <2>1. UNCHANGED <<rows, disk, failed, http>>
    BY <1>3 DEF Revoke, RevokeRows, bridge
  <2>2. TablesInv' /\ RequestInv' /\ RemoteIsKnown'
    BY <1>1, <2>1 DEF Agree, TablesInv, OneActive, RequestInv, RemoteIsKnown, Known
  <2>3. StartInv'
    <3> SUFFICES ASSUME http # NoHttp, http.at = "created", http.job.act # "unregister"
                 PROVE  Startable(http.job)'
      BY <2>1 DEF StartInv
    <3>1. Startable(http.job) /\ http.job.h \in Handles
      BY HttpTyped DEF Agree, StartInv, Job
    <3>2. rows[http.job.h].dev # d
      BY <1>2, <1>3, <3>1 DEF Startable
    <3>3. QED
      BY <1>1, <2>1, <3>1, <3>2 DEF Startable
  <2>4. QED
    BY <2>2, <2>3 DEF Agree
<1>4. CASE H # {}
  <2>1. /\ rows' = InDebt(H) /\ http' = Cancelled(H)
        /\ \E ok \in BOOLEAN : Saves(rows', ok)
    BY <1>4 DEF Revoke, RevokeRows
  <2>2. rows \in [Handles -> Row] /\ http \in {NoHttp} \cup HttpType /\ made \in Nat
    BY TypeParts DEF TableTyped
  <2> HIDE DEF H
  <2>3. /\ OneActive(rows') /\ \A g \in Handles : rows[g].st # "none" => rows'[g].st # "none"
        /\ \A g \in Handles : rows'[g].bind = rows[g].bind
        /\ \A g \in Handles : rows'[g].st = "active" => rows[g].st = "active"
    BY <2>1, DebtsAreNotActive DEF Agree, TablesInv
  <2>4. \A g \in Handles : g \in H => rows[g].st # "none"
    BY DEF H, RowsOf, Present
  <2>5. \A g \in Handles : rows'[g].st # "none" => rows[g].st # "none"
    BY <2>1, <2>2, <2>4, InDebtFacts
  <2>6. http' # NoHttp => http # NoHttp /\ http'.job = http.job /\ http'.at \in {http.at, "cancelled"}
    BY <2>1, <2>2, CancelledFacts
  <2>7. TablesInv' /\ RequestInv' /\ RemoteIsKnown'
    BY <1>1, <2>1, <2>2, <2>3, <2>5, <2>6, TableStep
  <2>8. StartInv'
    <3> SUFFICES ASSUME http' # NoHttp, http'.at = "created", http'.job.act # "unregister"
                 PROVE  Startable(http.job)'
      BY DEF StartInv
    <3>1. http # NoHttp /\ http'.job = http.job /\ http.at = "created"
      BY <2>6
    <3>2. Startable(http.job) /\ http.job.h \in Handles
      BY <3>1, HttpTyped DEF Agree, StartInv, Job
    <3>3. http.job.h \notin H
      BY <2>1, <2>2, <3>1, CancelledFacts
    <3>4. rows'[http.job.h] = rows[http.job.h]
      BY <2>1, <2>2, <3>2, <3>3, InDebtFacts
    <3>5. rows[http.job.h].dev # d
      BY <1>2, <3>2, <3>3 DEF Startable
    <3>6. QED
      BY <1>1, <3>1, <3>2, <3>4, <3>5 DEF Startable
  <2>9. QED
    BY <2>7, <2>8 DEF Agree
<1>5. QED
  BY <1>3, <1>4
LEMMA AgreeTakeJob == ASSUME TypeOK, TypeOK', Agree, TakeJob PROVE Agree'
<1> DEFINE j == Head(queue)
<1>1. UNCHANGED <<rows, failed, here, auth, disk, remote, up, made, givenUp>> /\ http = NoHttp /\ up
  BY DEF TakeJob, counters
<1>2. CASE ~Worthwhile(j)
  BY <1>1, <1>2, CalmStep DEF TakeJob
<1>3. CASE Worthwhile(j)
  <2>1. http' = [at |-> "created", job |-> j] /\ http'.job = j /\ http'.at = "created"
    BY <1>3 DEF TakeJob
  <2>2. j \in Job /\ j.h \in Handles
    <3>1. queue \in Seq(Job) /\ queue # <<>>
      BY TypeParts DEF TakeJob, TableTyped
    <3>2. j \in Job
      BY <3>1, HeadTailProperties
    <3> HIDE DEF j
    <3>3. QED
      BY <3>2 DEF Job
  <2> HIDE DEF j
  <2>3. rows[j.h].st # "none" /\ rows[j.h].gen = j.gen
    BY <1>3 DEF Worthwhile
  <2>4. /\ j.act = "register" =>
              rows[j.h].st \in {"active", "pending"} /\ ~failed /\ rows[j.h].dev \in auth
        /\ j.act = "unregister" => rows[j.h].st = "debt"
    BY <1>3 DEF Worthwhile, ValidScope, Authorized
  <2>5. j.act = "wake" => rows[j.h].st = "active" /\ rows[j.h].dev \in auth
    BY <1>3 DEF Worthwhile, Valid, ValidScope, Authorized
  <2>6. TablesInv' /\ RemoteIsKnown'
    BY <1>1 DEF Agree, TablesInv, OneActive, RemoteIsKnown, Known
  <2>7. RequestInv'
    <3>1. j.act = "register" => disk[j.h].st # "none"
      BY <1>1, <2>2, <2>3, <2>4 DEF Agree, TablesInv
    <3>2. QED
      BY <1>1, <2>1, <2>3, <2>4, <3>1 DEF RequestInv
  <2>8. StartInv'
    <3>1. j.act # "unregister" => j.act = "register" \/ j.act = "wake"
      BY <2>2 DEF Job
    <3>2. QED
      BY <1>1, <2>1, <2>3, <2>4, <2>5, <3>1 DEF StartInv, Startable
  <2>9. QED
    BY <2>6, <2>7, <2>8 DEF Agree
<1>4. QED
  BY <1>2, <1>3

LEMMA AgreeWake ==
    ASSUME Agree, NEW h \in Handles, Wake(h) \/ TapOrExpiry(h) PROVE Agree'
BY CalmStep DEF Wake, TapOrExpiry, counters

LEMMA AgreeRequest ==
    ASSUME TypeOK, Agree, IdleSweep \/ PostBegins \/ Arrives \/ PostSucceeds \/ PostFails PROVE Agree'
<1>1. CASE IdleSweep
  BY <1>1, CalmStep DEF IdleSweep, counters
<1>2. CASE PostBegins \/ Arrives \/ PostSucceeds \/ PostFails
  <2>1. /\ UNCHANGED <<rows, failed, here, auth, disk, up, made, givenUp>>
        /\ http.at \in HttpPhase
    BY <1>2 DEF PostBegins, Arrives, PostSucceeds, PostFails, HttpPhase, counters
  <2>2. http # NoHttp /\ http \in HttpType /\ http.job \in Job /\ http.job.h \in Handles
    BY <2>1, HttpTyped DEF Job
  <2>3. PICK at \in {"flying", "arrived", "ok", "err"} : http' = [http EXCEPT !.at = at]
    BY <1>2 DEF PostBegins, Arrives, PostSucceeds, PostFails
  <2>4. http'.at = at /\ http'.job = http.job
    BY <2>2, <2>3 DEF HttpType
  <2>5. StartInv'
    BY <2>4 DEF StartInv
  <2>6. TablesInv'
    BY <2>1 DEF Agree, TablesInv, OneActive
  <2>7. CASE Arrives
    <3>1. /\ http.job.act = "register" => remote' = remote \cup {<<http.job.h, here>>}
          /\ http.job.act = "unregister" => remote' = remote \ {<<http.job.h, here>>}
          /\ http.job.act = "wake" => remote' = remote
          /\ http.at = "flying"
      BY <2>7 DEF Arrives
    <3>2. http.job.act \in {"register", "unregister", "wake"}
      BY <2>2 DEF Job
    <3>3. rows[http.job.h].st # "none" /\ rows[http.job.h].bind = here
      BY <2>2, <3>1 DEF Agree, RequestInv
    <3>4. RequestInv'
      <4>1. http.job.act = "unregister" =>
                \A b \in Bindings : <<http.job.h, b>> \notin remote'
        <5>1. \A b \in Bindings : <<http.job.h, b>> \in remote => b = here
          BY <2>2, <3>3 DEF Agree, RemoteIsKnown, Known, TablesInv
        <5>2. QED
          BY <3>1, <5>1
      <4>2. QED
        BY <2>1, <2>2, <2>4, <3>3, <4>1 DEF Agree, RequestInv
    <3>5. RemoteIsKnown'
      <4>1. \A h \in Handles, b \in Bindings : <<h, b>> \in remote' =>
                \/ <<h, b>> \in remote
                \/ http.job.act = "register" /\ h = http.job.h /\ b = here
        BY <3>1, <3>2
      <4>2. http.job.act = "register" =>
                disk[http.job.h].st # "none" /\ disk[http.job.h].bind = here
        BY <2>2, <3>3 DEF Agree, RequestInv, TablesInv
      <4>3. QED
        BY <2>1, <3>3, <4>1, <4>2 DEF Agree, RemoteIsKnown, Known
    <3>6. QED
      BY <2>5, <2>6, <3>4, <3>5 DEF Agree
  <2>8. CASE PostBegins \/ PostSucceeds \/ PostFails
    <3>1. /\ remote' = remote /\ (at = "ok" => http.at = "arrived") /\ at # "arrived"
          /\ at = "flying" => rows[http.job.h].st # "none" /\ rows[http.job.h].bind = here
      <4>1. /\ PostBegins => /\ remote' = remote /\ http'.at \in {"flying", "err"}
                             /\ http'.at = "flying" =>
                                   rows[http.job.h].st # "none" /\ rows[http.job.h].bind = here
            /\ PostFails => remote' = remote /\ http'.at = "err"
            /\ PostSucceeds => remote' = remote /\ http'.at = "ok" /\ http.at = "arrived"
        BY <2>2 DEF PostBegins, PostSucceeds, PostFails, HttpType, Bound, Present
      <4>2. QED
        BY <2>4, <2>8, <4>1
    <3>2. RequestInv'
      BY <2>1, <2>2, <2>4, <3>1 DEF Agree, RequestInv
    <3>3. RemoteIsKnown'
      BY <2>1, <3>1 DEF Agree, RemoteIsKnown, Known
    <3>4. QED
      BY <2>5, <2>6, <3>2, <3>3 DEF Agree
  <2>9. QED
    BY <1>2, <2>7, <2>8
<1>3. QED
  BY <1>1, <1>2

LEMMA AgreeUnregisterOver ==
    ASSUME TypeOK, TypeOK', DownInv, Agree, UnregisterOver PROVE Agree'
<1>1. http' = NoHttp /\ UNCHANGED <<here, auth, remote, up, made, givenUp>>
  BY DEF UnregisterOver, counters
<1>2. CASE ~(Success /\ Current)
  BY <1>1, <1>2, CalmStep DEF UnregisterOver
<1>3. CASE Success /\ Current
  <2> DEFINE h == http.job.h
  <2>1. PICK ok \in BOOLEAN : rows' = [rows EXCEPT ![h] = NoRow] /\ Saves(rows', ok)
    BY <1>3 DEF UnregisterOver
  <2>2. http # NoHttp /\ http.at = "ok" /\ http.job.act = "unregister" /\ h \in Handles /\ up
    BY <1>3, HttpTyped, RunningIsUp DEF Success, HttpPhase, UnregisterOver, Job
  <2>3. \A b \in Bindings : <<h, b>> \notin remote
    BY <2>2 DEF Agree, RequestInv
  <2> HIDE DEF h
  <2>4. rows \in [Handles -> Row] /\ rows'[h] = NoRow /\ \A g \in Handles : g # h => rows'[g] = rows[g]
    BY <2>1, <2>2, TypeParts DEF TableTyped
  <2>5. /\ disk' = rows' \/ disk' = disk
        /\ ~failed' => ~failed /\ disk' = rows'
    BY <2>1, SavesFacts, TypeParts
  <2>6. OneActive(rows') /\ OneActive(disk')
    <3>1. OneActive(rows')
      BY <2>4 DEF OneActive, Agree, TablesInv, NoRow
    <3>2. QED
      BY <2>5, <3>1 DEF Agree, TablesInv
  <2>7. TablesInv'
    <3>1. \A g \in Handles : rows'[g].st # "none" \/ disk'[g].st # "none" => g <= made'
      BY <1>1, <2>4, <2>5 DEF Agree, TablesInv, NoRow
    <3>2. \A g \in Handles :
              rows'[g].st # "none" /\ disk'[g].st # "none" => rows'[g].bind = disk'[g].bind
      BY <2>4, <2>5 DEF Agree, TablesInv, NoRow
    <3>3. QED
      BY <2>5, <2>6, <3>1, <3>2 DEF TablesInv, OneActive
  <2>8. RemoteIsKnown'
    <3>1. \A g \in Handles, b \in Bindings : <<g, b>> \in remote =>
              g # h /\ disk[g].st # "none" /\ disk[g].bind = b /\ rows[g].st # "none" /\ rows[g].bind = b
      BY <2>2, <2>3 DEF Agree, RemoteIsKnown, Known
    <3>2. QED
      BY <1>1, <2>4, <2>5, <3>1 DEF RemoteIsKnown, Known
  <2>9. RequestInv' /\ StartInv'
    BY <1>1 DEF RequestInv, StartInv
  <2>10. QED
    BY <2>7, <2>8, <2>9 DEF Agree
<1>4. QED
  BY <1>2, <1>3

LEMMA AgreeRegisterOver ==
    ASSUME TypeOK, TypeOK', DownInv, Agree, RegisterOver PROVE Agree'
<1> DEFINE j == http.job
           H == Others(j.h)
<1>1. /\ http' = NoHttp /\ UNCHANGED <<here, lock, auth, remote, up, made, givenUp>>
      /\ j.h \in Handles /\ up
  BY HttpTyped, RunningIsUp DEF RegisterOver, Over, HttpPhase, Job, counters
<1>2. rows \in [Handles -> Row] /\ made \in Nat
  BY TypeParts DEF TableTyped
<1>3. RequestInv' /\ StartInv'
  BY <1>1 DEF RequestInv, StartInv
<1>4. CASE RegisterConfirmed
  <2> DEFINE rs == [InDebt(H) EXCEPT ![j.h].st = "active"]
  <2>1. rows' = rs /\ (\E ok \in BOOLEAN : Saves(rows', ok)) /\ rows[j.h].st # "none"
    BY <1>4 DEF RegisterConfirmed
  <2>2. InDebt(H) \in [Handles -> Row]
    BY <1>2, InDebtFacts
  <2>3. \A g \in Handles : g # j.h /\ rows[g].st # "none" /\ rows[g].dev = rows[j.h].dev => g \in H
    BY DEF Others, RowsOf, Present
  <2>4. j.h \notin H /\ \A g \in Handles : g \in H => rows[g].st # "none"
    BY DEF Others, RowsOf, Present
  <2> HIDE DEF H
  <2>5. /\ rs[j.h].st = "active" /\ rs[j.h].dev = rows[j.h].dev
        /\ \A g \in Handles : g # j.h => rs[g] = InDebt(H)[g]
    <3>1. InDebt(H)[j.h] = rows[j.h] /\ InDebt(H)[j.h] \in Row
      BY <1>1, <1>2, <2>2, <2>4, InDebtFacts
    <3>2. QED
      BY <1>1, <2>2, <3>1 DEF Row
  <2> HIDE DEF rs
  <2>6. \A g \in Handles : g # j.h /\ rs[g].st = "active" =>
            g \notin H /\ rs[g] = rows[g] /\ rs[g].dev # rs[j.h].dev
    BY <1>1, <1>2, <2>3, <2>5, InDebtFacts
  <2>7. OneActive(rs)
    BY <2>6 DEF OneActive, Agree, TablesInv
  <2>8. \A g \in Handles : rs[g].st # "none" => rows[g].st # "none"
    BY <1>2, <2>1, <2>4, <2>5, InDebtFacts
  <2>9. \A g \in Handles : rows[g].st # "none" => rs[g].st # "none" /\ rs[g].bind = rows[g].bind
    <3>1. rs[j.h].bind = rows[j.h].bind
      BY <1>1, <1>2, <2>2, <2>4, InDebtFacts DEF rs, Row
    <3>2. QED
      BY <1>2, <2>5, <3>1, InDebtFacts
  <2>10. QED
    BY <1>1, <1>2, <1>3, <2>1, <2>7, <2>8, <2>9, TableStep DEF Agree
<1>5. CASE RegisterRejected
  <2>1. /\ rows' = InDebt({j.h}) /\ (\E ok \in BOOLEAN : Saves(rows', ok)) /\ rows[j.h].st # "none"
    BY <1>5 DEF RegisterRejected
  <2>2. /\ OneActive(rows') /\ \A g \in Handles : rows[g].st # "none" => rows'[g].st # "none"
        /\ \A g \in Handles : rows'[g].bind = rows[g].bind
    BY <2>1, DebtsAreNotActive DEF Agree, TablesInv
  <2>3. \A g \in Handles : rows'[g].st # "none" => rows[g].st # "none"
    BY <1>2, <2>1, InDebtFacts
  <2>4. made <= made' /\ up /\ up' /\ remote' = remote /\ http' = NoHttp /\ here' = here
    BY <1>1, <1>2
  <2>5. \A g \in Handles :
            rows'[g].st # "none" => rows[g].st # "none" \/ (made < g /\ g <= made')
    BY <2>3
  <2>6. TablesInv' /\ RequestInv' /\ RemoteIsKnown'
    BY <2>1, <2>2, <2>4, <2>5, TableStep
  <2>7. QED
    BY <1>3, <2>6 DEF Agree
<1>6. CASE RegisterMoot
  BY <1>1, <1>6, CalmStep DEF RegisterMoot
<1>7. QED
  BY <1>4, <1>5, <1>6 DEF RegisterOver

LEMMA AgreeWakeOver == ASSUME Agree, WakeOver PROVE Agree'
BY CalmStep DEF WakeOver, counters

LEMMA AgreeRestart ==
    ASSUME TypeOK, DownInv, Agree, Stop \/ Start PROVE Agree'
<1>1. CASE Stop
  <2>1. /\ rows' = [h \in Handles |-> NoRow] /\ ~up' /\ http' = NoHttp
        /\ UNCHANGED <<disk, remote, made>>
    BY <1>1 DEF Stop
  <2>2. TablesInv'
    <3>1. \A h \in Handles : rows'[h].st = "none"
      BY <2>1 DEF NoRow
    <3>2. QED
      BY <2>1, <3>1 DEF Agree, TablesInv, OneActive
  <2>3. RemoteIsKnown' /\ RequestInv' /\ StartInv'
    BY <2>1 DEF Agree, RemoteIsKnown, Known, RequestInv, StartInv
  <2>4. QED
    BY <2>2, <2>3 DEF Agree
<1>2. CASE Start
  <2>0. PICK b \in Bindings :
          LET rs == [h \in Handles |-> Loaded(disk[h], b)]
          IN /\ ~up /\ up' = TRUE /\ rows' = rs
             /\ disk' = rs \/ (disk' = disk /\ \A h \in Handles : rs[h].st = disk[h].st)
             /\ UNCHANGED <<http, remote, made>>
    BY <1>2 DEF Start, Saves, counters
  <2> DEFINE rs == [h \in Handles |-> Loaded(disk[h], b)]
  <2>1. /\ ~up /\ up' = TRUE /\ rows' = rs
        /\ disk' = rs \/ (disk' = disk /\ \A h \in Handles : rs[h].st = disk[h].st)
        /\ UNCHANGED <<http, remote, made>>
    BY <2>0
  <2>2. http = NoHttp
    BY <2>1 DEF DownInv
  <2>3. disk \in [Handles -> Row]
    BY TypeParts DEF TableTyped
  <2>4. \A h \in Handles :
            /\ rs[h].dev = disk[h].dev /\ rs[h].bind = disk[h].bind
            /\ rs[h].st = "none" <=> disk[h].st = "none"
            /\ rs[h].st = "active" => disk[h].st = "active"
    BY <2>3, LoadedFacts
  <2> HIDE DEF rs
  <2>5. OneActive(rs)
    BY <2>4 DEF OneActive, Agree, TablesInv
  <2>6. TablesInv'
    <3>1. OneActive(disk') /\ OneActive(rows')
      BY <2>1, <2>5 DEF Agree, TablesInv
    <3>2. \A h \in Handles : rows'[h].st # "none" \/ disk'[h].st # "none" => h <= made'
      BY <2>1, <2>4 DEF Agree, TablesInv
    <3>3. \A h \in Handles : rows'[h].st # "none" => disk'[h].st # "none"
      BY <2>1, <2>4
    <3>4. \A h \in Handles : rows'[h].bind = disk'[h].bind
      BY <2>1, <2>4
    <3>5. QED
      BY <3>1, <3>2, <3>3, <3>4 DEF TablesInv, OneActive
  <2>7. RemoteIsKnown'
    BY <2>1, <2>4 DEF Agree, RemoteIsKnown, Known
  <2>8. RequestInv' /\ StartInv'
    BY <2>1, <2>2 DEF RequestInv, StartInv
  <2>9. QED
    BY <2>6, <2>7, <2>8 DEF Agree
<1>3. QED
  BY <1>1, <1>2

LEMMA AgreeStep ==
    ASSUME TypeOK, TypeOK', DownInv, Agree, [Next]_vars PROVE Agree'
<1>1. CASE UNCHANGED vars
  BY <1>1, CalmStep DEF vars, bridge, counters
<1>2. QED
  BY <1>1, AgreeCalls, AgreeRegisterAgain, AgreeRegisterFresh, AgreeRevoke, AgreeWake,
     AgreeTakeJob, AgreeRequest, AgreeUnregisterOver, AgreeRegisterOver, AgreeWakeOver,
     AgreeRestart DEF Next, WorkerStep

\* Only a stop and a start change whether the process runs.
LEMMA UpStays == ASSUME [Next]_vars, ~Stop, ~Start PROVE up' = up
<1>1. CASE UNCHANGED vars
  BY <1>1 DEF vars
<1>2. ASSUME NEW c \in Callers,
             \/ \E d \in Devices, mode \in Modes : Register(c, d, mode)
             \/ RegisterAgain(c) \/ RegisterFresh(c) \/ Returns(c) \/ CallCancelled(c)
      PROVE  up' = up
  BY <1>2 DEF Register, RegisterAgain, RegisterFresh, Returns, CallCancelled
<1>3. ASSUME NEW d \in Devices, Revoke(d) PROVE up' = up
  BY <1>3 DEF Revoke
<1>4. ASSUME NEW h \in Handles, Wake(h) \/ TapOrExpiry(h) PROVE up' = up
  BY <1>4 DEF Wake, TapOrExpiry
<1>5. TakeJob \/ IdleSweep \/ PostBegins \/ PostFails \/ Arrives \/ PostSucceeds => up' = up
  BY DEF TakeJob, IdleSweep, PostBegins, PostFails, Arrives, PostSucceeds
<1>6. UnregisterOver \/ RegisterOver \/ WakeOver => up' = up
  BY DEF UnregisterOver, RegisterOver, WakeOver
<1>7. QED
  BY <1>1, <1>2, <1>3, <1>4, <1>5, <1>6 DEF Next, WorkerStep

\* A process that is down takes no step but a start.
LEMMA DownStep == ASSUME TypeOK, DownInv, [Next]_vars PROVE DownInv'
<1>1. CASE up'
  BY <1>1 DEF DownInv
<1>2. CASE Stop
  <2>1. /\ http' = NoHttp /\ queue' = <<>> /\ tap' = [h \in Handles |-> 0]
        /\ calls' = [c \in Callers |-> IF calls[c].at = "idle" THEN calls[c]
                                       ELSE [calls[c] EXCEPT !.at = "done"]]
    BY <1>2 DEF Stop
  <2>2. \A c \in Callers : calls'[c].at \in {"idle", "done"}
    <3>1. \A c \in Callers : calls[c] \in CallType
      BY TypeParts DEF TableTyped
    <3>2. QED
      BY <2>1, <3>1 DEF CallType
  <2>3. QED
    BY <2>1, <2>2 DEF DownInv
<1>3. CASE ~up' /\ ~Stop
  <2>1. ~Start
    BY <1>3 DEF Start
  <2>2. up \/ UNCHANGED vars
    <3> SUFFICES ASSUME ~up, ~UNCHANGED vars PROVE FALSE
      OBVIOUS
    <3>1. /\ http.at = "idle" /\ \A c \in Callers : calls[c].at \in {"idle", "done"}
          /\ \A d \in Devices : ~Authorized(d)
      BY DEF DownInv, NoHttp, Authorized
    <3>2. ASSUME NEW c \in Callers
          PROVE  /\ \A d \in Devices, mode \in Modes : ~Register(c, d, mode)
                 /\ ~RegisterAgain(c) /\ ~RegisterFresh(c) /\ ~Returns(c) /\ ~CallCancelled(c)
      BY <3>1 DEF Register, RegisterAgain, RegisterFresh, Returns, CallCancelled
    <3>3. (\A d \in Devices : ~Revoke(d)) /\ \A h \in Handles : ~Wake(h) /\ ~TapOrExpiry(h)
      BY DEF Revoke, Wake, TapOrExpiry, DownInv, Valid, ValidScope, Authorized
    <3>4. ~TakeJob /\ ~IdleSweep /\ ~PostBegins /\ ~PostFails /\ ~Arrives /\ ~PostSucceeds
      BY <3>1 DEF TakeJob, IdleSweep, PostBegins, PostFails, Arrives, PostSucceeds
    <3>5. ~UnregisterOver /\ ~RegisterOver /\ ~WakeOver
      BY <3>1 DEF UnregisterOver, RegisterOver, WakeOver, Over
    <3>6. QED
      BY <1>3, <2>1, <3>2, <3>3, <3>4, <3>5 DEF Next, WorkerStep
  <2>3. CASE UNCHANGED vars
    BY <2>3 DEF DownInv, vars, bridge
  <2>4. up' = up
    BY <1>3, <2>1, UpStays
  <2>5. QED
    BY <1>3, <2>2, <2>3, <2>4
<1>4. QED
  BY <1>1, <1>2, <1>3

\* A route ends with its row: whatever makes a row owed or takes it clears both.
LEMMA TapStep ==
    ASSUME TypeOK, DownInv, Agree, TapsAreLive, [Next]_vars PROVE TapsAreLive'
<1>0. rows \in [Handles -> Row] /\ tap \in [Handles -> 0 .. MaxWakes] /\ made \in Nat
  BY TypeParts DEF TableTyped
<1>1. ASSUME UNCHANGED rows, \A h \in Handles : tap'[h] = tap[h] \/ tap'[h] = 0
      PROVE  TapsAreLive'
  BY <1>1 DEF TapsAreLive
<1>2. ASSUME NEW H, \A h \in Handles : h \notin H => rows'[h].st = rows[h].st \/ rows'[h].st = "active",
             tap' = RoutesWithout(H)
      PROVE  TapsAreLive'
  BY <1>2 DEF TapsAreLive, RoutesWithout
<1>3. ASSUME NEW j, NEW success, Settle(j, success), UNCHANGED rows PROVE TapsAreLive'
  <2>1. \A h \in Handles : tap'[h] = tap[h] \/ tap'[h] = 0
    BY <1>0, <1>3 DEF Settle
  <2>2. QED
    BY <1>1, <1>3, <2>1
<1>4. ASSUME NEW c \in Callers,
             \/ \E d \in Devices, mode \in Modes : Register(c, d, mode)
             \/ Returns(c) \/ CallCancelled(c)
      PROVE  TapsAreLive'
  BY <1>1, <1>4 DEF Register, Returns, CallCancelled, bridge
<1>5. ASSUME NEW c \in Callers, RegisterAgain(c) PROVE TapsAreLive'
  <2>1. \/ UNCHANGED <<rows, tap>>
        \/ \E h \in Handles : rows' = InDebt({h}) /\ tap' = RoutesWithout({h})
    BY <1>5 DEF RegisterAgain, SamePreview, RowsOf, Present
  <2>2. ASSUME NEW h \in Handles, rows' = InDebt({h}), tap' = RoutesWithout({h})
        PROVE  TapsAreLive'
    <3>1. \A g \in Handles : g \notin {h} => rows'[g] = rows[g]
      BY <1>0, <2>2, InDebtFacts
    <3>2. QED
      BY <1>2, <2>2, <3>1
  <2>3. QED
    BY <1>1, <2>1, <2>2
<1>6. ASSUME NEW c \in Callers, RegisterFresh(c) PROVE TapsAreLive'
  <2>1. CASE UNCHANGED rows
    BY <1>1, <1>6, <2>1 DEF RegisterFresh
  <2>2. CASE ~UNCHANGED rows
    <3>1. PICK h \in Handles : h = made + 1 /\ \A g \in Handles : g # h => rows'[g] = rows[g]
      BY <1>0, <1>6, <2>2 DEF RegisterFresh
    <3>2. rows[h].st = "none"
      BY <1>0, <3>1 DEF Agree, TablesInv, Handles
    <3>3. tap' = tap
      BY <1>6 DEF RegisterFresh
    <3>4. QED
      BY <3>1, <3>2, <3>3 DEF TapsAreLive
  <2>3. QED
    BY <2>1, <2>2
<1>7. ASSUME NEW d \in Devices, Revoke(d) PROVE TapsAreLive'
  <2>1. \/ UNCHANGED <<rows, tap>>
        \/ rows' = InDebt(RowsOf(d)) /\ tap' = RoutesWithout(RowsOf(d))
    BY <1>7 DEF Revoke, RevokeRows
  <2>2. QED
    BY <1>0, <1>1, <1>2, <2>1, InDebtFacts
<1>8. ASSUME NEW h \in Handles, Wake(h) \/ TapOrExpiry(h) PROVE TapsAreLive'
  BY <1>0, <1>8 DEF Wake, TapOrExpiry, Valid, TapsAreLive
<1>9. ASSUME TakeJob PROVE TapsAreLive'
  BY <1>1, <1>3, <1>9 DEF TakeJob
<1>10. ASSUME IdleSweep \/ PostBegins \/ Arrives \/ PostSucceeds \/ PostFails PROVE TapsAreLive'
  BY <1>1, <1>10 DEF IdleSweep, PostBegins, Arrives, PostSucceeds, PostFails
<1>11. ASSUME UnregisterOver PROVE TapsAreLive'
  <2>1. http # NoHttp /\ http.job.h \in Handles
    BY <1>11, HttpTyped DEF UnregisterOver, Over, HttpPhase, Job
  <2>2. rows[http.job.h].st # "active"
    BY <1>11, <2>1 DEF Agree, RequestInv, UnregisterOver
  <2>3. tap[http.job.h] = 0 /\ tap' = tap
    BY <1>11, <2>1, <2>2 DEF TapsAreLive, UnregisterOver
  <2>4. \A h \in Handles : h # http.job.h => rows'[h] = rows[h]
    BY <1>0, <1>11 DEF UnregisterOver
  <2>5. QED
    BY <2>3, <2>4 DEF TapsAreLive
<1>12. ASSUME RegisterOver PROVE TapsAreLive'
  <2>1. CASE RegisterConfirmed
    <3> DEFINE H == Others(http.job.h)
    <3>1. rows' = [InDebt(H) EXCEPT ![http.job.h].st = "active"] /\ tap' = RoutesWithout(H)
      BY <2>1 DEF RegisterConfirmed
    <3> HIDE DEF H
    <3>2. InDebt(H) \in [Handles -> Row]
      BY <1>0, InDebtFacts
    <3>3. \A h \in Handles : h \notin H => rows'[h].st = rows[h].st \/ rows'[h].st = "active"
      <4> TAKE h \in Handles
      <4>1. InDebt(H)[h] \in Row /\ (h \notin H => InDebt(H)[h] = rows[h])
        BY <1>0, <3>2, InDebtFacts
      <4>2. rows'[h].st = "active" \/ rows'[h] = InDebt(H)[h]
        BY <3>1, <3>2, <4>1 DEF Row
      <4>3. QED
        BY <4>1, <4>2
    <3>4. QED
      BY <1>2, <3>1, <3>3
  <2>2. CASE RegisterRejected
    BY <1>0, <1>2, <2>2, InDebtFacts DEF RegisterRejected
  <2>3. CASE RegisterMoot
    BY <1>3, <2>3 DEF RegisterMoot
  <2>4. QED
    BY <1>12, <2>1, <2>2, <2>3 DEF RegisterOver
<1>13. ASSUME WakeOver PROVE TapsAreLive'
  BY <1>3, <1>13 DEF WakeOver
<1>14. ASSUME Stop \/ Start PROVE TapsAreLive'
  <2>1. \A h \in Handles : tap'[h] = 0
    BY <1>14 DEF Stop, Start, DownInv
  <2>2. QED
    BY <2>1 DEF TapsAreLive
<1>15. ASSUME UNCHANGED vars PROVE TapsAreLive'
  BY <1>1, <1>15 DEF vars, bridge
<1>16. QED
  BY <1>4, <1>5, <1>6, <1>7, <1>8, <1>9, <1>10, <1>11, <1>12, <1>13, <1>14, <1>15
     DEF Next, WorkerStep

LEMMA PushInit == Init => PushInv
<1> SUFFICES ASSUME Init PROVE PushInv
  OBVIOUS
<1>1. \A h \in Handles : rows[h].st = "none" /\ disk[h].st = "none" /\ tap[h] = 0
  BY DEF Init, NoRow
<1>2. up /\ http = NoHttp /\ remote = {}
  BY DEF Init
<1>3. QED
  BY <1>1, <1>2, TypeInit DEF PushInv, DownInv, TablesInv, OneActive, RequestInv, StartInv,
     RemoteIsKnown, TapsAreLive

LEMMA PushStep == PushInv /\ [Next]_vars => PushInv'
<1> SUFFICES ASSUME PushInv, [Next]_vars PROVE PushInv'
  OBVIOUS
<1>1. TypeOK /\ DownInv /\ Agree
  BY DEF PushInv, Agree
<1>2. TypeOK'
  BY <1>1, TypeStep
<1>3. QED
  BY <1>1, <1>2, AgreeStep, DownStep, TapStep DEF PushInv, Agree

LEMMA PushInvariant == Spec => []PushInv
BY PushInit, PushStep, PTL DEF Spec

\* One active row is a set of at most one.
LEMMA OneActiveCounts ==
    ASSUME OneActive(rows) PROVE OneActiveRow
<1> SUFFICES ASSUME NEW d \in Devices
             PROVE  Cardinality({h \in RowsOf(d) : rows[h].st = "active"}) <= 1
  BY DEF OneActiveRow
<1> DEFINE S == {h \in RowsOf(d) : rows[h].st = "active"}
<1>1. \A g, h \in S : g = h
  BY DEF OneActive, RowsOf, Present
<1> HIDE DEF S
<1>2. CASE S = {}
  BY <1>2, FS_EmptySet DEF S
<1>3. CASE \E g \in S : TRUE
  <2>1. PICK g \in S : TRUE
    BY <1>3
  <2>2. S = {g}
    BY <1>1, <2>1
  <2>3. Cardinality(S) = 1
    BY <2>2, FS_Singleton
  <2>4. QED
    BY <2>3 DEF S
<1>4. QED
  BY <1>2, <1>3

-----------------------------------------------------------------------------
(* What follows                                                            *)

\* Every handle the Worker may have is in push.json, and in memory while the
\* process runs, under the relay and installation that have it, through lost
\* answers, retirements, revocations, failed saves, crashes and restarts under
\* other bindings; a device has at most one active row, for any number of
\* registrations that overtake each other, and only an active row has a tap
\* route (_run, _post, _retire_others, revoke, _make_debt, dispatch, __init__).
THEOREM RowsAreTrueHolds == Spec => []RowsAreTrue
<1>1. PushInv => RowsAreTrue
  BY OneActiveCounts DEF PushInv, RowsAreTrue, TablesInv
<1> QED BY <1>1, PushInvariant, PTL

\* However long a job waited, its request starts only while its device is
\* authorized and its row is the one that was queued, or one that a repeated
\* registration gave up and that is owed (revoke, _retire_others, dispatch, _run).
THEOREM StartsAreCurrentHolds == Spec => StartsAreCurrent
<1>1. PushInv => (http.at = "created" /\ http'.at = "flying" /\ http.job.act # "unregister" =>
        LET r == rows[http.job.h] IN
        /\ r.dev \in auth
        /\ \/ r.st \in {"active", "pending"} /\ r.gen = http.job.gen
           \/ /\ http.job.act = "register" /\ http.job.h \in givenUp
              /\ r.st = "debt" /\ r.gen = http.job.gen + 1)
  <2>1. ASSUME http.at = "created" PROVE http # NoHttp
    BY <2>1 DEF NoHttp
  <2>2. QED
    BY <2>1 DEF PushInv, StartInv, Startable
<1> QED BY <1>1, PushInvariant, PTL DEF StartsAreCurrent
=============================================================================
