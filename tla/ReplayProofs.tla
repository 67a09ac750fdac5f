------------------------------ MODULE ReplayProofs ------------------------------
(***************************************************************************)
(* Proofs about what a lease replays: its submissions (SubmissionLedger),  *)
(* in the first part, and the tasks it saw end (LeaseRecovery), in the     *)
(* second.  The two have nothing in common but the phone that comes back;  *)
(* each part has its own invariant.                                        *)
(***************************************************************************)
EXTENDS SubmissionLedger, LeaseRecovery, FiniteSetTheorems, TLAPS

-----------------------------------------------------------------------------
(***************************************************************************)
(* First part.  For any number of submissions, request ids and attachments, *)
(* and any limits: the ledger of a lease answers a repeat with the outcome *)
(* of the very submission it repeats, never forgets work that Hermes still *)
(* has, and within its window lets nothing be dispatched twice.            *)
(***************************************************************************)

\* A submission has one record, under a request id that the phone uses for
\* nothing else; a known outcome is its own; a waiter has asked for it.
RecordsInv ==
    /\ \A i, j \in 1..Len(ledger) : ledger[i].sub = ledger[j].sub => i = j
    /\ \A i \in 1..Len(ledger) :
          /\ owner[ledger[i].req] = ledger[i].sub
          /\ ledger[i].outcome # Pending => ledger[i].outcome[1] = ledger[i].sub
          /\ \A w \in ledger[i].waiters :
                [att |-> w[2], req |-> w[1], sub |-> ledger[i].sub] \in asked

\* A submission is in flight once at most.
OneFrame ==
    /\ \A i, j \in 1..Len(inbound) : inbound[i].sub = inbound[j].sub => i = j
    /\ \A i, j \in 1..Len(outbound) : outbound[i].sub = outbound[j].sub => i = j
    /\ \A f, g \in running : f.sub = g.sub => f = g
    /\ \A i \in 1..Len(inbound), f \in running : inbound[i].sub # f.sub
    /\ \A i \in 1..Len(outbound), f \in running : outbound[i].sub # f.sub
    /\ \A i \in 1..Len(inbound), j \in 1..Len(outbound) : inbound[i].sub # outbound[j].sub

\* The record of a frame in flight is still unanswered.
Awaited(f) ==
    \E i \in 1..Len(ledger) :
        ledger[i].sub = f.sub /\ ledger[i].req = f.req /\ ledger[i].outcome = Pending

FlightInv ==
    /\ ~cleared => \A f \in InFlight : Awaited(f)
    /\ cleared => released /\ inbound = <<>> /\ running = {} /\ outbound = <<>>

\* The submissions the phone has made.
Seen == {owner[r] : r \in Requests} \ {None}

\* Until the phone makes more submissions than are tracked nothing is evicted.
WindowInv ==
    Cardinality(Seen) <= MaxTracked =>
        \A s \in Submissions :
            dispatched[s] <= 1 /\ (dispatched[s] = 1 /\ ~cleared => Tracked(s))

LedgerInv ==
    /\ TypeOK /\ (released => current = None) /\ RecordsInv /\ OneFrame /\ FlightInv
    /\ RepliesAreOriginal /\ WindowInv

-----------------------------------------------------------------------------
(* Lemmas about the operators                                              *)

\* Min of a nonempty set of naturals is one of its members.
LEMMA MinFact ==
    ASSUME NEW S, S \subseteq Nat, S # {}
    PROVE  Min(S) \in S
<1> DEFINE R == OpToRel(<, Nat)
<1>1. \A x, y \in Nat : <<x, y>> \in R <=> x < y
  BY DEF OpToRel
<1>2. IsWellFoundedOn(R, Nat)
  BY NatLessThanWellFounded
<1> HIDE DEF R
<1>3. PICK x \in S : \A y \in S : ~(<<y, x>> \in R)
  BY <1>2, WFMin
<1>4. \A y \in S : x =< y
  <2>1. SUFFICES ASSUME NEW y \in S PROVE x =< y
    OBVIOUS
  <2>2. ~(y < x)
    BY <1>1, <1>3
  <2> QED BY <2>2
<1> QED BY <1>4 DEF Min

\* RemoveAt closes the gap it makes.
LEMMA RemoveAtFacts ==
    ASSUME NEW T, NEW s \in Seq(T), NEW i \in 1..Len(s)
    PROVE  /\ RemoveAt(s, i) \in Seq(T) /\ Len(RemoveAt(s, i)) = Len(s) - 1
           /\ \A j \in 1..Len(s) - 1 :
                 RemoveAt(s, i)[j] = IF j < i THEN s[j] ELSE s[j + 1]
<1> DEFINE a == SubSeq(s, 1, i - 1)
           b == SubSeq(s, i + 1, Len(s))
<1>1. a \in Seq(T) /\ Len(a) = i - 1 /\ \A j \in 1..i - 1 : a[j] = s[j]
  OBVIOUS
<1>2. b \in Seq(T) /\ Len(b) = Len(s) - i /\ \A j \in 1..Len(s) - i : b[j] = s[i + j]
  OBVIOUS
<1>3. RemoveAt(s, i) = a \o b
  BY DEF RemoveAt
<1> HIDE DEF a, b
<1>4. a \o b \in Seq(T) /\ Len(a \o b) = Len(s) - 1
  <2>1. a \in Seq(T) /\ b \in Seq(T)
    BY <1>1, <1>2
  <2>2. a \o b \in Seq(T)
    BY <2>1
  <2>3. Len(a \o b) = Len(a) + Len(b)
    BY <2>1
  <2> QED BY <2>2, <2>3, <1>1, <1>2
<1>5. \A j \in 1..Len(s) - 1 : (a \o b)[j] = IF j < i THEN a[j] ELSE b[j - (i - 1)]
  BY <1>1, <1>2
<1> QED BY <1>1, <1>2, <1>3, <1>4, <1>5

\* An outcome is not the lack of one.
LEMMA OutcomeKnown ==
    ASSUME NEW o \in Outcome
    PROVE  o # Pending
<1>1. PICK s \in Submissions, n \in Nat : o = <<s, n>>
  BY DEF Outcome
<1>2. Len(o) = 2
  BY <1>1
<1> QED BY <1>2 DEF Pending

\* Making room keeps every unanswered record and adds none; without need it
\* changes nothing.
LEMMA RoomyFacts ==
    ASSUME TypeOK, RecordsInv, HasRoom
    PROVE  /\ Roomy \in Seq(Record) /\ Len(Roomy) < MaxTracked
           /\ \A j \in 1..Len(Roomy) : \E k \in 1..Len(ledger) : Roomy[j] = ledger[k]
           /\ \A i, j \in 1..Len(Roomy) : Roomy[i].sub = Roomy[j].sub => i = j
           /\ \A k \in 1..Len(ledger) : ledger[k].outcome = Pending =>
                 \E j \in 1..Len(Roomy) : Roomy[j] = ledger[k]
           /\ Len(ledger) < MaxTracked => Roomy = ledger
<1>1. ledger \in Seq(Record) /\ Len(ledger) \in Nat /\ Len(ledger) <= MaxTracked /\ MaxTracked \in Nat
  BY LedgerAssumption DEF TypeOK
<1>2. CASE Len(ledger) < MaxTracked
  BY <1>1, <1>2 DEF Roomy, RecordsInv
<1>3. CASE ~(Len(ledger) < MaxTracked)
  <2> DEFINE e == Min(Evictable)
             s == RemoveAt(ledger, e)
  <2>1. Evictable # {} /\ Evictable \subseteq 1..Len(ledger)
    BY <1>3 DEF HasRoom, Evictable
  <2>2. e \in Evictable
    <3>1. Evictable \subseteq Nat
      BY <2>1, <1>1
    <3> QED BY <2>1, <3>1, MinFact
  <2>3. e \in 1..Len(ledger) /\ ledger[e].outcome # Pending
    BY <2>2 DEF Evictable
  <2>4. Roomy = s
    BY <1>3 DEF Roomy
  <2> HIDE DEF e
  <2>5. /\ s \in Seq(Record) /\ Len(s) = Len(ledger) - 1
        /\ \A j \in 1..Len(ledger) - 1 : s[j] = IF j < e THEN ledger[j] ELSE ledger[j + 1]
    BY <1>1, <2>3, RemoveAtFacts
  <2> HIDE DEF s
  <2>6. Len(s) < MaxTracked
    BY <1>1, <2>5
  <2>7. \A j \in 1..Len(s) : \E k \in 1..Len(ledger) : s[j] = ledger[k]
    BY <1>1, <2>3, <2>5
  <2>8. \A i, j \in 1..Len(s) : s[i].sub = s[j].sub => i = j
    <3>1. SUFFICES ASSUME NEW i \in 1..Len(s), NEW j \in 1..Len(s), s[i].sub = s[j].sub
                   PROVE  i = j
      OBVIOUS
    <3> DEFINE a == IF i < e THEN i ELSE i + 1
               b == IF j < e THEN j ELSE j + 1
    <3>2. a \in 1..Len(ledger) /\ b \in 1..Len(ledger) /\ s[i] = ledger[a] /\ s[j] = ledger[b]
      BY <1>1, <2>3, <2>5
    <3>3. a = b
      <4> HIDE DEF a, b
      <4> QED BY <3>1, <3>2 DEF RecordsInv
    <3> QED BY <3>3, <2>3, <2>5
  <2>9. \A k \in 1..Len(ledger) : ledger[k].outcome = Pending => \E j \in 1..Len(s) : s[j] = ledger[k]
    <3>1. SUFFICES ASSUME NEW k \in 1..Len(ledger), ledger[k].outcome = Pending
                   PROVE  \E j \in 1..Len(s) : s[j] = ledger[k]
      OBVIOUS
    <3>2. k # e
      BY <3>1, <2>3
    <3>3. CASE k < e
      BY <3>3, <1>1, <2>3, <2>5
    <3>4. CASE k > e
      <4>1. k - 1 \in 1..Len(s) /\ s[k - 1] = ledger[k]
        BY <3>4, <1>1, <2>3, <2>5
      <4> QED BY <4>1
    <3> QED BY <3>2, <3>3, <3>4, <1>1, <2>3
  <2> QED BY <1>3, <2>4, <2>5, <2>6, <2>7, <2>8, <2>9
<1> QED BY <1>2, <1>3

-----------------------------------------------------------------------------
(* Lemmas about the steps                                                  *)

\* There are n numbers from 1 to n.
LEMMA UpTo ==
    ASSUME NEW n \in Nat
    PROVE  Cardinality(1..n) = n
<1>1. 1 \in Int /\ n \in Int
  OBVIOUS
<1>2. Cardinality(1..n) = IF 1 > n THEN 0 ELSE n - 1 + 1
  BY <1>1, FS_Interval, Zenon
<1> QED BY <1>2

\* What the records of the ledger are.
LEMMA RecordFields ==
    ASSUME TypeOK, NEW i \in 1..Len(ledger)
    PROVE  /\ ledger[i] \in Record
           /\ ledger[i].sub \in Submissions /\ ledger[i].req \in Requests
           /\ ledger[i].outcome # Pending => ledger[i].outcome \in Outcome
           /\ ledger[i].waiters \subseteq Requests \X Att
<1>1. ledger[i] \in Record
  <2>1. ledger \in Seq(Record)
    BY DEF TypeOK
  <2> HIDE DEF Record
  <2> QED BY <2>1
<1> QED BY <1>1 DEF Record

\* The submissions seen are finitely many.
LEMMA SeenFinite ==
    ASSUME TypeOK
    PROVE  IsFiniteSet(Seen) /\ Cardinality(Seen) \in Nat
<1>1. Seen \subseteq Submissions
  BY DEF Seen, TypeOK
<1>2. IsFiniteSet(Seen)
  BY <1>1, LedgerAssumption, FS_Subset
<1> QED BY <1>2, FS_CardinalityType

\* A submission claims its request id and disturbs no other.
LEMMA SubmitFacts ==
    ASSUME TypeOK, NEW sub \in Submissions, NEW req \in Requests, Submit(sub, req)
    PROVE  /\ owner' \in [Requests -> Submissions \cup {None}]
           /\ owner'[req] = sub
           /\ \A r \in Requests : owner[r] \in Submissions => owner'[r] = owner[r]
           /\ Seen \cup {sub} \subseteq Seen' /\ IsFiniteSet(Seen')
           /\ Cardinality(Seen) <= Cardinality(Seen')
           /\ Cardinality(Seen) \in Nat /\ Cardinality(Seen') \in Nat
           /\ ~released /\ current # None /\ current \in Att
<1>1. owner' \in [Requests -> Submissions \cup {None}] /\ owner'[req] = sub
  BY DEF TypeOK, Submit
<1>2. \A r \in Requests : owner[r] \in Submissions => owner'[r] = owner[r]
  BY LedgerAssumption DEF TypeOK, Submit
<1>3. Seen \cup {sub} \subseteq Seen'
  <2>1. \A x \in Seen : x \in Seen'
    BY <1>2 DEF Seen, TypeOK
  <2>2. sub \in Seen'
    BY <1>1, LedgerAssumption DEF Seen
  <2> QED BY <2>1, <2>2
<1>4. IsFiniteSet(Seen')
  <2>1. Seen' \subseteq Submissions
    BY <1>1 DEF Seen
  <2> QED BY <2>1, LedgerAssumption, FS_Subset
<1>5. Cardinality(Seen) <= Cardinality(Seen')
  BY <1>3, <1>4, FS_Subset
<1>6. Cardinality(Seen) \in Nat /\ Cardinality(Seen') \in Nat
  BY SeenFinite, <1>4, FS_CardinalityType
<1>7. ~released /\ current # None /\ current \in Att
  BY DEF Submit, TypeOK
<1> QED BY <1>1, <1>2, <1>3, <1>4, <1>5, <1>6, <1>7

\* A new submission within the window finds room: the tracked ones are
\* others, and all of them have been seen.
LEMMA NoEviction ==
    ASSUME TypeOK, RecordsInv, NEW sub \in Submissions, NEW req \in Requests, Submit(sub, req),
           ~Tracked(sub), Cardinality(Seen') <= MaxTracked
    PROVE  Len(ledger) < MaxTracked
<1>1. ledger \in Seq(Record) /\ Len(ledger) \in Nat /\ Len(ledger) <= MaxTracked /\ MaxTracked \in Nat
  BY LedgerAssumption DEF TypeOK
<1>2. \A i \in 1..Len(ledger) : ledger[i].sub \in Submissions /\ ledger[i].req \in Requests
  BY RecordFields
<1> DEFINE f == [i \in 1..Len(ledger) |-> ledger[i].sub]
           S == Seen' \ {sub}
<1>3. \A i \in 1..Len(ledger) : ledger[i].sub \in S
  <2>1. SUFFICES ASSUME NEW i \in 1..Len(ledger) PROVE ledger[i].sub \in S
    OBVIOUS
  <2>2. ledger[i].sub # sub
    BY DEF Tracked, Index
  <2>3. owner'[ledger[i].req] = ledger[i].sub
    BY <1>2, SubmitFacts DEF RecordsInv
  <2>4. ledger[i].sub \in Seen'
    BY <1>2, <2>3, LedgerAssumption DEF Seen
  <2> QED BY <2>2, <2>4
<1>4. f \in Injection(1..Len(ledger), S)
  BY <1>3 DEF Injection, IsInjective, RecordsInv
<1>5. IsFiniteSet(S) /\ Cardinality(S) = Cardinality(Seen') - 1
  BY SubmitFacts, FS_RemoveElement
<1>6. Cardinality(1..Len(ledger)) <= Cardinality(S)
  <2> HIDE DEF f, S
  <2> QED BY <1>4, <1>5, FS_Injection
<1>7. Cardinality(1..Len(ledger)) = Len(ledger)
  BY <1>1, UpTo
<1> HIDE DEF S
<1> QED BY <1>1, <1>5, <1>6, <1>7, SubmitFacts

\* What is not tracked is not in flight.
LEMMA UntrackedIsNew ==
    ASSUME FlightInv, ~released, NEW sub, ~Tracked(sub)
    PROVE  /\ \A i \in 1..Len(inbound) : inbound[i].sub # sub
           /\ \A f \in running : f.sub # sub
           /\ \A i \in 1..Len(outbound) : outbound[i].sub # sub
<1>1. \A f \in InFlight : f.sub # sub
  BY DEF FlightInv, Awaited, Tracked, Index
<1> QED BY <1>1 DEF InFlight

\* A live lease has not cleared its ledger; within the window all it has
\* dispatched is tracked.
LEMMA SubmitWindow ==
    ASSUME LedgerInv, NEW sub \in Submissions, NEW req \in Requests, Submit(sub, req)
    PROVE  /\ ~cleared
           /\ Cardinality(Seen') <= MaxTracked =>
                 \A s \in Submissions : dispatched[s] <= 1 /\ (dispatched[s] = 1 => Tracked(s))
<1>1. ~cleared
  BY DEF LedgerInv, FlightInv, Submit
<1>2. Cardinality(Seen') <= MaxTracked => Cardinality(Seen) <= MaxTracked
  <2>1. TypeOK
    BY DEF LedgerInv
  <2>2. /\ Cardinality(Seen) <= Cardinality(Seen')
        /\ Cardinality(Seen) \in Nat /\ Cardinality(Seen') \in Nat
    BY <2>1, SubmitFacts
  <2>3. MaxTracked \in Nat
    BY LedgerAssumption
  <2> QED BY <2>2, <2>3
<1> QED BY <1>1, <1>2 DEF LedgerInv, WindowInv

\* The records that stay are as good as they were, whoever submits.
LEMMA SubmitRecords ==
    ASSUME LedgerInv, NEW sub \in Submissions, NEW req \in Requests, Submit(sub, req),
           NEW L \in Seq(Record),
           \A j \in 1..Len(L) : \E k \in 1..Len(ledger) : L[j] = ledger[k]
    PROVE  \A i \in 1..Len(L) :
              /\ owner'[L[i].req] = L[i].sub
              /\ L[i].outcome # Pending => L[i].outcome[1] = L[i].sub
              /\ \A w \in L[i].waiters : [att |-> w[2], req |-> w[1], sub |-> L[i].sub] \in asked
<1>1. TypeOK /\ RecordsInv
  BY DEF LedgerInv
<1>2. TAKE i \in 1..Len(L)
<1>3. PICK k \in 1..Len(ledger) : L[i] = ledger[k]
  OBVIOUS
<1>4. owner[ledger[k].req] = ledger[k].sub /\ ledger[k].sub \in Submissions /\ ledger[k].req \in Requests
  BY <1>1, RecordFields DEF RecordsInv
<1>5. owner'[ledger[k].req] = ledger[k].sub
  BY <1>1, <1>4, SubmitFacts
<1>6. /\ ledger[k].outcome # Pending => ledger[k].outcome[1] = ledger[k].sub
      /\ \A w \in ledger[k].waiters : [att |-> w[2], req |-> w[1], sub |-> ledger[k].sub] \in asked
  BY <1>1 DEF RecordsInv
<1> QED BY <1>3, <1>5, <1>6

\* The ledger with room made.
LEMMA RoomyStep ==
    ASSUME LedgerInv, NEW sub \in Submissions, NEW req \in Requests, Submit(sub, req), HasRoom,
           ledger' = Roomy, asked' = asked
    PROVE  /\ ledger' \in Seq(Record) /\ Len(ledger') <= MaxTracked
           /\ RecordsInv'
           /\ \A f : Awaited(f) => Awaited(f)'
<1>1. TypeOK /\ RecordsInv
  BY DEF LedgerInv
<1>2. /\ Roomy \in Seq(Record) /\ Len(Roomy) < MaxTracked
      /\ \A j \in 1..Len(Roomy) : \E k \in 1..Len(ledger) : Roomy[j] = ledger[k]
      /\ \A i, j \in 1..Len(Roomy) : Roomy[i].sub = Roomy[j].sub => i = j
      /\ \A k \in 1..Len(ledger) : ledger[k].outcome = Pending =>
            \E j \in 1..Len(Roomy) : Roomy[j] = ledger[k]
  BY <1>1, RoomyFacts
<1>3. Len(ledger') <= MaxTracked
  BY <1>2, LedgerAssumption
<1>4. RecordsInv'
  BY <1>2, SubmitRecords, SMTT(30) DEF RecordsInv
<1>5. \A f : Awaited(f) => Awaited(f)'
  BY <1>2 DEF Awaited
<1> QED BY <1>2, <1>3, <1>4, <1>5

\* The ledger with room made and a new record at its end.
LEMMA AppendStep ==
    ASSUME LedgerInv, NEW sub \in Submissions, NEW req \in Requests, Submit(sub, req), HasRoom,
           ~Tracked(sub), ledger' = Append(Roomy, NewRecord(sub, req)), asked' = asked
    PROVE  /\ ledger' \in Seq(Record) /\ Len(ledger') <= MaxTracked
           /\ RecordsInv'
           /\ \A f : Awaited(f) => Awaited(f)'
           /\ \A f : f.sub = sub /\ f.req = req => Awaited(f)'
           /\ Tracked(sub)'
           /\ Len(ledger) < MaxTracked => \A s : Tracked(s) => Tracked(s)'
<1> DEFINE n == NewRecord(sub, req)
<1>1. TypeOK /\ RecordsInv
  BY DEF LedgerInv
<1>2. /\ Roomy \in Seq(Record) /\ Len(Roomy) < MaxTracked
      /\ \A j \in 1..Len(Roomy) : \E k \in 1..Len(ledger) : Roomy[j] = ledger[k]
      /\ \A i, j \in 1..Len(Roomy) : Roomy[i].sub = Roomy[j].sub => i = j
      /\ \A k \in 1..Len(ledger) : ledger[k].outcome = Pending =>
            \E j \in 1..Len(Roomy) : Roomy[j] = ledger[k]
      /\ Len(ledger) < MaxTracked => Roomy = ledger
  BY <1>1, RoomyFacts
<1>3. n \in Record /\ n.sub = sub /\ n.req = req /\ n.outcome = Pending /\ n.waiters = {}
  BY DEF NewRecord, Record
<1>4. ledger' = Append(Roomy, n)
  OBVIOUS
<1> HIDE DEF n
<1>5. /\ ledger' \in Seq(Record) /\ Len(ledger') = Len(Roomy) + 1
      /\ \A j \in 1..Len(Roomy) : ledger'[j] = Roomy[j]
      /\ ledger'[Len(Roomy) + 1] = n
      /\ Len(Roomy) \in Nat
  <2> HIDE DEF Record
  <2> QED BY <1>2, <1>3, <1>4
<1>6. Len(ledger') <= MaxTracked
  BY <1>2, <1>5, LedgerAssumption
<1>7. \A j \in 1..Len(ledger') : j \in 1..Len(Roomy) \/ j = Len(Roomy) + 1
  BY <1>5
<1>8. \A j \in 1..Len(Roomy) : Roomy[j].sub # sub
  BY <1>2, SMTT(30) DEF Tracked, Index
<1>9. RecordsInv'
  <2>1. \A i, j \in 1..Len(ledger') : ledger'[i].sub = ledger'[j].sub => i = j
    BY <1>2, <1>3, <1>5, <1>7, <1>8
  <2>2. \A i \in 1..Len(Roomy) :
              /\ owner'[Roomy[i].req] = Roomy[i].sub
              /\ Roomy[i].outcome # Pending => Roomy[i].outcome[1] = Roomy[i].sub
              /\ \A w \in Roomy[i].waiters : [att |-> w[2], req |-> w[1], sub |-> Roomy[i].sub] \in asked
    BY <1>2, SubmitRecords
  <2>3. owner'[req] = sub
    BY <1>1, SubmitFacts
  <2>4. ASSUME NEW i \in 1..Len(ledger')
        PROVE  /\ owner'[ledger'[i].req] = ledger'[i].sub
               /\ ledger'[i].outcome # Pending => ledger'[i].outcome[1] = ledger'[i].sub
               /\ \A w \in ledger'[i].waiters :
                     [att |-> w[2], req |-> w[1], sub |-> ledger'[i].sub] \in asked'
    <3>1. CASE i \in 1..Len(Roomy)
      BY <3>1, <2>2, <1>5
    <3>2. CASE i = Len(Roomy) + 1
      BY <3>2, <2>3, <1>3, <1>5
    <3> QED BY <3>1, <3>2, <1>7
  <2> QED BY <2>1, <2>4 DEF RecordsInv
<1>10. \A j \in 1..Len(Roomy) : j \in 1..Len(ledger')
  BY <1>5
<1>11. ASSUME NEW f, Awaited(f) PROVE Awaited(f)'
  <2>1. PICK k \in 1..Len(ledger) :
           ledger[k].sub = f.sub /\ ledger[k].req = f.req /\ ledger[k].outcome = Pending
    BY <1>11 DEF Awaited
  <2>2. PICK j \in 1..Len(Roomy) : Roomy[j] = ledger[k]
    BY <1>2, <2>1
  <2>3. j \in 1..Len(ledger') /\ ledger'[j] = ledger[k]
    BY <2>2, <1>5, <1>10
  <2> QED BY <2>1, <2>3 DEF Awaited
<1>12. Len(Roomy) + 1 \in 1..Len(ledger')
  BY <1>5
<1>13. \A f : f.sub = sub /\ f.req = req => Awaited(f)'
  BY <1>3, <1>5, <1>12 DEF Awaited
<1>14. Tracked(sub)'
  BY <1>3, <1>5, <1>12 DEF Tracked, Index
<1>15. ASSUME Len(ledger) < MaxTracked, NEW s, Tracked(s) PROVE Tracked(s)'
  BY <1>2, <1>5, <1>10, <1>15 DEF Tracked, Index
<1> QED BY <1>5, <1>6, <1>9, <1>11, <1>13, <1>14, <1>15

-----------------------------------------------------------------------------
(* Every step keeps the invariant                                          *)

LEMMA InitLedger ==
    ASSUME Init
    PROVE  LedgerInv
<1>1. TypeOK
  <2>1. ledger \in Seq(Record) /\ inbound \in Seq(Frame) /\ outbound \in Seq(Frame)
    BY DEF Init
  <2>2. Len(ledger) <= MaxTracked /\ Len(inbound) <= MaxQueue /\ Len(outbound) <= MaxQueue
    BY LedgerAssumption DEF Init
  <2>3. 1 \in Att
    BY LedgerAssumption DEF Att
  <2> QED BY <2>1, <2>2, <2>3 DEF Init, TypeOK
<1>2. RecordsInv /\ OneFrame
  BY DEF Init, RecordsInv, OneFrame
<1>3. InFlight = {}
  BY DEF Init, InFlight
<1>4. FlightInv /\ RepliesAreOriginal
  BY <1>3 DEF Init, FlightInv, RepliesAreOriginal
<1>5. WindowInv
  BY DEF Init, WindowInv
<1>6. released => current = None
  BY DEF Init
<1> QED BY <1>1, <1>2, <1>4, <1>5, <1>6 DEF LedgerInv

LEMMA DispatchStep ==
    ASSUME LedgerInv, NEW sub \in Submissions, NEW req \in Requests, Dispatch(sub, req)
    PROVE  LedgerInv'
<1> DEFINE f == [sub |-> sub, req |-> req, n |-> dispatched[sub] + 1]
<1> USE DEF Dispatch
<1>1. TypeOK /\ RecordsInv /\ OneFrame /\ FlightInv /\ RepliesAreOriginal
  BY DEF LedgerInv
<1>2. Submit(sub, req) /\ ~Tracked(sub) /\ HasRoom /\ ~released
  BY DEF Submit
<1>3. /\ ledger' \in Seq(Record) /\ Len(ledger') <= MaxTracked
      /\ RecordsInv'
      /\ \A g : Awaited(g) => Awaited(g)'
      /\ \A g : g.sub = sub /\ g.req = req => Awaited(g)'
      /\ Tracked(sub)'
      /\ Len(ledger) < MaxTracked => \A s : Tracked(s) => Tracked(s)'
  BY <1>2, AppendStep
<1>4. f \in Frame /\ f.sub = sub /\ f.req = req
  BY <1>1 DEF Frame, TypeOK
<1>5. inbound' = Append(inbound, f)
  OBVIOUS
<1> HIDE DEF f
<1>6. inbound \in Seq(Frame) /\ Len(inbound) \in Nat
  BY <1>1 DEF TypeOK
<1>7. /\ inbound' \in Seq(Frame) /\ Len(inbound') = Len(inbound) + 1
      /\ \A i \in 1..Len(inbound) : inbound'[i] = inbound[i]
      /\ inbound'[Len(inbound) + 1] = f
  <2> HIDE DEF Frame
  <2> QED BY <1>4, <1>5, <1>6
<1>8. \A i \in 1..Len(inbound') : i \in 1..Len(inbound) \/ i = Len(inbound) + 1
  BY <1>6, <1>7
<1>9. TypeOK'
  <2>1. dispatched' \in [Submissions -> Nat]
    BY <1>1 DEF TypeOK
  <2>2. Len(inbound') <= MaxQueue
    BY <1>6, <1>7, LedgerAssumption
  <2>3. owner' \in [Requests -> Submissions \cup {None}]
    BY <1>1, <1>2, SubmitFacts
  <2> QED BY <1>1, <1>3, <1>7, <2>1, <2>2, <2>3 DEF TypeOK
<1>10. OneFrame'
  <2>1. /\ \A i \in 1..Len(inbound) : inbound[i].sub # sub
        /\ \A g \in running : g.sub # sub
        /\ \A i \in 1..Len(outbound) : outbound[i].sub # sub
    BY <1>1, <1>2, UntrackedIsNew
  <2>2. \A i, j \in 1..Len(inbound') : inbound'[i].sub = inbound'[j].sub => i = j
    BY <1>1, <1>4, <1>7, <1>8, <2>1 DEF OneFrame
  <2>3. \A i \in 1..Len(inbound'), g \in running : inbound'[i].sub # g.sub
    BY <1>1, <1>4, <1>7, <1>8, <2>1 DEF OneFrame
  <2>4. \A i \in 1..Len(inbound'), j \in 1..Len(outbound) : inbound'[i].sub # outbound[j].sub
    BY <1>1, <1>4, <1>7, <1>8, <2>1 DEF OneFrame
  <2> QED BY <1>1, <2>2, <2>3, <2>4 DEF OneFrame
<1>11. FlightInv'
  <2>1. \A g \in InFlight' : g \in InFlight \/ g = f
    BY <1>7, <1>8 DEF InFlight
  <2>2. ~cleared
    BY <1>1, <1>2 DEF FlightInv
  <2>3. \A g \in InFlight' : Awaited(g)'
    BY <1>1, <1>3, <1>4, <2>1, <2>2 DEF FlightInv
  <2> QED BY <2>2, <2>3 DEF FlightInv
<1>12. RepliesAreOriginal'
  BY <1>1 DEF RepliesAreOriginal
<1>13. WindowInv'
  <2>1. SUFFICES ASSUME Cardinality(Seen') <= MaxTracked, NEW s \in Submissions
                 PROVE  dispatched'[s] <= 1 /\ (dispatched'[s] = 1 => Tracked(s)')
    BY DEF WindowInv
  <2>2. dispatched[s] <= 1 /\ (dispatched[s] = 1 => Tracked(s))
    BY <1>2, <2>1, SubmitWindow
  <2>3. dispatched[sub] <= 1 /\ (dispatched[sub] = 1 => Tracked(sub))
    BY <1>2, <2>1, SubmitWindow
  <2>4. Len(ledger) < MaxTracked
    BY <1>1, <1>2, <2>1, NoEviction
  <2>5. dispatched \in [Submissions -> Nat]
    BY <1>1 DEF TypeOK
  <2>6. CASE s = sub
    <3>1. dispatched[sub] = 0
      BY <2>3, <2>5, <1>2
    <3> QED BY <3>1, <2>5, <2>6, <1>3
  <2>7. CASE s # sub
    BY <2>2, <2>4, <2>5, <2>7, <1>3
  <2> QED BY <2>6, <2>7
<1>14. released' => current' = None
  BY DEF LedgerInv
<1> QED BY <1>3, <1>9, <1>10, <1>11, <1>12, <1>13, <1>14 DEF LedgerInv

\* The inner controller is closed: nothing is in flight.
LEMMA CloseInnerFacts ==
    ASSUME CloseInner
    PROVE  /\ OneFrame' /\ InFlight' = {}
           /\ inbound' = <<>> /\ running' = {} /\ outbound' = <<>> /\ wsClosed' = TRUE
BY DEF CloseInner, OneFrame, InFlight

LEMMA ExhaustedStep ==
    ASSUME LedgerInv, NEW sub \in Submissions, NEW req \in Requests, Exhausted(sub, req)
    PROVE  LedgerInv'
<1> USE DEF Exhausted, innerVars
<1>1. TypeOK /\ RecordsInv /\ OneFrame /\ FlightInv /\ RepliesAreOriginal
  BY DEF LedgerInv
<1>2. Submit(sub, req)
  OBVIOUS
<1>3. TypeOK'
  <2>1. owner' \in [Requests -> Submissions \cup {None}]
    BY <1>1, <1>2, SubmitFacts
  <2> QED BY <1>1, <2>1 DEF TypeOK
<1>4. RecordsInv'
  <2>1. ledger \in Seq(Record)
    BY <1>1 DEF TypeOK
  <2>2. \A i \in 1..Len(ledger) :
              /\ owner'[ledger[i].req] = ledger[i].sub
              /\ ledger[i].outcome # Pending => ledger[i].outcome[1] = ledger[i].sub
              /\ \A w \in ledger[i].waiters :
                    [att |-> w[2], req |-> w[1], sub |-> ledger[i].sub] \in asked
    BY <1>2, <2>1, SubmitRecords
  <2> QED BY <1>1, <2>2 DEF RecordsInv
<1>5. OneFrame' /\ RepliesAreOriginal'
  BY <1>1 DEF OneFrame, RepliesAreOriginal
<1>6. FlightInv'
  BY <1>1 DEF FlightInv, Awaited, InFlight
<1>7. WindowInv'
  BY <1>2, SubmitWindow DEF WindowInv, Tracked, Index
<1>8. released' => current' = None
  OBVIOUS
<1> QED BY <1>3, <1>4, <1>5, <1>6, <1>7, <1>8 DEF LedgerInv

LEMMA FeedFailsStep ==
    ASSUME LedgerInv, NEW sub \in Submissions, NEW req \in Requests, FeedFails(sub, req)
    PROVE  LedgerInv'
<1> USE DEF FeedFails
<1>1. TypeOK /\ RecordsInv /\ OneFrame /\ FlightInv /\ RepliesAreOriginal
  BY DEF LedgerInv
<1>2. Submit(sub, req) /\ ~Tracked(sub) /\ HasRoom
  OBVIOUS
<1>3. /\ ledger' \in Seq(Record) /\ Len(ledger') <= MaxTracked
      /\ RecordsInv'
      /\ \A g : Awaited(g) => Awaited(g)'
  BY <1>2, RoomyStep
<1>4. /\ OneFrame' /\ InFlight' \subseteq InFlight
      /\ inbound' \in {inbound, <<>>} /\ outbound' \in {outbound, <<>>}
      /\ running' \subseteq running /\ wsClosed' \in BOOLEAN
  <2>1. CASE CloseInner
    BY <2>1, CloseInnerFacts
  <2>2. CASE UNCHANGED <<inbound, running, outbound, wsClosed>>
    BY <2>2, <1>1 DEF OneFrame, InFlight, TypeOK
  <2> QED BY <2>1, <2>2
<1>5. TypeOK'
  <2>1. owner' \in [Requests -> Submissions \cup {None}]
    BY <1>1, <1>2, SubmitFacts
  <2>2. /\ inbound' \in Seq(Frame) /\ outbound' \in Seq(Frame)
        /\ Len(inbound') <= MaxQueue /\ Len(outbound') <= MaxQueue
    <3>1. /\ inbound \in Seq(Frame) /\ outbound \in Seq(Frame) /\ MaxQueue \in Nat
          /\ Len(inbound) <= MaxQueue /\ Len(outbound) <= MaxQueue
      BY <1>1, LedgerAssumption DEF TypeOK
    <3>2. <<>> \in Seq(Frame) /\ Len(<<>>) <= MaxQueue
      BY <3>1
    <3> QED BY <1>4, <3>1, <3>2
  <2> QED BY <1>1, <1>3, <1>4, <2>1, <2>2 DEF TypeOK
<1>6. RepliesAreOriginal'
  BY <1>1 DEF RepliesAreOriginal
<1>7. ~cleared
  BY <1>2, SubmitWindow
<1>8. FlightInv'
  BY <1>1, <1>3, <1>4, <1>7 DEF FlightInv
<1>9. WindowInv'
  <2>1. SUFFICES ASSUME Cardinality(Seen') <= MaxTracked, NEW s \in Submissions
                 PROVE  dispatched'[s] <= 1 /\ (dispatched'[s] = 1 => Tracked(s)')
    BY DEF WindowInv
  <2>2. dispatched[s] <= 1 /\ (dispatched[s] = 1 => Tracked(s))
    BY <1>2, <2>1, SubmitWindow
  <2>3. ledger' = ledger
    <3>1. Len(ledger) < MaxTracked
      BY <1>1, <1>2, <2>1, NoEviction
    <3> QED BY <3>1 DEF Roomy
  <2> QED BY <2>2, <2>3 DEF Tracked, Index
<1>10. released' => current' = None
  OBVIOUS
<1> QED BY <1>3, <1>4, <1>5, <1>6, <1>8, <1>9, <1>10 DEF LedgerInv

LEMMA PolicyRejectedStep ==
    ASSUME LedgerInv, NEW sub \in Submissions, NEW req \in Requests, PolicyRejected(sub, req)
    PROVE  LedgerInv'
<1> USE DEF PolicyRejected, innerVars
<1>1. TypeOK /\ RecordsInv /\ OneFrame /\ FlightInv /\ RepliesAreOriginal
  BY DEF LedgerInv
<1>2. Submit(sub, req) /\ ~Tracked(sub) /\ HasRoom
  OBVIOUS
<1>3. /\ ledger' \in Seq(Record) /\ Len(ledger') <= MaxTracked
      /\ RecordsInv'
      /\ \A g : Awaited(g) => Awaited(g)'
      /\ Len(ledger) < MaxTracked => \A s : Tracked(s) => Tracked(s)'
  BY <1>2, AppendStep
<1>4. TypeOK'
  <2>1. owner' \in [Requests -> Submissions \cup {None}]
    BY <1>1, <1>2, SubmitFacts
  <2> QED BY <1>1, <1>3, <2>1 DEF TypeOK
<1>5. OneFrame' /\ RepliesAreOriginal' /\ InFlight' = InFlight
  <2>1. UNCHANGED <<inbound, running, outbound, replies>>
    OBVIOUS
  <2>2. OneFrame' /\ RepliesAreOriginal'
    BY <1>1, <2>1 DEF OneFrame, RepliesAreOriginal
  <2> QED BY <2>1, <2>2 DEF InFlight
<1>6. FlightInv'
  BY <1>1, <1>3, <1>5 DEF FlightInv
<1>7. WindowInv'
  <2>1. SUFFICES ASSUME Cardinality(Seen') <= MaxTracked, NEW s \in Submissions
                 PROVE  dispatched'[s] <= 1 /\ (dispatched'[s] = 1 => Tracked(s)')
    BY DEF WindowInv
  <2>2. dispatched[s] <= 1 /\ (dispatched[s] = 1 => Tracked(s))
    BY <1>2, <2>1, SubmitWindow
  <2>3. Len(ledger) < MaxTracked
    BY <1>1, <1>2, <2>1, NoEviction
  <2> QED BY <2>2, <2>3, <1>3
<1>8. released' => current' = None
  OBVIOUS
<1> QED BY <1>3, <1>4, <1>5, <1>6, <1>7, <1>8 DEF LedgerInv

\* An answer goes to a waiter that is the lease's attachment.
LEMMA AnswerFacts ==
    ASSUME NEW sub \in Submissions, NEW o \in Outcome, NEW W, W \subseteq Requests \X Att,
           NEW A, \A w \in W : [att |-> w[2], req |-> w[1], sub |-> sub] \in A, o[1] = sub
    PROVE  /\ Answer(sub, o, W) \subseteq Reply
           /\ \A r \in Answer(sub, o, W) :
                 r.outcome[1] = r.sub /\ [att |-> r.att, req |-> r.req, sub |-> r.sub] \in A
<1>1. SUFFICES ASSUME NEW r \in Answer(sub, o, W)
               PROVE  /\ r \in Reply
                      /\ r.outcome[1] = r.sub
                      /\ [att |-> r.att, req |-> r.req, sub |-> r.sub] \in A
  OBVIOUS
<1>2. PICK w \in W :
         DeliverTo(w[2]) # None /\ r = [att |-> DeliverTo(w[2]), req |-> w[1], sub |-> sub, outcome |-> o]
  BY DEF Answer
<1>3. DeliverTo(w[2]) = w[2]
  BY <1>2 DEF DeliverTo
<1>4. w[1] \in Requests /\ w[2] \in Att
  BY <1>2
<1>5. r = [att |-> w[2], req |-> w[1], sub |-> sub, outcome |-> o]
  BY <1>2, <1>3
<1>6. r \in Reply
  BY <1>4, <1>5 DEF Reply
<1>7. r.att = w[2] /\ r.req = w[1] /\ r.sub = sub /\ r.outcome = o
  BY <1>5
<1> QED BY <1>2, <1>6, <1>7

LEMMA RepeatStep ==
    ASSUME LedgerInv, NEW sub \in Submissions, NEW req \in Requests, Repeat(sub, req)
    PROVE  LedgerInv'
<1> DEFINE i == Min(Index(sub))
           w == <<req, current>>
           q == [att |-> current, req |-> req, sub |-> sub]
<1>1. TypeOK /\ RecordsInv /\ OneFrame /\ FlightInv /\ RepliesAreOriginal
  BY DEF LedgerInv
<1>2. Submit(sub, req) /\ Tracked(sub)
  BY DEF Repeat
<1>3. ~released /\ current \in Att /\ owner' \in [Requests -> Submissions \cup {None}]
  BY <1>1, <1>2, SubmitFacts
<1>4. ledger \in Seq(Record) /\ Len(ledger) \in Nat
  BY <1>1 DEF TypeOK
<1>5. i \in 1..Len(ledger) /\ ledger[i].sub = sub
  <2>1. Index(sub) \subseteq Nat /\ Index(sub) # {}
    BY <1>2, <1>4 DEF Index, Tracked
  <2>2. i \in Index(sub)
    BY <2>1, MinFact
  <2> QED BY <2>2 DEF Index
<1>6. /\ asked' = asked \cup {q}
      /\ UNCHANGED <<current, made, released, cleared, innerVars>>
      /\ \/ /\ ledger[i].outcome # Pending
            /\ replies' = replies \cup Answer(sub, ledger[i].outcome, {w})
            /\ ledger' = ledger
         \/ /\ \/ ledger' = [ledger EXCEPT ![i].waiters = @ \cup {w}]
               \/ ledger' = ledger
            /\ replies' = replies
  BY DEF Repeat
<1> HIDE DEF i
<1>7. w \in Requests \X Att /\ q \in Ask
  BY <1>3 DEF Ask
<1>8. ledger[i].outcome # Pending => ledger[i].outcome \in Outcome /\ ledger[i].outcome[1] = sub
  BY <1>1, <1>5, RecordFields DEF RecordsInv
<1>9. replies' \subseteq Reply /\ RepliesAreOriginal'
  <2>1. ASSUME ledger[i].outcome # Pending
        PROVE  /\ Answer(sub, ledger[i].outcome, {w}) \subseteq Reply
               /\ \A r \in Answer(sub, ledger[i].outcome, {w}) :
                     /\ r.outcome[1] = r.sub
                     /\ [att |-> r.att, req |-> r.req, sub |-> r.sub] \in asked'
    <3>1. \A x \in {w} : [att |-> x[2], req |-> x[1], sub |-> sub] \in asked'
      BY <1>6
    <3>2. {w} \subseteq Requests \X Att
      BY <1>7
    <3> QED BY <1>8, <2>1, <3>1, <3>2, AnswerFacts
  <2>2. replies \subseteq Reply
    BY <1>1 DEF TypeOK
  <2>3. \A r \in replies : /\ r.outcome[1] = r.sub
                           /\ [att |-> r.att, req |-> r.req, sub |-> r.sub] \in asked'
    BY <1>1, <1>6 DEF RepliesAreOriginal
  <2> QED BY <1>6, <2>1, <2>2, <2>3 DEF RepliesAreOriginal
<1>10. /\ ledger' \in Seq(Record) /\ Len(ledger') = Len(ledger)
       /\ \A k \in 1..Len(ledger) :
             /\ ledger'[k].sub = ledger[k].sub /\ ledger'[k].req = ledger[k].req
             /\ ledger'[k].outcome = ledger[k].outcome
             /\ ledger'[k].waiters \subseteq ledger[k].waiters \cup (IF k = i THEN {w} ELSE {})
  <2>1. CASE ledger' = ledger
    BY <2>1, <1>4
  <2>2. CASE ledger' = [ledger EXCEPT ![i].waiters = @ \cup {w}]
    <3> DEFINE n == [ledger[i] EXCEPT !.waiters = @ \cup {w}]
    <3>1. ledger[i] \in Record
      BY <1>1, <1>5, RecordFields
    <3>2. /\ n \in Record /\ n.sub = ledger[i].sub /\ n.req = ledger[i].req
          /\ n.outcome = ledger[i].outcome /\ n.waiters = ledger[i].waiters \cup {w}
      BY <3>1, <1>7 DEF Record
    <3>3. ledger' = [ledger EXCEPT ![i] = n]
      BY <2>2
    <3> HIDE DEF n
    <3>4. /\ ledger' \in Seq(Record) /\ Len(ledger') = Len(ledger)
          /\ ledger'[i] = n
          /\ \A k \in 1..Len(ledger) : k # i => ledger'[k] = ledger[k]
      <4> HIDE DEF Record
      <4> QED BY <3>2, <3>3, <1>4, <1>5
    <3> QED BY <3>2, <3>4
  <2> QED BY <1>6, <2>1, <2>2
<1>11. TypeOK'
  BY <1>1, <1>3, <1>6, <1>7, <1>9, <1>10 DEF TypeOK, innerVars
<1>12. RecordsInv'
  <2>1. \A k \in 1..Len(ledger) :
              /\ owner'[ledger[k].req] = ledger[k].sub
              /\ ledger[k].outcome # Pending => ledger[k].outcome[1] = ledger[k].sub
              /\ \A x \in ledger[k].waiters :
                    [att |-> x[2], req |-> x[1], sub |-> ledger[k].sub] \in asked
    BY <1>2, <1>4, SubmitRecords
  <2>2. \A k \in 1..Len(ledger) : \A x \in ledger'[k].waiters :
            [att |-> x[2], req |-> x[1], sub |-> ledger[k].sub] \in asked'
    <3>1. SUFFICES ASSUME NEW k \in 1..Len(ledger), NEW x \in ledger'[k].waiters
                   PROVE  [att |-> x[2], req |-> x[1], sub |-> ledger[k].sub] \in asked'
      OBVIOUS
    <3>2. CASE x \in ledger[k].waiters
      BY <2>1, <3>2, <1>6
    <3>3. CASE k = i /\ x = w
      BY <1>5, <1>6, <3>3
    <3> QED BY <1>10, <3>2, <3>3
  <2>3. \A j, k \in 1..Len(ledger') : ledger'[j].sub = ledger'[k].sub => j = k
    BY <1>1, <1>10 DEF RecordsInv
  <2> QED BY <1>10, <2>1, <2>2, <2>3 DEF RecordsInv
<1>13. OneFrame' /\ InFlight' = InFlight
  BY <1>1, <1>6 DEF OneFrame, InFlight, innerVars
<1>14. \A f : Awaited(f) => Awaited(f)'
  BY <1>10 DEF Awaited
<1>15. FlightInv'
  BY <1>1, <1>6, <1>13, <1>14 DEF FlightInv, innerVars
<1>16. \A s : Tracked(s) => Tracked(s)'
  BY <1>10 DEF Tracked, Index
<1>17. WindowInv'
  BY <1>2, <1>6, <1>16, SubmitWindow DEF WindowInv, innerVars
<1>18. released' => current' = None
  BY <1>3, <1>6
<1> QED BY <1>9, <1>11, <1>12, <1>13, <1>15, <1>17, <1>18 DEF LedgerInv

\* Steps of the inner controller and of the attachments leave the ledger alone.
LEMMA LedgerUntouched ==
    ASSUME LedgerInv, UNCHANGED <<ledger, cleared, dispatched, owner, asked, replies>>
    PROVE  /\ RecordsInv' /\ RepliesAreOriginal' /\ WindowInv'
           /\ \A f : Awaited(f)' <=> Awaited(f)
<1>1. RecordsInv'
  BY DEF LedgerInv, RecordsInv
<1>2. RepliesAreOriginal'
  BY DEF LedgerInv, RepliesAreOriginal
<1>3. WindowInv'
  BY DEF LedgerInv, WindowInv, Seen, Tracked, Index
<1>4. \A f : Awaited(f)' <=> Awaited(f)
  BY DEF Awaited
<1> QED BY <1>1, <1>2, <1>3, <1>4

\* Taking the head off a queue of frames.
LEMMA TailFacts ==
    ASSUME NEW T, NEW s \in Seq(T), s # <<>>
    PROVE  /\ Tail(s) \in Seq(T) /\ Head(s) \in T /\ Len(Tail(s)) = Len(s) - 1 /\ Len(s) \in Nat \ {0}
           /\ \A i \in 1..Len(Tail(s)) : Tail(s)[i] = s[i + 1] /\ i + 1 \in 1..Len(s)
           /\ Head(s) = s[1] /\ 1 \in 1..Len(s)
OBVIOUS

LEMMA HermesReceivesStep ==
    ASSUME LedgerInv, HermesReceives
    PROVE  LedgerInv'
<1> USE DEF HermesReceives
<1>1. TypeOK /\ OneFrame /\ FlightInv
  BY DEF LedgerInv
<1>2. RecordsInv' /\ RepliesAreOriginal' /\ WindowInv' /\ \A f : Awaited(f)' <=> Awaited(f)
  BY LedgerUntouched
<1> DEFINE h == Head(inbound)
<1>3. inbound \in Seq(Frame) /\ inbound # <<>>
  BY <1>1 DEF TypeOK
<1>4. /\ inbound' \in Seq(Frame) /\ h \in Frame /\ Len(inbound') = Len(inbound) - 1
      /\ Len(inbound) \in Nat \ {0}
      /\ \A i \in 1..Len(inbound') : inbound'[i] = inbound[i + 1] /\ i + 1 \in 1..Len(inbound)
      /\ h = inbound[1] /\ 1 \in 1..Len(inbound)
  BY <1>3, TailFacts
<1>5. running' = running \cup {h}
  OBVIOUS
<1> HIDE DEF h
<1>6. TypeOK'
  <2>1. Len(inbound') <= MaxQueue
    BY <1>1, <1>4, LedgerAssumption DEF TypeOK
  <2> QED BY <1>1, <1>4, <1>5, <2>1 DEF TypeOK
<1>7. OneFrame'
  <2>1. \A i \in 1..Len(inbound') : inbound'[i].sub # h.sub
    BY <1>1, <1>4 DEF OneFrame
  <2>2. \A i, j \in 1..Len(inbound') : inbound'[i].sub = inbound'[j].sub => i = j
    <3>1. SUFFICES ASSUME NEW i \in 1..Len(inbound'), NEW j \in 1..Len(inbound'),
                          inbound'[i].sub = inbound'[j].sub
                   PROVE  i = j
      OBVIOUS
    <3>2. i + 1 = j + 1
      BY <1>1, <1>4, <3>1 DEF OneFrame
    <3> QED BY <3>2
  <2>3. \A f, g \in running' : f.sub = g.sub => f = g
    BY <1>1, <1>4, <1>5 DEF OneFrame
  <2>4. \A i \in 1..Len(inbound'), f \in running' : inbound'[i].sub # f.sub
    BY <1>1, <1>4, <1>5, <2>1 DEF OneFrame
  <2>5. \A i \in 1..Len(outbound), f \in running' : outbound[i].sub # f.sub
    BY <1>1, <1>4, <1>5 DEF OneFrame
  <2>6. \A i \in 1..Len(inbound'), j \in 1..Len(outbound) : inbound'[i].sub # outbound[j].sub
    BY <1>1, <1>4 DEF OneFrame
  <2> QED BY <1>1, <2>2, <2>3, <2>4, <2>5, <2>6 DEF OneFrame
<1>8. InFlight' \subseteq InFlight
  BY <1>4, <1>5 DEF InFlight
<1>9. ~cleared
  BY <1>1, <1>3 DEF FlightInv
<1>10. FlightInv'
  BY <1>1, <1>2, <1>8, <1>9 DEF FlightInv
<1>11. released' => current' = None
  BY DEF LedgerInv
<1> QED BY <1>2, <1>6, <1>7, <1>10, <1>11 DEF LedgerInv

\* The inner controller is closed while the ledger is left alone.
LEMMA ClosedStep ==
    ASSUME LedgerInv, CloseInner,
           UNCHANGED <<ledger, current, made, released, cleared, dispatched, owner, asked, replies>>
    PROVE  LedgerInv'
<1>1. TypeOK /\ FlightInv /\ (released => current = None)
  BY DEF LedgerInv
<1>2. RecordsInv' /\ RepliesAreOriginal' /\ WindowInv'
  BY LedgerUntouched
<1>3. /\ OneFrame' /\ InFlight' = {}
      /\ inbound' = <<>> /\ running' = {} /\ outbound' = <<>> /\ wsClosed' = TRUE
  BY CloseInnerFacts
<1>4. TypeOK'
  <2>1. <<>> \in Seq(Frame) /\ Len(<<>>) <= MaxQueue
    BY LedgerAssumption
  <2> QED BY <1>1, <1>3, <2>1 DEF TypeOK
<1>5. FlightInv'
  BY <1>1, <1>3 DEF FlightInv
<1> QED BY <1>1, <1>2, <1>3, <1>4, <1>5 DEF LedgerInv

LEMMA HermesAnswersStep ==
    ASSUME LedgerInv, NEW f \in running, HermesAnswers(f)
    PROVE  LedgerInv'
<1>1. TypeOK /\ OneFrame /\ FlightInv
  BY DEF LedgerInv
<1>2. CASE ~(Len(outbound) < MaxQueue)
  BY <1>2, ClosedStep DEF HermesAnswers
<1>3. CASE Len(outbound) < MaxQueue
  <2>1. /\ running' = running \ {f} /\ outbound' = Append(outbound, f)
        /\ UNCHANGED <<inbound, wsClosed>>
        /\ UNCHANGED <<ledger, current, made, released, cleared, dispatched, owner, asked, replies>>
    BY <1>3 DEF HermesAnswers
  <2>2. RecordsInv' /\ RepliesAreOriginal' /\ WindowInv' /\ \A g : Awaited(g)' <=> Awaited(g)
    BY <2>1, LedgerUntouched
  <2>3. outbound \in Seq(Frame) /\ Len(outbound) \in Nat /\ f \in Frame
    BY <1>1 DEF TypeOK
  <2>4. /\ outbound' \in Seq(Frame) /\ Len(outbound') = Len(outbound) + 1
        /\ \A i \in 1..Len(outbound) : outbound'[i] = outbound[i]
        /\ outbound'[Len(outbound) + 1] = f
    <3> HIDE DEF Frame
    <3> QED BY <2>1, <2>3
  <2>5. \A i \in 1..Len(outbound') : i \in 1..Len(outbound) \/ i = Len(outbound) + 1
    BY <2>3, <2>4
  <2>6. TypeOK'
    <3>1. Len(outbound') <= MaxQueue
      BY <1>3, <2>3, <2>4, LedgerAssumption
    <3> QED BY <1>1, <2>1, <2>4, <3>1 DEF TypeOK
  <2>7. OneFrame'
    <3>1. \A i, j \in 1..Len(outbound') : outbound'[i].sub = outbound'[j].sub => i = j
      BY <1>1, <2>4, <2>5 DEF OneFrame
    <3>2. \A i \in 1..Len(outbound'), g \in running' : outbound'[i].sub # g.sub
      BY <1>1, <2>1, <2>4, <2>5 DEF OneFrame
    <3>3. \A i \in 1..Len(inbound), j \in 1..Len(outbound') : inbound[i].sub # outbound'[j].sub
      BY <1>1, <2>4, <2>5 DEF OneFrame
    <3> QED BY <1>1, <2>1, <3>1, <3>2, <3>3 DEF OneFrame
  <2>8. InFlight' \subseteq InFlight
    BY <2>1, <2>4, <2>5 DEF InFlight
  <2>9. ~cleared
    BY <1>1 DEF FlightInv
  <2>10. FlightInv'
    BY <1>1, <2>1, <2>2, <2>8, <2>9 DEF FlightInv
  <2>11. released' => current' = None
    BY <2>1 DEF LedgerInv
  <2> QED BY <2>2, <2>6, <2>7, <2>10, <2>11 DEF LedgerInv
<1> QED BY <1>2, <1>3

\* The answer finds the record of its own submission: no other one is
\* tracked under its request id.
LEMMA OutcomeFindsItsRecord ==
    ASSUME LedgerInv, ~cleared, NEW f \in InFlight
    PROVE  LET hits == {i \in 1..Len(ledger) : ledger[i].outcome = Pending /\ ledger[i].req = f.req}
           IN  /\ hits # {} /\ Min(hits) \in 1..Len(ledger)
               /\ ledger[Min(hits)].sub = f.sub /\ ledger[Min(hits)].outcome = Pending
<1> DEFINE hits == {i \in 1..Len(ledger) : ledger[i].outcome = Pending /\ ledger[i].req = f.req}
<1>1. PICK k \in 1..Len(ledger) :
         ledger[k].sub = f.sub /\ ledger[k].req = f.req /\ ledger[k].outcome = Pending
  BY DEF LedgerInv, FlightInv, Awaited
<1>2. k \in hits
  BY <1>1
<1>3. hits \subseteq Nat
  BY DEF LedgerInv, TypeOK
<1>4. Min(hits) \in hits
  BY <1>2, <1>3, MinFact
<1>5. ledger[Min(hits)].req = ledger[k].req /\ Min(hits) \in 1..Len(ledger)
      /\ ledger[Min(hits)].outcome = Pending
  BY <1>1, <1>4
<1>6. ledger[Min(hits)].sub = ledger[k].sub
  BY <1>5 DEF LedgerInv, RecordsInv
<1> QED BY <1>1, <1>2, <1>5, <1>6

LEMMA PumpRetainsStep ==
    ASSUME LedgerInv, PumpRetains
    PROVE  LedgerInv'
<1> DEFINE f == Head(outbound)
           hits == {k \in 1..Len(ledger) : ledger[k].outcome = Pending /\ ledger[k].req = f.req}
           i == Min(hits)
           o == <<f.sub, f.n>>
           a == Answer(ledger[i].sub, o, ledger[i].waiters)
<1>1. TypeOK /\ RecordsInv /\ OneFrame /\ FlightInv /\ RepliesAreOriginal
  BY DEF LedgerInv
<1>2. outbound \in Seq(Frame) /\ outbound # <<>> /\ ~cleared
  BY <1>1 DEF TypeOK, PumpRetains
<1>3. /\ Tail(outbound) \in Seq(Frame) /\ f \in Frame /\ Len(Tail(outbound)) = Len(outbound) - 1
      /\ Len(outbound) \in Nat \ {0}
      /\ \A k \in 1..Len(Tail(outbound)) :
            Tail(outbound)[k] = outbound[k + 1] /\ k + 1 \in 1..Len(outbound)
      /\ f = outbound[1] /\ 1 \in 1..Len(outbound)
  BY <1>2, TailFacts
<1>4. f \in InFlight
  BY <1>3 DEF InFlight
<1>5. /\ hits # {} /\ i \in 1..Len(ledger)
      /\ ledger[i].sub = f.sub /\ ledger[i].outcome = Pending
  BY <1>2, <1>4, OutcomeFindsItsRecord
<1>6. /\ ledger' = [ledger EXCEPT ![i].outcome = o, ![i].waiters = {}]
      /\ replies' = replies \cup a
      /\ outbound' = Tail(outbound)
      /\ UNCHANGED <<current, made, released, cleared, inbound, running, wsClosed, dispatched,
                     owner, asked>>
  BY <1>5 DEF PumpRetains, RecordOutcome
<1> HIDE DEF f, hits, i
<1>7. f.sub \in Submissions /\ o \in Outcome /\ o[1] = f.sub /\ o # Pending
  <2>1. f.sub \in Submissions /\ f.n \in Nat
    BY <1>3 DEF Frame
  <2>2. o \in Outcome /\ o[1] = f.sub
    BY <2>1 DEF Outcome
  <2> QED BY <2>1, <2>2, OutcomeKnown
<1> HIDE DEF o
<1>8. ledger[i] \in Record /\ ledger[i].waiters \subseteq Requests \X Att
  BY <1>1, <1>5, RecordFields
<1>9. a \subseteq Reply /\ \A r \in a :
          r.outcome[1] = r.sub /\ [att |-> r.att, req |-> r.req, sub |-> r.sub] \in asked
  <2>1. \A w \in ledger[i].waiters : [att |-> w[2], req |-> w[1], sub |-> ledger[i].sub] \in asked
    BY <1>1, <1>5 DEF RecordsInv
  <2> QED BY <1>5, <1>7, <1>8, <2>1, AnswerFacts
<1> HIDE DEF a
<1>10. replies' \subseteq Reply /\ RepliesAreOriginal'
  BY <1>1, <1>6, <1>9 DEF TypeOK, RepliesAreOriginal
<1>11. /\ ledger' \in Seq(Record) /\ Len(ledger') = Len(ledger)
       /\ \A k \in 1..Len(ledger) : k # i => ledger'[k] = ledger[k]
       /\ ledger'[i].sub = ledger[i].sub /\ ledger'[i].req = ledger[i].req
       /\ ledger'[i].outcome = o /\ ledger'[i].waiters = {}
  <2> DEFINE n == [ledger[i] EXCEPT !.outcome = o, !.waiters = {}]
  <2>1. /\ n \in Record /\ n.sub = ledger[i].sub /\ n.req = ledger[i].req
        /\ n.outcome = o /\ n.waiters = {}
    BY <1>7, <1>8 DEF Record
  <2>2. ledger' = [ledger EXCEPT ![i] = n]
    BY <1>6
  <2>3. ledger \in Seq(Record)
    BY <1>1 DEF TypeOK
  <2> HIDE DEF n
  <2>4. /\ ledger' \in Seq(Record) /\ Len(ledger') = Len(ledger) /\ ledger'[i] = n
        /\ \A k \in 1..Len(ledger) : k # i => ledger'[k] = ledger[k]
    <3> HIDE DEF Record
    <3> QED BY <1>5, <2>1, <2>2, <2>3
  <2> QED BY <2>1, <2>4
<1>12. TypeOK'
  <2>1. Len(outbound') <= MaxQueue
    BY <1>1, <1>3, <1>6, LedgerAssumption DEF TypeOK
  <2> QED BY <1>1, <1>3, <1>6, <1>10, <1>11, <2>1 DEF TypeOK
<1>13. RecordsInv'
  <2>1. \A j, k \in 1..Len(ledger') : ledger'[j].sub = ledger'[k].sub => j = k
    BY <1>1, <1>11 DEF RecordsInv
  <2>2. ASSUME NEW k \in 1..Len(ledger')
        PROVE  /\ owner'[ledger'[k].req] = ledger'[k].sub
               /\ ledger'[k].outcome # Pending => ledger'[k].outcome[1] = ledger'[k].sub
               /\ \A w \in ledger'[k].waiters :
                     [att |-> w[2], req |-> w[1], sub |-> ledger'[k].sub] \in asked'
    <3>1. CASE k = i
      BY <3>1, <1>1, <1>5, <1>6, <1>7, <1>11 DEF RecordsInv
    <3>2. CASE k # i
      BY <3>2, <1>1, <1>6, <1>11 DEF RecordsInv
    <3> QED BY <3>1, <3>2
  <2> QED BY <2>1, <2>2 DEF RecordsInv
<1>14. OneFrame'
  <2>1. \A j, k \in 1..Len(outbound') : outbound'[j].sub = outbound'[k].sub => j = k
    <3>1. SUFFICES ASSUME NEW j \in 1..Len(outbound'), NEW k \in 1..Len(outbound'),
                          outbound'[j].sub = outbound'[k].sub
                   PROVE  j = k
      OBVIOUS
    <3>2. j + 1 = k + 1
      BY <1>1, <1>3, <1>6, <3>1 DEF OneFrame
    <3> QED BY <3>2
  <2>2. \A j \in 1..Len(outbound'), g \in running : outbound'[j].sub # g.sub
    BY <1>1, <1>3, <1>6 DEF OneFrame
  <2>3. \A k \in 1..Len(inbound), j \in 1..Len(outbound') : inbound[k].sub # outbound'[j].sub
    BY <1>1, <1>3, <1>6 DEF OneFrame
  <2> QED BY <1>1, <1>6, <2>1, <2>2, <2>3 DEF OneFrame
<1>15. \A g \in InFlight' : g \in InFlight /\ g.sub # f.sub
  <2>1. \A k \in 1..Len(outbound') : outbound'[k].sub # f.sub
    BY <1>1, <1>3, <1>6 DEF OneFrame
  <2>2. \A g \in running : g.sub # f.sub
    BY <1>1, <1>3 DEF OneFrame
  <2>3. \A k \in 1..Len(inbound) : inbound[k].sub # f.sub
    BY <1>1, <1>3 DEF OneFrame
  <2> QED BY <1>3, <1>6, <2>1, <2>2, <2>3 DEF InFlight
<1>16. ASSUME NEW g \in InFlight' PROVE Awaited(g)'
  <2>1. PICK k \in 1..Len(ledger) :
           ledger[k].sub = g.sub /\ ledger[k].req = g.req /\ ledger[k].outcome = Pending
    BY <1>1, <1>2, <1>15 DEF FlightInv, Awaited
  <2>2. k # i
    BY <2>1, <1>5, <1>15
  <2> QED BY <2>1, <2>2, <1>11 DEF Awaited
<1>17. FlightInv'
  BY <1>2, <1>6, <1>16 DEF FlightInv
<1>18. \A s : Tracked(s) => Tracked(s)'
  BY <1>11 DEF Tracked, Index
<1>19. WindowInv'
  BY <1>6, <1>18 DEF LedgerInv, WindowInv, Seen
<1>20. released' => current' = None
  BY <1>6 DEF LedgerInv
<1> QED BY <1>10, <1>12, <1>13, <1>14, <1>17, <1>19, <1>20 DEF LedgerInv

\* The attachment comes and goes.
LEMMA AttachmentStep ==
    ASSUME LedgerInv, Attach \/ Detach \/ Release
    PROVE  LedgerInv'
<1> USE DEF Attach, Detach, Release, innerVars
<1>1. TypeOK /\ OneFrame /\ FlightInv
  BY DEF LedgerInv
<1>2. UNCHANGED <<ledger, cleared, dispatched, owner, asked, replies, inbound, running, outbound, wsClosed>>
  OBVIOUS
<1>3. RecordsInv' /\ RepliesAreOriginal' /\ WindowInv' /\ \A f : Awaited(f)' <=> Awaited(f)
  BY <1>2, LedgerUntouched
<1>4. OneFrame' /\ InFlight' = InFlight
  BY <1>1, <1>2 DEF OneFrame, InFlight
<1>5. /\ current' \in Att \cup {None} /\ made' \in Att /\ released' \in BOOLEAN
      /\ released => released'
      /\ released' => current' = None
  <2>1. CASE Attach
    BY <1>1, <2>1, LedgerAssumption DEF TypeOK, Att
  <2>2. CASE Detach
    BY <1>1, <2>2 DEF TypeOK
  <2>3. CASE Release
    BY <1>1, <2>3 DEF TypeOK
  <2> QED BY <2>1, <2>2, <2>3
<1>6. TypeOK'
  BY <1>1, <1>2, <1>5 DEF TypeOK
<1>7. FlightInv'
  BY <1>1, <1>2, <1>3, <1>4, <1>5 DEF FlightInv
<1> QED BY <1>3, <1>4, <1>5, <1>6, <1>7 DEF LedgerInv

LEMMA FinishReleaseStep ==
    ASSUME LedgerInv, FinishRelease
    PROVE  LedgerInv'
<1> USE DEF FinishRelease
<1>1. TypeOK /\ RepliesAreOriginal /\ WindowInv /\ (released => current = None)
  BY DEF LedgerInv
<1>2. /\ OneFrame' /\ InFlight' = {}
      /\ inbound' = <<>> /\ running' = {} /\ outbound' = <<>> /\ wsClosed' = TRUE
  BY CloseInnerFacts
<1>3. TypeOK'
  <2>1. /\ <<>> \in Seq(Frame) /\ Len(<<>>) <= MaxQueue
        /\ <<>> \in Seq(Record) /\ Len(<<>>) <= MaxTracked
    BY LedgerAssumption
  <2> QED BY <1>1, <1>2, <2>1 DEF TypeOK
<1>4. RecordsInv'
  BY DEF RecordsInv
<1>5. FlightInv'
  BY <1>2 DEF FlightInv
<1>6. RepliesAreOriginal' /\ WindowInv'
  BY <1>1 DEF RepliesAreOriginal, WindowInv, Seen
<1> QED BY <1>1, <1>2, <1>3, <1>4, <1>5, <1>6 DEF LedgerInv

\* No step of the ledger, of Hermes or of the lease breaks the invariant.
LEMMA LedgerStep ==
    ASSUME LedgerInv, [Next]_vars
    PROVE  LedgerInv'
<1>1. ASSUME NEW sub \in Submissions, NEW req \in Requests,
             \/ Dispatch(sub, req) \/ Exhausted(sub, req) \/ FeedFails(sub, req)
             \/ PolicyRejected(sub, req) \/ Repeat(sub, req)
      PROVE  LedgerInv'
  BY <1>1, DispatchStep, ExhaustedStep, FeedFailsStep, PolicyRejectedStep, RepeatStep
<1>2. CASE HermesReceives
  BY <1>2, HermesReceivesStep
<1>3. ASSUME NEW f \in running, HermesAnswers(f) PROVE LedgerInv'
  BY <1>3, HermesAnswersStep
<1>4. CASE PumpRetains
  BY <1>4, PumpRetainsStep
<1>5. CASE Attach \/ Detach \/ Release
  BY <1>5, AttachmentStep
<1>6. CASE FinishRelease
  BY <1>6, FinishReleaseStep
<1>7. CASE BridgeExits
  BY <1>7, ClosedStep DEF BridgeExits
<1>8. CASE UNCHANGED vars
  <2>1. /\ UNCHANGED <<ledger, cleared, dispatched, owner, asked, replies>>
        /\ UNCHANGED <<current, made, released, inbound, running, outbound, wsClosed>>
    BY <1>8 DEF vars, innerVars
  <2>2. RecordsInv' /\ RepliesAreOriginal' /\ WindowInv' /\ \A f : Awaited(f)' <=> Awaited(f)
    BY <2>1, LedgerUntouched
  <2>3. TypeOK' /\ OneFrame' /\ InFlight' = InFlight
    BY <2>1 DEF LedgerInv, TypeOK, OneFrame, InFlight
  <2>4. FlightInv' /\ (released' => current' = None)
    BY <2>1, <2>2, <2>3 DEF LedgerInv, FlightInv
  <2> QED BY <2>2, <2>3, <2>4 DEF LedgerInv
<1> QED BY <1>1, <1>2, <1>3, <1>4, <1>5, <1>6, <1>7, <1>8 DEF Next

\* What NothingStranded says of a record, of the frames in flight and of the virtual WebSocket.
Fine(r, F, closed) ==
    r.outcome = Pending => (\E f \in F : f.sub = r.sub) \/ closed \/ r.sub \in PolicyRejects

LEMMA StrandedIs ==
    /\ NothingStranded <=> \A i \in 1..Len(ledger) : Fine(ledger[i], InFlight, wsClosed)
    /\ NothingStranded' <=> \A i \in 1..Len(ledger') : Fine(ledger'[i], InFlight', wsClosed')
BY DEF NothingStranded, Fine

\* Records of the old ledger stay answerable while nothing in flight is lost.
LEMMA StayAnswerable ==
    ASSUME NothingStranded,
           InFlight \subseteq InFlight', wsClosed => wsClosed',
           NEW r, \E k \in 1..Len(ledger) :
                     r.sub = ledger[k].sub /\ (r.outcome = Pending => ledger[k].outcome = Pending)
    PROVE  Fine(r, InFlight', wsClosed')
BY StrandedIs DEF Fine

\* A closed virtual WebSocket stays closed, and excuses every record.
LEMMA ClosedIsAnswerable ==
    ASSUME wsClosed'
    PROVE  NothingStranded'
BY StrandedIs DEF Fine

\* A record is added when the submission is in flight, or refused by the policy.
LEMMA AddedIsAnswerable ==
    ASSUME LedgerInv, NothingStranded,
           NEW sub \in Submissions, NEW req \in Requests, HasRoom,
           \/ ledger' = Append(Roomy, NewRecord(sub, req)) /\ Fine(NewRecord(sub, req), InFlight', wsClosed')
           \/ ledger' = Roomy,
           InFlight \subseteq InFlight', wsClosed => wsClosed'
    PROVE  NothingStranded'
<1>1. Roomy \in Seq(Record) /\ \A j \in 1..Len(Roomy) : \E k \in 1..Len(ledger) : Roomy[j] = ledger[k]
  BY RoomyFacts DEF LedgerInv
<1>2. \A j \in 1..Len(Roomy) : Fine(Roomy[j], InFlight', wsClosed')
  <2>1. TAKE j \in 1..Len(Roomy)
  <2>2. \E k \in 1..Len(ledger) :
           Roomy[j].sub = ledger[k].sub /\ (Roomy[j].outcome = Pending => ledger[k].outcome = Pending)
    BY <1>1
  <2> DEFINE r == Roomy[j]
  <2> HIDE DEF r
  <2> QED BY <2>2, StayAnswerable DEF r
<1>3. CASE ledger' = Append(Roomy, NewRecord(sub, req)) /\ Fine(NewRecord(sub, req), InFlight', wsClosed')
  <2> DEFINE n == NewRecord(sub, req)
  <2>1. n \in Record
    BY DEF NewRecord, Record
  <2> HIDE DEF n, Record
  <2>2. /\ ledger' = Append(Roomy, n) /\ Len(Roomy) \in Nat
        /\ \A i \in 1..Len(ledger') : ledger'[i] = n \/ (i \in 1..Len(Roomy) /\ ledger'[i] = Roomy[i])
    BY <1>1, <1>3, <2>1 DEF n
  <2>3. Fine(n, InFlight', wsClosed')
    BY <1>3 DEF n
  <2> QED BY <1>2, <2>2, <2>3, StrandedIs
<1>4. CASE ledger' = Roomy
  BY <1>2, <1>4, StrandedIs
<1> QED BY <1>3, <1>4

LEMMA AnswerableStep ==
    ASSUME LedgerInv, NothingStranded, [Next]_vars
    PROVE  NothingStranded'
<1>1. TypeOK /\ RecordsInv /\ FlightInv
  BY DEF LedgerInv
<1>2. CASE wsClosed'
  BY <1>2, ClosedIsAnswerable
<1>3. ASSUME ledger' = ledger, InFlight \subseteq InFlight', wsClosed => wsClosed'
      PROVE  NothingStranded'
  <2>1. SUFFICES ASSUME NEW i \in 1..Len(ledger')
                 PROVE  Fine(ledger'[i], InFlight', wsClosed')
    BY StrandedIs
  <2> DEFINE r == ledger'[i]
  <2>2. \E k \in 1..Len(ledger) : r.sub = ledger[k].sub /\ (r.outcome = Pending => ledger[k].outcome = Pending)
    BY <1>3
  <2> HIDE DEF r
  <2> QED BY <1>3, <2>2, StayAnswerable DEF r
<1>4. ASSUME NEW sub \in Submissions, NEW req \in Requests, Dispatch(sub, req)
      PROVE  NothingStranded'
  <2> DEFINE f == [sub |-> sub, req |-> req, n |-> dispatched[sub] + 1]
  <2>1. /\ ledger' = Append(Roomy, NewRecord(sub, req)) /\ HasRoom
        /\ inbound' = Append(inbound, f) /\ UNCHANGED <<running, outbound, wsClosed>>
    BY <1>4 DEF Dispatch
  <2>2. f \in Frame /\ f.sub = sub
    BY <1>1 DEF Frame, TypeOK
  <2> HIDE DEF f
  <2>3. /\ Len(inbound) \in Nat /\ Len(inbound') = Len(inbound) + 1
        /\ \A i \in 1..Len(inbound) : inbound'[i] = inbound[i]
        /\ inbound'[Len(inbound) + 1] = f
    <3>1. inbound \in Seq(Frame)
      BY <1>1 DEF TypeOK
    <3> HIDE DEF Frame
    <3> QED BY <2>1, <2>2, <3>1
  <2>4. InFlight \subseteq InFlight' /\ f \in InFlight'
    BY <2>1, <2>3 DEF InFlight
  <2>5. Fine(NewRecord(sub, req), InFlight', wsClosed')
    BY <2>2, <2>4 DEF Fine, NewRecord
  <2> QED BY <2>1, <2>4, <2>5, AddedIsAnswerable
<1>5. ASSUME NEW sub \in Submissions, NEW req \in Requests, Exhausted(sub, req)
      PROVE  NothingStranded'
  <2>1. UNCHANGED <<ledger, inbound, running, outbound, wsClosed>>
    BY <1>5 DEF Exhausted, innerVars
  <2> QED BY <1>3, <2>1 DEF InFlight
<1>6. ASSUME NEW sub \in Submissions, NEW req \in Requests, FeedFails(sub, req), ~wsClosed'
      PROVE  NothingStranded'
  <2>1. UNCHANGED <<inbound, running, outbound, wsClosed>> /\ ledger' = Roomy /\ HasRoom
    BY <1>6 DEF FeedFails, CloseInner
  <2>2. InFlight' = InFlight
    BY <2>1 DEF InFlight
  <2> QED BY <2>1, <2>2, AddedIsAnswerable
<1>7. ASSUME NEW sub \in Submissions, NEW req \in Requests, PolicyRejected(sub, req)
      PROVE  NothingStranded'
  <2>1. /\ UNCHANGED <<inbound, running, outbound, wsClosed>> /\ HasRoom /\ sub \in PolicyRejects
        /\ ledger' = Append(Roomy, NewRecord(sub, req))
    BY <1>7 DEF PolicyRejected, innerVars
  <2>2. InFlight' = InFlight
    BY <2>1 DEF InFlight
  <2>3. Fine(NewRecord(sub, req), InFlight', wsClosed')
    BY <2>1 DEF Fine, NewRecord
  <2> QED BY <2>1, <2>2, <2>3, AddedIsAnswerable
<1>8. ASSUME NEW sub \in Submissions, NEW req \in Requests, Repeat(sub, req)
      PROVE  NothingStranded'
  <2>1. UNCHANGED <<inbound, running, outbound, wsClosed>>
    BY <1>8 DEF Repeat, innerVars
  <2>2. InFlight' = InFlight
    BY <2>1 DEF InFlight
  <2>3. CASE ledger' = ledger
    BY <1>3, <2>1, <2>2, <2>3
  <2>4. CASE ledger' # ledger
    <3> DEFINE i == Min(Index(sub))
               w == <<req, current>>
    <3>1. ledger' = [ledger EXCEPT ![i].waiters = @ \cup {w}]
      BY <1>8, <2>4 DEF Repeat
    <3> HIDE DEF i, w
    <3> DEFINE n == [ledger[i] EXCEPT !.waiters = @ \cup {w}]
    <3>2. Len(ledger') = Len(ledger) /\ \A k \in 1..Len(ledger) :
             ledger'[k].sub = ledger[k].sub /\ ledger'[k].outcome = ledger[k].outcome
      <4>1. ledger \in Seq(Record)
        BY <1>1 DEF TypeOK
      <4>2. i \in 1..Len(ledger) => n.sub = ledger[i].sub /\ n.outcome = ledger[i].outcome
        <5>1. i \in 1..Len(ledger) => ledger[i] \in Record
          BY <1>1, RecordFields
        <5> QED BY <5>1 DEF Record
      <4>3. ledger' = [ledger EXCEPT ![i] = n]
        BY <3>1
      <4> HIDE DEF n, Record
      <4>4. Len(ledger') = Len(ledger) /\ \A k \in 1..Len(ledger) : ledger'[k] = IF k = i THEN n ELSE ledger[k]
        BY <4>1, <4>3
      <4> QED BY <4>2, <4>4
    <3>3. SUFFICES ASSUME NEW j \in 1..Len(ledger')
                   PROVE  Fine(ledger'[j], InFlight', wsClosed')
      BY StrandedIs
    <3> DEFINE r == ledger'[j]
    <3>4. \E k \in 1..Len(ledger) : r.sub = ledger[k].sub /\ (r.outcome = Pending => ledger[k].outcome = Pending)
      BY <3>2
    <3> HIDE DEF r
    <3> QED BY <2>1, <2>2, <3>4, StayAnswerable DEF r
  <2> QED BY <2>3, <2>4
<1>9. CASE HermesReceives
  <2>1. /\ UNCHANGED <<ledger, outbound, wsClosed>> /\ inbound # <<>> /\ inbound \in Seq(Frame)
        /\ running' = running \cup {Head(inbound)} /\ inbound' = Tail(inbound)
    BY <1>1, <1>9 DEF HermesReceives, TypeOK
  <2>2. \A i \in 1..Len(inbound) : inbound[i] = Head(inbound) \/
           \E j \in 1..Len(inbound') : inbound'[j] = inbound[i]
    <3>1. TAKE i \in 1..Len(inbound)
    <3>2. /\ Len(Tail(inbound)) = Len(inbound) - 1 /\ Len(inbound) \in Nat \ {0}
          /\ \A k \in 1..Len(Tail(inbound)) : Tail(inbound)[k] = inbound[k + 1]
          /\ Head(inbound) = inbound[1]
      BY <2>1, TailFacts
    <3>3. CASE i = 1
      BY <3>2, <3>3
    <3>4. CASE i # 1
      <4>1. i - 1 \in 1..Len(Tail(inbound)) /\ Tail(inbound)[i - 1] = inbound[i]
        BY <3>2, <3>4
      <4> QED BY <2>1, <4>1
    <3> QED BY <3>3, <3>4
  <2>3. InFlight \subseteq InFlight'
    BY <2>1, <2>2 DEF InFlight
  <2> QED BY <1>3, <2>1, <2>3
<1>10. ASSUME NEW f \in running, HermesAnswers(f), ~wsClosed'
       PROVE  NothingStranded'
  <2>1. /\ UNCHANGED <<ledger, inbound, wsClosed>>
        /\ running' = running \ {f} /\ outbound' = Append(outbound, f)
    BY <1>10 DEF HermesAnswers, CloseInner
  <2>2. outbound \in Seq(Frame) /\ f \in Frame
    BY <1>1 DEF TypeOK
  <2>3. /\ Len(outbound) \in Nat /\ Len(outbound') = Len(outbound) + 1
        /\ \A i \in 1..Len(outbound) : outbound'[i] = outbound[i]
        /\ outbound'[Len(outbound) + 1] = f
    <3> HIDE DEF Frame
    <3> QED BY <2>1, <2>2
  <2>4. InFlight \subseteq InFlight'
    BY <2>1, <2>3 DEF InFlight
  <2> QED BY <1>3, <2>1, <2>4
<1>11. CASE PumpRetains /\ ~wsClosed'
  <2> DEFINE f == Head(outbound)
             hits == {k \in 1..Len(ledger) : ledger[k].outcome = Pending /\ ledger[k].req = f.req}
             i == Min(hits)
             o == <<f.sub, f.n>>
  <2>1. outbound \in Seq(Frame) /\ outbound # <<>> /\ ~cleared /\ outbound' = Tail(outbound)
        /\ UNCHANGED <<inbound, running, wsClosed>>
    BY <1>1, <1>11 DEF TypeOK, PumpRetains
  <2>2. /\ Len(outbound) \in Nat \ {0} /\ Len(Tail(outbound)) = Len(outbound) - 1
        /\ \A k \in 1..Len(Tail(outbound)) : Tail(outbound)[k] = outbound[k + 1]
        /\ f = outbound[1] /\ 1 \in 1..Len(outbound) /\ f \in Frame
    BY <2>1, TailFacts
  <2>3. f \in InFlight
    BY <2>2 DEF InFlight
  <2>4. i \in 1..Len(ledger) /\ ledger[i].sub = f.sub /\ hits # {}
    BY <2>1, <2>3, OutcomeFindsItsRecord
  <2>5. ledger' = [ledger EXCEPT ![i].outcome = o, ![i].waiters = {}]
    BY <1>11, <2>4 DEF PumpRetains, RecordOutcome
  <2>6. o # Pending
    <3>1. o \in Outcome
      BY <2>2 DEF Frame, Outcome
    <3> QED BY <3>1, OutcomeKnown
  <2> HIDE DEF i, o
  <2>7. /\ Len(ledger') = Len(ledger) /\ ledger'[i].outcome = o
        /\ \A k \in 1..Len(ledger) : k # i => ledger'[k] = ledger[k]
    <3>1. ledger \in Seq(Record) /\ ledger[i] \in Record
      BY <1>1, <2>4, RecordFields DEF TypeOK
    <3> DEFINE n == [ledger[i] EXCEPT !.outcome = o, !.waiters = {}]
    <3>2. n.outcome = o
      BY <3>1 DEF Record
    <3>3. ledger' = [ledger EXCEPT ![i] = n]
      BY <2>5
    <3> HIDE DEF n, Record
    <3> QED BY <2>4, <3>1, <3>2, <3>3
  <2>8. \A g \in InFlight : g \in InFlight' \/ g = f
    <3>1. \A k \in 1..Len(outbound) : outbound[k] = f \/ \E j \in 1..Len(outbound') : outbound'[j] = outbound[k]
      <4>1. TAKE k \in 1..Len(outbound)
      <4>2. CASE k = 1
        BY <2>2, <4>2
      <4>3. CASE k # 1
        <5>1. k - 1 \in 1..Len(Tail(outbound)) /\ Tail(outbound)[k - 1] = outbound[k]
          BY <2>2, <4>3
        <5> QED BY <2>1, <5>1
      <4> QED BY <4>2, <4>3
    <3> HIDE DEF f
    <3> QED BY <2>1, <3>1 DEF InFlight
  <2> HIDE DEF f
  <2>9. SUFFICES ASSUME NEW k \in 1..Len(ledger'), ledger'[k].outcome = Pending, ~wsClosed,
                        ledger'[k].sub \notin PolicyRejects
                 PROVE  \E g \in InFlight' : g.sub = ledger'[k].sub
    BY <2>1, StrandedIs DEF Fine
  <2>10. k # i /\ k \in 1..Len(ledger) /\ ledger'[k] = ledger[k]
    BY <2>6, <2>7, <2>9
  <2>11. PICK g \in InFlight : g.sub = ledger[k].sub
    BY <2>9, <2>10, StrandedIs DEF Fine
  <2>12. g # f
    BY <1>1, <2>4, <2>10, <2>11 DEF RecordsInv
  <2> QED BY <2>8, <2>10, <2>11, <2>12
<1>12. CASE Attach \/ Detach \/ Release
  <2>1. UNCHANGED <<ledger, inbound, running, outbound, wsClosed>>
    BY <1>12 DEF Attach, Detach, Release, innerVars
  <2> QED BY <1>3, <2>1 DEF InFlight
<1>13. CASE FinishRelease \/ BridgeExits
  BY <1>2, <1>13 DEF FinishRelease, BridgeExits, CloseInner
<1>14. CASE UNCHANGED vars
  <2>1. UNCHANGED <<ledger, inbound, running, outbound, wsClosed>>
    BY <1>14 DEF vars, innerVars
  <2> QED BY <1>3, <2>1 DEF InFlight
<1> QED BY <1>2, <1>4, <1>5, <1>6, <1>7, <1>8, <1>9, <1>10, <1>11, <1>12, <1>13, <1>14 DEF Next

-----------------------------------------------------------------------------
(* The theorems                                                            *)

LEMMA LedgerInvariant == Spec => []LedgerInv
<1>1. Init => LedgerInv
  BY InitLedger
<1>2. LedgerInv /\ [Next]_vars => LedgerInv'
  BY LedgerStep
<1> QED BY <1>1, <1>2, PTL DEF Spec

\* Every answer a repeat gets is the outcome Hermes gave to that very
\* submission, and goes to the attachment and the request id that asked
\* (_record_outcome, _deliver_local), whatever the limits are.
THEOREM RepliesAreOriginalHolds == Spec => []RepliesAreOriginal
<1>1. LedgerInv => RepliesAreOriginal
  BY DEF LedgerInv
<1> QED BY <1>1, LedgerInvariant, PTL

\* The ledger keeps its type and its limit, eviction never forgets a
\* submission that Hermes still works on, and no failed feed but the policy's
\* leaves a record behind that nothing will answer (submit_text).
THEOREM InFlightIsTrackedHolds == Spec => []InFlightIsTracked
<1> DEFINE A == LedgerInv /\ NothingStranded
<1>1. Init => A
  <2>1. Init => NothingStranded
    BY DEF Init, NothingStranded
  <2> QED BY <2>1, InitLedger
<1>2. A /\ [Next]_vars => A'
  <2>1. ASSUME LedgerInv, NothingStranded, [Next]_vars
        PROVE  LedgerInv' /\ NothingStranded'
    BY <2>1, LedgerStep, AnswerableStep
  <2> QED BY <2>1
<1>3. A => InFlightIsTracked
  BY DEF LedgerInv, FlightInv, Awaited, InFlightIsTracked
<1> HIDE DEF A
<1> QED BY <1>1, <1>2, <1>3, PTL DEF Spec

\* A lease that sees no more submissions than it tracks dispatches none
\* twice, over reconnects, repeats and failed feeds (submit_text).
THEOREM OnceWithinWindowHolds == Spec => []OnceWithinWindow
<1>1. LedgerInv => OnceWithinWindow
  BY DEF LedgerInv, WindowInv, Seen, OnceWithinWindow
<1> QED BY <1>1, LedgerInvariant, PTL

-----------------------------------------------------------------------------
(***************************************************************************)
(* Second part.  RecoveryInv is the inductive invariant of LeaseRecovery:  *)
(* what memory, the file and the reports have in common (ReportsInv) and   *)
(* where the end of a task is kept (EndsInv).                              *)
(***************************************************************************)

\* a store's list: no more rows than its limit, each with a revision it gave out
StoreOK(S) ==
    /\ S \in Store
    /\ IsFiniteSet(S.rows)
    /\ \A r \in S.rows : r.rev <= S.rev

\* a revision names one row
Agree(R) == \A r, q \in R : r.rev = q.rev => r = q

\* the end of a task is in a store, or the store says that it lacks rows
KeepsEnd(S, s, k) ==
    S.trunc \/ \E r \in S.rows : r.s = s /\ r.k = k /\ r.st = "end"

\* what was reported or can be after a restart: no revision means two rows, and the file is
\* at most one revision ahead, by a write that failed after it replaced the file
ReportsInv ==
    /\ Agree(told \cup store.rows \cup disk.rows)
    /\ \A r \in told : r.rev <= store.rev
    /\ disk.rev \in {store.rev, store.rev + 1}

\* the end of a task is kept in memory and in the file alike
EndsInv ==
    /\ \A e \in ended : e[1] \notin revoked => KeepsEnd(store, e[1], e[2]) /\ KeepsEnd(disk, e[1], e[2])
    /\ \A r \in store.rows : r.st = "end" => KeepsEnd(disk, r.s, r.k)

RecoveryInv ==
    /\ RecoveryTypeOK /\ StoreOK(store) /\ StoreOK(disk)
    /\ ReportsInv /\ EndsInv
    /\ \A s \in Scopes : lease[s].on => s \notin revoked
-----------------------------------------------------------------------------
(* Lemmas about the store's operations                                     *)

\* a set of numbers that is not empty has a least one
LEMMA LeastOf ==
    ASSUME NEW S, S \subseteq Nat, S # {}
    PROVE  \E least \in S : \A x \in S : least <= x
<1> DEFINE R == OpToRel(<, Nat)
<1>1. \A x, y \in Nat : <<x, y>> \in R <=> x < y
  BY DEF OpToRel
<1>2. IsWellFoundedOn(R, Nat)
  BY NatLessThanWellFounded
<1> HIDE DEF R
<1>3. PICK least \in S : \A x \in S : ~(<<x, least>> \in R)
  BY <1>2, WFMin
<1>4. \A x \in S : ~(x < least)
  BY <1>1, <1>3
<1> QED
  BY <1>4

\* the newest n rows are at most n, and a row that is not one of them had n newer ones
LEMMA NewestIs ==
    ASSUME NEW R, IsFiniteSet(R), \A r \in R : r.rev \in Nat, NEW n \in Nat
    PROVE  /\ Newest(R, n) \subseteq R /\ IsFiniteSet(Newest(R, n))
           /\ Cardinality(Newest(R, n)) <= n
           /\ \A r \in R : r \in Newest(R, n) \/ Cardinality(R) > n
<1> DEFINE N == Newest(R, n)
           From(r) == {q \in R : q.rev >= r.rev}
<1>1. N = {r \in R : Cardinality(From(r)) <= n}
  BY DEF Newest
<1>2. \A r \in R : IsFiniteSet(From(r)) /\ Cardinality(From(r)) <= Cardinality(R)
  BY FS_Subset
<1>3. Cardinality(R) \in Nat /\ \A r \in R : Cardinality(From(r)) \in Nat
  BY <1>2, FS_CardinalityType
<1>4. N \subseteq R /\ IsFiniteSet(N)
  BY <1>1, FS_Subset
<1>5. Cardinality(N) <= n
  <2>1. CASE N = {}
    BY <2>1, FS_EmptySet
  <2>2. CASE N # {}
    <3> DEFINE revs == {r.rev : r \in N}
    <3>1. revs \subseteq Nat /\ revs # {}
      BY <1>4, <2>2
    <3> HIDE DEF revs
    <3>2. PICK least \in revs : \A x \in revs : least <= x
      BY <3>1, LeastOf
    <3>3. PICK r \in N : r.rev = least
      BY <3>2 DEF revs
    <3>4. \A q \in N : q \in R /\ q.rev \in Nat /\ r.rev \in Nat /\ r.rev <= q.rev
      BY <1>4, <3>2, <3>3 DEF revs
    <3>5. N \subseteq From(r)
      BY <3>4
    <3>6. r \in R /\ Cardinality(From(r)) <= n
      BY <1>1, <3>3
    <3> HIDE DEF N, From
    <3>7. IsFiniteSet(From(r)) /\ Cardinality(From(r)) \in Nat
      BY <1>2, <1>3, <3>6
    <3>8. Cardinality(N) <= Cardinality(From(r)) /\ Cardinality(N) \in Nat
      BY <3>5, <3>7, <1>4, FS_Subset, FS_CardinalityType
    <3> QED
      BY <3>6, <3>7, <3>8
  <2> QED
    BY <2>1, <2>2
<1>6. \A r \in R : r \in N \/ Cardinality(R) > n
  <2>1. SUFFICES ASSUME NEW r \in R, r \notin N PROVE Cardinality(R) > n
    OBVIOUS
  <2>2. ~(Cardinality(From(r)) <= n)
    BY <1>1, <2>1
  <2> HIDE DEF From
  <2> QED
    BY <1>2, <1>3, <2>2
<1> QED
  BY <1>4, <1>5, <1>6

\* a pruned store has some of its rows, and says so when not all
LEMMA PruneIs ==
    ASSUME NEW S, StoreOK(S)
    PROVE  /\ StoreOK(Prune(S)) /\ Cardinality(Prune(S).rows) <= MaxStore
           /\ Prune(S).rev = S.rev /\ Prune(S).rows \subseteq S.rows
           /\ \A r \in S.rows : r \in Prune(S).rows \/ Prune(S).trunc
           /\ S.trunc => Prune(S).trunc
<1> DEFINE kept == {r \in S.rows : r.rev > aged}
           newest == Newest(kept, MaxStore)
<1>1. S \in Store /\ IsFiniteSet(S.rows) /\ \A r \in S.rows : r \in Row /\ r.rev \in Nat
  BY RecoveryAssumption DEF StoreOK, Store, Row
<1>2. kept \subseteq S.rows /\ IsFiniteSet(kept) /\ MaxStore \in Nat
  BY <1>1, FS_Subset, RecoveryAssumption
<1>3. /\ newest \subseteq kept /\ IsFiniteSet(newest) /\ Cardinality(newest) <= MaxStore
      /\ \A r \in kept : r \in newest \/ Cardinality(kept) > MaxStore
  <2> HIDE DEF kept
  <2>1. \A r \in kept : r.rev \in Nat
    BY <1>1, <1>2
  <2> QED
    BY <1>2, <2>1, NewestIs
<1> DEFINE short == S.trunc \/ kept # S.rows \/ Cardinality(kept) > MaxStore
<1>4. Prune(S) = [S EXCEPT !.rows = newest, !.trunc = short]
  BY DEF Prune
<1> HIDE DEF kept, newest
<1>5. short \in BOOLEAN
  OBVIOUS
<1> HIDE DEF short
<1>6. /\ Prune(S) \in Store /\ Prune(S).rows = newest /\ Prune(S).rev = S.rev
      /\ Prune(S).trunc = short
  BY <1>1, <1>2, <1>3, <1>4, <1>5 DEF Store
<1>7. \A r \in S.rows : r \in newest \/ short
  BY <1>2, <1>3 DEF short
<1> QED
  BY <1>1, <1>2, <1>3, <1>6, <1>7 DEF StoreOK, short

LEMMA PruneKeeps ==
    ASSUME NEW S, StoreOK(S), NEW s, NEW k, KeepsEnd(S, s, k)
    PROVE  KeepsEnd(Prune(S), s, k)
BY PruneIs DEF KeepsEnd

\* what put leaves: no end is lost in silence, and its row is a new one or an old end
PutGood(S, p, s, k) ==
    /\ p.writes \in BOOLEAN /\ p.row \in Row /\ p.row.s = s /\ p.row.k = k
    /\ StoreOK(p.store) /\ Cardinality(p.store.rows) <= MaxStore
    /\ p.row.rev <= p.store.rev
    /\ IF p.writes
       THEN /\ p.store.rev = S.rev + 1 /\ p.row.rev = S.rev + 1
            /\ p.store.rows \subseteq S.rows \cup {p.row}
       ELSE p.store.rev = S.rev /\ p.store.rows \subseteq S.rows /\ p.row \in S.rows
    /\ p.row.st = "end" => KeepsEnd(p.store, s, k)
    /\ \A s1 \in Scopes, k1 \in Children : KeepsEnd(S, s1, k1) => KeepsEnd(p.store, s1, k1)

LEMMA PutIs ==
    ASSUME NEW S, StoreOK(S), S.rev < MaxRev,
           NEW s \in Scopes, NEW k \in Children, NEW st \in Status
    PROVE  PutGood(S, Put(S, s, k, st), s, k)
<1> DEFINE P == Prune(S)
           prior == {r \in P.rows : r.s = s /\ r.k = k /\ r.st = "end"}
           new == [s |-> s, k |-> k, st |-> st, rev |-> P.rev + 1]
           Q == [P EXCEPT !.rev = @ + 1, !.rows = Without(@, s, k) \cup {new}]
           p == Put(S, s, k, st)
<1>1. /\ StoreOK(P) /\ Cardinality(P.rows) <= MaxStore /\ P.rev = S.rev /\ P.rows \subseteq S.rows
      /\ \A r \in S.rows : r \in P.rows \/ P.trunc
      /\ S.trunc => P.trunc
  BY PruneIs
<1>2. p = IF prior # {}
          THEN [store |-> P, writes |-> FALSE, row |-> CHOOSE r \in prior : TRUE]
          ELSE [store |-> Prune(Q), writes |-> TRUE, row |-> new]
  BY DEF Put
<1>3. S \in Store /\ P \in Store /\ S.rev \in Nat /\ MaxRev \in Nat
  BY <1>1, RecoveryAssumption DEF StoreOK, Store
<1>4. \A s1 \in Scopes, k1 \in Children : KeepsEnd(S, s1, k1) => KeepsEnd(P, s1, k1)
  BY PruneKeeps
<1> HIDE DEF P
<1>5. CASE prior # {}
  <2> DEFINE row == CHOOSE r \in prior : TRUE
  <2>1. row \in prior
    BY <1>5
  <2> HIDE DEF row
  <2>2. p.store = P /\ p.writes = FALSE /\ p.row = row
    BY <1>2, <1>5 DEF row
  <2>3. row \in P.rows /\ row.s = s /\ row.k = k /\ row.st = "end"
    BY <2>1
  <2>4. row \in Row /\ row.rev <= P.rev /\ row \in S.rows
    BY <1>1, <1>3, <2>3 DEF StoreOK, Store
  <2>5. KeepsEnd(P, s, k)
    BY <2>3 DEF KeepsEnd
  <2> HIDE DEF prior
  <2> QED
    BY <1>1, <1>4, <2>2, <2>3, <2>4, <2>5 DEF PutGood
<1>6. CASE prior = {}
  <2> DEFINE others == Without(P.rows, s, k)
  <2>1. p.store = Prune(Q) /\ p.writes = TRUE /\ p.row = new
    BY <1>2, <1>6
  <2>2. new \in Row /\ new.rev = S.rev + 1 /\ new.s = s /\ new.k = k /\ new.st = st
    BY <1>1, <1>3 DEF Row
  <2>3. others \subseteq P.rows /\ \A r \in P.rows : (r.s = s /\ r.k = k) \/ r \in others
    BY DEF Without
  <2>4. IsFiniteSet(others) /\ others \subseteq Row /\ \A r \in others : r.rev <= S.rev
    <3>1. IsFiniteSet(P.rows) /\ P.rows \subseteq Row /\ \A r \in P.rows : r.rev <= S.rev
      BY <1>1, <1>3 DEF StoreOK, Store
    <3> HIDE DEF others
    <3> QED
      BY <3>1, <2>3, FS_Subset
  <2> HIDE DEF others, new
  <2>5. Q = [P EXCEPT !.rev = @ + 1, !.rows = others \cup {new}]
    BY DEF others
  <2>6. Q.rows = others \cup {new} /\ Q.rev = S.rev + 1 /\ Q.trunc = P.trunc
    BY <1>1, <1>3, <2>5 DEF Store
  <2>7. Q.rows \subseteq Row
    BY <2>6, <2>4, <2>2, <2>3, <1>3 DEF Store
  <2>8. Q.rev \in 0 .. MaxRev
    BY <2>6, <1>3
  <2>9. Q \in Store
    BY <1>3, <2>5, <2>6, <2>7, <2>8 DEF Store
  <2>10. IsFiniteSet(Q.rows)
    BY <2>4, <2>6, FS_AddElement
  <2>11. \A r \in Q.rows : r.rev <= Q.rev
    <3>1. \A r \in others : r.rev \in Nat
      BY <2>6, <2>7 DEF Row
    <3> QED
      BY <3>1, <2>2, <2>4, <2>6, <1>3
  <2>12. StoreOK(Q)
    BY <2>9, <2>10, <2>11 DEF StoreOK
  <2> HIDE DEF Q
  <2>13. /\ StoreOK(Prune(Q)) /\ Cardinality(Prune(Q).rows) <= MaxStore
         /\ Prune(Q).rev = Q.rev /\ Prune(Q).rows \subseteq Q.rows
    BY <2>12, PruneIs
  <2>14. Prune(Q).rows \subseteq S.rows \cup {new}
    BY <2>13, <2>6, <2>3, <1>1
  <2>15. st = "end" => KeepsEnd(Prune(Q), s, k)
    <3>1. st = "end" => KeepsEnd(Q, s, k)
      BY <2>2, <2>6 DEF KeepsEnd
    <3> QED
      BY <3>1, <2>12, PruneKeeps
  <2>16. ASSUME NEW s1 \in Scopes, NEW k1 \in Children, KeepsEnd(S, s1, k1)
         PROVE  KeepsEnd(Prune(Q), s1, k1)
    <3>1. KeepsEnd(P, s1, k1)
      BY <1>4, <2>16
    <3>2. KeepsEnd(Q, s1, k1)
      <4>1. CASE P.trunc
        BY <4>1, <2>6 DEF KeepsEnd
      <4>2. CASE \E r \in P.rows : r.s = s1 /\ r.k = k1 /\ r.st = "end"
        <5>1. PICK r \in P.rows : r.s = s1 /\ r.k = k1 /\ r.st = "end"
          BY <4>2
        <5>2. ~(r.s = s /\ r.k = k)
          BY <5>1, <1>6
        <5>3. r \in Q.rows
          BY <5>1, <5>2, <2>3, <2>6
        <5> QED
          BY <5>1, <5>3 DEF KeepsEnd
      <4> QED
        BY <3>1, <4>1, <4>2 DEF KeepsEnd
    <3> QED
      BY <3>2, <2>12, PruneKeeps
  <2> HIDE DEF prior
  <2> QED
    <3>1. p.writes \in BOOLEAN /\ p.row \in Row /\ p.row.s = s /\ p.row.k = k
      BY <2>1, <2>2
    <3>2. StoreOK(p.store) /\ Cardinality(p.store.rows) <= MaxStore
      BY <2>1, <2>13
    <3>3. /\ p.store.rev = S.rev + 1 /\ p.row.rev = S.rev + 1 /\ p.row.rev <= p.store.rev
          /\ p.store.rows \subseteq S.rows \cup {p.row}
      BY <1>3, <2>1, <2>2, <2>6, <2>13, <2>14
    <3>4. p.row.st = "end" => KeepsEnd(p.store, s, k)
      BY <2>1, <2>2, <2>15
    <3>5. \A s1 \in Scopes, k1 \in Children : KeepsEnd(S, s1, k1) => KeepsEnd(p.store, s1, k1)
      BY <2>1, <2>16
    <3> HIDE DEF p
    <3>6. p.writes
      BY <2>1
    <3>7. PutGood(S, p, s, k)
      BY <3>1, <3>2, <3>3, <3>4, <3>5, <3>6 DEF PutGood
    <3> QED
      BY <3>7 DEF p
<1> QED
  BY <1>5, <1>6

\* with put, a revision still names one row among all that was reported
LEMMA PutAgrees ==
    ASSUME NEW S, StoreOK(S), NEW p, NEW s, NEW k, PutGood(S, p, s, k), NEW T,
           \A r \in T : r.rev \in Nat /\ r.rev <= S.rev, Agree(T \cup S.rows)
    PROVE  Agree(T \cup {p.row} \cup p.store.rows)
<1>1. S.rev \in Nat /\ \A r \in S.rows : r.rev \in Nat /\ r.rev <= S.rev
  BY RecoveryAssumption DEF StoreOK, Store, Row
<1>2. CASE ~p.writes
  BY <1>2 DEF PutGood, Agree
<1>3. CASE p.writes
  <2>1. p.row.rev = S.rev + 1 /\ p.store.rows \subseteq S.rows \cup {p.row}
    BY <1>3 DEF PutGood
  <2>2. SUFFICES ASSUME NEW r \in T \cup S.rows \cup {p.row}, NEW q \in T \cup S.rows \cup {p.row},
                        r.rev = q.rev
                 PROVE  r = q
    BY <2>1 DEF Agree
  <2>3. \A x \in T \cup S.rows : x.rev # S.rev + 1
    BY <1>1
  <2> QED
    BY <2>1, <2>2, <2>3 DEF Agree
<1> QED
  BY <1>2, <1>3 DEF PutGood

-----------------------------------------------------------------------------
(* The stores of _persist, task after task                                 *)

\* the steps of After, up to the n-th task
StepsTo(f, s, n) ==
    f = [m \in 0 .. n |->
            IF m = 0 THEN [store |-> store, row |-> <<>>, writes |-> FALSE]
            ELSE Put(f[m - 1].store, s, lease[s].tasks[m].k, lease[s].tasks[m].st)]

\* there are such steps for every number of tasks: a least number without them can not be
LEMMA AfterIs ==
    ASSUME NEW s \in Scopes, Len(lease[s].tasks) \in Nat
    PROVE  StepsTo(After(s), s, Len(lease[s].tasks))
<1> DEFINE N == Len(lease[s].tasks)
           first == [store |-> store, row |-> <<>>, writes |-> FALSE]
           next(p, m) == Put(p.store, s, lease[s].tasks[m].k, lease[s].tasks[m].st)
           bad == {n \in 0 .. N : ~ \E f : StepsTo(f, s, n)}
<1>1. ASSUME bad # {} PROVE FALSE
  <2>1. PICK n \in bad : \A x \in bad : n <= x
    <3>1. bad \subseteq Nat
      OBVIOUS
    <3> HIDE DEF bad
    <3> QED
      BY <1>1, <3>1, LeastOf
  <2>2. n # 0
    <3>1. SUFFICES ASSUME n = 0 PROVE FALSE
      OBVIOUS
    <3> DEFINE g == [m \in 0 .. 0 |-> first]
    <3>2. g = [m \in 0 .. 0 |-> IF m = 0 THEN first ELSE next(g[m - 1], m)]
      <4>1. \A m \in 0 .. 0 : m = 0
        OBVIOUS
      <4> HIDE DEF first, next
      <4> QED
        BY <4>1
    <3> HIDE DEF g
    <3>3. StepsTo(g, s, 0)
      BY <3>2 DEF StepsTo
    <3> QED
      BY <2>1, <3>1, <3>3
  <2>3. n \in Nat /\ n <= N /\ n - 1 \in 0 .. N /\ n - 1 \notin bad
    BY <2>1, <2>2
  <2>4. PICK f : StepsTo(f, s, n - 1)
    BY <2>3
  <2> DEFINE g == [m \in 0 .. n |-> IF m = n THEN next(f[n - 1], n) ELSE f[m]]
  <2>5. \A m \in 0 .. n - 1 : f[m] = IF m = 0 THEN first ELSE next(f[m - 1], m)
    <3>1. f = [m \in 0 .. n - 1 |-> IF m = 0 THEN first ELSE next(f[m - 1], m)]
      BY <2>4 DEF StepsTo
    <3> HIDE DEF first, next
    <3> QED
      BY <3>1
  <2> HIDE DEF first, next
  <2>6. \A m \in 0 .. n : g[m] = IF m = 0 THEN first ELSE next(g[m - 1], m)
    <3>1. TAKE m \in 0 .. n
    <3>2. CASE m = n
      <4>1. g[m] = next(f[n - 1], n) /\ g[m - 1] = f[n - 1] /\ m # 0
        BY <3>2, <2>2, <2>3
      <4> HIDE DEF g
      <4> QED
        BY <4>1, <3>2
    <3>3. CASE m # n
      <4>1. m \in 0 .. n - 1 /\ (m # 0 => m - 1 \in 0 .. n /\ m - 1 # n)
        BY <3>3, <2>3
      <4>2. g[m] = f[m] /\ (m # 0 => g[m - 1] = f[m - 1])
        BY <3>3, <4>1
      <4> HIDE DEF g
      <4> QED
        BY <4>1, <4>2, <2>5
    <3> QED
      BY <3>2, <3>3
  <2>7. g = [m \in 0 .. n |-> IF m = 0 THEN first ELSE next(g[m - 1], m)]
    <3>1. g = [m \in 0 .. n |-> g[m]]
      OBVIOUS
    <3> HIDE DEF g
    <3> QED
      BY <3>1, <2>6
  <2> HIDE DEF g
  <2>8. StepsTo(g, s, n)
    BY <2>7 DEF StepsTo, first, next
  <2> QED
    BY <2>1, <2>8
<1>2. \E f : StepsTo(f, s, N)
  BY <1>1
<1>3. After(s) = CHOOSE f : StepsTo(f, s, N)
  BY DEF After, StepsTo
<1> QED
  BY <1>2, <1>3

Wrote(s, n) == \E i \in 1 .. n : After(s)[i].writes
RowsTo(s, n) == {After(s)[i].row : i \in 1 .. n}

\* what holds when n tasks are in
AfterGood(s, n) ==
    LET S == After(s)[n].store
    IN /\ StoreOK(S) /\ Cardinality(S.rows) <= MaxStore
       /\ store.rev <= S.rev /\ S.rev <= store.rev + n
       /\ \A i \in 1 .. n :
             /\ After(s)[i].row \in Row /\ After(s)[i].row.rev <= S.rev
             /\ After(s)[i].row.s = s
             /\ After(s)[i].row.st = "end" => KeepsEnd(S, s, After(s)[i].row.k)
             /\ After(s)[i].writes \in BOOLEAN
       /\ Agree(told \cup RowsTo(s, n) \cup S.rows)
       /\ \A s1 \in Scopes, k1 \in Children : KeepsEnd(store, s1, k1) => KeepsEnd(S, s1, k1)
       /\ ~Wrote(s, n) => S.rev = store.rev /\ S.rows \cup RowsTo(s, n) \subseteq store.rows

LEMMA AfterFirst ==
    ASSUME RecoveryInv, NEW s \in Scopes
    PROVE  AfterGood(s, 0)
<1>1. Len(lease[s].tasks) \in Nat
  BY DEF RecoveryInv, RecoveryTypeOK
<1>2. After(s)[0] = [store |-> store, row |-> <<>>, writes |-> FALSE]
  <2> DEFINE f == After(s)
  <2>1. StepsTo(f, s, Len(lease[s].tasks))
    BY <1>1, AfterIs
  <2>2. 0 \in 0 .. Len(lease[s].tasks)
    BY <1>1
  <2> HIDE DEF f
  <2>3. f[0] = [store |-> store, row |-> <<>>, writes |-> FALSE]
    BY <2>1, <2>2, Zenon DEF StepsTo
  <2> QED
    BY <2>3 DEF f
<1>3. After(s)[0].store = store /\ 1 .. 0 = {} /\ RowsTo(s, 0) = {}
  BY <1>2 DEF RowsTo
<1>4. store.rev \in Nat
  BY DEF RecoveryInv, RecoveryTypeOK, Store
<1>5. Agree(told \cup RowsTo(s, 0) \cup store.rows)
  BY <1>3 DEF RecoveryInv, ReportsInv, Agree
<1> QED
  BY <1>3, <1>4, <1>5 DEF AfterGood, RecoveryInv, RecoveryTypeOK

LEMMA AfterNext ==
    ASSUME RecoveryInv, NEW s \in Scopes, NEW n \in 1 .. Len(lease[s].tasks),
           store.rev + Len(lease[s].tasks) <= MaxRev, AfterGood(s, n - 1)
    PROVE  AfterGood(s, n) /\ PutGood(After(s)[n - 1].store, After(s)[n], s, lease[s].tasks[n].k)
<1> DEFINE N == Len(lease[s].tasks)
           S == After(s)[n - 1].store
           p == After(s)[n]
           k == lease[s].tasks[n].k
<1>1. /\ N \in Nat /\ n \in Nat /\ n >= 1 /\ n <= N /\ store.rev \in Nat /\ MaxRev \in Nat
      /\ k \in Children /\ lease[s].tasks[n].st \in Status
      /\ \A r \in told : r.rev \in Nat /\ r.rev <= store.rev
  <2>1. lease[s].tasks \in Seq(Task)
    BY DEF RecoveryInv, RecoveryTypeOK, Lease
  <2>2. lease[s].tasks[n] \in Task /\ N \in Nat
    BY <2>1
  <2>3. store.rev \in Nat /\ MaxRev \in Nat
    BY RecoveryAssumption DEF RecoveryInv, RecoveryTypeOK, Store
  <2>4. \A r \in told : r.rev \in Nat /\ r.rev <= store.rev
    BY RecoveryAssumption DEF RecoveryInv, RecoveryTypeOK, ReportsInv, Row
  <2> QED
    BY <2>2, <2>3, <2>4 DEF Task
<1>2. p = Put(S, s, k, lease[s].tasks[n].st)
  BY <1>1, AfterIs DEF StepsTo
<1>3. StoreOK(S) /\ store.rev <= S.rev /\ S.rev <= store.rev + (n - 1) /\ S.rev \in Nat
  BY DEF AfterGood, StoreOK, Store
<1>4. S.rev < MaxRev
  BY <1>1, <1>3, SMTT(30)
<1> HIDE DEF p
<1>5. PutGood(S, p, s, k)
  BY <1>1, <1>2, <1>3, <1>4, PutIs
<1>6. /\ StoreOK(p.store) /\ Cardinality(p.store.rows) <= MaxStore /\ p.store.rev \in Nat
      /\ p.row \in Row /\ p.row.s = s /\ p.row.k = k /\ p.writes \in BOOLEAN
      /\ p.row.rev <= p.store.rev /\ p.store.rev \in {S.rev, S.rev + 1}
      /\ p.row.st = "end" => KeepsEnd(p.store, s, k)
  BY <1>5 DEF PutGood, StoreOK, Store
<1>7. \A s1 \in Scopes, k1 \in Children : KeepsEnd(S, s1, k1) => KeepsEnd(p.store, s1, k1)
  BY <1>5 DEF PutGood
<1>8. \A i \in 1 .. n : i = n \/ i \in 1 .. n - 1
  BY <1>1
<1>9. RowsTo(s, n) = RowsTo(s, n - 1) \cup {p.row} /\ (Wrote(s, n) <=> Wrote(s, n - 1) \/ p.writes)
  <2>1. n \in 1 .. n /\ \A i \in 1 .. n - 1 : i \in 1 .. n
    BY <1>1
  <2> QED
    BY <2>1, <1>8 DEF RowsTo, Wrote, p
<1>10. \A i \in 1 .. n :
          /\ After(s)[i].row \in Row /\ After(s)[i].row.rev <= p.store.rev
          /\ After(s)[i].row.s = s
          /\ After(s)[i].row.st = "end" => KeepsEnd(p.store, s, After(s)[i].row.k)
          /\ After(s)[i].writes \in BOOLEAN
  <2>1. TAKE i \in 1 .. n
  <2>2. CASE i = n
    BY <2>2, <1>6 DEF p
  <2>3. CASE i \in 1 .. n - 1
    <3> DEFINE r == After(s)[i].row
    <3>1. /\ r \in Row /\ r.rev <= S.rev /\ r.s = s /\ After(s)[i].writes \in BOOLEAN
          /\ r.st = "end" => KeepsEnd(S, s, r.k)
      BY <2>3 DEF AfterGood
    <3>2. r.k \in Children /\ r.rev \in Nat
      BY <3>1 DEF Row
    <3>3. r.rev <= p.store.rev
      BY <1>3, <1>6, <3>1, <3>2, SMTT(30)
    <3> HIDE DEF r
    <3>4. r.st = "end" => KeepsEnd(p.store, s, r.k)
      BY <1>7, <3>1, <3>2
    <3> QED
      BY <3>1, <3>3, <3>4 DEF r
  <2> QED
    BY <1>8, <2>2, <2>3
<1>11. Agree(told \cup RowsTo(s, n) \cup p.store.rows)
  <2> DEFINE T == told \cup RowsTo(s, n - 1)
  <2>1. \A r \in T : r.rev \in Nat /\ r.rev <= S.rev
    <3>1. \A r \in told : r.rev \in Nat /\ r.rev <= S.rev
      BY <1>1, <1>3
    <3>2. \A i \in 1 .. n - 1 : After(s)[i].row.rev \in Nat /\ After(s)[i].row.rev <= S.rev
      BY DEF AfterGood, Row
    <3> QED
      BY <3>1, <3>2 DEF RowsTo
  <2>2. Agree(T \cup S.rows)
    BY DEF AfterGood
  <2> HIDE DEF T
  <2>3. Agree(T \cup {p.row} \cup p.store.rows)
    BY <1>3, <1>5, <2>1, <2>2, PutAgrees
  <2>4. told \cup RowsTo(s, n) \cup p.store.rows = T \cup {p.row} \cup p.store.rows
    BY <1>9 DEF T
  <2> QED
    BY <2>3, <2>4
<1>12. \A s1 \in Scopes, k1 \in Children : KeepsEnd(store, s1, k1) => KeepsEnd(p.store, s1, k1)
  BY <1>7 DEF AfterGood
<1>13. ASSUME ~Wrote(s, n)
       PROVE  p.store.rev = store.rev /\ p.store.rows \cup RowsTo(s, n) \subseteq store.rows
  <2>1. ~Wrote(s, n - 1) /\ ~p.writes
    BY <1>9, <1>13
  <2>2. S.rev = store.rev /\ S.rows \cup RowsTo(s, n - 1) \subseteq store.rows
    BY <2>1 DEF AfterGood
  <2>3. p.store.rev = S.rev /\ p.store.rows \subseteq S.rows /\ p.row \in S.rows
    BY <1>5, <2>1 DEF PutGood
  <2> QED
    BY <2>2, <2>3, <1>9
<1>14. store.rev <= p.store.rev /\ p.store.rev <= store.rev + n
  <2> DEFINE a == store.rev
             b == S.rev
             c == p.store.rev
  <2>1. a \in Nat /\ b \in Nat /\ c \in Nat /\ n \in Nat
    BY <1>1, <1>3, <1>6
  <2>2. a <= b /\ b <= a + (n - 1) /\ c \in {b, b + 1}
    BY <1>3, <1>6
  <2> HIDE DEF a, b, c
  <2>3. a <= c /\ c <= a + n
    BY <2>1, <2>2
  <2> QED
    BY <2>3 DEF a, c
<1>15. AfterGood(s, n)
  BY <1>6, <1>10, <1>11, <1>12, <1>13, <1>14 DEF AfterGood, p
<1> QED
  BY <1>5, <1>15 DEF p

\* so it holds after any number of tasks
LEMMA AfterAll ==
    ASSUME RecoveryInv, NEW s \in Scopes, store.rev + Len(lease[s].tasks) <= MaxRev
    PROVE  \A n \in 0 .. Len(lease[s].tasks) : AfterGood(s, n)
<1> DEFINE N == Len(lease[s].tasks)
           bad == {n \in 0 .. N : ~AfterGood(s, n)}
<1>1. N \in Nat
  BY DEF RecoveryInv, RecoveryTypeOK
<1>2. ASSUME bad # {} PROVE FALSE
  <2>1. bad \subseteq Nat
    BY <1>1
  <2>2. PICK n \in bad : \A x \in bad : n <= x
    <3> HIDE DEF bad
    <3> QED
      BY <1>2, <2>1, LeastOf
  <2>3. n # 0
    BY <2>2, AfterFirst
  <2>4. n \in 1 .. N /\ n - 1 \in 0 .. N /\ n - 1 \notin bad
    BY <1>1, <2>2, <2>3
  <2>5. AfterGood(s, n - 1)
    BY <2>4
  <2>6. AfterGood(s, n)
    BY <2>4, <2>5, AfterNext
  <2> QED
    BY <2>2, <2>6
<1> QED
  BY <1>2

-----------------------------------------------------------------------------
(* The invariant is inductive                                              *)

LEMMA RecoveryStarts == RecoveryInit => RecoveryInv
<1> SUFFICES ASSUME RecoveryInit PROVE RecoveryInv
  OBVIOUS
<1> USE DEF RecoveryInit
<1>1. IsFiniteSet({}) /\ Cardinality({}) = 0
  BY FS_EmptySet
<1>2. MaxStore \in Nat /\ MaxTasks \in Nat /\ MaxRev \in Nat /\ MaxRestarts \in Nat
  BY RecoveryAssumption
<1>3. store \in Store /\ store.rows = {} /\ disk = store /\ store.rev = 0
  BY <1>2 DEF Store
<1>4. <<>> \in Seq(Task) /\ Len(<<>>) = 0
  OBVIOUS
<1>5. NoLease \in Lease /\ NoLease.tasks = <<>> /\ NoLease.on = FALSE
  BY <1>4 DEF NoLease, Lease
<1>6. RecoveryTypeOK
  BY <1>1, <1>2, <1>3, <1>4, <1>5 DEF RecoveryTypeOK
<1>7. StoreOK(store) /\ StoreOK(disk)
  BY <1>1, <1>3 DEF StoreOK
<1>8. ReportsInv /\ EndsInv
  BY <1>3 DEF ReportsInv, EndsInv, Agree
<1> QED
  BY <1>5, <1>6, <1>7, <1>8 DEF RecoveryInv

\* a step of the store with new reports: the file follows, stays as it is, or is ahead by a
\* write that failed
FileFollows(S1, D1, R) ==
    \/ D1 = S1
    \/ D1 = disk /\ S1.rev = store.rev /\ S1.rows \cup R \subseteq store.rows
    \/ /\ StoreOK(D1) /\ D1.rev = S1.rev + 1
       /\ \E row \in Row : row.rev = S1.rev + 1 /\ D1.rows \subseteq S1.rows \cup {row}
       /\ \A s1 \in Scopes, k1 \in Children : KeepsEnd(S1, s1, k1) => KeepsEnd(D1, s1, k1)

LEMMA StoreMoves ==
    ASSUME RecoveryInv, NEW R, R \subseteq Row,
           Reported(R), Ended(R), UNCHANGED revoked,
           StoreOK(store'), store.rev <= store'.rev, \A r \in R : r.rev <= store'.rev,
           Agree(told \cup R \cup store'.rows),
           \A s1 \in Scopes, k1 \in Children : KeepsEnd(store, s1, k1) => KeepsEnd(store', s1, k1),
           \A r \in R : r.st = "end" => KeepsEnd(store', r.s, r.k),
           FileFollows(store', disk', R)
    PROVE  StoreOK(disk') /\ ReportsInv' /\ EndsInv'
<1>1. /\ StoreOK(disk) /\ store.rev \in Nat /\ store'.rev \in Nat /\ store.rows \subseteq Row
      /\ disk.rows \subseteq Row /\ store'.rows \subseteq Row
      /\ \A r \in Row : r.rev \in Nat /\ r.s \in Scopes /\ r.k \in Children
      /\ told \subseteq Row /\ ended \subseteq Scopes \X Children
  BY RecoveryAssumption, SMTT(30) DEF RecoveryInv, RecoveryTypeOK, StoreOK, Store, Row
<1>2. told' = told \cup R /\ \A r \in told' : r \in Row /\ r.rev <= store'.rev
  <2>1. \A r \in told : r.rev <= store.rev
    BY DEF RecoveryInv, ReportsInv
  <2> QED
    BY <1>1, <2>1 DEF Reported
<1>3. \A e \in ended' : e \in ended \/ \E r \in R : r.st = "end" /\ e = <<r.s, r.k>>
  BY DEF Ended
<1>4. \A e \in ended : e[1] \in Scopes /\ e[2] \in Children
  BY <1>1
<1>5. \A e \in ended' : e[1] \notin revoked => KeepsEnd(store', e[1], e[2])
  BY <1>3, <1>4 DEF RecoveryInv, EndsInv
<1>6. StoreOK(disk')
  BY <1>1 DEF FileFollows
<1>7. ReportsInv'
  <2>1. CASE disk' = store'
    BY <2>1, <1>2 DEF ReportsInv, Agree
  <2>2. CASE disk' = disk /\ store'.rev = store.rev /\ store'.rows \cup R \subseteq store.rows
    BY <2>2, <1>2 DEF ReportsInv, Agree, RecoveryInv
  <2>3. CASE /\ disk'.rev = store'.rev + 1
             /\ \E row \in Row : row.rev = store'.rev + 1 /\ disk'.rows \subseteq store'.rows \cup {row}
    <3>1. PICK row \in Row : row.rev = store'.rev + 1 /\ disk'.rows \subseteq store'.rows \cup {row}
      BY <2>3
    <3>2. \A r \in told' \cup store'.rows : r.rev \in Nat /\ r.rev <= store'.rev
      BY <1>1, <1>2 DEF StoreOK
    <3>3. \A r \in told' \cup store'.rows : r.rev # row.rev
      BY <1>1, <3>1, <3>2
    <3>4. Agree(told' \cup store'.rows \cup {row})
      BY <1>2, <3>3 DEF Agree
    <3> QED
      BY <1>2, <2>3, <3>1, <3>4 DEF ReportsInv, Agree
  <2> QED
    BY <2>1, <2>2, <2>3 DEF FileFollows
<1>8. EndsInv'
  <2>1. CASE disk' = store'
    BY <2>1, <1>5 DEF EndsInv, KeepsEnd
  <2>2. CASE disk' = disk /\ store'.rows \cup R \subseteq store.rows
    <3>1. \A r \in store.rows : r.st = "end" => KeepsEnd(disk, r.s, r.k)
      BY DEF RecoveryInv, EndsInv
    <3>2. ASSUME NEW e \in ended', e[1] \notin revoked PROVE KeepsEnd(disk, e[1], e[2])
      <4>1. CASE e \in ended
        BY <3>2, <4>1 DEF RecoveryInv, EndsInv
      <4>2. CASE \E r \in R : r.st = "end" /\ e = <<r.s, r.k>>
        <5>1. PICK r \in R : r.st = "end" /\ e = <<r.s, r.k>>
          BY <4>2
        <5>2. KeepsEnd(disk, r.s, r.k) /\ e[1] = r.s /\ e[2] = r.k
          BY <5>1, <2>2, <3>1
        <5> QED
          BY <5>2
      <4> QED
        BY <1>3, <4>1, <4>2
    <3>3. \A r \in store'.rows : r.st = "end" => KeepsEnd(disk, r.s, r.k)
      BY <2>2, <3>1
    <3> QED
      BY <1>5, <2>2, <3>2, <3>3 DEF EndsInv
  <2>3. CASE \A s1 \in Scopes, k1 \in Children : KeepsEnd(store', s1, k1) => KeepsEnd(disk', s1, k1)
    <3>1. \A e \in ended' : e[1] \in Scopes /\ e[2] \in Children
      BY <1>1, <1>3, <1>4
    <3>2. \A r \in store'.rows : r.st = "end" =>
                r.s \in Scopes /\ r.k \in Children /\ KeepsEnd(store', r.s, r.k)
      BY <1>1 DEF KeepsEnd
    <3> QED
      BY <1>5, <2>3, <3>1, <3>2 DEF EndsInv
  <2> QED
    BY <2>1, <2>2, <2>3 DEF FileFollows
<1> QED
  BY <1>6, <1>7, <1>8

\* a projection of its last tasks
LEMMA LastOfIs ==
    ASSUME NEW T, NEW q \in Seq(T), NEW n \in Nat
    PROVE  LastOf(q, n) \in Seq(T) /\ Len(LastOf(q, n)) <= n
<1>1. CASE Len(q) <= n
  BY <1>1 DEF LastOf
<1>2. CASE ~(Len(q) <= n)
  <2>1. LastOf(q, n) = SubSeq(q, Len(q) - n + 1, Len(q))
    BY <1>2 DEF LastOf
  <2>2. Len(q) - n + 1 \in 1 .. Len(q) + 1 /\ Len(q) \in Nat
    BY <1>2
  <2> QED
    BY <2>1, <2>2
<1> QED
  BY <1>1, <1>2

LEMMA WithTaskIs ==
    ASSUME RecoveryTypeOK, NEW s \in Scopes, NEW t \in Task
    PROVE  /\ WithTask(s, t) \in Lease /\ Len(WithTask(s, t).tasks) <= MaxTasks
           /\ WithTask(s, t).on = lease[s].on
<1> DEFINE q == lease[s].tasks
           i == CHOOSE i \in Find(s, t.k) : TRUE
           others == IF Find(s, t.k) = {} THEN q ELSE RemoveAt(q, i)
           all == Append(others, t)
<1>1. lease[s] \in Lease /\ q \in Seq(Task) /\ MaxTasks \in Nat
  BY RecoveryAssumption DEF RecoveryTypeOK, Lease
<1>2. others \in Seq(Task)
  <2>1. CASE Find(s, t.k) = {}
    BY <2>1, <1>1
  <2>2. CASE Find(s, t.k) # {}
    <3>1. i \in 1 .. Len(q)
      BY <2>2 DEF Find
    <3> HIDE DEF i, q
    <3>2. SubSeq(q, 1, i - 1) \in Seq(Task) /\ SubSeq(q, i + 1, Len(q)) \in Seq(Task)
      BY <1>1, <3>1
    <3>3. RemoveAt(q, i) \in Seq(Task)
      BY <3>2 DEF RemoveAt
    <3> QED
      BY <2>2, <3>3
  <2> QED
    BY <2>1, <2>2
<1> HIDE DEF others
<1>3. all \in Seq(Task) /\ Len(all) \in Nat
  BY <1>2
<1> HIDE DEF all
<1>4. LastOf(all, MaxTasks) \in Seq(Task) /\ Len(LastOf(all, MaxTasks)) <= MaxTasks
  BY <1>1, <1>3, LastOfIs
<1>5. WithTask(s, t) = [lease[s] EXCEPT !.tasks = LastOf(all, MaxTasks),
                                        !.trunc = @ \/ Len(all) > MaxTasks]
  BY DEF WithTask, all, others
<1> QED
  BY <1>1, <1>4, <1>5 DEF Lease

\* what else the invariant asks of a step
LEMMA RestOfInv ==
    ASSUME RecoveryInv,
           StoreOK(store'), Cardinality(store'.rows) <= MaxStore, StoreOK(disk'),
           ReportsInv', EndsInv', told' \subseteq Row, ended' \subseteq Scopes \X Children,
           revoked' \subseteq Scopes, aged' \in 0 .. MaxRev, restarts' \in 0 .. MaxRestarts,
           lease' \in [Scopes -> Lease],
           \A s \in Scopes : Len(lease'[s].tasks) <= MaxTasks,
           \A s \in Scopes : lease'[s].on => s \notin revoked'
    PROVE  RecoveryInv'
BY DEF RecoveryInv, RecoveryTypeOK, StoreOK

\* the lease of one scope changes: its tasks stay few, and it is not one of a revoked scope
LeaseMoves(s, l) ==
    /\ lease' = [lease EXCEPT ![s] = l]
    /\ l \in Lease /\ Len(l.tasks) <= MaxTasks
    /\ l.on => s \notin revoked'

LEMMA LeaseOfOne ==
    ASSUME RecoveryInv, NEW s \in Scopes, NEW l, LeaseMoves(s, l), UNCHANGED revoked
    PROVE  /\ lease' \in [Scopes -> Lease]
           /\ \A u \in Scopes : Len(lease'[u].tasks) <= MaxTasks
           /\ \A u \in Scopes : lease'[u].on => u \notin revoked'
BY DEF RecoveryInv, RecoveryTypeOK, LeaseMoves

LEMMA NoLeaseIs == NoLease \in Lease /\ Len(NoLease.tasks) <= MaxTasks /\ ~NoLease.on
<1>1. <<>> \in Seq(Task) /\ Len(<<>>) = 0 /\ MaxTasks \in Nat
  BY RecoveryAssumption
<1> QED
  BY <1>1 DEF NoLease, Lease

\* only a lease changes
LEMMA LeaseOnly ==
    ASSUME RecoveryInv, NEW s \in Scopes, NEW l, LeaseMoves(s, l),
           UNCHANGED <<store, disk, aged, revoked, ended, told, restarts>>
    PROVE  RecoveryInv'
<1>1. /\ lease' \in [Scopes -> Lease]
      /\ \A u \in Scopes : Len(lease'[u].tasks) <= MaxTasks
      /\ \A u \in Scopes : lease'[u].on => u \notin revoked'
  BY LeaseOfOne
<1> QED
  BY <1>1 DEF RecoveryInv, RecoveryTypeOK, StoreOK, ReportsInv, EndsInv, Agree, KeepsEnd

\* the store moves, with new reports, and the lease of one scope
LEMMA StoreAndLease ==
    ASSUME RecoveryInv, NEW R, R \subseteq Row,
           Reported(R), Ended(R), UNCHANGED <<aged, revoked, restarts>>,
           StoreOK(store'), Cardinality(store'.rows) <= MaxStore,
           store.rev <= store'.rev, \A r \in R : r.rev <= store'.rev,
           Agree(told \cup R \cup store'.rows),
           \A s1 \in Scopes, k1 \in Children : KeepsEnd(store, s1, k1) => KeepsEnd(store', s1, k1),
           \A r \in R : r.st = "end" => KeepsEnd(store', r.s, r.k),
           FileFollows(store', disk', R),
           lease' \in [Scopes -> Lease],
           \A u \in Scopes : Len(lease'[u].tasks) <= MaxTasks,
           \A u \in Scopes : lease'[u].on => u \notin revoked'
    PROVE  RecoveryInv'
<1>1. StoreOK(disk') /\ ReportsInv' /\ EndsInv'
  BY StoreMoves
<1>2. told' \subseteq Row
  BY DEF Reported, RecoveryInv, RecoveryTypeOK
<1>3. ended' \subseteq Scopes \X Children
  BY DEF Ended, RecoveryInv, RecoveryTypeOK, Row
<1>4. revoked' \subseteq Scopes /\ aged' \in 0 .. MaxRev /\ restarts' \in 0 .. MaxRestarts
  BY DEF RecoveryInv, RecoveryTypeOK
<1> QED
  BY <1>1, <1>2, <1>3, <1>4, RestOfInv

\* nothing new is reported
LEMMA NothingNew ==
    ASSUME UNCHANGED <<told, ended>>
    PROVE  Reported({}) /\ Ended({})
BY DEF Reported, Ended

LEMMA StoreStays ==
    ASSUME RecoveryInv
    PROVE  /\ StoreOK(store) /\ Cardinality(store.rows) <= MaxStore /\ store.rev <= store.rev
           /\ Agree(told \cup store.rows) /\ Agree(told \cup {} \cup store.rows)
           /\ \A r \in told : r.rev \in Nat /\ r.rev <= store.rev
<1>1. \A r \in Row : r.rev \in Nat
  BY RecoveryAssumption DEF Row
<1> QED
  BY <1>1 DEF RecoveryInv, RecoveryTypeOK, ReportsInv, Agree, StoreOK, Store

LEMMA ObserveInv ==
    ASSUME RecoveryInv, NEW s \in Scopes, NEW k \in Children, NEW st \in Status, Observe(s, k, st)
    PROVE  RecoveryInv'
<1> DEFINE l == lease[s]
           p == Put(store, s, k, st)
<1>1. l \in Lease /\ l.on /\ s \notin revoked /\ UNCHANGED <<aged, revoked, restarts>>
  BY DEF Observe, RecoveryInv, RecoveryTypeOK
<1>2. RecoveryTypeOK /\ store.rev \in Nat /\ MaxRev \in Nat
  BY RecoveryAssumption DEF RecoveryInv, RecoveryTypeOK, Store
<1>3. CASE l.bound /\ l.stored
  <2>1. store.rev < MaxRev
    BY <1>3 DEF Observe
  <2>2. PutGood(store, p, s, k)
    BY <2>1, StoreStays, PutIs
  <2>3. /\ p.row \in Row /\ p.row.s = s /\ p.row.k = k /\ p.writes \in BOOLEAN
        /\ p.row.st \in Status /\ p.row.rev \in 1 .. MaxRev
        /\ StoreOK(p.store) /\ Cardinality(p.store.rows) <= MaxStore
        /\ store.rev <= p.store.rev /\ p.row.rev <= p.store.rev
        /\ p.row.st = "end" => KeepsEnd(p.store, s, k)
        /\ \A s1 \in Scopes, k1 \in Children : KeepsEnd(store, s1, k1) => KeepsEnd(p.store, s1, k1)
    BY <2>2, <1>2 DEF PutGood, Row
  <2>4. Agree(told \cup {p.row} \cup p.store.rows)
    BY <2>2, StoreStays, PutAgrees
  <2> HIDE DEF p
  <2>5. CASE /\ store' = p.store
             /\ disk' = IF p.writes THEN p.store ELSE disk
             /\ lease' = [lease EXCEPT ![s] = WithTask(s,
                             [k |-> k, st |-> p.row.st, bound |-> TRUE, rev |-> p.row.rev])]
             /\ Reported({p.row}) /\ Ended({p.row})
    <3> DEFINE t == [k |-> k, st |-> p.row.st, bound |-> TRUE, rev |-> p.row.rev]
    <3>1. t \in Task
      BY <2>3, <1>2 DEF Task
    <3> HIDE DEF t
    <3>2. LeaseMoves(s, WithTask(s, t))
      BY <3>1, <1>1, <1>2, <2>5, WithTaskIs DEF LeaseMoves, t
    <3>3. FileFollows(store', disk', {p.row})
      BY <2>2, <2>3, <2>5 DEF FileFollows, PutGood
    <3>4. /\ lease' \in [Scopes -> Lease]
          /\ \A u \in Scopes : Len(lease'[u].tasks) <= MaxTasks
          /\ \A u \in Scopes : lease'[u].on => u \notin revoked'
      BY <3>2, <1>1, LeaseOfOne
    <3>5. {p.row} \subseteq Row
      BY <2>3
    <3> DEFINE R == {p.row}
    <3>6. /\ \A r \in R : r.rev <= store'.rev /\ (r.st = "end" => KeepsEnd(store', r.s, r.k))
          /\ Agree(told \cup R \cup store'.rows) /\ Reported(R) /\ Ended(R)
          /\ R \subseteq Row /\ FileFollows(store', disk', R)
      BY <2>3, <2>4, <2>5, <3>3, <3>5
    <3> HIDE DEF R
    <3> QED
      BY <3>4, <3>6, <1>1, <2>3, <2>5, StoreAndLease
  <2>6. CASE p.writes /\ WriteFails(s, p.store)
    <3>1. store' = store /\ disk' \in {disk, p.store} /\ UNCHANGED <<told, ended>>
      BY <2>6 DEF WriteFails
    <3>2. LeaseMoves(s, NoLease)
      BY <2>6, NoLeaseIs DEF WriteFails, LeaseMoves
    <3>3. FileFollows(store', disk', {})
      <4>1. CASE disk' = disk
        BY <4>1, <3>1 DEF FileFollows
      <4>2. CASE disk' = p.store
        BY <4>2, <3>1, <2>2, <2>3, <2>6 DEF FileFollows, PutGood
      <4> QED
        BY <3>1, <4>1, <4>2
    <3>4. /\ lease' \in [Scopes -> Lease]
          /\ \A u \in Scopes : Len(lease'[u].tasks) <= MaxTasks
          /\ \A u \in Scopes : lease'[u].on => u \notin revoked'
      BY <3>2, <1>1, LeaseOfOne
    <3>5. Reported({}) /\ Ended({}) /\ {} \subseteq Row
      BY <3>1, NothingNew
    <3> QED
      BY <3>1, <3>3, <3>4, <3>5, <1>1, StoreStays, StoreAndLease
  <2> QED
    BY <1>3, <2>5, <2>6 DEF Observe, p
<1>4. CASE ~(l.bound /\ l.stored)
  <2> DEFINE t == [k |-> k, st |-> st, bound |-> l.bound, rev |-> 0]
  <2>1. t \in Task
    BY <1>1, <1>2 DEF Task, Lease
  <2> HIDE DEF t
  <2>2. lease' = [lease EXCEPT ![s] = WithTask(s, t)] /\ UNCHANGED <<store, disk, ended, told>>
    BY <1>4 DEF Observe, t
  <2>3. LeaseMoves(s, WithTask(s, t))
    BY <2>1, <2>2, <1>1, <1>2, WithTaskIs DEF LeaseMoves
  <2> QED
    BY <2>2, <2>3, <1>1, LeaseOnly
<1> QED
  BY <1>3, <1>4

\* all the tasks are stored, or the write of one fails
LEMMA PersistInv ==
    ASSUME RecoveryInv, NEW s \in Scopes, NEW l, PersistAll(s, l),
           \A q \in Seq(Task) : [l EXCEPT !.tasks = q] \in Lease,
           l.on => s \notin revoked, UNCHANGED <<aged, revoked, restarts>>,
           \A q : [l EXCEPT !.tasks = q].on = l.on /\ [l EXCEPT !.tasks = q].tasks = q
    PROVE  RecoveryInv'
<1> DEFINE q == lease[s].tasks
           N == Len(q)
           after == After(s)
<1>1. q \in Seq(Task) /\ N \in Nat /\ N <= MaxTasks /\ store.rev \in Nat /\ MaxRev \in Nat
  BY RecoveryAssumption DEF RecoveryInv, RecoveryTypeOK, Lease, Store
<1>2. store.rev + N <= MaxRev
  BY DEF PersistAll
<1>3. \A n \in 0 .. N : AfterGood(s, n)
  BY <1>2, AfterAll
<1>4. ASSUME NEW n \in 0 .. N
      PROVE  /\ RowsTo(s, n) \subseteq Row /\ StoreOK(after[n].store)
             /\ Cardinality(after[n].store.rows) <= MaxStore
             /\ store.rev <= after[n].store.rev
             /\ \A r \in RowsTo(s, n) : /\ r.rev <= after[n].store.rev
                                        /\ r.st = "end" => KeepsEnd(after[n].store, r.s, r.k)
             /\ Agree(told \cup RowsTo(s, n) \cup after[n].store.rows)
             /\ \A s1 \in Scopes, k1 \in Children :
                    KeepsEnd(store, s1, k1) => KeepsEnd(after[n].store, s1, k1)
             /\ ~Wrote(s, n) => FileFollows(after[n].store, disk, RowsTo(s, n))
  <2>1. AfterGood(s, n)
    BY <1>3
  <2>2. ~Wrote(s, n) => FileFollows(after[n].store, disk, RowsTo(s, n))
    BY <2>1 DEF AfterGood, FileFollows
  <2>3. \A r \in RowsTo(s, n) : /\ r \in Row /\ r.rev <= after[n].store.rev
                                /\ r.st = "end" => KeepsEnd(after[n].store, r.s, r.k)
    BY <2>1, SMTT(30) DEF AfterGood, RowsTo
  <2> QED
    BY <2>1, <2>2, <2>3 DEF AfterGood
<1>5. CASE /\ store' = after[N].store
           /\ disk' = IF Wrote(s, N) THEN store' ELSE disk
           /\ lease' = [lease EXCEPT ![s] = [l EXCEPT !.tasks =
                            [i \in 1 .. N |-> [k |-> q[i].k, st |-> after[i].row.st,
                                               bound |-> TRUE, rev |-> after[i].row.rev]]]]
           /\ Reported(RowsTo(s, N)) /\ Ended(RowsTo(s, N))
  <2> DEFINE stored == [i \in 1 .. N |-> [k |-> q[i].k, st |-> after[i].row.st,
                                          bound |-> TRUE, rev |-> after[i].row.rev]]
  <2>1. N \in 0 .. N
    BY <1>1
  <2>2. stored \in Seq(Task) /\ Len(stored) = N
    <3>1. ASSUME NEW i \in 1 .. N PROVE stored[i] \in Task
      <4>1. q[i] \in Task
        BY <1>1
      <4>2. after[i].row \in RowsTo(s, N)
        BY DEF RowsTo
      <4>3. after[i].row \in Row
        BY <4>2, <2>1, <1>4
      <4> QED
        BY <4>1, <4>3, <1>1 DEF Task, Row
    <3>2. stored \in [1 .. N -> Task]
      BY <3>1
    <3> HIDE DEF stored
    <3>3. stored \in Seq(Task)
      BY <3>2, <1>1
    <3>4. DOMAIN stored = 1 .. N
      BY <3>2
    <3> QED
      BY <3>3, <3>4, <1>1
  <2> HIDE DEF stored
  <2>3. [l EXCEPT !.tasks = stored] \in Lease /\ [l EXCEPT !.tasks = stored].tasks = stored
        /\ [l EXCEPT !.tasks = stored].on = l.on
    BY <2>2
  <2>4. LeaseMoves(s, [l EXCEPT !.tasks = stored])
    BY <1>1, <1>5, <2>2, <2>3 DEF LeaseMoves, stored
  <2>5. /\ lease' \in [Scopes -> Lease]
        /\ \A u \in Scopes : Len(lease'[u].tasks) <= MaxTasks
        /\ \A u \in Scopes : lease'[u].on => u \notin revoked'
    BY <2>4, LeaseOfOne
  <2>6. FileFollows(store', disk', RowsTo(s, N))
    BY <1>4, <1>5, <2>1 DEF FileFollows
  <2> QED
    BY <1>4, <1>5, <2>1, <2>5, <2>6, StoreAndLease
<1>6. ASSUME NEW n \in 1 .. N, after[n].writes, store' = after[n - 1].store,
             disk' \in {IF Wrote(s, n - 1) THEN store' ELSE disk, after[n].store},
             lease' = [lease EXCEPT ![s] = NoLease],
             Reported(RowsTo(s, n - 1)), Ended(RowsTo(s, n - 1))
      PROVE  RecoveryInv'
  <2>1. n - 1 \in 0 .. N
    BY <1>1
  <2>2. LeaseMoves(s, NoLease)
    BY <1>6, NoLeaseIs DEF LeaseMoves
  <2>3. /\ lease' \in [Scopes -> Lease]
        /\ \A u \in Scopes : Len(lease'[u].tasks) <= MaxTasks
        /\ \A u \in Scopes : lease'[u].on => u \notin revoked'
    BY <2>2, LeaseOfOne
  <2>4. FileFollows(store', disk', RowsTo(s, n - 1))
    <3>1. CASE disk' = IF Wrote(s, n - 1) THEN store' ELSE disk
      BY <3>1, <1>4, <1>6, <2>1 DEF FileFollows
    <3>2. CASE disk' = after[n].store
      <4>1. PutGood(after[n - 1].store, after[n], s, q[n].k)
        BY <1>2, <1>3, <2>1, AfterNext
      <4> HIDE DEF after
      <4> QED
        BY <3>2, <4>1, <1>6 DEF PutGood, FileFollows
    <3> QED
      BY <1>6, <3>1, <3>2
  <2> QED
    BY <1>4, <1>6, <2>1, <2>3, <2>4, StoreAndLease
<1> QED
  BY <1>5, <1>6 DEF PersistAll, RowsTo, Wrote

LEMMA BindInv ==
    ASSUME RecoveryInv, NEW s \in Scopes, Bind(s)
    PROVE  RecoveryInv'
<1> DEFINE l == [lease[s] EXCEPT !.asked = FALSE, !.bound = TRUE]
<1>1. lease[s] \in Lease /\ lease[s].tasks \in Seq(Task) /\ UNCHANGED <<aged, revoked, restarts>>
      /\ Len(lease[s].tasks) \in Nat /\ Len(lease[s].tasks) <= MaxTasks
      /\ (lease[s].on => s \notin revoked)
  BY DEF Bind, RecoveryInv, RecoveryTypeOK, Lease
<1>2. l \in Lease /\ l.on = lease[s].on /\ l.tasks = lease[s].tasks /\ l.stored = lease[s].stored
      /\ (\A q \in Seq(Task) : [l EXCEPT !.tasks = q] \in Lease)
      /\ \A q : [l EXCEPT !.tasks = q].on = l.on /\ [l EXCEPT !.tasks = q].tasks = q
  BY <1>1 DEF Lease
<1> HIDE DEF l
<1>3. CASE l.stored
  <2>1. PersistAll(s, l)
    BY <1>3 DEF Bind, l
  <2> QED
    BY <2>1, <1>1, <1>2, PersistInv
<1>4. CASE ~l.stored
  <2> DEFINE q == lease[s].tasks
             marked == [i \in 1 .. Len(q) |-> [q[i] EXCEPT !.bound = TRUE]]
  <2>1. lease' = [lease EXCEPT ![s] = [l EXCEPT !.tasks = marked]]
        /\ UNCHANGED <<store, disk, ended, told>>
    <3>1. /\ lease' = [lease EXCEPT ![s] = [l EXCEPT !.tasks =
                              [i \in 1 .. Len(@) |-> [@[i] EXCEPT !.bound = TRUE]]]]
          /\ UNCHANGED <<store, disk, ended, told>>
      BY <1>4 DEF Bind, l
    <3> QED
      BY <3>1, <1>2
  <2>2. marked \in Seq(Task) /\ Len(marked) = Len(q)
    <3>1. \A i \in 1 .. Len(q) : marked[i] \in Task
      <4>1. \A i \in 1 .. Len(q) : q[i] \in Task
        BY <1>1
      <4> QED
        BY <4>1 DEF Task
    <3>2. marked \in [1 .. Len(q) -> Task] /\ DOMAIN marked = 1 .. Len(q)
      BY <3>1
    <3> HIDE DEF marked
    <3>3. marked \in Seq(Task)
      BY <3>2, <1>1
    <3> QED
      BY <3>2, <3>3, <1>1
  <2> HIDE DEF marked
  <2>3. LeaseMoves(s, [l EXCEPT !.tasks = marked])
    BY <1>1, <1>2, <2>1, <2>2 DEF LeaseMoves
  <2> QED
    BY <1>1, <2>1, <2>3, LeaseOnly
<1> QED
  BY <1>3, <1>4

LEMMA UpgradeInv ==
    ASSUME RecoveryInv, NEW s \in Scopes, Upgrade(s)
    PROVE  RecoveryInv'
<1> DEFINE l == [lease[s] EXCEPT !.stored = TRUE]
<1>1. lease[s] \in Lease /\ Len(lease[s].tasks) <= MaxTasks /\ s \notin revoked
      /\ UNCHANGED <<aged, revoked, restarts>>
  BY DEF Upgrade, RecoveryInv, RecoveryTypeOK
<1>2. l \in Lease /\ l.on = lease[s].on /\ l.tasks = lease[s].tasks
      /\ (\A q \in Seq(Task) : [l EXCEPT !.tasks = q] \in Lease)
      /\ \A q : [l EXCEPT !.tasks = q].on = l.on /\ [l EXCEPT !.tasks = q].tasks = q
  BY <1>1 DEF Lease
<1> HIDE DEF l
<1>3. CASE l.bound
  <2>1. PersistAll(s, l)
    BY <1>3 DEF Upgrade, l
  <2> QED
    BY <2>1, <1>1, <1>2, PersistInv
<1>4. CASE ~l.bound
  <2>1. lease' = [lease EXCEPT ![s] = l] /\ UNCHANGED <<store, disk, ended, told>>
    BY <1>4 DEF Upgrade, l
  <2> QED
    BY <1>1, <1>2, <2>1, LeaseOnly DEF LeaseMoves
<1> QED
  BY <1>3, <1>4

\* request and a reply of another profile, a new lease, the end of one
LEMMA LeaseStepsInv ==
    ASSUME RecoveryInv, NEW s \in Scopes,
           Request(s) \/ Mismatch(s) \/ (\E stored \in BOOLEAN : Open(s, stored)) \/ LeaseEnds(s)
    PROVE  RecoveryInv'
<1>1. lease[s] \in Lease /\ Len(lease[s].tasks) <= MaxTasks /\ (lease[s].on => s \notin revoked)
      /\ lease \in [Scopes -> Lease]
  BY DEF RecoveryInv, RecoveryTypeOK
<1>2. CASE Request(s)
  <2> DEFINE l == [lease[s] EXCEPT !.asked = TRUE]
  <2>1. l \in Lease /\ l.on = lease[s].on /\ l.tasks = lease[s].tasks
    BY <1>1 DEF Lease
  <2>2. lease' = [lease EXCEPT ![s] = l]
    BY <1>1, <1>2 DEF Request
  <2> HIDE DEF l
  <2>3. LeaseMoves(s, l)
    BY <1>1, <1>2, <2>1, <2>2 DEF Request, LeaseMoves
  <2> QED
    BY <1>2, <2>3, LeaseOnly DEF Request
<1>3. CASE Mismatch(s)
  <2> DEFINE l == [lease[s] EXCEPT !.asked = FALSE, !.trunc = TRUE]
  <2>1. l \in Lease /\ l.on = lease[s].on /\ l.tasks = lease[s].tasks
    BY <1>1 DEF Lease
  <2>2. lease' = [lease EXCEPT ![s] = l]
    BY <1>1, <1>3 DEF Mismatch
  <2> HIDE DEF l
  <2>3. LeaseMoves(s, l)
    BY <1>1, <1>3, <2>1, <2>2 DEF Mismatch, LeaseMoves
  <2> QED
    BY <1>3, <2>3, LeaseOnly DEF Mismatch
<1>4. ASSUME NEW stored \in BOOLEAN, Open(s, stored) PROVE RecoveryInv'
  <2> DEFINE l == [NoLease EXCEPT !.on = TRUE, !.stored = stored]
  <2>1. l \in Lease /\ Len(l.tasks) <= MaxTasks
    BY NoLeaseIs DEF Lease
  <2> HIDE DEF l
  <2>2. LeaseMoves(s, l)
    BY <1>4, <2>1 DEF Open, LeaseMoves, l
  <2> QED
    BY <1>4, <2>2, LeaseOnly DEF Open
<1>5. CASE LeaseEnds(s)
  <2>1. LeaseMoves(s, NoLease)
    BY <1>5, NoLeaseIs DEF LeaseEnds, LeaseMoves
  <2> QED
    BY <1>5, <2>1, LeaseOnly DEF LeaseEnds
<1> QED
  BY <1>2, <1>3, <1>4, <1>5

LEMMA TakeSnapshotInv ==
    ASSUME RecoveryInv, NEW s \in Scopes, TakeSnapshot(s)
    PROVE  RecoveryInv'
<1>1. store' = Prune(store) /\ UNCHANGED <<disk, aged, lease, revoked, ended, told, restarts>>
  BY DEF TakeSnapshot
<1>2. /\ StoreOK(store') /\ Cardinality(store'.rows) <= MaxStore /\ store'.rev = store.rev
      /\ store'.rows \subseteq store.rows /\ store.rev \in Nat
  BY <1>1, PruneIs DEF RecoveryInv, StoreOK, Store
<1>3. \A s1 \in Scopes, k1 \in Children : KeepsEnd(store, s1, k1) => KeepsEnd(store', s1, k1)
  BY <1>1, PruneKeeps DEF RecoveryInv
<1>4. FileFollows(store', disk', {}) /\ Reported({}) /\ Ended({}) /\ {} \subseteq Row
  BY <1>1, <1>2, NothingNew DEF FileFollows
<1>5. Agree(told \cup {} \cup store'.rows)
  BY <1>2, StoreStays DEF Agree
<1>6. /\ lease' \in [Scopes -> Lease]
      /\ \A u \in Scopes : Len(lease'[u].tasks) <= MaxTasks
      /\ \A u \in Scopes : lease'[u].on => u \notin revoked'
  BY <1>1 DEF RecoveryInv, RecoveryTypeOK
<1> QED
  BY <1>1, <1>2, <1>3, <1>4, <1>5, <1>6, StoreAndLease

LEMMA RevokeInv ==
    ASSUME RecoveryInv, NEW s \in Scopes, Revoke(s)
    PROVE  RecoveryInv'
<1> DEFINE rest == {r \in store.rows : r.s # s}
           Q == [store EXCEPT !.rows = rest]
           S == Prune(Q)
<1>1. /\ revoked' = revoked \cup {s} /\ store' = S /\ disk' \in {disk, S}
      /\ lease' = [lease EXCEPT ![s] = NoLease] /\ UNCHANGED <<aged, ended, told, restarts>>
  BY DEF Revoke
<1>2. /\ StoreOK(store) /\ StoreOK(disk) /\ store.rev \in Nat /\ ended \subseteq Scopes \X Children
      /\ \A r \in store.rows : r.s \in Scopes /\ r.k \in Children
  BY DEF RecoveryInv, RecoveryTypeOK, StoreOK, Store, Row
<1>3. IsFiniteSet(rest) /\ rest \subseteq store.rows
  BY <1>2, FS_Subset DEF StoreOK
<1> HIDE DEF rest
<1>4. StoreOK(Q) /\ Q.rows = rest /\ Q.rev = store.rev /\ Q.trunc = store.trunc
  BY <1>2, <1>3 DEF StoreOK, Store
<1> HIDE DEF Q
<1>5. /\ StoreOK(S) /\ Cardinality(S.rows) <= MaxStore /\ S.rev = store.rev
      /\ S.rows \subseteq store.rows
  BY <1>3, <1>4, PruneIs
<1>6. \A s1 \in Scopes \ {s}, k1 \in Children : KeepsEnd(store, s1, k1) => KeepsEnd(S, s1, k1)
  <2>1. \A s1 \in Scopes \ {s}, k1 \in Children : KeepsEnd(store, s1, k1) => KeepsEnd(Q, s1, k1)
    BY <1>4 DEF KeepsEnd, rest
  <2> QED
    BY <1>4, <2>1, PruneKeeps
<1> HIDE DEF S
<1>7. /\ lease' \in [Scopes -> Lease]
      /\ \A u \in Scopes : Len(lease'[u].tasks) <= MaxTasks
      /\ \A u \in Scopes : lease'[u].on => u \notin revoked'
  BY <1>1, NoLeaseIs DEF RecoveryInv, RecoveryTypeOK
<1>8. ReportsInv'
  BY <1>1, <1>2, <1>5 DEF RecoveryInv, ReportsInv, Agree
<1>9. \A e \in ended : e[1] \notin revoked' => e[1] \in Scopes \ {s} /\ e[2] \in Children /\ e[1] \notin revoked
  BY <1>1, <1>2
<1>10. EndsInv'
  <2>1. \A e \in ended : e[1] \notin revoked' => KeepsEnd(S, e[1], e[2]) /\ KeepsEnd(disk, e[1], e[2])
    BY <1>6, <1>9 DEF RecoveryInv, EndsInv
  <2>2. \A r \in S.rows : r.st = "end" => KeepsEnd(S, r.s, r.k) /\ KeepsEnd(disk, r.s, r.k)
    BY <1>5 DEF RecoveryInv, EndsInv, KeepsEnd
  <2> QED
    BY <1>1, <2>1, <2>2 DEF EndsInv
<1>11. StoreOK(disk') /\ told' \subseteq Row /\ ended' \subseteq Scopes \X Children
       /\ revoked' \subseteq Scopes /\ aged' \in 0 .. MaxRev /\ restarts' \in 0 .. MaxRestarts
  BY <1>1, <1>2, <1>5 DEF RecoveryInv, RecoveryTypeOK
<1> QED
  BY <1>1, <1>5, <1>7, <1>8, <1>10, <1>11, RestOfInv

LEMMA RestartInv ==
    ASSUME RecoveryInv, Restart
    PROVE  RecoveryInv'
<1> DEFINE S == Prune(disk)
<1>1. /\ restarts < MaxRestarts /\ restarts' = restarts + 1 /\ store' = S
      /\ lease' = [s \in Scopes |-> NoLease] /\ told' = told \cup S.rows
      /\ UNCHANGED <<disk, aged, revoked, ended>>
  BY DEF Restart, Load, Reported
<1>2. /\ StoreOK(disk) /\ store.rev \in Nat /\ disk.rev \in Nat /\ disk.rows \subseteq Row
      /\ told \subseteq Row /\ ended \subseteq Scopes \X Children /\ store.rev <= disk.rev
      /\ \A r \in told : r.rev \in Nat /\ r.rev <= store.rev
  <2>1. \A r \in Row : r.rev \in Nat
    BY RecoveryAssumption DEF Row
  <2> QED
    BY <2>1 DEF RecoveryInv, RecoveryTypeOK, ReportsInv, StoreOK, Store
<1>3. /\ StoreOK(S) /\ Cardinality(S.rows) <= MaxStore /\ S.rev = disk.rev
      /\ S.rows \subseteq disk.rows
  BY <1>2, PruneIs
<1>4. \A s1, k1 : KeepsEnd(disk, s1, k1) => KeepsEnd(S, s1, k1)
  BY <1>2, PruneKeeps
<1> HIDE DEF S
<1>5. ReportsInv'
  <2>1. \A r \in told : r.rev <= disk.rev
    BY <1>2
  <2>2. \A r \in S.rows : r.rev <= S.rev
    BY <1>3 DEF StoreOK
  <2>3. Agree(told' \cup store'.rows \cup disk'.rows)
    BY <1>1, <1>3 DEF RecoveryInv, ReportsInv, Agree
  <2> QED
    BY <1>1, <1>3, <2>1, <2>2, <2>3 DEF ReportsInv
<1>6. EndsInv'
  <2>1. \A e \in ended : e[1] \notin revoked => KeepsEnd(S, e[1], e[2]) /\ KeepsEnd(disk, e[1], e[2])
    BY <1>4 DEF RecoveryInv, EndsInv
  <2>2. \A r \in S.rows : r.st = "end" => KeepsEnd(disk, r.s, r.k)
    BY <1>3 DEF KeepsEnd
  <2> QED
    BY <1>1, <2>1, <2>2 DEF EndsInv
<1>7. /\ lease' \in [Scopes -> Lease]
      /\ \A u \in Scopes : Len(lease'[u].tasks) <= MaxTasks
      /\ \A u \in Scopes : lease'[u].on => u \notin revoked'
  BY <1>1, NoLeaseIs
<1>8. told' \subseteq Row /\ restarts' \in 0 .. MaxRestarts /\ aged' \in 0 .. MaxRev
      /\ revoked' \subseteq Scopes /\ ended' \subseteq Scopes \X Children /\ StoreOK(disk')
  BY <1>1, <1>2, <1>3, RecoveryAssumption DEF RecoveryInv, RecoveryTypeOK
<1> QED
  BY <1>1, <1>3, <1>5, <1>6, <1>7, <1>8, RestOfInv

LEMMA AgeInv ==
    ASSUME RecoveryInv, Age
    PROVE  RecoveryInv'
<1>1. aged' \in 0 .. MaxRev
  BY RecoveryAssumption DEF Age, RecoveryInv, RecoveryTypeOK, Store
<1> QED
  BY <1>1 DEF Age, RecoveryInv, RecoveryTypeOK, StoreOK, ReportsInv, EndsInv

LEMMA RecoveryStep == RecoveryInv /\ [RecoveryNext]_recoveryVars => RecoveryInv'
<1> SUFFICES ASSUME RecoveryInv, [RecoveryNext]_recoveryVars PROVE RecoveryInv'
  OBVIOUS
<1>1. ASSUME NEW s \in Scopes, NEW k \in Children, NEW st \in Status, Observe(s, k, st)
      PROVE  RecoveryInv'
  BY <1>1, ObserveInv
<1>2. ASSUME NEW s \in Scopes, Bind(s) PROVE RecoveryInv'
  BY <1>2, BindInv
<1>3. ASSUME NEW s \in Scopes, Upgrade(s) PROVE RecoveryInv'
  BY <1>3, UpgradeInv
<1>4. ASSUME NEW s \in Scopes,
             Request(s) \/ Mismatch(s) \/ (\E stored \in BOOLEAN : Open(s, stored)) \/ LeaseEnds(s)
      PROVE  RecoveryInv'
  BY <1>4, LeaseStepsInv
<1>5. ASSUME NEW s \in Scopes, TakeSnapshot(s) PROVE RecoveryInv'
  BY <1>5, TakeSnapshotInv
<1>6. ASSUME NEW s \in Scopes, Revoke(s) PROVE RecoveryInv'
  BY <1>6, RevokeInv
<1>7. CASE Restart
  BY <1>7, RestartInv
<1>8. CASE Age
  BY <1>8, AgeInv
<1>9. CASE UNCHANGED recoveryVars
  BY <1>9 DEF recoveryVars, RecoveryInv, RecoveryTypeOK, StoreOK, ReportsInv, EndsInv
<1> QED
  BY <1>1, <1>2, <1>3, <1>4, <1>5, <1>6, <1>7, <1>8, <1>9 DEF RecoveryNext

LEMMA RecoveryAlways == RecoverySpec => []RecoveryInv
BY RecoveryStarts, RecoveryStep, PTL DEF RecoverySpec

-----------------------------------------------------------------------------
(* The theorem                                                             *)

\* what is kept shows in a snapshot of the scope
LEMMA KeptIsReported ==
    ASSUME RecoveryInv, NEW s \in Scopes, NEW k \in Children, KeepsEnd(store, s, k)
    PROVE  <<TRUE, k, "end">> \in SnapshotRows(s) \/ Truncated(s)
<1> DEFINE P == Prune(store)
           mine == OfScope(s)
           live == ToSet(lease[s].tasks)
           stored == {r \in Historical(s) : \A t \in live : t.bound /\ t.k = r.k => r.st = "end" /\ t.st # "end"}
<1> SUFFICES ASSUME ~Truncated(s) PROVE <<TRUE, k, "end">> \in SnapshotRows(s)
  OBVIOUS
<1>1. StoreOK(store) /\ StoreOK(P) /\ KeepsEnd(P, s, k)
  BY PruneIs, PruneKeeps DEF RecoveryInv
<1>2. ~P.trunc /\ ~Crowded(s)
  BY DEF Truncated
<1>3. PICK r \in P.rows : r.s = s /\ r.k = k /\ r.st = "end"
  BY <1>1, <1>2 DEF KeepsEnd
<1>4. r \in mine
  BY <1>3 DEF OfScope
<1>5. IsFiniteSet(mine) /\ \A x \in mine : x.rev \in Nat
  <2>1. IsFiniteSet(P.rows) /\ P.rows \subseteq Row
    BY <1>1 DEF StoreOK, Store
  <2>2. mine \subseteq P.rows
    BY DEF OfScope
  <2> QED
    BY <2>1, <2>2, FS_Subset, RecoveryAssumption DEF Row
<1>6. Historical(s) = Newest(mine, MaxTasks) /\ ~(Cardinality(mine) > MaxTasks) /\ MaxTasks \in Nat
  BY <1>2, RecoveryAssumption DEF Historical, Crowded
<1> HIDE DEF mine
<1>7. r \in Historical(s)
  BY <1>4, <1>5, <1>6, NewestIs
<1>8. SnapshotRows(s) =
        {<<TRUE, x.k, x.st>> : x \in stored} \cup
        {<<t.bound, t.k, t.st>> : t \in {x \in live : ~x.bound \/ \A y \in stored : y.k # x.k}}
  BY DEF SnapshotRows
<1>9. \A t \in live : t.bound \in BOOLEAN
  <2>1. lease[s].tasks \in Seq(Task)
    BY DEF RecoveryInv, RecoveryTypeOK, Lease
  <2>2. \A i \in DOMAIN lease[s].tasks : lease[s].tasks[i] \in Task
    BY <2>1
  <2> QED
    BY <2>2 DEF live, ToSet, Task
<1> HIDE DEF live
<1>10. CASE r \in stored
  BY <1>3, <1>8, <1>10
<1>11. CASE r \notin stored
  <2>1. PICK t \in live : t.bound /\ t.k = k /\ t.st = "end"
    BY <1>3, <1>7, <1>11
  <2>2. \A y \in stored : y.k # t.k
    BY <2>1
  <2>3. t.bound = TRUE
    BY <1>9, <2>1
  <2>4. t \in {x \in live : ~x.bound \/ \A y \in stored : y.k # x.k}
    BY <2>1, <2>2
  <2> HIDE DEF stored
  <2>5. <<t.bound, t.k, t.st>> \in SnapshotRows(s)
    BY <1>8, <2>4
  <2> QED
    BY <2>1, <2>3, <2>5
<1> QED
  BY <1>10, <1>11

(***************************************************************************)
(* For any number of scopes, tasks and revisions, and every limit: the end *)
(* of a task that was stored shows in every later snapshot of its scope or *)
(* the snapshot says that it is truncated, and no relay_event_id stands    *)
(* for two reports, whatever writes fail, before or after they reached the *)
(* file (RecoveryStore, RecoveryProjection).                               *)
(***************************************************************************)
THEOREM RecoveryIsFaithfulHolds == RecoverySpec => []RecoveryIsFaithful
<1>1. RecoveryInv => RecoveryIsFaithful
  <2> SUFFICES ASSUME RecoveryInv PROVE RecoveryIsFaithful
    OBVIOUS
  <2>1. EventIdsAreUnique
    BY DEF RecoveryInv, ReportsInv, Agree, EventIdsAreUnique
  <2>2. ASSUME NEW e \in ended, lease[e[1]].on
        PROVE  <<TRUE, e[2], "end">> \in SnapshotRows(e[1]) \/ Truncated(e[1])
    <3>1. e[1] \in Scopes /\ e[2] \in Children
      BY DEF RecoveryInv, RecoveryTypeOK
    <3>2. KeepsEnd(store, e[1], e[2])
      BY <2>2, <3>1 DEF RecoveryInv, EndsInv
    <3> QED
      BY <3>1, <3>2, KeptIsReported
  <2> QED
    BY <2>1, <2>2 DEF RecoveryIsFaithful, EndIsKeptOrReported
<1> QED
  BY <1>1, RecoveryAlways, PTL

=============================================================================
