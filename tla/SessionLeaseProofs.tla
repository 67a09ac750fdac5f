------------------------- MODULE SessionLeaseProofs -------------------------
(***************************************************************************)
(* For every limit, every frame size and any number of events, replies and *)
(* attachments: SessionLease is type correct, at most one attachment       *)
(* consumes the lease, its controller is closed last, and the phone never  *)
(* loses an event silently.  The invariants are proved one after the       *)
(* other, each from the ones before it: types, ownership, the ring, and    *)
(* what is queued for the phone.                                           *)
(***************************************************************************)
EXTENDS SessionLease, SequenceTheorems, TLAPS

-----------------------------------------------------------------------------
(* Sequences                                                               *)

\* DropFirst keeps the elements after the first d.
LEMMA DropFirstFacts ==
    ASSUME NEW S, NEW s \in Seq(S), NEW d \in 0..Len(s)
    PROVE  /\ DropFirst(s, d) \in Seq(S)
           /\ Len(DropFirst(s, d)) = Len(s) - d
           /\ \A i \in 1..(Len(s) - d) : DropFirst(s, d)[i] = s[d + i]
<1>1. Len(s) \in Nat /\ \A i \in 1..Len(s) : s[i] \in S
  BY LenProperties
<1>2. d + 1 \in Int /\ Len(s) \in Int /\ \A i \in (d + 1)..Len(s) : s[i] \in S
  BY <1>1
<1>3. /\ SubSeq(s, d + 1, Len(s)) \in Seq(S)
      /\ Len(SubSeq(s, d + 1, Len(s))) = IF d + 1 <= Len(s) THEN Len(s) - (d + 1) + 1 ELSE 0
      /\ \A i \in 1..(Len(s) - (d + 1) + 1) : SubSeq(s, d + 1, Len(s))[i] = s[d + 1 + i - 1]
  BY <1>2, SubSeqProperties
<1>4. QED
  BY <1>1, <1>3 DEF DropFirst

\* A prefix keeps its elements.
LEMMA PrefixFacts ==
    ASSUME NEW S, NEW s \in Seq(S), NEW n \in 0..Len(s)
    PROVE  /\ SubSeq(s, 1, n) \in Seq(S)
           /\ Len(SubSeq(s, 1, n)) = n
           /\ \A i \in 1..n : SubSeq(s, 1, n)[i] = s[i]
<1>1. Len(s) \in Nat /\ \A i \in 1..Len(s) : s[i] \in S
  BY LenProperties
<1>2. 1 \in Int /\ n \in Int /\ \A i \in 1..n : s[i] \in S
  BY <1>1
<1>3. /\ SubSeq(s, 1, n) \in Seq(S)
      /\ Len(SubSeq(s, 1, n)) = IF 1 <= n THEN n - 1 + 1 ELSE 0
      /\ \A i \in 1..(n - 1 + 1) : SubSeq(s, 1, n)[i] = s[1 + i - 1]
  BY <1>2, SubSeqProperties
<1>4. QED
  BY <1>1, <1>3

-----------------------------------------------------------------------------
(* Frames                                                                  *)

\* The frames the lease builds are frames.
LEMMA FrameTypes ==
    ASSUME NEW n \in Nat, NEW m \in Nat, NEW g \in BOOLEAN, NEW w \in BOOLEAN
    PROVE  /\ Attached(n, m, g) \in Frame
           /\ ReplayComplete(n) \in Frame
           /\ Local \in Frame
           /\ EventFrame(n, m, w) \in Frame
BY LimitsAssumption DEF Attached, ReplayComplete, Local, EventFrame, Frame, None

\* The frames offered by _retain: replies first, the event last.
LEMMA OfferedFacts ==
    ASSUME NEW r \in Nat, NEW e \in Frame
    PROVE  LET locals == [i \in 1..r |-> Local]
               fs     == Append(locals, e)
           IN  /\ fs \in Seq(Frame)
               /\ Len(fs) = r + 1
               /\ \A i \in 1..r : fs[i] = Local
               /\ fs[r + 1] = e
<1> DEFINE locals == [i \in 1..r |-> Local]
<1>1. Local \in Frame
  BY FrameTypes
<1>2. locals \in Seq(Frame) /\ Len(locals) = r
  BY <1>1
<1>3. QED
  BY <1>1, <1>2, AppendProperties

\* What a new attachment starts with.
LEMMA BacklogFacts ==
    ASSUME NEW events \in Seq(RetainedEvent), NEW last \in Nat, NEW gap \in BOOLEAN,
           NEW w \in BOOLEAN
    PROVE  LET b    == Backlog(events, last, gap, w)
               from == IF events = <<>> THEN None ELSE Head(events).seq
           IN  /\ b \in Seq(Frame)
               /\ Len(b) = 1 + Len(events) + IF w THEN 1 ELSE 0
               /\ b[1] = Attached(last, from, gap)
               /\ \A i \in 1..Len(events) :
                     b[1 + i] = EventFrame(events[i].seq, events[i].size, w)
               /\ w => b[2 + Len(events)] = ReplayComplete(last)
<1> DEFINE from == IF events = <<>> THEN None ELSE Head(events).seq
           first == <<Attached(last, from, gap)>>
           middle == [i \in 1..Len(events) |-> EventFrame(events[i].seq, events[i].size, w)]
           end == IF w THEN <<ReplayComplete(last)>> ELSE <<>>
<1>1. Len(events) \in Nat /\ \A i \in 1..Len(events) : events[i] \in RetainedEvent
  BY LenProperties
<1>2. from \in Nat
  BY <1>1, HeadTailProperties DEF None, RetainedEvent
<1>3. first \in Seq(Frame) /\ Len(first) = 1 /\ first[1] = Attached(last, from, gap)
  BY <1>2, FrameTypes
<1>4. middle \in Seq(Frame) /\ Len(middle) = Len(events)
  <2>1. \A i \in 1..Len(events) : EventFrame(events[i].seq, events[i].size, w) \in Frame
    BY <1>1, FrameTypes DEF RetainedEvent
  <2>2. QED
    BY <1>1, <2>1
<1>5. end \in Seq(Frame) /\ Len(end) = IF w THEN 1 ELSE 0
  BY FrameTypes
<1>6. /\ first \o middle \in Seq(Frame)
      /\ Len(first \o middle) = 1 + Len(events)
      /\ \A i \in 1..(1 + Len(events)) :
            (first \o middle)[i] = IF i <= 1 THEN first[i] ELSE middle[i - 1]
  <2> HIDE DEF first, middle
  <2>1. /\ first \o middle \in Seq(Frame)
        /\ Len(first \o middle) = Len(first) + Len(middle)
        /\ \A i \in 1..(Len(first) + Len(middle)) :
              (first \o middle)[i] = IF i <= Len(first) THEN first[i] ELSE middle[i - Len(first)]
    BY <1>3, <1>4, ConcatProperties
  <2>2. QED
    BY <1>1, <1>3, <1>4, <2>1
<1>7. LET b == (first \o middle) \o end
      IN  /\ b \in Seq(Frame)
          /\ Len(b) = 1 + Len(events) + Len(end)
          /\ \A i \in 1..(1 + Len(events) + Len(end)) :
                b[i] = IF i <= 1 + Len(events) THEN (first \o middle)[i]
                       ELSE end[i - (1 + Len(events))]
  <2> DEFINE fm == first \o middle
  <2> HIDE DEF first, middle, end, fm
  <2>1. fm \in Seq(Frame) /\ Len(fm) = 1 + Len(events)
    BY <1>6 DEF fm
  <2> end \in Seq(Frame) /\ fm \in Seq(Frame)
    BY <1>5, <2>1
  <2>2. /\ fm \o end \in Seq(Frame)
        /\ Len(fm \o end) = Len(fm) + Len(end)
        /\ \A i \in 1..(Len(fm) + Len(end)) :
              (fm \o end)[i] = IF i <= Len(fm) THEN fm[i] ELSE end[i - Len(fm)]
    BY ConcatProperties
  <2>3. QED
    BY <1>1, <1>5, <2>1, <2>2 DEF fm
<1>8. Backlog(events, last, gap, w) = (first \o middle) \o end
  BY DEF Backlog
<1>9. \A i \in 1..Len(events) :
         middle[i] = EventFrame(events[i].seq, events[i].size, w)
  OBVIOUS
<1>10. w => end[1] = ReplayComplete(last)
  OBVIOUS
<1>11. QED
  <2> HIDE DEF first, middle, end, from
  <2> SUFFICES /\ (first \o middle \o end)[1] = Attached(last, from, gap)
               /\ \A i \in 1..Len(events) :
                     (first \o middle \o end)[1 + i] = EventFrame(events[i].seq, events[i].size, w)
               /\ w => (first \o middle \o end)[2 + Len(events)] = ReplayComplete(last)
    BY <1>1, <1>5, <1>7, <1>8 DEF from
  <2>1. (first \o middle \o end)[1] = Attached(last, from, gap)
    <3>1. 1 \in 1..(1 + Len(events) + Len(end)) /\ 1 \in 1..(1 + Len(events)) /\ 1 <= 1 + Len(events)
      BY <1>1, <1>5
    <3>2. (first \o middle \o end)[1] = (first \o middle)[1]
      BY <1>7, <3>1
    <3>3. (first \o middle)[1] = first[1]
      BY <1>6, <3>1
    <3>4. QED
      BY <1>3, <3>2, <3>3
  <2>2. ASSUME NEW i \in 1..Len(events)
        PROVE  (first \o middle \o end)[1 + i] = EventFrame(events[i].seq, events[i].size, w)
    <3>1. 1 + i \in 1..(1 + Len(events) + Len(end)) /\ 1 + i <= 1 + Len(events) /\ ~(1 + i <= 1)
      BY <1>1, <1>5
    <3>2. (first \o middle \o end)[1 + i] = middle[(1 + i) - 1]
      BY <1>1, <1>6, <1>7, <3>1
    <3>3. QED
      BY <1>1, <1>9, <3>2
  <2>3. w => (first \o middle \o end)[2 + Len(events)] = ReplayComplete(last)
    BY <1>1, <1>5, <1>7, <1>10
  <2>4. QED
    BY <2>1, <2>2, <2>3

-----------------------------------------------------------------------------
(* Delivery to the current attachment                                      *)

(***************************************************************************)
(* Offering frames to the current attachment either appends all of them or *)
(* detaches it, keeping what was already queued.                           *)
(***************************************************************************)
LEMMA OfferCases ==
    ASSUME TypeOK, NEW a \in Att, a = current, NEW fs \in Seq(Frame), Offer(a, fs)
    PROVE  \E q \in Seq(Frame) :
              /\ out' = [out EXCEPT ![a] = q]
              /\ Len(q) >= Len(out[a])
              /\ \/ /\ q = out[a] \o fs
                    /\ UNCHANGED <<current, expiry, detached, sender, backlog>>
                 \/ /\ current' = None
                    /\ expiry' = (IF ~released THEN "armed" ELSE expiry)
                    /\ detached' = [detached EXCEPT ![a] = TRUE]
                    /\ sender' = [sender EXCEPT ![a] = Cancelled(@)]
                    /\ backlog' = [backlog EXCEPT ![a] = @]
<1>1. out[a] \in Seq(Frame) /\ Len(out[a]) \in Nat /\ Len(fs) \in Nat
  BY LenProperties DEF TypeOK, LeaseTypeOK, TaskTypeOK, AttachmentTypeOK, PhoneTypeOK
<1>2. PICK k \in 0..Len(fs) :
         LET q == out[a] \o SubSeq(fs, 1, k)
         IN  IF k < Len(fs) THEN DetachAttachment(a, q)
             ELSE /\ out' = [out EXCEPT ![a] = q]
                  /\ UNCHANGED <<current, expiry, detached, sender, backlog>>
  BY DEF Offer
<1> DEFINE p == SubSeq(fs, 1, k)
           q == out[a] \o p
<1>3. p \in Seq(Frame) /\ Len(p) = k
  BY <1>1, PrefixFacts
<1>4. q \in Seq(Frame) /\ Len(q) = Len(out[a]) + k
  <2> HIDE DEF p
  <2> out[a] \in Seq(Frame) /\ p \in Seq(Frame)
    BY <1>1, <1>3
  <2>1. q \in Seq(Frame) /\ Len(q) = Len(out[a]) + Len(p)
    BY ConcatProperties
  <2>2. QED
    BY <1>3, <2>1
<1>5. CASE k < Len(fs)
  <2>1. DetachAttachment(a, q)
    BY <1>2, <1>5
  <2> HIDE DEF q
  <2>2. /\ out' = [out EXCEPT ![a] = q] /\ current' = None
        /\ expiry' = (IF ~released THEN "armed" ELSE expiry)
        /\ detached' = [detached EXCEPT ![a] = TRUE]
        /\ sender' = [sender EXCEPT ![a] = Cancelled(@)]
        /\ backlog' = [backlog EXCEPT ![a] = @]
    BY <2>1 DEF DetachAttachment, MarkDetached, MarkedOut
  <2>3. Len(q) >= Len(out[a])
    BY <1>1, <1>4
  <2>4. QED
    BY <1>4, <2>2, <2>3
<1>6. CASE ~(k < Len(fs))
  <2>1. k = Len(fs)
    BY <1>1, <1>6
  <2>2. p = fs
    BY <2>1, SubSeqFull
  <2>3. /\ out' = [out EXCEPT ![a] = q]
        /\ UNCHANGED <<current, expiry, detached, sender, backlog>>
    BY <1>2, <1>6
  <2>4. q = out[a] \o fs
    BY <2>2
  <2> HIDE DEF q
  <2>5. Len(q) >= Len(out[a])
    BY <1>1, <1>4
  <2>6. QED
    BY <1>4, <2>3, <2>4, <2>5
<1>7. QED
  BY <1>5, <1>6

-----------------------------------------------------------------------------
(* Type correctness                                                        *)

TypeInv == TypeOK /\ HeldFrameQueued

\* The initial states are well typed.
LEMMA TypeInit == Init => TypeInv
<1> SUFFICES ASSUME Init PROVE TypeInv
  OBVIOUS
<1>1. 1 \in Att
  BY LimitsAssumption DEF Att
<1>2. <<>> \in Seq(RetainedEvent) /\ 0 \in Nat /\ FALSE \in BOOLEAN /\ recoveryEnabled \in BOOLEAN
  BY DEF Init
<1>3. Backlog(<<>>, 0, FALSE, recoveryEnabled) \in Seq(Frame)
  BY <1>2, BacklogFacts
<1>4. out \in [Att -> Seq(Frame)] /\ out[1] \in Seq(Frame)
  <2>1. out = First(Backlog(<<>>, 0, FALSE, recoveryEnabled), <<>>)
    BY DEF Init
  <2>2. <<>> \in Seq(Frame)
    BY EmptySeq
  <2>3. QED
    BY <1>1, <1>3, <2>1, <2>2 DEF First
<1>5. Len(out[1]) \in Nat
  BY <1>4, LenProperties
<1>6. LeaseTypeOK
  BY <1>1, <1>2 DEF Init, LeaseTypeOK
<1>7. TaskTypeOK
  BY DEF Init, TaskTypeOK
<1>8. AttachmentTypeOK
  <2>1. made \in 0..MaxAttachments
    BY LimitsAssumption DEF Init
  <2>2. recovery \in [Att -> BOOLEAN]
    BY <1>2 DEF Init, First
  <2>3. backlog \in [Att -> Nat]
    BY <1>5 DEF Init, First
  <2>4. sender \in [Att -> {"none", "starting", "run", "cancelled", "done"}]
    BY DEF Init, First
  <2>5. QED
    BY <1>4, <2>1, <2>2, <2>3, <2>4 DEF Init, AttachmentTypeOK
<1>9. PhoneTypeOK
  BY <1>1 DEF Init, PhoneTypeOK
<1>10. HeldFrameQueued
  BY DEF Init, HeldFrameQueued
<1>11. QED
  BY <1>6, <1>7, <1>8, <1>9, <1>10 DEF TypeInv, TypeOK

\* _retain keeps the types.
LEMMA TypeRetain ==
    ASSUME TypeInv, RetainStep
    PROVE  TypeInv'
<1> USE DEF TypeInv
<1>1. PICK size \in Sizes, replies \in 0..MaxReplies, aged \in 0..Len(ring), d \in 0..(Len(ring) + 1) :
         Retain(size, replies, aged, d)
  BY DEF RetainStep
<1>2. size \in Nat /\ replies \in Nat
  BY LimitsAssumption
<1> DEFINE seq == lastSeq + 1
           full == Append(ring, [seq |-> seq, size |-> size])
           e == EventFrame(seq, size, current # None /\ recovery[current])
           fs == Append([i \in 1..replies |-> Local], e)
<1>3. full \in Seq(RetainedEvent) /\ Len(full) = Len(ring) + 1 /\ Len(ring) \in Nat
  <2>1. [seq |-> seq, size |-> size] \in RetainedEvent
    BY <1>2 DEF TypeOK, LeaseTypeOK, TaskTypeOK, AttachmentTypeOK, PhoneTypeOK, RetainedEvent
  <2>2. QED
    BY <2>1, AppendProperties, LenProperties DEF TypeOK, LeaseTypeOK, TaskTypeOK, AttachmentTypeOK, PhoneTypeOK
<1>4. ring' \in Seq(RetainedEvent)
  <2> HIDE DEF full
  <2>1. ring' = DropFirst(full, d)
    BY <1>1 DEF Retain, full
  <2>2. QED
    BY <1>3, <2>1, DropFirstFacts
<1>5. trimmedThrough' \in Nat
  <2> HIDE DEF full
  <2>1. trimmedThrough' = TrimmedThroughAfter(full, d)
    BY <1>1 DEF Retain, full
  <2>2. d # 0 => full[d] \in RetainedEvent
    BY <1>3, ElementOfSeq
  <2>3. QED
    BY <2>1, <2>2 DEF TrimmedThroughAfter, TypeOK, LeaseTypeOK, TaskTypeOK, AttachmentTypeOK, PhoneTypeOK, RetainedEvent
<1>6. fs \in Seq(Frame)
  <2>1. e \in Frame
    <3>1. (current # None /\ recovery[current]) \in BOOLEAN
      OBVIOUS
    <3>2. seq \in Nat
      BY DEF TypeOK, LeaseTypeOK
    <3>3. QED
      BY <1>2, <3>1, <3>2, FrameTypes
  <2>2. QED
    BY <1>2, <2>1, OfferedFacts
<1>7. /\ current' \in Att \cup {None}
      /\ expiry' \in {"none", "armed", "cancelled"}
      /\ detached' \in [Att -> BOOLEAN]
      /\ sender' \in [Att -> {"none", "starting", "run", "cancelled", "done"}]
      /\ backlog' \in [Att -> Nat]
      /\ out' \in [Att -> Seq(Frame)]
      /\ HeldFrameQueued'
  <2>1. UNCHANGED taken
    BY <1>1 DEF Retain
  <2>2. CASE current = None
    <3>1. UNCHANGED <<current, expiry, detached, sender, backlog, out>>
      BY <1>1, <2>2 DEF Retain, OfferToCurrent
    <3>2. QED
      BY <2>1, <3>1 DEF TypeOK, LeaseTypeOK, TaskTypeOK, AttachmentTypeOK, PhoneTypeOK, HeldFrameQueued
  <2>3. CASE current # None
    <3>1. current \in Att /\ Offer(current, fs)
      BY <1>1, <2>3 DEF Retain, OfferToCurrent, TypeOK, LeaseTypeOK, TaskTypeOK, AttachmentTypeOK, PhoneTypeOK
    <3> HIDE DEF fs
    <3>2. PICK q \in Seq(Frame) :
              /\ out' = [out EXCEPT ![current] = q]
              /\ Len(q) >= Len(out[current])
              /\ \/ /\ q = out[current] \o fs
                    /\ UNCHANGED <<current, expiry, detached, sender, backlog>>
                 \/ /\ current' = None
                    /\ expiry' = (IF ~released THEN "armed" ELSE expiry)
                    /\ detached' = [detached EXCEPT ![current] = TRUE]
                    /\ sender' = [sender EXCEPT ![current] = Cancelled(@)]
                    /\ backlog' = [backlog EXCEPT ![current] = @]
      BY <1>6, <3>1, OfferCases
    <3>3. out[current] # <<>> => q # <<>>
      <4>1. out[current] # <<>> => Len(out[current]) \in Nat \ {0}
        BY <3>1, EmptySeq DEF TypeOK, LeaseTypeOK, TaskTypeOK, AttachmentTypeOK, PhoneTypeOK
      <4>2. q # <<>> <=> Len(q) # 0
        BY EmptySeq
      <4>3. QED
        BY <3>2, <4>1, <4>2, LenProperties
    <3>4. out' \in [Att -> Seq(Frame)]
      BY <3>2 DEF TypeOK, LeaseTypeOK, TaskTypeOK, AttachmentTypeOK, PhoneTypeOK
    <3>5. HeldFrameQueued'
      BY <2>1, <3>1, <3>2, <3>3 DEF HeldFrameQueued, TypeOK, LeaseTypeOK, TaskTypeOK, AttachmentTypeOK, PhoneTypeOK, Cancelled
    <3>6. QED
      BY <3>1, <3>2, <3>4, <3>5 DEF TypeOK, LeaseTypeOK, TaskTypeOK, AttachmentTypeOK, PhoneTypeOK, Cancelled
  <2>4. QED
    BY <2>2, <2>3
<1>8. /\ lastSeq' = lastSeq + 1 /\ capPending' \in BOOLEAN
      /\ UNCHANGED <<recoveryEnabled, released, releaseReason, cleanup, initiator, made,
                     recovery, taken, closed, link, cursor, applied, reconciled, pump>>
  BY <1>1 DEF Retain, releaseVars, phoneVars, TypeOK, LeaseTypeOK, TaskTypeOK, AttachmentTypeOK, PhoneTypeOK
<1>9. LeaseTypeOK'
  BY <1>4, <1>5, <1>7, <1>8 DEF TypeOK, LeaseTypeOK
<1>10. TaskTypeOK'
  BY <1>7, <1>8 DEF TypeOK, TaskTypeOK
<1>11. AttachmentTypeOK'
  BY <1>7, <1>8 DEF TypeOK, AttachmentTypeOK
<1>12. PhoneTypeOK'
  BY <1>8 DEF TypeOK, PhoneTypeOK
<1>13. QED
  BY <1>7, <1>9, <1>10, <1>11, <1>12 DEF TypeOK

\* A local reply keeps the types.
LEMMA TypeLocalReply ==
    ASSUME TypeInv, LocalReply
    PROVE  TypeInv'
<1> USE DEF TypeInv
<1>1. current \in Att /\ Local \in Frame
  BY FrameTypes DEF LocalReply, TypeOK, LeaseTypeOK
<1> DEFINE fs == <<Local>>
<1>2. fs \in Seq(Frame) /\ Offer(current, fs)
  BY <1>1 DEF LocalReply
<1> HIDE DEF fs
<1>3. PICK q \in Seq(Frame) :
          /\ out' = [out EXCEPT ![current] = q]
          /\ Len(q) >= Len(out[current])
          /\ \/ /\ q = out[current] \o fs
                /\ UNCHANGED <<current, expiry, detached, sender, backlog>>
             \/ /\ current' = None
                /\ expiry' = (IF ~released THEN "armed" ELSE expiry)
                /\ detached' = [detached EXCEPT ![current] = TRUE]
                /\ sender' = [sender EXCEPT ![current] = Cancelled(@)]
                /\ backlog' = [backlog EXCEPT ![current] = @]
  BY <1>1, <1>2, OfferCases
<1>4. out[current] # <<>> => q # <<>>
  <2>1. out[current] # <<>> => Len(out[current]) \in Nat \ {0}
    BY <1>1, EmptySeq DEF TypeOK, AttachmentTypeOK
  <2>2. q # <<>> <=> Len(q) # 0
    BY EmptySeq
  <2>3. QED
    BY <1>3, <2>1, <2>2, LenProperties
<1>5. UNCHANGED <<lastSeq, ring, trimmedThrough, recoveryEnabled, capPending, released,
                  releaseReason, cleanup, initiator, made, recovery, taken, closed, link, cursor,
                  applied, reconciled, pump>>
  BY DEF LocalReply, releaseVars, phoneVars
<1>6. LeaseTypeOK'
  BY <1>3, <1>5 DEF TypeOK, LeaseTypeOK
<1>7. TaskTypeOK'
  BY <1>3, <1>5 DEF TypeOK, TaskTypeOK
<1>8. AttachmentTypeOK'
  BY <1>1, <1>3, <1>5 DEF TypeOK, AttachmentTypeOK, Cancelled
<1>9. PhoneTypeOK'
  BY <1>5 DEF TypeOK, PhoneTypeOK
<1>10. HeldFrameQueued'
  BY <1>1, <1>3, <1>4, <1>5 DEF HeldFrameQueued, TypeOK, AttachmentTypeOK, Cancelled
<1>11. QED
  BY <1>6, <1>7, <1>8, <1>9, <1>10 DEF TypeOK

\* What the fence does to the attachments.
LEMMA FenceFacts ==
    ASSUME TypeInv, NEW r, NEW w, Fence(r, w)
    PROVE  /\ ~released /\ released' = TRUE /\ releaseReason' = r /\ initiator' = w
           /\ cleanup' = "fenced" /\ current' = None
           /\ UNCHANGED <<made, recovery, taken, closed, recoveryEnabled, link, cursor, applied,
                          reconciled>>
           /\ detached' \in [Att -> BOOLEAN]
           /\ sender' \in [Att -> {"none", "starting", "run", "cancelled", "done"}]
           /\ backlog' \in [Att -> Nat]
           /\ out' \in [Att -> Seq(Frame)]
           /\ HeldFrameQueued'
<1> USE DEF TypeInv
<1>1. /\ ~released /\ released' = TRUE /\ releaseReason' = r /\ initiator' = w
      /\ cleanup' = "fenced" /\ current' = None
      /\ UNCHANGED <<made, recovery, taken, closed, recoveryEnabled, link, cursor, applied,
                     reconciled>>
  BY DEF Fence, phoneVars
<1>2. CASE current = None
  <2>1. UNCHANGED <<detached, sender, out, backlog>>
    BY <1>2 DEF Fence
  <2>2. QED
    BY <1>1, <2>1 DEF TypeOK, AttachmentTypeOK, HeldFrameQueued
<1>3. CASE current # None
  <2>1. current \in Att
    BY <1>3 DEF TypeOK, LeaseTypeOK
  <2> DEFINE q == SubSeq(out[current], 1, taken[current])
  <2>2. /\ detached' = [detached EXCEPT ![current] = TRUE]
        /\ sender' = [sender EXCEPT ![current] = Cancelled(@)]
        /\ out' = [out EXCEPT ![current] = q]
        /\ backlog' = [backlog EXCEPT ![current] = 0]
    BY <1>3 DEF Fence, MarkDetached, MarkedOut
  <2>3. out[current] \in Seq(Frame) /\ taken[current] \in 0..Len(out[current])
    <3>1. out[current] \in Seq(Frame) /\ taken[current] \in {0, 1}
      BY <2>1 DEF TypeOK, AttachmentTypeOK
    <3>2. Len(out[current]) \in Nat /\ (out[current] # <<>> => Len(out[current]) \in Nat \ {0})
      BY <3>1, EmptySeq, LenProperties
    <3>3. taken[current] = 1 => out[current] # <<>>
      BY <2>1 DEF HeldFrameQueued
    <3>4. QED
      BY <3>1, <3>2, <3>3
  <2>4. q \in Seq(Frame) /\ Len(q) = taken[current]
    BY <2>3, PrefixFacts
  <2> HIDE DEF q
  <2>5. taken[current] = 1 => q # <<>>
    BY <2>4, EmptySeq
  <2>6. HeldFrameQueued'
    BY <1>1, <2>1, <2>2, <2>5 DEF HeldFrameQueued, TypeOK, AttachmentTypeOK, Cancelled
  <2>7. QED
    BY <1>1, <2>1, <2>2, <2>4, <2>6 DEF TypeOK, AttachmentTypeOK, Cancelled
<1>4. QED
  BY <1>2, <1>3

\* Every way to start a release keeps the types.
LEMMA TypeRelease ==
    ASSUME TypeInv,
           Expire \/ PumpClosed \/ RetainFails \/ CapRelease \/ ExternalRelease
    PROVE  TypeInv'
<1> USE DEF TypeInv
<1>1. /\ lastSeq' \in {lastSeq, lastSeq + 1} /\ capPending' \in BOOLEAN
      /\ pump' \in {"run", "cancelled", "releasing", "done"}
      /\ UNCHANGED <<ring, trimmedThrough, expiry>>
  BY DEF Expire, PumpClosed, RetainFails, CapRelease, ExternalRelease, TypeOK, LeaseTypeOK,
         TaskTypeOK
<1>2. CASE UNCHANGED <<current, recoveryEnabled, releaseVars, attVars, phoneVars>>
  <2>1. UNCHANGED <<current, recoveryEnabled, released, releaseReason, cleanup, initiator, made,
                    detached, recovery, out, taken, backlog, sender, closed, link, cursor,
                    applied, reconciled>>
    BY <1>2 DEF releaseVars, attVars, phoneVars
  <2>2. LeaseTypeOK'
    BY <1>1, <2>1 DEF TypeOK, LeaseTypeOK
  <2>3. TaskTypeOK'
    BY <1>1, <2>1 DEF TypeOK, TaskTypeOK
  <2>4. AttachmentTypeOK' /\ PhoneTypeOK' /\ HeldFrameQueued'
    BY <2>1 DEF TypeOK, AttachmentTypeOK, PhoneTypeOK, HeldFrameQueued
  <2>5. QED
    BY <2>2, <2>3, <2>4 DEF TypeOK
<1>3. ASSUME NEW r \in {"expired", "controller_closed", "controller_failed", "retention_cap",
                        "released"},
             NEW w \in {"pump", "expiry", "other"},
             Fence(r, w)
      PROVE  TypeInv'
  <2>1. LeaseTypeOK'
    <3>1. current' = None /\ recoveryEnabled' = recoveryEnabled
      BY <1>3, FenceFacts
    <3>2. QED
      BY <1>1, <3>1 DEF TypeOK, LeaseTypeOK
  <2>2. TaskTypeOK'
    BY <1>1, <1>3, FenceFacts DEF TypeOK, TaskTypeOK
  <2>3. AttachmentTypeOK' /\ HeldFrameQueued'
    BY <1>3, FenceFacts DEF TypeOK, AttachmentTypeOK
  <2>4. PhoneTypeOK'
    BY <1>3, FenceFacts DEF TypeOK, PhoneTypeOK
  <2>5. QED
    BY <2>1, <2>2, <2>3, <2>4 DEF TypeOK
<1>4. \/ UNCHANGED <<current, recoveryEnabled, releaseVars, attVars, phoneVars>>
      \/ Fence("expired", "expiry") \/ Fence("controller_closed", "pump")
      \/ Fence("controller_failed", "pump") \/ Fence("retention_cap", "other")
      \/ Fence("released", "other")
  BY DEF Expire, PumpClosed, RetainFails, CapRelease, ExternalRelease
<1>5. QED
  BY <1>2, <1>3, <1>4

\* _finish_release keeps the types.
LEMMA TypeCleanup ==
    ASSUME TypeInv, Cleanup
    PROVE  TypeInv'
<1> USE DEF TypeInv
<1>1. /\ UNCHANGED <<lastSeq, trimmedThrough, current, recoveryEnabled, capPending, released,
                     releaseReason, initiator, made, detached, recovery, out, taken, backlog,
                     closed, link, cursor, applied, reconciled>>
      /\ ring' \in {ring, <<>>}
      /\ cleanup' \in {"joining", "closing", "succeeded", "failed", cleanup}
      /\ pump' \in {"run", "cancelled", "releasing", "done"}
      /\ expiry' \in {"none", "armed", "cancelled"}
      /\ sender' = [a \in Att |-> Cancelled(sender[a])] \/ sender' = sender
  BY DEF Cleanup, BeginJoin, CancelDelivered, JoinDone, CloseController, leaseVars, releaseVars,
         attVars, phoneVars, Cancelled, TypeOK, TaskTypeOK
<1>2. LeaseTypeOK'
  BY <1>1, EmptySeq DEF TypeOK, LeaseTypeOK
<1>3. TaskTypeOK'
  BY <1>1 DEF TypeOK, TaskTypeOK
<1>4. AttachmentTypeOK'
  BY <1>1 DEF TypeOK, AttachmentTypeOK, Cancelled
<1>5. PhoneTypeOK'
  BY <1>1 DEF TypeOK, PhoneTypeOK
<1>6. HeldFrameQueued'
  BY <1>1 DEF TypeOK, AttachmentTypeOK, HeldFrameQueued, Cancelled
<1>7. QED
  BY <1>2, <1>3, <1>4, <1>5, <1>6 DEF TypeOK

\* attach keeps the types.
LEMMA TypeAttach ==
    ASSUME TypeInv, AttachStep
    PROVE  TypeInv'
<1> USE DEF TypeInv
<1>1. PICK wrapped \in BOOLEAN, replace \in BOOLEAN, aged \in 0..Len(ring), d \in 0..Len(ring),
           k \in 0..Len(ring) : Attach(wrapped, replace, aged, d, k)
  BY DEF AttachStep
<1> DEFINE n == made + 1
           kept == DropFirst(ring, d)
           trimmed == TrimmedThroughAfter(ring, d)
           frames == Backlog(DropFirst(kept, k), lastSeq, ReplayGap(trimmed), wrapped)
           first == SubSeq(out[current], 1, taken[current])
<1>2. ring \in Seq(RetainedEvent) /\ lastSeq \in Nat
  BY DEF TypeOK, LeaseTypeOK
<1>3. kept \in Seq(RetainedEvent)
  BY <1>2, DropFirstFacts
<1>4. trimmed \in Nat
  <2>1. d # 0 => ring[d] \in RetainedEvent
    BY <1>2, ElementOfSeq, LenProperties
  <2>2. QED
    BY <2>1 DEF TrimmedThroughAfter, TypeOK, LeaseTypeOK, RetainedEvent
<1>5. /\ n \in Att /\ made' = n
      /\ ring' = kept /\ trimmedThrough' = trimmed
      /\ k \in 0..Len(kept)
      /\ detached' = (IF current = None THEN detached ELSE [detached EXCEPT ![current] = TRUE])
      /\ sender' = [b \in Att |-> IF b = n THEN "starting"
                                  ELSE IF b = current THEN Cancelled(sender[b]) ELSE sender[b]]
      /\ out' = [b \in Att |-> IF b = n THEN frames
                               ELSE IF b = current THEN SubSeq(out[b], 1, taken[b]) ELSE out[b]]
      /\ backlog' = [b \in Att |-> IF b = n THEN Len(frames)
                                   ELSE IF b = current THEN 0 ELSE backlog[b]]
      /\ recovery' = [recovery EXCEPT ![n] = wrapped]
      /\ recoveryEnabled' = (recoveryEnabled \/ wrapped)
      /\ current' = n /\ expiry' = "none" /\ link' = n
      /\ taken' = [taken EXCEPT ![n] = 0]
      /\ UNCHANGED <<lastSeq, capPending, released, releaseReason, cleanup, initiator, closed,
                     cursor, applied, reconciled, pump>>
  BY <1>1, LimitsAssumption
     DEF Attach, Att, MarkedOut, releaseVars, TypeOK, AttachmentTypeOK
<1> HIDE DEF kept, trimmed
<1>6. frames \in Seq(Frame) /\ Len(frames) \in Nat
  <2>1. DropFirst(kept, k) \in Seq(RetainedEvent)
    BY <1>3, <1>5, DropFirstFacts
  <2>2. ReplayGap(trimmed) \in BOOLEAN
    BY DEF ReplayGap
  <2>3. QED
    BY <1>2, <2>1, <2>2, BacklogFacts, LenProperties
<1> HIDE DEF frames, n
<1>7. \A b \in Att : /\ SubSeq(out[b], 1, taken[b]) \in Seq(Frame)
                     /\ taken[b] = 1 => SubSeq(out[b], 1, taken[b]) # <<>>
  <2> SUFFICES ASSUME NEW b \in Att
               PROVE  /\ SubSeq(out[b], 1, taken[b]) \in Seq(Frame)
                      /\ taken[b] = 1 => SubSeq(out[b], 1, taken[b]) # <<>>
    OBVIOUS
  <2>1. out[b] \in Seq(Frame) /\ taken[b] \in {0, 1}
    BY DEF TypeOK, AttachmentTypeOK
  <2>2. Len(out[b]) \in Nat /\ (out[b] # <<>> => Len(out[b]) \in Nat \ {0})
    BY <2>1, EmptySeq, LenProperties
  <2>3. taken[b] = 1 => out[b] # <<>>
    BY DEF HeldFrameQueued
  <2>4. taken[b] \in 0..Len(out[b])
    BY <2>1, <2>2, <2>3
  <2> DEFINE p == SubSeq(out[b], 1, taken[b])
  <2>5. p \in Seq(Frame) /\ Len(p) = taken[b]
    BY <2>1, <2>4, PrefixFacts
  <2> HIDE DEF p
  <2>6. taken[b] = 1 => p # <<>>
    <3>1. p = <<>> => Len(p) = 0
      BY <2>5, EmptySeq
    <3>2. QED
      BY <2>5, <3>1
  <2>7. QED
    BY <2>5, <2>6 DEF p
<1>8. LeaseTypeOK'
  BY <1>3, <1>4, <1>5 DEF TypeOK, LeaseTypeOK
<1>9. TaskTypeOK'
  BY <1>5 DEF TypeOK, TaskTypeOK
<1>10. AttachmentTypeOK'
  <2>1. out' \in [Att -> Seq(Frame)] /\ taken' \in [Att -> {0, 1}]
    BY <1>5, <1>6, <1>7 DEF TypeOK, AttachmentTypeOK
  <2>2. backlog' \in [Att -> Nat]
    BY <1>5, <1>6 DEF TypeOK, AttachmentTypeOK
  <2>3. sender' \in [Att -> {"none", "starting", "run", "cancelled", "done"}]
    BY <1>5 DEF TypeOK, AttachmentTypeOK, Cancelled
  <2>4. detached' \in [Att -> BOOLEAN] /\ recovery' \in [Att -> BOOLEAN]
    BY <1>5 DEF TypeOK, AttachmentTypeOK
  <2>5. made' \in 0..MaxAttachments
    BY <1>5 DEF Att
  <2>6. QED
    BY <1>5, <2>1, <2>2, <2>3, <2>4, <2>5 DEF TypeOK, AttachmentTypeOK
<1>11. PhoneTypeOK'
  BY <1>5 DEF TypeOK, PhoneTypeOK
<1>12. HeldFrameQueued'
  <2> SUFFICES ASSUME NEW b \in Att, taken'[b] = 1
               PROVE  out'[b] # <<>> /\ sender'[b] \in {"run", "cancelled"}
    BY DEF HeldFrameQueued
  <2>1. b # n /\ taken[b] = 1
    BY <1>5 DEF TypeOK, AttachmentTypeOK
  <2>2. out[b] # <<>> /\ sender[b] \in {"run", "cancelled"}
    BY <2>1 DEF HeldFrameQueued
  <2>3. QED
    BY <1>5, <1>7, <2>1, <2>2 DEF Cancelled
<1>13. QED
  BY <1>8, <1>9, <1>10, <1>11, <1>12 DEF TypeOK

\* A sender step, its cancellation and the close of its transport keep the types.
LEMMA TypeSender ==
    ASSUME TypeInv, NEW a \in Att, SenderStep(a) \/ CancelSender(a) \/ TransportClose(a)
    PROVE  TypeInv'
<1> USE DEF TypeInv
<1>1. out[a] \in Seq(Frame) /\ taken[a] \in {0, 1} /\ <<>> \in Seq(Frame)
  BY EmptySeq DEF TypeOK, AttachmentTypeOK
<1>2. CASE Publish(a)
  <2>1. out[a] # <<>>
    BY <1>2 DEF Publish, HeldFrameQueued
  <2>2. Tail(out[a]) \in Seq(Frame) /\ Head(out[a]) \in Frame
    BY <1>1, <2>1, HeadTailProperties
  <2> DEFINE f == Head(out[a])
             t == Tail(out[a])
  <2>3. /\ out' = [out EXCEPT ![a] = t] /\ taken' = [taken EXCEPT ![a] = 0]
        /\ UNCHANGED <<leaseVars, releaseVars, made, detached, recovery, backlog, sender,
                       closed, link, pump, expiry>>
        /\ PhoneApplies(a, f) \/ UNCHANGED <<cursor, applied, reconciled>>
    BY <1>2 DEF Publish
  <2> HIDE DEF f, t
  <2>4. PhoneTypeOK'
    <3>1. f.seq \in Nat /\ f.from \in Nat /\ GapEnd(f) \in Nat
      BY <2>2 DEF f, Frame, GapEnd, None
    <3>2. cursor \in Nat /\ applied \subseteq Nat /\ reconciled \subseteq Nat
      BY DEF TypeOK, PhoneTypeOK
    <3>3. ((cursor + 1)..GapEnd(f)) \subseteq Nat
      BY <3>1, <3>2
    <3>4. cursor' \in Nat
      BY <2>3, <3>1, <3>2 DEF PhoneApplies
    <3>5. applied' \subseteq Nat
      BY <2>3, <3>1, <3>2 DEF PhoneApplies
    <3>6. reconciled' \subseteq Nat
      BY <2>3, <3>2, <3>3 DEF PhoneApplies
    <3>7. QED
      BY <2>3, <3>4, <3>5, <3>6 DEF TypeOK, PhoneTypeOK
  <2>5. LeaseTypeOK' /\ TaskTypeOK'
    BY <2>3 DEF leaseVars, releaseVars, TypeOK, LeaseTypeOK, TaskTypeOK
  <2>6. AttachmentTypeOK'
    BY <2>2, <2>3 DEF t, TypeOK, AttachmentTypeOK
  <2>7. HeldFrameQueued'
    BY <2>3 DEF TypeOK, AttachmentTypeOK, HeldFrameQueued
  <2>8. QED
    BY <2>4, <2>5, <2>6, <2>7 DEF TypeOK
<1>3. CASE RegisterOutbound(a) \/ TakeNext(a) \/ SenderStops(a) \/ CancelSender(a)
  <2>1. UNCHANGED <<leaseVars, releaseVars, made, detached, recovery, phoneVars, pump, expiry>>
    BY <1>3 DEF RegisterOutbound, TakeNext, SenderStops, CancelSender
  <2>2. LeaseTypeOK' /\ TaskTypeOK' /\ PhoneTypeOK'
    BY <2>1 DEF leaseVars, releaseVars, phoneVars, TypeOK, LeaseTypeOK, TaskTypeOK, PhoneTypeOK
  <2>3. CASE RegisterOutbound(a)
    <3>1. AttachmentTypeOK'
      <4>1. closed' \in [Att -> BOOLEAN]
        BY <2>3 DEF RegisterOutbound, TypeOK, AttachmentTypeOK
      <4>2. out' \in [Att -> Seq(Frame)]
        BY <1>1, <2>3 DEF RegisterOutbound, Discard, TypeOK, AttachmentTypeOK
      <4>3. taken' \in [Att -> {0, 1}] /\ backlog' \in [Att -> Nat]
        <5>1. /\ taken' = [taken EXCEPT ![a] = 0] \/ taken' = taken
              /\ backlog' = [backlog EXCEPT ![a] = 0] \/ backlog' = backlog
          BY <2>3 DEF RegisterOutbound, Discard
        <5>2. taken \in [Att -> {0, 1}] /\ backlog \in [Att -> Nat]
          BY DEF TypeOK, AttachmentTypeOK
        <5>3. taken' \in [Att -> {0, 1}]
          BY <5>1, <5>2
        <5>4. backlog' \in [Att -> Nat]
          BY <5>1, <5>2
        <5>5. QED
          BY <5>3, <5>4
      <4>4. sender' \in [Att -> {"none", "starting", "run", "cancelled", "done"}]
        BY <2>3 DEF RegisterOutbound, TypeOK, AttachmentTypeOK
      <4>5. made' \in 0..MaxAttachments /\ detached' \in [Att -> BOOLEAN]
        BY <2>1 DEF TypeOK, AttachmentTypeOK
      <4>6. recovery' \in [Att -> BOOLEAN]
        BY <2>1 DEF TypeOK, AttachmentTypeOK
      <4>7. QED
        BY <4>1, <4>2, <4>3, <4>4, <4>5, <4>6 DEF AttachmentTypeOK
    <3>2. HeldFrameQueued'
      BY <2>3 DEF RegisterOutbound, Discard, TypeOK, AttachmentTypeOK, HeldFrameQueued
    <3>3. QED
      BY <2>2, <3>1, <3>2 DEF TypeOK
  <2>4. CASE TakeNext(a)
    <3>1. AttachmentTypeOK'
      BY <1>1, <2>1, <2>4 DEF TakeNext, TypeOK, AttachmentTypeOK
    <3>2. HeldFrameQueued'
      BY <2>4 DEF TakeNext, TypeOK, AttachmentTypeOK, HeldFrameQueued
    <3>3. QED
      BY <2>2, <3>1, <3>2 DEF TypeOK
  <2>5. CASE SenderStops(a)
    <3> DEFINE q == SubSeq(out[a], taken[a] + 1, Len(out[a]))
    <3>1. q \in Seq(Frame)
      <4>1. Len(out[a]) \in Nat /\ \A i \in 1..Len(out[a]) : out[a][i] \in Frame
        BY <1>1, LenProperties
      <4>2. \A i \in (taken[a] + 1)..Len(out[a]) : out[a][i] \in Frame
        BY <1>1, <4>1
      <4>3. QED
        BY <1>1, <4>1, <4>2, SubSeqProperties
    <3>2. /\ sender' = [sender EXCEPT ![a] = "done"]
          /\ taken' = [taken EXCEPT ![a] = 0]
          /\ out' = [out EXCEPT ![a] = q] \/ out' = [out EXCEPT ![a] = <<>>]
          /\ closed' = [closed EXCEPT ![a] = TRUE] \/ closed' = closed
          /\ backlog' = [backlog EXCEPT ![a] = 0] \/ backlog' = backlog
      BY <2>5 DEF SenderStops, Discard
    <3> HIDE DEF q
    <3>3. AttachmentTypeOK'
      <4>1. closed' \in [Att -> BOOLEAN]
        BY <3>2 DEF TypeOK, AttachmentTypeOK
      <4>2. out' \in [Att -> Seq(Frame)]
        BY <1>1, <3>1, <3>2 DEF TypeOK, AttachmentTypeOK
      <4>3. taken' \in [Att -> {0, 1}] /\ backlog' \in [Att -> Nat]
        <5>1. taken \in [Att -> {0, 1}] /\ backlog \in [Att -> Nat]
          BY DEF TypeOK, AttachmentTypeOK
        <5>2. taken' \in [Att -> {0, 1}]
          BY <3>2, <5>1
        <5>3. backlog' \in [Att -> Nat]
          BY <3>2, <5>1
        <5>4. QED
          BY <5>2, <5>3
      <4>4. sender' \in [Att -> {"none", "starting", "run", "cancelled", "done"}]
        BY <3>2 DEF TypeOK, AttachmentTypeOK
      <4>5. made' \in 0..MaxAttachments /\ detached' \in [Att -> BOOLEAN]
        BY <2>1 DEF TypeOK, AttachmentTypeOK
      <4>6. recovery' \in [Att -> BOOLEAN]
        BY <2>1 DEF TypeOK, AttachmentTypeOK
      <4>7. QED
        BY <4>1, <4>2, <4>3, <4>4, <4>5, <4>6 DEF AttachmentTypeOK
    <3>4. HeldFrameQueued'
      BY <3>2 DEF TypeOK, AttachmentTypeOK, HeldFrameQueued
    <3>5. QED
      BY <2>2, <3>3, <3>4 DEF TypeOK
  <2>6. CASE CancelSender(a)
    <3>1. AttachmentTypeOK'
      BY <2>1, <2>6 DEF CancelSender, TypeOK, AttachmentTypeOK
    <3>2. HeldFrameQueued'
      BY <2>6 DEF CancelSender, TypeOK, AttachmentTypeOK, HeldFrameQueued
    <3>3. QED
      BY <2>2, <3>1, <3>2 DEF TypeOK
  <2>7. QED
    BY <1>3, <2>3, <2>4, <2>5, <2>6
<1>4. CASE TransportClose(a)
  <2> DEFINE q == IF sender[a] = "done" THEN <<>> ELSE out[a]
  <2>1. /\ current' = (IF current = a THEN None ELSE current)
        /\ expiry' = (IF current = a /\ ~released THEN "armed" ELSE expiry)
        /\ detached' = [detached EXCEPT ![a] = TRUE]
        /\ sender' = [sender EXCEPT ![a] = Cancelled(@)]
        /\ out' = [out EXCEPT ![a] = q]
        /\ backlog' = [backlog EXCEPT ![a] = @]
        /\ closed' = [closed EXCEPT ![a] = TRUE]
        /\ UNCHANGED <<lastSeq, ring, trimmedThrough, recoveryEnabled, capPending, releaseVars,
                       made, recovery, taken, phoneVars, pump>>
    BY <1>4 DEF TransportClose, DetachAttachment, MarkDetached, MarkedOut
  <2>2. q \in Seq(Frame)
    BY <1>1
  <2>3. taken[a] = 1 => q # <<>> /\ sender[a] # "done"
    BY DEF HeldFrameQueued
  <2> HIDE DEF q
  <2>4. LeaseTypeOK' /\ PhoneTypeOK'
    BY <2>1 DEF phoneVars, TypeOK, LeaseTypeOK, PhoneTypeOK
  <2>5. TaskTypeOK'
    BY <2>1 DEF releaseVars, TypeOK, TaskTypeOK
  <2>6. AttachmentTypeOK'
    BY <2>1, <2>2 DEF TypeOK, AttachmentTypeOK, Cancelled
  <2>7. HeldFrameQueued'
    BY <2>1, <2>3 DEF TypeOK, AttachmentTypeOK, HeldFrameQueued, Cancelled
  <2>8. QED
    BY <2>4, <2>5, <2>6, <2>7 DEF TypeOK
<1>5. QED
  BY <1>2, <1>3, <1>4 DEF SenderStep

\* The phone's own moves keep the types.
LEMMA TypePhone ==
    ASSUME TypeInv, LinkLost \/ PhoneRelaunch
    PROVE  TypeInv'
<1> USE DEF TypeInv
<1>1. /\ UNCHANGED <<leaseVars, releaseVars, attVars, pump, expiry>>
      /\ link' = None /\ cursor' \in {cursor, 0}
      /\ applied' \in {applied, {}} /\ reconciled' \in {reconciled, {}}
  BY DEF LinkLost, PhoneRelaunch
<1>2. PhoneTypeOK'
  BY <1>1 DEF TypeOK, PhoneTypeOK
<1>3. QED
  BY <1>1, <1>2 DEF leaseVars, releaseVars, attVars, TypeOK, LeaseTypeOK, TaskTypeOK,
                    AttachmentTypeOK, HeldFrameQueued

\* A step in which nothing changes keeps the types.
LEMMA TypeStutter ==
    ASSUME TypeInv, UNCHANGED vars
    PROVE  TypeInv'
BY DEF vars, leaseVars, releaseVars, attVars, phoneVars, TypeInv, TypeOK, LeaseTypeOK,
       TaskTypeOK, AttachmentTypeOK, PhoneTypeOK, HeldFrameQueued

\* Every step keeps the types.
LEMMA TypeNext == TypeInv /\ [Next]_vars => TypeInv'
<1> SUFFICES ASSUME TypeInv, [Next]_vars PROVE TypeInv'
  OBVIOUS
<1>1. CASE RetainStep
  BY <1>1, TypeRetain
<1>2. CASE LocalReply
  BY <1>2, TypeLocalReply
<1>3. CASE Expire \/ PumpClosed \/ RetainFails \/ CapRelease \/ ExternalRelease
  BY <1>3, TypeRelease
<1>4. CASE AttachStep
  BY <1>4, TypeAttach
<1>5. CASE Cleanup
  BY <1>5, TypeCleanup
<1>6. CASE \E a \in Att : SenderStep(a) \/ CancelSender(a) \/ TransportClose(a)
  BY <1>6, TypeSender
<1>7. CASE LinkLost \/ PhoneRelaunch
  BY <1>7, TypePhone
<1>8. CASE UNCHANGED vars
  BY <1>8, TypeStutter
<1>9. QED
  BY <1>1, <1>2, <1>3, <1>4, <1>5, <1>6, <1>7, <1>8 DEF Next

(***************************************************************************)
(* SessionLease is type correct: in particular sequence numbers, cursors   *)
(* and queues stay well formed, and a sender that holds a frame finds it   *)
(* still queued (pump_outbound never sends from an emptied queue).         *)
(***************************************************************************)
THEOREM TypeCorrect == Spec => [](TypeOK /\ HeldFrameQueued)
<1>1. Init => TypeInv
  BY TypeInit
<1>2. TypeInv /\ [Next]_vars => TypeInv'
  BY TypeNext
<1>3. QED
  BY <1>1, <1>2, PTL DEF Spec, TypeInv

-----------------------------------------------------------------------------
(* Ownership                                                               *)

\* The first attachment owns the lease.
LEMMA OwnershipInit == Init => Ownership
<1> SUFFICES ASSUME Init PROVE Ownership
  OBVIOUS
<1>1. made = 1 /\ current = 1 /\ detached = [a \in Att |-> FALSE] /\ ~released /\ cleanup = "none"
  BY DEF Init
<1>2. sender = [a \in Att |-> IF a = 1 THEN "starting" ELSE "none"]
  BY DEF Init, First
<1>3. \A a \in Att : a <= 1 <=> a = 1
  BY LimitsAssumption DEF Att
<1>4. \A a \in Att : a > 1 => a # 1
  BY DEF Att
<1>5. SingleConsumer
  BY <1>1, <1>3 DEF SingleConsumer
<1>6. QED
  BY <1>1, <1>2, <1>4, <1>5 DEF Ownership

(***************************************************************************)
(* Giving up the lease: the attachment a becomes detached, its sender no   *)
(* longer runs, and the lease is left without an attachment if it was a's. *)
(***************************************************************************)
LEMMA OwnershipDetach ==
    ASSUME TypeInv, Ownership, NEW a \in Att, a <= made,
           current' = (IF current = a THEN None ELSE current),
           detached' = [detached EXCEPT ![a] = TRUE],
           sender' = [sender EXCEPT ![a] = Cancelled(@)],
           made' = made
    PROVE  /\ SingleConsumer'
           /\ \A b \in Att : sender'[b] = "run" => b <= made' /\ ~detached'[b]
           /\ \A b \in Att : b > made' => ~detached'[b] /\ sender'[b] = "none"
           /\ current' <= made'
<1> USE DEF TypeInv
<1>1. made \in Nat /\ (current = None \/ current \in Att) /\ None \notin Att
  BY LimitsAssumption DEF TypeOK, LeaseTypeOK, AttachmentTypeOK, Att, None
<1>2. \A b \in Att : detached'[b] = IF b = a THEN TRUE ELSE detached[b]
  BY DEF TypeOK, AttachmentTypeOK
<1>3. \A b \in Att : sender'[b] = IF b = a THEN Cancelled(sender[b]) ELSE sender[b]
  BY DEF TypeOK, AttachmentTypeOK
<1>4. SingleConsumer'
  BY <1>1, <1>2 DEF Ownership, SingleConsumer
<1>5. \A b \in Att : sender'[b] = "run" => b <= made' /\ ~detached'[b]
  BY <1>2, <1>3 DEF Ownership, Cancelled
<1>6. \A b \in Att : b > made' => ~detached'[b] /\ sender'[b] = "none"
  BY <1>1, <1>2, <1>3 DEF Ownership, Att
<1>7. current' <= made'
  BY <1>1 DEF Ownership, None
<1>8. QED
  BY <1>4, <1>5, <1>6, <1>7

\* Offering frames to the current attachment keeps the ownership.
LEMMA OwnershipOffer ==
    ASSUME TypeInv, Ownership, current \in Att, NEW fs \in Seq(Frame), Offer(current, fs),
           UNCHANGED <<made, released, cleanup>>
    PROVE  Ownership'
<1>1. PICK q \in Seq(Frame) :
          /\ out' = [out EXCEPT ![current] = q]
          /\ Len(q) >= Len(out[current])
          /\ \/ /\ q = out[current] \o fs
                /\ UNCHANGED <<current, expiry, detached, sender, backlog>>
             \/ /\ current' = None
                /\ expiry' = (IF ~released THEN "armed" ELSE expiry)
                /\ detached' = [detached EXCEPT ![current] = TRUE]
                /\ sender' = [sender EXCEPT ![current] = Cancelled(@)]
                /\ backlog' = [backlog EXCEPT ![current] = @]
  BY OfferCases DEF TypeInv
<1>2. CASE UNCHANGED <<current, detached, sender>>
  BY <1>2 DEF Ownership, SingleConsumer
<1>3. CASE /\ current' = None
           /\ detached' = [detached EXCEPT ![current] = TRUE]
           /\ sender' = [sender EXCEPT ![current] = Cancelled(@)]
  <2>1. current <= made
    BY DEF Ownership
  <2>2. /\ SingleConsumer'
        /\ \A b \in Att : sender'[b] = "run" => b <= made' /\ ~detached'[b]
        /\ \A b \in Att : b > made' => ~detached'[b] /\ sender'[b] = "none"
        /\ current' <= made'
    BY <1>3, <2>1, OwnershipDetach
  <2>3. QED
    BY <1>3, <2>2 DEF Ownership
<1>4. QED
  BY <1>1, <1>2, <1>3

\* Fencing the lease takes it from its attachment.
LEMMA OwnershipFence ==
    ASSUME TypeInv, Ownership, NEW r, NEW w, Fence(r, w)
    PROVE  Ownership'
<1>1. released' = TRUE /\ current' = None /\ made' = made
  BY DEF Fence
<1>2. CASE current = None
  <2>1. UNCHANGED <<detached, sender, current>>
    BY <1>1, <1>2 DEF Fence
  <2>2. QED
    BY <1>1, <2>1 DEF Ownership, SingleConsumer
<1>3. CASE current # None
  <2>1. current \in Att /\ current <= made
    BY <1>3 DEF TypeInv, TypeOK, LeaseTypeOK, Ownership
  <2>2. /\ detached' = [detached EXCEPT ![current] = TRUE]
        /\ sender' = [sender EXCEPT ![current] = Cancelled(@)]
    BY <1>3 DEF Fence, MarkDetached
  <2>3. /\ SingleConsumer'
        /\ \A b \in Att : sender'[b] = "run" => b <= made' /\ ~detached'[b]
        /\ \A b \in Att : b > made' => ~detached'[b] /\ sender'[b] = "none"
        /\ current' <= made'
    BY <1>1, <2>1, <2>2, OwnershipDetach
  <2>4. QED
    BY <1>1, <2>3 DEF Ownership
<1>4. QED
  BY <1>2, <1>3

\* attach gives the lease to the new attachment and to no other.
LEMMA OwnershipAttach ==
    ASSUME TypeInv, Ownership, AttachStep
    PROVE  Ownership'
<1> USE DEF TypeInv
<1>1. PICK wrapped \in BOOLEAN, replace \in BOOLEAN, aged \in 0..Len(ring), d \in 0..Len(ring),
           k \in 0..Len(ring) : Attach(wrapped, replace, aged, d, k)
  BY DEF AttachStep
<1> DEFINE n == made + 1
<1>2. /\ n \in Att /\ made' = n /\ current' = n
      /\ detached' = (IF current = None THEN detached ELSE [detached EXCEPT ![current] = TRUE])
      /\ sender' = [b \in Att |-> IF b = n THEN "starting"
                                  ELSE IF b = current THEN Cancelled(sender[b]) ELSE sender[b]]
      /\ ~released /\ released' = released /\ cleanup' = cleanup
  BY <1>1, LimitsAssumption
     DEF Attach, CanAttach, Att, releaseVars, TypeOK, AttachmentTypeOK
<1>3. /\ made \in Nat /\ None \notin Att
      /\ current = None \/ (current \in Att /\ current <= made)
      /\ \A b \in Att : b \in Nat /\ (b <= n => b = n \/ b <= made) /\ (b > n => b > made)
  BY LimitsAssumption DEF TypeOK, LeaseTypeOK, AttachmentTypeOK, Att, None, Ownership
<1>4. \A b \in Att : detached'[b] <=> (b = current \/ detached[b])
  BY <1>2, <1>3 DEF TypeOK, AttachmentTypeOK
<1>5. ~detached[n] /\ n # current
  BY <1>2, <1>3 DEF Ownership
<1>6. SingleConsumer'
  BY <1>2, <1>3, <1>4, <1>5 DEF Ownership, SingleConsumer
<1>7. \A b \in Att : sender'[b] = "run" => b <= made' /\ ~detached'[b]
  <2> SUFFICES ASSUME NEW b \in Att, sender'[b] = "run" PROVE b <= made' /\ ~detached'[b]
    OBVIOUS
  <2>1. b # n /\ b # current /\ sender[b] = "run"
    BY <1>2 DEF Cancelled
  <2>2. b <= made /\ ~detached[b]
    BY <2>1 DEF Ownership
  <2>3. QED
    BY <1>2, <1>3, <1>4, <2>1, <2>2
<1>8. \A b \in Att : b > made' => ~detached'[b] /\ sender'[b] = "none"
  <2> SUFFICES ASSUME NEW b \in Att, b > made' PROVE ~detached'[b] /\ sender'[b] = "none"
    OBVIOUS
  <2>1. b > made /\ b # n /\ b # current
    BY <1>2, <1>3
  <2>2. ~detached[b] /\ sender[b] = "none"
    BY <2>1 DEF Ownership
  <2>3. QED
    BY <1>2, <1>4, <2>1, <2>2
<1>9. current' <= made'
  BY <1>2, <1>3
<1>10. QED
  BY <1>2, <1>6, <1>7, <1>8, <1>9 DEF Ownership

\* A sender runs only for the owner, and only the owner's close gives up the lease.
LEMMA OwnershipSender ==
    ASSUME TypeInv, Ownership, NEW a \in Att, SenderStep(a) \/ CancelSender(a) \/ TransportClose(a)
    PROVE  Ownership'
<1> USE DEF TypeInv
<1>1. CASE TransportClose(a)
  <2>1. /\ a <= made /\ made' = made
        /\ current' = (IF current = a THEN None ELSE current)
        /\ detached' = [detached EXCEPT ![a] = TRUE]
        /\ sender' = [sender EXCEPT ![a] = Cancelled(@)]
        /\ UNCHANGED <<released, cleanup>>
    BY <1>1 DEF TransportClose, DetachAttachment, MarkDetached, releaseVars
  <2>2. /\ SingleConsumer'
        /\ \A b \in Att : sender'[b] = "run" => b <= made' /\ ~detached'[b]
        /\ \A b \in Att : b > made' => ~detached'[b] /\ sender'[b] = "none"
        /\ current' <= made'
    BY <2>1, OwnershipDetach
  <2>3. QED
    BY <2>1, <2>2 DEF Ownership
<1>2. CASE SenderStep(a) \/ CancelSender(a)
  <2>1. /\ UNCHANGED <<current, released, cleanup, made, detached>>
        /\ \/ sender' = sender
           \/ /\ sender[a] # "none"
              /\ sender' = [sender EXCEPT ![a] = "done"] \/ sender' = [sender EXCEPT ![a] = "cancelled"]
           \/ sender[a] = "starting" /\ ~detached[a] /\ sender' = [sender EXCEPT ![a] = "run"]
    BY <1>2 DEF SenderStep, RegisterOutbound, TakeNext, Publish, SenderStops, CancelSender,
                leaseVars, releaseVars
  <2>2. a <= made \/ sender[a] = "none"
    BY LimitsAssumption DEF Ownership, TypeOK, AttachmentTypeOK, Att
  <2>3. \A b \in Att : b # a => sender'[b] = sender[b]
    BY <2>1 DEF TypeOK, AttachmentTypeOK
  <2>4. \/ sender'[a] = sender[a]
        \/ sender[a] # "none" /\ sender'[a] \in {"done", "cancelled"}
        \/ sender[a] # "none" /\ sender'[a] = "run" /\ ~detached[a]
    BY <2>1 DEF TypeOK, AttachmentTypeOK
  <2>5. \A b \in Att : sender'[b] = "run" => b <= made' /\ ~detached'[b]
    BY <2>1, <2>2, <2>3, <2>4 DEF Ownership
  <2>6. \A b \in Att : b > made' => ~detached'[b] /\ sender'[b] = "none"
    BY <2>1, <2>3, <2>4 DEF Ownership
  <2>7. SingleConsumer'
    BY <2>1 DEF Ownership, SingleConsumer
  <2>8. QED
    BY <2>1, <2>5, <2>6, <2>7 DEF Ownership
<1>3. QED
  BY <1>1, <1>2

\* The pump's frames and the relay's own answers go to the owner.
LEMMA OwnershipDelivery ==
    ASSUME TypeInv, Ownership, RetainStep \/ LocalReply
    PROVE  Ownership'
<1>1. CASE LocalReply
  <2>1. current \in Att /\ Local \in Frame
    BY <1>1, FrameTypes DEF LocalReply, TypeInv, TypeOK, LeaseTypeOK
  <2> DEFINE fs == <<Local>>
  <2>2. fs \in Seq(Frame) /\ Offer(current, fs) /\ UNCHANGED <<made, released, cleanup>>
    BY <1>1, <2>1 DEF LocalReply, releaseVars
  <2> HIDE DEF fs
  <2>3. QED
    BY <2>1, <2>2, OwnershipOffer
<1>2. CASE RetainStep
  <2>1. PICK size \in Sizes, replies \in 0..MaxReplies, aged \in 0..Len(ring),
             d \in 0..(Len(ring) + 1) : Retain(size, replies, aged, d)
    BY <1>2 DEF RetainStep
  <2> DEFINE e == EventFrame(lastSeq + 1, size, current # None /\ recovery[current])
             fs == Append([i \in 1..replies |-> Local], e)
  <2>2. OfferToCurrent(fs) /\ UNCHANGED <<made, released, cleanup>>
    BY <2>1 DEF Retain, releaseVars
  <2>3. fs \in Seq(Frame)
    <3>1. size \in Nat /\ replies \in Nat
      BY LimitsAssumption
    <3>2. lastSeq + 1 \in Nat /\ (current # None /\ recovery[current]) \in BOOLEAN
      BY DEF TypeInv, TypeOK, LeaseTypeOK
    <3>3. e \in Frame
      BY <3>1, <3>2, FrameTypes
    <3>4. QED
      BY <3>1, <3>3, OfferedFacts
  <2> HIDE DEF fs
  <2>4. CASE current = None
    <3>1. UNCHANGED <<current, detached, sender>>
      BY <2>2, <2>4 DEF OfferToCurrent
    <3>2. QED
      BY <2>2, <3>1 DEF Ownership, SingleConsumer
  <2>5. CASE current # None
    <3>1. current \in Att /\ Offer(current, fs)
      BY <2>2, <2>5 DEF OfferToCurrent, TypeInv, TypeOK, LeaseTypeOK
    <3>2. QED
      BY <2>2, <2>3, <3>1, OwnershipOffer
  <2>6. QED
    BY <2>4, <2>5
<1>3. QED
  BY <1>1, <1>2

\* Every step keeps the ownership.
LEMMA OwnershipNext == TypeInv /\ Ownership /\ [Next]_vars => Ownership'
<1> SUFFICES ASSUME TypeInv, Ownership, [Next]_vars PROVE Ownership'
  OBVIOUS
<1>1. CASE RetainStep \/ LocalReply
  BY <1>1, OwnershipDelivery
<1>2. CASE Expire \/ PumpClosed \/ RetainFails \/ CapRelease \/ ExternalRelease
  <2>1. \/ UNCHANGED <<current, recoveryEnabled, releaseVars, attVars, phoneVars>>
        \/ Fence("expired", "expiry") \/ Fence("controller_closed", "pump")
        \/ Fence("controller_failed", "pump") \/ Fence("retention_cap", "other")
        \/ Fence("released", "other")
    BY <1>2 DEF Expire, PumpClosed, RetainFails, CapRelease, ExternalRelease
  <2>2. CASE UNCHANGED <<current, recoveryEnabled, releaseVars, attVars, phoneVars>>
    BY <2>2 DEF releaseVars, attVars, Ownership, SingleConsumer
  <2>3. QED
    BY <2>1, <2>2, OwnershipFence
<1>3. CASE AttachStep
  BY <1>3, OwnershipAttach
<1>4. CASE Cleanup
  <2>1. /\ UNCHANGED <<current, released, made, detached>>
        /\ cleanup # "none" \/ cleanup' = cleanup
        /\ sender' = [a \in Att |-> Cancelled(sender[a])] \/ sender' = sender
    BY <1>4 DEF Cleanup, BeginJoin, CancelDelivered, JoinDone, CloseController, leaseVars,
                releaseVars, attVars
  <2>2. \A a \in Att : /\ sender'[a] = "run" => sender[a] = "run"
                       /\ sender[a] = "none" => sender'[a] = "none"
    BY <2>1 DEF Cancelled
  <2>3. QED
    BY <2>1, <2>2 DEF Ownership, SingleConsumer
<1>5. CASE \E a \in Att : SenderStep(a) \/ CancelSender(a) \/ TransportClose(a)
  BY <1>5, OwnershipSender
<1>6. CASE LinkLost \/ PhoneRelaunch
  BY <1>6 DEF LinkLost, PhoneRelaunch, leaseVars, releaseVars, attVars, Ownership, SingleConsumer
<1>7. CASE UNCHANGED vars
  BY <1>7 DEF vars, leaseVars, releaseVars, attVars, Ownership, SingleConsumer
<1>8. QED
  BY <1>1, <1>2, <1>3, <1>4, <1>5, <1>6, <1>7 DEF Next

(***************************************************************************)
(* An attachment is live exactly while it owns the lease: a replaced or    *)
(* detached one stays fenced, and its late cleanup (detach's identity      *)
(* check) never evicts the attachment that replaced it.                    *)
(***************************************************************************)
THEOREM SingleConsumerHolds == Spec => []SingleConsumer
<1>1. Init => TypeInv /\ Ownership
  BY TypeInit, OwnershipInit
<1>2. TypeInv /\ Ownership /\ [Next]_vars => (TypeInv /\ Ownership)'
  BY TypeNext, OwnershipNext
<1>3. Ownership => SingleConsumer
  BY DEF Ownership
<1>4. QED
  BY <1>1, <1>2, <1>3, PTL DEF Spec

(***************************************************************************)
(* Whatever is still queued, held by a cancelled sender or in flight when  *)
(* an attachment loses the lease stays unsent: only pump_outbound of the   *)
(* owner publishes (register_outbound, _mark_detached, release).           *)
(***************************************************************************)
THEOREM NothingAfterFenceHolds == Spec => NothingAfterFence
<1> DEFINE Quiet == released \/ link # current =>
                       applied' \subseteq applied /\ reconciled' \subseteq reconciled
<1>1. TypeInv /\ Ownership /\ [Next]_vars => [Quiet]_vars
  <2> SUFFICES ASSUME TypeInv, Ownership, Next, released \/ link # current
               PROVE  applied' \subseteq applied /\ reconciled' \subseteq reconciled
    OBVIOUS
  <2>1. CASE UNCHANGED <<applied, reconciled>>
    BY <2>1
  <2>2. CASE PhoneRelaunch
    BY <2>2 DEF PhoneRelaunch
  <2>3. CASE \E a \in Att : Publish(a)
    <3>1. PICK a \in Att : Publish(a)
      BY <2>3
    <3>2. sender[a] = "run"
      BY <3>1 DEF Publish
    <3>3. a <= made /\ ~detached[a]
      BY <3>2 DEF Ownership
    <3>4. current = a
      BY <3>3 DEF Ownership, SingleConsumer
    <3>5. link # a
      BY <3>4, LimitsAssumption DEF Ownership, None, Att
    <3>6. QED
      BY <3>1, <3>5 DEF Publish
  <2>4. \/ UNCHANGED <<applied, reconciled>> \/ PhoneRelaunch
        \/ \E a \in Att : Publish(a)
    <3>1. RetainStep \/ AttachStep => UNCHANGED <<applied, reconciled>>
      BY DEF RetainStep, Retain, AttachStep, Attach, phoneVars
    <3>2. LocalReply \/ RetainFails \/ PumpClosed \/ Expire \/ CapRelease \/ ExternalRelease
             => UNCHANGED <<applied, reconciled>>
      BY DEF LocalReply, RetainFails, PumpClosed, Expire, CapRelease, ExternalRelease, Fence,
             phoneVars
    <3>3. Cleanup \/ LinkLost => UNCHANGED <<applied, reconciled>>
      BY DEF Cleanup, BeginJoin, CancelDelivered, JoinDone, CloseController, LinkLost, phoneVars
    <3>4. ASSUME NEW a \in Att, SenderStep(a) \/ CancelSender(a) \/ TransportClose(a), ~Publish(a)
          PROVE  UNCHANGED <<applied, reconciled>>
      BY <3>4 DEF SenderStep, RegisterOutbound, TakeNext, SenderStops, CancelSender,
                  TransportClose, phoneVars
    <3>5. QED
      BY <3>1, <3>2, <3>3, <3>4 DEF Next
  <2>5. QED
    BY <2>1, <2>2, <2>3, <2>4
<1>2. Init => TypeInv /\ Ownership
  BY TypeInit, OwnershipInit
<1>3. TypeInv /\ Ownership /\ [Next]_vars => (TypeInv /\ Ownership)'
  BY TypeNext, OwnershipNext
<1>4. QED
  BY <1>1, <1>2, <1>3, PTL DEF Spec, NothingAfterFence

-----------------------------------------------------------------------------
(* The end of the lease                                                    *)

\* The cleanup task has joined what it owns.
Joined == cleanup \in {"closing", "succeeded", "failed"}

\* Once the owned tasks have ended none of them comes back: a sender that had
\* not started yet is refused, nothing attaches, and no timer is cancelled.
LEMMA JoinedStays == TypeInv /\ Ownership /\ ClosedAfterJoin /\ [Next]_vars => ClosedAfterJoin'
<1> SUFFICES ASSUME TypeInv, Ownership, ClosedAfterJoin, [Next]_vars, Joined' PROVE ~OwnedTaskRunning' /\ ring' = <<>>
  BY DEF ClosedAfterJoin, Joined
<1>0. /\ Joined => released /\ ring = <<>> /\ pump \notin {"run", "cancelled"} /\ expiry # "cancelled"
      /\ Joined => \A a \in Att : sender[a] \notin {"run", "cancelled"}
      /\ sender \in [Att -> {"none", "starting", "run", "cancelled", "done"}]
  BY DEF ClosedAfterJoin, Joined, Ownership, OwnedTaskRunning, TypeInv, TypeOK, AttachmentTypeOK
<1>1. CASE UNCHANGED <<ring, pump, expiry, sender, cleanup>>
  BY <1>0, <1>1 DEF OwnedTaskRunning, Joined
<1>2. CASE RetainStep \/ LocalReply \/ AttachStep \/ Expire \/ ExternalRelease \/ PumpClosed \/ RetainFails
  <2>1. CASE RetainStep \/ LocalReply \/ AttachStep
    <3>1. RetainStep => cleanup' = cleanup /\ pump = "run"
      BY DEF RetainStep, Retain, releaseVars
    <3>2. LocalReply => cleanup' = cleanup /\ ~released
      BY DEF LocalReply, releaseVars
    <3>3. AttachStep => cleanup' = cleanup /\ ~released
      <4> SUFFICES ASSUME AttachStep PROVE cleanup' = cleanup /\ ~released
        OBVIOUS
      <4>1. PICK wrapped \in BOOLEAN, replace \in BOOLEAN, aged \in 0..Len(ring), d \in 0..Len(ring),
                 k \in 0..Len(ring) : Attach(wrapped, replace, aged, d, k)
        BY DEF AttachStep
      <4>2. CanAttach(wrapped, replace) /\ cleanup' = cleanup
        BY <4>1, Zenon DEF Attach, releaseVars
      <4>3. QED
        BY <4>2 DEF CanAttach
    <3>4. QED
      BY <1>0, <2>1, <3>1, <3>2, <3>3 DEF Joined
  <2>2. CASE Expire \/ ExternalRelease
    BY <2>2 DEF Expire, ExternalRelease, Fence, Joined
  <2>3. CASE PumpClosed \/ RetainFails
    <3>1. pump = "run" /\ (cleanup' = cleanup \/ cleanup' = "fenced")
      BY <2>3 DEF PumpClosed, RetainFails, Fence, releaseVars
    <3>2. QED
      BY <1>0, <3>1 DEF Joined
  <2>4. QED
    BY <1>2, <2>1, <2>2, <2>3
<1>3. CASE CapRelease
  <2>1. released
    BY <1>3 DEF CapRelease, Fence, Joined
  <2>2. QED
    BY <1>1, <1>3, <2>1 DEF CapRelease, releaseVars, attVars
<1>4. CASE BeginJoin
  BY <1>4 DEF BeginJoin, Joined
<1>5. CASE CancelDelivered
  <2>1. UNCHANGED <<cleanup, ring, sender>>
    BY <1>5 DEF CancelDelivered, leaseVars, releaseVars, attVars
  <2>2. pump = "cancelled" \/ expiry = "cancelled"
    BY <1>5 DEF CancelDelivered
  <2>3. QED
    BY <1>0, <2>1, <2>2 DEF Joined
<1>6. CASE JoinDone
  BY <1>6 DEF JoinDone, OwnedTaskRunning, attVars
<1>7. CASE CloseController
  <2>1. /\ Joined /\ UNCHANGED <<ring, sender>>
        /\ pump' = (IF pump = "releasing" THEN "done" ELSE pump)
        /\ expiry' = (IF initiator = "expiry" THEN "none" ELSE expiry)
    BY <1>7 DEF CloseController, Joined, leaseVars, attVars
  <2>2. QED
    BY <1>0, <2>1 DEF OwnedTaskRunning
<1>8. ASSUME NEW a \in Att, SenderStep(a) \/ CancelSender(a) \/ TransportClose(a)
      PROVE  ~OwnedTaskRunning' /\ ring' = <<>>
  <2>1. /\ UNCHANGED <<cleanup, ring, pump>>
        /\ released => expiry' = expiry
    BY <1>8 DEF SenderStep, RegisterOutbound, TakeNext, Publish, SenderStops, CancelSender,
                TransportClose, DetachAttachment, leaseVars, releaseVars
  <2>2. Joined /\ released /\ sender[a] \notin {"run", "cancelled"}
    BY <1>0, <2>1 DEF Joined
  <2>3. sender' = sender \/ sender' = [sender EXCEPT ![a] = "done"] \/ sender' = [sender EXCEPT ![a] = Cancelled(@)]
    BY <1>8, <2>2 DEF SenderStep, RegisterOutbound, TakeNext, Publish, SenderStops, CancelSender,
                      TransportClose, DetachAttachment, MarkDetached
  <2>4. \A b \in Att : sender'[b] \notin {"run", "cancelled"}
    BY <1>0, <2>2, <2>3 DEF Cancelled
  <2>5. QED
    BY <1>0, <2>1, <2>2, <2>4 DEF OwnedTaskRunning
<1>9. CASE LinkLost \/ PhoneRelaunch
  BY <1>1, <1>9 DEF LinkLost, PhoneRelaunch, leaseVars, releaseVars, attVars
<1>10. CASE UNCHANGED vars
  BY <1>1, <1>10 DEF vars, leaseVars, releaseVars, attVars
<1>11. QED
  BY <1>2, <1>3, <1>4, <1>5, <1>6, <1>7, <1>8, <1>9, <1>10 DEF Next, Cleanup

(***************************************************************************)
(* The inner controller is closed only after every task of the lease has   *)
(* ended and the ring is forgotten, whoever released the lease and however *)
(* many attachments it had (_finish_release); and nothing that happens     *)
(* while it closes, or after, starts one of them again.                    *)
(***************************************************************************)
THEOREM ClosedAfterJoinHolds == Spec => []ClosedAfterJoin
<1> DEFINE Inv == TypeInv /\ Ownership /\ ClosedAfterJoin
<1>1. Init => Inv
  BY TypeInit, OwnershipInit DEF Init, ClosedAfterJoin
<1>2. Inv /\ [Next]_vars => Inv'
  BY TypeNext, OwnershipNext, JoinedStays
<1>3. QED
  BY <1>1, <1>2, PTL DEF Spec

-----------------------------------------------------------------------------
(* The ring                                                                *)

\* s is the run of events after t, up to last.
EventsAfter(s, t, last) ==
    /\ \A i \in 1..Len(s) : s[i].seq = t + i
    /\ t + Len(s) = last

\* _trim leaves the run of events after the new trimmed_through.
LEMMA TrimKeepsRun ==
    ASSUME NEW s \in Seq(RetainedEvent), NEW last \in Nat, trimmedThrough \in Nat,
           EventsAfter(s, trimmedThrough, last), NEW d \in 0..Len(s)
    PROVE  EventsAfter(DropFirst(s, d), TrimmedThroughAfter(s, d), last)
<1>1. Len(s) \in Nat
  BY LenProperties
<1>2. TrimmedThroughAfter(s, d) = trimmedThrough + d
  BY <1>1 DEF TrimmedThroughAfter, EventsAfter
<1> DEFINE r == DropFirst(s, d)
<1>3. Len(r) = Len(s) - d /\ \A i \in 1..(Len(s) - d) : r[i] = s[d + i]
  BY DropFirstFacts
<1> HIDE DEF r
<1>4. \A i \in 1..(Len(s) - d) : d + i \in 1..Len(s)
  BY <1>1
<1>5. \A i \in 1..Len(r) : r[i].seq = trimmedThrough + d + i
  <2> SUFFICES ASSUME NEW i \in 1..Len(r) PROVE r[i].seq = trimmedThrough + d + i
    OBVIOUS
  <2>1. i \in 1..(Len(s) - d) /\ d + i \in 1..Len(s)
    BY <1>3, <1>4
  <2>2. s[d + i].seq = trimmedThrough + (d + i)
    BY <2>1 DEF EventsAfter
  <2>3. r[i] = s[d + i]
    BY <1>3, <2>1
  <2>4. trimmedThrough + (d + i) = trimmedThrough + d + i
    BY <1>1, <2>1
  <2>5. QED
    BY <2>2, <2>3, <2>4
<1>6. trimmedThrough + d + Len(r) = last
  <2>1. trimmedThrough + Len(s) = last
    BY DEF EventsAfter
  <2>2. QED
    BY <1>1, <1>3, <2>1
<1>7. EventsAfter(r, trimmedThrough + d, last)
  BY <1>5, <1>6 DEF EventsAfter
<1>8. QED
  BY <1>2, <1>7 DEF r

\* Every step keeps the retained events contiguous.
LEMMA RingNext ==
    ASSUME TypeInv, Ownership, RetainedIsContiguous, [Next]_vars
    PROVE  RetainedIsContiguous'
<1> SUFFICES ASSUME ~released' PROVE RingContiguous'
  BY DEF RetainedIsContiguous
<1>1. ring \in Seq(RetainedEvent) /\ trimmedThrough \in Nat /\ lastSeq \in Nat
  BY DEF TypeInv, TypeOK, LeaseTypeOK
<1>2. Len(ring) \in Nat
  BY <1>1, LenProperties
<1>3. CASE ~released /\ UNCHANGED <<ring, trimmedThrough, lastSeq>>
  BY <1>3 DEF RetainedIsContiguous, RingContiguous
<1>4. CASE ~released /\ RetainStep
  <2>1. PICK size \in Sizes, replies \in 0..MaxReplies, aged \in 0..Len(ring),
             d \in 0..(Len(ring) + 1) : Retain(size, replies, aged, d)
    BY <1>4 DEF RetainStep
  <2> DEFINE e == [seq |-> lastSeq + 1, size |-> size]
             full == Append(ring, e)
  <2>2. /\ ring' = DropFirst(full, d) /\ trimmedThrough' = TrimmedThroughAfter(full, d)
        /\ lastSeq' = lastSeq + 1
    BY <2>1 DEF Retain
  <2>3. e \in RetainedEvent
    BY <1>1, LimitsAssumption DEF RetainedEvent
  <2>4. e.seq = lastSeq + 1
    OBVIOUS
  <2> HIDE DEF e
  <2>5. /\ full \in Seq(RetainedEvent) /\ Len(full) = Len(ring) + 1
        /\ \A i \in 1..Len(ring) : full[i] = ring[i]
        /\ full[Len(ring) + 1] = e
    BY <1>1, <2>3, AppendProperties
  <2> HIDE DEF full
  <2>6. EventsAfter(full, trimmedThrough, lastSeq + 1)
    <3>1. \A i \in 1..Len(ring) : ring[i].seq = trimmedThrough + i
      BY <1>4 DEF RetainedIsContiguous, RingContiguous
    <3>2. trimmedThrough + Len(ring) = lastSeq
      BY <1>4 DEF RetainedIsContiguous, RingContiguous
    <3>3. \A i \in 1..Len(full) : i \in 1..Len(ring) \/ i = Len(ring) + 1
      BY <1>2, <2>5
    <3>4. ASSUME NEW i \in 1..Len(full) PROVE full[i].seq = trimmedThrough + i
      <4>1. CASE i \in 1..Len(ring)
        <5>1. full[i] = ring[i]
          BY <2>5, <4>1
        <5>2. ring[i].seq = trimmedThrough + i
          BY <3>1, <4>1
        <5>3. QED
          BY <5>1, <5>2
      <4>2. CASE i = Len(ring) + 1
        <5>1. full[i].seq = lastSeq + 1
          BY <2>4, <2>5, <4>2
        <5>2. trimmedThrough + i = lastSeq + 1
          BY <1>1, <1>2, <3>2, <4>2
        <5>3. QED
          BY <5>1, <5>2
      <4>3. QED
        BY <3>3, <4>1, <4>2
    <3>5. trimmedThrough + Len(full) = lastSeq + 1
      BY <1>1, <1>2, <2>5, <3>2
    <3>6. QED
      BY <3>4, <3>5 DEF EventsAfter
  <2>7. d \in 0..Len(full) /\ lastSeq + 1 \in Nat
    BY <1>1, <2>5
  <2>8. EventsAfter(DropFirst(full, d), TrimmedThroughAfter(full, d), lastSeq + 1)
    BY <1>1, <2>5, <2>6, <2>7, TrimKeepsRun
  <2>9. QED
    BY <2>2, <2>8 DEF EventsAfter, RingContiguous
<1>5. CASE AttachStep
  <2>1. PICK wrapped \in BOOLEAN, replace \in BOOLEAN, aged \in 0..Len(ring), d \in 0..Len(ring),
             k \in 0..Len(ring) : Attach(wrapped, replace, aged, d, k)
    BY <1>5 DEF AttachStep
  <2>2. /\ ring' = DropFirst(ring, d) /\ trimmedThrough' = TrimmedThroughAfter(ring, d)
        /\ lastSeq' = lastSeq /\ ~released
    BY <2>1 DEF Attach, CanAttach
  <2>3. EventsAfter(ring, trimmedThrough, lastSeq)
    BY <2>2 DEF RetainedIsContiguous, RingContiguous, EventsAfter
  <2>4. EventsAfter(DropFirst(ring, d), TrimmedThroughAfter(ring, d), lastSeq)
    BY <1>1, <2>3, TrimKeepsRun
  <2>5. QED
    BY <2>2, <2>4 DEF EventsAfter, RingContiguous
<1>6. \/ ~released /\ UNCHANGED <<ring, trimmedThrough, lastSeq>>
      \/ ~released /\ RetainStep
      \/ AttachStep
  <2>1. CASE Cleanup
    <3>1. UNCHANGED <<released, trimmedThrough, lastSeq>> /\ (cleanup = "none" => ring' = ring)
      BY <2>1 DEF Cleanup, BeginJoin, CancelDelivered, JoinDone, CloseController, leaseVars,
                  releaseVars
    <3>2. QED
      BY <3>1 DEF Ownership
  <2>2. CASE Expire \/ PumpClosed \/ RetainFails \/ CapRelease \/ ExternalRelease
    <3>1. \/ released /\ UNCHANGED released
          \/ released' = TRUE
      BY <2>2 DEF Expire, PumpClosed, RetainFails, CapRelease, ExternalRelease, Fence,
                  releaseVars
    <3>2. QED
      BY <3>1
  <2>3. CASE RetainStep
    <3>1. UNCHANGED released
      BY <2>3 DEF RetainStep, Retain, releaseVars
    <3>2. QED
      BY <2>3, <3>1
  <2>4. CASE \/ LocalReply \/ LinkLost \/ PhoneRelaunch \/ UNCHANGED vars
             \/ \E a \in Att : SenderStep(a) \/ CancelSender(a) \/ TransportClose(a)
    <3>1. UNCHANGED <<released, ring, trimmedThrough, lastSeq>>
      BY <2>4 DEF LocalReply, LinkLost, PhoneRelaunch, SenderStep, RegisterOutbound, TakeNext,
                  Publish, SenderStops, CancelSender, TransportClose, leaseVars, releaseVars, vars
    <3>2. QED
      BY <3>1
  <2>5. QED
    BY <2>1, <2>2, <2>3, <2>4 DEF Next
<1>7. QED
  BY <1>3, <1>4, <1>5, <1>6

-----------------------------------------------------------------------------
(* What is queued for the phone                                            *)

\* s leads a phone at cursor c to the event last, and holds nothing beyond it.
Feed(s, c, last) ==
    /\ Continues(s, c)
    /\ last = c \/ \E i \in 1..Len(s) : IsEvent(s[i]) /\ s[i].seq = last
    /\ \A i \in 1..Len(s) : IsEvent(s[i]) => s[i].seq <= last
    /\ \A i \in 1..Len(s) : s[i].kind = "attached" => i = 1

\* CursorAfterPreamble for any cursor
Aim(s, c) ==
    IF s # <<>> /\ Head(s).kind = "attached" /\ Head(s).gap THEN GapEnd(Head(s)) ELSE c

FeedInv ==
    Serving => /\ Aim(out[current], cursor) >= cursor
               /\ Feed(out[current], Aim(out[current], cursor), lastSeq)

\* FeedInv restates the two invariants about the queue.
LEMMA FeedInvMeaning == FeedInv <=> QueueShape /\ ContiguousPipeline
BY DEF FeedInv, QueueShape, ContiguousPipeline, Feed, Aim, Reaches, CursorAfterPreamble

\* Taking the head of a feed: an event is the next one, anything else is skipped.
LEMMA FeedTail ==
    ASSUME NEW s \in Seq(Frame), s # <<>>, NEW c \in Nat, NEW last \in Nat, Feed(s, c, last)
    PROVE  /\ IsEvent(Head(s)) => Head(s).seq = c + 1 /\ Feed(Tail(s), c + 1, last)
           /\ ~IsEvent(Head(s)) => Feed(Tail(s), c, last)
           /\ \A x : Aim(Tail(s), x) = x
<1> DEFINE t == Tail(s)
<1>1. /\ Len(s) \in Nat \ {0} /\ Head(s) = s[1]
      /\ t \in Seq(Frame) /\ Len(t) = Len(s) - 1
      /\ \A i \in 1..Len(t) : t[i] = s[i + 1] /\ i + 1 \in 1..Len(s)
  <2>1. Len(s) \in Nat \ {0}
    BY EmptySeq, LenProperties
  <2>2. QED
    BY <2>1, HeadTailProperties
<1>2. \A i \in 1..Len(s) : s[i] \in Frame /\ s[i].seq \in Nat
  <2>1. \A i \in 1..Len(s) : s[i] \in Frame
    BY LenProperties
  <2>2. QED
    BY <2>1 DEF Frame
<1>3. 1 \in 1..Len(s) /\ Len(t) \in Nat
  BY <1>1
<1>4. \A j \in 1..Len(s) : j = 1 \/ (j - 1 \in 1..Len(t) /\ t[j - 1] = s[j])
  BY <1>1
<1> HIDE DEF t
<1>5. \A i \in 1..Len(t) : t[i].kind # "attached"
  BY <1>1, <1>3 DEF Feed
<1>6. \A x : Aim(t, x) = x
  <2>1. t # <<>> => Head(t) = t[1] /\ 1 \in 1..Len(t)
    BY <1>1, EmptySeq, HeadTailProperties
  <2>2. QED
    BY <1>5, <2>1 DEF Aim
<1>7. \A i \in 1..Len(t) : IsEvent(t[i]) => t[i].seq <= last
  BY <1>1 DEF Feed
<1>8. ASSUME NEW e \in Nat,
             \A i \in 1..Len(t) : IsEvent(t[i]) =>
                 /\ t[i].seq > e
                 /\ t[i].seq = e + 1 \/ \E j \in 1..(i - 1) : IsEvent(t[j]) /\ t[j].seq = t[i].seq - 1,
             last = e \/ \E i \in 1..Len(t) : IsEvent(t[i]) /\ t[i].seq = last
      PROVE  Feed(t, e, last)
  <2>1. \A i, j \in 1..Len(t) : IsEvent(t[i]) /\ IsEvent(t[j]) /\ i < j => t[i].seq < t[j].seq
    <3> SUFFICES ASSUME NEW i \in 1..Len(t), NEW j \in 1..Len(t), IsEvent(t[i]), IsEvent(t[j]), i < j
                 PROVE  t[i].seq < t[j].seq
      OBVIOUS
    <3>1. i + 1 \in 1..Len(s) /\ j + 1 \in 1..Len(s) /\ i + 1 < j + 1
      BY <1>1, <1>3
    <3>2. t[i] = s[i + 1] /\ t[j] = s[j + 1]
      BY <1>1
    <3>3. QED
      BY <3>1, <3>2 DEF Feed, Continues
  <2>2. Continues(t, e)
    BY <1>8, <2>1 DEF Continues
  <2>3. QED
    BY <1>5, <1>7, <1>8, <2>2 DEF Feed
<1>9. CASE ~IsEvent(s[1])
  <2>1. ASSUME NEW i \in 1..Len(t), IsEvent(t[i])
        PROVE  /\ t[i].seq > c
               /\ t[i].seq = c + 1 \/ \E j \in 1..(i - 1) : IsEvent(t[j]) /\ t[j].seq = t[i].seq - 1
    <3>1. i + 1 \in 1..Len(s) /\ t[i] = s[i + 1] /\ (i + 1) - 1 = i
      BY <1>1, <1>3
    <3>2. s[i + 1].seq > c
      BY <2>1, <3>1 DEF Feed, Continues
    <3>3. s[i + 1].seq = c + 1 \/ \E j \in 1..i : IsEvent(s[j]) /\ s[j].seq = s[i + 1].seq - 1
      BY <2>1, <3>1 DEF Feed, Continues
    <3>4. ASSUME NEW j \in 1..i, IsEvent(s[j]), s[j].seq = s[i + 1].seq - 1
          PROVE  \E m \in 1..(i - 1) : IsEvent(t[m]) /\ t[m].seq = t[i].seq - 1
      <4>1. j # 1 /\ j \in 1..Len(s)
        BY <1>1, <1>3, <1>9, <3>4
      <4>2. j - 1 \in 1..(i - 1) /\ t[j - 1] = s[j]
        BY <1>4, <4>1
      <4>3. QED
        BY <3>1, <3>4, <4>2
    <3>5. QED
      BY <3>1, <3>2, <3>3, <3>4
  <2>2. last = c \/ \E i \in 1..Len(t) : IsEvent(t[i]) /\ t[i].seq = last
    <3>1. ASSUME NEW j \in 1..Len(s), IsEvent(s[j]), s[j].seq = last
          PROVE  \E i \in 1..Len(t) : IsEvent(t[i]) /\ t[i].seq = last
      BY <1>4, <1>9, <3>1
    <3>2. QED
      BY <3>1 DEF Feed
  <2>3. Feed(t, c, last)
    BY <1>8, <2>1, <2>2
  <2>4. QED
    BY <1>1, <1>6, <1>9, <2>3 DEF t
<1>10. CASE IsEvent(s[1])
  <2>1. s[1].seq = c + 1
    <3>1. s[1].seq = c + 1 \/ \E j \in 1..(1 - 1) : IsEvent(s[j]) /\ s[j].seq = s[1].seq - 1
      BY <1>3, <1>10 DEF Feed, Continues
    <3>2. QED
      BY <3>1
  <2>2. ASSUME NEW i \in 1..Len(t), IsEvent(t[i])
        PROVE  /\ t[i].seq > c + 1
               /\ \/ t[i].seq = (c + 1) + 1
                  \/ \E j \in 1..(i - 1) : IsEvent(t[j]) /\ t[j].seq = t[i].seq - 1
    <3>1. i + 1 \in 1..Len(s) /\ t[i] = s[i + 1] /\ (i + 1) - 1 = i /\ 1 < i + 1
      BY <1>1, <1>3
    <3>2. s[i + 1].seq > c + 1
      <4>1. s[1].seq < s[i + 1].seq
        BY <1>3, <1>10, <2>2, <3>1 DEF Feed, Continues
      <4>2. QED
        BY <1>2, <2>1, <3>1, <4>1
    <3>3. s[i + 1].seq = c + 1 \/ \E j \in 1..i : IsEvent(s[j]) /\ s[j].seq = s[i + 1].seq - 1
      BY <2>2, <3>1 DEF Feed, Continues
    <3>4. PICK j \in 1..i : IsEvent(s[j]) /\ s[j].seq = s[i + 1].seq - 1
      BY <1>2, <3>1, <3>2, <3>3
    <3>5. CASE j = 1
      BY <1>2, <2>1, <3>1, <3>2, <3>4, <3>5
    <3>6. CASE j # 1
      <4>1. j \in 1..Len(s)
        BY <1>1, <1>3
      <4>2. j - 1 \in 1..(i - 1) /\ t[j - 1] = s[j]
        BY <1>4, <3>6, <4>1
      <4>3. QED
        BY <3>1, <3>2, <3>4, <4>2
    <3>7. QED
      BY <3>5, <3>6
  <2>3. last = c + 1 \/ \E i \in 1..Len(t) : IsEvent(t[i]) /\ t[i].seq = last
    <3>1. s[1].seq <= last
      BY <1>3, <1>10 DEF Feed
    <3>2. PICK j \in 1..Len(s) : IsEvent(s[j]) /\ s[j].seq = last
      BY <2>1, <3>1 DEF Feed
    <3>3. QED
      BY <1>4, <2>1, <3>2
  <2>4. c + 1 \in Nat
    OBVIOUS
  <2>5. Feed(t, c + 1, last)
    BY <1>8, <2>2, <2>3, <2>4
  <2>6. QED
    BY <1>1, <1>6, <1>10, <2>1, <2>5 DEF t
<1>11. QED
  BY <1>9, <1>10

\* Queueing the relay's own answers, and after them possibly the next event.
LEMMA FeedAppend ==
    ASSUME NEW s \in Seq(Frame), NEW fs \in Seq(Frame), NEW c \in Nat, NEW last \in Nat,
           NEW next \in Nat, Feed(s, c, last), fs # <<>>,
           \A i \in 1..Len(fs) : fs[i].kind # "attached",
           \A i \in 1..Len(fs) : IsEvent(fs[i]) => i = Len(fs),
           IsEvent(fs[Len(fs)]) => fs[Len(fs)].seq = last + 1,
           next = IF IsEvent(fs[Len(fs)]) THEN last + 1 ELSE last
    PROVE  Feed(s \o fs, c, next) /\ \A x : Aim(s \o fs, x) = Aim(s, x)
<1> DEFINE q == s \o fs
           n == Len(s)
           m == Len(fs)
<1>1. n \in Nat /\ m \in Nat /\ m > 0
  BY EmptySeq, LenProperties
<1>2. /\ q \in Seq(Frame) /\ Len(q) = n + m
      /\ \A i \in 1..(n + m) : q[i] = IF i <= n THEN s[i] ELSE fs[i - n]
  BY ConcatProperties
<1>3. \A i \in 1..n : s[i] \in Frame /\ s[i].seq \in Nat
  <2>1. \A i \in 1..n : s[i] \in Frame
    BY LenProperties
  <2>2. QED
    BY <2>1 DEF Frame
<1> HIDE DEF q
<1>4. \A i \in 1..n : q[i] = s[i] /\ i \in 1..Len(q)
  BY <1>1, <1>2
<1>5. \A i \in 1..Len(q) : i \in 1..n \/ (i - n \in 1..m /\ q[i] = fs[i - n] /\ i > n)
  BY <1>1, <1>2
<1>6. \A i \in 1..Len(q) : IsEvent(q[i]) => i \in 1..n \/ i = n + m
  <2> SUFFICES ASSUME NEW i \in 1..Len(q), IsEvent(q[i]), i \notin 1..n PROVE i = n + m
    OBVIOUS
  <2>1. i - n \in 1..m /\ IsEvent(fs[i - n])
    BY <1>5
  <2>2. i - n = m
    BY <2>1
  <2>3. QED
    BY <1>1, <2>2
<1>7. q[n + m] = fs[m] /\ n + m \in 1..Len(q)
  BY <1>1, <1>2
<1>8. c <= last
  <2>1. ASSUME NEW i \in 1..n, IsEvent(s[i]), s[i].seq = last PROVE c <= last
    BY <1>3, <2>1 DEF Feed, Continues
  <2>2. QED
    BY <2>1 DEF Feed
<1>9. Continues(q, c)
  <2>1. ASSUME NEW i \in 1..Len(q), IsEvent(q[i])
        PROVE  /\ q[i].seq > c
               /\ q[i].seq = c + 1 \/ \E j \in 1..(i - 1) : IsEvent(q[j]) /\ q[j].seq = q[i].seq - 1
    <3>1. CASE i \in 1..n
      <4>1. q[i] = s[i]
        BY <1>4, <3>1
      <4>2. s[i].seq > c
        BY <2>1, <3>1, <4>1 DEF Feed, Continues
      <4>3. s[i].seq = c + 1 \/ \E j \in 1..(i - 1) : IsEvent(s[j]) /\ s[j].seq = s[i].seq - 1
        BY <2>1, <3>1, <4>1 DEF Feed, Continues
      <4>4. \A j \in 1..(i - 1) : q[j] = s[j]
        BY <1>1, <1>4, <3>1
      <4>5. QED
        BY <4>1, <4>2, <4>3, <4>4
    <3>2. CASE i = n + m
      <4>1. IsEvent(fs[m]) /\ q[i].seq = last + 1
        BY <1>7, <2>1, <3>2
      <4>2. q[i].seq > c
        BY <1>8, <4>1
      <4>3. CASE last = c
        BY <4>1, <4>2, <4>3
      <4>4. CASE last # c
        <5>1. PICK j \in 1..n : IsEvent(s[j]) /\ s[j].seq = last
          BY <4>4 DEF Feed
        <5>2. j \in 1..(i - 1) /\ q[j] = s[j]
          BY <1>1, <1>4, <3>2
        <5>3. q[j].seq = q[i].seq - 1
          BY <4>1, <5>1, <5>2
        <5>4. QED
          BY <4>2, <5>1, <5>2, <5>3
      <4>5. QED
        BY <4>3, <4>4
    <3>3. QED
      BY <1>6, <2>1, <3>1, <3>2
  <2>2. ASSUME NEW i \in 1..Len(q), NEW j \in 1..Len(q), IsEvent(q[i]), IsEvent(q[j]), i < j
        PROVE  q[i].seq < q[j].seq
    <3>1. i \in 1..n
      BY <1>1, <1>2, <1>6, <2>2
    <3>2. q[i] = s[i]
      BY <1>4, <3>1
    <3>3. CASE j \in 1..n
      <4>1. q[j] = s[j]
        BY <1>4, <3>3
      <4>2. QED
        BY <2>2, <3>1, <3>2, <3>3, <4>1 DEF Feed, Continues
    <3>4. CASE j = n + m
      <4>1. q[j].seq = last + 1
        BY <1>7, <2>2, <3>4
      <4>2. s[i].seq <= last
        BY <2>2, <3>1, <3>2 DEF Feed
      <4>3. QED
        BY <1>3, <3>1, <3>2, <4>1, <4>2
    <3>5. QED
      BY <1>6, <2>2, <3>3, <3>4
  <2>3. QED
    BY <2>1, <2>2 DEF Continues
<1>10. next = c \/ \E i \in 1..Len(q) : IsEvent(q[i]) /\ q[i].seq = next
  <2>1. CASE IsEvent(fs[m])
    BY <1>7, <2>1
  <2>2. CASE ~IsEvent(fs[m])
    <3>1. next = last
      BY <2>2
    <3>2. QED
      BY <1>4, <3>1 DEF Feed
  <2>3. QED
    BY <2>1, <2>2
<1>11. \A i \in 1..Len(q) : IsEvent(q[i]) => q[i].seq <= next
  <2> SUFFICES ASSUME NEW i \in 1..Len(q), IsEvent(q[i]) PROVE q[i].seq <= next
    OBVIOUS
  <2>1. CASE i \in 1..n
    <3>1. s[i].seq <= last /\ q[i] = s[i]
      BY <1>4, <2>1 DEF Feed
    <3>2. last <= next
      OBVIOUS
    <3>3. QED
      BY <1>3, <2>1, <3>1, <3>2
  <2>2. CASE i = n + m
    BY <1>7, <2>2
  <2>3. QED
    BY <1>6, <2>1, <2>2
<1>12. \A i \in 1..Len(q) : q[i].kind = "attached" => i = 1
  BY <1>4, <1>5 DEF Feed
<1>13. ASSUME NEW x PROVE Aim(q, x) = Aim(s, x)
  <2>1. q # <<>> /\ Head(q) = q[1] /\ 1 \in 1..Len(q)
    BY <1>1, <1>2, EmptySeq, HeadTailProperties
  <2>2. CASE s = <<>>
    <3>1. n = 0
      BY <2>2
    <3>2. q[1].kind # "attached"
      BY <1>5, <2>1, <3>1
    <3>3. QED
      BY <2>1, <2>2, <3>2 DEF Aim
  <2>3. CASE s # <<>>
    <3>1. Head(s) = s[1] /\ 1 \in 1..n
      BY <1>1, <2>3, EmptySeq, HeadTailProperties
    <3>2. q[1] = s[1]
      BY <1>4, <3>1
    <3>3. QED
      BY <2>1, <2>3, <3>1, <3>2 DEF Aim
  <2>4. QED
    BY <2>2, <2>3
<1>14. QED
  BY <1>9, <1>10, <1>11, <1>12, <1>13 DEF Feed, q

\* The preamble, the replayed events and the marker of a new attachment are a feed.
LEMMA FeedBacklog ==
    ASSUME NEW events \in Seq(RetainedEvent), NEW c \in Nat, NEW last \in Nat,
           NEW gap \in BOOLEAN, NEW w \in BOOLEAN, EventsAfter(events, c, last)
    PROVE  Feed(Backlog(events, last, gap, w), c, last)
<1> DEFINE b == Backlog(events, last, gap, w)
           n == Len(events)
           from == IF events = <<>> THEN None ELSE Head(events).seq
<1>1. n \in Nat
  BY LenProperties
<1>2. /\ b \in Seq(Frame)
      /\ Len(b) = 1 + n + IF w THEN 1 ELSE 0
      /\ b[1] = Attached(last, from, gap)
      /\ \A i \in 1..n : b[1 + i] = EventFrame(events[i].seq, events[i].size, w)
      /\ w => b[2 + n] = ReplayComplete(last)
  BY BacklogFacts
<1> HIDE DEF b, from
<1>3. b[1].kind = "attached"
  BY <1>2 DEF Attached
<1>4. w => b[2 + n].kind = "complete"
  BY <1>2 DEF ReplayComplete
<1>5. \A i \in 1..n : b[1 + i].kind = "event" /\ b[1 + i].seq = c + i
  <2> SUFFICES ASSUME NEW i \in 1..n PROVE b[1 + i].kind = "event" /\ b[1 + i].seq = c + i
    OBVIOUS
  <2>1. b[1 + i] = EventFrame(events[i].seq, events[i].size, w)
    BY <1>2
  <2>2. events[i].seq = c + i
    BY DEF EventsAfter
  <2>3. b[1 + i].kind = "event" /\ b[1 + i].seq = events[i].seq
    BY <2>1 DEF EventFrame
  <2>4. QED
    BY <2>2, <2>3
<1>6. \A i \in 1..Len(b) : i = 1 \/ (i - 1 \in 1..n /\ 1 + (i - 1) = i) \/ (w /\ i = 2 + n)
  BY <1>1, <1>2
<1>7. \A i \in 1..Len(b) : IsEvent(b[i]) <=> i - 1 \in 1..n
  <2> SUFFICES ASSUME NEW i \in 1..Len(b) PROVE IsEvent(b[i]) <=> i - 1 \in 1..n
    OBVIOUS
  <2>1. CASE i = 1
    BY <1>3, <2>1 DEF IsEvent
  <2>2. CASE i - 1 \in 1..n /\ 1 + (i - 1) = i
    BY <1>5, <2>2 DEF IsEvent
  <2>3. CASE w /\ i = 2 + n
    <3>1. i - 1 \notin 1..n
      BY <1>1, <2>3
    <3>2. QED
      BY <1>4, <2>3, <3>1 DEF IsEvent
  <2>4. QED
    BY <1>6, <2>1, <2>2, <2>3
<1>8. \A i \in 1..Len(b) : IsEvent(b[i]) => b[i].seq = c + (i - 1)
  <2> SUFFICES ASSUME NEW i \in 1..Len(b), IsEvent(b[i]) PROVE b[i].seq = c + (i - 1)
    OBVIOUS
  <2>1. i - 1 \in 1..n
    BY <1>7
  <2>2. b[1 + (i - 1)].seq = c + (i - 1)
    BY <1>5, <2>1
  <2>3. 1 + (i - 1) = i
    OBVIOUS
  <2>4. QED
    BY <2>2, <2>3
<1>9. Continues(b, c)
  <2>1. ASSUME NEW i \in 1..Len(b), IsEvent(b[i])
        PROVE  /\ b[i].seq > c
               /\ b[i].seq = c + 1 \/ \E j \in 1..(i - 1) : IsEvent(b[j]) /\ b[j].seq = b[i].seq - 1
    <3>1. i - 1 \in 1..n /\ b[i].seq = c + (i - 1)
      BY <1>7, <1>8, <2>1
    <3>2. CASE i - 1 = 1
      BY <3>1, <3>2
    <3>3. CASE i - 1 # 1
      <4>1. i - 1 \in 1..Len(b) /\ (i - 1) - 1 \in 1..n
        BY <1>1, <3>1, <3>3
      <4>2. IsEvent(b[i - 1]) /\ b[i - 1].seq = c + ((i - 1) - 1)
        BY <1>7, <1>8, <4>1
      <4>3. b[i - 1].seq = b[i].seq - 1 /\ i - 1 \in 1..(i - 1) /\ b[i].seq > c
        BY <3>1, <4>1, <4>2
      <4>4. QED
        BY <4>2, <4>3
    <3>4. QED
      BY <3>2, <3>3
  <2>2. ASSUME NEW i \in 1..Len(b), NEW j \in 1..Len(b), IsEvent(b[i]), IsEvent(b[j]), i < j
        PROVE  b[i].seq < b[j].seq
    BY <1>8, <2>2
  <2>3. QED
    BY <2>1, <2>2 DEF Continues
<1>10. last = c \/ \E i \in 1..Len(b) : IsEvent(b[i]) /\ b[i].seq = last
  <2>1. CASE n = 0
    BY <2>1 DEF EventsAfter
  <2>2. CASE n # 0
    <3>1. n + 1 \in 1..Len(b) /\ (n + 1) - 1 \in 1..n /\ (n + 1) - 1 = n
      BY <1>1, <1>2, <2>2
    <3>2. IsEvent(b[n + 1]) /\ b[n + 1].seq = c + n
      BY <1>7, <1>8, <3>1
    <3>3. QED
      BY <3>1, <3>2 DEF EventsAfter
  <2>3. QED
    BY <2>1, <2>2
<1>11. \A i \in 1..Len(b) : IsEvent(b[i]) => b[i].seq <= last
  <2> SUFFICES ASSUME NEW i \in 1..Len(b), IsEvent(b[i]) PROVE b[i].seq <= last
    OBVIOUS
  <2>1. i - 1 \in 1..n /\ b[i].seq = c + (i - 1) /\ c + n = last
    BY <1>7, <1>8 DEF EventsAfter
  <2>2. QED
    BY <1>1, <2>1
<1>12. \A i \in 1..Len(b) : b[i].kind = "attached" => i = 1
  BY <1>4, <1>5, <1>6
<1>13. QED
  BY <1>9, <1>10, <1>11, <1>12 DEF Feed, b

-----------------------------------------------------------------------------
(* Every step keeps the feed and loses nothing                             *)

\* A step that touches neither the served queue nor the cursor keeps the feed.
LEMMA FeedKept ==
    ASSUME FeedInv,
           Serving' => Serving /\ current' = current /\ out'[current] = out[current],
           UNCHANGED <<cursor, lastSeq>>
    PROVE  FeedInv'
<1> SUFFICES ASSUME Serving' PROVE /\ Aim(out[current], cursor)' >= cursor'
                                   /\ Feed(out[current], Aim(out[current], cursor), lastSeq)'
  BY DEF FeedInv
<1> DEFINE q == out[current]
<1>1. q' = q
  OBVIOUS
<1>2. Aim(q, cursor) >= cursor /\ Feed(q, Aim(q, cursor), lastSeq)
  BY DEF FeedInv
<1> HIDE DEF q
<1>3. Aim(q, cursor)' = Aim(q, cursor)
  BY <1>1 DEF Aim, GapEnd
<1>4. Aim(q, cursor)' >= cursor'
  BY <1>2, <1>3
<1>5. Feed(q, Aim(q, cursor), lastSeq)'
  BY <1>1, <1>2, <1>3 DEF Feed, Continues, IsEvent
<1>6. QED
  BY <1>4, <1>5 DEF q

\* A cursor aimed at by a well-typed queue is a natural number.
LEMMA AimType ==
    ASSUME NEW s \in Seq(Frame), NEW c \in Nat
    PROVE  Aim(s, c) \in Nat
<1>1. s # <<>> => Head(s) \in Frame
  BY HeadTailProperties
<1>2. s # <<>> => Head(s).seq \in Nat /\ Head(s).from \in Nat
  BY <1>1 DEF Frame
<1>3. QED
  BY <1>2 DEF Aim, GapEnd, None

\* Frames offered to the owner extend the feed, or cost it the lease.
LEMMA FeedOffer ==
    ASSUME TypeInv, FeedInv, current \in Att, NEW fs \in Seq(Frame), Offer(current, fs),
           fs # <<>>,
           \A i \in 1..Len(fs) : fs[i].kind # "attached",
           \A i \in 1..Len(fs) : IsEvent(fs[i]) => i = Len(fs),
           IsEvent(fs[Len(fs)]) => fs[Len(fs)].seq = lastSeq + 1,
           lastSeq' = IF IsEvent(fs[Len(fs)]) THEN lastSeq + 1 ELSE lastSeq,
           UNCHANGED <<cursor, link>>
    PROVE  FeedInv'
<1>1. PICK q \in Seq(Frame) :
          /\ out' = [out EXCEPT ![current] = q]
          /\ Len(q) >= Len(out[current])
          /\ \/ /\ q = out[current] \o fs
                /\ UNCHANGED <<current, expiry, detached, sender, backlog>>
             \/ /\ current' = None
                /\ expiry' = (IF ~released THEN "armed" ELSE expiry)
                /\ detached' = [detached EXCEPT ![current] = TRUE]
                /\ sender' = [sender EXCEPT ![current] = Cancelled(@)]
                /\ backlog' = [backlog EXCEPT ![current] = @]
  BY OfferCases DEF TypeInv
<1>2. CASE current' = None
  BY <1>2 DEF FeedInv, Serving
<1>3. CASE q = out[current] \o fs /\ UNCHANGED <<current, sender>>
  <2> SUFFICES ASSUME Serving PROVE /\ Aim(out[current], cursor)' >= cursor'
                                    /\ Feed(out[current], Aim(out[current], cursor), lastSeq)'
    BY <1>3 DEF FeedInv, Serving
  <2> DEFINE s == out[current]
             c == Aim(s, cursor)
             last == lastSeq
             next == lastSeq'
  <2>1. s \in Seq(Frame) /\ cursor \in Nat /\ last \in Nat /\ next \in Nat
    BY DEF TypeInv, TypeOK, LeaseTypeOK, AttachmentTypeOK, PhoneTypeOK
  <2>2. s' = s \o fs
    BY <1>1, <1>3 DEF TypeInv, TypeOK, AttachmentTypeOK
  <2>3. c >= cursor /\ Feed(s, c, last)
    BY DEF FeedInv
  <2>4. c \in Nat
    BY <2>1, AimType
  <2>5. /\ IsEvent(fs[Len(fs)]) => fs[Len(fs)].seq = last + 1
        /\ next = IF IsEvent(fs[Len(fs)]) THEN last + 1 ELSE last
    OBVIOUS
  <2> HIDE DEF s, c, last, next
  <2>6. Feed(s \o fs, c, next) /\ \A x : Aim(s \o fs, x) = Aim(s, x)
    BY <2>1, <2>3, <2>4, <2>5, FeedAppend
  <2>7. Aim(s, cursor)' = c
    BY <2>2, <2>6 DEF c, Aim, GapEnd
  <2>8. Feed(s, c, lastSeq)'
    BY <2>2, <2>6, <2>7 DEF next, c, Feed, Continues, IsEvent
  <2>9. QED
    BY <2>3, <2>7, <2>8 DEF s, c
<1>4. QED
  BY <1>1, <1>2, <1>3

(***************************************************************************)
(* The replay arithmetic of attach.  After the trim the ring is the run of *)
(* events after t; k of them are at or before the phone's cursor.  Without *)
(* a gap the replay starts right after the cursor; with one it starts      *)
(* right after t, which is what GapEnd of the preamble tells the phone.    *)
(***************************************************************************)
LEMMA ReplayArithmetic ==
    ASSUME NEW kept \in Seq(RetainedEvent), NEW t \in Nat, NEW last \in Nat,
           EventsAfter(kept, t, last), NEW c \in Nat, c <= last, NEW k \in 0..Len(kept),
           \A i \in 1..Len(kept) : i <= k <=> kept[i].seq <= c
    PROVE  /\ DropFirst(kept, k) \in Seq(RetainedEvent)
           /\ EventsAfter(DropFirst(kept, k), IF c < t THEN t ELSE c, last)
<1> DEFINE n == Len(kept)
           e == DropFirst(kept, k)
<1>1. n \in Nat /\ t + n = last
  BY LenProperties DEF EventsAfter
<1>2. e \in Seq(RetainedEvent) /\ Len(e) = n - k /\ \A i \in 1..(n - k) : e[i] = kept[k + i]
  BY DropFirstFacts
<1> HIDE DEF e
<1>3. \A i \in 1..n : i <= k <=> t + i <= c
  BY DEF EventsAfter
<1>4. t + k = IF c < t THEN t ELSE c
  <2>1. CASE c < t
    <3>1. ~(k >= 1)
      <4>1. SUFFICES ASSUME k >= 1 PROVE FALSE
        OBVIOUS
      <4>2. 1 \in 1..n /\ 1 <= k
        BY <1>1, <4>1
      <4>3. t + 1 <= c
        BY <1>3, <4>2
      <4>4. QED
        BY <2>1, <4>3
    <3>2. QED
      BY <1>1, <2>1, <3>1
  <2>2. CASE ~(c < t)
    <3>1. ~(t + k < c)
      <4>1. SUFFICES ASSUME t + k < c PROVE FALSE
        OBVIOUS
      <4>2. k + 1 \in 1..n /\ t + (k + 1) <= c /\ ~(k + 1 <= k)
        BY <1>1, <4>1
      <4>3. QED
        BY <1>3, <4>2
    <3>2. ~(t + k > c)
      <4>1. SUFFICES ASSUME t + k > c PROVE FALSE
        OBVIOUS
      <4>2. k \in 1..n /\ k <= k
        BY <1>1, <2>2, <4>1
      <4>3. t + k <= c
        BY <1>3, <4>2
      <4>4. QED
        BY <1>1, <4>1, <4>3
    <3>3. QED
      BY <1>1, <2>2, <3>1, <3>2
  <2>3. QED
    BY <2>1, <2>2
<1>5. ASSUME NEW i \in 1..Len(e) PROVE e[i].seq = (t + k) + i
  <2>1. i \in 1..(n - k) /\ k + i \in 1..n
    BY <1>1, <1>2
  <2>2. e[i] = kept[k + i] /\ kept[k + i].seq = t + (k + i)
    BY <1>2, <2>1 DEF EventsAfter
  <2>3. t + (k + i) = (t + k) + i
    BY <1>1, <2>1
  <2>4. QED
    BY <2>2, <2>3
<1>6. (t + k) + Len(e) = last
  <2> HIDE DEF n
  <2>1. Len(e) = n - k /\ n \in Nat /\ k \in Int /\ t + n = last
    BY <1>1, <1>2
  <2>2. QED
    BY <2>1
<1>7. EventsAfter(e, t + k, last)
  BY <1>5, <1>6 DEF EventsAfter
<1>8. QED
  BY <1>2, <1>4, <1>7 DEF e

\* attach starts a feed from the phone's cursor, or from the end of the gap it reports.
LEMMA FeedAttach ==
    ASSUME TypeInv, Ownership, RetainedIsContiguous, AttachStep
    PROVE  FeedInv'
<1>1. PICK wrapped \in BOOLEAN, replace \in BOOLEAN, aged \in 0..Len(ring), d \in 0..Len(ring),
           k \in 0..Len(ring) : Attach(wrapped, replace, aged, d, k)
  BY DEF AttachStep
<1> DEFINE kept == DropFirst(ring, d)
           t == TrimmedThroughAfter(ring, d)
           n == made + 1
           gap == ReplayGap(t)
           events == DropFirst(kept, k)
           frames == Backlog(events, lastSeq, gap, wrapped)
           c == IF cursor < t THEN t ELSE cursor
<1>2. /\ ring \in Seq(RetainedEvent) /\ trimmedThrough \in Nat
      /\ lastSeq \in Nat /\ cursor \in Nat
  BY DEF TypeInv, TypeOK, LeaseTypeOK, PhoneTypeOK
<1>3. /\ ~released /\ cursor <= lastSeq /\ k \in 0..Len(kept)
      /\ \A i \in 1..Len(kept) : i <= k <=> kept[i].seq <= cursor
      /\ n \in Att /\ current' = n
      /\ out' = [b \in Att |-> IF b = n THEN frames
                               ELSE IF b = current THEN MarkedOut(b, out[b], TRUE) ELSE out[b]]
      /\ UNCHANGED <<cursor, lastSeq>>
  BY <1>1, LimitsAssumption DEF Attach, CanAttach, Att, TypeInv, TypeOK, AttachmentTypeOK
<1>4. EventsAfter(kept, t, lastSeq)
  <2>1. EventsAfter(ring, trimmedThrough, lastSeq)
    BY <1>3 DEF RetainedIsContiguous, RingContiguous, EventsAfter
  <2>2. QED
    BY <1>2, <2>1, TrimKeepsRun
<1>5. kept \in Seq(RetainedEvent)
  BY <1>2, DropFirstFacts
<1>6. t \in Nat
  <2>1. d # 0 => ring[d] \in RetainedEvent
    BY <1>2, ElementOfSeq, LenProperties
  <2>2. QED
    BY <1>2, <2>1 DEF TrimmedThroughAfter, RetainedEvent
<1> HIDE DEF kept, t
<1>7. events \in Seq(RetainedEvent) /\ EventsAfter(events, c, lastSeq)
  BY <1>2, <1>3, <1>4, <1>5, <1>6, ReplayArithmetic
<1>8. c \in Nat /\ gap \in BOOLEAN /\ c >= cursor
  BY <1>2, <1>6 DEF ReplayGap
<1>9. gap <=> cursor < t
  BY DEF ReplayGap
<1> HIDE DEF events, gap
<1>10. Feed(frames, c, lastSeq)
  BY <1>2, <1>7, <1>8, FeedBacklog
<1>11. Aim(frames, cursor) = c
  <2> DEFINE from == IF events = <<>> THEN None ELSE Head(events).seq
  <2>1. /\ frames \in Seq(Frame)
        /\ Len(frames) = 1 + Len(events) + IF wrapped THEN 1 ELSE 0
        /\ frames[1] = Attached(lastSeq, from, gap)
    BY <1>2, <1>7, <1>8, BacklogFacts
  <2>2. Len(events) \in Nat
    BY <1>7, LenProperties
  <2> HIDE DEF frames
  <2>3. Len(frames) # 0
    BY <2>1, <2>2
  <2>4. frames # <<>>
    BY <2>3
  <2>5. Head(frames) = frames[1]
    BY <2>1, <2>4, HeadTailProperties
  <2>6. from = IF Len(events) = 0 THEN 0 ELSE c + 1
    <3>1. CASE events = <<>>
      BY <3>1 DEF None
    <3>2. CASE events # <<>>
      <4>1. Len(events) # 0 /\ Head(events) = events[1]
        BY <1>7, <3>2, EmptySeq, HeadTailProperties
      <4>2. events[1].seq = c + 1
        BY <1>7, <2>2, <4>1 DEF EventsAfter
      <4>3. QED
        BY <3>2, <4>1, <4>2
    <3>3. QED
      BY <3>1, <3>2
  <2> HIDE DEF from
  <2>7. Head(frames).kind = "attached" /\ Head(frames).gap = gap
        /\ Head(frames).seq = lastSeq /\ Head(frames).from = from
    BY <2>1, <2>5 DEF Attached
  <2>8. CASE gap
    <3>1. Aim(frames, cursor) = GapEnd(Head(frames))
      BY <2>4, <2>7, <2>8 DEF Aim
    <3>2. Len(events) = 0 => lastSeq = c
      BY <1>7, <1>8 DEF EventsAfter
    <3>3. GapEnd(Head(frames)) = c
      BY <1>8, <2>6, <2>7, <3>2 DEF GapEnd, None
    <3>4. QED
      BY <3>1, <3>3
  <2>9. CASE ~gap
    <3>1. Aim(frames, cursor) = cursor
      BY <2>7, <2>9 DEF Aim
    <3>2. QED
      BY <1>9, <2>9, <3>1
  <2>10. QED
    BY <2>8, <2>9
<1> HIDE DEF frames, c, n
<1>12. out[current]' = frames
  BY <1>3
<1>13. Aim(out[current], cursor)' = c
  BY <1>3, <1>11, <1>12 DEF Aim, GapEnd
<1>14. Feed(out[current], Aim(out[current], cursor), lastSeq)'
  BY <1>3, <1>10, <1>12, <1>13 DEF Feed, Continues, IsEvent
<1>15. QED
  BY <1>3, <1>8, <1>13, <1>14 DEF FeedInv

\* The owner's sender hands the phone the next frame of its feed, and nothing is lost.
LEMMA FeedPublish ==
    ASSUME TypeInv, Ownership, FeedInv, NoSilentLoss, NEW a \in Att, Publish(a)
    PROVE  FeedInv' /\ NoSilentLoss'
<1> DEFINE s == out[a]
           f == Head(s)
<1>1. /\ sender[a] = "run" /\ taken[a] = 1
      /\ out' = [out EXCEPT ![a] = Tail(s)]
      /\ UNCHANGED <<lastSeq, current, link, sender, recovery>>
  BY DEF Publish, leaseVars
<1>2. s \in Seq(Frame) /\ s # <<>> /\ f \in Frame
  <2>1. s \in Seq(Frame) /\ s # <<>>
    BY <1>1 DEF TypeInv, TypeOK, AttachmentTypeOK, HeldFrameQueued
  <2>2. QED
    BY <2>1, HeadTailProperties
<1>3. current = a /\ current # None
  <2>1. a <= made /\ ~detached[a]
    BY <1>1 DEF Ownership
  <2>2. QED
    BY <2>1, LimitsAssumption DEF Ownership, SingleConsumer, Att, None
<1>4. s' = Tail(s)
  BY <1>1 DEF TypeInv, TypeOK, AttachmentTypeOK
<1>5. cursor \in Nat /\ lastSeq \in Nat
  BY DEF TypeInv, TypeOK, LeaseTypeOK, PhoneTypeOK
<1>6. CASE link # a
  <2>1. UNCHANGED <<cursor, applied, reconciled>>
    BY <1>6 DEF Publish
  <2>2. NoSilentLoss'
    BY <2>1 DEF NoSilentLoss
  <2>3. FeedInv'
    BY <1>1, <1>3, <1>6 DEF FeedInv, Serving
  <2>4. QED
    BY <2>2, <2>3
<1>7. CASE link = a
  <2> DEFINE c == Aim(s, cursor)
  <2>1. PhoneApplies(a, f)
    BY <1>7 DEF Publish
  <2>2. Serving
    BY <1>1, <1>3, <1>7 DEF Serving
  <2>3. c >= cursor /\ Feed(s, c, lastSeq)
    BY <1>3, <2>2 DEF FeedInv
  <2>4. c \in Nat
    BY <1>2, <1>5, AimType
  <2>5. /\ IsEvent(f) => f.seq = c + 1 /\ Feed(Tail(s), c + 1, lastSeq)
        /\ ~IsEvent(f) => Feed(Tail(s), c, lastSeq)
        /\ \A x : Aim(Tail(s), x) = x
    <3> HIDE DEF c, s
    <3>1. QED
      BY <1>2, <1>5, <2>3, <2>4, FeedTail
  <2>6. c = IF f.kind = "attached" /\ f.gap THEN GapEnd(f) ELSE cursor
    BY <1>2 DEF Aim
  <2> HIDE DEF c, f, s
  <2>7. /\ cursor' = (IF IsEvent(f) THEN c + 1 ELSE c)
        /\ \A m \in (cursor + 1)..cursor' : m \in applied' \/ m \in reconciled'
        /\ applied \subseteq applied' /\ reconciled \subseteq reconciled'
    <3>1. CASE IsEvent(f)
      <4>1. f.seq = c + 1 /\ c = cursor
        BY <2>5, <2>6, <3>1 DEF IsEvent
      <4>2. cursor' = c + 1 /\ applied' = applied \cup {c + 1} /\ reconciled' = reconciled
        BY <2>1, <3>1, <4>1 DEF PhoneApplies, IsEvent
      <4>3. \A m \in (cursor + 1)..(c + 1) : m = c + 1
        BY <1>5, <4>1
      <4>4. QED
        BY <3>1, <4>2, <4>3
    <3>2. CASE f.kind = "attached" /\ f.gap
      <4>1. /\ cursor' = c /\ reconciled' = reconciled \cup ((cursor + 1)..c)
            /\ applied' = applied
        BY <2>1, <2>6, <3>2 DEF PhoneApplies
      <4>2. ~IsEvent(f)
        BY <3>2 DEF IsEvent
      <4>3. QED
        BY <4>1, <4>2
    <3>3. CASE ~IsEvent(f) /\ ~(f.kind = "attached" /\ f.gap)
      <4>1. UNCHANGED <<cursor, applied, reconciled>>
        BY <2>1, <3>3 DEF PhoneApplies, IsEvent
      <4>2. \A m \in (cursor + 1)..cursor : FALSE
        BY <1>5
      <4>3. QED
        BY <2>6, <3>3, <4>1, <4>2
    <3>4. QED
      BY <3>1, <3>2, <3>3
  <2>8. cursor' \in Nat
    BY <2>4, <2>7
  <2>9. NoSilentLoss'
    <3> SUFFICES ASSUME NEW m \in 1..cursor' PROVE m \in applied' \/ m \in reconciled'
      BY DEF NoSilentLoss
    <3>1. m \in 1..cursor \/ m \in (cursor + 1)..cursor'
      BY <1>5, <2>8
    <3>2. QED
      BY <2>7, <3>1 DEF NoSilentLoss
  <2>10. Feed(Tail(s), cursor', lastSeq)
    BY <2>5, <2>7
  <2>11. FeedInv'
    <3>1. out[current]' = Tail(s)
      BY <1>1, <1>3, <1>4 DEF s
    <3>2. Aim(out[current], cursor)' = cursor'
      BY <2>5, <3>1 DEF Aim, GapEnd
    <3>3. lastSeq' = lastSeq
      BY <1>1
    <3>4. Feed(out'[current'], cursor', lastSeq')
      BY <2>10, <3>1, <3>3
    <3>5. Feed(out[current], Aim(out[current], cursor), lastSeq)'
      BY <3>2, <3>4 DEF Feed, Continues, IsEvent
    <3>6. QED
      BY <2>8, <3>2, <3>5 DEF FeedInv
  <2>12. QED
    BY <2>9, <2>11
<1>8. QED
  BY <1>6, <1>7

\* _retain and the relay's own answers extend the feed of the owner.
LEMMA FeedDelivery ==
    ASSUME TypeInv, FeedInv, RetainStep \/ LocalReply
    PROVE  FeedInv'
<1>1. CASE LocalReply
  <2> DEFINE fs == <<Local>>
  <2>1. current \in Att /\ Local \in Frame
    BY <1>1, FrameTypes DEF LocalReply, TypeInv, TypeOK, LeaseTypeOK
  <2>2. fs \in Seq(Frame) /\ fs # <<>> /\ Len(fs) = 1 /\ fs[1] = Local
    BY <2>1
  <2>3. Local.kind = "local"
    BY DEF Local
  <2>4. Offer(current, fs) /\ UNCHANGED <<lastSeq, cursor, link>>
    BY <1>1 DEF LocalReply, phoneVars
  <2> HIDE DEF fs
  <2>5. \A i \in 1..Len(fs) : fs[i].kind # "attached" /\ ~IsEvent(fs[i])
    BY <2>2, <2>3 DEF IsEvent
  <2>6. ~IsEvent(fs[Len(fs)])
    BY <2>2, <2>5
  <2>7. QED
    BY <2>1, <2>2, <2>4, <2>5, <2>6, FeedOffer
<1>2. CASE RetainStep
  <2>1. PICK size \in Sizes, replies \in 0..MaxReplies, aged \in 0..Len(ring),
             d \in 0..(Len(ring) + 1) : Retain(size, replies, aged, d)
    BY <1>2 DEF RetainStep
  <2> DEFINE e == EventFrame(lastSeq + 1, size, current # None /\ recovery[current])
             fs == Append([i \in 1..replies |-> Local], e)
  <2>2. OfferToCurrent(fs) /\ lastSeq' = lastSeq + 1 /\ UNCHANGED <<cursor, link>>
    BY <2>1 DEF Retain, phoneVars
  <2>3. size \in Nat /\ replies \in Nat
    BY LimitsAssumption
  <2>4. e \in Frame /\ e.kind = "event" /\ e.seq = lastSeq + 1
    <3>1. lastSeq + 1 \in Nat /\ (current # None /\ recovery[current]) \in BOOLEAN
      BY DEF TypeInv, TypeOK, LeaseTypeOK
    <3>2. QED
      BY <2>3, <3>1, FrameTypes DEF EventFrame
  <2> HIDE DEF e
  <2>5. /\ fs \in Seq(Frame) /\ Len(fs) = replies + 1
        /\ \A i \in 1..replies : fs[i] = Local
        /\ fs[replies + 1] = e
    BY <2>3, <2>4, OfferedFacts
  <2> HIDE DEF fs
  <2>6. \A i \in 1..Len(fs) : i \in 1..replies \/ i = Len(fs)
    BY <2>3, <2>5
  <2>7. Local.kind = "local"
    BY DEF Local
  <2>8. \A i \in 1..Len(fs) : fs[i].kind # "attached"
    BY <2>4, <2>5, <2>6, <2>7
  <2>9. \A i \in 1..Len(fs) : IsEvent(fs[i]) => i = Len(fs)
    BY <2>5, <2>6, <2>7 DEF IsEvent
  <2>10. IsEvent(fs[Len(fs)]) /\ fs[Len(fs)].seq = lastSeq + 1
    BY <2>4, <2>5 DEF IsEvent
  <2>11. fs # <<>>
    BY <2>3, <2>5
  <2>12. CASE current = None
    BY <2>2, <2>12 DEF OfferToCurrent, FeedInv, Serving
  <2>13. CASE current # None
    <3>1. current \in Att /\ Offer(current, fs)
      BY <2>2, <2>13 DEF OfferToCurrent, TypeInv, TypeOK, LeaseTypeOK
    <3>2. QED
      BY <2>2, <2>5, <2>8, <2>9, <2>10, <2>11, <3>1, FeedOffer
  <2>14. QED
    BY <2>12, <2>13
<1>3. QED
  BY <1>1, <1>2

\* The other steps of a sender, and the close of a transport, leave the served queue alone.
LEMMA FeedSender ==
    ASSUME TypeInv, Ownership, FeedInv, NEW a \in Att,
           \/ RegisterOutbound(a) \/ TakeNext(a) \/ SenderStops(a)
           \/ CancelSender(a) \/ TransportClose(a)
    PROVE  FeedInv'
<1>1. CASE TransportClose(a)
  <2> DEFINE q == IF sender[a] = "done" THEN <<>> ELSE out[a]
  <2>1. /\ current' = (IF current = a THEN None ELSE current)
        /\ sender' = [sender EXCEPT ![a] = Cancelled(@)]
        /\ out' = [out EXCEPT ![a] = q]
        /\ UNCHANGED <<cursor, lastSeq, link>>
    BY <1>1 DEF TransportClose, DetachAttachment, MarkDetached, MarkedOut, phoneVars
  <2> HIDE DEF q
  <2>2. current = None \/ current \in Att
    BY DEF TypeInv, TypeOK, LeaseTypeOK
  <2>3. ASSUME Serving' PROVE Serving /\ current' = current /\ out'[current] = out[current]
    <3>1. current # a /\ current' = current /\ current \in Att
      BY <2>1, <2>2, <2>3 DEF Serving
    <3>2. sender'[current] = sender[current] /\ out'[current] = out[current]
      BY <2>1, <3>1 DEF TypeInv, TypeOK, AttachmentTypeOK
    <3>3. QED
      BY <2>1, <2>3, <3>1, <3>2 DEF Serving
  <2>4. QED
    BY <2>1, <2>3, FeedKept
<1>2. CASE RegisterOutbound(a) \/ TakeNext(a) \/ SenderStops(a) \/ CancelSender(a)
  <2>1. /\ UNCHANGED <<cursor, lastSeq, link, current>>
        /\ \A b \in Att : b # a => sender'[b] = sender[b] /\ out'[b] = out[b]
        /\ \/ sender'[a] = "done"
           \/ out'[a] = out[a] /\ sender[a] # "done"
    BY <1>2 DEF RegisterOutbound, TakeNext, SenderStops, CancelSender, Discard, leaseVars,
                phoneVars, TypeInv, TypeOK, AttachmentTypeOK
  <2>2. ASSUME Serving' PROVE Serving /\ current' = current /\ out'[current] = out[current]
    <3>1. current \in Att /\ current # None /\ link = current /\ sender'[current] # "done"
      BY <2>1, <2>2 DEF Serving, TypeInv, TypeOK, LeaseTypeOK
    <3>2. sender[current] # "done" /\ out'[current] = out[current]
      BY <2>1, <3>1
    <3>3. QED
      BY <2>1, <3>1, <3>2 DEF Serving
  <2>3. QED
    BY <2>1, <2>2, FeedKept
<1>3. QED
  BY <1>1, <1>2

PhoneInv == FeedInv /\ NoSilentLoss

\* A fresh phone has nothing behind it, and an empty feed before it.
LEMMA PhoneInit == Init => PhoneInv
<1> SUFFICES ASSUME Init PROVE PhoneInv
  OBVIOUS
<1>1. NoSilentLoss
  BY DEF Init, NoSilentLoss
<1> DEFINE w == recoveryEnabled
           none == <<>>
           gap == FALSE
           frames == Backlog(none, 0, gap, w)
           from == IF none = <<>> THEN None ELSE Head(none).seq
<1>2. /\ w \in BOOLEAN /\ none \in Seq(RetainedEvent) /\ Len(none) = 0
      /\ gap \in BOOLEAN /\ 0 \in Nat /\ ~gap
  BY DEF Init
<1>3. EventsAfter(none, 0, 0)
  BY DEF EventsAfter
<1>4. out[current] = frames /\ cursor = 0 /\ lastSeq = 0
  <2>1. 1 \in Att
    BY LimitsAssumption DEF Att
  <2>2. QED
    BY <2>1 DEF Init, First
<1> HIDE DEF none, w, gap
<1>5. Feed(frames, 0, 0)
  BY <1>2, <1>3, FeedBacklog
<1>6. /\ frames \in Seq(Frame)
      /\ frames[1] = Attached(0, from, gap)
  BY <1>2, BacklogFacts
<1> HIDE DEF frames, from
<1>7. Aim(frames, 0) = 0
  <2>1. frames # <<>> => Head(frames) = frames[1]
    BY <1>6, HeadTailProperties
  <2>2. frames[1].gap = gap
    BY <1>6 DEF Attached
  <2>3. QED
    BY <1>2, <2>1, <2>2 DEF Aim
<1>8. FeedInv
  BY <1>4, <1>5, <1>7 DEF FeedInv
<1>9. QED
  BY <1>1, <1>8 DEF PhoneInv

\* Every step keeps the feed and loses nothing.
LEMMA PhoneNext ==
    TypeInv /\ Ownership /\ RetainedIsContiguous /\ PhoneInv /\ [Next]_vars => PhoneInv'
<1> SUFFICES ASSUME TypeInv, Ownership, RetainedIsContiguous, FeedInv, NoSilentLoss, [Next]_vars
             PROVE  FeedInv' /\ NoSilentLoss'
  BY DEF PhoneInv
<1>1. CASE RetainStep \/ LocalReply
  <2>1. UNCHANGED <<cursor, applied, reconciled>>
    BY <1>1 DEF RetainStep, Retain, LocalReply, phoneVars
  <2>2. NoSilentLoss'
    BY <2>1 DEF NoSilentLoss
  <2>3. QED
    BY <1>1, <2>2, FeedDelivery
<1>2. CASE Expire \/ PumpClosed \/ RetainFails \/ CapRelease \/ ExternalRelease
  <2>1. /\ UNCHANGED <<cursor, applied, reconciled>>
        /\ current' = None \/ (released /\ current' = current)
    BY <1>2 DEF Expire, PumpClosed, RetainFails, CapRelease, ExternalRelease, Fence, phoneVars,
                releaseVars
  <2>2. current' = None
    BY <2>1 DEF Ownership
  <2>3. QED
    BY <2>1, <2>2 DEF NoSilentLoss, FeedInv, Serving
<1>3. CASE AttachStep
  <2>1. UNCHANGED <<cursor, applied, reconciled>>
    BY <1>3 DEF AttachStep, Attach
  <2>2. NoSilentLoss'
    BY <2>1 DEF NoSilentLoss
  <2>3. QED
    BY <1>3, <2>2, FeedAttach
<1>4. CASE Cleanup
  <2>1. /\ UNCHANGED <<cursor, applied, reconciled, lastSeq, current, out, link>>
        /\ sender' = [a \in Att |-> Cancelled(sender[a])] \/ sender' = sender
    BY <1>4 DEF Cleanup, BeginJoin, CancelDelivered, JoinDone, CloseController, leaseVars,
                attVars, phoneVars
  <2>2. current = None \/ current \in Att
    BY DEF TypeInv, TypeOK, LeaseTypeOK
  <2>3. Serving' => Serving
    BY <2>1, <2>2 DEF Serving, Cancelled
  <2>4. FeedInv'
    BY <2>1, <2>3, FeedKept
  <2>5. QED
    BY <2>1, <2>4 DEF NoSilentLoss
<1>5. CASE \E a \in Att : SenderStep(a) \/ CancelSender(a) \/ TransportClose(a)
  <2>1. PICK a \in Att : SenderStep(a) \/ CancelSender(a) \/ TransportClose(a)
    BY <1>5
  <2>2. CASE Publish(a)
    BY <2>2, FeedPublish
  <2>3. CASE \/ RegisterOutbound(a) \/ TakeNext(a) \/ SenderStops(a)
             \/ CancelSender(a) \/ TransportClose(a)
    <3>1. UNCHANGED <<cursor, applied, reconciled>>
      BY <2>3 DEF RegisterOutbound, TakeNext, SenderStops, CancelSender, TransportClose, phoneVars
    <3>2. FeedInv'
      BY <2>3, FeedSender
    <3>3. QED
      BY <3>1, <3>2 DEF NoSilentLoss
  <2>4. QED
    BY <2>1, <2>2, <2>3 DEF SenderStep
<1>6. CASE LinkLost \/ PhoneRelaunch
  <2>1. /\ link' = None /\ current' = current
        /\ cursor' = 0 \/ UNCHANGED <<cursor, applied, reconciled>>
    BY <1>6 DEF LinkLost, PhoneRelaunch, leaseVars
  <2>2. FeedInv'
    BY <2>1 DEF FeedInv, Serving
  <2>3. NoSilentLoss'
    BY <2>1 DEF NoSilentLoss
  <2>4. QED
    BY <2>2, <2>3
<1>7. CASE UNCHANGED vars
  <2>1. UNCHANGED <<cursor, applied, reconciled, lastSeq, current, out, link, sender>>
    BY <1>7 DEF vars, leaseVars, attVars, phoneVars
  <2>2. Serving' => Serving
    BY <2>1 DEF Serving
  <2>3. FeedInv'
    BY <2>1, <2>2, FeedKept
  <2>4. QED
    BY <2>1, <2>3 DEF NoSilentLoss
<1>8. QED
  BY <1>1, <1>2, <1>3, <1>4, <1>5, <1>6, <1>7 DEF Next

LeaseInv == TypeInv /\ Ownership /\ RetainedIsContiguous /\ PhoneInv

\* The initial states satisfy the whole invariant.
LEMMA LeaseInit == Init => LeaseInv
<1>1. Init => RetainedIsContiguous
  BY DEF Init, RetainedIsContiguous, RingContiguous
<1>2. QED
  BY <1>1, TypeInit, OwnershipInit, PhoneInit DEF LeaseInv

\* Every step keeps the whole invariant.
LEMMA LeaseNext == LeaseInv /\ [Next]_vars => LeaseInv'
BY TypeNext, OwnershipNext, RingNext, PhoneNext DEF LeaseInv

(***************************************************************************)
(* No event is lost silently, for every limit of the ring and of the live  *)
(* queue and for every interleaving of trimming, backpressure, lost        *)
(* connections, replacement, relaunch and release: what the phone's resume *)
(* cursor has passed was applied or reported to it as a gap.               *)
(***************************************************************************)
THEOREM NoSilentLossHolds == Spec => []NoSilentLoss
<1>1. LeaseInv => NoSilentLoss
  BY DEF LeaseInv, PhoneInv
<1>2. QED
  BY <1>1, LeaseInit, LeaseNext, PTL DEF Spec

(***************************************************************************)
(* What waits for a listening phone continues its cursor, without a hole   *)
(* or a repeat, up to the last event (attach's replay joined to _retain's  *)
(* live delivery, for every limit).                                        *)
(***************************************************************************)
THEOREM ContiguousPipelineHolds == Spec => []ContiguousPipeline
<1>1. LeaseInv => ContiguousPipeline
  BY FeedInvMeaning DEF LeaseInv, PhoneInv
<1>2. QED
  BY <1>1, LeaseInit, LeaseNext, PTL DEF Spec

=============================================================================
