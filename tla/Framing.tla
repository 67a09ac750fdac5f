-------------------------------- MODULE Framing --------------------------------
(* framing.py: canonical records of a logical message and their reassembly.  *)
(* A record is [chan, msg, index, count, len, plen, payload]; magic, version, *)
(* kind, flags and reserved are the one field "v1".                         *)
EXTENDS Naturals, Sequences

CONSTANTS
    MaxPayload,    \* MAX_PAYLOAD_BYTES
    MaxLogical     \* MAX_LOGICAL_MESSAGE_BYTES

ASSUME FramingAssumption == MaxPayload \in Nat \ {0} /\ MaxLogical \in Nat

CeilDiv(a, b) == (a + b - 1) \div b
MinOf(a, b) == IF a <= b THEN a ELSE b
MaxFragments == CeilDiv(MaxLogical, MaxPayload)

\* _fragment_count; an empty message is one empty fragment
FragmentCount(len) == IF len = 0 THEN 1 ELSE CeilDiv(len, MaxPayload)

\* _payload_length
PayloadLength(len, index) == MinOf(MaxPayload, len - index * MaxPayload)

\* payload_bytes[index * MaxPayload : (index + 1) * MaxPayload]
Slice(bytes, index) ==
    SubSeq(bytes, index * MaxPayload + 1, MinOf((index + 1) * MaxPayload, Len(bytes)))

Record(chan, msg, bytes, index) ==
    [v1 |-> TRUE, chan |-> chan, msg |-> msg, index |-> index,
     count |-> FragmentCount(Len(bytes)), len |-> Len(bytes),
     plen |-> PayloadLength(Len(bytes), index), payload |-> Slice(bytes, index)]

Encodable(bytes) == Len(bytes) <= MaxLogical

\* encode_message
EncodeMessage(chan, msg, bytes) ==
    [i \in 1 .. FragmentCount(Len(bytes)) |-> Record(chan, msg, bytes, i - 1)]

\* decode_record accepts
Canonical(r) ==
    /\ r.v1
    /\ r.count \in 1 .. MaxFragments
    /\ r.len <= MaxLogical
    /\ r.index < FragmentCount(r.len)
    /\ r.count = FragmentCount(r.len)
    /\ r.plen = PayloadLength(r.len, r.index)
    /\ Len(r.payload) = r.plen

-----------------------------------------------------------------------------
(* Reassembler *)

NoMessage == <<>>
\* reset
Idle == [msg |-> NoMessage, chan |-> <<>>, count |-> 0, len |-> 0, next |-> 0, bytes |-> <<>>]

Begun(r) == [Idle EXCEPT !.msg = r.msg, !.chan = r.chan, !.count = r.count, !.len = r.len]

\* Faulty: the message identifier is not compared
ContinuesAny(a, r) ==
    IF a.msg = NoMessage THEN r.index = 0
    ELSE a.chan = r.chan /\ a.count = r.count /\ a.len = r.len

\* the record may begin a message or continue the one in progress
Continues(a, r) ==
    IF a.msg = NoMessage THEN r.index = 0
    ELSE a.msg = r.msg /\ a.chan = r.chan /\ a.count = r.count /\ a.len = r.len

\* push: "rejected", "more" or "whole", the reassembler afterwards and the message
Push(a, chan, r) ==
    LET b == IF a.msg = NoMessage THEN Begun(r) ELSE a
        bytes == b.bytes \o r.payload
    IN IF \/ ~Canonical(r) \/ r.chan # chan
          \/ ~Continues(a, r)
          \/ r.index # b.next
          \/ Len(bytes) > b.len
          \/ b.next + 1 = b.count /\ Len(bytes) # b.len
       THEN [res |-> "rejected", a |-> Idle, bytes |-> <<>>]
       ELSE IF b.next + 1 # b.count
       THEN [res |-> "more", a |-> [b EXCEPT !.next = @ + 1, !.bytes = bytes], bytes |-> <<>>]
       ELSE [res |-> "whole", a |-> Idle, bytes |-> bytes]
=============================================================================
