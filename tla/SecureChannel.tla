------------------------------ MODULE SecureChannel ------------------------------
(* secure_channel.py and controller_transport.py: phones (initiators) and host *)
(* connections (responders) run the Noise XK handshake, are admitted, and      *)
(* exchange framed messages over a relay that may lose, duplicate, reorder,    *)
(* damage or misroute what is sent.  Both ends run NoiseChannel; the phone's   *)
(* transport is external and taken as the mirror of the host's, except that   *)
(* it may also send records that do not fit.                                *)
(*                                                                         *)
(* "wire" holds everything ever sent: a message may be read by any channel,   *)
(* any number of times, or never.  An end names its own ephemeral key.       *)
EXTENDS NoiseXK, Framing, FiniteSets

CONSTANTS
    Phones, Hosts,
    PhoneKey, HostKey,      \* static keys of the device and of the installation
    Installations,          \* installation ids a phone may have paired with
    Installation,           \* the host's
    NoPayload, Capability,  \* payload of the last handshake message
    Lengths,                \* bound: lengths of logical messages
    MaxMessages,            \* bound: messages sent by one end
    MaxMisframed            \* bound: records of a phone that do not fit

Ends == Phones \cup Hosts

ASSUME ChannelAssumption == Phones \cap Hosts = {} /\ Installation \in Installations /\ Lengths \subseteq Nat /\ MaxMessages \in Nat

VARIABLES
    ch,        \* NoiseChannel of each end, with what its transport holds
    wire,      \* records and handshake messages sent so far
    sent,      \* messages each end handed over, in order
    got        \* messages each end delivered, in order

channelVars == <<ch, wire, sent, got>>

Closed == [next |-> "new", closed |-> TRUE, hs |-> <<>>, enc |-> <<>>, dec |-> <<>>, binding |-> <<>>,
           peer |-> Empty, payload |-> NoPayload, admitted |-> FALSE, bound |-> FALSE,
           asm |-> Idle, out |-> <<>>, odd |-> 0]
NotOpened == [Closed EXCEPT !.closed = FALSE]

ChannelInit ==
    /\ ch = [e \in Ends |-> NotOpened]
    /\ wire = {}
    /\ sent = [e \in Ends |-> <<>>] /\ got = [e \in Ends |-> <<>>]

-----------------------------------------------------------------------------
(* NoiseChannel *)

IsOpen(e) == ~ch[e].closed
Finished(e) == IsOpen(e) /\ ch[e].next = "complete"

\* close, and the transport's close with it; what was agreed is kept as history
Shut(c) == [Closed EXCEPT !.binding = c.binding, !.peer = c.peer, !.payload = c.payload]

\* __init__; a phone may hold an installation id that is out of date
Open(e) ==
    /\ ch[e] = NotOpened
    /\ \E i \in IF e \in Phones THEN Installations ELSE {Installation} :
        ch' = [ch EXCEPT ![e].next = IF e \in Phones THEN "write1" ELSE "read1",
                         ![e].hs = Initialize(e \in Phones, i,
                                              IF e \in Phones THEN PhoneKey ELSE HostKey, e,
                                              IF e \in Phones THEN HostKey ELSE Empty)]
    /\ UNCHANGED <<wire, sent, got>>

After(action) ==
    CASE action = "write1" -> "read2"
      [] action = "read1" -> "write2"
      [] action = "write2" -> "read3"
      [] action = "read2" -> "write3"
      [] OTHER -> "complete"

\* the channel with the handshake state hs; after the last message it is split,
\* and the binding and the peer's static key are kept (_finish_handshake)
Advanced(e, hs) ==
    LET c == [ch[e] EXCEPT !.hs = hs, !.next = After(@)]
        keys == Split(hs.y)
    IN IF c.next # "complete" THEN c
       ELSE [c EXCEPT !.hs = <<>>, !.binding = hs.y.h, !.peer = hs.rs,
                      !.enc = IF hs.init THEN keys[1] ELSE keys[2],
                      !.dec = IF hs.init THEN keys[2] ELSE keys[1]]

\* write_handshake
WriteHandshake(e) ==
    /\ IsOpen(e) /\ ch[e].next \in {"write1", "write2", "write3"}
    /\ \E p \in IF ch[e].next = "write3" THEN {NoPayload, Capability} ELSE {NoPayload} :
        LET w == WriteMessage(ch[e].hs, p)
        IN /\ ch' = [ch EXCEPT ![e] = [Advanced(e, w.hs) EXCEPT !.payload = p]]
           /\ wire' = wire \cup {w.parts}
    /\ UNCHANGED <<sent, got>>

\* what may arrive: anything sent, whole or with one part damaged
Arriving == wire \cup UNION {{[m EXCEPT ![i] = Clear(Junk)] : i \in DOMAIN m} : m \in wire}

\* read_handshake: any failure closes the channel
ReadHandshake(e, m) ==
    LET r == ReadMessage(ch[e].hs, m)
        ok == r.ok /\ r.parts = <<>> /\ (ch[e].next # "read3" => r.pt = NoPayload)
    IN /\ IsOpen(e) /\ ch[e].next \in {"read1", "read2", "read3"}
       /\ ch' = [ch EXCEPT ![e] = IF ok THEN [Advanced(e, r.hs) EXCEPT !.payload = r.pt]
                                  ELSE Shut(@)]
       /\ UNCHANGED <<wire, sent, got>>

\* mark_admitted and mark_transport_bound: once, after the handshake, and the
\* host binds a transport only to an admitted channel
MarkAdmitted(e) ==
    /\ e \in Hosts /\ Finished(e) /\ ~ch[e].admitted
    /\ ch' = [ch EXCEPT ![e].admitted = TRUE]
    /\ UNCHANGED <<wire, sent, got>>

MayBind(e) == Finished(e) /\ (e \in Hosts => ch[e].admitted) /\ ~ch[e].bound

BindTransport(e) ==
    /\ MayBind(e)
    /\ ch' = [ch EXCEPT ![e].bound = TRUE]
    /\ UNCHANGED <<wire, sent, got>>

-----------------------------------------------------------------------------
(* EncryptedControllerTransport; its channel id comes from the binding *)

\* encrypt of several records, in order: what it comes to after the i-th;
\* "ok" fails when a nonce is missing
EncryptSteps(c, records) ==
    LET after[i \in 0 .. Len(records)] ==
            IF i = 0 THEN [ok |-> TRUE, c |-> c, out |-> <<>>]
            ELSE LET x == Encrypt(after[i - 1].c, records[i])
                 IN [ok |-> after[i - 1].ok /\ x.ok, c |-> x.c, out |-> Append(after[i - 1].out, x.ct)]
    IN after

Encrypted(c, records) == EncryptSteps(c, records)[Len(records)]

\* the n-th message of an end: its identifier and its bytes
MessageId(e, n) == <<e, n>>
Bytes(e, n, len) == [i \in 1 .. len |-> <<e, n, i>>]

\* next_ciphertexts: the frame is encoded and encrypted as a whole; it is
\* refused when it is too long or the nonces run out, and the channel closes
NextCiphertexts(e, len) ==
    LET n == Len(sent[e]) + 1
        m == Bytes(e, n, len)
        x == Encrypted(ch[e].enc, EncodeMessage(ch[e].binding, MessageId(e, n), m))
    IN /\ Finished(e) /\ ch[e].bound /\ ch[e].out = <<>>
       /\ n <= MaxMessages
       /\ IF Encodable(m) /\ x.ok
          THEN /\ ch' = [ch EXCEPT ![e].enc = x.c, ![e].out = x.out]
               /\ sent' = [sent EXCEPT ![e] = Append(@, m)]
          ELSE /\ ch' = [ch EXCEPT ![e] = Shut(@)]
               /\ UNCHANGED sent
       /\ UNCHANGED <<wire, got>>

\* pump_outbound sends the records one by one
SendRecord(e) ==
    /\ Finished(e) /\ ch[e].out # <<>>
    /\ wire' = wire \cup {<<Head(ch[e].out)>>}
    /\ ch' = [ch EXCEPT ![e].out = Tail(@)]
    /\ UNCHANGED <<sent, got>>

\* a record of the phone that does not fit: alone out of a longer message, for
\* another channel, or with a count or a length that is not canonical
Misframed(c, e) ==
    LET r == Record(c.binding, MessageId(e, 0), Bytes(e, 0, MaxPayload + 1), 0)
        last == Record(c.binding, MessageId(e, MaxMessages + 1), Bytes(e, MaxMessages + 1, MaxPayload + 1), 1)
    IN {r, last, [r EXCEPT !.chan = <<>>], [r EXCEPT !.count = 1], [r EXCEPT !.len = MaxLogical + 1]}

PhoneMisframes(e, r) ==
    LET x == Encrypt(ch[e].enc, r)
    IN /\ e \in Phones /\ Finished(e) /\ ch[e].bound /\ x.ok
       /\ ch[e].odd < MaxMisframed
       /\ ch' = [ch EXCEPT ![e].enc = x.c, ![e].odd = @ + 1]
       /\ wire' = wire \cup {<<x.ct>>}
       /\ UNCHANGED <<sent, got>>

\* decrypt: a record is one ciphertext
Decrypted(e, m) ==
    LET d == Decrypt(ch[e].dec, m[1])
    IN [d EXCEPT !.ok = @ /\ Len(m) = 1]

\* feed_ciphertext: decrypt, reassemble, deliver; any failure closes
FeedCiphertext(e, m) ==
    LET d == Decrypted(e, m)
        p == Push(ch[e].asm, ch[e].binding, d.pt)
    IN /\ Finished(e) /\ ch[e].bound
       /\ IF ~d.ok THEN ch' = [ch EXCEPT ![e] = Shut(@)] /\ UNCHANGED got
          ELSE IF p.res = "rejected" THEN ch' = [ch EXCEPT ![e] = Shut(@)] /\ UNCHANGED got
          ELSE /\ ch' = [ch EXCEPT ![e].dec = d.c, ![e].asm = p.a]
               /\ got' = IF p.res = "whole" THEN [got EXCEPT ![e] = Append(@, p.bytes)] ELSE got
       /\ UNCHANGED <<wire, sent>>

\* close: a detach, a lease that is gone, an outer disconnect, a feed that fails
Close(e) ==
    /\ IsOpen(e) /\ ch[e] # NotOpened
    /\ ch' = [ch EXCEPT ![e] = Shut(@)]
    /\ UNCHANGED <<wire, sent, got>>

ChannelNext ==
    \E e \in Ends :
        \/ Open(e) \/ WriteHandshake(e) \/ MarkAdmitted(e) \/ BindTransport(e) \/ Close(e)
        \/ \E m \in Arriving : ReadHandshake(e, m) \/ FeedCiphertext(e, m)
        \/ \E len \in Lengths : NextCiphertexts(e, len)
        \/ SendRecord(e)
        \/ \E r \in Misframed(ch[e], e) : PhoneMisframes(e, r)

ChannelSpec == ChannelInit /\ [][ChannelNext]_channelVars

-----------------------------------------------------------------------------

\* the other end of a finished handshake: it has the same binding
Partners(e) == {f \in Ends \ {e} : ch[f].binding = ch[e].binding}

Completed(e) == ch[e].binding # <<>>

\* A host that finished a handshake shares it with exactly one phone, which has
\* the same installation id in its binding, is the key the host reads as its
\* peer, and sent the payload the host read; no replayed, misrouted or damaged
\* message can make two ends disagree (read_handshake, _finish_handshake).
HandshakeAgrees ==
    \A h \in Hosts : Completed(h) =>
        \E p \in Phones :
            /\ Partners(h) = {p}
            /\ ch[h].peer = PhoneKey /\ ch[p].peer = HostKey
            /\ ch[h].payload = ch[p].payload

\* What an end delivered is a prefix of what its partner handed over: whole
\* messages, in order, none twice, none mixed of two, whatever the relay does
\* and whatever does not fit in between (decrypt, Reassembler.push).
DeliveredIsPrefix ==
    \A e \in Ends : got[e] # <<>> =>
        \E f \in Partners(e) :
            /\ Len(got[e]) <= Len(sent[f])
            /\ SubSeq(sent[f], 1, Len(got[e])) = got[e]

\* all there is, sent or not yet sent: ciphertexts, and bytes in the clear
Parts(m) == {m[i] : i \in DOMAIN m}
Ciphertexts == UNION {Parts(m) : m \in wire \cup {ch[e].out : e \in Ends}}

\* No key encrypts two different plaintexts under one nonce, not across
\* directions, connections or a message whose encryption stopped half way
\* (CipherState.encrypt_with_ad, SymmetricState.split).
NoncesAreUnique ==
    \A x, y \in Ciphertexts : x.k # NoKey /\ x.k = y.k /\ x.n = y.n => x = y
=============================================================================
