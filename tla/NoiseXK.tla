-------------------------------- MODULE NoiseXK --------------------------------
(* The vendored Noise runtime (_vendor/noise) for the one pattern the relay   *)
(* uses, Noise_XK, with its cryptography as free terms: equal bytes come only *)
(* from equal inputs.                                                       *)
(*                                                                         *)
(*   - a key pair is named by one value, which also stands for its public    *)
(*     bytes; a Diffie-Hellman result is the set of the two keys;            *)
(*   - a hash or a chaining key is the sequence of what was mixed into it;   *)
(*   - a derived key is its chaining key and the output that was taken;      *)
(*   - a ciphertext is [k, n, ad, pt], opened only with the same k, n, ad;    *)
(*     bytes in the clear have no key.                                      *)
EXTENDS Naturals, Sequences

CONSTANTS
    MaxNonce,    \* MAX_NONCE
    Empty,       \* an unset key
    Junk         \* damaged or missing bytes

ASSUME NoiseAssumption == MaxNonce \in Nat \ {0, 1}

NoKey == [ck |-> <<>>, out |-> 0]
Clear(x) == [k |-> NoKey, n |-> 0, ad |-> <<>>, pt |-> x]

-----------------------------------------------------------------------------
(* CipherState: key k and nonce n *)

InitializeKey(key) == [k |-> key, n |-> 0]
HasKey(c) == c.k # NoKey

\* Faulty: the nonce is not counted up
EncryptSameNonce(c, ad, pt) ==
    IF c.n = MaxNonce THEN [ok |-> FALSE, c |-> c, ct |-> Clear(Junk)]
    ELSE IF ~HasKey(c) THEN [ok |-> TRUE, c |-> c, ct |-> Clear(pt)]
    ELSE [ok |-> TRUE, c |-> c, ct |-> [k |-> c.k, n |-> c.n, ad |-> ad, pt |-> pt]]

\* encrypt_with_ad; "ok" is FALSE when the nonces are used up
EncryptWithAd(c, ad, pt) ==
    IF c.n = MaxNonce THEN [ok |-> FALSE, c |-> c, ct |-> Clear(Junk)]
    ELSE IF ~HasKey(c) THEN [ok |-> TRUE, c |-> c, ct |-> Clear(pt)]
    ELSE [ok |-> TRUE, c |-> [c EXCEPT !.n = @ + 1],
          ct |-> [k |-> c.k, n |-> c.n, ad |-> ad, pt |-> pt]]

\* Faulty: the associated data is left out of the check
AuthenticAnyAd(c, ad, ct) == ct.k = c.k /\ ct.n = c.n

\* decrypt_with_ad: the key, the nonce and the associated data must match
Authentic(c, ad, ct) == ct.k = c.k /\ ct.n = c.n /\ ct.ad = ad

DecryptWithAd(c, ad, ct) ==
    IF c.n = MaxNonce THEN [ok |-> FALSE, c |-> c, pt |-> Junk]
    ELSE IF ~HasKey(c) THEN [ok |-> TRUE, c |-> c, pt |-> ct.pt]
    ELSE IF ~Authentic(c, ad, ct) THEN [ok |-> FALSE, c |-> c, pt |-> Junk]
    ELSE [ok |-> TRUE, c |-> [c EXCEPT !.n = @ + 1], pt |-> ct.pt]

-----------------------------------------------------------------------------
(* SymmetricState: hash h, chaining key ck, cipher c *)

\* initialize_symmetric; the protocol name is the same everywhere
InitializeSymmetric == [h |-> <<>>, ck |-> <<>>, c |-> InitializeKey(NoKey)]

\* mix_hash; the associated data of a ciphertext is the hash it is mixed into
MixHash(y, data) == [y EXCEPT !.h = Append(@, <<data.k, data.n, data.pt>>)]

\* hkdf(ck, material, 2): the new chaining key and a key for the cipher
MixKey(y, material) ==
    LET ck == Append(y.ck, material)
    IN [h |-> y.h, ck |-> ck, c |-> InitializeKey([ck |-> ck, out |-> 0])]

\* split: one cipher for each direction, first the initiator's
Split(y) == <<InitializeKey([ck |-> y.ck, out |-> 1]), InitializeKey([ck |-> y.ck, out |-> 2])>>

-----------------------------------------------------------------------------
(* HandshakeState: s, e, rs, re, the role, the symmetric state y and the     *)
(* message patterns left                                                    *)

XK == << <<"e", "es">>, <<"e", "ee">>, <<"s", "se">> >>

\* initialize: the prologue and the responder's static key (the pre-message)
\* are hashed; e is the key pair generated for the first "e" token
Initialize(initiator, prologue, s, e, rs) ==
    [init |-> initiator, s |-> s, e |-> e, rs |-> rs, re |-> Empty, left |-> XK,
     y |-> MixHash(MixHash(InitializeSymmetric, Clear(prologue)),
                   Clear(IF initiator THEN rs ELSE s))]

\* the pair whose Diffie-Hellman result a token mixes in
DhPair(hs, token) ==
    CASE token = "ee" -> {hs.e, hs.re}
      [] token = "es" -> IF hs.init THEN {hs.e, hs.rs} ELSE {hs.s, hs.re}
      [] token = "se" -> IF hs.init THEN {hs.s, hs.re} ELSE {hs.e, hs.rs}

\* encrypt_and_hash, decrypt_and_hash as steps of a message being written or
\* read: a step is [ok, hs, parts], the parts written so far or left to read
WritePart(w, pt) ==
    LET x == EncryptWithAd(w.hs.y.c, w.hs.y.h, pt)
    IN [ok |-> w.ok /\ x.ok,
        hs |-> [w.hs EXCEPT !.y = MixHash([@ EXCEPT !.c = x.c], x.ct)],
        parts |-> Append(w.parts, x.ct)]

NextPart(w) == IF w.parts = <<>> THEN Clear(Junk) ELSE Head(w.parts)
Rest(w) == IF w.parts = <<>> THEN <<>> ELSE Tail(w.parts)

ReadPart(w) ==
    LET x == DecryptWithAd(w.hs.y.c, w.hs.y.h, NextPart(w))
    IN [ok |-> w.ok /\ x.ok, pt |-> x.pt, parts |-> Rest(w),
        hs |-> [w.hs EXCEPT !.y = MixHash([@ EXCEPT !.c = x.c], NextPart(w))]]

\* any 32 bytes are a public key
AsKey(part) == IF part.k = NoKey THEN part.pt ELSE part

\* the tokens; "es", "ee" and "se" mix a Diffie-Hellman result in
WriteE(w) ==
    [ok |-> w.ok, hs |-> [w.hs EXCEPT !.y = MixHash(@, Clear(w.hs.e))], parts |-> Append(w.parts, Clear(w.hs.e))]

ReadE(w) ==
    [ok |-> w.ok, parts |-> Rest(w),
     hs |-> [w.hs EXCEPT !.re = AsKey(NextPart(w)), !.y = MixHash(@, NextPart(w))]]

ReadS(w) ==
    LET r == ReadPart(w)
    IN [ok |-> r.ok, hs |-> [r.hs EXCEPT !.rs = r.pt], parts |-> r.parts]

MixDh(w, token) ==
    [ok |-> w.ok, hs |-> [w.hs EXCEPT !.y = MixKey(@, DhPair(w.hs, token))], parts |-> w.parts]

WriteToken(w, token) ==
    CASE token = "e" -> WriteE(w)
      [] token = "s" -> WritePart(w, w.hs.s)
      [] OTHER -> MixDh(w, token)

ReadToken(w, token) ==
    CASE token = "e" -> ReadE(w)
      [] token = "s" -> ReadS(w)
      [] OTHER -> MixDh(w, token)

\* the next pattern is taken; each has two tokens
Start(hs, parts) == [ok |-> TRUE, hs |-> [hs EXCEPT !.left = Tail(@)], parts |-> parts]

\* write_message: what is left of the handshake state, and the message
WriteMessage(hs, payload) ==
    LET tokens == Head(hs.left)
    IN WritePart(WriteToken(WriteToken(Start(hs, <<>>), tokens[1]), tokens[2]), payload)

\* read_message: what is left of the handshake state, and the payload
ReadMessage(hs, message) ==
    LET tokens == Head(hs.left)
    IN ReadPart(ReadToken(ReadToken(Start(hs, message), tokens[1]), tokens[2]))

\* NoiseConnection.encrypt, decrypt: transport messages have no associated data
Encrypt(c, pt) == EncryptWithAd(c, <<>>, pt)
Decrypt(c, ct) == DecryptWithAd(c, <<>>, ct)
=============================================================================
