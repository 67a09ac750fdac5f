----------------------------- MODULE Management -----------------------------
(***************************************************************************)
(* The owner's dashboards (management.py behind the routes of              *)
(* plugin_api.py), over the repository of Authorization.  Each surface is  *)
(* a process of its own and its routes run one at a time.  Most of them    *)
(* are one transaction; create_pairing_offer is several, with those of     *)
(* other surfaces and of pairing phones in between: it makes the offer,    *)
(* mints the routing token for its QR, renders the QR and, when that       *)
(* fails, cancels the offer.  The answer is then qr_render_failed, also    *)
(* when the cancellation itself raised and the offer is still active.      *)
(*                                                                         *)
(* A token is its iat and exp; signatures and the other claims are left    *)
(* out.  The router's clock is the host's.                                 *)
(***************************************************************************)
EXTENDS Authorization

CONSTANTS
    Surfaces,  \* management surfaces
    Lifetime,  \* MAX_TOKEN_LIFETIME_SECONDS of a pairing device
    Skew       \* skew_seconds

ASSUME ManagementAssumption ==
    /\ Skew \in Nat /\ Lifetime \in Nat
    /\ \A ttl \in Ttls : ttl <= MaxAge
    /\ MaxAge <= Lifetime

VARIABLES
    call,     \* the create_pairing_offer under way on each surface
    qr,       \* the QR handed out last
    refused,  \* offers whose create answered qr_render_failed
    kept      \* history: those of them whose cancellation raised

failures == <<refused, kept>>
manageVars == <<call, qr, failures>>
allVars == <<vars, manageVars>>

NoToken == [iat |-> 0, exp |-> 0]
\* back is history: the clock was set back since the offer was made
NoCall == [at |-> "idle", offer |-> 0, ttl |-> 0, token |-> NoToken, back |-> FALSE]
NoQr == [offer |-> 0, token |-> NoToken, back |-> FALSE]

ManageInit ==
    /\ Init
    /\ call = [s \in Surfaces |-> NoCall] /\ qr = NoQr
    /\ refused = {} /\ kept = {}

\* RoutingTokenIssuer.mint
Mint(ttl) == [iat |-> now, exp |-> now + ttl]

\* verify_routing_token, in parity with the router
Accepts(token) ==
    /\ token.exp - token.iat \in 1..Lifetime
    /\ now + Skew >= token.iat /\ now < token.exp

-----------------------------------------------------------------------------
(* create_pairing_offer                                                    *)

CreateCalled(s, ttl) ==
    /\ call[s].at = "idle"
    /\ CreateOffer(ttl)
    /\ call' = [call EXCEPT ![s] = [NoCall EXCEPT !.at = "mint", !.offer = offers', !.ttl = ttl]]
    /\ UNCHANGED <<qr, failures>>

\* _mint_pairing_token: without an issuer or an identity the QR has no token
TokenMinted(s) ==
    /\ call[s].at = "mint"
    /\ \E token \in {Mint(call[s].ttl), NoToken} :
          call' = [call EXCEPT ![s].at = "render", ![s].token = token]
    /\ UNCHANGED <<vars, qr, failures>>

Rendered(s) ==
    /\ call[s].at = "render"
    /\ qr' = [offer |-> call[s].offer, token |-> call[s].token, back |-> call[s].back]
    /\ call' = [call EXCEPT ![s] = NoCall]
    /\ UNCHANGED <<vars, failures>>

RenderFails(s) ==
    /\ call[s].at = "render"
    /\ call' = [call EXCEPT ![s].at = "cancel"]
    /\ UNCHANGED <<vars, qr, failures>>

\* cancel_offer answers False when the offer is no longer there or active
OfferCancelled(s) ==
    /\ call[s].at = "cancel"
    /\ \/ CancelOffer(call[s].offer)
       \/ ~(offer.id = call[s].offer /\ offer.status = "active") /\ UNCHANGED vars
    /\ refused' = refused \cup {call[s].offer}
    /\ call' = [call EXCEPT ![s] = NoCall]
    /\ UNCHANGED <<qr, kept>>

\* cancel_offer raises AuthorizationError: suppressed, and the answer is the same
CancelFails(s) ==
    /\ call[s].at = "cancel"
    /\ refused' = refused \cup {call[s].offer} /\ kept' = kept \cup {call[s].offer}
    /\ call' = [call EXCEPT ![s] = NoCall]
    /\ UNCHANGED <<vars, qr>>

\* the process dies in the call, which is never answered
CallLost(s) ==
    /\ call[s].at # "idle"
    /\ call' = [call EXCEPT ![s] = NoCall]
    /\ UNCHANGED <<vars, qr, failures>>

CreateStep(s) ==
    \/ \E ttl \in Ttls : CreateCalled(s, ttl)
    \/ TokenMinted(s) \/ Rendered(s) \/ RenderFails(s)
    \/ OfferCancelled(s) \/ CancelFails(s) \/ CallLost(s)

-----------------------------------------------------------------------------
(* The other routes, and what is not the owner's                           *)

\* approve_device, with the fingerprint or the digest that the owner confirmed
ApproveDevice == \E id \in 1..minted : Approve(id)

\* deny_device, also by the connector; revoke_device through admission
DenyDevice == \E d \in devices : Deny(d)
RevokeDevice == \E d \in devices : Revoke(d)

Phone ==
    \/ \E id \in 1..offers, key \in Keys : ConsumeOffer(id, key)
    \/ ConsumeTooLate

ClockSetBack ==
    /\ SetBack
    /\ call' = [s \in Surfaces |-> IF call[s] = NoCall THEN NoCall ELSE [call[s] EXCEPT !.back = TRUE]]
    /\ qr' = IF qr = NoQr THEN NoQr ELSE [qr EXCEPT !.back = TRUE]
    /\ UNCHANGED failures

ManageNext ==
    \/ \E s \in Surfaces : CreateStep(s)
    \/ /\ ApproveDevice \/ DenyDevice \/ RevokeDevice \/ ListDevices \/ Phone \/ Tick
       /\ UNCHANGED manageVars
    \/ ClockSetBack

ManageSpec == ManageInit /\ [][ManageNext]_allVars

-----------------------------------------------------------------------------
(* Properties                                                              *)

\* the QR of an offer that a phone can still use opens the relay's socket
QrWorks ==
    /\ qr.offer = offer.id /\ offer.status = "active" /\ now < offer.expires
    /\ qr.token # NoToken /\ ~qr.back
    => Accepts(qr.token)

(***************************************************************************)
(* What create_pairing_offer answered holds, although its transactions     *)
(* interleave with other surfaces, phones and the clock.  After            *)
(* qr_render_failed the offer's capability pairs nobody, unless its        *)
(* cancellation raised too, which the answer does not tell: then it pairs  *)
(* until it expires or is superseded (SpentNeverPairs).  Such a failure    *)
(* cancels no other surface's offer; and the token in a QR is good for as  *)
(* long as its offer, unless the clock was set back.                       *)
(***************************************************************************)
CreateIsAsAnswered ==
    [][/\ QrWorks
       /\ minted' # minted => offer.id \notin refused \ kept
       /\ offer.status = "active" /\ offer' = [offer EXCEPT !.status = "expired"]
             => now >= offer.expires \/ \E s \in Surfaces : call[s].at = "cancel"
                                                         /\ call[s].offer = offer.id]_allVars

=============================================================================
