---------------------------- MODULE Authorization ----------------------------
(***************************************************************************)
(* The pairing and authorization repository (authorization.py).  Every     *)
(* operation is one transaction: under the file lock of identity.py it     *)
(* loads the state, changes it and saves it atomically, or raises and      *)
(* leaves it as it was.  The operator's dashboard, the pairing connections *)
(* and admission call it in any order, from more than one process.         *)
(*                                                                         *)
(* Keys and capabilities are identities: an offer's capability is told     *)
(* apart by the offer's number, a digest of a key by the key.              *)
(***************************************************************************)
EXTENDS Naturals, FiniteSets

CONSTANTS
    Keys,        \* device public keys
    MaxRecords,  \* MAX_DEVICE_RECORDS
    MaxActive,   \* MAX_ACTIVE_DEVICES
    MaxDigests,  \* MAX_REVOKED_KEY_DIGESTS
    MaxAge,      \* MAX_TTL_SECONDS, the age at which a pending record is denied
    Ttls,        \* pairing TTLs the owner asks for
    MaxOffers,   \* bound: offers made
    MaxTime,     \* bound: the wall clock
    MaxBack      \* bound: how far the wall clock may be set back in one go

ASSUME AuthorizationAssumption ==
    /\ MaxRecords \in Nat \ {0} /\ MaxActive \in Nat \ {0} /\ MaxDigests \in Nat
    /\ MaxAge \in Nat \ {0} /\ Ttls \subseteq Nat \ {0}
    /\ MaxOffers \in Nat /\ MaxTime \in Nat /\ MaxBack \in Nat

VARIABLES
    devices,   \* state["devices"], a set of records told apart by id
    evidence,  \* state["revoked_key_digests"]
    offer,     \* state["pairing_offer"]
    now,       \* the wall clock
    offers,    \* offers made so far, and the number of the last one
    minted,    \* device ids given out so far
    banned,    \* keys of records that were ever revoked
    spent      \* offers that were consumed, cancelled, superseded or found expired

vars == <<devices, evidence, offer, now, offers, minted, banned, spent>>

Status == {"pending", "authorized", "revoked", "denied"}
Device == [id : Nat, key : Keys, status : Status, created : Nat, updated : Nat, epoch : Nat]
NoOffer == [id |-> 0, expires |-> 0, status |-> "expired"]
Offer == [id : Nat, expires : Nat, status : {"active", "expired", "consumed"}]

Init ==
    /\ devices = {} /\ evidence = {}
    /\ offer = NoOffer
    /\ now = 0 /\ offers = 0 /\ minted = 0
    /\ banned = {} /\ spent = {}

-----------------------------------------------------------------------------
(* Parts of the transactions                                               *)

\* the record of device d with a new status and epoch, updated now
Updated(d, status, epoch) ==
    [id |-> d.id, key |-> d.key, status |-> status, created |-> d.created, updated |-> now,
     epoch |-> epoch]

Moved(d, status) == Updated(d, status, d.epoch + 1)

\* Faulty: only records older than the limit are stale, not those that reach it
StaleLate(d) == d.status = "pending" /\ now > d.created + MaxAge

Stale(d) == d.status = "pending" /\ now >= d.created + MaxAge

\* _expire_pending_in_state: pending records that timed out are denied
Expired(devs) == {IF Stale(d) THEN Moved(d, "denied") ELSE d : d \in devs}

Active(devs) == {d \in devs : d.status \in {"pending", "authorized"}}

\* what _make_device_slot may remove: denied history, or a revoked key it can remember
Removable(devs, ev) ==
    {d \in devs : \/ d.status = "denied"
                  \/ d.status = "revoked" /\ (d.key \in ev \/ Cardinality(ev) < MaxDigests)}

\* denied history goes first, then the least recently updated
Before(d, e) ==
    \/ d.status = "denied" /\ e.status = "revoked"
    \/ d.status = e.status /\ d.updated <= e.updated

Victims(devs, ev) == {d \in Removable(devs, ev) : \A e \in Removable(devs, ev) : Before(d, e)}

\* the evidence once record d is gone
KeptEvidence(ev, d) == IF d.status = "revoked" THEN ev \cup {d.key} ELSE ev

(***************************************************************************)
(* _make_device_slot.  A saved state holds at most MaxRecords records, so  *)
(* the loop returns after the first removal.  Ties go by the random        *)
(* device id, hence either way.                                            *)
(***************************************************************************)
Slotted(devs, ev) ==
    IF Cardinality(devs) < MaxRecords \/ Victims(devs, ev) = {}
    THEN {[devices |-> devs, evidence |-> ev]}
    ELSE {[devices |-> devs \ {d}, evidence |-> KeptEvidence(ev, d)] : d \in Victims(devs, ev)}

\* _save_state_unlocked refuses a record that was updated before it was made
Savable(d) == d.updated >= d.created

Replace(devs, d, e) == (devs \ {d}) \cup {e}

\* Faulty: only the compact evidence is consulted
KnownRevokedEvidence(devs, ev, key) == key \in ev

\* consume_offer looks in the compact evidence and in the full records
KnownRevoked(devs, ev, key) ==
    key \in ev \/ \E d \in devs : d.status = "revoked" /\ d.key = key

-----------------------------------------------------------------------------
(* Offers                                                                  *)

\* a new offer supersedes an active one; none is made when the history is full
CreateOffer(ttl) ==
    /\ offers < MaxOffers
    /\ \E s \in Slotted(Expired(devices), evidence) :
          /\ Cardinality(s.devices) < MaxRecords
          /\ devices' = s.devices /\ evidence' = s.evidence
    /\ offers' = offers + 1
    /\ offer' = [id |-> offers + 1, expires |-> now + ttl, status |-> "active"]
    /\ spent' = spent \cup {offer.id}
    /\ UNCHANGED <<now, minted, banned>>

\* Faulty: whichever offer is active is cancelled
CancelOfferAny(id) ==
    /\ offer.status = "active"
    /\ offer' = [offer EXCEPT !.status = "expired"]
    /\ spent' = spent \cup {offer.id}
    /\ UNCHANGED <<devices, evidence, now, offers, minted, banned>>

CancelOffer(id) ==
    /\ offer.id = id /\ offer.status = "active"
    /\ offer' = [offer EXCEPT !.status = "expired"]
    /\ spent' = spent \cup {id}
    /\ UNCHANGED <<devices, evidence, now, offers, minted, banned>>

\* Faulty: a cancelled or consumed offer still pairs while its time has not run out
UsableUntilExpiry(cap) == offer.id = cap /\ now < offer.expires

Usable(cap) == offer.id = cap /\ offer.status = "active" /\ now < offer.expires

\* a phone with the capability of offer cap pairs with its key
ConsumeOffer(cap, key) ==
    /\ Usable(cap)
    /\ \E s \in Slotted(Expired(devices), evidence) :
          /\ Cardinality(Active(s.devices)) < MaxActive
          /\ Cardinality(s.devices) < MaxRecords
          /\ ~KnownRevoked(s.devices, s.evidence, key)
          /\ devices' = s.devices \cup
                {[id |-> minted + 1, key |-> key, status |-> "pending",
                  created |-> now, updated |-> now, epoch |-> 0]}
          /\ evidence' = s.evidence
    /\ minted' = minted + 1
    /\ offer' = [offer EXCEPT !.status = "consumed"]
    /\ spent' = spent \cup {cap}
    /\ UNCHANGED <<now, offers, banned>>

\* any rejected attempt, with whatever capability, retires an offer that ran out
ConsumeTooLate ==
    /\ offer.status = "active" /\ now >= offer.expires
    /\ offer' = [offer EXCEPT !.status = "expired"]
    /\ spent' = spent \cup {offer.id}
    /\ UNCHANGED <<devices, evidence, now, offers, minted, banned>>

-----------------------------------------------------------------------------
(* Devices                                                                 *)

\* list_devices and expire_pending
ListDevices ==
    /\ devices' = Expired(devices)
    /\ UNCHANGED <<evidence, offer, now, offers, minted, banned, spent>>

\* Faulty: an approval starts a new epoch
ApprovedNewEpoch(d) == Moved(d, "authorized")

Approved(d) == Updated(d, "authorized", d.epoch)

(***************************************************************************)
(* approve and approve_confirmed with the right digest or fingerprint: the *)
(* expiry is saved first, and only a record still pending is authorized.   *)
(* The transaction reads the clock for the expiry and again to date the    *)
(* record; the two readings are one here, and the first one decides.       *)
(***************************************************************************)
Approve(id) ==
    /\ \E d \in devices : d.id = id
    /\ devices' = {IF d.id = id /\ d.status = "pending" /\ Savable(Approved(d))
                   THEN Approved(d) ELSE d :
                      d \in Expired(devices)}
    /\ UNCHANGED <<evidence, offer, now, offers, minted, banned, spent>>

\* deny: the operator, or the connector when the pairing acknowledgement was not delivered
Deny(d) ==
    /\ d.status = "pending" /\ Savable(Moved(d, "denied"))
    /\ devices' = Replace(devices, d, Moved(d, "denied"))
    /\ UNCHANGED <<evidence, offer, now, offers, minted, banned, spent>>

Revoke(d) ==
    /\ d.status # "revoked" /\ Savable(Moved(d, "revoked"))
    /\ devices' = Replace(devices, d, Moved(d, "revoked"))
    /\ banned' = banned \cup {d.key}
    /\ UNCHANGED <<evidence, offer, now, offers, minted, spent>>

Tick ==
    /\ now < MaxTime /\ now' = now + 1
    /\ UNCHANGED <<devices, evidence, offer, offers, minted, banned, spent>>

\* the host's clock is corrected
SetBack ==
    /\ \E t \in 1..MaxBack : t <= now /\ now' = now - t
    /\ UNCHANGED <<devices, evidence, offer, offers, minted, banned, spent>>

Next ==
    \/ \E ttl \in Ttls : CreateOffer(ttl)
    \/ \E id \in 1..offers : CancelOffer(id) \/ \E key \in Keys : ConsumeOffer(id, key)
    \/ ConsumeTooLate \/ ListDevices
    \/ \E id \in 1..minted : Approve(id)
    \/ \E d \in devices : Deny(d) \/ Revoke(d)
    \/ Tick \/ SetBack

Spec == Init /\ [][Next]_vars

-----------------------------------------------------------------------------
(* Properties                                                              *)

(***************************************************************************)
(* Types, and the limits _validate_auth_state enforces on every load and   *)
(* save: a state over one of them would lock the owner out for good.       *)
(***************************************************************************)
TypeOK ==
    /\ devices \subseteq Device /\ evidence \subseteq Keys
    /\ IsFiniteSet(devices) /\ IsFiniteSet(evidence)
    /\ Cardinality(devices) <= MaxRecords
    /\ Cardinality(Active(devices)) <= MaxActive
    /\ Cardinality(evidence) <= MaxDigests
    /\ offer \in Offer
    /\ now \in Nat /\ offers \in Nat /\ minted \in Nat
    /\ banned \subseteq Keys /\ spent \subseteq Nat

(***************************************************************************)
(* Compaction does not forget: every key that was ever revoked is still    *)
(* found by consume_offer (_make_device_slot, docs/REVOCATION_HISTORY.md). *)
(***************************************************************************)
BannedIsRemembered == \A key \in banned : KnownRevoked(devices, evidence, key)

(***************************************************************************)
(* A revoked key never gets a new device record (consume_offer), over      *)
(* compaction, expiry and any number of offers.                            *)
(***************************************************************************)
BannedNeverPairs ==
    [][\A d \in devices' : (\A e \in devices : e.id # d.id) => d.key \notin banned]_vars

(***************************************************************************)
(* A capability pairs one device, and none once its offer was superseded,  *)
(* cancelled, found expired or consumed (create_offer, cancel_offer,       *)
(* consume_offer).                                                         *)
(***************************************************************************)
SpentNeverPairs == [][minted' # minted => offer.id \notin spent]_vars

(***************************************************************************)
(* A device is authorized within MaxAge of its pairing or never: a stale   *)
(* row of the dashboard cannot be approved (approve, approve_confirmed).   *)
(***************************************************************************)
StaleNeverApproved ==
    [][\A d \in devices, e \in devices' :
          d.id = e.id /\ d.status = "pending" /\ e.status = "authorized"
             => now < d.created + MaxAge]_vars

(***************************************************************************)
(* The epoch of an authorized device never changes: it is authorized with  *)
(* the epoch it paired with, and only leaves that status for good          *)
(* (approve, deny, revoke).  Admission compares epochs to find leases that *)
(* outlived an authorization.                                              *)
(***************************************************************************)
EpochMeansRevoked ==
    /\ \A d \in devices : d.status \in {"pending", "authorized"} <=> d.epoch = 0
    /\ \A d, e \in devices : d.id = e.id => d = e

(***************************************************************************)
(* What makes the properties above inductive, for any device list devs and *)
(* evidence ev of a transaction under way: ids are unique and were given   *)
(* out, an active record has epoch 0, and every banned key is known.       *)
(***************************************************************************)
DevicesOK(devs) ==
    /\ devs \subseteq Device
    /\ \A d \in devs : d.id <= minted /\ (d.status \in {"pending", "authorized"} <=> d.epoch = 0)
    /\ \A d, e \in devs : d.id = e.id => d = e

Remembers(devs, ev) == \A key \in banned : KnownRevoked(devs, ev, key)

OffersOK ==
    /\ offer.id <= offers /\ \A o \in spent : o <= offers
    /\ offer.status = "active" => offer.id > 0 /\ offer.id \notin spent

AuthInv == TypeOK /\ DevicesOK(devices) /\ Remembers(devices, evidence) /\ OffersOK

=============================================================================
