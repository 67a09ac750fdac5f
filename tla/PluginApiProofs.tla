--------------------------- MODULE PluginApiProofs ---------------------------
(***************************************************************************)
(* Proofs about the plugin's process in Hermes: the authorization          *)
(* repository, the dashboards' routes over it, and the plugin's lifespan   *)
(* with its journal, counters and update check; for any constants.         *)
(*                                                                         *)
(* The inductive invariant AuthInv is stated for a device list and         *)
(* evidence of a transaction under way, so that expiry and compaction,     *)
(* which several transactions share, are dealt with once.  LifespanInv     *)
(* has one conjunct for each part, kept by the steps of that part alone.   *)
(***************************************************************************)
EXTENDS Management, Lifespan, FiniteSetTheorems, TLAPS

\* the image of a finite set is no larger than the set
LEMMA ImageBound ==
    ASSUME NEW S, IsFiniteSet(S), NEW T, NEW f \in [S -> T],
           \A y \in T : \E x \in S : f[x] = y
    PROVE  IsFiniteSet(T) /\ Cardinality(T) <= Cardinality(S)
<1>1. f \in Surjection(S, T)
  BY DEF Surjection
<1> QED
  BY <1>1, FS_Surjection

\* an update record by record keeps the number of records and of active ones in their limits
LEMMA MapBound ==
    ASSUME NEW D, IsFiniteSet(D), NEW E, NEW f \in [D -> E],
           \A y \in E : \E x \in D : f[x] = y,
           \A x \in D : f[x] \in Active(E) => x \in Active(D)
    PROVE  /\ IsFiniteSet(E) /\ Cardinality(E) <= Cardinality(D)
           /\ IsFiniteSet(Active(E)) /\ Cardinality(Active(E)) <= Cardinality(Active(D))
<1> DEFINE A == {x \in D : f[x] \in Active(E)}
           g == [x \in A |-> f[x]]
<1>1. IsFiniteSet(E) /\ Cardinality(E) <= Cardinality(D)
  BY ImageBound
<1>2. A \in SUBSET Active(D) /\ Active(D) \in SUBSET D
  BY DEF Active
<1>3. IsFiniteSet(Active(D)) /\ Cardinality(Active(D)) \in Nat
  BY <1>2, FS_Subset, FS_CardinalityType
<1>4. IsFiniteSet(A) /\ Cardinality(A) \in Nat /\ Cardinality(A) <= Cardinality(Active(D))
  BY <1>2, <1>3, FS_Subset, FS_CardinalityType
<1>5. g \in [A -> Active(E)] /\ \A y \in Active(E) : \E x \in A : g[x] = y
  BY DEF Active
<1>6. IsFiniteSet(Active(E)) /\ Cardinality(Active(E)) <= Cardinality(A)
  BY <1>4, <1>5, ImageBound
<1>7. Cardinality(Active(E)) \in Nat
  BY <1>6, FS_CardinalityType
<1> QED
  BY <1>1, <1>3, <1>4, <1>6, <1>7

-----------------------------------------------------------------------------
(* The device list and evidence of a transaction under way                 *)

Limits(devs, ev) ==
    /\ IsFiniteSet(devs) /\ IsFiniteSet(ev)
    /\ Cardinality(devs) <= MaxRecords /\ Cardinality(Active(devs)) <= MaxActive
    /\ Cardinality(ev) <= MaxDigests

Good(devs, ev) == DevicesOK(devs) /\ ev \subseteq Keys /\ Remembers(devs, ev) /\ Limits(devs, ev)

Scalars == now \in Nat /\ minted \in Nat /\ banned \subseteq Keys

LEMMA MovedFields ==
    ASSUME now \in Nat, NEW d \in Device, NEW status \in {"denied", "revoked"}
    PROVE  /\ Moved(d, status) \in Device
           /\ Moved(d, status).id = d.id /\ Moved(d, status).key = d.key
           /\ Moved(d, status).status = status
           /\ Moved(d, status).epoch = d.epoch + 1 /\ Moved(d, status).epoch # 0
  BY DEF Moved, Updated, Device, Status

LEMMA ExpiredGood ==
    ASSUME Scalars, NEW devs, NEW ev, Good(devs, ev)
    PROVE  /\ Good(Expired(devs), ev)
           /\ \A d \in Expired(devs) : \E e \in devs : e.id = d.id
<1> USE AuthorizationAssumption
<1> DEFINE f == [d \in devs |-> IF Stale(d) THEN Moved(d, "denied") ELSE d]
<1>1. f \in [devs -> Expired(devs)] /\ \A y \in Expired(devs) : \E x \in devs : f[x] = y
  BY DEF Expired
<1>2. \A x \in devs : /\ f[x] \in Device /\ f[x].id = x.id /\ f[x].key = x.key
                      /\ x.status = "revoked" => f[x] = x
                      /\ f[x].status \in {"pending", "authorized"} => f[x] = x
                      /\ f[x].status \in {"pending", "authorized"} <=> f[x].epoch = 0
  <2> SUFFICES ASSUME NEW x \in devs
               PROVE  /\ f[x] \in Device /\ f[x].id = x.id /\ f[x].key = x.key
                      /\ x.status = "revoked" => f[x] = x
                      /\ f[x].status \in {"pending", "authorized"} => f[x] = x
                      /\ f[x].status \in {"pending", "authorized"} <=> f[x].epoch = 0
    OBVIOUS
  <2>1. x \in Device /\ (x.status \in {"pending", "authorized"} <=> x.epoch = 0)
    BY DEF Good, DevicesOK
  <2>2. CASE ~Stale(x)
    BY <2>1, <2>2
  <2>3. CASE Stale(x)
    BY <2>1, <2>3, MovedFields DEF Stale, Scalars
  <2> QED
    BY <2>2, <2>3
<1>3. DevicesOK(Expired(devs))
  BY <1>1, <1>2 DEF Good, DevicesOK
<1>4. Remembers(Expired(devs), ev)
  BY <1>1, <1>2 DEF Good, Remembers, KnownRevoked, DevicesOK
<1>5. \A x \in devs : f[x] \in Active(Expired(devs)) => x \in Active(devs)
  BY <1>2 DEF Active
<1>6. /\ IsFiniteSet(Expired(devs)) /\ Cardinality(Expired(devs)) <= Cardinality(devs)
      /\ IsFiniteSet(Active(Expired(devs)))
      /\ Cardinality(Active(Expired(devs))) <= Cardinality(Active(devs))
  <2>1. IsFiniteSet(devs)
    BY DEF Good, Limits
  <2> HIDE DEF f
  <2> QED
    BY <1>1, <1>5, <2>1, MapBound
<1>7. Active(devs) \in SUBSET devs
  BY DEF Active
<1>8. /\ Cardinality(Expired(devs)) \in Nat /\ Cardinality(devs) \in Nat
      /\ Cardinality(Active(Expired(devs))) \in Nat /\ Cardinality(Active(devs)) \in Nat
  BY <1>6, <1>7, FS_CardinalityType, FS_Subset DEF Good, Limits
<1>9. Limits(Expired(devs), ev)
  BY <1>6, <1>8 DEF Good, Limits
<1> QED
  BY <1>1, <1>2, <1>3, <1>4, <1>9 DEF Good

LEMMA SlottedGood ==
    ASSUME Scalars, NEW devs, NEW ev, Good(devs, ev), NEW s \in Slotted(devs, ev)
    PROVE  Good(s.devices, s.evidence) /\ s.devices \subseteq devs
<1> USE AuthorizationAssumption
<1>1. CASE s = [devices |-> devs, evidence |-> ev]
  BY <1>1
<1>2. CASE \E d \in Victims(devs, ev) :
             s = [devices |-> devs \ {d}, evidence |-> KeptEvidence(ev, d)]
  <2>1. PICK d \in Victims(devs, ev) :
               s.devices = devs \ {d} /\ s.evidence = KeptEvidence(ev, d)
    BY <1>2
  <2>2. d \in devs /\ d \in Removable(devs, ev)
    BY DEF Victims, Removable
  <2>3. DevicesOK(s.devices) /\ s.evidence \subseteq Keys
    BY <2>1, <2>2 DEF Good, DevicesOK, KeptEvidence, Device
  <2>4. Remembers(s.devices, s.evidence)
    BY <2>1, <2>2 DEF Good, Remembers, KnownRevoked, KeptEvidence
  <2>5. Active(devs) \in SUBSET devs /\ Active(s.devices) \in SUBSET Active(devs)
    BY <2>1 DEF Active
  <2>6. IsFiniteSet(Active(devs)) /\ IsFiniteSet(devs) /\ IsFiniteSet(ev)
    BY <2>5, FS_Subset DEF Good, Limits
  <2>7. /\ Cardinality(devs) \in Nat /\ Cardinality(Active(devs)) \in Nat
        /\ Cardinality(ev) \in Nat
    BY <2>6, FS_CardinalityType
  <2>8. IsFiniteSet(s.devices) /\ Cardinality(s.devices) <= Cardinality(devs)
    BY <2>1, <2>6, <2>7, FS_RemoveElement
  <2>9. /\ IsFiniteSet(Active(s.devices))
        /\ Cardinality(Active(s.devices)) <= Cardinality(Active(devs))
    BY <2>5, <2>6, FS_Subset
  <2>10. IsFiniteSet(s.evidence) /\ Cardinality(s.evidence) <= MaxDigests
    <3>1. IsFiniteSet(ev \cup {d.key})
          /\ Cardinality(ev \cup {d.key}) =
                IF d.key \in ev THEN Cardinality(ev) ELSE Cardinality(ev) + 1
      BY <2>6, FS_AddElement
    <3>2. Cardinality(ev) <= MaxDigests
      BY DEF Good, Limits
    <3>3. d.status = "revoked" => d.key \in ev \/ Cardinality(ev) < MaxDigests
      BY <2>2 DEF Removable
    <3> QED
      BY <2>1, <2>6, <2>7, <3>1, <3>2, <3>3 DEF KeptEvidence
  <2>11. Cardinality(s.devices) \in Nat /\ Cardinality(Active(s.devices)) \in Nat
    BY <2>8, <2>9, FS_CardinalityType
  <2>12. Limits(s.devices, s.evidence)
    BY <2>7, <2>8, <2>9, <2>10, <2>11 DEF Good, Limits
  <2> QED
    BY <2>1, <2>3, <2>4, <2>12 DEF Good
<1> QED
  BY <1>1, <1>2 DEF Slotted

LEMMA CreateGood ==
    ASSUME AuthInv, NEW s \in Slotted(Expired(devices), evidence)
    PROVE  /\ Good(s.devices, s.evidence)
           /\ \A d \in s.devices : \E e \in devices : e.id = d.id
<1>1. Scalars /\ Good(devices, evidence)
  BY DEF AuthInv, TypeOK, Scalars, Good, Limits
<1>2. /\ Good(Expired(devices), evidence)
      /\ \A d \in Expired(devices) : \E e \in devices : e.id = d.id
  BY <1>1, ExpiredGood
<1> QED
  BY <1>1, <1>2, SlottedGood

\* replacing a record by its denied or revoked form
LEMMA ReplacedGood ==
    ASSUME AuthInv, NEW d \in devices, NEW status \in {"denied", "revoked"},
           d.status # "revoked"
    PROVE  LET new == Replace(devices, d, Moved(d, status))
           IN  /\ DevicesOK(new) /\ Remembers(new, evidence) /\ Limits(new, evidence)
               /\ status = "revoked" => KnownRevoked(new, evidence, d.key)
<1> USE AuthorizationAssumption
<1> DEFINE m == Moved(d, status)
           new == Replace(devices, d, m)
           f == [x \in devices |-> IF x = d THEN m ELSE x]
<1>1. Good(devices, evidence) /\ now \in Nat /\ d \in Device
  BY DEF AuthInv, TypeOK, Good, Limits
<1>2. /\ m \in Device /\ m.id = d.id /\ m.key = d.key /\ m.status = status
      /\ m.epoch # 0
  BY <1>1, MovedFields
<1> HIDE DEF m
<1>3. DevicesOK(new)
  BY <1>1, <1>2 DEF Good, DevicesOK, Replace
<1>4. Remembers(new, evidence) /\ (status = "revoked" => KnownRevoked(new, evidence, d.key))
  BY <1>1, <1>2 DEF Good, Remembers, KnownRevoked, Replace
<1>5. f \in [devices -> new] /\ \A y \in new : \E x \in devices : f[x] = y
  BY DEF Replace
<1>6. \A x \in devices : f[x] \in Active(new) => x \in Active(devices)
  BY <1>2 DEF Active
<1>7. Active(devices) \in SUBSET devices /\ IsFiniteSet(devices)
  BY <1>1 DEF Active, Good, Limits
<1>8. /\ IsFiniteSet(new) /\ Cardinality(new) <= Cardinality(devices)
      /\ IsFiniteSet(Active(new)) /\ Cardinality(Active(new)) <= Cardinality(Active(devices))
  <2> HIDE DEF f, new
  <2> QED
    BY <1>5, <1>6, <1>7, MapBound
<1>9. /\ Cardinality(new) \in Nat /\ Cardinality(devices) \in Nat
      /\ Cardinality(Active(new)) \in Nat /\ Cardinality(Active(devices)) \in Nat
  BY <1>7, <1>8, FS_CardinalityType, FS_Subset
<1>10. Limits(new, evidence)
  BY <1>1, <1>8, <1>9 DEF Good, Limits
<1> QED
  BY <1>3, <1>4, <1>10 DEF m

\* the device list after an approval
LEMMA ApprovedGood ==
    ASSUME AuthInv, NEW id
    PROVE  LET new == {IF d.id = id /\ d.status = "pending" /\ Savable(Approved(d))
                       THEN Approved(d) ELSE d : d \in Expired(devices)}
           IN  DevicesOK(new) /\ Remembers(new, evidence) /\ Limits(new, evidence)
<1> USE AuthorizationAssumption
<1> DEFINE devs == Expired(devices)
           f == [d \in devs |-> IF d.id = id /\ d.status = "pending" /\ Savable(Approved(d))
                                THEN Approved(d) ELSE d]
           new == {IF d.id = id /\ d.status = "pending" /\ Savable(Approved(d))
                   THEN Approved(d) ELSE d : d \in devs}
<1>1. Scalars /\ Good(devs, evidence)
  <2>1. Scalars /\ Good(devices, evidence)
    BY DEF AuthInv, TypeOK, Scalars, Good, Limits
  <2> QED
    BY <2>1, ExpiredGood
<1> HIDE DEF devs
<1>2. f \in [devs -> new] /\ \A y \in new : \E x \in devs : f[x] = y
  OBVIOUS
<1>3. \A x \in devs :
         /\ f[x] \in Device /\ f[x].id = x.id /\ f[x].key = x.key /\ f[x].epoch = x.epoch
         /\ x.status = "revoked" => f[x] = x
         /\ f[x].status \in {"pending", "authorized"} <=> x.status \in {"pending", "authorized"}
  BY <1>1 DEF Good, DevicesOK, Scalars, Approved, Updated, Device, Status
<1>4. DevicesOK(new)
  BY <1>1, <1>2, <1>3 DEF Good, DevicesOK
<1>5. Remembers(new, evidence)
  BY <1>1, <1>2, <1>3 DEF Good, DevicesOK, Remembers, KnownRevoked
<1>6. \A x \in devs : f[x] \in Active(new) => x \in Active(devs)
  BY <1>3 DEF Active
<1>7. Active(devs) \in SUBSET devs /\ IsFiniteSet(devs)
  BY <1>1 DEF Active, Good, Limits
<1>8. /\ IsFiniteSet(new) /\ Cardinality(new) <= Cardinality(devs)
      /\ IsFiniteSet(Active(new)) /\ Cardinality(Active(new)) <= Cardinality(Active(devs))
  <2> HIDE DEF f, new
  <2> QED
    BY <1>2, <1>6, <1>7, MapBound
<1>9. /\ Cardinality(new) \in Nat /\ Cardinality(devs) \in Nat
      /\ Cardinality(Active(new)) \in Nat /\ Cardinality(Active(devs)) \in Nat
  BY <1>7, <1>8, FS_CardinalityType, FS_Subset
<1>10. Limits(new, evidence)
  BY <1>1, <1>8, <1>9 DEF Good, Limits
<1> QED
  BY <1>4, <1>5, <1>10 DEF devs

\* a new device record
LEMMA PairedGood ==
    ASSUME Scalars, NEW devs, NEW ev, Good(devs, ev), NEW new \in Device,
           new.id = minted + 1, new.status = "pending", new.epoch = 0,
           Cardinality(devs) < MaxRecords, Cardinality(Active(devs)) < MaxActive
    PROVE  /\ \A d, e \in devs \cup {new} : d.id = e.id => d = e
           /\ devs \cup {new} \subseteq Device
           /\ \A d \in devs \cup {new} :
                 /\ d.id <= minted + 1
                 /\ d.status \in {"pending", "authorized"} <=> d.epoch = 0
           /\ Remembers(devs \cup {new}, ev) /\ Limits(devs \cup {new}, ev)
<1> USE AuthorizationAssumption
<1>1. /\ \A d \in devs : d \in Device /\ d.id \in Nat /\ d.id <= minted
                         /\ (d.status \in {"pending", "authorized"} <=> d.epoch = 0)
      /\ \A d, e \in devs : d.id = e.id => d = e
  BY DEF Good, DevicesOK, Device
<1>2. Remembers(devs \cup {new}, ev)
  BY DEF Good, Remembers, KnownRevoked
<1>3. Active(devs) \in SUBSET devs /\ IsFiniteSet(devs)
  BY DEF Active, Good, Limits
<1>4. Active(devs \cup {new}) = Active(devs) \cup {new}
  BY DEF Active
<1>5. /\ IsFiniteSet(devs \cup {new}) /\ Cardinality(devs \cup {new}) <= Cardinality(devs) + 1
      /\ Cardinality(devs) \in Nat
  <2>1. Cardinality(devs) \in Nat
    BY <1>3, FS_CardinalityType
  <2>2. /\ IsFiniteSet(devs \cup {new})
        /\ Cardinality(devs \cup {new}) =
              IF new \in devs THEN Cardinality(devs) ELSE Cardinality(devs) + 1
    BY <1>3, FS_AddElement
  <2> QED
    BY <2>1, <2>2
<1>6. /\ Cardinality(Active(devs) \cup {new}) <= Cardinality(Active(devs)) + 1
      /\ Cardinality(Active(devs)) \in Nat /\ IsFiniteSet(Active(devs) \cup {new})
  <2>1. IsFiniteSet(Active(devs))
    BY <1>3, FS_Subset
  <2>2. Cardinality(Active(devs)) \in Nat
    BY <2>1, FS_CardinalityType
  <2>3. /\ IsFiniteSet(Active(devs) \cup {new})
        /\ Cardinality(Active(devs) \cup {new}) =
              IF new \in Active(devs) THEN Cardinality(Active(devs))
              ELSE Cardinality(Active(devs)) + 1
    BY <2>1, FS_AddElement
  <2> QED
    BY <2>2, <2>3
<1>7. Cardinality(devs \cup {new}) \in Nat /\ Cardinality(Active(devs) \cup {new}) \in Nat
  BY <1>5, <1>6, FS_CardinalityType
<1>8. Limits(devs \cup {new}, ev)
  <2>1. Cardinality(devs \cup {new}) <= MaxRecords
    BY <1>5, <1>7
  <2>2. Cardinality(Active(devs) \cup {new}) <= MaxActive
    BY <1>6, <1>7
  <2> QED
    BY <1>4, <1>5, <2>1, <2>2 DEF Good, Limits
<1>9. minted \in Nat /\ \A d \in devs : d.id # new.id
  BY <1>1 DEF Scalars
<1>10. \A d, e \in devs \cup {new} : d.id = e.id => d = e
  BY <1>1, <1>9
<1>11. ASSUME NEW d \in devs \cup {new}
       PROVE  /\ d \in Device /\ d.id <= minted + 1
              /\ d.status \in {"pending", "authorized"} <=> d.epoch = 0
  <2>1. CASE d = new
    BY <1>9, <2>1
  <2>2. CASE d \in devs
    BY <1>1, <1>9, <2>2
  <2> QED
    BY <2>1, <2>2
<1> QED
  BY <1>2, <1>8, <1>10, <1>11

-----------------------------------------------------------------------------
(* The inductive invariant                                                 *)

LEMMA AuthInit == Init => AuthInv
<1> SUFFICES ASSUME Init PROVE AuthInv
  OBVIOUS
<1>1. Active({}) = {}
  BY DEF Active
<1>2. TypeOK
  BY <1>1, FS_EmptySet, AuthorizationAssumption DEF Init, TypeOK, NoOffer, Offer
<1> QED
  BY <1>2 DEF Init, AuthInv, DevicesOK, Remembers, OffersOK, NoOffer

LEMMA AuthStep == AuthInv /\ [Next]_vars => AuthInv'
<1> SUFFICES ASSUME AuthInv, [Next]_vars PROVE AuthInv'
  OBVIOUS
<1> USE AuthorizationAssumption
<1>0. Scalars /\ Good(devices, evidence) /\ offer \in Offer /\ offers \in Nat /\ spent \subseteq Nat
  BY DEF AuthInv, TypeOK, Scalars, Good, Limits
<1>1. ASSUME NEW ttl \in Ttls, CreateOffer(ttl) PROVE AuthInv'
  <2>1. PICK s \in Slotted(Expired(devices), evidence) :
           devices' = s.devices /\ evidence' = s.evidence
    BY <1>1 DEF CreateOffer
  <2>2. Good(devices', evidence')
    BY <2>1, CreateGood
  <2>3. minted' = minted /\ banned' = banned /\ now' = now /\ offers' = offers + 1
    BY <1>1 DEF CreateOffer
  <2>4. DevicesOK(devices)' /\ Remembers(devices, evidence)'
    BY <2>2, <2>3 DEF Good, DevicesOK, Remembers, KnownRevoked
  <2>5. offer' \in Offer /\ spent' \subseteq Nat /\ OffersOK'
    <3>1. /\ offer' = [id |-> offers + 1, expires |-> now + ttl, status |-> "active"]
          /\ spent' = spent \cup {offer.id}
      BY <1>1 DEF CreateOffer
    <3>2. offer.id \in Nat /\ offer.id <= offers /\ \A o \in spent : o \in Nat /\ o <= offers
      BY <1>0 DEF AuthInv, OffersOK, Offer
    <3>3. offer' \in Offer /\ offer'.id = offers + 1 /\ spent' \subseteq Nat
      <4>1. ttl \in Nat /\ now + ttl \in Nat /\ offers + 1 \in Nat
        BY <1>0 DEF Scalars
      <4> QED
        BY <1>0, <3>1, <3>2, <4>1 DEF Offer
    <3>4. \A o \in spent' : o <= offers /\ o <= offers' /\ o # offer'.id
      BY <1>0, <2>3, <3>1, <3>2, <3>3
    <3> QED
      BY <1>0, <2>3, <3>3, <3>4 DEF OffersOK
  <2>6. TypeOK'
    BY <1>0, <2>2, <2>3, <2>5 DEF TypeOK, Good, DevicesOK, Limits, Active, Scalars
  <2> QED
    BY <2>4, <2>5, <2>6 DEF AuthInv
<1>2. ASSUME NEW id, CancelOffer(id) PROVE AuthInv'
  <2>1. UNCHANGED <<devices, evidence, now, offers, minted, banned>>
    BY <1>2 DEF CancelOffer
  <2>2. offer' \in Offer /\ spent' \subseteq Nat /\ OffersOK'
    BY <1>0, <1>2 DEF CancelOffer, AuthInv, OffersOK, Offer
  <2> QED
    BY <1>0, <2>1, <2>2 DEF AuthInv, TypeOK, DevicesOK, Remembers, KnownRevoked, Active
<1>3. ASSUME NEW cap, NEW key \in Keys, ConsumeOffer(cap, key) PROVE AuthInv'
  <2> DEFINE new == [id |-> minted + 1, key |-> key, status |-> "pending",
                     created |-> now, updated |-> now, epoch |-> 0]
  <2>1. PICK s \in Slotted(Expired(devices), evidence) :
           /\ Cardinality(Active(s.devices)) < MaxActive
           /\ Cardinality(s.devices) < MaxRecords
           /\ devices' = s.devices \cup {new} /\ evidence' = s.evidence
    BY <1>3 DEF ConsumeOffer
  <2>2. Good(s.devices, s.evidence)
    BY CreateGood
  <2>3. /\ new \in Device /\ new.id = minted + 1 /\ new.status = "pending" /\ new.epoch = 0
    BY <1>0 DEF Device, Status, Scalars
  <2> HIDE DEF new
  <2>4. /\ \A d, e \in devices' : d.id = e.id => d = e
        /\ devices' \subseteq Device
        /\ \A d \in devices' : /\ d.id <= minted + 1
                               /\ d.status \in {"pending", "authorized"} <=> d.epoch = 0
        /\ Remembers(devices', evidence') /\ Limits(devices', evidence')
    <3> DEFINE devs == s.devices
               more == devs \cup {new}
    <3>1. Good(devs, s.evidence) /\ Cardinality(Active(devs)) < MaxActive
          /\ Cardinality(devs) < MaxRecords
      BY <2>1, <2>2
    <3> HIDE DEF devs
    <3>2. /\ \A d, e \in more : d.id = e.id => d = e
          /\ more \subseteq Device
          /\ \A d \in more : /\ d.id <= minted + 1
                             /\ d.status \in {"pending", "authorized"} <=> d.epoch = 0
          /\ Remembers(more, s.evidence) /\ Limits(more, s.evidence)
      BY <1>0, <2>3, <3>1, PairedGood
    <3>3. devices' = more /\ evidence' = s.evidence
      BY <2>1 DEF devs
    <3> HIDE DEF more
    <3> QED
      BY <3>2, <3>3
  <2>5. minted' = minted + 1 /\ banned' = banned /\ now' = now /\ offers' = offers
    BY <1>3 DEF ConsumeOffer
  <2>6. DevicesOK(devices)' /\ Remembers(devices, evidence)'
    BY <2>4, <2>5 DEF DevicesOK, Remembers, KnownRevoked
  <2>7. offer' \in Offer /\ spent' \subseteq Nat /\ OffersOK'
    BY <1>0, <1>3 DEF ConsumeOffer, Usable, AuthInv, OffersOK, Offer
  <2>8. evidence' \subseteq Keys
    BY <2>1, <2>2 DEF Good
  <2>9. TypeOK'
    BY <1>0, <2>4, <2>5, <2>7, <2>8 DEF TypeOK, Limits, Active, Scalars
  <2> QED
    BY <2>6, <2>7, <2>9 DEF AuthInv
<1>4. ASSUME ConsumeTooLate PROVE AuthInv'
  <2>1. UNCHANGED <<devices, evidence, now, offers, minted, banned>>
    BY <1>4 DEF ConsumeTooLate
  <2>2. offer' \in Offer /\ spent' \subseteq Nat /\ OffersOK'
    BY <1>0, <1>4 DEF ConsumeTooLate, AuthInv, OffersOK, Offer
  <2> QED
    BY <1>0, <2>1, <2>2 DEF AuthInv, TypeOK, DevicesOK, Remembers, KnownRevoked, Active
<1>5. ASSUME ListDevices PROVE AuthInv'
  <2>1. devices' = Expired(devices) /\ UNCHANGED <<evidence, offer, now, offers, minted, banned, spent>>
    BY <1>5 DEF ListDevices
  <2>2. Good(devices', evidence)
    BY <1>0, <2>1, ExpiredGood
  <2> QED
    BY <1>0, <2>1, <2>2
    DEF AuthInv, TypeOK, DevicesOK, Remembers, KnownRevoked, Active, Good, Limits, OffersOK, Scalars
<1>6. ASSUME NEW id, Approve(id) PROVE AuthInv'
  <2>1. UNCHANGED <<evidence, offer, now, offers, minted, banned, spent>>
    BY <1>6 DEF Approve
  <2>2. DevicesOK(devices') /\ Remembers(devices', evidence) /\ Limits(devices', evidence)
    BY <1>6, ApprovedGood DEF Approve
  <2> QED
    BY <1>0, <2>1, <2>2
    DEF AuthInv, TypeOK, DevicesOK, Remembers, KnownRevoked, Active, Good, Limits, OffersOK, Scalars
<1>7. ASSUME NEW d \in devices, Deny(d) PROVE AuthInv'
  <2>1. UNCHANGED <<evidence, offer, now, offers, minted, banned, spent>>
    BY <1>7 DEF Deny
  <2>2. DevicesOK(devices') /\ Remembers(devices', evidence) /\ Limits(devices', evidence)
    BY <1>7, ReplacedGood DEF Deny
  <2> QED
    BY <1>0, <2>1, <2>2
    DEF AuthInv, TypeOK, DevicesOK, Remembers, KnownRevoked, Active, Good, Limits, OffersOK, Scalars
<1>8. ASSUME NEW d \in devices, Revoke(d) PROVE AuthInv'
  <2>1. /\ UNCHANGED <<evidence, offer, now, offers, minted, spent>>
        /\ banned' = banned \cup {d.key}
    BY <1>8 DEF Revoke
  <2>2. /\ DevicesOK(devices') /\ Remembers(devices', evidence) /\ Limits(devices', evidence)
        /\ KnownRevoked(devices', evidence, d.key)
    BY <1>8, ReplacedGood DEF Revoke
  <2>3. Remembers(devices, evidence)'
    BY <2>1, <2>2 DEF Remembers, KnownRevoked
  <2>4. d.key \in Keys
    BY <1>0 DEF Good, DevicesOK, Device
  <2> QED
    BY <1>0, <2>1, <2>2, <2>3, <2>4
    DEF AuthInv, TypeOK, DevicesOK, Active, Good, Limits, OffersOK, Scalars
<1>9. ASSUME Tick \/ SetBack \/ UNCHANGED vars PROVE AuthInv'
  <2>1. UNCHANGED <<devices, evidence, offer, offers, minted, banned, spent>>
    BY <1>9 DEF Tick, SetBack, vars
  <2>2. now' \in Nat
    BY <1>0, <1>9 DEF Tick, SetBack, vars, Scalars
  <2> QED
    BY <1>0, <2>1, <2>2 DEF AuthInv, TypeOK, DevicesOK, Remembers, KnownRevoked, Active, OffersOK
<1> QED
  BY <1>1, <1>2, <1>3, <1>4, <1>5, <1>6, <1>7, <1>8, <1>9 DEF Next

-----------------------------------------------------------------------------
(* Theorems                                                                *)

LEMMA AuthInvariant == Spec => []AuthInv
<1> QED
  BY AuthInit, AuthStep, PTL DEF Spec

(***************************************************************************)
(* The stored state never exceeds the limits _validate_auth_state enforces *)
(* on load and save, whatever the limits are: no sequence of transactions  *)
(* produces a state the repository would then refuse to read.              *)
(***************************************************************************)
THEOREM StateStaysValid == Spec => []TypeOK
<1>1. AuthInv => TypeOK
  BY DEF AuthInv
<1> QED
  BY <1>1, AuthInvariant, PTL

(***************************************************************************)
(* Every key that was ever revoked is found by consume_offer, in the full  *)
(* records or in the compact evidence (_make_device_slot).                 *)
(***************************************************************************)
THEOREM BannedIsRememberedHolds == Spec => []BannedIsRemembered
<1>1. AuthInv => BannedIsRemembered
  BY DEF AuthInv, Remembers, BannedIsRemembered
<1> QED
  BY <1>1, AuthInvariant, PTL

(***************************************************************************)
(* Active records have epoch 0 and ids are unique: the epoch of a device   *)
(* changes only when its authorization ends (approve, deny, revoke).       *)
(***************************************************************************)
THEOREM EpochMeansRevokedHolds == Spec => []EpochMeansRevoked
<1>1. AuthInv => EpochMeansRevoked
  BY DEF AuthInv, DevicesOK, EpochMeansRevoked
<1> QED
  BY <1>1, AuthInvariant, PTL

\* only consume_offer makes a record, and for a key that was never revoked
LEMMA NewRecordsAreFree ==
    ASSUME AuthInv, [Next]_vars, NEW d \in devices', \A e \in devices : e.id # d.id
    PROVE  d.key \notin banned
<1>0. Scalars /\ Good(devices, evidence)
  BY DEF AuthInv, TypeOK, Scalars, Good, Limits
<1>1. \A x \in Expired(devices) : \E e \in devices : e.id = x.id
  BY <1>0, ExpiredGood
<1>2. ASSUME NEW ttl \in Ttls, CreateOffer(ttl) PROVE FALSE
  <2>1. PICK s \in Slotted(Expired(devices), evidence) : devices' = s.devices
    BY <1>2 DEF CreateOffer
  <2> QED
    BY <2>1, CreateGood
<1>3. ASSUME NEW cap, NEW key \in Keys, ConsumeOffer(cap, key) PROVE d.key \notin banned
  <2>1. PICK s \in Slotted(Expired(devices), evidence) :
           /\ ~KnownRevoked(s.devices, s.evidence, key)
           /\ devices' = s.devices \cup
                 {[id |-> minted + 1, key |-> key, status |-> "pending",
                   created |-> now, updated |-> now, epoch |-> 0]}
    BY <1>3 DEF ConsumeOffer
  <2>2. Good(s.devices, s.evidence) /\ \A x \in s.devices : \E e \in devices : e.id = x.id
    BY CreateGood
  <2>3. d.key = key
    BY <2>1, <2>2
  <2> QED
    BY <2>1, <2>2, <2>3 DEF Good, Remembers
<1>4. ASSUME ListDevices PROVE FALSE
  BY <1>1, <1>4 DEF ListDevices
<1>5. ASSUME NEW id, Approve(id) PROVE FALSE
  <2>1. PICK x \in Expired(devices) : d = x \/ d = Approved(x)
    BY <1>5 DEF Approve
  <2>2. d.id = x.id
    BY <2>1 DEF Approved, Updated
  <2> QED
    BY <1>1, <2>2
<1>6. ASSUME NEW x \in devices, Deny(x) \/ Revoke(x) PROVE FALSE
  <2>1. d \in devices \/ d = Moved(x, "denied") \/ d = Moved(x, "revoked")
    BY <1>6 DEF Deny, Revoke, Replace
  <2> QED
    BY <2>1 DEF Moved, Updated
<1>7. ASSUME UNCHANGED devices PROVE FALSE
  BY <1>7
<1> QED
  BY <1>2, <1>3, <1>4, <1>5, <1>6, <1>7
  DEF Next, CancelOffer, ConsumeTooLate, Tick, SetBack, vars

(***************************************************************************)
(* A revoked key never gets a new device record, over compaction, expiry   *)
(* and any number of offers (consume_offer).                               *)
(***************************************************************************)
THEOREM BannedNeverPairsHolds == Spec => BannedNeverPairs
<1>1. AuthInv /\ [Next]_vars =>
         [\A d \in devices' : (\A e \in devices : e.id # d.id) => d.key \notin banned]_vars
  BY NewRecordsAreFree
<1> QED
  BY <1>1, AuthInvariant, PTL DEF Spec, BannedNeverPairs

(***************************************************************************)
(* A capability pairs one device, and none once its offer was superseded,  *)
(* cancelled, found expired or consumed.                                   *)
(***************************************************************************)
THEOREM SpentNeverPairsHolds == Spec => SpentNeverPairs
<1>1. AuthInv /\ [Next]_vars => [minted' # minted => offer.id \notin spent]_vars
  <2> SUFFICES ASSUME AuthInv, [Next]_vars, minted' # minted PROVE offer.id \notin spent
    OBVIOUS
  <2>1. PICK cap, key : ConsumeOffer(cap, key)
    BY DEF Next, vars, CreateOffer, CancelOffer, ConsumeTooLate, ListDevices, Approve, Deny,
           Revoke, Tick, SetBack
  <2> QED
    BY <2>1 DEF ConsumeOffer, Usable, AuthInv, OffersOK
<1> QED
  BY <1>1, AuthInvariant, PTL DEF Spec, SpentNeverPairs

\* expiry denies what is stale and leaves the rest; a slot is made by removal
LEMMA ExpiredIs ==
    ASSUME NEW x \in Expired(devices)
    PROVE  \E y \in devices : \/ Stale(y) /\ x = Moved(y, "denied")
                              \/ ~Stale(y) /\ x = y
<1> QED
  BY DEF Expired

LEMMA SlottedIs ==
    ASSUME NEW devs, NEW ev, NEW s \in Slotted(devs, ev)
    PROVE  s.devices \subseteq devs
<1> QED
  BY DEF Slotted

(***************************************************************************)
(* A pending record is authorized only before it times out, whatever       *)
(* transactions and corrections of the clock came in between (approve,     *)
(* approve_confirmed).                                                     *)
(***************************************************************************)
THEOREM StaleNeverApprovedHolds == Spec => StaleNeverApproved
<1>1. ASSUME AuthInv, [Next]_vars, NEW d \in devices, NEW e \in devices',
             d.id = e.id, d.status = "pending", e.status = "authorized"
      PROVE  now < d.created + MaxAge
  <2> USE <1>1
  <2>0. \A x, y \in devices : x.id = y.id => x = y
    BY DEF AuthInv, DevicesOK
  <2>1. e \notin devices
    BY <2>0
  <2>2. e \notin Expired(devices)
    BY <2>1, ExpiredIs DEF Moved, Updated
  <2>3. ASSUME NEW ttl \in Ttls, CreateOffer(ttl) PROVE FALSE
    <3>1. PICK s \in Slotted(Expired(devices), evidence) : devices' = s.devices
      BY <2>3 DEF CreateOffer
    <3> QED
      BY <2>2, <3>1, SlottedIs
  <2>4. ASSUME NEW cap, NEW key, ConsumeOffer(cap, key) PROVE FALSE
    <3>1. PICK s \in Slotted(Expired(devices), evidence) :
             devices' = s.devices \cup
                {[id |-> minted + 1, key |-> key, status |-> "pending",
                  created |-> now, updated |-> now, epoch |-> 0]}
      BY <2>4 DEF ConsumeOffer
    <3>2. s.devices \subseteq Expired(devices)
      BY SlottedIs
    <3> QED
      BY <2>2, <3>1, <3>2
  <2>5. ASSUME NEW id, Approve(id) PROVE ~Stale(d)
    <3>1. PICK x \in Expired(devices) : e = x \/ (e = Approved(x) /\ x.status = "pending")
      BY <2>5 DEF Approve
    <3>2. e = Approved(x) /\ x.status = "pending"
      BY <2>2, <3>1
    <3>3. x \in devices /\ ~Stale(x)
      BY <3>2, ExpiredIs DEF Moved, Updated
    <3>4. x = d
      BY <2>0, <3>2, <3>3 DEF Approved, Updated
    <3> QED
      BY <3>3, <3>4
  <2>6. ASSUME NEW x \in devices, Deny(x) \/ Revoke(x) PROVE FALSE
    BY <2>1, <2>6 DEF Deny, Revoke, Replace, Moved, Updated
  <2>7. devices' # devices /\ ~ListDevices
    BY <2>1, <2>2 DEF ListDevices
  <2>8. \E id : Approve(id)
    BY <2>3, <2>4, <2>6, <2>7 DEF Next, vars, CancelOffer, ConsumeTooLate, Tick, SetBack
  <2>9. ~Stale(d)
    BY <2>5, <2>8
  <2>10. now \in Nat /\ d.created \in Nat /\ MaxAge \in Nat
    BY AuthorizationAssumption DEF AuthInv, TypeOK, Device
  <2> QED
    BY <2>9, <2>10 DEF Stale
<1>2. AuthInv /\ [Next]_vars =>
        [\A d \in devices, e \in devices' :
            d.id = e.id /\ d.status = "pending" /\ e.status = "authorized"
               => now < d.created + MaxAge]_vars
  BY <1>1
<1> QED
  BY <1>2, AuthInvariant, PTL DEF Spec, StaleNeverApproved

(***************************************************************************)
(* The dashboards over the repository.  Their interleaved calls do nothing *)
(* to its state that a transaction of Authorization does not do, so that   *)
(* what is shown of Spec above holds of ManageSpec too, and a              *)
(* create_pairing_offer keeps what it answered (ManageInv).                *)
(***************************************************************************)

\* one step of the dashboards is one transaction or none
LEMMA ManageStep == AuthInv /\ [ManageNext]_allVars => [Next]_vars
<1> SUFFICES ASSUME AuthInv, ManageNext PROVE [Next]_vars
  BY DEF allVars
<1>1. ASSUME NEW s \in Surfaces, CreateStep(s) PROVE [Next]_vars
  <2>1. ASSUME NEW ttl \in Ttls, CreateCalled(s, ttl) PROVE Next
    BY <2>1 DEF CreateCalled, Next
  <2>2. ASSUME TokenMinted(s) \/ Rendered(s) \/ RenderFails(s) \/ CancelFails(s) \/ CallLost(s)
      PROVE  UNCHANGED vars
    BY <2>2 DEF TokenMinted, Rendered, RenderFails, CancelFails, CallLost
  <2>3. ASSUME CancelOffer(call[s].offer) PROVE Next
    <3>1. offer.id \in 1..offers
      BY <2>3 DEF CancelOffer, AuthInv, OffersOK, TypeOK, Offer
    <3> QED
      BY <2>3, <3>1 DEF CancelOffer, Next
  <2> QED
    BY <1>1, <2>1, <2>2, <2>3 DEF CreateStep, OfferCancelled
<1>2. ASSUME ApproveDevice \/ DenyDevice \/ RevokeDevice \/ ListDevices \/ Phone \/ Tick PROVE Next
  BY <1>2 DEF ApproveDevice, DenyDevice, RevokeDevice, Phone, Next
<1>3. ASSUME ClockSetBack PROVE Next
  BY <1>3 DEF ClockSetBack, Next
<1> QED
  BY <1>1, <1>2, <1>3 DEF ManageNext

(***************************************************************************)
(* The dashboards' specification implements the repository's: behind every *)
(* interleaving of create_pairing_offer with other surfaces and phones is  *)
(* a sequence of the repository's transactions.                            *)
(***************************************************************************)
THEOREM ManagementRefinesAuthorization == ManageSpec => Spec
<1>1. ManageInit => Init /\ AuthInv
  BY AuthInit DEF ManageInit
<1>2. AuthInv /\ [ManageNext]_allVars => AuthInv' /\ [Next]_vars
  BY ManageStep, AuthStep
<1> QED
  BY <1>1, <1>2, PTL DEF ManageSpec, Spec

(***************************************************************************)
(* Under the dashboards too, no revoked key pairs again, and no capability *)
(* that was consumed, cancelled, superseded or found expired is used.      *)
(***************************************************************************)
THEOREM DashboardsNeverPairBanned == ManageSpec => BannedNeverPairs /\ SpentNeverPairs
<1> QED
  BY ManagementRefinesAuthorization, BannedNeverPairsHolds, SpentNeverPairsHolds

-----------------------------------------------------------------------------
(* What create_pairing_offer answered *)

Token == [iat : Nat, exp : Nat]
Call == [at : {"idle", "mint", "render", "cancel"}, offer : Nat, ttl : Nat, token : Token,
         back : BOOLEAN]
Qr == [offer : Nat, token : Token, back : BOOLEAN]

ManageTypeOK == call \in [Surfaces -> Call] /\ qr \in Qr /\ refused \subseteq Nat /\ kept \subseteq Nat

\* a token for offer o is well-formed, and good for as long as o while the clock goes on
Fits(token, o, back) ==
    token # NoToken =>
        /\ token.exp - token.iat \in 1..Lifetime
        /\ back = FALSE => token.iat <= now /\ (o = offer.id => offer.expires <= token.exp)

CallFits(c) ==
    /\ c.at # "idle" => c.offer \in 1..offers /\ c.ttl \in Ttls
    /\ c.at = "mint" /\ c.back = FALSE /\ c.offer = offer.id => offer.expires <= now + c.ttl
    /\ c.at # "idle" => Fits(c.token, c.offer, c.back)

RefusedIsOver == \A o \in refused \ kept : o <= offers /\ (o = offer.id => offer.status # "active")

QrFits == qr.offer <= offers /\ Fits(qr.token, qr.offer, qr.back)

ManageInv ==
    /\ AuthInv /\ ManageTypeOK
    /\ \A s \in Surfaces : CallFits(call[s])
    /\ QrFits /\ RefusedIsOver

LEMMA NothingYet == NoToken \in Token /\ NoCall \in Call /\ NoQr \in Qr
<1> QED
  BY DEF NoToken, NoCall, NoQr, Token, Call, Qr

LEMMA ManageInitInv == ManageInit => ManageInv
<1> SUFFICES ASSUME ManageInit PROVE ManageInv
  OBVIOUS
<1>1. AuthInv
  BY AuthInit DEF ManageInit
<1>2. ManageTypeOK
  BY NothingYet DEF ManageInit, ManageTypeOK
<1>3. QrFits /\ RefusedIsOver /\ \A s \in Surfaces : CallFits(call[s])
  BY DEF ManageInit, Init, QrFits, RefusedIsOver, CallFits, Fits, NoCall, NoQr, NoToken
<1> QED
  BY <1>1, <1>2, <1>3 DEF ManageInv

\* no transaction but the clock's correction takes time back; only a new offer is active anew
LEMMA OfferEffect ==
    ASSUME AuthInv, [Next]_vars
    PROVE  /\ now' < now => SetBack
           /\ \/ /\ offers' = offers /\ offer'.id = offer.id /\ offer'.expires = offer.expires
                 /\ offer'.status = "active" => offer.status = "active"
              \/ /\ offers' = offers + 1 /\ offer'.id = offers' /\ now' = now
                 /\ \E ttl \in Ttls : CreateOffer(ttl) /\ offer'.expires = now + ttl
<1> USE AuthorizationAssumption
<1>0. now \in Nat /\ offers \in Nat /\ offer \in Offer
  BY DEF AuthInv, TypeOK
<1>1. ASSUME NEW ttl \in Ttls, CreateOffer(ttl)
      PROVE  offers' = offers + 1 /\ offer'.id = offers' /\ now' = now /\ offer'.expires = now + ttl
  BY <1>1 DEF CreateOffer
<1>2. ASSUME NEW id, NEW key, CancelOffer(id) \/ ConsumeOffer(id, key) \/ ConsumeTooLate
      PROVE  /\ offers' = offers /\ offer'.id = offer.id /\ offer'.expires = offer.expires
             /\ offer'.status # "active" /\ now' = now
  BY <1>0, <1>2 DEF CancelOffer, ConsumeOffer, ConsumeTooLate, Offer
<1>3. ASSUME NEW id, NEW d, ListDevices \/ Approve(id) \/ Deny(d) \/ Revoke(d)
      PROVE  UNCHANGED <<offers, offer, now>>
  BY <1>3 DEF ListDevices, Approve, Deny, Revoke
<1>4. ASSUME Tick PROVE UNCHANGED <<offers, offer>> /\ now' = now + 1
  BY <1>4 DEF Tick
<1>5. ASSUME SetBack PROVE UNCHANGED <<offers, offer>>
  BY <1>5 DEF SetBack
<1>6. ASSUME UNCHANGED vars PROVE UNCHANGED <<offers, offer, now>>
  BY <1>6 DEF vars
<1>7. ASSUME NEW ttl \in Ttls, CreateOffer(ttl) PROVE \E t \in Ttls : CreateOffer(t) /\ offer'.expires = now + t
  BY <1>1, <1>7
<1> QED
  BY <1>0, <1>1, <1>2, <1>3, <1>4, <1>5, <1>6, <1>7 DEF Next

\* what a token or a call is good for is not taken away while time goes on
LEMMA FitsStays ==
    ASSUME AuthInv, [Next]_vars, now' >= now,
           NEW token \in Token, NEW o \in Nat, o <= offers, NEW back, Fits(token, o, back)
    PROVE  /\ o <= offers'
           /\ token # NoToken =>
                /\ token.exp - token.iat \in 1..Lifetime
                /\ back = FALSE => token.iat <= now' /\ (o = offer'.id => offer'.expires <= token.exp)
<1>0. now \in Nat /\ now' \in Nat /\ offers \in Nat /\ token.iat \in Nat /\ token.exp \in Nat
  BY AuthStep DEF AuthInv, TypeOK, Token
<1>1. CASE /\ offers' = offers /\ offer'.id = offer.id /\ offer'.expires = offer.expires
  BY <1>0, <1>1 DEF Fits
<1>2. CASE offers' = offers + 1 /\ offer'.id = offers'
  BY <1>0, <1>2 DEF Fits
<1> QED
  BY <1>1, <1>2, OfferEffect

LEMMA CallStays ==
    ASSUME AuthInv, [Next]_vars, now' >= now, NEW c \in Call, CallFits(c)
    PROVE  /\ c.at # "idle" => c.offer \in 1..offers' /\ c.ttl \in Ttls
           /\ c.at = "mint" /\ c.back = FALSE /\ c.offer = offer'.id => offer'.expires <= now' + c.ttl
           /\ c.at # "idle" /\ c.token # NoToken =>
                /\ c.token.exp - c.token.iat \in 1..Lifetime
                /\ c.back = FALSE => /\ c.token.iat <= now'
                                     /\ c.offer = offer'.id => offer'.expires <= c.token.exp
<1>0. /\ now \in Nat /\ now' \in Nat /\ offers \in Nat /\ c.offer \in Nat /\ c.ttl \in Nat
      /\ c.token \in Token /\ offer.expires \in Nat
  BY AuthStep DEF AuthInv, TypeOK, Call, Offer
<1>1. c.at # "idle" => c.offer <= offers
  BY <1>0 DEF CallFits
<1>2. c.at # "idle" => c.offer \in 1..offers' /\ c.ttl \in Ttls
  BY <1>0, OfferEffect DEF CallFits
<1>3. c.at = "mint" /\ c.back = FALSE /\ c.offer = offer'.id => offer'.expires <= now' + c.ttl
  BY <1>0, <1>1, OfferEffect DEF CallFits
<1>4. c.at # "idle" /\ c.token # NoToken =>
                /\ c.token.exp - c.token.iat \in 1..Lifetime
                /\ c.back = FALSE => /\ c.token.iat <= now'
                                     /\ c.offer = offer'.id => offer'.expires <= c.token.exp
  BY <1>0, <1>1, FitsStays DEF CallFits
<1> QED
  BY <1>2, <1>3, <1>4

\* the parts of the invariant that a step leaves alone
LEMMA PartsStay ==
    ASSUME ManageInv, [Next]_vars
    PROVE  /\ now' >= now => \A s \in Surfaces : call'[s] = call[s] => CallFits(call[s])'
           /\ now' >= now /\ qr' = qr => QrFits'
           /\ failures' = failures => RefusedIsOver'
<1>0. /\ AuthInv /\ now \in Nat /\ now' \in Nat /\ offers \in Nat /\ qr \in Qr
      /\ qr.offer \in Nat /\ qr.token \in Token /\ refused \subseteq Nat
  BY AuthStep DEF ManageInv, ManageTypeOK, AuthInv, TypeOK, Qr
<1>1. ASSUME now' >= now, NEW s \in Surfaces, call'[s] = call[s] PROVE CallFits(call[s])'
  <2>1. call[s] \in Call /\ CallFits(call[s])
    BY DEF ManageInv, ManageTypeOK
  <2> QED
    BY <1>0, <1>1, <2>1, CallStays DEF CallFits, Fits
<1>2. ASSUME now' >= now, qr' = qr PROVE QrFits'
  <2>1. qr.offer <= offers /\ Fits(qr.token, qr.offer, qr.back)
    BY DEF ManageInv, QrFits
  <2> QED
    BY <1>0, <1>2, <2>1, FitsStays DEF QrFits, Fits
<1>3. ASSUME failures' = failures PROVE RefusedIsOver'
  BY <1>0, <1>3, OfferEffect DEF ManageInv, RefusedIsOver, failures
<1> QED
  BY <1>1, <1>2, <1>3

LEMMA CreateStepInv ==
    ASSUME ManageInv, NEW s \in Surfaces, CreateStep(s) PROVE ManageInv'
<1> USE AuthorizationAssumption, ManagementAssumption
<1>0. /\ AuthInv /\ ManageTypeOK /\ CallFits(call[s]) /\ call[s] \in Call
      /\ now \in Nat /\ offers \in Nat /\ offer \in Offer
  BY DEF ManageInv, ManageTypeOK, AuthInv, TypeOK
<1>1. [ManageNext]_allVars
  BY DEF ManageNext
<1>2. AuthInv' /\ [Next]_vars
  BY <1>0, <1>1, AuthStep, ManageStep
<1>3. now' = now
  BY DEF CreateStep, CreateCalled, TokenMinted, Rendered, RenderFails, OfferCancelled, CancelFails,
         CallLost, CreateOffer, CancelOffer, vars
<1>4. /\ \A t \in Surfaces : call'[t] = call[t] => CallFits(call[t])'
      /\ qr' = qr => QrFits'
      /\ failures' = failures => RefusedIsOver'
  BY <1>0, <1>2, <1>3, PartsStay
<1>5. ASSUME NEW ttl \in Ttls, CreateCalled(s, ttl) PROVE ManageInv'
  <2> DEFINE c == [NoCall EXCEPT !.at = "mint", !.offer = offers', !.ttl = ttl]
  <2>1. offers' = offers + 1 /\ offer'.id = offers' /\ offer'.expires = now + ttl
    BY <1>5 DEF CreateCalled, CreateOffer
  <2>2. /\ c.at = "mint" /\ c.offer = offers' /\ c.ttl = ttl /\ c.token = NoToken /\ c \in Call
        /\ call' = [call EXCEPT ![s] = c] /\ qr' = qr /\ failures' = failures
    <3>1. c.at = "mint" /\ c.offer = offers' /\ c.ttl = ttl /\ c.token = NoToken
      BY DEF NoCall
    <3>2. offers' \in Nat /\ ttl \in Nat
      BY <1>0, <2>1 DEF AuthorizationAssumption
    <3>3. c \in Call
      BY <3>2, NothingYet DEF NoCall, Call
    <3> QED
      BY <1>5, <3>1, <3>3 DEF CreateCalled
  <2>3. CallFits(call[s])'
    BY <1>0, <1>3, <2>1, <2>2 DEF ManageTypeOK, CallFits, Fits
  <2>4. ManageTypeOK'
    BY <1>0, <2>2 DEF ManageTypeOK, failures
  <2> QED
    BY <1>0, <1>2, <1>4, <2>2, <2>3, <2>4 DEF ManageInv, ManageTypeOK
<1>6. ASSUME TokenMinted(s) PROVE ManageInv'
  <2>1. PICK token \in {Mint(call[s].ttl), NoToken} :
           call' = [call EXCEPT ![s].at = "render", ![s].token = token]
    BY <1>6 DEF TokenMinted
  <2>2. call[s].at = "mint" /\ UNCHANGED <<vars, qr, failures>>
    BY <1>6 DEF TokenMinted
  <2>3. call[s].ttl \in Nat \ {0} /\ call[s].ttl <= Lifetime
    <3>1. call[s].ttl \in Ttls
      BY <1>0, <2>2 DEF CallFits
    <3>2. call[s].ttl \in Nat \ {0} /\ MaxAge \in Nat /\ Lifetime \in Nat
      BY <3>1 DEF AuthorizationAssumption, ManagementAssumption
    <3>3. call[s].ttl <= MaxAge /\ MaxAge <= Lifetime
      BY <3>1 DEF ManagementAssumption
    <3> QED
      BY <3>2, <3>3
  <2>4. token \in Token
    BY <1>0, <2>1, <2>3, NothingYet DEF Mint, Token
  <2>5. /\ call'[s].at = "render" /\ call'[s].token = token /\ call'[s].offer = call[s].offer
        /\ call'[s].ttl = call[s].ttl /\ call'[s].back = call[s].back /\ call'[s] \in Call
        /\ \A t \in Surfaces : t # s => call'[t] = call[t]
    BY <1>0, <2>1, <2>4 DEF ManageTypeOK, Call
  <2>6. call[s].back = FALSE /\ call[s].offer = offer.id => offer.expires <= now + call[s].ttl
    BY <1>0, <2>2 DEF CallFits
  <2>7. token # NoToken => token.iat = now /\ token.exp = now + call[s].ttl
    BY <2>1 DEF Mint
  <2>8. CallFits(call[s])'
    BY <1>0, <2>2, <2>3, <2>5, <2>6, <2>7 DEF CallFits, Fits, vars
  <2>9. ManageTypeOK'
    BY <1>0, <2>1, <2>2, <2>4 DEF ManageTypeOK, Call, failures
  <2> QED
    BY <1>2, <1>4, <2>2, <2>5, <2>8, <2>9 DEF ManageInv
<1>7. ASSUME Rendered(s) PROVE ManageInv'
  <2>1. /\ qr'.offer = call[s].offer /\ qr'.token = call[s].token /\ qr'.back = call[s].back
        /\ qr' \in Qr /\ call[s].at = "render" /\ call' = [call EXCEPT ![s] = NoCall]
        /\ UNCHANGED <<vars, failures>>
    BY <1>0, <1>7 DEF Rendered, Call, Qr
  <2>2. QrFits'
    BY <1>0, <2>1 DEF CallFits, QrFits, Fits, vars
  <2>3. CallFits(call[s])' /\ ManageTypeOK'
    BY <1>0, <2>1, NothingYet DEF ManageTypeOK, CallFits, NoCall, failures
  <2> QED
    BY <1>0, <1>2, <1>4, <2>1, <2>2, <2>3 DEF ManageInv, ManageTypeOK
<1>8. ASSUME RenderFails(s) PROVE ManageInv'
  <2>1. call[s].at = "render" /\ call' = [call EXCEPT ![s].at = "cancel"] /\ UNCHANGED <<vars, qr, failures>>
    BY <1>8 DEF RenderFails
  <2>2. /\ call'[s].at = "cancel" /\ call'[s].token = call[s].token /\ call'[s].offer = call[s].offer
        /\ call'[s].ttl = call[s].ttl /\ call'[s].back = call[s].back
        /\ \A t \in Surfaces : t # s => call'[t] = call[t]
    BY <1>0, <2>1 DEF ManageTypeOK, Call
  <2>3. CallFits(call[s])'
    BY <1>0, <2>1, <2>2 DEF CallFits, Fits, vars
  <2>4. ManageTypeOK'
    BY <1>0, <2>1 DEF ManageTypeOK, Call, failures
  <2> QED
    BY <1>2, <1>4, <2>1, <2>2, <2>3, <2>4 DEF ManageInv
<1>9. ASSUME OfferCancelled(s) PROVE ManageInv'
  <2>1. /\ call[s].at = "cancel" /\ call' = [call EXCEPT ![s] = NoCall] /\ qr' = qr
        /\ refused' = refused \cup {call[s].offer} /\ kept' = kept
        /\ call[s].offer \in Nat /\ call[s].offer <= offers
    BY <1>0, <1>9 DEF OfferCancelled, CallFits
  <2>2. /\ offers' = offers /\ offer'.id = offer.id
        /\ offer'.status = "active" => offer.status = "active" /\ offer.id # call[s].offer
    BY <1>0, <1>9 DEF OfferCancelled, CancelOffer, Offer, vars
  <2>3. RefusedIsOver'
    BY <1>0, <2>1, <2>2 DEF ManageInv, RefusedIsOver
  <2>4. CallFits(call[s])' /\ ManageTypeOK'
    BY <1>0, <2>1, NothingYet DEF ManageTypeOK, CallFits, NoCall, failures
  <2> QED
    BY <1>0, <1>2, <1>4, <2>1, <2>3, <2>4 DEF ManageInv, ManageTypeOK
<1>11. ASSUME CancelFails(s) PROVE ManageInv'
  <2>1. /\ call' = [call EXCEPT ![s] = NoCall] /\ UNCHANGED <<vars, qr>>
        /\ refused' = refused \cup {call[s].offer} /\ kept' = kept \cup {call[s].offer}
        /\ call[s].offer \in Nat
    BY <1>0, <1>11 DEF CancelFails, CallFits
  <2>2. RefusedIsOver'
    BY <2>1 DEF ManageInv, RefusedIsOver, vars
  <2>3. CallFits(call[s])' /\ ManageTypeOK'
    BY <1>0, <2>1, NothingYet DEF ManageTypeOK, CallFits, NoCall, failures
  <2> QED
    BY <1>0, <1>2, <1>4, <2>1, <2>2, <2>3 DEF ManageInv, ManageTypeOK
<1>10. ASSUME CallLost(s) PROVE ManageInv'
  <2>1. call' = [call EXCEPT ![s] = NoCall] /\ UNCHANGED <<vars, qr, failures>>
    BY <1>10 DEF CallLost
  <2>2. CallFits(call[s])' /\ ManageTypeOK'
    BY <1>0, <2>1, NothingYet DEF ManageTypeOK, CallFits, NoCall, failures
  <2> QED
    BY <1>0, <1>2, <1>4, <2>1, <2>2 DEF ManageInv, ManageTypeOK
<1> QED
  BY <1>5, <1>6, <1>7, <1>8, <1>9, <1>10, <1>11 DEF CreateStep

\* after the clock was set back, what was promised before counts for nothing
LEMMA ClockSetBackInv ==
    ASSUME ManageInv, ClockSetBack PROVE ManageInv'
<1>0. /\ AuthInv /\ ManageTypeOK /\ QrFits /\ \A s \in Surfaces : CallFits(call[s])
      /\ UNCHANGED <<offer, offers, failures>>
  BY DEF ManageInv, ClockSetBack, SetBack
<1>1. AuthInv' /\ [Next]_vars
  BY <1>0, AuthStep, ManageStep DEF ManageNext
<1>2. RefusedIsOver'
  BY <1>1, PartsStay, <1>0
<1>3. ASSUME NEW s \in Surfaces PROVE call'[s] \in Call /\ CallFits(call[s])'
  <2>1. call[s] \in Call /\ CallFits(call[s])
    BY <1>0, <1>3 DEF ManageTypeOK, failures
  <2>2. CASE call[s] = NoCall
    <3>1. call'[s] = NoCall
      BY <1>3, <2>2 DEF ClockSetBack
    <3> QED
      BY <3>1, NothingYet DEF CallFits, NoCall
  <2>3. CASE call[s] # NoCall
    <3>1. call'[s] = [call[s] EXCEPT !.back = TRUE]
      BY <1>3, <2>3 DEF ClockSetBack
    <3>2. /\ call'[s] \in Call /\ call'[s].at = call[s].at /\ call'[s].offer = call[s].offer
          /\ call'[s].ttl = call[s].ttl /\ call'[s].token = call[s].token /\ call'[s].back = TRUE
      BY <2>1, <3>1 DEF Call
    <3> QED
      BY <1>0, <2>1, <3>2 DEF CallFits, Fits
  <2> QED
    BY <2>2, <2>3
<1>4. qr' \in Qr /\ QrFits'
  <2>1. qr \in Qr
    BY <1>0 DEF ManageTypeOK, failures
  <2>2. CASE qr = NoQr
    BY <1>0, <2>1, <2>2, NothingYet DEF ClockSetBack, QrFits, Fits, NoQr
  <2>3. CASE qr # NoQr
    <3>1. qr' \in Qr /\ qr'.offer = qr.offer /\ qr'.token = qr.token /\ qr'.back = TRUE
      BY <2>1, <2>3 DEF ClockSetBack, Qr
    <3> QED
      BY <1>0, <3>1 DEF QrFits, Fits
  <2> QED
    BY <2>2, <2>3
<1>5. call' = [s \in Surfaces |-> call'[s]]
  BY DEF ClockSetBack
<1>6. ManageTypeOK'
  BY <1>0, <1>3, <1>4, <1>5 DEF ManageTypeOK, failures
<1> QED
  BY <1>1, <1>2, <1>3, <1>4, <1>6 DEF ManageInv

LEMMA ManageInvStep == ManageInv /\ [ManageNext]_allVars => ManageInv'
<1> SUFFICES ASSUME ManageInv, [ManageNext]_allVars PROVE ManageInv'
  OBVIOUS
<1>1. ASSUME NEW s \in Surfaces, CreateStep(s) PROVE ManageInv'
  BY <1>1, CreateStepInv
<1>2. CASE ClockSetBack
  BY <1>2, ClockSetBackInv
<1>3. ASSUME UNCHANGED manageVars, now' >= now PROVE ManageInv'
  <2>1. AuthInv' /\ [Next]_vars
    BY AuthStep, ManageStep DEF ManageInv
  <2> QED
    BY <1>3, <2>1, PartsStay DEF ManageInv, ManageTypeOK, manageVars, failures
<1>4. ASSUME ApproveDevice \/ DenyDevice \/ RevokeDevice \/ ListDevices \/ Phone \/ Tick PROVE now' >= now
  <2>1. now \in Nat
    BY DEF ManageInv, AuthInv, TypeOK
  <2> QED
    BY <1>4, <2>1 DEF ApproveDevice, DenyDevice, RevokeDevice, ListDevices, Phone, Tick, Approve, Deny,
                      Revoke, ConsumeOffer, ConsumeTooLate
<1>5. UNCHANGED allVars => UNCHANGED manageVars /\ now' >= now
  <2>1. now \in Nat
    BY DEF ManageInv, AuthInv, TypeOK
  <2> QED
    BY <2>1 DEF allVars, vars
<1> QED
  BY <1>1, <1>2, <1>3, <1>4, <1>5 DEF ManageNext

(***************************************************************************)
(* create_pairing_offer keeps what it answered, for any number of          *)
(* dashboards and offers: a QR handed out opens the relay's socket for as  *)
(* long as its offer can be used, no offer that failed to render and was   *)
(* cancelled pairs anyone, and its cancellation expires no other           *)
(* surface's offer.                                                        *)
(***************************************************************************)
THEOREM CreateIsAsAnsweredHolds == ManageSpec => CreateIsAsAnswered
<1>1. ManageInv => QrWorks
  <2> SUFFICES ASSUME ManageInv, qr.offer = offer.id, now < offer.expires, qr.token # NoToken, ~qr.back
               PROVE  Accepts(qr.token)
    BY DEF QrWorks
  <2>1. /\ now \in Nat /\ qr.token.iat \in Nat /\ qr.token.exp \in Nat /\ offer.expires \in Nat
        /\ qr.back = FALSE /\ Skew \in Nat
    BY ManagementAssumption DEF ManageInv, ManageTypeOK, AuthInv, TypeOK, Offer, Qr, Token
  <2>2. /\ qr.token.exp - qr.token.iat \in 1..Lifetime
        /\ qr.token.iat <= now /\ offer.expires <= qr.token.exp
    BY <2>1 DEF ManageInv, QrFits, Fits
  <2> QED
    BY <2>1, <2>2 DEF Accepts
<1>2. ASSUME ManageInv, [ManageNext]_allVars, minted' # minted
      PROVE  offer.id \notin refused \ kept
  <2>1. [Next]_vars
    BY <1>2, ManageStep DEF ManageInv
  <2>2. PICK cap, key : ConsumeOffer(cap, key)
    BY <1>2, <2>1 DEF Next, vars, CreateOffer, CancelOffer, ConsumeTooLate, ListDevices, Approve, Deny,
           Revoke, Tick, SetBack
  <2> QED
    BY <1>2, <2>2 DEF ConsumeOffer, Usable, ManageInv, RefusedIsOver
<1>3. ASSUME ManageInv, [ManageNext]_allVars,
             offer.status = "active", offer' = [offer EXCEPT !.status = "expired"], ~(now >= offer.expires)
      PROVE  \E s \in Surfaces : call[s].at = "cancel" /\ call[s].offer = offer.id
  <2>1. offer'.status = "expired" /\ offer'.id = offer.id /\ offers \in Nat /\ offer.id <= offers
    BY <1>3 DEF ManageInv, AuthInv, TypeOK, Offer, OffersOK
  <2>2. ASSUME NEW ttl \in Ttls, CreateOffer(ttl) PROVE FALSE
    BY <2>1, <2>2 DEF CreateOffer
  <2>3. ASSUME NEW id, NEW key, ConsumeOffer(id, key) \/ ConsumeTooLate PROVE FALSE
    BY <1>3, <2>1, <2>3 DEF ConsumeOffer, ConsumeTooLate, ManageInv, AuthInv, TypeOK, Offer
  <2>4. ASSUME UNCHANGED offer PROVE FALSE
    BY <1>3, <2>1, <2>4
  <2>5. \/ \E s \in Surfaces : CreateStep(s)
        \/ Phone
        \/ UNCHANGED offer
    BY <1>3 DEF ManageNext, allVars, vars, ApproveDevice, DenyDevice, RevokeDevice, ListDevices, Tick,
                ClockSetBack, SetBack, Approve, Deny, Revoke
  <2>6. PICK s \in Surfaces : CreateStep(s)
    BY <2>3, <2>4, <2>5 DEF Phone
  <2>7. OfferCancelled(s) /\ CancelOffer(call[s].offer)
    BY <2>2, <2>4, <2>6 DEF CreateStep, CreateCalled, TokenMinted, Rendered, RenderFails,
                            OfferCancelled, CancelFails, CallLost, vars
  <2> QED
    BY <2>7 DEF OfferCancelled, CancelOffer
<1>4. ManageInv /\ [ManageNext]_allVars =>
        [/\ QrWorks
         /\ minted' # minted => offer.id \notin refused \ kept
         /\ offer.status = "active" /\ offer' = [offer EXCEPT !.status = "expired"]
               => now >= offer.expires \/ \E s \in Surfaces : call[s].at = "cancel"
                                                           /\ call[s].offer = offer.id]_allVars
  BY <1>1, <1>2, <1>3
<1> QED
  BY <1>4, ManageInitInv, ManageInvStep, PTL DEF ManageSpec, CreateIsAsAnswered

-----------------------------------------------------------------------------
(***************************************************************************)
(* The plugin's lifespan.  LifespanInv is what every reachable state of    *)
(* Lifespan satisfies, one conjunct for each part.                         *)
(***************************************************************************)

JournalLine == [id : Nat, size : Nat]
FileLine == [id : Nat, size : Nat, kind : {"whole", "bare", "cut", "foreign"}]

JournalTypeOK ==
    /\ recorded \in Nat /\ memory \in Seq(Nat) /\ queue \in Seq(JournalLine)
    /\ writer \in {"none", "idle", "exited"} \cup Writing
    /\ line \in JournalLine /\ shifting \in Nat
    /\ files \in [0..MaxFiles -> Seq(FileLine)]
    /\ ready \in BOOLEAN /\ shut \in BOOLEAN
    /\ answer \in {"none", "pending", "drained", "timeout"}
    /\ counted \in Nat /\ past \in Nat
    /\ life \in SUBSET (1..recorded) /\ former \in SUBSET (1..recorded)

\* the lines of the files, from the oldest file to the journal, and what is still to be written
\* come in the order of the record calls
OlderLine(i, m, j, k) == i > j \/ (i = j /\ m < k)

FilesInOrder(fs) ==
    \A i, j \in 0..MaxFiles : \A m \in DOMAIN fs[i], k \in DOMAIN fs[j] :
        OlderLine(i, m, j, k) => fs[i][m].id < fs[j][k].id

FilesBelow(fs, id) == \A i \in 0..MaxFiles : \A m \in DOMAIN fs[i] : fs[i][m].id < id

OrderInv ==
    /\ HistoryInOrder
    /\ \A m \in DOMAIN memory : memory[m] <= recorded
    /\ FilesInOrder(files) /\ FilesBelow(files, recorded + 1)
    /\ \A m \in DOMAIN queue : queue[m].id <= recorded /\ FilesBelow(files, queue[m].id)
    /\ \A m, k \in DOMAIN queue : m < k => queue[m].id < queue[k].id
    /\ writer \in Writing =>
          /\ line.id <= recorded /\ FilesBelow(files, line.id)
          /\ \A m \in DOMAIN queue : line.id < queue[m].id

\* the events no file and no queue has any more, of this process and of the earlier ones
Missing == life \ (Kept \cup Pending \cup gone)
FormerMissing == former \ (Kept \cup gone)

\* a rotation moves into a place that is free, and then the line fits
LossInv ==
    /\ Len(queue) <= QueueLimit
    /\ ~ready => life = {}
    /\ writer = "rotate" =>
          shifting < MaxFiles /\ (shifting < MaxFiles - 1 => files[shifting + 1] = <<>>)
    /\ writer = "append" /\ MaxFiles > 1 => ~(Size(files[0]) + line.size > MaxBytes)
    /\ writer \in Writing => line.size <= MaxBytes
    /\ \A m \in DOMAIN queue : queue[m].size <= MaxBytes
    /\ Cardinality(Missing) <= counted
    /\ Cardinality(FormerMissing) <= past

\* close answers once, and no thread and no line come after its flag
CloseInv ==
    /\ writer = "exited" => shut /\ queue = <<>>
    /\ answer = "drained" => writer \in {"none", "exited"}
    /\ answer # "none" => shut

UpdatesTypeOK ==
    /\ published \in Nat /\ latest \in Nat /\ cache \in Nat /\ fresh \in BOOLEAN
    /\ asking \in [Everyone -> Asking] /\ got \in [Everyone -> Nat]
    /\ checkLock \in Everyone \cup {None} /\ applyLock \in Everyone \cup {None}

\* one fetch at a time, and it read no older release than the one that is shown
FetchInv ==
    /\ latest <= published /\ cache <= published
    /\ \A c \in Everyone :
          /\ got[c] <= published
          /\ asking[c] \in {"fetching", "fetched"} => checkLock = c
          /\ asking[c] = "fetched" => latest <= got[c]

CounterValue == [total : Nat, active : 0..1]

\* a value that counted everything the older version did, and nothing twice
TrueCount(value) ==
    /\ value.total <= happened
    /\ legacy # NoFile => legacy.total <= value.total

CountInv ==
    /\ happened \in Nat /\ unsaved \in Nat /\ forgiven \in Nat /\ counters \in CounterValue
    /\ current # NoFile => current \in CounterValue
    /\ legacy # NoFile => legacy \in CounterValue
    /\ TrueCount(LoadedCounters) /\ happened <= LoadedCounters.total + unsaved + forgiven
    /\ part["metrics"] = "absent" => unsaved = 0
    /\ part["metrics"] # "absent" => TrueCount(counters) /\ happened <= counters.total + forgiven

Outcomes == {"absent", "open", "closed", "failed"}

LifespanTypeOK ==
    /\ phase \in {"down", "up", "closing", "ended"} /\ part \in [Part -> Outcomes]
    /\ step \in 1..Len(Steps) + 1 /\ process \in Nat

\* the steps come in their order: what lies behind is not open, what lies ahead was not closed
TeardownInv ==
    /\ phase \in {"down", "up"} => step = 1
    /\ phase = "down" => part = Absent /\ life = {}
    /\ phase = "ended" => step > Len(Steps)
    /\ \A m \in 1..Len(Steps) : m < step => part[Steps[m]] # "open"
    /\ \A m \in 1..Len(Steps) : part[Steps[m]] \in {"closed", "failed"} => m < step
    /\ shut => step >= 6
    /\ part["journal"] = "closed" => shut /\ answer # "pending"
    /\ part["updates"] = "closed" => asking[Timer] = "stopped"
    /\ part["metrics"] = "closed" /\ part["leases"] = "closed" => current.active = 0

JournalInv == JournalTypeOK /\ OrderInv /\ LossInv /\ CloseInv
UpdatesInv == UpdatesTypeOK /\ FetchInv
LifespanInv == JournalInv /\ UpdatesInv /\ CountInv /\ LifespanTypeOK /\ TeardownInv

LEMMA StepsAre ==
    /\ DOMAIN Steps = 1..7 /\ Len(Steps) = 7
    /\ Steps[1] = "updates" /\ Steps[2] = "connector" /\ Steps[3] = "leases"
    /\ Steps[4] = "push" /\ Steps[5] = "metrics" /\ Steps[6] = "journal" /\ Steps[7] = "runtime"
BY DEF Steps

LEMMA PartIs ==
    /\ Part = {"updates", "connector", "leases", "push", "metrics", "journal", "runtime"}
    /\ \A m \in 1..7 : Steps[m] \in Part
    /\ \A m, k \in 1..7 : Steps[m] = Steps[k] => m = k
<1>1. DOMAIN Steps = 1..7
  BY StepsAre
<1>2. \A m \in 1..7 : m \in {1, 2, 3, 4, 5, 6, 7}
  OBVIOUS
<1>3. Part = {Steps[m] : m \in 1..7}
  BY <1>1 DEF Part, Range
<1>4. Part = {"updates", "connector", "leases", "push", "metrics", "journal", "runtime"}
  BY <1>2, <1>3, StepsAre
<1> QED
  BY <1>2, <1>3, <1>4, StepsAre

-----------------------------------------------------------------------------
(* The update check *)

LEMMA UpdatesInitInv == UpdatesInit => UpdatesInv
<1> SUFFICES ASSUME UpdatesInit PROVE UpdatesInv
  OBVIOUS
<1>1. fresh \in BOOLEAN
  BY DEF UpdatesInit
<1>2. asking \in [Everyone -> {"idle", "stopped"}]
  BY DEF UpdatesInit
<1>3. got \in [Everyone -> {0}]
  BY DEF UpdatesInit
<1> QED
  BY <1>1, <1>2, <1>3 DEF UpdatesInit, UpdatesInv, UpdatesTypeOK, FetchInv, Asking

LEMMA UpdatesStartInv == UpdatesInv /\ UpdatesStart => UpdatesInv'
<1> SUFFICES ASSUME UpdatesInv, UpdatesStart PROVE UpdatesInv'
  OBVIOUS
<1>1. PICK enabled \in BOOLEAN :
          asking' = [c \in Everyone |-> IF c = Timer /\ ~enabled THEN "stopped" ELSE "idle"]
  BY DEF UpdatesStart
<1>2. asking' \in [Everyone -> {"idle", "stopped"}]
  BY <1>1
<1>3. got' \in [Everyone -> {0}]
  BY DEF UpdatesStart
<1>4. fresh' \in BOOLEAN
  BY DEF UpdatesStart
<1> QED
  BY <1>2, <1>3, <1>4 DEF UpdatesStart, UpdatesInv, UpdatesTypeOK, FetchInv, Asking

LEMMA TimerStopsInv == UpdatesInv /\ TimerStops => UpdatesInv'
BY UpdateAssumption DEF TimerStops, UpdatesInv, UpdatesTypeOK, FetchInv, Asking, Everyone

LEMMA UpdateStepInv == UpdatesInv /\ UpdateStep => UpdatesInv'
<1> SUFFICES ASSUME UpdatesInv, UpdateStep PROVE UpdatesInv'
  OBVIOUS
<1> USE DEF UpdatesInv, UpdatesTypeOK, FetchInv, Asking
<1>1. CASE Publish
  BY <1>1 DEF Publish
<1>2. CASE Ages
  <2>1. fresh' \in BOOLEAN
    BY <1>2, Zenon DEF Ages
  <2> QED
    BY <1>2, <2>1 DEF Ages
<1>3. ASSUME NEW c \in Everyone, AskCheck(c) PROVE UpdatesInv'
  BY <1>3 DEF AskCheck, Goes
<1>4. ASSUME NEW c \in Everyone, EnterCheck(c) PROVE UpdatesInv'
  BY <1>4, UpdateAssumption DEF EnterCheck, Goes, MayEnter, Everyone
<1>5. ASSUME NEW c \in Everyone, FetchReads(c) PROVE UpdatesInv'
  BY <1>5 DEF FetchReads, Goes
<1>6. ASSUME NEW c \in Everyone, CheckDone(c) PROVE UpdatesInv'
  BY <1>6, UpdateAssumption DEF CheckDone, SaveCache, Leaves, Goes, Everyone
<1>7. ASSUME NEW c \in Everyone, CheckEnds(c) PROVE UpdatesInv'
  BY <1>7, UpdateAssumption DEF CheckEnds, Leaves, Goes, Everyone
<1>8. ASSUME NEW c \in Everyone, AskApply(c) \/ UpdaterSucceeds(c) PROVE UpdatesInv'
  BY <1>8 DEF AskApply, UpdaterSucceeds, Goes
<1>9. ASSUME NEW c \in Everyone, ApplyEnds(c) PROVE UpdatesInv'
  BY <1>9, UpdateAssumption DEF ApplyEnds, Leaves, Goes, Everyone
<1> QED
  BY <1>1, <1>3, <1>4, <1>5, <1>6, <1>7, <1>8, <1>9, <1>2 DEF UpdateStep

\* only the caller that fetched changes what is shown
LEMMA LatestGrows == UpdatesInv /\ UpdateStep => latest' >= latest
<1> SUFFICES ASSUME UpdatesInv, UpdateStep PROVE latest' >= latest
  OBVIOUS
<1> USE DEF UpdatesInv, UpdatesTypeOK, FetchInv
<1>1. ASSUME NEW c \in Everyone, CheckDone(c) PROVE latest' >= latest
  BY <1>1 DEF CheckDone
<1>2. CASE UNCHANGED latest
  BY <1>2
<1> QED
  BY <1>1, <1>2 DEF UpdateStep, Publish, Ages, AskCheck, EnterCheck, FetchReads, CheckEnds,
     AskApply, UpdaterSucceeds, ApplyEnds

-----------------------------------------------------------------------------
(* The counters *)

\* what a process begins with
LEMMA LoadedCountersAre ==
    CountInv => LoadedCounters \in CounterValue /\ (current # NoFile => LoadedCounters = current)
BY DEF CountInv, CounterValue, LoadedCounters, Counters

LEMMA LoadedIsWritten ==
    ASSUME NEW value \in CounterValue, current' = value
    PROVE  current' \in CounterValue /\ LoadedCounters' = value
BY MetricsAssumption DEF CounterValue, LoadedCounters

LEMMA CountInitInv == LifespanInit => CountInv
BY PartIs, MetricsAssumption
   DEF LifespanInit, MetricsInit, CountInv, CounterValue, Counters, TrueCount, Absent, LoadedCounters

LEMMA CountStartInv ==
    CountInv /\ MetricsStart /\ part["metrics"] = "absent" => CountInv'
<1> SUFFICES ASSUME CountInv, MetricsStart, part["metrics"] = "absent" PROVE CountInv'
  OBVIOUS
<1> DEFINE value == [LoadedCounters EXCEPT !.active = 0]
<1>1. value \in CounterValue /\ value.total = LoadedCounters.total
  BY LoadedCountersAre DEF CounterValue
<1>2. /\ counters' = value /\ current' = value
      /\ UNCHANGED <<happened, legacy, unsaved, forgiven>>
  BY DEF MetricsStart
<1>3. value.total \in Nat
  BY <1>1 DEF CounterValue
<1> HIDE DEF value
<1>4. current' \in CounterValue /\ LoadedCounters' = value
  BY <1>1, <1>2, LoadedIsWritten
<1> QED
  BY <1>1, <1>2, <1>3, <1>4 DEF CountInv, TrueCount

LEMMA CountUnavailableInv ==
    CountInv /\ MetricsUnavailable /\ part["metrics"] = "absent" /\ part'["metrics"] = "absent"
    => CountInv'
<1> SUFFICES ASSUME CountInv, MetricsUnavailable, part["metrics"] = "absent",
                    part'["metrics"] = "absent"
             PROVE  CountInv'
  OBVIOUS
<1> DEFINE value == [LoadedCounters EXCEPT !.active = 0]
<1>1. /\ LoadedCounters \in CounterValue /\ value \in CounterValue
      /\ value.total = LoadedCounters.total
  BY LoadedCountersAre DEF CounterValue
<1>2. /\ current' = current \/ current' = LoadedCounters \/ current' = value
      /\ UNCHANGED <<happened, counters, legacy, unsaved, forgiven>>
  BY DEF MetricsUnavailable
<1> HIDE DEF value
<1>3. LoadedCounters' \in CounterValue /\ LoadedCounters'.total = LoadedCounters.total
  <2>1. CASE current' = current
    BY <1>1, <1>2, <2>1 DEF LoadedCounters
  <2>2. CASE current' = LoadedCounters \/ current' = value
    BY <1>1, <2>2, LoadedIsWritten
  <2> QED
    BY <1>2, <2>1, <2>2
<1>4. current' # NoFile => current' \in CounterValue
  BY <1>1, <1>2 DEF CountInv
<1> QED
  BY <1>2, <1>3, <1>4 DEF CountInv, TrueCount

\* a write that was reported to succeed, or one that failed before or after its replace
LEMMA CountSavesInv ==
    ASSUME CountInv, part["metrics"] # "absent", part'["metrics"] # "absent",
           NEW new \in 0..1, Saved \/ SaveFails(new), counters' \in CounterValue,
           counters'.total = counters.total + new, happened' = happened + new,
           UNCHANGED <<legacy, forgiven>>
    PROVE  CountInv'
<1>1. /\ counters \in CounterValue /\ counters.total \in Nat /\ counters'.total \in Nat
      /\ happened \in Nat /\ unsaved \in Nat /\ forgiven \in Nat
      /\ LoadedCounters.total \in Nat /\ (legacy # NoFile => legacy.total \in Nat)
  BY LoadedCountersAre DEF CountInv, CounterValue
<1>2. TrueCount(counters)' /\ happened' <= counters'.total + forgiven'
  BY <1>1 DEF CountInv, TrueCount
<1>3. unsaved' \in Nat /\ happened' \in Nat
  BY <1>1 DEF Saved, SaveFails
<1>4. /\ current' # NoFile => current' \in CounterValue
      /\ TrueCount(LoadedCounters)' /\ happened' <= LoadedCounters'.total + unsaved' + forgiven'
  <2>1. CASE current' = counters'
    <3>1. current' \in CounterValue /\ LoadedCounters' = counters'
      BY <2>1, LoadedIsWritten
    <3> QED
      BY <1>1, <1>2, <1>3, <3>1 DEF TrueCount
  <2>2. CASE current' = current /\ unsaved' = unsaved + new
    <3>1. LoadedCounters' = LoadedCounters
      BY <2>2 DEF LoadedCounters
    <3> QED
      BY <1>1, <2>2, <3>1 DEF CountInv, TrueCount
  <2> QED
    BY <2>1, <2>2 DEF Saved, SaveFails
<1> QED
  BY <1>2, <1>3, <1>4 DEF CountInv

LEMMA CountMeasuresInv == CountInv /\ Measures => CountInv'
<1> SUFFICES ASSUME CountInv, Measures PROVE CountInv'
  OBVIOUS
<1>1. part' = part /\ part["metrics"] # "absent" /\ counters \in CounterValue
      /\ happened \in Nat
  BY DEF Measures, lifespanVars, CountInv
<1>2. CASE Counts
  <2>1. PICK active \in 0..1 : counters' = Counters(counters.total + 1, active)
    BY <1>2 DEF Counts
  <2>2. counters' \in CounterValue /\ counters'.total = counters.total + 1
    BY <1>1, <2>1 DEF CounterValue, Counters
  <2> QED
    BY <1>1, <1>2, <2>2, CountSavesInv DEF Counts
<1>3. ASSUME NEW active \in 0..1, UpdatesActive(active), Saved \/ SaveFails(0) PROVE CountInv'
  <2>1. counters' \in CounterValue /\ counters'.total = counters.total + 0
        /\ happened' = happened + 0
    BY <1>1, <1>3 DEF UpdatesActive, CounterValue
  <2> QED
    BY <1>1, <1>3, <2>1, CountSavesInv DEF UpdatesActive
<1> QED
  BY <1>2, <1>3 DEF Measures

LEMMA CountCloseInv ==
    ASSUME NEW outcome, CountInv, CloseMetrics(outcome), part["metrics"] # "absent",
           part'["metrics"] # "absent"
    PROVE  CountInv' /\ (outcome = "closed" => current'.active = 0)
<1>1. counters \in CounterValue /\ happened \in Nat
  BY DEF CountInv
<1>2. /\ counters' \in CounterValue /\ counters'.total = counters.total + 0
      /\ counters'.active = 0 /\ happened' = happened + 0
  BY <1>1 DEF CloseMetrics, UpdatesActive, CounterValue
<1>3. CountInv'
  BY <1>2, CountSavesInv DEF CloseMetrics, UpdatesActive
<1> QED
  BY <1>2, <1>3 DEF CloseMetrics, Saved

LEMMA CountDiesInv == CountInv /\ MetricsDie /\ part'["metrics"] = "absent" => CountInv'
<1> SUFFICES ASSUME CountInv, MetricsDie, part'["metrics"] = "absent" PROVE CountInv'
  OBVIOUS
<1>1. LoadedCounters' = LoadedCounters /\ LoadedCounters.total \in Nat
  BY LoadedCountersAre DEF MetricsDie, LoadedCounters, CounterValue
<1> QED
  BY <1>1 DEF CountInv, TrueCount, CounterValue, MetricsDie, Counters

LEMMA CountSameInv ==
    /\ CountInv /\ UNCHANGED metricsVars
    /\ part'["metrics"] # "absent" <=> part["metrics"] # "absent"
    => CountInv'
BY DEF CountInv, TrueCount, LoadedCounters, metricsVars

-----------------------------------------------------------------------------
(* The parts and the order of the shutdown *)

ShutInv == LifespanTypeOK /\ TeardownInv

LEMMA ShutInitInv == LifespanInit => ShutInv
BY StepsAre, PartIs DEF LifespanInit, JournalInit, ShutInv, LifespanTypeOK, TeardownInv, Absent,
   Outcomes

LEMMA StartedParts ==
    Start => /\ part' \in [Part -> {"absent", "open"}]
             /\ phase' = "up" /\ step' = step /\ process' = process
             /\ \/ UNCHANGED shut /\ UNCHANGED answer
                \/ JournalStarts
BY DEF Start, journalVars

LEMMA ShutStartInv == ShutInv /\ CloseInv /\ CloseInv' /\ Start => ShutInv'
<1> SUFFICES ASSUME ShutInv, CloseInv, Start PROVE ShutInv'
  OBVIOUS
<1>1. phase = "down" /\ step = 1 /\ ~shut
  BY DEF Start, ShutInv, TeardownInv, LifespanTypeOK
<1>2. shut' = shut
  BY StartedParts DEF JournalStarts
<1>3. LifespanTypeOK'
  BY StartedParts DEF ShutInv, LifespanTypeOK, Outcomes
<1>4. \A p \in Part : part'[p] \notin {"closed", "failed"}
  BY StartedParts
<1>5. TeardownInv'
  BY <1>1, <1>2, <1>4, StartedParts, StepsAre, PartIs DEF TeardownInv
<1> QED
  BY <1>3, <1>5 DEF ShutInv

\* what the parts do while they run disturbs nothing that was closed
LEMMA ShutRunsInv ==
    /\ ShutInv /\ UNCHANGED lifespanVars
    /\ phase = "down" => life' = life
    /\ shut' = shut /\ (answer' = answer \/ (answer = "pending" /\ answer' # "pending"))
    /\ phase \notin {"down", "up"} => asking'[Timer] = asking[Timer]
    /\ part["leases"] = "closed" => current' = current
    => ShutInv'
<1> SUFFICES ASSUME ShutInv, UNCHANGED lifespanVars,
                    phase = "down" => life' = life,
                    shut' = shut, answer' = answer \/ (answer = "pending" /\ answer' # "pending"),
                    phase \notin {"down", "up"} => asking'[Timer] = asking[Timer],
                    part["leases"] = "closed" => current' = current
             PROVE  ShutInv'
  OBVIOUS
<1>1. part["updates"] = "closed" => phase \notin {"down", "up"}
  <2> SUFFICES ASSUME part["updates"] = "closed", step = 1 PROVE FALSE
    BY DEF ShutInv, TeardownInv
  <2> QED
    BY StepsAre DEF ShutInv, TeardownInv
<1> QED
  BY <1>1 DEF ShutInv, LifespanTypeOK, TeardownInv, lifespanVars

\* closing the part whose turn it is
LEMMA BecameFacts ==
    ASSUME NEW p \in Part, NEW outcome \in {"closed", "failed"}, ShutInv, At(p), Became(p, outcome)
    PROVE  /\ LifespanTypeOK'
           /\ phase' = "closing" /\ step < 8 /\ step' = step + 1 /\ Steps[step] = p
           /\ part'[p] = outcome /\ \A q \in Part \ {p} : part'[q] = part[q]
           /\ \A m \in 1..7 : m < step' => part'[Steps[m]] # "open"
           /\ \A m \in 1..7 : part'[Steps[m]] \in {"closed", "failed"} => m < step'
<1> USE DEF ShutInv, TeardownInv, LifespanTypeOK, At, Became, Outcomes
<1>1. step \in 1..7 /\ Steps[step] = p
  BY StepsAre
<1>2. LifespanTypeOK'
  BY <1>1, StepsAre
<1>3. part'[p] = outcome /\ \A q \in Part \ {p} : part'[q] = part[q]
  OBVIOUS
<1>4. ASSUME NEW m \in 1..7, m < step' PROVE part'[Steps[m]] # "open"
  <2>1. m = step \/ m < step
    BY <1>1, <1>4
  <2> QED
    BY <1>1, <1>3, <2>1, PartIs, StepsAre
<1>5. ASSUME NEW m \in 1..7, part'[Steps[m]] \in {"closed", "failed"} PROVE m < step'
  <2>1. CASE m = step
    BY <1>1, <2>1
  <2>2. CASE m # step
    BY <1>1, <1>3, <1>5, <2>2, PartIs, StepsAre
  <2> QED
    BY <2>1, <2>2
<1> QED
  BY <1>1, <1>2, <1>3, <1>4, <1>5

\* a part but the journal is closed; the claims about the update check and the metrics are
\* those of its close
LEMMA ShutBecameInv ==
    ASSUME NEW p \in Part, NEW outcome \in {"closed", "failed"}, ShutInv, At(p), Became(p, outcome),
           shut' = shut, answer' = answer \/ (p = "journal" /\ answer' # "pending"),
           p = "journal" => shut /\ answer' # "pending",
           asking'[Timer] = asking[Timer] \/ (p = "updates" /\ asking'[Timer] = "stopped"),
           p = "updates" => asking'[Timer] = "stopped",
           IF p = "metrics" THEN outcome = "closed" => current'.active = 0
           ELSE current' = current
    PROVE  ShutInv'
<1>1. \A q \in Part : part'[q] = IF q = p THEN outcome ELSE part[q]
  BY BecameFacts
<1>2. shut' => step' >= 6
  BY BecameFacts DEF ShutInv, TeardownInv, LifespanTypeOK
<1>3. part'["journal"] = "closed" => shut' /\ answer' # "pending"
  BY <1>1, PartIs DEF ShutInv, TeardownInv
<1>4. part'["updates"] = "closed" => asking'[Timer] = "stopped"
  BY <1>1, PartIs DEF ShutInv, TeardownInv
<1>5. part'["metrics"] = "closed" /\ part'["leases"] = "closed" => current'.active = 0
  <2>1. CASE p = "leases"
    <3>1. step = 3
      BY <2>1, BecameFacts, StepsAre, PartIs DEF ShutInv, LifespanTypeOK
    <3>2. part["metrics"] # "closed"
      BY <3>1, StepsAre DEF ShutInv, TeardownInv
    <3> QED
      BY <1>1, <2>1, <3>2, PartIs
  <2>2. CASE p = "metrics"
    BY <1>1, <2>2, PartIs
  <2>3. CASE p \notin {"leases", "metrics"}
    BY <1>1, <2>3, PartIs DEF ShutInv, TeardownInv
  <2> QED
    BY <2>1, <2>2, <2>3
<1>6. TeardownInv'
  BY <1>2, <1>3, <1>4, <1>5, BecameFacts, StepsAre DEF TeardownInv
<1> QED
  BY <1>6, BecameFacts DEF ShutInv

LEMMA ShutSkipInv ==
    ASSUME NEW p \in Part, ShutInv, Skip(p) PROVE ShutInv'
<1> USE DEF ShutInv, TeardownInv, LifespanTypeOK, Skip, At, journalVars, updateVars, metricsVars
<1>1. step \in 1..7 /\ Steps[step] = p /\ part[p] = "absent" /\ step' = step + 1
      /\ phase = "closing" /\ phase' = phase /\ part' = part
  BY StepsAre
<1>2. LifespanTypeOK'
  BY <1>1, StepsAre
<1>3. ASSUME NEW m \in 1..7, m < step' PROVE part'[Steps[m]] # "open"
  <2>1. m = step \/ m < step
    BY <1>1, <1>3
  <2> QED
    BY <1>1, <2>1, StepsAre
<1>4. ASSUME NEW m \in 1..7, part'[Steps[m]] \in {"closed", "failed"} PROVE m < step'
  BY <1>1, <1>4, StepsAre
<1> QED
  BY <1>1, <1>2, <1>3, <1>4, StepsAre

LEMMA ShutJournalCloses == ShutInv /\ JournalCloses => ShutInv'
<1> SUFFICES ASSUME ShutInv, JournalCloses PROVE ShutInv'
  OBVIOUS
<1>1. step = 6 /\ phase = "closing"
  BY StepsAre, PartIs DEF ShutInv, LifespanTypeOK, JournalCloses, At
<1> QED
  BY <1>1 DEF ShutInv, LifespanTypeOK, TeardownInv, JournalCloses, CloseJournal, lifespanVars,
     updateVars, metricsVars

-----------------------------------------------------------------------------
(* The journal *)

LEMMA JournalSameInv == JournalInv /\ UNCHANGED journalVars => JournalInv'
<1> SUFFICES ASSUME JournalInv, UNCHANGED journalVars PROVE JournalInv'
  OBVIOUS
<1>1. UNCHANGED <<recorded, memory, queue, writer, line, shifting, files, ready, shut, answer,
                  counted, life, former, past, gone>>
  BY DEF journalVars, lossVars
<1>2. LossInv'
  <2>1. Missing' = Missing /\ FormerMissing' = FormerMissing
    BY <1>1 DEF Missing, FormerMissing, Kept, Pending
  <2> QED
    BY <1>1, <2>1 DEF JournalInv, LossInv
<1>3. JournalTypeOK' /\ OrderInv' /\ CloseInv'
  BY <1>1 DEF JournalInv, JournalTypeOK, OrderInv, HistoryInOrder, FilesInOrder, FilesBelow,
     CloseInv
<1> QED
  BY <1>2, <1>3 DEF JournalInv

LEMMA MaxFilesIs == MaxFiles \in 1..4 /\ MaxFiles \in Nat
BY JournalAssumption

LEMMA IdsAre ==
    ASSUME NEW file
    PROVE  Ids(file) = {file[m].id : m \in DOMAIN file}
BY DEF Ids, Range

LEMMA AtMost ==
    ASSUME NEW S, IsFiniteSet(S), NEW T \in SUBSET S, NEW n \in Nat, Cardinality(S) <= n
    PROVE  IsFiniteSet(T) /\ Cardinality(T) \in Nat /\ Cardinality(T) <= n
BY FS_Subset, FS_CardinalityType

LEMMA OneMore ==
    ASSUME NEW S, IsFiniteSet(S), NEW x
    PROVE  /\ IsFiniteSet(S \cup {x}) /\ Cardinality(S) \in Nat
           /\ Cardinality(S \cup {x}) \in Nat /\ Cardinality(S \cup {x}) <= Cardinality(S) + 1
<1>1. Cardinality(S) \in Nat
  BY FS_CardinalityType
<1> QED
  BY <1>1, FS_AddElement

LEMMA MissingIsFinite ==
    ASSUME JournalTypeOK
    PROVE  /\ IsFiniteSet(Missing) /\ Cardinality(Missing) \in Nat
           /\ IsFiniteSet(FormerMissing) /\ Cardinality(FormerMissing) \in Nat
<1>1. recorded \in Nat /\ Missing \subseteq 1..recorded /\ FormerMissing \subseteq 1..recorded
  BY DEF JournalTypeOK, Missing, FormerMissing
<1>2. IsFiniteSet(1..recorded)
  BY <1>1, FS_Interval
<1>3. IsFiniteSet(Missing) /\ IsFiniteSet(FormerMissing)
  BY <1>1, <1>2, FS_Subset
<1> QED
  BY <1>3, FS_CardinalityType

\* a step that leaves every event where it still is, or where it is accounted for
LEMMA NothingLost ==
    ASSUME JournalTypeOK, LossInv,
           Kept \cup gone \subseteq Kept' \cup gone',
           Pending \subseteq Pending' \cup Kept' \cup gone',
           UNCHANGED <<counted, life, former, past>>
    PROVE  Cardinality(Missing') <= counted' /\ Cardinality(FormerMissing') <= past'
<1>1. Missing' \in SUBSET Missing /\ FormerMissing' \in SUBSET FormerMissing
  BY DEF Missing, FormerMissing
<1>2. counted \in Nat /\ past \in Nat /\ Cardinality(Missing) <= counted
      /\ Cardinality(FormerMissing) <= past
  BY DEF JournalTypeOK, LossInv
<1>3. IsFiniteSet(Missing) /\ IsFiniteSet(FormerMissing)
  BY MissingIsFinite
<1> HIDE DEF Missing, FormerMissing
<1> QED
  BY <1>1, <1>2, <1>3, AtMost

\* a step that gives one event up, and counts it
LEMMA OneLost ==
    ASSUME JournalTypeOK, LossInv, NEW id, NEW more \in Nat, more >= 1,
           Kept' = Kept, Pending \subseteq Pending' \cup {id}, life' \subseteq life \cup {id},
           counted' = counted + more, UNCHANGED <<former, past, gone>>
    PROVE  Cardinality(Missing') <= counted' /\ Cardinality(FormerMissing') <= past'
<1>1. Missing' \in SUBSET (Missing \cup {id}) /\ FormerMissing' = FormerMissing
  BY DEF Missing, FormerMissing
<1>2. counted \in Nat /\ Cardinality(Missing) <= counted /\ Cardinality(FormerMissing) <= past
  BY DEF JournalTypeOK, LossInv
<1>3. IsFiniteSet(Missing)
  BY MissingIsFinite
<1> HIDE DEF Missing, FormerMissing
<1>4. /\ IsFiniteSet(Missing \cup {id}) /\ Cardinality(Missing) \in Nat
      /\ Cardinality(Missing \cup {id}) <= Cardinality(Missing) + 1
      /\ Cardinality(Missing \cup {id}) \in Nat
  BY <1>3, OneMore
<1>5. Cardinality(Missing \cup {id}) <= counted + more /\ counted + more \in Nat
  BY <1>2, <1>4
<1>6. Cardinality(Missing') <= counted + more
  BY <1>1, <1>4, <1>5, AtMost
<1> QED
  BY <1>1, <1>2, <1>6

LEMMA JournalInitInv == JournalInit => JournalInv
<1> SUFFICES ASSUME JournalInit PROVE JournalInv
  OBVIOUS
<1>1. PICK left \in {<<>>, <<[id |-> 0, size |-> 1, kind |-> "foreign"]>>} :
          files = [i \in 0..MaxFiles |-> IF i = 0 THEN left ELSE <<>>]
  BY DEF JournalInit
<1>2. left \in Seq(FileLine) /\ \A m \in DOMAIN left : m = 1 /\ left[m].id = 0
  <2> DEFINE foreign == [id |-> 0, size |-> 1, kind |-> "foreign"]
  <2>1. foreign \in FileLine /\ foreign.id = 0
    BY DEF FileLine
  <2> HIDE DEF foreign
  <2>2. <<foreign>> \in Seq(FileLine) /\ <<foreign>>[1] = foreign /\ DOMAIN <<foreign>> = {1}
    BY <2>1
  <2>3. left = <<>> \/ left = <<foreign>>
    BY <1>1 DEF foreign
  <2>4. CASE left = <<>>
    BY <2>4
  <2>5. CASE left = <<foreign>>
    BY <2>1, <2>2, <2>5
  <2> QED
    BY <2>3, <2>4, <2>5
<1>3. <<>> \in Seq(FileLine) /\ <<>> \in Seq(Nat) /\ <<>> \in Seq(JournalLine)
      /\ DOMAIN <<>> = {}
  OBVIOUS
<1>4. files \in [0..MaxFiles -> Seq(FileLine)]
  BY <1>1, <1>2, <1>3
<1>5. NoLine \in JournalLine
  BY DEF NoLine, JournalLine
<1>6. \A i \in 0..MaxFiles : i # 0 => DOMAIN files[i] = {}
  BY <1>1, <1>3
<1>7. \A i \in 0..MaxFiles : \A m \in DOMAIN files[i] : i = 0 /\ m = 1 /\ files[i][m].id = 0
  <2> SUFFICES ASSUME NEW i \in 0..MaxFiles, NEW m \in DOMAIN files[i]
               PROVE  i = 0 /\ m = 1 /\ files[i][m].id = 0
    OBVIOUS
  <2>1. i = 0
    BY <1>6
  <2>2. files[0] = left
    BY <1>1, MaxFilesIs
  <2> QED
    BY <1>2, <2>1, <2>2
<1>8. JournalTypeOK
  BY <1>3, <1>4, <1>5 DEF JournalInit, JournalTypeOK
<1>9. OrderInv
  BY <1>3, <1>7 DEF JournalInit, OrderInv, HistoryInOrder, FilesInOrder, FilesBelow, OlderLine,
     Writing
<1>10. LossInv
  <2>1. Missing = {} /\ FormerMissing = {} /\ Cardinality({}) = 0
    BY FS_EmptySet DEF JournalInit, Missing, FormerMissing
  <2> QED
    BY <1>3, <2>1, JournalAssumption DEF JournalInit, LossInv, Writing
<1>11. CloseInv
  BY DEF JournalInit, CloseInv
<1> QED
  BY <1>8, <1>9, <1>10, <1>11 DEF JournalInv

LEMMA JournalDiesInv == JournalInv /\ JournalDies => JournalInv'
<1> SUFFICES ASSUME JournalInv, JournalDies PROVE JournalInv'
  OBVIOUS
<1>1. <<>> \in Seq(Nat) /\ <<>> \in Seq(JournalLine) /\ DOMAIN <<>> = {} /\ Len(<<>>) = 0
  OBVIOUS
<1>2. NoLine \in JournalLine
  BY DEF NoLine, JournalLine
<1>3. JournalTypeOK'
  <2>1. /\ past \in Nat /\ counted \in Nat
        /\ life \in SUBSET (1..recorded) /\ former \in SUBSET (1..recorded)
    BY DEF JournalInv, JournalTypeOK
  <2>2. past' \in Nat /\ former' \in SUBSET (1..recorded) /\ recorded' = recorded
    BY <2>1 DEF JournalDies
  <2> QED
    BY <1>1, <1>2, <2>2 DEF JournalDies, JournalInv, JournalTypeOK
<1>4. OrderInv'
  BY <1>1 DEF JournalDies, JournalInv, OrderInv, HistoryInOrder, FilesInOrder, FilesBelow, Writing
<1>5. LossInv'
  <2>1. Cardinality(FormerMissing') <= past'
    <3>1. /\ IsFiniteSet(Missing) /\ Cardinality(Missing) \in Nat
          /\ IsFiniteSet(FormerMissing) /\ Cardinality(FormerMissing) \in Nat
      BY MissingIsFinite DEF JournalInv
    <3>2. FormerMissing' \in SUBSET (Missing \cup FormerMissing)
      BY DEF JournalDies, Missing, FormerMissing, Kept
    <3>3. /\ counted \in Nat /\ past \in Nat /\ past' = past + counted
          /\ Cardinality(Missing) <= counted /\ Cardinality(FormerMissing) <= past
      BY DEF JournalDies, JournalInv, JournalTypeOK, LossInv
    <3> HIDE DEF Missing, FormerMissing
    <3>4. /\ IsFiniteSet(Missing \cup FormerMissing)
          /\ Cardinality(Missing \cup FormerMissing)
                = Cardinality(Missing) + Cardinality(FormerMissing)
                  - Cardinality(Missing \cap FormerMissing)
          /\ Cardinality(Missing \cap FormerMissing) \in Nat
      BY <3>1, FS_Union, FS_Intersection, FS_CardinalityType
    <3>5. Cardinality(Missing \cup FormerMissing) <= past + counted /\ past + counted \in Nat
      BY <3>1, <3>3, <3>4
    <3> QED
      BY <3>2, <3>3, <3>4, <3>5, AtMost
  <2>2. Missing' = {} /\ Cardinality({}) = 0
    BY FS_EmptySet DEF JournalDies, Missing
  <2> QED
    BY <1>1, <2>1, <2>2, JournalAssumption DEF JournalDies, LossInv, Writing
<1>6. CloseInv'
  BY DEF JournalDies, CloseInv
<1> QED
  BY <1>3, <1>4, <1>5, <1>6 DEF JournalInv

LEMMA CloseJournalInv == JournalInv /\ CloseJournal => JournalInv'
<1> SUFFICES ASSUME JournalInv, CloseJournal PROVE JournalInv'
  OBVIOUS
<1>1. UNCHANGED <<recorded, memory, queue, writer, line, shifting, files, ready,
                  counted, life, former, past, gone>>
  BY DEF CloseJournal, lossVars
<1>2. Missing' = Missing /\ FormerMissing' = FormerMissing
  BY <1>1 DEF Missing, FormerMissing, Kept, Pending
<1>3. JournalTypeOK' /\ OrderInv' /\ CloseInv'
  BY <1>1 DEF JournalInv, JournalTypeOK, OrderInv, HistoryInOrder, FilesInOrder, FilesBelow,
     CloseInv, CloseJournal
<1> QED
  BY <1>1, <1>2, <1>3 DEF JournalInv, LossInv

LEMMA JournalClosedInv == JournalInv /\ JournalClosed => JournalInv'
<1> SUFFICES ASSUME JournalInv, JournalClosed PROVE JournalInv'
  OBVIOUS
<1>1. UNCHANGED <<recorded, memory, queue, writer, line, shifting, files, ready, shut,
                  counted, life, former, past, gone>>
  BY DEF JournalClosed, lossVars
<1>2. Missing' = Missing /\ FormerMissing' = FormerMissing
  BY <1>1 DEF Missing, FormerMissing, Kept, Pending
<1>3. JournalTypeOK' /\ OrderInv' /\ CloseInv'
  BY <1>1 DEF JournalInv, JournalTypeOK, OrderInv, HistoryInOrder, FilesInOrder, FilesBelow,
     CloseInv, JournalClosed, Finished
<1> QED
  BY <1>1, <1>2, <1>3 DEF JournalInv, LossInv

LEMMA WriterExitsInv == JournalInv /\ WriterExits => JournalInv'
<1> SUFFICES ASSUME JournalInv, WriterExits PROVE JournalInv'
  OBVIOUS
<1>1. UNCHANGED <<recorded, memory, queue, line, shifting, files, ready, shut, answer,
                  counted, life, former, past, gone>>
  BY DEF WriterExits, lossVars
<1>2. Missing' = Missing /\ FormerMissing' = FormerMissing
  BY <1>1 DEF WriterExits, Missing, FormerMissing, Kept, Pending, Writing
<1>3. JournalTypeOK' /\ OrderInv' /\ CloseInv'
  BY <1>1 DEF JournalInv, JournalTypeOK, OrderInv, HistoryInOrder, FilesInOrder, FilesBelow,
     CloseInv, WriterExits, Writing
<1> QED
  BY <1>1, <1>2, <1>3 DEF JournalInv, LossInv, WriterExits, Writing

LEMMA StatInv == JournalInv /\ Stat => JournalInv'
<1> SUFFICES ASSUME JournalInv, Stat PROVE JournalInv'
  OBVIOUS
<1>1. /\ UNCHANGED <<recorded, memory, queue, line, files, ready, shut, answer,
                     counted, life, former, past, gone>>
      /\ writer = "stat" /\ writer' \in {"rotate", "append"}
  BY DEF Stat, lossVars
<1>2. Missing' = Missing /\ FormerMissing' = FormerMissing
  BY <1>1 DEF Missing, FormerMissing, Kept, Pending, Writing
<1>3. Size(files[0])' = Size(files[0])
  BY <1>1
<1>4. JournalTypeOK'
  BY <1>1, MaxFilesIs DEF JournalInv, JournalTypeOK, Stat, Writing
<1>5. OrderInv'
  BY <1>1 DEF JournalInv, OrderInv, HistoryInOrder, FilesInOrder, FilesBelow, Writing
<1>6. LossInv'
  BY <1>1, <1>2, <1>3, MaxFilesIs DEF JournalInv, LossInv, Stat, Writing
<1>7. CloseInv'
  BY <1>1 DEF JournalInv, CloseInv
<1> QED
  BY <1>4, <1>5, <1>6, <1>7 DEF JournalInv

-----------------------------------------------------------------------------
(* What the journal keeps in memory *)

Ascending(events) == \A m, k \in DOMAIN events : m < k => events[m] < events[k]

\* the newest events of an ascending history
LEMMA BoundedIs ==
    ASSUME NEW events \in Seq(Nat), NEW top \in Nat, Ascending(events),
           \A m \in DOMAIN events : events[m] <= top
    PROVE  /\ Bounded(events) \in Seq(Nat) /\ Ascending(Bounded(events))
           /\ \A m \in DOMAIN Bounded(events) : Bounded(events)[m] <= top
<1>1. CASE Len(events) <= MemoryLimit
  BY <1>1 DEF Bounded
<1>2. CASE ~(Len(events) <= MemoryLimit)
  <2> DEFINE shift == Len(events) - MemoryLimit
             newest == SubSeq(events, shift + 1, Len(events))
  <2>1. Bounded(events) = newest
    BY <1>2 DEF Bounded
  <2>2. /\ shift \in Nat /\ Len(events) \in Nat /\ shift <= Len(events)
        /\ DOMAIN events = 1..Len(events)
    BY <1>2, JournalAssumption
  <2> HIDE DEF shift
  <2>3. /\ newest \in Seq(Nat) /\ DOMAIN newest = 1..(Len(events) - shift)
        /\ \A m \in 1..(Len(events) - shift) : newest[m] = events[m + shift]
    BY <2>2
  <2> HIDE DEF newest
  <2>4. \A m \in DOMAIN newest :
           m \in Nat /\ m + shift \in DOMAIN events /\ newest[m] = events[m + shift]
    BY <2>2, <2>3
  <2>5. Ascending(newest)
    <3> SUFFICES ASSUME NEW m \in DOMAIN newest, NEW k \in DOMAIN newest, m < k PROVE newest[m] < newest[k]
      BY DEF Ascending
    <3>1. m + shift < k + shift
      BY <2>2, <2>4
    <3> QED
      BY <2>4, <3>1 DEF Ascending
  <2> QED
    BY <2>1, <2>3, <2>4, <2>5
<1> QED
  BY <1>1, <1>2

\* a set of numbers that is not empty has a least one
LEMMA LeastOf ==
    ASSUME NEW S, S \subseteq Nat, S # {}
    PROVE  \E least \in S : \A x \in S : least <= x
<1> DEFINE R == OpToRel(<, Nat)
<1>1. \A x, y \in Nat : <<x, y>> \in R <=> x < y
  BY DEF OpToRel
<1>2. IsWellFoundedOn(R, Nat)
  BY NatLessThanWellFounded
<1> HIDE DEF R
<1>3. PICK least \in S : \A x \in S : ~(<<x, least>> \in R)
  BY <1>2, WFMin
<1>4. \A x \in S : ~(x < least)
  BY <1>1, <1>3
<1> QED
  BY <1>4

\* the k-th member of a set of places is one that has k of them up to it
LEMMA RankIs ==
    ASSUME NEW n \in Nat, NEW R \in SUBSET (1..n), NEW k \in 1..Cardinality(R)
    PROVE  \E i \in R : Cardinality({j \in 1..i : j \in R}) = k
<1> DEFINE Upto(i) == {j \in 1..i : j \in R}
           rank == [i \in 0..n |-> Cardinality(Upto(i))]
<1>1. IsFiniteSet(R) /\ Cardinality(R) \in Nat /\ k \in Nat /\ k >= 1 /\ k <= Cardinality(R)
  <2>1. IsFiniteSet(1..n)
    BY FS_Interval
  <2>2. IsFiniteSet(R)
    BY <2>1, FS_Subset
  <2>3. Cardinality(R) \in Nat
    BY <2>2, FS_CardinalityType
  <2> QED
    BY <2>2, <2>3
<1>2. \A i \in 0..n : Upto(i) \subseteq R /\ IsFiniteSet(Upto(i))
  BY <1>1, FS_Subset
<1>3. \A i \in 1..n : /\ rank[i] \in Nat /\ rank[i - 1] \in Nat
                      /\ rank[i] = IF i \in R THEN rank[i - 1] + 1 ELSE rank[i - 1]
  <2> SUFFICES ASSUME NEW i \in 1..n
               PROVE  /\ rank[i] \in Nat /\ rank[i - 1] \in Nat
                      /\ rank[i] = IF i \in R THEN rank[i - 1] + 1 ELSE rank[i - 1]
    OBVIOUS
  <2>1. i \in 0..n /\ i - 1 \in 0..n
    OBVIOUS
  <2>2. /\ rank[i] = Cardinality(Upto(i)) /\ rank[i - 1] = Cardinality(Upto(i - 1))
        /\ IsFiniteSet(Upto(i)) /\ IsFiniteSet(Upto(i - 1))
    BY <1>2, <2>1
  <2>3. Upto(i) = IF i \in R THEN Upto(i - 1) \cup {i} ELSE Upto(i - 1)
    <3>1. \A j : j \in 1..i <=> j \in 1..(i - 1) \/ j = i
      OBVIOUS
    <3> QED
      BY <3>1
  <2>4. i \notin Upto(i - 1)
    OBVIOUS
  <2> HIDE DEF rank, Upto
  <2> QED
    BY <2>2, <2>3, <2>4, FS_AddElement, FS_CardinalityType
<1>4. rank[0] = 0
  <2>1. Upto(0) = {} /\ 0 \in 0..n
    OBVIOUS
  <2> QED
    BY <2>1, FS_EmptySet
<1>5. rank[n] = Cardinality(R) /\ n >= 1
  <2>1. Upto(n) = R
    <3>1. \A j : j \in R => j \in 1..n
      OBVIOUS
    <3> QED
      BY <3>1
  <2>2. n \in 0..n
    OBVIOUS
  <2>3. rank[n] = Cardinality(R)
    BY <2>1, <2>2
  <2>4. n # 0
    BY <1>1, <1>4, <2>3
  <2> QED
    BY <2>3, <2>4
<1>6. \A i \in R : rank[i] = Cardinality({j \in 1..i : j \in R})
  OBVIOUS
<1> HIDE DEF rank
<1> DEFINE enough == {i \in 1..n : rank[i] >= k}
<1>7. n \in enough /\ enough \subseteq Nat
  BY <1>1, <1>5
<1>8. PICK i \in enough : \A j \in enough : i <= j
  BY <1>7, LeastOf
<1>9. rank[i - 1] < k
  <2>1. CASE i = 1
    BY <1>1, <1>4, <2>1
  <2>2. CASE i # 1
    <3>1. i - 1 \in 1..n /\ ~(i <= i - 1)
      BY <2>2
    <3>2. i - 1 \notin enough
      BY <1>8, <3>1
    <3> QED
      BY <1>1, <1>3, <3>1, <3>2
  <2> QED
    BY <2>1, <2>2
<1>10. i \in R /\ rank[i] = k
  BY <1>1, <1>3, <1>8, <1>9
<1> QED
  BY <1>6, <1>10

\* the events of a file are those of its lines, in their order
LEMMA EventsOfIs ==
    ASSUME NEW file \in Seq(FileLine),
           \A m, k \in DOMAIN file : m < k => file[m].id < file[k].id
    PROVE  /\ EventsOf(file) \in Seq(Nat) /\ Ascending(EventsOf(file))
           /\ \A k \in DOMAIN EventsOf(file) : \E m \in DOMAIN file : EventsOf(file)[k] = file[m].id
<1> DEFINE R == {i \in DOMAIN file : Readable(file, i)}
           Rank(i) == Cardinality({j \in 1..i : Readable(file, j)})
           place == [k \in 1..Cardinality(R) |->
                        CHOOSE i \in DOMAIN file : Readable(file, i) /\ Rank(i) = k]
<1>1. Len(file) \in Nat /\ DOMAIN file = 1..Len(file) /\ R \subseteq 1..Len(file)
      /\ \A m \in DOMAIN file : file[m].id \in Nat
  <2>1. Len(file) \in Nat /\ DOMAIN file = 1..Len(file)
    OBVIOUS
  <2>2. \A m \in DOMAIN file : file[m] \in FileLine
    OBVIOUS
  <2>3. \A m \in DOMAIN file : file[m].id \in Nat
    BY <2>2 DEF FileLine
  <2> QED
    BY <2>1, <2>3
<1>2. Cardinality(R) \in Nat
  <2>1. IsFiniteSet(1..Len(file))
    BY <1>1, FS_Interval
  <2> HIDE DEF R
  <2>2. IsFiniteSet(R)
    BY <1>1, <2>1, FS_Subset
  <2> QED
    BY <2>2, FS_CardinalityType
<1>3. \A i \in DOMAIN file : Rank(i) = Cardinality({j \in 1..i : j \in R})
  <2> SUFFICES ASSUME NEW i \in DOMAIN file
               PROVE  {j \in 1..i : Readable(file, j)} = {j \in 1..i : j \in R}
    OBVIOUS
  <2>1. \A j \in 1..i : j \in DOMAIN file
    BY <1>1
  <2> QED
    BY <2>1
<1>4. \A k \in 1..Cardinality(R) : place[k] \in DOMAIN file /\ Rank(place[k]) = k
  <2> SUFFICES ASSUME NEW k \in 1..Cardinality(R)
               PROVE  place[k] \in DOMAIN file /\ Rank(place[k]) = k
    OBVIOUS
  <2>1. \E i \in R : Cardinality({j \in 1..i : j \in R}) = k
    BY <1>1, RankIs
  <2>2. \E i \in DOMAIN file : Readable(file, i) /\ Rank(i) = k
    BY <1>3, <2>1
  <2>3. place[k] = CHOOSE i \in DOMAIN file : Readable(file, i) /\ Rank(i) = k
    OBVIOUS
  <2> HIDE DEF place, Rank
  <2> QED
    BY <2>2, <2>3
<1>5. \A i, j \in DOMAIN file : i <= j => Rank(i) <= Rank(j) /\ Rank(i) \in Nat /\ Rank(j) \in Nat
  <2> SUFFICES ASSUME NEW i \in DOMAIN file, NEW j \in DOMAIN file, i <= j
               PROVE  Rank(i) <= Rank(j) /\ Rank(i) \in Nat /\ Rank(j) \in Nat
    OBVIOUS
  <2>1. /\ {l \in 1..i : Readable(file, l)} \subseteq {l \in 1..j : Readable(file, l)}
        /\ {l \in 1..j : Readable(file, l)} \subseteq 1..j /\ j \in Nat
    BY <1>1
  <2>2. IsFiniteSet(1..j)
    BY <2>1, FS_Interval
  <2>3. IsFiniteSet({l \in 1..j : Readable(file, l)})
    BY <2>1, <2>2, FS_Subset
  <2> QED
    BY <2>1, <2>3, FS_Subset, FS_CardinalityType
<1>6. EventsOf(file) = [k \in 1..Cardinality(R) |-> file[place[k]].id]
  BY DEF EventsOf
<1> HIDE DEF place, Rank, R
<1>7. \A k \in 1..Cardinality(R) :
         EventsOf(file)[k] = file[place[k]].id /\ EventsOf(file)[k] \in Nat
  BY <1>1, <1>4, <1>6
<1>8. EventsOf(file) \in Seq(Nat) /\ DOMAIN EventsOf(file) = 1..Cardinality(R)
  BY <1>2, <1>6, <1>7
<1>9. \A k, l \in 1..Cardinality(R) : k < l => place[k] < place[l]
  <2> SUFFICES ASSUME NEW k \in 1..Cardinality(R), NEW l \in 1..Cardinality(R), k < l,
                      ~(place[k] < place[l])
               PROVE  FALSE
    OBVIOUS
  <2>1. place[l] <= place[k] /\ place[k] \in DOMAIN file /\ place[l] \in DOMAIN file
    BY <1>1, <1>4
  <2>2. l <= k
    BY <1>4, <1>5, <2>1
  <2> QED
    BY <2>2
<1>10. Ascending(EventsOf(file))
  <2> SUFFICES ASSUME NEW k \in 1..Cardinality(R), NEW l \in 1..Cardinality(R), k < l
               PROVE  EventsOf(file)[k] < EventsOf(file)[l]
    BY <1>8 DEF Ascending
  <2>1. /\ place[k] \in DOMAIN file /\ place[l] \in DOMAIN file /\ place[k] < place[l]
        /\ EventsOf(file)[k] = file[place[k]].id /\ EventsOf(file)[l] = file[place[l]].id
    BY <1>4, <1>7, <1>9
  <2> QED
    BY <2>1
<1>11. \A k \in DOMAIN EventsOf(file) : \E m \in DOMAIN file : EventsOf(file)[k] = file[m].id
  BY <1>4, <1>7, <1>8
<1> QED
  BY <1>8, <1>10, <1>11

\* events of the files from the oldest down to the i-th
FromFiles(events, i) ==
    /\ events \in Seq(Nat) /\ Ascending(events)
    /\ \A k \in DOMAIN events : \E j \in 0..MaxFiles : \E m \in DOMAIN files[j] :
          j >= i /\ events[k] = files[j][m].id

\* the events of one more file come after those of the older files
LEMMA LoadOneMore ==
    ASSUME JournalTypeOK, OrderInv, NEW i \in Nat, NEW events, FromFiles(events, i + 1),
           NEW more, more = <<>> \/ (i <= MaxFiles /\ more = EventsOf(files[i]))
    PROVE  FromFiles(events \o more, i)
<1>1. CASE more = <<>>
  <2>1. events \o more = events
    BY <1>1 DEF FromFiles
  <2> QED
    BY <2>1 DEF FromFiles
<1>2. CASE i <= MaxFiles /\ more = EventsOf(files[i])
  <2>1. i \in 0..MaxFiles /\ files[i] \in Seq(FileLine)
        /\ \A m, k \in DOMAIN files[i] : m < k => files[i][m].id < files[i][k].id
    BY <1>2, MaxFilesIs DEF JournalTypeOK, OrderInv, FilesInOrder, OlderLine
  <2>2. /\ more \in Seq(Nat) /\ Ascending(more)
        /\ \A k \in DOMAIN more : \E m \in DOMAIN files[i] : more[k] = files[i][m].id
    BY <1>2, <2>1, EventsOfIs
  <2>3. \A k \in DOMAIN events, l \in DOMAIN more : events[k] < more[l]
    <3> SUFFICES ASSUME NEW k \in DOMAIN events, NEW l \in DOMAIN more PROVE events[k] < more[l]
      OBVIOUS
    <3>1. PICK j \in 0..MaxFiles :
             \E m \in DOMAIN files[j] : j >= i + 1 /\ events[k] = files[j][m].id
      BY DEF FromFiles
    <3>2. PICK m \in DOMAIN files[j] : j >= i + 1 /\ events[k] = files[j][m].id
      BY <3>1
    <3>3. PICK o \in DOMAIN files[i] : more[l] = files[i][o].id
      BY <2>2
    <3>4. j > i
      BY <3>2, MaxFilesIs
    <3> QED
      BY <2>1, <3>2, <3>3, <3>4 DEF OrderInv, FilesInOrder, OlderLine
  <2> DEFINE both == events \o more
  <2>4. /\ events \in Seq(Nat) /\ Len(events) \in Nat /\ Len(more) \in Nat /\ both \in Seq(Nat)
        /\ DOMAIN events = 1..Len(events) /\ DOMAIN more = 1..Len(more)
        /\ DOMAIN both = 1..(Len(events) + Len(more))
        /\ \A k \in 1..Len(events) : both[k] = events[k]
        /\ \A k \in 1..Len(more) : both[Len(events) + k] = more[k]
    BY <2>2 DEF FromFiles
  <2> HIDE DEF both
  <2>5. \A k \in DOMAIN both :
           \/ k \in DOMAIN events /\ both[k] = events[k]
           \/ /\ k - Len(events) \in DOMAIN more /\ both[k] = more[k - Len(events)]
              /\ \A l \in DOMAIN events : l < k
    <3> SUFFICES ASSUME NEW k \in DOMAIN both, k > Len(events)
                 PROVE  k - Len(events) \in DOMAIN more /\ both[k] = more[k - Len(events)]
      BY <2>4, SMTT(30)
    <3>1. k - Len(events) \in 1..Len(more) /\ Len(events) + (k - Len(events)) = k
      BY <2>4, SMTT(30)
    <3> QED
      BY <2>4, <3>1
  <2>6. Ascending(both)
    <3> SUFFICES ASSUME NEW k \in DOMAIN both, NEW l \in DOMAIN both, k < l PROVE both[k] < both[l]
      BY DEF Ascending
    <3>1. CASE l \in DOMAIN events
      <4>1. k \in DOMAIN events
        BY <2>4, <3>1
      <4> QED
        BY <2>4, <3>1, <4>1 DEF FromFiles, Ascending
    <3>2. CASE l \notin DOMAIN events /\ k \in DOMAIN events
      BY <2>3, <2>4, <2>5, <3>2
    <3>3. CASE l \notin DOMAIN events /\ k \notin DOMAIN events
      <4>1. /\ k - Len(events) \in DOMAIN more /\ both[k] = more[k - Len(events)]
            /\ l - Len(events) \in DOMAIN more /\ both[l] = more[l - Len(events)]
            /\ k - Len(events) < l - Len(events)
        BY <2>4, <2>5, <3>3
      <4> QED
        BY <2>2, <4>1 DEF Ascending
    <3> QED
      BY <3>1, <3>2, <3>3
  <2>7. ASSUME NEW k \in DOMAIN both
        PROVE  \E j \in 0..MaxFiles : \E m \in DOMAIN files[j] : j >= i /\ both[k] = files[j][m].id
    <3>1. CASE k \in DOMAIN events /\ both[k] = events[k]
      <4>1. PICK j \in 0..MaxFiles :
               \E m \in DOMAIN files[j] : j >= i + 1 /\ events[k] = files[j][m].id
        BY <3>1 DEF FromFiles
      <4>2. PICK m \in DOMAIN files[j] : j >= i + 1 /\ events[k] = files[j][m].id
        BY <4>1
      <4>3. j >= i
        BY <4>2, MaxFilesIs
      <4> QED
        BY <3>1, <4>2, <4>3
    <3>2. CASE k - Len(events) \in DOMAIN more /\ both[k] = more[k - Len(events)]
      <4>1. PICK m \in DOMAIN files[i] : more[k - Len(events)] = files[i][m].id
        BY <2>2, <3>2
      <4> QED
        BY <2>1, <3>2, <4>1
    <3> QED
      BY <2>5, <3>1, <3>2
  <2> QED
    BY <2>4, <2>6, <2>7 DEF FromFiles, both
<1> QED
  BY <1>1, <1>2

\* what a process loads is in order, and older than what it will record
LEMMA LoadedIs ==
    ASSUME JournalTypeOK, OrderInv, NEW readable
    PROVE  /\ Loaded(readable) \in Seq(Nat) /\ Ascending(Loaded(readable))
           /\ \A k \in DOMAIN Loaded(readable) : Loaded(readable)[k] <= recorded
<1> DEFINE Events(i) == IF i < MaxFiles /\ i \in readable /\ Size(files[i]) <= MaxBytes
                        THEN EventsOf(files[i]) ELSE <<>>
<1>1. \A i \in Nat : Events(i) = <<>> \/ (i <= MaxFiles /\ Events(i) = EventsOf(files[i]))
  BY MaxFilesIs
<1>2. Loaded(readable) = <<>> \o Events(3) \o Events(2) \o Events(1) \o Events(0)
  <2>1. Events(3) \in Seq(Nat)
    <3> HIDE DEF Events
    <3>1. CASE Events(3) = <<>>
      <4>1. <<>> \in Seq(Nat)
        OBVIOUS
      <4> QED
        BY <3>1, <4>1
    <3>2. CASE Events(3) = EventsOf(files[3]) /\ 3 <= MaxFiles
      <4>1. 3 \in 0..MaxFiles /\ files[3] \in Seq(FileLine)
            /\ \A m, k \in DOMAIN files[3] : m < k => files[3][m].id < files[3][k].id
        BY <3>2, MaxFilesIs DEF JournalTypeOK, OrderInv, FilesInOrder, OlderLine
      <4> QED
        BY <3>2, <4>1, EventsOfIs
    <3>3. 3 \in Nat
      OBVIOUS
    <3> QED
      BY <1>1, <3>1, <3>2, <3>3
  <2>2. <<>> \o Events(3) = Events(3)
    <3> HIDE DEF Events
    <3> QED
      BY <2>1
  <2> QED
    BY <2>2 DEF Loaded
<1> HIDE DEF Events
<1>3. /\ 3 + 1 = 4 /\ 2 + 1 = 3 /\ 1 + 1 = 2 /\ 0 + 1 = 1
      /\ 3 \in Nat /\ 2 \in Nat /\ 1 \in Nat /\ 0 \in Nat
  OBVIOUS
<1>4. FromFiles(<<>>, 4)
  BY DEF FromFiles, Ascending
<1>5. FromFiles(<<>> \o Events(3), 3)
  BY <1>1, <1>4, <1>3, LoadOneMore
<1>6. FromFiles(<<>> \o Events(3) \o Events(2), 2)
  BY <1>1, <1>5, <1>3, LoadOneMore
<1>7. FromFiles(<<>> \o Events(3) \o Events(2) \o Events(1), 1)
  BY <1>1, <1>6, <1>3, LoadOneMore
<1>8. FromFiles(Loaded(readable), 0)
  BY <1>1, <1>2, <1>7, <1>3, LoadOneMore
<1>9. \A j \in 0..MaxFiles : \A m \in DOMAIN files[j] : files[j][m].id <= recorded
  <2> SUFFICES ASSUME NEW j \in 0..MaxFiles, NEW m \in DOMAIN files[j]
               PROVE  files[j][m].id <= recorded
    OBVIOUS
  <2>1. files[j][m] \in FileLine /\ recorded \in Nat /\ files[j][m].id < recorded + 1
    BY DEF JournalTypeOK, OrderInv, FilesBelow
  <2> QED
    BY <2>1 DEF FileLine
<1> QED
  BY <1>8, <1>9 DEF FromFiles

\* also when the loading stops in the middle
LEMMA PrefixIs ==
    ASSUME NEW events \in Seq(Nat), Ascending(events), NEW n \in 0..Len(events)
    PROVE  LET some == SubSeq(events, 1, n) IN
           /\ some \in Seq(Nat) /\ Ascending(some)
           /\ \A m \in DOMAIN some : m \in DOMAIN events /\ some[m] = events[m]
<1> DEFINE some == SubSeq(events, 1, n)
<1>1. n \in Nat /\ n <= Len(events) /\ Len(events) \in Nat /\ DOMAIN events = 1..Len(events)
  OBVIOUS
<1>2. some \in Seq(Nat) /\ DOMAIN some = 1..n /\ \A m \in 1..n : some[m] = events[m]
  BY <1>1
<1> HIDE DEF some
<1>3. \A m \in DOMAIN some : m \in DOMAIN events /\ some[m] = events[m]
  BY <1>1, <1>2
<1>4. Ascending(some)
  BY <1>3 DEF Ascending
<1> QED
  BY <1>2, <1>3, <1>4 DEF some

LEMMA JournalStartsInv == JournalInv /\ JournalStarts /\ life = {} => JournalInv'
<1> SUFFICES ASSUME JournalInv, JournalStarts, life = {} PROVE JournalInv'
  OBVIOUS
<1>1. PICK readable \in SUBSET (0..MaxFiles) : \E n \in 0..Len(Loaded(readable)) :
          memory' = Bounded(SubSeq(Loaded(readable), 1, n))
  BY DEF JournalStarts
<1>2. /\ ready' \in BOOLEAN
      /\ UNCHANGED <<recorded, queue, writer, line, shifting, files, shut, answer,
                     counted, life, former, past, gone>>
      /\ JournalTypeOK /\ OrderInv /\ LossInv /\ CloseInv
  BY DEF JournalStarts, JournalInv, lossVars
<1>3. /\ memory' \in Seq(Nat) /\ Ascending(memory')
      /\ \A m \in DOMAIN memory' : memory'[m] <= recorded
  <2> DEFINE loaded == Loaded(readable)
  <2>1. loaded \in Seq(Nat) /\ Ascending(loaded) /\ \A m \in DOMAIN loaded : loaded[m] <= recorded
    BY <1>2, LoadedIs
  <2>2. PICK n \in 0..Len(loaded) : memory' = Bounded(SubSeq(loaded, 1, n))
    BY <1>1
  <2> HIDE DEF loaded
  <2> DEFINE some == SubSeq(loaded, 1, n)
  <2>3. /\ some \in Seq(Nat) /\ Ascending(some)
        /\ \A m \in DOMAIN some : m \in DOMAIN loaded /\ some[m] = loaded[m]
    BY <2>1, PrefixIs
  <2>4. memory' = Bounded(some) /\ recorded \in Nat
    BY <1>2, <2>2 DEF JournalTypeOK
  <2> HIDE DEF some
  <2>5. \A m \in DOMAIN some : some[m] <= recorded
    BY <2>1, <2>3
  <2> QED
    BY <2>3, <2>4, <2>5, BoundedIs
<1>4. JournalTypeOK'
  BY <1>2, <1>3 DEF JournalTypeOK
<1>5. OrderInv'
  BY <1>2, <1>3 DEF OrderInv, HistoryInOrder, Ascending, FilesInOrder, FilesBelow
<1>6. LossInv'
  <2>1. Missing' = Missing /\ FormerMissing' = FormerMissing
    BY <1>2 DEF Missing, FormerMissing, Kept, Pending
  <2> QED
    BY <1>2, <2>1 DEF LossInv
<1>7. CloseInv'
  BY <1>2 DEF CloseInv
<1> QED
  BY <1>4, <1>5, <1>6, <1>7 DEF JournalInv

LEMMA BelowGrows ==
    ASSUME NEW low \in Nat, NEW high \in Nat, low <= high,
           files \in [0..MaxFiles -> Seq(FileLine)], FilesBelow(files, low)
    PROVE  FilesBelow(files, high)
<1> SUFFICES ASSUME NEW i \in 0..MaxFiles, NEW m \in DOMAIN files[i] PROVE files[i][m].id < high
  BY DEF FilesBelow
<1>1. files[i][m] \in FileLine /\ files[i][m].id < low
  BY DEF FilesBelow
<1> QED
  BY <1>1 DEF FileLine

LEMMA RecordInv == JournalInv /\ Record => JournalInv'
<1> SUFFICES ASSUME JournalInv, Record PROVE JournalInv'
  OBVIOUS
<1>1. PICK size \in {s \in Sizes : s <= MaxBytes} :
          /\ recorded' = recorded + 1
          /\ memory' = Bounded(Append(memory, recorded'))
          /\ Enqueue([id |-> recorded', size |-> size])
  BY DEF Record
<1> DEFINE entry == [id |-> recorded', size |-> size]
<1>2. entry \in JournalLine /\ entry.id = recorded + 1 /\ entry.size <= MaxBytes
      /\ recorded' = recorded + 1 /\ recorded \in Nat
  BY <1>1, JournalAssumption DEF JournalLine, JournalInv, JournalTypeOK
<1>3. Enqueue(entry)
  BY <1>1
<1> HIDE DEF entry
<1>4. /\ UNCHANGED <<line, shifting, files, ready, shut, answer, former, past, gone>>
      /\ JournalTypeOK /\ OrderInv /\ LossInv /\ CloseInv
  BY DEF Record, JournalInv
\* the memory: one more at its end, then its tail
<1>5. /\ memory' \in Seq(Nat)
      /\ \A m \in DOMAIN memory' : memory'[m] <= recorded'
      /\ \A m, k \in DOMAIN memory' : m < k => memory'[m] < memory'[k]
  <2> DEFINE longer == Append(memory, recorded + 1)
  <2>1. /\ longer \in Seq(Nat) /\ Len(longer) = Len(memory) + 1 /\ Len(memory) \in Nat
        /\ \A m \in 1..Len(longer) :
              longer[m] = IF m <= Len(memory) THEN memory[m] ELSE recorded + 1
    BY <1>2, <1>4 DEF JournalTypeOK
  <2>2. memory' = Bounded(longer)
    BY <1>1, <1>2
  <2> HIDE DEF longer
  <2>3. \A m \in 1..Len(memory) : memory[m] \in Nat /\ memory[m] <= recorded
    BY <1>4 DEF JournalTypeOK, OrderInv
  <2>4. \A m, k \in 1..Len(memory) : m < k => memory[m] < memory[k]
    BY <1>4 DEF JournalTypeOK, OrderInv, HistoryInOrder
  <2>5. \A m \in 1..Len(longer) : longer[m] \in Nat /\ longer[m] <= recorded + 1
    BY <1>2, <2>1, <2>3
  <2>6. \A m, k \in 1..Len(longer) : m < k => longer[m] < longer[k]
    BY <1>2, <2>1, <2>3, <2>4, SMTT(30)
  <2>7. Ascending(longer) /\ \A m \in DOMAIN longer : longer[m] <= recorded + 1
    BY <2>1, <2>5, <2>6 DEF Ascending
  <2>8. Ascending(memory') /\ memory' \in Seq(Nat)
        /\ \A m \in DOMAIN memory' : memory'[m] <= recorded + 1
    <3> DEFINE top == recorded + 1
    <3>1. top \in Nat /\ \A m \in DOMAIN longer : longer[m] <= top
      BY <1>2, <2>7
    <3> HIDE DEF top
    <3>2. /\ Bounded(longer) \in Seq(Nat) /\ Ascending(Bounded(longer))
          /\ \A m \in DOMAIN Bounded(longer) : Bounded(longer)[m] <= top
      BY <2>1, <2>7, <3>1, BoundedIs
    <3> QED
      BY <2>2, <3>2 DEF Ascending, top
  <2> QED
    BY <1>2, <2>8 DEF Ascending
\* the queue: one more at its end, or none
<1>6. writer \in Writing => writer' = writer
  BY <1>3, <1>4 DEF Enqueue, Writing, JournalTypeOK
<1>7. queue' \in {queue, Append(queue, entry)} /\ writer' \in {writer, "idle"}
  BY <1>3 DEF Enqueue
<1>8. /\ queue' \in Seq(JournalLine)
      /\ \A m \in DOMAIN queue' : (m \in DOMAIN queue /\ queue'[m] = queue[m])
                                  \/ (queue'[m] = entry /\ \A k \in DOMAIN queue : k < m)
      /\ \A m \in DOMAIN queue' : \A k \in DOMAIN queue' :
            m < k => m \in DOMAIN queue /\ queue'[m] = queue[m]
  <2>1. queue \in Seq(JournalLine)
    BY <1>4 DEF JournalTypeOK
  <2>2. CASE queue' = queue
    BY <2>1, <2>2
  <2>3. CASE queue' = Append(queue, entry)
    <3>1. /\ queue' \in Seq(JournalLine) /\ Len(queue') = Len(queue) + 1 /\ Len(queue) \in Nat
          /\ DOMAIN queue = 1..Len(queue) /\ DOMAIN queue' = 1..Len(queue')
          /\ \A m \in 1..Len(queue) : queue'[m] = queue[m]
          /\ queue'[Len(queue')] = entry
      BY <1>2, <2>1, <2>3
    <3> QED
      BY <3>1
  <2> QED
    BY <1>7, <2>2, <2>3
<1>9. OrderInv'
  <2>1. FilesInOrder(files') /\ FilesBelow(files', recorded' + 1) /\ FilesBelow(files', entry.id)
    <3>1. files \in [0..MaxFiles -> Seq(FileLine)] /\ FilesBelow(files, recorded + 1)
          /\ FilesInOrder(files)
      BY <1>4 DEF OrderInv, JournalTypeOK
    <3>2. FilesBelow(files, recorded + 1 + 1)
      BY <1>2, <3>1, BelowGrows
    <3> QED
      BY <1>2, <1>4, <3>1, <3>2
  <2>2. \A m \in DOMAIN queue : queue[m].id \in Nat /\ queue[m].id <= recorded
    <3>1. queue \in Seq(JournalLine)
      BY <1>4 DEF JournalTypeOK
    <3>2. \A m \in DOMAIN queue : queue[m] \in JournalLine
      BY <3>1
    <3> QED
      BY <1>4, <3>2 DEF OrderInv, JournalLine
  <2>3. \A m \in DOMAIN queue' : queue'[m].id <= recorded' /\ FilesBelow(files', queue'[m].id)
    <3> SUFFICES ASSUME NEW m \in DOMAIN queue'
                 PROVE  queue'[m].id <= recorded' /\ FilesBelow(files', queue'[m].id)
      OBVIOUS
    <3>1. CASE m \in DOMAIN queue /\ queue'[m] = queue[m]
      BY <1>2, <1>4, <2>2, <3>1 DEF OrderInv, FilesBelow
    <3>2. CASE queue'[m] = entry
      BY <1>2, <2>1, <3>2
    <3> QED
      BY <1>8, <3>1, <3>2
  <2>4. \A m, k \in DOMAIN queue' : m < k => queue'[m].id < queue'[k].id
    BY <1>2, <1>4, <1>8, <2>2 DEF OrderInv
  <2>5. writer' \in Writing =>
          /\ line'.id <= recorded' /\ FilesBelow(files', line'.id)
          /\ \A m \in DOMAIN queue' : line'.id < queue'[m].id
    <3> SUFFICES ASSUME writer' \in Writing
                 PROVE  /\ line'.id <= recorded' /\ FilesBelow(files', line'.id)
                        /\ \A m \in DOMAIN queue' : line'.id < queue'[m].id
      OBVIOUS
    <3>1. writer \in Writing
      BY <1>7 DEF Writing
    <3>2. line.id \in Nat /\ line.id <= recorded
      BY <1>4, <3>1 DEF OrderInv, JournalTypeOK, JournalLine
    <3> QED
      BY <1>2, <1>4, <1>8, <3>1, <3>2 DEF OrderInv, FilesBelow
  <2> QED
    BY <1>5, <2>1, <2>3, <2>4, <2>5 DEF OrderInv, HistoryInOrder
<1>10. JournalTypeOK'
  <2>1. /\ counted' \in Nat /\ life' \in SUBSET (1..recorded')
        /\ former' \in SUBSET (1..recorded') /\ past' \in Nat
    <3>1. /\ counted \in Nat /\ life \in SUBSET (1..recorded)
          /\ former \in SUBSET (1..recorded) /\ past \in Nat
      BY <1>4 DEF JournalTypeOK
    <3>2. counted' \in {counted, counted + 1, counted + 1 + 1}
      BY <1>3 DEF Enqueue, Drops
    <3>3. life' = life \/ life' = life \cup {entry.id}
      BY <1>3 DEF Enqueue
    <3>4. \A some \in SUBSET (1..recorded) :
             some \cup {entry.id} \in SUBSET (1..recorded') /\ some \in SUBSET (1..recorded')
      BY <1>2
    <3> QED
      BY <1>4, <3>1, <3>2, <3>3, <3>4
  <2>2. writer' \in {"none", "idle", "exited"} \cup Writing
    BY <1>4, <1>7 DEF JournalTypeOK
  <2> QED
    BY <1>2, <1>4, <1>5, <1>8, <2>1, <2>2 DEF JournalTypeOK
\* the event is queued, or it is counted
<1>11. LossInv'
  <2>1. Kept' = Kept
    BY <1>4 DEF Kept
  <2>2. Pending \subseteq Pending' /\ (queue' = Append(queue, entry) => entry.id \in Pending')
    <3>1. queue \in Seq(JournalLine)
      BY <1>4 DEF JournalTypeOK
    <3>2. \A m \in DOMAIN queue : m \in DOMAIN queue' /\ queue'[m] = queue[m]
      BY <1>2, <1>7, <3>1
    <3>3. queue' = Append(queue, entry) => \E m \in DOMAIN queue' : queue'[m] = entry
      <4>1. Len(queue) + 1 \in DOMAIN Append(queue, entry)
            /\ Append(queue, entry)[Len(queue) + 1] = entry
        BY <1>2, <3>1
      <4> QED
        BY <4>1
    <3>4. Ids(queue) \subseteq Ids(queue')
      <4>1. Ids(queue) = {queue[m].id : m \in DOMAIN queue}
            /\ Ids(queue') = {queue'[m].id : m \in DOMAIN queue'}
        BY DEF Ids, Range
      <4> QED
        BY <3>2, <4>1
    <3>5. queue' = Append(queue, entry) => entry.id \in Ids(queue')
      BY <3>3, IdsAre
    <3>6. writer \in Writing => writer' \in Writing /\ line' = line
      BY <1>4, <1>6
    <3> QED
      BY <3>4, <3>5, <3>6 DEF Pending
  <2>3. Cardinality(Missing') <= counted' /\ Cardinality(FormerMissing') <= past'
    <3>1. CASE life' = life /\ counted' = counted
      BY <1>4, <2>1, <2>2, <3>1, NothingLost
    <3>2. CASE queue' = Append(queue, entry) /\ counted' = counted
      <4>1. Missing' \in SUBSET Missing /\ FormerMissing' = FormerMissing
        BY <1>3, <1>4, <2>1, <2>2, <3>2 DEF Missing, FormerMissing, Enqueue
      <4>2. IsFiniteSet(Missing) /\ counted \in Nat /\ Cardinality(Missing) <= counted
            /\ Cardinality(FormerMissing) <= past
        BY <1>4, MissingIsFinite DEF LossInv, JournalTypeOK
      <4> HIDE DEF Missing, FormerMissing
      <4> QED
        BY <1>4, <3>2, <4>1, <4>2, AtMost
    <3>3. ASSUME NEW more \in 1..2, counted' = counted + more
          PROVE  Cardinality(Missing') <= counted' /\ Cardinality(FormerMissing') <= past'
      <4>1. life' \subseteq life \cup {entry.id}
        BY <1>3 DEF Enqueue
      <4>2. more \in Nat /\ more >= 1
        OBVIOUS
      <4> QED
        BY <1>4, <2>1, <2>2, <3>3, <4>1, <4>2, OneLost
    <3>4. \/ life' = life /\ counted' = counted
          \/ queue' = Append(queue, entry) /\ counted' = counted
          \/ \E more \in 1..2 : counted' = counted + more
      <4>1. counted \in Nat
        BY <1>4 DEF JournalTypeOK
      <4> QED
        BY <1>3, <4>1 DEF Enqueue, Drops
    <3> QED
      BY <3>1, <3>2, <3>3, <3>4
  <2>4. Len(queue') <= QueueLimit
    <3>1. Len(queue) <= QueueLimit /\ QueueLimit \in Nat /\ queue \in Seq(JournalLine)
      BY <1>4, JournalAssumption DEF LossInv, JournalTypeOK
    <3>2. queue' = queue \/ (queue' = Append(queue, entry) /\ Len(queue) < QueueLimit)
      BY <1>3 DEF Enqueue
    <3> QED
      BY <3>1, <3>2
  <2>5. ~ready' => life' = {}
    BY <1>3, <1>4 DEF Enqueue, LossInv
  <2> QED
    BY <1>2, <1>4, <1>6, <1>7, <1>8, <2>3, <2>4, <2>5 DEF LossInv, Writing
<1>12. CloseInv'
  BY <1>3, <1>4 DEF CloseInv, Enqueue, Record
<1> QED
  BY <1>9, <1>10, <1>11, <1>12 DEF JournalInv

\* the first line of the queue, and the others
LEMMA QueueSplits ==
    ASSUME JournalInv, queue # <<>>
    PROVE  /\ Head(queue) \in JournalLine /\ Tail(queue) \in Seq(JournalLine)
           /\ Head(queue) = queue[1] /\ 1 \in DOMAIN queue
           /\ \A m \in DOMAIN Tail(queue) :
                 m \in Nat /\ m + 1 \in DOMAIN queue /\ Tail(queue)[m] = queue[m + 1]
           /\ \A m \in DOMAIN queue :
                 m = 1 \/ (m - 1 \in DOMAIN Tail(queue) /\ Tail(queue)[m - 1] = queue[m])
<1>1. queue \in Seq(JournalLine)
  BY DEF JournalInv, JournalTypeOK
<1>2. /\ Len(queue) \in Nat /\ Len(queue) > 0 /\ DOMAIN queue = 1..Len(queue)
      /\ Tail(queue) \in Seq(JournalLine) /\ Len(Tail(queue)) = Len(queue) - 1
      /\ DOMAIN Tail(queue) = 1..(Len(queue) - 1)
      /\ \A m \in 1..(Len(queue) - 1) : Tail(queue)[m] = queue[m + 1]
      /\ Head(queue) = queue[1]
  BY <1>1
<1> QED
  BY <1>1, <1>2

LEMMA WriterTakesInv == JournalInv /\ WriterTakes => JournalInv'
<1> SUFFICES ASSUME JournalInv, WriterTakes PROVE JournalInv'
  OBVIOUS
<1>1. /\ writer = "idle" /\ queue # <<>> /\ queue' = Tail(queue)
      /\ IF ready THEN line' = Head(queue) /\ writer' = "stat" ELSE UNCHANGED <<line, writer>>
      /\ UNCHANGED <<recorded, memory, shifting, files, ready, shut, answer, counted, life, former,
                     past, gone>>
      /\ JournalTypeOK /\ OrderInv /\ LossInv /\ CloseInv
  BY DEF WriterTakes, JournalInv, lossVars
<1>2. /\ \A m \in DOMAIN queue' : m \in Nat /\ m + 1 \in DOMAIN queue /\ queue'[m] = queue[m + 1]
      /\ \A m \in DOMAIN queue : m = 1 \/ (m - 1 \in DOMAIN queue' /\ queue'[m - 1] = queue[m])
      /\ queue' \in Seq(JournalLine) /\ Head(queue) \in JournalLine
      /\ Head(queue) = queue[1] /\ 1 \in DOMAIN queue
  BY <1>1, QueueSplits
<1>3. JournalTypeOK'
  BY <1>1, <1>2 DEF JournalTypeOK, Writing
<1>4. OrderInv'
  <2>1. \A m \in DOMAIN queue' : queue'[m].id <= recorded' /\ FilesBelow(files', queue'[m].id)
    BY <1>1, <1>2 DEF OrderInv
  <2>2. \A m, k \in DOMAIN queue' : m < k => queue'[m].id < queue'[k].id
    BY <1>1, <1>2 DEF OrderInv
  <2>3. writer' \in Writing =>
          /\ line'.id <= recorded' /\ FilesBelow(files', line'.id)
          /\ \A m \in DOMAIN queue' : line'.id < queue'[m].id
    <3>1. \A m \in DOMAIN queue' : 1 < m + 1
      BY <1>2
    <3> QED
      BY <1>1, <1>2, <3>1 DEF OrderInv, Writing
  <2> QED
    BY <1>1, <2>1, <2>2, <2>3 DEF OrderInv, HistoryInOrder, FilesInOrder, FilesBelow
<1>5. LossInv'
  <2>1. ready => Pending \subseteq Pending'
    <3> SUFFICES ASSUME ready, NEW m \in DOMAIN queue PROVE queue[m].id \in Pending'
      BY <1>1, IdsAre DEF Pending, Writing
    <3>1. CASE m = 1
      BY <1>1, <1>2, <3>1 DEF Pending, Writing
    <3>2. CASE m # 1
      <4>1. m - 1 \in DOMAIN queue' /\ queue'[m - 1] = queue[m]
        BY <1>2, <3>2
      <4> QED
        BY <4>1, IdsAre DEF Pending
    <3> QED
      BY <3>1, <3>2
  <2>2. Kept' = Kept
    BY <1>1 DEF Kept
  <2>3. Cardinality(Missing') <= counted' /\ Cardinality(FormerMissing') <= past'
    <3>1. CASE ready
      BY <1>1, <2>1, <2>2, <3>1, NothingLost
    <3>2. CASE ~ready
      <4>1. Missing' = {} /\ Cardinality({}) = 0 /\ FormerMissing' = FormerMissing
        BY <1>1, <2>2, <3>2, FS_EmptySet DEF LossInv, Missing, FormerMissing
      <4> QED
        BY <1>1, <4>1 DEF LossInv, JournalTypeOK
    <3> QED
      BY <3>1, <3>2
  <2>4. Len(queue') <= QueueLimit
    <3>1. queue \in Seq(JournalLine) /\ queue # <<>> /\ queue' = Tail(queue)
          /\ Len(queue) <= QueueLimit /\ QueueLimit \in Nat
      BY <1>1, JournalAssumption DEF JournalTypeOK, LossInv
    <3> QED
      BY <3>1
  <2>5. ready => line'.size <= MaxBytes
    BY <1>1, <1>2 DEF LossInv
  <2>6. \A m \in DOMAIN queue' : queue'[m].size <= MaxBytes
    BY <1>1, <1>2 DEF LossInv
  <2> QED
    BY <1>1, <2>3, <2>4, <2>5, <2>6 DEF LossInv, Writing
<1>6. CloseInv'
  BY <1>1 DEF CloseInv
<1> QED
  BY <1>3, <1>4, <1>5, <1>6 DEF JournalInv

LEMMA SizeOfEmpty == Size(<<>>) = 0
<1> DEFINE Sums(g) == [s \in SUBSET (DOMAIN <<>>) |->
                          IF s = {} THEN 0
                          ELSE LET x == CHOOSE y \in s : TRUE IN <<>>[x].size + g[s \ {x}]]
           iter == CHOOSE g : g = Sums(g)
<1>1. Size(<<>>) = iter[DOMAIN <<>>]
  BY DEF Size, FoldSeq, FoldFunction, FoldFunctionOnSet, MapThenFoldSet
<1>2. DOMAIN <<>> = {}
  OBVIOUS
<1>3. \A g : Sums(g) = [s \in {{}} |-> 0]
  BY <1>2
<1>4. \E g : g = Sums(g)
  BY <1>3
<1>5. iter = Sums(iter)
  BY <1>4
<1> HIDE DEF iter
<1>6. iter = [s \in {{}} |-> 0]
  BY <1>3, <1>5
<1> QED
  BY <1>1, <1>2, <1>6

\* rotating: the next file is moved, or was not there
LEMMA RotateInv == JournalInv /\ Rotate => JournalInv'
<1> SUFFICES ASSUME JournalInv, Rotate PROVE JournalInv'
  OBVIOUS
<1>1. /\ writer = "rotate"
      /\ files' \in IF MaxFiles = 1 THEN {files, [files EXCEPT ![0] = <<>>]}
                    ELSE IF files[shifting] = <<>> THEN {files}
                    ELSE {[files EXCEPT ![shifting + 1] = files[shifting], ![shifting] = <<>>]}
      /\ IF shifting = 0 THEN writer' = "append" /\ UNCHANGED shifting
         ELSE shifting' = shifting - 1 /\ UNCHANGED writer
      /\ gone' = IF shifting = MaxFiles - 1 /\ files' # files THEN gone \cup Ids(Oldest) ELSE gone
      /\ UNCHANGED <<recorded, memory, queue, line, ready, shut, answer, counted, life, former, past>>
      /\ JournalTypeOK /\ OrderInv /\ LossInv /\ CloseInv
  BY DEF Rotate, JournalInv
<1>2. /\ MaxFiles \in 1..4 /\ shifting \in Nat /\ files \in [0..MaxFiles -> Seq(FileLine)]
      /\ shifting < MaxFiles
      /\ <<>> \in Seq(FileLine) /\ DOMAIN <<>> = {}
  BY <1>1, MaxFilesIs DEF LossInv, JournalTypeOK
<1>3. /\ \/ files' = files
         \/ (MaxFiles = 1 /\ files' = [files EXCEPT ![0] = <<>>])
         \/ /\ MaxFiles > 1 /\ files[shifting] # <<>>
            /\ files' = [files EXCEPT ![shifting + 1] = files[shifting], ![shifting] = <<>>]
      /\ MaxFiles > 1 /\ files' = files => files[shifting] = <<>>
  <2>1. CASE MaxFiles = 1
    BY <1>1, <2>1
  <2>2. CASE MaxFiles # 1 /\ files[shifting] = <<>>
    BY <1>1, <2>2
  <2>3. CASE MaxFiles # 1 /\ files[shifting] # <<>>
    <3>1. MaxFiles > 1
      BY <1>2, <2>3
    <3>2. files' = [files EXCEPT ![shifting + 1] = files[shifting], ![shifting] = <<>>]
      BY <1>1, <2>3
    <3>3. files'[shifting] = <<>>
      BY <1>2, <3>1, <3>2
    <3> QED
      BY <2>3, <3>1, <3>2, <3>3
  <2> QED
    BY <2>1, <2>2, <2>3
\* where a line of the files after the step was before it
<1>4. \E from \in [0..MaxFiles -> 0..MaxFiles + 1] :
         /\ \A i, j \in 0..MaxFiles :
               i > j => files'[i] = <<>> \/ files'[j] = <<>> \/ from[i] > from[j]
         /\ \A i \in 0..MaxFiles :
               files'[i] = <<>> \/ (from[i] <= MaxFiles /\ files'[i] = files[from[i]])
  <2>1. CASE files' = files
    <3> DEFINE from == [i \in 0..MaxFiles |-> i]
    <3>1. from \in [0..MaxFiles -> 0..MaxFiles + 1] /\ \A i \in 0..MaxFiles : from[i] = i
      BY <1>2
    <3> HIDE DEF from
    <3>2. \A i \in 0..MaxFiles : files'[i] = <<>> \/ files'[i] = files[i]
      BY <1>2, <2>1
    <3>3. \A i \in 0..MaxFiles :
             files'[i] = <<>> \/ (from[i] <= MaxFiles /\ files'[i] = files[from[i]])
      BY <1>2, <3>1, <3>2
    <3>4. \A i, j \in 0..MaxFiles :
             i > j => files'[i] = <<>> \/ files'[j] = <<>> \/ from[i] > from[j]
      BY <3>1
    <3> QED
      BY <3>1, <3>3, <3>4
  <2>2. CASE MaxFiles = 1 /\ files' = [files EXCEPT ![0] = <<>>]
    <3> DEFINE from == [i \in 0..MaxFiles |-> i]
    <3>1. from \in [0..MaxFiles -> 0..MaxFiles + 1] /\ \A i \in 0..MaxFiles : from[i] = i
      BY <1>2
    <3> HIDE DEF from
    <3>2. \A i \in 0..MaxFiles : files'[i] = <<>> \/ files'[i] = files[i]
      BY <1>2, <2>2
    <3>3. \A i \in 0..MaxFiles :
             files'[i] = <<>> \/ (from[i] <= MaxFiles /\ files'[i] = files[from[i]])
      BY <1>2, <3>1, <3>2
    <3>4. \A i, j \in 0..MaxFiles :
             i > j => files'[i] = <<>> \/ files'[j] = <<>> \/ from[i] > from[j]
      BY <3>1
    <3> QED
      BY <3>1, <3>3, <3>4
  <2>3. CASE /\ MaxFiles > 1
             /\ files' = [files EXCEPT ![shifting + 1] = files[shifting], ![shifting] = <<>>]
    <3> DEFINE from == [i \in 0..MaxFiles |-> IF i = shifting + 1 THEN shifting ELSE i]
    <3>1. from \in [0..MaxFiles -> 0..MaxFiles + 1]
      BY <1>2, <2>3
    <3>2. \A i \in 0..MaxFiles :
             files'[i] = IF i = shifting THEN <<>>
                         ELSE IF i = shifting + 1 THEN files[shifting] ELSE files[i]
      BY <1>2, <2>3
    <3>3. \A i \in 0..MaxFiles :
             files'[i] = <<>> \/ (from[i] <= MaxFiles /\ files'[i] = files[from[i]])
      BY <1>2, <2>3, <3>2
    <3>4. \A i, j \in 0..MaxFiles :
             i > j => files'[i] = <<>> \/ files'[j] = <<>> \/ from[i] > from[j]
      BY <1>2, <2>3, <3>2
    <3> HIDE DEF from
    <3> QED
      BY <3>1, <3>3, <3>4
  <2> QED
    BY <1>3, <2>1, <2>2, <2>3
<1>5. PICK from \in [0..MaxFiles -> 0..MaxFiles + 1] :
         /\ \A i, j \in 0..MaxFiles :
               i > j => files'[i] = <<>> \/ files'[j] = <<>> \/ from[i] > from[j]
         /\ \A i \in 0..MaxFiles :
               files'[i] = <<>> \/ (from[i] <= MaxFiles /\ files'[i] = files[from[i]])
  BY <1>4
<1>6. \A i \in 0..MaxFiles : \A m \in DOMAIN files'[i] :
         from[i] \in 0..MaxFiles /\ m \in DOMAIN files[from[i]] /\ files'[i][m] = files[from[i]][m]
  BY <1>2, <1>5
<1>7. \A id : FilesBelow(files, id) => FilesBelow(files', id)
  BY <1>6 DEF FilesBelow
<1>8. FilesInOrder(files')
  <2> SUFFICES ASSUME NEW i \in 0..MaxFiles, NEW j \in 0..MaxFiles,
                      NEW m \in DOMAIN files'[i], NEW k \in DOMAIN files'[j], OlderLine(i, m, j, k)
               PROVE  files'[i][m].id < files'[j][k].id
    BY DEF FilesInOrder
  <2>1. /\ from[i] \in 0..MaxFiles /\ m \in DOMAIN files[from[i]]
        /\ from[j] \in 0..MaxFiles /\ k \in DOMAIN files[from[j]]
        /\ files'[i][m] = files[from[i]][m] /\ files'[j][k] = files[from[j]][k]
    BY <1>6
  <2>2. files'[i] # <<>> /\ files'[j] # <<>>
    BY <1>2
  <2>3. OlderLine(from[i], m, from[j], k)
    BY <1>5, <2>2 DEF OlderLine
  <2> QED
    BY <1>1, <2>1, <2>3 DEF OrderInv, FilesInOrder
<1>9. files' \in [0..MaxFiles -> Seq(FileLine)]
  <2>1. CASE MaxFiles > 1
    <3>1. files[shifting] \in Seq(FileLine)
      BY <1>2, <2>1
    <3> QED
      BY <1>2, <1>3, <2>1, <3>1
  <2>2. CASE MaxFiles = 1
    <3>1. files' = files \/ files' = [files EXCEPT ![0] = <<>>]
      BY <1>3, <2>2
    <3>2. [files EXCEPT ![0] = <<>>] \in [0..MaxFiles -> Seq(FileLine)]
      BY <1>2
    <3> QED
      BY <1>2, <3>1, <3>2
  <2> QED
    BY <1>2, <2>1, <2>2
<1>10. JournalTypeOK'
  <2>1. shifting' \in Nat /\ writer' \in {"rotate", "append"}
    BY <1>1, <1>2
  <2> QED
    BY <1>1, <1>9, <2>1 DEF JournalTypeOK, Writing
<1>11. OrderInv'
  BY <1>1, <1>7, <1>8 DEF OrderInv, HistoryInOrder, Writing
<1>12. LossInv'
  <2>1. shifting < MaxFiles /\ (shifting < MaxFiles - 1 => files[shifting + 1] = <<>>)
    BY <1>1 DEF LossInv
  <2>2. ASSUME MaxFiles > 1
        PROVE  \A i \in 0..MaxFiles :
             files'[i] = IF files[shifting] = <<>> THEN files[i]
                         ELSE IF i = shifting THEN <<>>
                         ELSE IF i = shifting + 1 THEN files[shifting] ELSE files[i]
    <3>1. CASE files' = files
      BY <1>3, <2>2, <3>1
    <3>2. CASE /\ files[shifting] # <<>>
               /\ files' = [files EXCEPT ![shifting + 1] = files[shifting], ![shifting] = <<>>]
      BY <1>2, <2>1, <3>2
    <3>3. \/ files' = files
          \/ /\ files[shifting] # <<>>
             /\ files' = [files EXCEPT ![shifting + 1] = files[shifting], ![shifting] = <<>>]
      <4>1. MaxFiles # 1
        BY <1>2, <2>2
      <4> QED
        BY <1>3, <4>1, Zenon
    <3> QED
      BY <3>1, <3>2, <3>3
  <2>3. ASSUME MaxFiles > 1 PROVE files'[shifting] = <<>>
    <3>1. shifting \in 0..MaxFiles /\ \A i \in 0..MaxFiles : i = shifting =>
             files'[i] = IF files[shifting] = <<>> THEN files[i] ELSE <<>>
      BY <1>2, <2>1, <2>2, <2>3
    <3> QED
      BY <3>1
  <2>4. writer' = "rotate" => shifting' < MaxFiles /\ files'[shifting' + 1] = <<>>
    <3> SUFFICES ASSUME writer' = "rotate"
                 PROVE  shifting' < MaxFiles /\ files'[shifting' + 1] = <<>>
      OBVIOUS
    <3>1. shifting # 0 /\ shifting' = shifting - 1
      BY <1>1
    <3>2. shifting' + 1 = shifting /\ MaxFiles > 1
      BY <1>2, <2>1, <3>1
    <3> QED
      BY <1>2, <2>1, <2>3, <3>1, <3>2
  <2>5. writer' = "append" /\ MaxFiles > 1 => ~(Size(files'[0]) + line'.size > MaxBytes)
    <3>1. line.size \in Nat /\ line.size <= MaxBytes /\ MaxBytes \in Nat
      BY <1>1, JournalAssumption DEF JournalTypeOK, JournalLine, LossInv, Writing
    <3>2. writer' = "append" /\ MaxFiles > 1 => files'[0] = <<>>
      BY <1>1, <2>3
    <3> QED
      BY <1>1, <3>1, <3>2, SizeOfEmpty
  \* what stood in a file still does, or went with the oldest file
  <2>6. ASSUME NEW i \in 0..MaxFiles
        PROVE  \/ files[i] = <<>> \/ (\E j \in 0..MaxFiles : files'[j] = files[i])
               \/ Ids(files[i]) \subseteq gone'
    <3>1. CASE files' = files
      BY <3>1
    <3>2. CASE MaxFiles = 1 /\ files' # files
      <4>1. shifting = MaxFiles - 1
        BY <1>2, <2>1, <3>2
      <4>2. gone' = gone \cup Ids(files[0])
        BY <1>1, <3>2, <4>1 DEF Oldest
      <4>3. files'[1] = files[1] /\ i \in {0, 1}
        BY <1>2, <1>3, <3>2
      <4> QED
        BY <3>2, <4>2, <4>3
    <3>3. CASE MaxFiles > 1 /\ files' # files
      <4>1. files[shifting] # <<>> /\ shifting + 1 \in 0..MaxFiles /\ shifting \in 0..MaxFiles
            /\ shifting + 1 # shifting
        BY <1>2, <1>3, <2>1, <3>3
      <4>2. CASE i = shifting
        <5>1. files'[shifting + 1] = files[i]
          BY <2>2, <3>3, <4>1, <4>2
        <5> QED
          BY <4>1, <5>1
      <4>3. CASE i = shifting + 1 /\ shifting < MaxFiles - 1
        BY <2>1, <4>3
      <4>4. CASE i = shifting + 1 /\ shifting = MaxFiles - 1
        <5>1. i = MaxFiles /\ MaxFiles # 1
          BY <1>2, <3>3, <4>4
        <5> QED
          BY <1>1, <3>3, <4>4, <5>1 DEF Oldest
      <4>5. CASE i # shifting /\ i # shifting + 1
        BY <2>2, <3>3, <4>1, <4>5
      <4>6. shifting < MaxFiles - 1 \/ shifting = MaxFiles - 1
        BY <1>2, <2>1
      <4> QED
        BY <4>2, <4>3, <4>4, <4>5, <4>6
    <3> QED
      BY <1>2, <3>1, <3>2, <3>3
  <2>7. Kept \cup gone \subseteq Kept' \cup gone'
    <3>1. gone \subseteq gone'
      BY <1>1
    <3>2. ASSUME NEW i \in 0..MaxFiles PROVE Ids(files[i]) \subseteq Kept' \cup gone'
      <4>1. CASE files[i] = <<>>
        BY <1>2, <4>1, IdsAre
      <4>2. CASE \E j \in 0..MaxFiles : files'[j] = files[i]
        BY <4>2 DEF Kept, Ids
      <4> QED
        BY <2>6, <4>1, <4>2
    <3> QED
      BY <3>1, <3>2 DEF Kept
  <2>8. Pending' = Pending
    BY <1>1 DEF Pending, Writing
  <2>9. Cardinality(Missing') <= counted' /\ Cardinality(FormerMissing') <= past'
    BY <1>1, <2>7, <2>8, NothingLost
  <2> QED
    BY <1>1, <2>4, <2>5, <2>9 DEF LossInv, Writing
<1>13. CloseInv'
  BY <1>1 DEF CloseInv
<1> QED
  BY <1>10, <1>11, <1>12, <1>13 DEF JournalInv

\* appending: the line that was under way is the last one of the journal, or it did not fit
LEMMA AppendLineInv == JournalInv /\ AppendLine => JournalInv'
<1> SUFFICES ASSUME JournalInv, AppendLine PROVE JournalInv'
  OBVIOUS
<1>1. PICK kind \in {"whole", "bare", "cut"} :
         files' = [files EXCEPT ![0] =
                      IF Size(files[0]) + line.size > MaxBytes THEN files[0]
                      ELSE Append(files[0], [id |-> line.id, size |-> line.size, kind |-> kind])]
  <2>1. CASE Size(files[0]) + line.size > MaxBytes
    BY <2>1, MaxFilesIs DEF AppendLine, JournalInv, JournalTypeOK
  <2>2. CASE ~(Size(files[0]) + line.size > MaxBytes)
    BY <2>2, MaxFilesIs DEF AppendLine, JournalInv, JournalTypeOK
  <2> QED
    BY <2>1, <2>2
<1> DEFINE entry == [id |-> line.id, size |-> line.size, kind |-> kind]
<1>2. /\ writer = "append" /\ writer' = "idle" /\ line' = NoLine
      /\ gone' = IF Size(files[0]) + line.size > MaxBytes /\ MaxFiles = 1 THEN gone \cup {line.id}
                 ELSE gone
      /\ UNCHANGED <<recorded, memory, queue, shifting, ready, shut, answer, counted, life, former,
                     past>>
      /\ JournalTypeOK /\ OrderInv /\ LossInv /\ CloseInv
  BY DEF AppendLine, JournalInv
<1>3. entry \in FileLine /\ entry.id = line.id /\ line.id \in Nat
  BY <1>2 DEF JournalTypeOK, JournalLine, FileLine
<1>4. /\ files' = [files EXCEPT ![0] = IF Size(files[0]) + line.size > MaxBytes THEN files[0]
                                      ELSE Append(files[0], entry)]
      /\ files \in [0..MaxFiles -> Seq(FileLine)] /\ files[0] \in Seq(FileLine) /\ 0 \in 0..MaxFiles
  BY <1>1, <1>2, MaxFilesIs DEF JournalTypeOK
<1> HIDE DEF entry
<1>5. /\ files' \in [0..MaxFiles -> Seq(FileLine)]
      /\ \A i \in 0..MaxFiles : i # 0 => files'[i] = files[i]
      /\ files'[0] = files[0] \/ files'[0] = Append(files[0], entry)
      /\ ~(Size(files[0]) + line.size > MaxBytes) => files'[0] = Append(files[0], entry)
  BY <1>3, <1>4
<1>6. \A i \in 0..MaxFiles : \A m \in DOMAIN files'[i] :
         \/ m \in DOMAIN files[i] /\ files'[i][m] = files[i][m]
         \/ i = 0 /\ files'[i][m] = entry /\ \A k \in DOMAIN files[i] : k < m
  <2> SUFFICES ASSUME NEW m \in DOMAIN files'[0]
               PROVE  \/ m \in DOMAIN files[0] /\ files'[0][m] = files[0][m]
                      \/ files'[0][m] = entry /\ \A k \in DOMAIN files[0] : k < m
    BY <1>5
  <2>1. CASE files'[0] = files[0]
    BY <2>1
  <2>2. CASE files'[0] = Append(files[0], entry)
    <3>1. /\ Len(files[0]) \in Nat /\ DOMAIN files[0] = 1..Len(files[0])
          /\ DOMAIN Append(files[0], entry) = 1..(Len(files[0]) + 1)
          /\ \A k \in 1..Len(files[0]) : Append(files[0], entry)[k] = files[0][k]
          /\ Append(files[0], entry)[Len(files[0]) + 1] = entry
      BY <1>3, <1>4
    <3> QED
      BY <2>2, <3>1
  <2> QED
    BY <1>5, <2>1, <2>2
<1>7. \A i \in 0..MaxFiles : \A m \in DOMAIN files'[i] : \A k \in DOMAIN files'[i] :
         m < k => m \in DOMAIN files[i] /\ files'[i][m] = files[i][m]
  <2> SUFFICES ASSUME NEW i \in 0..MaxFiles, NEW m \in DOMAIN files'[i], NEW k \in DOMAIN files'[i],
                      m < k, i = 0, files'[i][m] = entry, \A l \in DOMAIN files[i] : l < m
               PROVE  m \in DOMAIN files[i] /\ files'[i][m] = files[i][m]
    BY <1>6
  <2>1. /\ Len(files[0]) \in Nat /\ DOMAIN files[0] = 1..Len(files[0])
        /\ DOMAIN Append(files[0], entry) = 1..(Len(files[0]) + 1)
        /\ \A l \in 1..Len(files[0]) : Append(files[0], entry)[l] = files[0][l]
    BY <1>3, <1>4
  <2> QED
    BY <1>5, <2>1, SMTT(30)
<1>8. JournalTypeOK'
  <2>1. NoLine \in JournalLine
    BY DEF NoLine, JournalLine
  <2> QED
    BY <1>2, <1>5, <2>1 DEF JournalTypeOK
<1>9. OrderInv'
  <2>1. /\ line.id <= recorded /\ FilesBelow(files, line.id) /\ FilesInOrder(files)
        /\ FilesBelow(files, recorded + 1) /\ recorded \in Nat
        /\ \A m \in DOMAIN queue : line.id < queue[m].id /\ FilesBelow(files, queue[m].id)
    BY <1>2 DEF OrderInv, Writing, JournalTypeOK
  <2>2. FilesInOrder(files')
    <3> SUFFICES ASSUME NEW i \in 0..MaxFiles, NEW j \in 0..MaxFiles,
                        NEW m \in DOMAIN files'[i], NEW k \in DOMAIN files'[j],
                        OlderLine(i, m, j, k)
                 PROVE  files'[i][m].id < files'[j][k].id
      BY DEF FilesInOrder
    <3>1. m \in DOMAIN files[i] /\ files'[i][m] = files[i][m]
      <4>1. CASE i > j
        <5>1. i # 0
          BY <4>1, MaxFilesIs
        <5> QED
          BY <1>5, <5>1
      <4>2. CASE i = j /\ m < k
        BY <1>7, <4>2
      <4> QED
        BY <4>1, <4>2 DEF OlderLine
    <3>2. CASE k \in DOMAIN files[j] /\ files'[j][k] = files[j][k]
      BY <2>1, <3>1, <3>2 DEF FilesInOrder
    <3>3. CASE files'[j][k] = entry
      BY <1>3, <2>1, <3>1, <3>3 DEF FilesBelow
    <3> QED
      BY <1>6, <3>2, <3>3
  <2>3. \A id : FilesBelow(files, id) /\ line.id < id => FilesBelow(files', id)
    BY <1>3, <1>6 DEF FilesBelow
  <2>4. FilesBelow(files', recorded' + 1)
    BY <1>2, <1>3, <2>1, <2>3
  <2>5. \A m \in DOMAIN queue' : queue'[m].id <= recorded' /\ FilesBelow(files', queue'[m].id)
    BY <1>2, <2>1, <2>3 DEF OrderInv
  <2> QED
    BY <1>2, <2>2, <2>4, <2>5 DEF OrderInv, HistoryInOrder, Writing
<1>10. LossInv'
  <2>1. \A i \in 0..MaxFiles : Ids(files[i]) \subseteq Ids(files'[i])
    <3>1. \A i \in 0..MaxFiles : \A m \in DOMAIN files[i] :
             m \in DOMAIN files'[i] /\ files'[i][m] = files[i][m]
      BY <1>3, <1>4, <1>5
    <3> QED
      BY <3>1, IdsAre
  <2>2. line.id \in Kept' \cup gone'
    <3>1. CASE Size(files[0]) + line.size > MaxBytes
      <4>1. MaxFiles = 1
        BY <1>2, <3>1, MaxFilesIs DEF LossInv
      <4> QED
        BY <1>2, <3>1, <4>1
    <3>2. CASE ~(Size(files[0]) + line.size > MaxBytes)
      <4>1. Len(files[0]) + 1 \in DOMAIN files'[0] /\ files'[0][Len(files[0]) + 1] = entry
        BY <1>3, <1>4, <1>5, <3>2
      <4>2. line.id \in Ids(files'[0])
        BY <1>3, <4>1, IdsAre
      <4> QED
        BY <1>4, <4>2 DEF Kept
    <3> QED
      BY <3>1, <3>2
  <2>3. Kept \cup gone \subseteq Kept' \cup gone'
    <3>1. Kept \subseteq Kept'
      BY <2>1 DEF Kept
    <3> QED
      BY <1>2, <3>1
  <2>4. Pending \subseteq Pending' \cup Kept' \cup gone'
    BY <1>2, <2>2 DEF Pending, Writing
  <2>5. Cardinality(Missing') <= counted' /\ Cardinality(FormerMissing') <= past'
    BY <1>2, <2>3, <2>4, NothingLost
  <2> QED
    BY <1>2, <2>5 DEF LossInv, Writing
<1>11. CloseInv'
  BY <1>2 DEF CloseInv
<1> QED
  BY <1>8, <1>9, <1>10, <1>11 DEF JournalInv

\* failing: the line that was under way is counted
LEMMA PersistFailsInv == JournalInv /\ PersistFails => JournalInv'
<1> SUFFICES ASSUME JournalInv, PersistFails PROVE JournalInv'
  OBVIOUS
<1>1. /\ writer \in Writing /\ writer' = "idle" /\ line' = NoLine /\ shifting' = 0
      /\ counted' = counted + 1
      /\ UNCHANGED <<recorded, memory, queue, files, ready, shut, answer, life, former, past, gone>>
      /\ JournalTypeOK /\ OrderInv /\ LossInv /\ CloseInv
  BY DEF PersistFails, JournalInv
<1>2. NoLine \in JournalLine
  BY DEF NoLine, JournalLine
<1>3. JournalTypeOK'
  BY <1>1, <1>2 DEF JournalTypeOK
<1>4. OrderInv'
  BY <1>1 DEF OrderInv, HistoryInOrder, FilesInOrder, FilesBelow, Writing
<1>5. LossInv'
  <2>1. Kept' = Kept /\ Pending \subseteq Pending' \cup {line.id}
    BY <1>1 DEF Kept, Pending, Writing
  <2>2. Cardinality(Missing') <= counted' /\ Cardinality(FormerMissing') <= past'
    BY <1>1, <2>1, OneLost
  <2> QED
    BY <1>1, <2>2 DEF LossInv, Writing
<1>6. CloseInv'
  BY <1>1 DEF CloseInv, Writing
<1> QED
  BY <1>3, <1>4, <1>5, <1>6 DEF JournalInv

LEMMA WriterStepInv == JournalInv /\ WriterStep => JournalInv'
BY WriterTakesInv, WriterExitsInv, StatInv, RotateInv, AppendLineInv, PersistFailsInv DEF WriterStep

-----------------------------------------------------------------------------
(* The steps of the plugin *)

LEMMA UpdatesSameInv == UpdatesInv /\ UNCHANGED updateVars => UpdatesInv'
BY DEF UpdatesInv, UpdatesTypeOK, FetchInv, updateVars

LEMMA ShutSameInv == ShutInv /\ UNCHANGED pluginVars => ShutInv'
BY DEF ShutInv, LifespanTypeOK, TeardownInv, pluginVars, lifespanVars, journalVars, lossVars,
   updateVars, metricsVars

LEMMA LifespanStarts == LifespanInit => LifespanInv
BY JournalInitInv, UpdatesInitInv, CountInitInv, ShutInitInv
   DEF LifespanInit, LifespanInv, ShutInv

LEMMA StartKeeps == LifespanInv /\ Start => LifespanInv'
<1> SUFFICES ASSUME LifespanInv, Start PROVE LifespanInv'
  OBVIOUS
<1> USE DEF LifespanInv
<1>1. PICK up \in SUBSET Part :
          /\ CanBeUp(up)
          /\ part' = [p \in Part |-> IF p \in up THEN "open" ELSE "absent"]
          /\ IF "journal" \in up THEN JournalStarts ELSE UNCHANGED journalVars
          /\ IF "updates" \in up THEN UpdatesStart ELSE UNCHANGED updateVars
          /\ IF "metrics" \in up THEN MetricsStart
             ELSE IF "leases" \in up THEN MetricsUnavailable
             ELSE UNCHANGED metricsVars
  BY DEF Start
<1>2. life = {} /\ part = Absent /\ part["metrics"] = "absent"
  BY PartIs DEF Start, TeardownInv, Absent
<1>3. JournalInv'
  BY <1>1, <1>2, JournalStartsInv, JournalSameInv
<1>4. UpdatesInv'
  BY <1>1, UpdatesStartInv, UpdatesSameInv
<1>5. CountInv'
  <2>1. /\ part' \in [Part -> Outcomes]
        /\ part'["metrics"] = IF "metrics" \in up THEN "open" ELSE "absent"
    BY <1>1, PartIs DEF Outcomes
  <2>2. CASE "metrics" \in up
    BY <1>1, <1>2, <2>2, CountStartInv
  <2>3. CASE "metrics" \notin up
    BY <1>1, <1>2, <2>1, <2>3, CountUnavailableInv, CountSameInv
  <2> QED
    BY <2>2, <2>3
<1>6. ShutInv'
  BY <1>3, ShutStartInv DEF ShutInv, JournalInv
<1> QED
  BY <1>3, <1>4, <1>5, <1>6 DEF ShutInv

\* what the parts do while the plugin runs
LEMMA RunsKeep == LifespanInv /\ (Records \/ Writes \/ Checks \/ Measures) => LifespanInv'
<1> USE DEF LifespanInv
<1>1. ASSUME LifespanInv, Records PROVE LifespanInv'
  <2>1. JournalInv' /\ UpdatesInv'
    BY <1>1, RecordInv, UpdatesSameInv DEF Records
  <2>2. CountInv'
    BY <1>1, CountSameInv DEF Records, lifespanVars
  <2>3. phase # "down"
    BY <1>1, PartIs DEF Records, TeardownInv, Absent
  <2>4. ShutInv'
    BY <1>1, <2>3, ShutRunsInv DEF Records, Record, ShutInv, updateVars, metricsVars
  <2> QED
    BY <2>1, <2>2, <2>4 DEF ShutInv
<1>2. ASSUME LifespanInv, Writes PROVE LifespanInv'
  <2>1. JournalInv' /\ UpdatesInv'
    BY <1>2, WriterStepInv, UpdatesSameInv DEF Writes
  <2>2. CountInv'
    BY <1>2, CountSameInv DEF Writes, lifespanVars
  <2>3. life' = life /\ shut' = shut /\ answer' = answer
    BY <1>2 DEF Writes, WriterStep, WriterTakes, WriterExits, Stat, Rotate, AppendLine,
       PersistFails, lossVars
  <2>4. ShutInv'
    BY <1>2, <2>3, ShutRunsInv DEF Writes, ShutInv, updateVars, metricsVars
  <2> QED
    BY <2>1, <2>2, <2>4 DEF ShutInv
<1>3. ASSUME LifespanInv, Checks PROVE LifespanInv'
  <2>1. JournalInv' /\ UpdatesInv'
    BY <1>3, JournalSameInv, UpdateStepInv DEF Checks
  <2>2. CountInv'
    BY <1>3, CountSameInv DEF Checks, lifespanVars
  <2>3. phase # "up" => asking'[Timer] = asking[Timer]
    BY <1>3 DEF Checks, Everyone
  <2>4. ShutInv'
    BY <1>3, <2>3, ShutRunsInv DEF Checks, ShutInv, journalVars, lossVars, metricsVars
  <2> QED
    BY <2>1, <2>2, <2>4 DEF ShutInv
<1>4. ASSUME LifespanInv, Measures PROVE LifespanInv'
  <2>1. JournalInv' /\ UpdatesInv' /\ CountInv'
    BY <1>4, JournalSameInv, UpdatesSameInv, CountMeasuresInv DEF Measures
  <2>2. ShutInv'
    BY <1>4, ShutRunsInv DEF Measures, ShutInv, journalVars, lossVars, updateVars
  <2> QED
    BY <2>1, <2>2 DEF ShutInv
<1> QED
  BY <1>1, <1>2, <1>3, <1>4

\* the shutdown, and the end of the process
LEMMA StopKeeps == LifespanInv /\ Stop => LifespanInv'
<1> SUFFICES ASSUME LifespanInv, Stop PROVE LifespanInv'
  OBVIOUS
<1>1. JournalInv' /\ UpdatesInv' /\ CountInv'
  BY JournalSameInv, UpdatesSameInv, CountSameInv DEF LifespanInv, Stop
<1>2. LifespanTypeOK' /\ TeardownInv'
  BY DEF LifespanInv, LifespanTypeOK, TeardownInv, Stop, journalVars, updateVars, metricsVars
<1> QED
  BY <1>1, <1>2 DEF LifespanInv

LEMMA EndKeeps == LifespanInv /\ End => LifespanInv'
<1> SUFFICES ASSUME LifespanInv, End PROVE LifespanInv'
  OBVIOUS
<1>1. JournalInv' /\ UpdatesInv' /\ CountInv'
  BY JournalSameInv, UpdatesSameInv, CountSameInv DEF LifespanInv, End
<1>2. LifespanTypeOK' /\ TeardownInv'
  BY DEF LifespanInv, LifespanTypeOK, TeardownInv, End, Joined, journalVars, updateVars, metricsVars
<1> QED
  BY <1>1, <1>2 DEF LifespanInv

LEMMA ProcessEndsKeeps == LifespanInv /\ ProcessEnds => LifespanInv'
<1> SUFFICES ASSUME LifespanInv, ProcessEnds PROVE LifespanInv'
  OBVIOUS
<1>1. /\ phase' = "down" /\ part' = Absent /\ step' = 1 /\ process' = process + 1
      /\ JournalDies /\ MetricsDie /\ UNCHANGED updateVars
  BY DEF ProcessEnds
<1>2. JournalInv' /\ UpdatesInv'
  BY <1>1, JournalDiesInv, UpdatesSameInv DEF LifespanInv
<1>3. part' \in [Part -> {"absent"}]
  BY <1>1 DEF Absent
<1>4. CountInv'
  BY <1>1, <1>3, CountDiesInv, PartIs DEF LifespanInv
<1>5. LifespanTypeOK'
  BY <1>1, <1>3, StepsAre DEF LifespanInv, LifespanTypeOK, Outcomes
<1>6. TeardownInv'
  BY <1>1, <1>3, StepsAre, PartIs DEF TeardownInv, JournalDies
<1> QED
  BY <1>2, <1>4, <1>5, <1>6 DEF LifespanInv

LEMMA ShutdownKeeps == LifespanInv /\ ShutdownStep => LifespanInv'
<1> SUFFICES ASSUME LifespanInv PROVE ShutdownStep => LifespanInv'
  OBVIOUS
<1>1. JournalInv /\ UpdatesInv /\ CountInv /\ ShutInv
  BY DEF LifespanInv, ShutInv
<1>2. JournalInv' /\ UpdatesInv' /\ CountInv' /\ ShutInv' => LifespanInv'
  BY DEF LifespanInv, ShutInv
<1>3. ASSUME NEW p \in Part, NEW outcome, Became(p, outcome), outcome # "absent",
             part[p] = "open", UNCHANGED metricsVars
      PROVE  CountInv'
  BY <1>1, <1>3, CountSameInv DEF Became, ShutInv, LifespanTypeOK
<1>4. ASSUME CloseUpdates PROVE LifespanInv'
  <2>1. asking'[Timer] = "stopped"
    BY <1>1, <1>4 DEF CloseUpdates, TimerStops, UpdatesInv, UpdatesTypeOK, Everyone
  <2>2. JournalInv' /\ UpdatesInv' /\ CountInv'
    BY <1>1, <1>3, <1>4, JournalSameInv, TimerStopsInv, PartIs DEF CloseUpdates
  <2>3. ShutInv'
    BY <1>1, <1>4, <2>1, ShutBecameInv, PartIs DEF CloseUpdates, journalVars, metricsVars
  <2> QED
    BY <1>2, <2>2, <2>3
<1>5. ASSUME CloseRuntime PROVE LifespanInv'
  <2>1. JournalInv' /\ UpdatesInv' /\ CountInv'
    BY <1>1, <1>3, <1>5, JournalSameInv, UpdatesSameInv, PartIs DEF CloseRuntime
  <2>2. ShutInv'
    BY <1>1, <1>5, ShutBecameInv, PartIs DEF CloseRuntime, journalVars, updateVars, metricsVars
  <2> QED
    BY <1>2, <2>1, <2>2
<1>6. ASSUME NEW p \in Fallible, NEW outcome \in {"closed", "failed"}, At(p), part[p] = "open",
             Became(p, outcome),
             IF p = "metrics" THEN CloseMetrics(outcome) ELSE UNCHANGED metricsVars,
             UNCHANGED <<journalVars, updateVars>>
      PROVE  LifespanInv'
  <2>1. p \in Part
    BY PartIs DEF Fallible
  <2>2. JournalInv' /\ UpdatesInv'
    BY <1>1, <1>6, JournalSameInv, UpdatesSameInv
  <2>3. CountInv' /\ (p = "metrics" /\ outcome = "closed" => current'.active = 0)
    <3>1. CASE p = "metrics"
      <4>1. part["metrics"] # "absent" /\ part'["metrics"] # "absent"
        BY <1>1, <1>6, <2>1, <3>1 DEF Became, ShutInv, LifespanTypeOK
      <4> QED
        BY <1>1, <1>6, <3>1, <4>1, CountCloseInv
    <3>2. CASE p # "metrics"
      BY <1>3, <1>6, <2>1, <3>2
    <3> QED
      BY <3>1, <3>2
  <2>4. ShutInv'
    BY <1>1, <1>6, <2>1, <2>3, ShutBecameInv DEF Fallible, journalVars, updateVars, metricsVars
  <2> QED
    BY <1>2, <2>2, <2>3, <2>4
<1>7. ASSUME NEW p \in Part, Close(p) \/ CloseFails(p) PROVE LifespanInv'
  BY <1>6, <1>7 DEF Close, CloseFails
<1>8. ASSUME NEW p \in Part, Skip(p) PROVE LifespanInv'
  <2>1. JournalInv' /\ UpdatesInv' /\ CountInv'
    BY <1>1, <1>8, JournalSameInv, UpdatesSameInv, CountSameInv DEF Skip
  <2>2. ShutInv'
    BY <1>1, <1>8, ShutSkipInv
  <2> QED
    BY <1>2, <2>1, <2>2
<1>9. ASSUME JournalCloses PROVE LifespanInv'
  <2>1. JournalInv' /\ UpdatesInv' /\ CountInv'
    BY <1>1, <1>9, CloseJournalInv, UpdatesSameInv, CountSameInv DEF JournalCloses, lifespanVars
  <2>2. ShutInv'
    BY <1>1, <1>9, ShutJournalCloses
  <2> QED
    BY <1>2, <2>1, <2>2
<1>10. ASSUME JournalCloseReturns PROVE LifespanInv'
  <2>1. JournalInv' /\ UpdatesInv' /\ CountInv'
    BY <1>1, <1>3, <1>10, JournalSameInv, JournalClosedInv, UpdatesSameInv, PartIs
       DEF JournalCloseReturns
  <2>2. shut' = shut /\ shut /\ answer' # "pending"
    BY <1>1, <1>10 DEF JournalCloseReturns, JournalClosed, JournalInv, CloseInv, journalVars
  <2>3. ShutInv'
    BY <1>1, <1>10, <2>2, ShutBecameInv, PartIs DEF JournalCloseReturns, updateVars, metricsVars
  <2> QED
    BY <1>2, <2>1, <2>3
<1> QED
  BY <1>4, <1>5, <1>7, <1>8, <1>9, <1>10, EndKeeps DEF ShutdownStep, OwnStep

LEMMA LifespanNextKeeps == LifespanInv /\ [LifespanNext]_pluginVars => LifespanInv'
<1>1. LifespanInv /\ UNCHANGED pluginVars => LifespanInv'
  BY JournalSameInv, UpdatesSameInv, CountSameInv, ShutSameInv
     DEF LifespanInv, ShutInv, pluginVars, lifespanVars
<1> QED
  BY <1>1, StartKeeps, RunsKeep, StopKeeps, ShutdownKeeps, ProcessEndsKeeps DEF LifespanNext

LEMMA LifespanIsInv == LifespanSpec => []LifespanInv
BY LifespanStarts, LifespanNextKeeps, PTL DEF LifespanSpec

LEMMA PendingIsBounded ==
    ASSUME JournalTypeOK, LossInv
    PROVE  Cardinality(Pending) <= QueueLimit + 1
<1>1. /\ queue \in Seq(JournalLine) /\ Len(queue) \in Nat /\ DOMAIN queue = 1..Len(queue)
      /\ Len(queue) <= QueueLimit /\ QueueLimit \in Nat
  BY JournalAssumption DEF JournalTypeOK, LossInv
<1>2. IsFiniteSet(1..Len(queue)) /\ Cardinality(1..Len(queue)) = Len(queue)
  <2>1. CASE Len(queue) = 0
    <3>1. 1..Len(queue) = {}
      BY <2>1
    <3> QED
      BY <2>1, <3>1, FS_EmptySet
  <2>2. CASE Len(queue) # 0
    BY <1>1, <2>2, FS_Interval
  <2> QED
    BY <2>1, <2>2
<1>3. IsFiniteSet(Ids(queue)) /\ Cardinality(Ids(queue)) <= Len(queue)
  <2> DEFINE id == [m \in 1..Len(queue) |-> queue[m].id]
  <2>1. Ids(queue) = {queue[m].id : m \in 1..Len(queue)}
    BY <1>1, IdsAre
  <2>2. id \in [1..Len(queue) -> Ids(queue)] /\ \A x \in Ids(queue) : \E m \in 1..Len(queue) : id[m] = x
    BY <2>1
  <2> HIDE DEF id
  <2> QED
    BY <1>2, <2>2, ImageBound
<1>4. /\ IsFiniteSet(Ids(queue) \cup {line.id}) /\ Cardinality(Ids(queue)) \in Nat
      /\ Cardinality(Ids(queue) \cup {line.id}) <= Cardinality(Ids(queue)) + 1
      /\ Cardinality(Ids(queue) \cup {line.id}) \in Nat
  BY <1>3, OneMore
<1>5. Pending \in SUBSET (Ids(queue) \cup {line.id})
  BY DEF Pending
<1>6. Cardinality(Ids(queue) \cup {line.id}) <= QueueLimit + 1 /\ QueueLimit + 1 \in Nat
  BY <1>1, <1>3, <1>4
<1> HIDE DEF Pending
<1> QED
  BY <1>4, <1>5, <1>6, AtMost

\* What the diagnostics route hands out is true, whatever fails, hangs or dies in between: the
\* history is in order, an event that is missing was counted by its process, aged out or was on
\* its way when its process ended, and the totals lack only what could not be saved
\* (ConnectionJournal.record, _enqueue, _rotate, _load_persisted and close;
\* OperationalMetrics._record, _save and _load).
THEOREM DiagnosticsAreHonestHolds == LifespanSpec => []DiagnosticsAreHonest
<1>1. LifespanInv => DiagnosticsAreHonest
  <2> SUFFICES ASSUME LifespanInv PROVE DiagnosticsAreHonest
    OBVIOUS
  <2>1. HistoryInOrder
    BY DEF LifespanInv, JournalInv, OrderInv
  <2>2. LossIsVisible
    BY PendingIsBounded
       DEF LifespanInv, JournalInv, LossInv, LossIsVisible, Missing, FormerMissing
  <2>3. DrainedIsIdle
    BY DEF LifespanInv, JournalInv, CloseInv, DrainedIsIdle, Writing
  <2>4. CountersAreTrue(part["metrics"] # "absent")
    BY DEF LifespanInv, CountInv, TrueCount, CountersAreTrue
  <2> QED
    BY <2>1, <2>2, <2>3, <2>4 DEF DiagnosticsAreHonest
<1> QED
  BY <1>1, LifespanIsInv, PTL

\* A shutdown that has returned left nothing open that it could have closed (_lifespan,
\* cleanup_steps, await_cleanup).
THEOREM TeardownIsCompleteHolds == LifespanSpec => []TeardownIsComplete
<1>1. LifespanInv => TeardownIsComplete
  <2> SUFFICES ASSUME LifespanInv PROVE TeardownIsComplete
    OBVIOUS
  <2>1. ASSUME phase = "ended", NEW p \in Part PROVE part[p] # "open"
    <3>1. PICK m \in 1..7 : p = Steps[m]
      BY StepsAre DEF Part, Range
    <3>2. m < step
      BY <2>1, <3>1, StepsAre DEF LifespanInv, TeardownInv, LifespanTypeOK
    <3> QED
      BY <3>1, <3>2, StepsAre DEF LifespanInv, TeardownInv
  <2>2. shut => part["connector"] # "open"
    BY StepsAre DEF LifespanInv, TeardownInv, LifespanTypeOK
  <2> QED
    BY <2>1, <2>2 DEF LifespanInv, TeardownInv, TeardownIsComplete
<1> QED
  BY <1>1, LifespanIsInv, PTL

\* Within a process the release that is shown only gets newer (UpdateChecker.check).
THEOREM LatestNeverRegressesHolds == LifespanSpec => LatestNeverRegresses
<1>1. LifespanInv /\ [LifespanNext]_pluginVars
        => [process' = process /\ phase # "down" => latest' >= latest]_pluginVars
  <2> SUFFICES ASSUME LifespanInv, LifespanNext, process' = process, phase # "down"
               PROVE  latest' >= latest
    OBVIOUS
  <2>1. latest \in Nat
    BY DEF LifespanInv, UpdatesInv, UpdatesTypeOK
  <2>2. CASE Checks
    BY <2>2, LatestGrows DEF Checks, LifespanInv
  <2>3. CASE latest' = latest
    BY <2>1, <2>3
  <2>4. Checks \/ latest' = latest
    BY DEF LifespanNext, Start, Records, Writes, Measures, Stop, ShutdownStep, OwnStep, CloseUpdates,
       TimerStops, CloseRuntime, JournalCloses, JournalCloseReturns, End, Skip, Close, CloseFails,
       ProcessEnds, updateVars
  <2> QED
    BY <2>2, <2>3, <2>4
<1> QED
  BY <1>1, LifespanIsInv, PTL DEF LatestNeverRegresses, LifespanSpec

=============================================================================
