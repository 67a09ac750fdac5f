--------------------------- MODULE MCAuthorization ---------------------------
(***************************************************************************)
(* The model-checking instance of Management and Authorization.  The steps *)
(* of create_pairing_offer interleave with the others while there are at   *)
(* most two offers and one device, which is not revoked or denied; a later *)
(* call is lost before it goes on, so that there it is just the            *)
(* transaction of create_offer.                                            *)
(***************************************************************************)
EXTENDS Management, TLC

\* keys and surfaces are only identities
Symmetry == Permutations(Keys) \cup Permutations(Surfaces)

Busy == {s \in Surfaces : call[s].at # "idle"}
Few == offers <= 2 /\ minted <= 1 /\ Active(devices) = devices /\ now + Cardinality(Busy) <= 3
Plain == qr = NoQr /\ refused = {}

Interleaved == Few \/ (Plain /\ Cardinality(Busy) <= 1)
LaterCallsAreLost == Few \/ Busy = {} \/ Busy' = {}
=============================================================================
