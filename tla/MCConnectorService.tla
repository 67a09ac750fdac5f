-------------------------- MODULE MCConnectorService --------------------------
(* Model-checking instance of ConnectorService and RelayClient.            *)
EXTENDS ConnectorService, TLC

\* connections and ids are only identities
Symmetry == Permutations(Conns) \cup Permutations(Ids)
=============================================================================
