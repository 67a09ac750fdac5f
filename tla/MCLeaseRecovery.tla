---------------------------- MODULE MCLeaseRecovery ----------------------------
(* Model-checking instance of LeaseRecovery.                               *)
EXTENDS LeaseRecovery, TLC

\* scopes and children are only identities
Symmetry == Permutations(Scopes) \cup Permutations(Children)

\* one lease at a time: leases of different scopes meet only in the store
OneLease == Cardinality({s \in Scopes : lease[s].on}) <= 1

\* at most one row expires
FewExpire == aged <= 1
=============================================================================
