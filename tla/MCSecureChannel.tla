----------------------------- MODULE MCSecureChannel -----------------------------
(* Model-checking instance of SecureChannel.                               *)
EXTENDS SecureChannel, TLC

\* connections are only identities
Symmetry == Permutations(Phones) \cup Permutations(Hosts)

Total(q) == Cardinality({<<e, i>> \in Ends \X (1 .. MaxMessages) : i <= Len(q[e])})
Odd == Cardinality({<<e, i>> \in Ends \X (1 .. MaxMisframed) : i <= ch[e].odd})

\* two messages while one phone is about; with two only handshakes
FewMessages ==
    Total(sent) + Odd <= IF \E p \in Phones : ch[p] = NotOpened THEN 2 ELSE 0
=============================================================================
