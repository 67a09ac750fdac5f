--------------------------- MODULE MCSessionLease ---------------------------
(* Model-checking instances of SessionLease.                               *)
EXTENDS SessionLease

\* scope of the run about delivery: what happens after release is
\* lease_release's question
Retained == ~released

Locals(a) == Len(SelectSeq(out[a], LAMBDA frame : frame.kind = "local"))

\* locally synthesized responses are followed among the first events only,
\* at most one to an attachment: it is their place among events that matters
RepliesEarly == \A a \in Att : LET n == Locals(a) IN n = 0 \/ (n = 1 /\ lastSeq <= 1)
=============================================================================
