------------------------- MODULE MCSubmissionLedger -------------------------
(* Model-checking instances of SubmissionLedger.                           *)
EXTENDS SubmissionLedger, TLC

\* request ids are only identities, and so are the submissions that the policy treats alike
Symmetry ==
    Permutations(PolicyRejects) \cup Permutations(Submissions \ PolicyRejects) \cup Permutations(Requests)
=============================================================================
