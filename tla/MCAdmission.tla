----------------------------- MODULE MCAdmission -----------------------------
(* The model-checking instance of Admission: three connections of a device. *)
(* The first opens its first channel or resumes it as a v1 client, the      *)
(* second asks after it for the same channel in any mode, and the third     *)
(* opens this channel or another one afresh at any time.                    *)
EXTENDS Admission

Scenario ==
    /\ conn[1].chan # 2 /\ conn[1].mode \in {"open", "v1resume"}
    /\ conn[2].chan # 2 /\ (conn[2].phase # "new" => conn[1].phase # "new")
    /\ conn[3].mode = "open"
=============================================================================
