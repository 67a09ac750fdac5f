------------------------------ MODULE MCLifespan ------------------------------
(***************************************************************************)
(* The model-checking instance of Lifespan: a behaviour is about the       *)
(* journal, about the metrics, about the update check, or about the        *)
(* shutdown of any choice of parts, with at most one fault or drop of the  *)
(* journal.  The shutdowns with lines to write are those of the first      *)
(* process.                                                                *)
(***************************************************************************)
EXTENDS Lifespan

Only(parts) == \A p \in Part \ parts : part[p] = "absent"

NoUpdates == published = 1 /\ cache = 0 /\ \A c \in Everyone : asking[c] \in {"idle", "stopped"}
NoMetrics == happened = 0 /\ legacy = NoFile /\ counters.active = 0
NoEvents == recorded = 0
NoFiles == \A i \in 0..MaxFiles : files[i] = <<>>

OneAtATime ==
    \/ NoUpdates /\ NoMetrics /\ NoEvents /\ NoFiles
    \/ NoUpdates /\ NoEvents /\ NoFiles /\ Only({"metrics", "leases", "journal", "runtime"})
    \/ /\ NoUpdates /\ NoMetrics /\ Only({"connector", "leases", "journal", "runtime"})
       /\ part["leases"] # "failed" /\ (process = 1 \/ phase \in {"down", "up"})
    \/ NoMetrics /\ NoEvents /\ NoFiles /\ Only({"updates", "runtime"})

Torn == {<<i, j>> \in (0..MaxFiles) \X (1..MaxEvents) :
            j <= Len(files[i]) /\ files[i][j].kind \in {"bare", "cut"}}
FewFaults == Cardinality(Torn) + counted + past <= 1
=============================================================================
