-------------------------- MODULE MCLocalRequests --------------------------
\* A lease's local requests, for TLC.
EXTENDS LocalRequests, TLC

\* Paging and folder requests meet only in the limit on reads: a behaviour
\* does the one or the other.  The files stand still while it pages or the
\* lease is released, and a third request is about the ledger: mutations only,
\* in folders left alone.
OneThingAtATime ==
  \/ asks = 0 /\ touches = 0 /\ n["in"] = "none"
  \/ /\ pager.state = "off" /\ rows = <<>>
     /\ \/ asks <= 2 /\ (touches = 0 \/ release = "no")
        \/ /\ touches = 0 /\ n["in"] # "file" /\ release = "no" /\ authorized
           /\ \A t \in Tasks : task[t].kind \notin {"list", "image"}

Symmetry == Permutations(Ids) \cup Permutations(Payloads)
=============================================================================
