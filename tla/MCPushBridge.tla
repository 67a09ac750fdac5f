----------------------------- MODULE MCPushBridge -----------------------------
(* Model-checking instance of PushBridge.                                  *)
EXTENDS PushBridge

\* callers are numbers here, and are alike: they call in their order
CallsInOrder ==
    \A c, k \in Callers : c < k /\ calls[k].at # "idle" => calls[c].at # "idle"

\* the bindings are alike: the first process has the same one in every behaviour
FirstBinding == crashes = 0 => here = CHOOSE b \in Bindings : TRUE

\* a third call is made only when no wake, revocation or restart is involved
ThirdCallAlone ==
    (\A c \in Callers : calls[c].at # "idle") => wakes + revokes + crashes = 0
=============================================================================
