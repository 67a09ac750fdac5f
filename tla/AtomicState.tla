---------------------------- MODULE AtomicState ----------------------------
(***************************************************************************)
(* What the profile's state file promises its callers, with no lock, no     *)
(* temporary file and no disk: a set of items that one transaction at a     *)
(* time extends, of which the acknowledged ones never go away.  An item is  *)
(* the host identity, the routing issuer key or one authorization change,   *)
(* with the transaction that made it.  StateFile implements it.             *)
(***************************************************************************)
EXTENDS Naturals, FiniteSets

CONSTANT Singles      \* the kinds of which the file holds at most one item

VARIABLES
  held,    \* the items the file holds
  acked    \* those a caller has been told of as safely stored

vars == <<held, acked>>

Init == held = {} /\ acked = {}

\* A transaction takes effect, in one step and with what it read in force.
Update(item) ==
  /\ item \notin held
  /\ item.kind \in Singles => ~\E i \in held : i.kind = item.kind
  /\ held' = held \cup {item}
  /\ UNCHANGED acked

\* The outcome is reported: only of what the file holds.
Acknowledge(item) ==
  /\ item \in held
  /\ acked' = acked \cup {item}
  /\ UNCHANGED held

\* A failure of the machine takes back only what nobody was told of.
Lose(kept) ==
  /\ acked \subseteq kept
  /\ kept \subseteq held
  /\ held' = kept
  /\ UNCHANGED acked

Next ==
  \/ \E i \in held' \ held : Update(i)
  \/ \E i \in acked' : Acknowledge(i)
  \/ Lose(held')

Spec == Init /\ [][Next]_vars
=============================================================================
