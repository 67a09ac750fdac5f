---------------------------- MODULE SessionReads ----------------------------
(***************************************************************************)
(* Reading a session's transcript in pages while the agent goes on writing  *)
(* it.  Offsets count stored rows; hidden rows are taken out of the page    *)
(* after it was read.  The client follows next_offset until a page holds    *)
(* fewer stored rows than it asked for.                                     *)
(***************************************************************************)
EXTENDS Naturals, Sequences, FiniteSets

CONSTANTS
  PageLimit,   \* the limit the client asks with
  MaxRows      \* bound: rows of the session

ASSUME ReadsAssumption == PageLimit \in Nat \ {0} /\ MaxRows \in Nat

VARIABLES
  rows,    \* the session's rows, oldest first: "shown" or "hidden"
  pager    \* the client: its order, offset, rows seen, and whether it waits

readVars == <<rows, pager>>

Orders == {"oldest", "latest"}
NoPage == [seen |-> {}, raw |-> 0, next |-> 0]
Pages == [seen : SUBSET (1..MaxRows), raw : 0..PageLimit, next : 0..(2 * MaxRows)]

ReadsTypeOK ==
  /\ rows \in Seq({"shown", "hidden"}) /\ Len(rows) <= MaxRows
  /\ pager \in [order : Orders, offset : 0..(2 * MaxRows), start : 0..MaxRows,
                seen : SUBSET (1..MaxRows), state : {"off", "want", "wait", "done"}]

ReadsInit ==
  /\ rows \in UNION {[1..k -> {"shown", "hidden"}] : k \in 0..MaxRows}
  /\ pager = [order |-> "oldest", offset |-> 0, start |-> 0, seen |-> {}, state |-> "off"]

\* SessionDB.get_messages: external.  A page counted from the newest row or
\* from the oldest.
Stored(order, offset) ==
  LET last == Len(rows)
  IN {i \in 1..last : IF order = "oldest"
                      THEN offset < i /\ i <= offset + PageLimit
                      ELSE i + offset <= last /\ last < i + offset + PageLimit}

\* Faulty: the offset counts what the client was shown
PageByShown(order, offset) ==
  LET shown == {i \in Stored(order, offset) : rows[i] = "shown"}
  IN [seen |-> shown, raw |-> Cardinality(shown), next |-> offset + Cardinality(shown)]

\* The answer: visible rows only, and where the next page begins.
Page(order, offset) ==
  LET stored == Stored(order, offset)
      shown == {i \in stored : rows[i] = "shown"}
  IN [seen |-> shown, raw |-> Cardinality(stored), next |-> offset + Cardinality(stored)]

----------------------------------------------------------------------------
\* The agent writes another row: external.
AppendRow(kind) ==
  /\ Len(rows) < MaxRows
  /\ rows' = Append(rows, kind)
  /\ UNCHANGED pager

\* The client opens the transcript: external.
OpenTranscript(order) ==
  /\ pager.state = "off"
  /\ pager' = [pager EXCEPT !.order = order, !.start = Len(rows), !.state = "want"]
  /\ UNCHANGED rows

\* The client takes a page in.
PageTaken(page) ==
  [pager EXCEPT !.seen = @ \cup page.seen, !.offset = page.next,
                !.state = IF page.raw = PageLimit THEN "want" ELSE "done"]

\* An answer it does not get, it asks for again.
AskAgain == [pager EXCEPT !.state = IF @ = "wait" THEN "want" ELSE @]

\* A client that reads to the end has every visible row that was there when
\* it began, whatever was written meanwhile and however many rows are hidden,
\* and no hidden one.
PagesAreComplete ==
  /\ pager.state = "done" => {i \in 1..pager.start : rows[i] = "shown"} \subseteq pager.seen
  /\ \A i \in pager.seen : rows[i] = "shown"
=============================================================================
