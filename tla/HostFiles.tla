----------------------------- MODULE HostFiles -----------------------------
(***************************************************************************)
(* The managed folders of the host as a thread of the plugin sees them      *)
(* while their owner changes them: the folder service (list, create) and    *)
(* the image reader.                                                        *)
(*                                                                         *)
(* One folder R/a lies below the locked root R and may hold one entry n; X  *)
(* is a folder outside.  The owner turns R/a into a link to X, removes it   *)
(* or puts it back, and changes what n is.  A path is the spelling a thread *)
(* works with; an open directory is the folder itself, which no later       *)
(* renaming of the path changes.                                            *)
(***************************************************************************)
EXTENDS Naturals

CONSTANTS
  Tasks,        \* numbers of tasks, each with a thread
  MaxTouches    \* bound: changes by the owner

ASSUME FilesAssumption == MaxTouches \in Nat

Paths == {"R/a", "R/a/n", "X", "X/n"}
Folders == {"in", "in/n", "out", "out/n"}
Operations == {"none", "list", "create", "image"}
Calls == {"none", "first", "canon", "final", "open", "look", "mkdir", "check", "list",
          "read", "page", "done"}
Entries == {"none", "dir", "file", "link"}

NoThread == [op |-> "none", pc |-> "none", path |-> "none", dir |-> "none", out |-> "none"]

VARIABLES
  a,        \* what R/a is: the folder "in", a "link" to X, or "none"
  n,        \* what each folder's entry n is
  touches,  \* the owner's changes so far
  thread,   \* the thread of each task
  used      \* folders a thread has made an entry in, listed or read from

fileVars == <<a, n, touches, used>>

FilesTypeOK ==
  /\ a \in {"in", "link", "none"}
  /\ n \in [{"in", "out"} -> Entries]
  /\ touches \in 0..MaxTouches
  /\ thread \in [Tasks -> [op : Operations, pc : Calls, path : Paths \cup {"none"},
                            dir : Folders \cup {"none"}, out : {"none", "ok", "error"}]]
  /\ used \subseteq Folders

FilesInit ==
  /\ a = "in"
  /\ n \in {[in |-> e, out |-> "dir"] : e \in {"none", "dir", "file"}}
  /\ touches = 0
  /\ thread = [t \in Tasks |-> NoThread]
  /\ used = {}

\* The owner, or another program: external.
OwnerChangesFolder ==
  /\ touches < MaxTouches
  /\ a' \in {"in", "link", "none"} \ {a}
  /\ touches' = touches + 1
  /\ UNCHANGED <<n, used>>

OwnerChangesEntry ==
  /\ touches < MaxTouches
  /\ n' \in {[n EXCEPT !["in"] = e] : e \in Entries \ {n["in"]}}
  /\ touches' = touches + 1
  /\ UNCHANGED <<a, used>>

----------------------------------------------------------------------------
\* Faulty: links on the way are followed
OpenFollowing(path) ==
  CASE path = "R/a" -> {f \in {"in", "out"} : a = IF f = "in" THEN "in" ELSE "link"}
    [] path = "R/a/n" -> {f \in {"in/n", "out/n"} :
          \/ f = "in/n" /\ a = "in" /\ n["in"] = "dir"
          \/ f = "out/n" /\ a = "link" /\ n["out"] = "dir"}
    [] path = "X" -> {"out"}
    [] path = "X/n" -> {f \in {"out/n"} : n["out"] = "dir"}

\* A walk that refuses links on the way: the folder, if there is one.
OpenNoFollow(path) ==
  CASE path = "R/a" -> {f \in {"in"} : a = "in"}
    [] path = "R/a/n" -> {f \in {"in/n"} : a = "in" /\ n["in"] = "dir"}
    [] path = "X" -> {"out"}
    [] path = "X/n" -> {f \in {"out/n"} : n["out"] = "dir"}

\* The same for a file at the end of the path; its folder names where it is.
FileNoFollow(path) ==
  {f \in {"in"} : path = "R/a/n" /\ a = "in" /\ n["in"] = "file"}

\* The host's resolution of a spelling, links followed: external.
Canonical(path) ==
  CASE path = "R/a" -> IF a = "in" THEN {"R/a"} ELSE IF a = "link" THEN {"X"} ELSE {}
    [] path = "R/a/n" ->
         CASE a = "in" /\ n["in"] \in {"dir", "file"} -> {"R/a/n"}
           [] a = "in" /\ n["in"] = "link" -> {"X"}
           [] a = "link" /\ n["out"] # "none" -> {"X/n"}
           [] OTHER -> {}
    [] OTHER -> {path}

\* The locked root is R.
Under(path) == path \in {"R/a", "R/a/n"}

----------------------------------------------------------------------------
(***************************************************************************)
(* A thread: where it is, the spelling it resolves, the folder it holds     *)
(* open and how it ended.  Each action is one call on the file system; the  *)
(* owner acts between any two.                                              *)
(***************************************************************************)
\* asyncio.to_thread of list_folders, create_folder or read_image.
Spawn(op) ==
  [NoThread EXCEPT !.op = op, !.pc = IF op = "image" THEN "canon" ELSE "first",
                   !.path = IF op = "image" THEN "R/a/n" ELSE "R/a"]

At(t, pc) == thread[t].pc = pc
Goto(t, pc) == thread' = [thread EXCEPT ![t].pc = pc]
End(t, out) == thread' = [thread EXCEPT ![t].pc = "done", ![t].out = out]
Uses(folder) == used' = used \cup {folder}

\* The spelling is opened first, as it stands.
OpenSpelling(t) ==
  /\ At(t, "first")
  /\ \/ OpenNoFollow(thread[t].path) = {} /\ End(t, "error")
     \/ OpenNoFollow(thread[t].path) # {} /\ Goto(t, "canon")
  /\ UNCHANGED fileVars

\* Then resolved; the result has to lie below the locked root.
Resolve(t) ==
  /\ At(t, "canon")
  /\ LET inside == {p \in Canonical(thread[t].path) : Under(p)}
     IN \/ inside = {} /\ End(t, "error")
        \/ \E p \in inside : thread' = [thread EXCEPT ![t].path = p,
             ![t].pc = IF thread[t].op = "image" THEN "read" ELSE "final"]
  /\ UNCHANGED fileVars

\* And opened again.  What follows: the folder is listed, an entry is made in
\* it, or the entry just made is listed.
OpenResolved(t) ==
  /\ At(t, "final")
  /\ \/ OpenNoFollow(thread[t].path) = {} /\ End(t, "error")
     \/ /\ OpenNoFollow(thread[t].path) # {}
        /\ Goto(t, IF thread[t].op = "create" /\ thread[t].dir = "none" THEN "open" ELSE "list")
  /\ UNCHANGED fileVars

\* create_folder pins the parent and works below what it pinned.
OpenParent(t) ==
  /\ At(t, "open")
  /\ \/ OpenNoFollow(thread[t].path) = {} /\ End(t, "error")
     \/ \E f \in OpenNoFollow(thread[t].path) :
          thread' = [thread EXCEPT ![t].pc = "look", ![t].dir = f]
  /\ UNCHANGED fileVars

\* An entry that is a link or not a folder is an error; a folder, new or old,
\* is resolved from the top before it is reported.
Accept(t) ==
  IF n[thread[t].dir] = "dir"
  THEN thread' = [thread EXCEPT ![t].pc = "first", ![t].path = "R/a/n"]
  ELSE End(t, "error")

LookUp(t) ==
  /\ At(t, "look")
  /\ IF n[thread[t].dir] = "none" THEN Goto(t, "mkdir") ELSE Accept(t)
  /\ UNCHANGED fileVars

\* Losing the race for the name is no error: the entry is looked at again.
MakeEntry(t) ==
  /\ At(t, "mkdir")
  /\ Goto(t, "check")
  /\ IF n[thread[t].dir] = "none"
     THEN n' = [n EXCEPT ![thread[t].dir] = "dir"] /\ Uses(thread[t].dir)
     ELSE UNCHANGED <<n, used>>
  /\ UNCHANGED <<a, touches>>

CheckEntry(t) ==
  /\ At(t, "check")
  /\ Accept(t)
  /\ UNCHANGED fileVars

\* The listing opens the folder once more and reads what it opened.
ListFolder(t) ==
  /\ At(t, "list")
  /\ \/ OpenNoFollow(thread[t].path) = {} /\ End(t, "error") /\ UNCHANGED used
     \/ \E f \in OpenNoFollow(thread[t].path) : End(t, "ok") /\ Uses(f)
  /\ UNCHANGED <<a, n, touches>>

\* _read_regular walks to the resolved spelling and wants a regular file.
ReadImage(t) ==
  /\ At(t, "read")
  /\ \/ FileNoFollow(thread[t].path) = {} /\ End(t, "error") /\ UNCHANGED used
     \/ \E f \in FileNoFollow(thread[t].path) : End(t, "ok") /\ Uses(f)
  /\ UNCHANGED <<a, n, touches>>

\* Any call may fail, a limit be passed, the host's policy refuse.
ThreadFails(t) ==
  /\ thread[t].pc \notin {"none", "done"}
  /\ End(t, "error")
  /\ UNCHANGED fileVars

FileStep(t) ==
  \/ OpenSpelling(t) \/ Resolve(t) \/ OpenResolved(t) \/ OpenParent(t)
  \/ LookUp(t) \/ MakeEntry(t) \/ CheckEntry(t) \/ ListFolder(t) \/ ReadImage(t)

----------------------------------------------------------------------------
\* Whatever the owner turns the folder into while a thread is on its way,
\* nothing outside the locked root is listed, read or written.
StaysInside == used \subseteq {"in", "in/n"}
=============================================================================
