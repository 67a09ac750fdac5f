---------------------------- MODULE UpdateChecker ----------------------------
(***************************************************************************)
(* The update check of update_check.py: a timer and the dashboard's        *)
(* requests ask for the latest release, one at a time, and keep the answer *)
(* in memory and in a cache file; apply runs Hermes's own updater.         *)
(*                                                                         *)
(* Versions are numbers, 0 for none, and releases only grow (external).    *)
(* fetch reads the release somewhere between its start and its answer.     *)
(***************************************************************************)
EXTENDS Naturals, FiniteSets

CONSTANTS
    None,       \* nobody
    Timer,      \* the task of run_forever
    Callers,    \* requests of the dashboard
    MaxVersion  \* bound: releases published

ASSUME UpdateAssumption == None \notin Callers \cup {Timer} /\ Timer \notin Callers

VARIABLES
    published,  \* external: the latest release
    latest,     \* _latest
    fresh,      \* not is_stale(): the answer is less than six hours old
    cache,      \* the version in the cache file
    asking,     \* where each caller of check and apply is
    got,        \* what the caller's fetch has read
    checkLock,  \* who holds _lock
    applyLock   \* who holds _apply_lock

updateVars == <<published, latest, fresh, cache, asking, got, checkLock, applyLock>>

Everyone == Callers \cup {Timer}
Asking == {"idle", "waiting", "fetching", "fetched", "updating", "stopped"}

UpdatesInit ==
    /\ published = 1 /\ latest = 0 /\ fresh = FALSE /\ cache = 0
    /\ asking = [c \in Everyone |-> IF c = Timer THEN "stopped" ELSE "idle"]
    /\ got = [c \in Everyone |-> 0]
    /\ checkLock = None /\ applyLock = None

Goes(c, to) == asking' = [asking EXCEPT ![c] = to]

\* both locks are scoped: they go with the call
Leaves(c) ==
    /\ Goes(c, "idle")
    /\ checkLock' = IF checkLock = c THEN None ELSE checkLock
    /\ applyLock' = IF applyLock = c THEN None ELSE applyLock

Publish ==
    /\ published < MaxVersion /\ published' = published + 1
    /\ UNCHANGED <<latest, fresh, cache, asking, got, checkLock, applyLock>>

\* six hours go by
Ages ==
    /\ fresh /\ fresh' = FALSE
    /\ UNCHANGED <<published, latest, cache, asking, got, checkLock, applyLock>>

AskCheck(c) ==
    /\ asking[c] = "idle" /\ Goes(c, "waiting")
    /\ UNCHANGED <<published, latest, fresh, cache, got, checkLock, applyLock>>

\* Faulty: two checks may be under way
MayEnterAlways == TRUE

MayEnter == checkLock = None

\* under the lock the timer's check finds a fresh answer; a request is forced
EnterCheck(c) ==
    /\ asking[c] = "waiting" /\ MayEnter
    /\ IF c = Timer /\ fresh THEN Goes(c, "idle") /\ UNCHANGED checkLock
       ELSE Goes(c, "fetching") /\ checkLock' = c
    /\ UNCHANGED <<published, latest, fresh, cache, got, applyLock>>

FetchReads(c) ==
    /\ asking[c] = "fetching" /\ Goes(c, "fetched")
    /\ got' = [got EXCEPT ![c] = published]
    /\ UNCHANGED <<published, latest, fresh, cache, checkLock, applyLock>>

\* writing the cache file may fail, silently
SaveCache(version) == cache' \in {version, cache}

CheckDone(c) ==
    /\ asking[c] = "fetched"
    /\ latest' = got[c] /\ fresh' = TRUE
    /\ SaveCache(got[c])
    /\ got' = [got EXCEPT ![c] = 0]
    /\ Leaves(c)
    /\ UNCHANGED published

\* the fetch fails, or its caller is cancelled and the answer is thrown away
CheckEnds(c) ==
    /\ asking[c] \in {"waiting", "fetching", "fetched"}
    /\ got' = [got EXCEPT ![c] = 0]
    /\ Leaves(c)
    /\ UNCHANGED <<published, latest, fresh, cache>>

\* apply on a git checkout, unless one is in progress
AskApply(c) ==
    /\ c # Timer /\ asking[c] = "idle" /\ applyLock = None
    /\ applyLock' = c /\ Goes(c, "updating")
    /\ UNCHANGED <<published, latest, fresh, cache, got, checkLock>>

\* the updater succeeded: check again, still under the apply lock
UpdaterSucceeds(c) ==
    /\ asking[c] = "updating" /\ Goes(c, "waiting")
    /\ UNCHANGED <<published, latest, fresh, cache, got, checkLock, applyLock>>

\* it failed, timed out or did not start, or the request was cancelled
ApplyEnds(c) ==
    /\ asking[c] = "updating" /\ Leaves(c)
    /\ UNCHANGED <<published, latest, fresh, cache, got>>

\* the timer's task is cancelled, wherever it is
TimerStops ==
    /\ asking' = [asking EXCEPT ![Timer] = "stopped"]
    /\ got' = [got EXCEPT ![Timer] = 0]
    /\ checkLock' = IF checkLock = Timer THEN None ELSE checkLock
    /\ UNCHANGED <<published, latest, fresh, cache, applyLock>>

UpdateStep ==
    \/ Publish \/ Ages
    \/ \E c \in Everyone :
          \/ AskCheck(c) \/ EnterCheck(c) \/ FetchReads(c) \/ CheckDone(c) \/ CheckEnds(c)
          \/ AskApply(c) \/ UpdaterSucceeds(c) \/ ApplyEnds(c)

\* a new process reads the cache file, and may find its answer fresh; where the owner has
\* switched the check off the timer's task returns at once
UpdatesStart ==
    /\ latest' = cache
    /\ fresh' \in {FALSE, cache # 0}
    /\ \E enabled \in BOOLEAN :
          asking' = [c \in Everyone |-> IF c = Timer /\ ~enabled THEN "stopped" ELSE "idle"]
    /\ got' = [c \in Everyone |-> 0]
    /\ checkLock' = None /\ applyLock' = None
    /\ UNCHANGED <<published, cache>>

=============================================================================
