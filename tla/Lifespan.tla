------------------------------- MODULE Lifespan -------------------------------
(***************************************************************************)
(* The life of the plugin in one Hermes process (_lifespan of              *)
(* dashboard/plugin_api.py): what it starts, and the ordered shutdown of   *)
(* shutdown.py that closes it, over the connection journal, the metrics    *)
(* and the update check.  Steps of the shutdown may fail, its caller may   *)
(* be cancelled again and again, storage may hang, and the process may die *)
(* anywhere.                                                               *)
(*                                                                         *)
(* The connector, the leases and the push bridge are parts here that close *)
(* or fail to; ConnectorService, Admission, SessionLease and PushBridge    *)
(* have their insides.                                                     *)
(***************************************************************************)
EXTENDS Journal, UpdateChecker, Metrics

CONSTANT MaxProcesses  \* bound: processes, one after the other

VARIABLES
    phase,    \* down, up, closing, or ended: _lifespan has returned to Hermes
    part,     \* what became of each part of the plugin
    step,     \* the next step of the shutdown
    process   \* which process this is

lifespanVars == <<phase, part, step, process>>
pluginVars == <<journalVars, updateVars, metricsVars, lifespanVars>>

\* the steps of _lifespan's shutdown, with those of DeviceAdmissionService.close in their place
Steps == <<"updates", "connector", "leases", "push", "metrics", "journal", "runtime">>

Part == Range(Steps)
Absent == [p \in Part |-> "absent"]
Fallible == {"connector", "leases", "push", "metrics"}

LifespanInit ==
    /\ JournalInit /\ UpdatesInit /\ MetricsInit
    /\ phase = "down" /\ part = Absent /\ step = 1 /\ process = 1

(***************************************************************************)
(* What may run: without admission only the runtime and the update check;  *)
(* metrics, the push bridge, the connector and the update check are        *)
(* optional.  A bridge that was built outlives a connector that was not.   *)
(***************************************************************************)
CanBeUp(up) ==
    /\ "runtime" \in up
    /\ "leases" \in up <=> "journal" \in up
    /\ up \cap {"connector", "push", "metrics"} # {} => "leases" \in up

\* _lifespan up to its yield: nothing in it suspends
Start ==
    /\ phase = "down" /\ phase' = "up"
    /\ \E up \in SUBSET Part :
          /\ CanBeUp(up)
          /\ part' = [p \in Part |-> IF p \in up THEN "open" ELSE "absent"]
          /\ IF "journal" \in up THEN JournalStarts ELSE UNCHANGED journalVars
          /\ IF "updates" \in up THEN UpdatesStart ELSE UNCHANGED updateVars
          /\ IF "metrics" \in up THEN MetricsStart
             ELSE IF "leases" \in up THEN MetricsUnavailable
             ELSE UNCHANGED metricsVars
    /\ UNCHANGED <<step, process>>

\* a connector that was not closed, or failed to, records what it sees
Records ==
    /\ part["connector"] \in {"open", "failed"}
    /\ Record
    /\ UNCHANGED <<updateVars, metricsVars, lifespanVars>>

Writes == WriterStep /\ UNCHANGED <<updateVars, metricsVars, lifespanVars>>

\* after the shutdown began requests go on, but no new one and no timer: it is cancelled
Checks ==
    /\ part["updates"] # "absent"
    /\ UpdateStep
    /\ \/ phase = "up"
       \/ \A c \in Everyone : asking'[c] # asking[c] => c # Timer /\ asking[c] # "idle"
    /\ UNCHANGED <<journalVars, metricsVars, lifespanVars>>

\* admission counts what it admits, and the leases that end
Measures ==
    /\ part["metrics"] # "absent" /\ part["leases"] \in {"open", "failed"}
    /\ \/ Counts
       \/ \E active \in 0..1 : UpdatesActive(active) /\ (Saved \/ SaveFails(0))
    /\ UNCHANGED <<journalVars, updateVars, lifespanVars>>

-----------------------------------------------------------------------------
(* Shutdown                                                                *)

\* the finally of _lifespan: the cleanup task begins
Stop ==
    /\ phase = "up" /\ phase' = "closing"
    /\ UNCHANGED <<journalVars, updateVars, metricsVars, part, step, process>>

At(p) == phase = "closing" /\ step <= Len(Steps) /\ Steps[step] = p

Became(p, outcome) ==
    /\ part' = [part EXCEPT ![p] = outcome]
    /\ step' = step + 1
    /\ UNCHANGED <<phase, process>>

Skip(p) ==
    /\ At(p) /\ part[p] = "absent"
    /\ step' = step + 1
    /\ UNCHANGED <<journalVars, updateVars, metricsVars, phase, part, process>>

\* the cancelled update task settles; gather keeps its exception
CloseUpdates ==
    /\ At("updates") /\ part["updates"] = "open"
    /\ TimerStops /\ Became("updates", "closed")
    /\ UNCHANGED <<journalVars, metricsVars>>

\* the last write of the metrics: no lease is active
CloseMetrics(outcome) ==
    /\ UpdatesActive(0)
    /\ IF outcome = "closed" THEN Saved ELSE SaveFails(0)

Close(p) ==
    /\ p \in Fallible /\ At(p) /\ part[p] = "open"
    /\ Became(p, "closed")
    /\ IF p = "metrics" THEN CloseMetrics("closed") ELSE UNCHANGED metricsVars
    /\ UNCHANGED <<journalVars, updateVars>>

\* RelayRuntime.close swallows the failures of its bridges
CloseRuntime ==
    /\ At("runtime") /\ part["runtime"] = "open"
    /\ Became("runtime", "closed")
    /\ UNCHANGED <<journalVars, updateVars, metricsVars>>

\* Faulty: the first error ends the cleanup
CloseFailsAndAborts(p) ==
    /\ p \in Fallible /\ At(p) /\ part[p] = "open"
    /\ part' = [part EXCEPT ![p] = "failed"] /\ phase' = "ended"
    /\ UNCHANGED <<journalVars, updateVars, metricsVars, step, process>>

\* a step raises: cleanup_steps keeps the error and goes on
CloseFails(p) ==
    /\ p \in Fallible /\ At(p) /\ part[p] = "open"
    /\ Became(p, "failed")
    /\ IF p = "metrics" THEN CloseMetrics("failed") ELSE UNCHANGED metricsVars
    /\ UNCHANGED <<journalVars, updateVars>>

JournalCloses ==
    /\ At("journal") /\ part["journal"] = "open"
    /\ CloseJournal
    /\ UNCHANGED <<updateVars, metricsVars, lifespanVars>>

\* Faulty: shutdown joins the writer without a timeout
JournalClosesJoined ==
    /\ At("journal") /\ part["journal"] = "open"
    /\ \/ answer = "drained" /\ UNCHANGED journalVars
       \/ Finished /\ JournalClosed
    /\ Became("journal", "closed")
    /\ UNCHANGED <<updateVars, metricsVars>>

\* close has waited for the writer long enough
JournalCloseReturns ==
    /\ At("journal") /\ part["journal"] = "open"
    /\ \/ answer = "drained" /\ UNCHANGED journalVars
       \/ JournalClosed
    /\ Became("journal", "closed")
    /\ UNCHANGED <<updateVars, metricsVars>>

\* await_cleanup shields the task from the cancellations of its caller
Joined == step > Len(Steps)

End ==
    /\ phase = "closing" /\ Joined
    /\ phase' = "ended"
    /\ UNCHANGED <<journalVars, updateVars, metricsVars, part, step, process>>

\* the process ends, also before the plugin was shut down, and another one begins
ProcessEnds ==
    /\ phase # "down" /\ process < MaxProcesses
    /\ phase' = "down" /\ part' = Absent /\ step' = 1 /\ process' = process + 1
    /\ JournalDies /\ MetricsDie /\ UNCHANGED updateVars

\* the steps of the shutdown that the event loop takes by itself
OwnStep ==
    \/ CloseUpdates \/ CloseRuntime \/ JournalCloses \/ JournalCloseReturns \/ End
    \/ \E p \in Part : Skip(p)

ShutdownStep == OwnStep \/ \E p \in Part : Close(p) \/ CloseFails(p)

LifespanNext == Start \/ Records \/ Writes \/ Checks \/ Measures \/ Stop \/ ShutdownStep \/ ProcessEnds

LifespanSpec == LifespanInit /\ [][LifespanNext]_pluginVars

(***************************************************************************)
(* The event loop goes on with the cleanup task: it cancels the update     *)
(* task, bounds its wait for the journal's writer, and the runtime's close *)
(* returns.                                                                *)
(*                                                                         *)
(* Nothing is assumed of the four closes that may write a file on the      *)
(* event loop itself: the metrics (update_active_leases), the leases (each *)
(* release updates the same gauge), the push bridge (a registration given  *)
(* up is saved) and the connector (an unanswered pairing is denied).  A    *)
(* disk that hangs may keep any of them, and with it the shutdown, for     *)
(* ever.  Nor is anything assumed of the writer thread, of requests or of  *)
(* Hermes asking for the shutdown.                                         *)
(***************************************************************************)
FairSpec == LifespanSpec /\ WF_pluginVars(OwnStep)

-----------------------------------------------------------------------------
(* Properties                                                              *)

(***************************************************************************)
(* What the diagnostics route hands out is true: the journal's events are  *)
(* in order and its losses show, its close reports only a writer that has  *)
(* ended, and the counters lack nothing but what could not be saved.       *)
(***************************************************************************)
DiagnosticsAreHonest ==
    /\ HistoryInOrder /\ LossIsVisible /\ DrainedIsIdle
    /\ CountersAreTrue(part["metrics"] # "absent")

(***************************************************************************)
(* When _lifespan has returned nothing it started goes on unasked: every   *)
(* part was told to close, whatever failed before it and however often the *)
(* caller was cancelled, the metrics file says that no lease is active,    *)
(* and the journal took its last line after the connector that records     *)
(* into it had closed.                                                     *)
(***************************************************************************)
TeardownIsComplete ==
    /\ phase = "ended" => \A p \in Part : part[p] # "open"
    /\ phase = "ended" /\ part["journal"] = "closed" => shut /\ answer # "pending"
    /\ phase = "ended" /\ part["updates"] = "closed" => asking[Timer] = "stopped"
    /\ phase = "ended" /\ part["metrics"] = "closed" /\ part["leases"] = "closed"
          => current.active = 0
    /\ shut => part["connector"] # "open"

\* the cleanup task is in a close that may write a file
Hangs == \E p \in Fallible : At(p) /\ part[p] = "open"

(***************************************************************************)
(* A shutdown comes to its end, or one of the closes that write files on   *)
(* the event loop never returns; the journal never holds it up, however    *)
(* long its writer hangs (ConnectionJournal.close).                        *)
(***************************************************************************)
ShutdownCompletes == phase = "closing" ~> (phase \in {"ended", "down"} \/ []Hangs)

(***************************************************************************)
(* Within a process the latest release that the dashboard shows never goes *)
(* back to an older one: answers are applied in the order of their fetches,*)
(* although requests, the timer and cancelled checks overlap (check).      *)
(***************************************************************************)
LatestNeverRegresses == [][process' = process /\ phase # "down" => latest' >= latest]_pluginVars

=============================================================================
