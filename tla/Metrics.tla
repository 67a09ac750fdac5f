------------------------------- MODULE Metrics -------------------------------
(***************************************************************************)
(* The aggregate counters of operational_metrics.py: a value in memory and *)
(* its file, which every change rewrites whole (StateFile has the write).  *)
(* The three totals are one here.  A change whose write fails stays in     *)
(* memory, and its callers ignore the failure.                             *)
(***************************************************************************)
EXTENDS Naturals

CONSTANTS
    NoFile,     \* the file does not exist
    MaxCounted  \* bound: events counted

ASSUME MetricsAssumption == NoFile \notin [total : Nat, active : 0..1]

VARIABLES
    happened,  \* history: the events there were to count
    counters,  \* _value
    current,   \* the file
    legacy,    \* the file an older version kept elsewhere, as a version 1 value
    unsaved,   \* history: the events since the last write that was reported to succeed
    forgiven   \* history: those that were unsaved when a process ended

metricsVars == <<happened, counters, current, legacy, unsaved, forgiven>>

Counters(total, active) == [total |-> total, active |-> active]

MetricsInit ==
    /\ counters = Counters(0, 0) /\ current = NoFile /\ unsaved = 0 /\ forgiven = 0
    /\ \/ legacy = NoFile /\ happened = 0
       \/ legacy = Counters(1, 1) /\ happened = 1

\* _load: the file, else the old one, else a fresh value
LoadedCounters ==
    IF current # NoFile THEN current
    ELSE IF legacy # NoFile THEN legacy
    ELSE Counters(0, 0)

\* admission's __init__: loaded, and no lease is active yet
MetricsStart ==
    /\ counters' = [LoadedCounters EXCEPT !.active = 0]
    /\ current' = counters'
    /\ UNCHANGED <<happened, legacy, unsaved, forgiven>>

\* one of its two writes fails, perhaps after its replace, or the file is not valid: admission
\* goes on without metrics
MetricsUnavailable ==
    /\ current' \in {current, LoadedCounters, [LoadedCounters EXCEPT !.active = 0]}
    /\ UNCHANGED <<happened, counters, legacy, unsaved, forgiven>>

\* _save; it may raise after the new file has taken its place
Saved == current' = counters' /\ unsaved' = 0
SaveFails(new) == current' \in {current, counters'} /\ unsaved' = unsaved + new

\* _record with a counter: a pairing, an open or a reattachment
Counts ==
    /\ happened < MaxCounted /\ happened' = happened + 1
    /\ \E active \in 0..1 : counters' = Counters(counters.total + 1, active)
    /\ Saved \/ SaveFails(1)
    /\ UNCHANGED <<legacy, forgiven>>

\* update_active_leases
UpdatesActive(active) ==
    /\ counters' = [counters EXCEPT !.active = active]
    /\ UNCHANGED <<happened, legacy, forgiven>>

\* what was never saved ends with the process
MetricsDie ==
    /\ counters' = Counters(0, 0)
    /\ forgiven' = forgiven + unsaved /\ unsaved' = 0
    /\ UNCHANGED <<happened, current, legacy>>

(***************************************************************************)
(* The totals count every event once.  What a process with metrics shows   *)
(* lacks only what earlier processes had not saved when they ended; what   *)
(* the next one will load (_load) lacks besides only what followed the     *)
(* last write that succeeded.  Neither counts an event twice, and an       *)
(* upgrade that moves the file keeps what the older version had counted.   *)
(* Events in a process without metrics are nowhere counted.                *)
(***************************************************************************)
CountersAreTrue(running) ==
    /\ LoadedCounters.total <= happened
    /\ happened <= LoadedCounters.total + unsaved + forgiven
    /\ legacy # NoFile => legacy.total <= LoadedCounters.total
    /\ running => counters.total <= happened /\ happened <= counters.total + forgiven

=============================================================================
