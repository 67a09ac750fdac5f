------------------------------- MODULE Journal -------------------------------
(***************************************************************************)
(* The connection journal (connection_journal.py): a bounded list of       *)
(* events in memory and rotating files that one writer thread appends to   *)
(* through a bounded queue.  The event loop records and closes, the writer *)
(* interleaves with it, and a new process starts from the files.           *)
(*                                                                         *)
(* An event is its number in the order of record calls and the size of its *)
(* line.  The snapshot's ages and the events' fields are left out.         *)
(***************************************************************************)
EXTENDS Naturals, Sequences, SequencesExt, FiniteSets, FiniteSetsExt

CONSTANTS
    MaxBytes,     \* max_bytes of a file
    MaxFiles,     \* max_files
    MemoryLimit,  \* memory_limit
    QueueLimit,   \* writer_queue_limit
    Sizes,        \* line sizes tried, larger ones than MaxBytes too
    MaxEvents     \* bound: events recorded

ASSUME JournalAssumption ==
    /\ MaxBytes \in Nat \ {0} /\ MaxFiles \in 1..4
    /\ MemoryLimit \in 1..256 /\ QueueLimit \in 1..256
    /\ Sizes \subseteq Nat \ {0} /\ MaxEvents \in Nat

VARIABLES
    recorded,  \* how many events were recorded, over all processes
    memory,    \* _events
    queue,     \* _write_queue
    writer,    \* the thread: none, idle, the steps of _persist, or exited
    line,      \* what the writer took from the queue
    shifting,  \* the next file _rotate renames
    files,     \* files[0] is the journal, files[i] its rotation .i
    ready,     \* _storage_ready
    shut,      \* _writer_closed, and with it _writer_stop
    answer,    \* what close has answered: none, drained or timeout
    counted,   \* dropped_event_count and write_failure_count together
    life,      \* history: events this process took for the files
    former,    \* history: those of the earlier processes
    past,      \* history: what their snapshots had counted when they ended
    gone       \* history: events that went with the oldest file, or with the end of a process

\* what has become of the events
lossVars == <<counted, life, former, past, gone>>

journalVars == <<recorded, memory, queue, writer, line, shifting, files, ready, shut, answer,
                 lossVars>>

Writing == {"stat", "rotate", "append"}

Ids(file) == {entry.id : entry \in Range(file)}

\* every event some line of the files stands for, and every one not yet settled
Kept == UNION {Ids(files[i]) : i \in 0..MaxFiles}
Pending == Ids(queue) \cup (IF writer \in Writing THEN {line.id} ELSE {})

Size(file) == FoldSeq(LAMBDA entry, sum : entry.size + sum, 0, file)

\* the deque of at most MemoryLimit events
Bounded(events) ==
    IF Len(events) <= MemoryLimit THEN events
    ELSE SubSeq(events, Len(events) - MemoryLimit + 1, Len(events))

NoLine == [id |-> 0, size |-> 0]

(***************************************************************************)
(* A line is restored when it parses against the closed schema: a short    *)
(* write leaves a cut line, or a bare one without its newline, and either  *)
(* runs into the line after it.                                            *)
(***************************************************************************)
Readable(file, i) ==
    /\ i = 1 \/ file[i - 1].kind \in {"whole", "foreign"}
    /\ file[i].kind = "whole" \/ (file[i].kind = "bare" /\ i = Len(file))

EventsOf(file) ==
    [k \in 1..Cardinality({i \in DOMAIN file : Readable(file, i)}) |->
        file[CHOOSE i \in DOMAIN file :
                /\ Readable(file, i)
                /\ Cardinality({j \in 1..i : Readable(file, j)}) = k].id]

\* the files that can be read, the oldest first: MaxFiles is at most four (_persisted_paths)
Loaded(readable) ==
    LET Events(i) == IF i < MaxFiles /\ i \in readable /\ Size(files[i]) <= MaxBytes
                     THEN EventsOf(files[i]) ELSE <<>>
    IN Events(3) \o Events(2) \o Events(1) \o Events(0)

\* a journal of another version may have left a line behind
JournalInit ==
    /\ \E left \in {<<>>, <<[id |-> 0, size |-> 1, kind |-> "foreign"]>>} :
          files = [i \in 0..MaxFiles |-> IF i = 0 THEN left ELSE <<>>]
    /\ recorded = 0 /\ memory = <<>> /\ queue = <<>> /\ writer = "none" /\ line = NoLine
    /\ shifting = 0 /\ ready = FALSE /\ shut = FALSE /\ answer = "none" /\ counted = 0
    /\ life = {} /\ former = {} /\ past = 0 /\ gone = {}

-----------------------------------------------------------------------------
(* The event loop                                                          *)

\* Faulty: a full queue drops its line without counting it
DropsUncounted == counted

Drops == counted + 1

\* _ensure_writer and put_nowait: a thread that does not start is counted too; without storage
\* the line is queued all the same
Enqueue(entry) ==
    IF shut THEN UNCHANGED <<queue, writer, counted, life>>
    ELSE /\ life' = IF ready THEN life \cup {entry.id} ELSE life
         /\ \/ writer = "none" /\ writer' = "idle"
            \/ writer = "none" /\ UNCHANGED writer
            \/ writer # "none" /\ UNCHANGED writer
         /\ IF Len(queue) < QueueLimit
            THEN queue' = Append(queue, entry)
                 /\ counted' = IF writer' = "none" THEN counted + 1 ELSE counted
            ELSE UNCHANGED queue
                 /\ counted' = IF writer' = "none" THEN Drops + 1 ELSE Drops

\* record: one of the loop's calls, so another one never comes between its two locks
Record ==
    /\ recorded < MaxEvents /\ answer # "pending"
    /\ \E size \in {n \in Sizes : n <= MaxBytes} :
          /\ recorded' = recorded + 1
          /\ memory' = Bounded(Append(memory, recorded'))
          /\ Enqueue([id |-> recorded', size |-> size])
    /\ UNCHANGED <<line, shifting, files, ready, shut, answer, former, past, gone>>

\* close, up to its wait for the writer, in which the loop's thread blocks
CloseJournal ==
    /\ answer = "none"
    /\ shut' = TRUE
    /\ answer' = IF writer = "none" THEN "drained" ELSE "pending"
    /\ UNCHANGED <<recorded, memory, queue, writer, line, shifting, files, ready, lossVars>>

Finished == writer = "exited"

JournalClosed ==
    /\ answer = "pending"
    /\ answer' = IF Finished THEN "drained" ELSE "timeout"
    /\ UNCHANGED <<recorded, memory, queue, writer, line, shifting, files, ready, shut, lossVars>>

-----------------------------------------------------------------------------
(* The writer thread                                                       *)

WriterTakes ==
    /\ writer = "idle" /\ queue # <<>>
    /\ queue' = Tail(queue)
    /\ IF ready THEN line' = Head(queue) /\ writer' = "stat" ELSE UNCHANGED <<line, writer>>
    /\ UNCHANGED <<recorded, memory, shifting, files, ready, shut, answer, lossVars>>

WriterExits ==
    /\ writer = "idle" /\ shut /\ queue = <<>>
    /\ writer' = "exited"
    /\ UNCHANGED <<recorded, memory, queue, line, shifting, files, ready, shut, answer, lossVars>>

\* _persist's look at the file's size
Stat ==
    /\ writer = "stat"
    /\ IF Size(files[0]) + line.size > MaxBytes
       THEN writer' = "rotate" /\ shifting' = MaxFiles - 1
       ELSE writer' = "append" /\ UNCHANGED shifting
    /\ UNCHANGED <<recorded, memory, queue, line, files, ready, shut, answer, lossVars>>

\* what the first step of a rotation overwrites; a single file is deleted
Oldest == files[IF MaxFiles = 1 THEN 0 ELSE MaxFiles]

\* one os.replace of _rotate; a single file is deleted instead, or silently not
Rotate ==
    /\ writer = "rotate"
    /\ files' \in IF MaxFiles = 1 THEN {files, [files EXCEPT ![0] = <<>>]}
                  ELSE IF files[shifting] = <<>> THEN {files}
                  ELSE {[files EXCEPT ![shifting + 1] = files[shifting], ![shifting] = <<>>]}
    /\ gone' = IF shifting = MaxFiles - 1 /\ files' # files THEN gone \cup Ids(Oldest) ELSE gone
    /\ IF shifting = 0 THEN writer' = "append" /\ UNCHANGED shifting
       ELSE shifting' = shifting - 1 /\ UNCHANGED writer
    /\ UNCHANGED <<recorded, memory, queue, line, ready, shut, answer, counted, life, former, past>>

\* the write, which may be short; a single file that could not be deleted takes no line
AppendLine ==
    /\ writer = "append"
    /\ writer' = "idle" /\ line' = NoLine
    /\ IF Size(files[0]) + line.size > MaxBytes
       THEN /\ UNCHANGED files
            /\ gone' = IF MaxFiles = 1 THEN gone \cup {line.id} ELSE gone
       ELSE /\ \E kind \in {"whole", "bare", "cut"} :
                  files' = [files EXCEPT ![0] =
                               Append(@, [id |-> line.id, size |-> line.size, kind |-> kind])]
            /\ UNCHANGED gone
    /\ UNCHANGED <<recorded, memory, queue, shifting, ready, shut, answer, counted, life, former,
                   past>>

\* any of its file operations raises: counted, and the line is lost
PersistFails ==
    /\ writer \in Writing
    /\ writer' = "idle" /\ line' = NoLine /\ shifting' = 0
    /\ counted' = counted + 1
    /\ UNCHANGED <<recorded, memory, queue, files, ready, shut, answer, life, former, past, gone>>

WriterStep == WriterTakes \/ WriterExits \/ Stat \/ Rotate \/ AppendLine \/ PersistFails

-----------------------------------------------------------------------------
(* Processes                                                               *)

\* what the process had in memory and in the queue is gone
JournalDies ==
    /\ memory' = <<>> /\ queue' = <<>> /\ writer' = "none" /\ line' = NoLine /\ shifting' = 0
    /\ ready' = FALSE /\ shut' = FALSE /\ answer' = "none" /\ counted' = 0 /\ life' = {}
    /\ former' = former \cup life /\ past' = past + counted /\ gone' = gone \cup Pending
    /\ UNCHANGED <<recorded, files>>

\* __init__: a file that cannot be read is skipped; without its directory, or when the loading
\* raises in the middle, there is no storage
JournalStarts ==
    /\ ready' \in BOOLEAN
    /\ \E readable \in SUBSET (0..MaxFiles) : \E n \in 0..Len(Loaded(readable)) :
          /\ ready' => n = Len(Loaded(readable))
          /\ memory' = Bounded(SubSeq(Loaded(readable), 1, n))
    /\ UNCHANGED <<recorded, queue, writer, line, shifting, files, shut, answer, lossVars>>

-----------------------------------------------------------------------------
(* Properties                                                              *)

(***************************************************************************)
(* What export hands out is the order of the record calls, no event twice, *)
(* also after a rotation that a crash cut in two, a short write or a       *)
(* restart (_rotate, _load_persisted).                                     *)
(***************************************************************************)
HistoryInOrder ==
    \A i, j \in DOMAIN memory : i < j => memory[i] < memory[j]

(***************************************************************************)
(* Losses show.  An event a process took for the files is on its way or in *)
(* a file, has aged out with the oldest one, or the process counts a loss  *)
(* for it, as dropped or as a failed write (_enqueue, _mark_write_failure);*)
(* what stood in the files when a process ended stays there for the next   *)
(* ones.  The end of a process takes what was on its way with it, and that *)
(* is never more than the queue and the line being written.                *)
(*                                                                         *)
(* Not counted by the code, and so no loss here: a single file that is     *)
(* full and cannot be deleted takes no line, a short write leaves a line   *)
(* that cannot be read, and without storage no line is written.            *)
(***************************************************************************)
LossIsVisible ==
    /\ Cardinality(life \ (Kept \cup Pending \cup gone)) <= counted
    /\ Cardinality(former \ (Kept \cup gone)) <= past
    /\ Cardinality(Pending) <= QueueLimit + 1

(***************************************************************************)
(* Once close has said that the writer ended, no line is under way.  (When *)
(* no thread could be started, lines may be left in the queue.)            *)
(***************************************************************************)
DrainedIsIdle == answer = "drained" => writer \notin Writing /\ (queue = <<>> \/ writer = "none")

=============================================================================
