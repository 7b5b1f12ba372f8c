----------------------------- MODULE RequestLog -----------------------------
(***************************************************************************)
(* The request log of src/services/logStore.ts, a list of the newest       *)
(* entries that every handler updates by id, and the monitor of            *)
(* monitorStore.ts, to which finalizeRequest hands a record of the request *)
(* and which saves its records to .qwen/monitor.json a while later.  An    *)
(* entry that has left the list can no longer be updated nor recorded.     *)
(***************************************************************************)
EXTENDS Naturals, SequencesExt

CONSTANTS
    Requests,       \* request log ids
    MaxLogs,        \* MAX_LOGS
    MaxEntries,     \* MonitorStore.maxEntries
    TrimBatch       \* MonitorStore.TRIM_BATCH

ASSUME LogAssumption == MaxLogs \in Nat \ {0} /\ MaxEntries \in Nat \ {0} /\ TrimBatch \in Nat

VARIABLES
    log,        \* the entries, oldest first: id, accountEmail is set, an error is noted
    monitor,    \* the records in memory, oldest first: id and success
    dirty,      \* records since the last save
    saveTimer,  \* a save is due
    file        \* monitor.json

logVars == <<log, monitor, dirty, saveTimer, file>>

LogTypeOK ==
    /\ log \in Seq([id : Requests, account : BOOLEAN, failed : BOOLEAN])
    /\ Len(log) <= MaxLogs
    /\ {monitor, file} \subseteq Seq([id : Requests, success : BOOLEAN])
    /\ Len(monitor) <= MaxEntries + TrimBatch
    /\ dirty \in BOOLEAN /\ saveTimer \in BOOLEAN
    /\ dirty => saveTimer

LogInit ==
    /\ log = <<>>
    /\ monitor = <<>>
    /\ dirty = FALSE
    /\ saveTimer = FALSE
    /\ file = <<>>

\* createLogEntry.
Created(r) ==
    LET all == Append(log, [id |-> r, account |-> FALSE, failed |-> FALSE])
    IN IF Len(all) > MaxLogs THEN Tail(all) ELSE all

\* updateEntry: accountEmail of the entry, or an error of it (addError, or
\* finishReason error).
Updated(r, F(_)) == [i \in DOMAIN log |-> IF log[i].id = r THEN F(log[i]) ELSE log[i]]
WithAccount(r) == Updated(r, LAMBDA e : [e EXCEPT !.account = TRUE])

\* Mutant of WithError: the error is not noted.
WithErrorUnnoted(r) == log
WithError(r) == Updated(r, LAMBDA e : [e EXCEPT !.failed = TRUE])

LastOf(records) == SubSeq(records, Len(records) - MaxEntries + 1, Len(records))

\* The amortized trim of record().
Trimmed(records) ==
    IF Len(records) > MaxEntries + TrimBatch THEN LastOf(records) ELSE records

\* record().
Recorded(records, m) == Trimmed(Append(records, m))

\* finalizeRequest, once or twice, on the given entries: without an entry, or
\* without an account in it, nothing is recorded.
Finalize(r, entries, twice) ==
    LET mine == {e \in Range(entries) : e.id = r /\ e.account}
        m == [id |-> r, success |-> \A e \in mine : ~e.failed]
        once == Recorded(monitor, m)
    IN /\ log' = entries
       /\ IF mine = {}
          THEN UNCHANGED <<monitor, dirty, saveTimer>>
          ELSE /\ monitor' = IF twice THEN Recorded(once, m) ELSE once
               /\ dirty' = TRUE
               /\ saveTimer' = TRUE
       /\ UNCHANGED file

\* The timer of scheduleSave; save() fails without an effect, and the records
\* wait for the next one.
Save ==
    /\ saveTimer
    /\ saveTimer' = FALSE
    /\ dirty' = FALSE
    /\ file' \in IF dirty THEN {monitor, file} ELSE {file}
    /\ UNCHANGED <<log, monitor>>

\* Mutant of Loaded: the list starts empty.
LoadedNothing == <<>>

\* load(), when the module is imported.
Loaded == IF Len(file) > MaxEntries THEN LastOf(file) ELSE file

\* The process ends, and its memory is lost; another one starts.
LogLost ==
    /\ log' = <<>>
    /\ monitor' = <<>>
    /\ dirty' = FALSE
    /\ saveTimer' = FALSE

StartLog ==
    /\ monitor' = Loaded
    /\ UNCHANGED <<log, dirty, saveTimer, file>>
=============================================================================
