------------------------------ MODULE ChatLog -------------------------------
(***************************************************************************)
(* The chat session log (app/chat_log.py): one append-only SQLite table    *)
(* that the worker processes share.  A worker creates and migrates the     *)
(* table before its first write; a failed write is swallowed.  A write is  *)
(* a job of its own thread, so the jobs of the workers interleave.         *)
(***************************************************************************)
EXTENDS Naturals, Sequences, FiniteSets

CONSTANTS Workers,           \* the uvicorn worker processes
          Turns,             \* the turns of the logged session, 1 .. n
          NoWorker,          \* no worker, and no holder of a lock
          MaxWriteFailures   \* bound: writes that hit a full disk or a lock timeout

ASSUME LogAssumption == /\ NoWorker \notin Workers
                        /\ Turns \subseteq Nat
                        /\ MaxWriteFailures \in Nat

Roles == {"user", "assistant"}
Messages == Turns \X Roles
NoMessage == <<0, "none">>

\* MIGRATION_COLUMNS, and a table that does not exist yet.
AllColumns == {"retrieval_json", "user_group"}
NoTable == {"absent"}

VARIABLES table,         \* the migrated columns the table has, or NoTable
          rows,          \* the stored messages in the order of their id
          initialized,   \* the workers whose _initialized holds the path
          initLock,      \* [Workers -> the message whose thread holds _init_lock]
          job,           \* [Messages -> [pc, worker, seen]], the writes
          writeFailures  \* how many writes failed so far

logVars == <<table, rows, initialized, initLock, job, writeFailures>>

NoJob == [pc |-> "none", worker |-> NoWorker, seen |-> {}]

Settled(m) == job[m].pc \in {"stored", "lost", "dropped"}

LogTypeOK ==
    /\ table \in {NoTable} \cup SUBSET AllColumns
    /\ rows \in Seq(Messages)
    /\ initialized \subseteq Workers
    /\ initLock \in [Workers -> Messages \cup {NoMessage}]
    /\ \A m \in Messages :
         /\ job[m].pc \in {"none", "submitted", "create", "inspect", "migrate", "insert",
                           "stored", "lost", "dropped"}
         /\ job[m].worker \in Workers \cup {NoWorker}
         /\ job[m].seen \subseteq AllColumns
    /\ writeFailures \in 0 .. MaxWriteFailures

\* A data volume without a log, or with one an earlier release left behind.
LogInit ==
    /\ table \in {NoTable, {}, {"retrieval_json"}, AllColumns}
    /\ rows = << >>
    /\ initialized = {}
    /\ initLock = [w \in Workers |-> NoMessage]
    /\ job = [m \in Messages |-> NoJob]
    /\ writeFailures = 0

Goto(m, pc) == job' = [job EXCEPT ![m].pc = pc, ![m].seen = {}]

\* record_user_message or record_assistant_message is handed to a thread of worker w.
Submit(m, w) ==
    /\ job[m].pc = "none"
    /\ job' = [job EXCEPT ![m] = [pc |-> "submitted", worker |-> w, seen |-> {}]]
    /\ UNCHANGED <<table, rows, initialized, initLock, writeFailures>>

\* The lock is released however _ensure_initialized ends.
Release(m) == initLock' = [initLock EXCEPT ![job[m].worker] = NoMessage]

\* The path is in _initialized, before or after waiting for the lock.
SkipInit(m) ==
    /\ job[m].pc = "submitted"
    /\ job[m].worker \in initialized
    /\ Goto(m, "insert")
    /\ UNCHANGED <<table, rows, initialized, initLock, writeFailures>>

TakeInitLock(m) ==
    /\ job[m].pc = "submitted"
    /\ job[m].worker \notin initialized
    /\ initLock[job[m].worker] = NoMessage
    /\ initLock' = [initLock EXCEPT ![job[m].worker] = m]
    /\ Goto(m, "create")
    /\ UNCHANGED <<table, rows, initialized, writeFailures>>

\* CREATE TABLE IF NOT EXISTS: a new table has every column.
CreateTable(m) ==
    /\ job[m].pc = "create"
    /\ table' = IF table = NoTable THEN AllColumns ELSE table
    /\ Goto(m, "inspect")
    /\ UNCHANGED <<rows, initialized, initLock, writeFailures>>

\* PRAGMA table_info.
Inspect(m) ==
    /\ job[m].pc = "inspect"
    /\ job' = [job EXCEPT ![m].pc = "migrate", ![m].seen = table]
    /\ UNCHANGED <<table, rows, initialized, initLock, writeFailures>>

Missing(m) == AllColumns \ job[m].seen

\* In the order of MIGRATION_COLUMNS.
NextColumn(m) ==
    IF "retrieval_json" \in Missing(m) THEN "retrieval_json" ELSE "user_group"

\* ALTER TABLE ADD COLUMN of the next column that was missing when the table was
\* inspected.  Another worker may have added it since: SQLite then reports a
\* duplicate column, and record_* swallows the error together with the message.
AddColumn(m) ==
    /\ job[m].pc = "migrate"
    /\ Missing(m) # {}
    /\ IF NextColumn(m) \in table
       THEN Goto(m, "lost") /\ Release(m) /\ UNCHANGED table
       ELSE /\ table' = table \cup {NextColumn(m)}
            /\ job' = [job EXCEPT ![m].seen = @ \cup {NextColumn(m)}]
            /\ UNCHANGED initLock
    /\ UNCHANGED <<rows, initialized, writeFailures>>

\* Faulty variant of FinishInit: the worker counts as initialized before the
\* second column is there.
FinishInitEarly(m) ==
    /\ job[m].pc = "migrate"
    /\ "retrieval_json" \notin Missing(m)
    /\ initialized' = initialized \cup {job[m].worker}
    /\ Goto(m, "insert")
    /\ Release(m)
    /\ UNCHANGED <<table, rows, writeFailures>>

FinishInit(m) ==
    /\ job[m].pc = "migrate"
    /\ Missing(m) = {}
    /\ initialized' = initialized \cup {job[m].worker}
    /\ Goto(m, "insert")
    /\ Release(m)
    /\ UNCHANGED <<table, rows, writeFailures>>

Insert(m) ==
    /\ job[m].pc = "insert"
    /\ rows' = Append(rows, m)
    /\ Goto(m, "stored")
    /\ UNCHANGED <<table, initialized, initLock, writeFailures>>

\* A statement fails: busy_timeout runs out, the disk is full.
WriteFails(m) ==
    /\ job[m].pc \in {"create", "migrate", "insert"}
    /\ writeFailures < MaxWriteFailures
    /\ writeFailures' = writeFailures + 1
    /\ Goto(m, "lost")
    /\ IF job[m].pc = "insert" THEN UNCHANGED initLock ELSE Release(m)
    /\ UNCHANGED <<table, rows, initialized>>

\* A worker process dies with its threads and is started again.
Forget(w) ==
    /\ job' = [m \in Messages |-> IF job[m].worker = w /\ ~Settled(m)
                                  THEN [job[m] EXCEPT !.pc = "dropped", !.seen = {}]
                                  ELSE job[m]]
    /\ initialized' = initialized \ {w}
    /\ initLock' = [initLock EXCEPT ![w] = NoMessage]
    /\ UNCHANGED <<table, rows, writeFailures>>

LogStep(m) == \/ SkipInit(m) \/ TakeInitLock(m) \/ CreateTable(m) \/ Inspect(m)
              \/ AddColumn(m) \/ FinishInit(m) \/ Insert(m)

LogNext == \/ \E m \in Messages : LogStep(m) \/ WriteFails(m) \/ \E w \in Workers : Submit(m, w)
           \/ \E w \in Workers : Forget(w)

-----------------------------------------------------------------------------
(* What the log promises, whatever the order of the writes. *)

\* A message is inserted only into a table that has every column the INSERT names,
\* however the migrations of the workers interleave (_ensure_initialized, _migrate):
\* otherwise every later message of that worker would be lost as well.
InsertsFitTheTable ==
    /\ initialized # {} => table = AllColumns
    /\ \A m \in Messages : job[m].pc = "insert" => table = AllColumns
=============================================================================
