-------------------------- MODULE ChatSessionProofs --------------------------
(***************************************************************************)
(* Proofs about ChatSession for any number of turns, workers, deltas,      *)
(* failed writes and crashes: the rows of a turn come in order, inserts    *)
(* fit the table, streamed answers are whole, and the references of a turn *)
(* are those that the reply to its rerank chose.                           *)
(***************************************************************************)
EXTENDS ChatSession, FiniteSetTheorems, SequenceTheorems, TLAPS

-----------------------------------------------------------------------------
(***************************************************************************)
(* The log                                                                 *)
(***************************************************************************)

Jobs == [pc : {"none", "submitted", "create", "inspect", "migrate", "insert",
               "stored", "lost", "dropped"},
         worker : Workers \cup {NoWorker},
         seen : SUBSET AllColumns]

LogTyped ==
  /\ table \in {NoTable} \cup SUBSET AllColumns
  /\ rows \in Seq(Messages)
  /\ job \in [Messages -> Jobs]

\* A job that has looked at the table has seen columns that are there to stay; one that
\* was never submitted belongs to no worker, so no crash drops it.
TableInv ==
  \A m \in Messages :
    /\ job[m].pc \in {"inspect", "migrate"} => table # NoTable
    /\ job[m].pc = "migrate" => job[m].seen \subseteq table
    /\ job[m].pc = "none" => job[m].worker = NoWorker

\* The answer's row is handed to a thread only when the question's row is out of its own.
QuestionFirst(t) == job[<<t, "assistant">>].pc # "none" => Settled(<<t, "user">>)

RowsStored == \A i \in DOMAIN rows : job[rows[i]].pc = "stored"

LogInv == LogTyped /\ TableInv /\ InsertsFitTheTable
RowsInv == RowsStored /\ QuestionBeforeAnswer

\* What the rest of the system sees of a step of the log.
JobsKept ==
  \A m \in Messages :
    /\ job[m].pc = "none" => job'[m].pc = "none"
    /\ job[m].pc # "none" => job'[m].pc # "none"
    /\ Settled(m) => job'[m].pc = job[m].pc

LEMMA NoTableIsNone == NoTable \notin SUBSET AllColumns
BY DEF NoTable, AllColumns

LEMMA LogInitially == LogInit => LogInv /\ RowsInv
<1> SUFFICES ASSUME LogInit PROVE LogInv /\ RowsInv
  OBVIOUS
<1>1. LogTyped
  <2>1. table \in {NoTable} \cup SUBSET AllColumns
    BY DEF LogInit, AllColumns
  <2> QED
    BY <2>1 DEF LogInit, LogTyped, Jobs, NoJob
<1>2. TableInv /\ InsertsFitTheTable
  BY DEF LogInit, TableInv, InsertsFitTheTable, NoJob
<1>3. RowsInv
  BY DEF LogInit, RowsInv, RowsStored, QuestionBeforeAnswer
<1> QED
  BY <1>1, <1>2, <1>3 DEF LogInv

LEMMA SubmitKeeps ==
  ASSUME LogInv, NEW m \in Messages, NEW w \in Workers, Submit(m, w)
  PROVE  /\ LogInv'
         /\ rows' = rows
         /\ job'[m].pc = "submitted"
         /\ \A o \in Messages \ {m} : job'[o] = job[o]
<1> USE DEF LogInv, LogTyped, Jobs
<1>1. job' = [job EXCEPT ![m] = [pc |-> "submitted", worker |-> w, seen |-> {}]]
  BY DEF Submit
<1>2. UNCHANGED <<table, rows, initialized>>
  BY DEF Submit
<1>3. LogTyped'
  BY <1>1, <1>2
<1>4. TableInv' /\ InsertsFitTheTable'
  BY <1>1, <1>2 DEF TableInv, InsertsFitTheTable
<1> QED
  BY <1>1, <1>2, <1>3, <1>4

LEMMA LogStepKeeps ==
  ASSUME LogInv, NEW m \in Messages, LogStep(m) \/ WriteFails(m)
  PROVE  /\ LogInv'
         /\ JobsKept
         /\ \A o \in Messages \ {m} : job'[o] = job[o]
         /\ \/ rows' = rows
            \/ Insert(m)
<1> USE DEF LogInv, LogTyped, Jobs
<1>1. CASE SkipInit(m)
  <2>1. table = AllColumns
    BY <1>1 DEF SkipInit, InsertsFitTheTable
  <2>2. UNCHANGED <<table, rows, initialized>> /\ job[m].pc = "submitted"
    BY <1>1 DEF SkipInit
  <2>3. job' = [job EXCEPT ![m].pc = "insert", ![m].seen = {}]
    BY <1>1 DEF SkipInit, Goto
  <2>4. LogTyped'
    BY <2>2, <2>3
  <2>5. TableInv' /\ InsertsFitTheTable'
    BY <2>1, <2>2, <2>3 DEF TableInv, InsertsFitTheTable
  <2> QED
    BY <2>2, <2>3, <2>4, <2>5 DEF JobsKept, Settled
<1>2. CASE TakeInitLock(m)
  <2>2. UNCHANGED <<table, rows, initialized>> /\ job[m].pc = "submitted"
    BY <1>2 DEF TakeInitLock
  <2>3. job' = [job EXCEPT ![m].pc = "create", ![m].seen = {}]
    BY <1>2 DEF TakeInitLock, Goto
  <2>4. LogTyped'
    BY <2>2, <2>3
  <2>5. TableInv' /\ InsertsFitTheTable'
    BY <2>2, <2>3 DEF TableInv, InsertsFitTheTable
  <2> QED
    BY <2>2, <2>3, <2>4, <2>5 DEF JobsKept, Settled
<1>3. CASE CreateTable(m)
  <2>1. table' = IF table = NoTable THEN AllColumns ELSE table
    BY <1>3 DEF CreateTable
  <2>2. UNCHANGED <<rows, initialized>> /\ job[m].pc = "create"
    BY <1>3 DEF CreateTable
  <2>3. job' = [job EXCEPT ![m].pc = "inspect", ![m].seen = {}]
    BY <1>3 DEF CreateTable, Goto
  <2>4. LogTyped'
    BY <2>1, <2>2, <2>3
  <2>5. table' # NoTable /\ (table # NoTable => table' = table)
    BY <2>1, NoTableIsNone
  <2>6. TableInv'
    BY <2>3, <2>5 DEF TableInv
  <2>7. InsertsFitTheTable'
    BY <2>1, <2>2, <2>3, <2>5 DEF InsertsFitTheTable
  <2> QED
    BY <2>2, <2>3, <2>4, <2>6, <2>7 DEF JobsKept, Settled
<1>4. CASE Inspect(m)
  <2>2. UNCHANGED <<table, rows, initialized>> /\ job[m].pc = "inspect"
    BY <1>4 DEF Inspect
  <2>3. job' = [job EXCEPT ![m].pc = "migrate", ![m].seen = table]
    BY <1>4 DEF Inspect
  <2>4. table # NoTable /\ table \in SUBSET AllColumns
    BY <2>2 DEF TableInv
  <2>5. LogTyped'
    BY <2>2, <2>3, <2>4
  <2>6. TableInv' /\ InsertsFitTheTable'
    BY <2>2, <2>3, <2>4 DEF TableInv, InsertsFitTheTable
  <2> QED
    BY <2>2, <2>3, <2>5, <2>6 DEF JobsKept, Settled
<1>5. CASE AddColumn(m)
  <2>1. job[m].pc = "migrate" /\ UNCHANGED <<rows, initialized>>
    BY <1>5 DEF AddColumn
  <2>2. table # NoTable /\ table \in SUBSET AllColumns /\ job[m].seen \subseteq table
    BY <2>1 DEF TableInv
  <2>3. NextColumn(m) \in AllColumns
    BY DEF NextColumn, AllColumns
  <2>4. CASE NextColumn(m) \in table
    <3>1. job' = [job EXCEPT ![m].pc = "lost", ![m].seen = {}] /\ table' = table
      BY <1>5, <2>4 DEF AddColumn, Goto
    <3>2. LogTyped'
      BY <2>1, <3>1
    <3>3. TableInv' /\ InsertsFitTheTable'
      BY <2>1, <3>1 DEF TableInv, InsertsFitTheTable
    <3> QED
      BY <2>1, <3>1, <3>2, <3>3 DEF JobsKept, Settled
  <2>5. CASE NextColumn(m) \notin table
    <3>1. /\ table' = table \cup {NextColumn(m)}
          /\ job' = [job EXCEPT ![m].seen = @ \cup {NextColumn(m)}]
      BY <1>5, <2>5 DEF AddColumn
    <3>2. table' \in SUBSET AllColumns /\ table \subseteq table' /\ table' # NoTable
      BY <2>2, <2>3, <3>1, NoTableIsNone
    <3>3. LogTyped'
      <4>1. job[m].seen \cup {NextColumn(m)} \in SUBSET AllColumns
        BY <2>2, <2>3
      <4> QED
        BY <2>1, <3>1, <3>2, <4>1
    <3>4. TableInv'
      <4> SUFFICES ASSUME NEW o \in Messages
                   PROVE  /\ job'[o].pc \in {"inspect", "migrate"} => table' # NoTable
                          /\ job'[o].pc = "migrate" => job'[o].seen \subseteq table'
                          /\ job'[o].pc = "none" => job'[o].worker = NoWorker
        BY DEF TableInv
      <4>1. CASE o = m
        <5>1. job'[m] = [job[m] EXCEPT !.seen = @ \cup {NextColumn(m)}]
          BY <3>1
        <5>2. job'[m].pc = "migrate" /\ job'[m].seen = job[m].seen \cup {NextColumn(m)}
          BY <5>1, <2>1
        <5> QED
          BY <4>1, <5>2, <2>2, <3>1, <3>2
      <4>2. CASE o # m
        <5>1. job'[o] = job[o]
          BY <3>1, <4>2
        <5> QED
          BY <5>1, <3>2 DEF TableInv
      <4> QED
        BY <4>1, <4>2
    <3>5. InsertsFitTheTable'
      <4>1. table # AllColumns
        BY <2>5, <2>3
      <4>2. initialized = {} /\ \A o \in Messages : job[o].pc # "insert"
        BY <4>1 DEF InsertsFitTheTable
      <4>3. \A o \in Messages : job'[o].pc = job[o].pc
        BY <3>1
      <4> QED
        BY <2>1, <4>2, <4>3 DEF InsertsFitTheTable
    <3>6. \A o \in Messages : job'[o].pc = job[o].pc
      BY <3>1
    <3> QED
      BY <2>1, <3>1, <3>3, <3>4, <3>5, <3>6 DEF JobsKept, Settled
  <2> QED
    BY <2>4, <2>5
<1>6. CASE FinishInit(m)
  <2>1. job[m].pc = "migrate" /\ UNCHANGED <<table, rows>>
    BY <1>6 DEF FinishInit
  <2>2. table # NoTable /\ table \in SUBSET AllColumns /\ job[m].seen \subseteq table
    BY <2>1 DEF TableInv
  <2>3. AllColumns \subseteq job[m].seen
    BY <1>6 DEF FinishInit, Missing
  <2>4. table = AllColumns
    BY <2>2, <2>3
  <2>5. job' = [job EXCEPT ![m].pc = "insert", ![m].seen = {}]
    BY <1>6 DEF FinishInit, Goto
  <2>6. LogTyped'
    BY <2>1, <2>5
  <2>7. TableInv' /\ InsertsFitTheTable'
    BY <2>1, <2>4, <2>5 DEF TableInv, InsertsFitTheTable
  <2> QED
    BY <2>1, <2>5, <2>6, <2>7 DEF JobsKept, Settled
<1>7. CASE Insert(m)
  <2>1. job[m].pc = "insert" /\ UNCHANGED <<table, initialized>> /\ rows' = Append(rows, m)
    BY <1>7 DEF Insert
  <2>2. job' = [job EXCEPT ![m].pc = "stored", ![m].seen = {}]
    BY <1>7 DEF Insert, Goto
  <2>3. LogTyped'
    <3>1. rows' \in Seq(Messages)
      BY <2>1
    <3>2. job' \in [Messages -> Jobs]
      BY <2>2
    <3> QED
      BY <2>1, <3>1, <3>2
  <2>4. TableInv' /\ InsertsFitTheTable'
    BY <2>1, <2>2 DEF TableInv, InsertsFitTheTable
  <2> QED
    BY <1>7, <2>1, <2>2, <2>3, <2>4 DEF JobsKept, Settled
<1>8. CASE WriteFails(m)
  <2>1. job[m].pc \in {"create", "migrate", "insert"} /\ UNCHANGED <<table, rows, initialized>>
    BY <1>8 DEF WriteFails
  <2>2. job' = [job EXCEPT ![m].pc = "lost", ![m].seen = {}]
    BY <1>8 DEF WriteFails, Goto
  <2>3. LogTyped'
    BY <2>1, <2>2
  <2>4. TableInv' /\ InsertsFitTheTable'
    BY <2>1, <2>2 DEF TableInv, InsertsFitTheTable
  <2> QED
    BY <2>1, <2>2, <2>3, <2>4 DEF JobsKept, Settled
<1> QED
  BY <1>1, <1>2, <1>3, <1>4, <1>5, <1>6, <1>7, <1>8 DEF LogStep

LEMMA ForgetKeeps ==
  ASSUME LogInv, NEW w \in Workers, Forget(w)
  PROVE  LogInv' /\ JobsKept /\ rows' = rows
<1> USE DEF LogInv, LogTyped, Jobs
<1>1. UNCHANGED <<table, rows>> /\ initialized' \subseteq initialized
  BY DEF Forget
<1>2. job' = [m \in Messages |-> IF job[m].worker = w /\ ~Settled(m)
                                 THEN [job[m] EXCEPT !.pc = "dropped", !.seen = {}]
                                 ELSE job[m]]
  BY DEF Forget
<1>3. LogTyped'
  BY <1>1, <1>2
<1>4. \A m \in Messages : job[m].pc = "none" => job'[m] = job[m]
  BY <1>2, LogAssumption DEF TableInv
<1>5. \A m \in Messages : job'[m] = job[m] \/ (job'[m].pc = "dropped" /\ ~Settled(m))
  BY <1>2
<1>6. TableInv' /\ InsertsFitTheTable'
  BY <1>1, <1>5 DEF TableInv, InsertsFitTheTable
<1>7. JobsKept
  BY <1>4, <1>5 DEF JobsKept, Settled
<1> QED
  BY <1>1, <1>3, <1>6, <1>7

LEMMA RowsKept ==
  ASSUME LogInv, RowsInv, JobsKept, rows' = rows
  PROVE  RowsInv'
<1>1. \A i \in DOMAIN rows : rows[i] \in Messages
  BY DEF LogInv, LogTyped
<1>2. RowsStored'
  BY <1>1 DEF RowsInv, RowsStored, JobsKept, Settled
<1>3. QuestionBeforeAnswer'
  BY DEF RowsInv, QuestionBeforeAnswer
<1> QED
  BY <1>2, <1>3 DEF RowsInv

\* The row of an answer is only inserted after its question's thread is done, and that
\* thread inserts no more.
LEMMA InsertKeeps ==
  ASSUME LogInv, RowsInv, \A t \in Turns : QuestionFirst(t),
         NEW m \in Messages, Insert(m)
  PROVE  RowsInv'
<1> DEFINE n == Len(rows) + 1
<1>1. rows \in Seq(Messages) /\ job \in [Messages -> Jobs]
  BY DEF LogInv, LogTyped
<1>2. rows' = Append(rows, m) /\ job[m].pc = "insert"
  BY DEF Insert
<1>3. /\ DOMAIN rows' = 1 .. n /\ DOMAIN rows = 1 .. Len(rows) /\ Len(rows) \in Nat
      /\ rows'[n] = m
      /\ \A i \in DOMAIN rows : rows'[i] = rows[i] /\ rows[i] \in Messages
  BY <1>1, <1>2
<1>4. job'[m].pc = "stored" /\ \A o \in Messages \ {m} : job'[o] = job[o]
  BY <1>1 DEF Insert, Goto, Jobs
<1>5. \A i \in DOMAIN rows : rows[i] # m
  BY <1>2 DEF RowsInv, RowsStored
<1>6. RowsStored'
  <2> SUFFICES ASSUME NEW i \in DOMAIN rows' PROVE job'[rows'[i]].pc = "stored"
    BY DEF RowsStored
  <2>1. CASE i = n
    BY <2>1, <1>3, <1>4
  <2>2. CASE i # n
    <3>1. i \in DOMAIN rows
      BY <2>2, <1>3
    <3> QED
      BY <3>1, <1>3, <1>4, <1>5 DEF RowsInv, RowsStored
  <2> QED
    BY <2>1, <2>2
<1>7. QuestionBeforeAnswer'
  <2> SUFFICES ASSUME NEW i \in DOMAIN rows', NEW j \in DOMAIN rows', i < j
               PROVE  /\ rows'[i] # rows'[j]
                      /\ rows'[i][1] = rows'[j][1] => rows'[i][2] = "user"
    BY DEF QuestionBeforeAnswer
  <2>1. i \in DOMAIN rows
    BY <1>3
  <2>2. CASE j # n
    <3>1. j \in DOMAIN rows
      BY <2>2, <1>3
    <3> QED
      BY <3>1, <2>1, <1>3 DEF RowsInv, QuestionBeforeAnswer
  <2>3. CASE j = n
    <3>1. rows'[j] = m /\ rows'[i] = rows[i] /\ rows[i] # m /\ rows[i] \in Messages
      BY <2>1, <2>3, <1>3, <1>5
    <3>2. SUFFICES ASSUME rows[i][1] = m[1], rows[i][2] # "user"
                   PROVE  FALSE
      BY <3>1
    <3>3. PICK t \in Turns : m[1] = t
      BY DEF Messages
    <3>4. rows[i] = <<t, "assistant">> /\ m = <<t, "user">>
      BY <3>1, <3>2, <3>3 DEF Messages, Roles
    <3>5. job[<<t, "assistant">>].pc = "stored"
      BY <3>4, <2>1 DEF RowsInv, RowsStored
    <3>6. Settled(m)
      BY <3>4, <3>5 DEF QuestionFirst
    <3> QED
      BY <3>6, <1>2 DEF Settled
  <2> QED
    BY <2>2, <2>3
<1> QED
  BY <1>6, <1>7 DEF RowsInv

LEMMA RowsAfterSubmit ==
  ASSUME LogInv, RowsInv, NEW m \in Messages, NEW w \in Workers, Submit(m, w)
  PROVE  RowsInv'
<1>1. rows' = rows /\ \A o \in Messages \ {m} : job'[o] = job[o]
  BY SubmitKeeps
<1>2. job[m].pc = "none" /\ \A i \in DOMAIN rows : rows[i] \in Messages
  BY DEF Submit, LogInv, LogTyped
<1>3. RowsStored'
  BY <1>1, <1>2 DEF RowsInv, RowsStored
<1>4. QuestionBeforeAnswer'
  BY <1>1 DEF RowsInv, QuestionBeforeAnswer
<1> QED
  BY <1>3, <1>4 DEF RowsInv

-----------------------------------------------------------------------------
(***************************************************************************)
(* The turns                                                               *)
(***************************************************************************)

Fields == {"pc", "kind", "worker", "outcome", "triage", "candidates", "references",
           "reply", "usedFallback", "tasks"}

Streams == [thread : {"none", "running", "ended"}, queue : Seq({"delta", "done"}),
            produced : Nat, received : Nat]

Shape ==
  /\ DOMAIN turn = Turns
  /\ \A t \in Turns : DOMAIN turn[t] = Fields
  /\ stream \in [Turns -> Streams]

Answerless(t) == job[<<t, "assistant">>].pc = "none"
Unlogged(t) == job[<<t, "user">>].pc = "none" /\ Answerless(t)

\* Where the rows of a turn are, for each place of the turn.
Ordered(t) ==
  /\ QuestionFirst(t)
  /\ turn[t].pc \in {"unsent", "asked"} => Unlogged(t)
  /\ turn[t].pc = "logging" => ~Plain(t) /\ Answerless(t)
  /\ turn[t].pc \in {"triage", "search", "rerank", "generate", "finish"} =>
       IF Plain(t) THEN turn[t].tasks = <<"user">> /\ Unlogged(t)
                   ELSE Settled(<<t, "user">>) /\ Answerless(t)
  /\ turn[t].pc \in {"stream", "log"} =>
       ~Plain(t) /\ Settled(<<t, "user">>) /\ Answerless(t)
  /\ turn[t].pc = "background" =>
       \/ turn[t].tasks \in {<<"user">>, <<"user", "assistant">>} /\ Unlogged(t)
       \/ /\ turn[t].tasks = <<"assistant">>
          /\ job[<<t, "user">>].pc # "none"
          /\ Answerless(t)
       \/ turn[t].tasks = << >>

Deltas(q) == \A i \in DOMAIN q : q[i] = "delta"

\* What the queue and the client hold together is what the thread has produced.
Flowing(t) ==
  LET s == stream[t]
      n == Len(s.queue)
  IN \/ s.thread = "running" /\ Deltas(s.queue) /\ s.received + n = s.produced
     \/ /\ s.thread = "ended"
        /\ n > 0
        /\ s.queue[n] = "done"
        /\ \A i \in 1 .. n - 1 : s.queue[i] = "delta"
        /\ s.received + (n - 1) = s.produced

Whole(t) == /\ stream[t].received = stream[t].produced
            /\ turn[t].usedFallback <=> stream[t].produced = 0

\* What is in the stream of a turn, for each place of the turn.
Streamed(t) ==
  /\ turn[t].pc \in {"unsent", "asked", "logging", "triage", "search", "rerank",
                     "generate", "background"} => stream[t] = NoStream
  /\ turn[t].pc = "stream" => Flowing(t)
  /\ turn[t].pc \in {"finish", "log"} =>
       \/ stream[t] = NoStream
       \/ ~Plain(t) /\ stream[t].thread = "ended" /\ Whole(t)
  /\ turn[t].outcome = "answered" =>
       \/ turn[t].pc \in {"log", "background"}
       \/ turn[t].pc = "ended" /\ stream[t] = NoStream
  /\ turn[t].pc \in {"unsent", "asked", "logging", "triage", "search", "rerank", "generate",
                     "stream", "finish", "log", "background", "ended"}

TurnInv == Shape /\ \A t \in Turns : Ordered(t) /\ Streamed(t)

LEMMA ChatInitially == Init => LogInv /\ RowsInv /\ TurnInv
<1> SUFFICES ASSUME Init PROVE LogInv /\ RowsInv /\ TurnInv
  OBVIOUS
<1>1. LogInv /\ RowsInv
  BY LogInitially DEF Init
<1>2. Shape
  BY DEF Init, Shape, NotSent, Fields, NoStream, Streams
<1>3. ASSUME NEW t \in Turns PROVE Ordered(t) /\ Streamed(t)
  <2>1. turn[t] = NotSent /\ stream[t] = NoStream
    BY DEF Init
  <2>2. turn[t].pc = "unsent" /\ turn[t].outcome = "none"
    BY <2>1 DEF NotSent
  <2>3. job[<<t, "user">>] = NoJob /\ job[<<t, "assistant">>] = NoJob
    BY DEF Init, LogInit, Messages, Roles
  <2>4. Unlogged(t)
    BY <2>3 DEF Unlogged, Answerless, NoJob
  <2>5. Ordered(t)
    BY <2>2, <2>4 DEF Ordered, QuestionFirst, Unlogged, Answerless
  <2>6. Streamed(t)
    BY <2>1, <2>2 DEF Streamed
  <2> QED
    BY <2>5, <2>6
<1> QED
  BY <1>1, <1>2, <1>3 DEF TurnInv

\* A step of turn t that touches no other turn.
Only(t) ==
  /\ DOMAIN turn' = Turns
  /\ DOMAIN turn'[t] = Fields
  /\ stream' \in [Turns -> Streams]
  /\ \A s \in Turns \ {t} : turn'[s] = turn[s] /\ stream'[s] = stream[s]

LEMMA OneTurn ==
  ASSUME TurnInv, NEW t \in Turns, Only(t),
         \A s \in Turns \ {t}, r \in Roles : job'[<<s, r>>] = job[<<s, r>>],
         Ordered(t)', Streamed(t)'
  PROVE  TurnInv'
<1>1. Shape'
  BY DEF TurnInv, Shape, Only
<1>2. ASSUME NEW s \in Turns \ {t} PROVE Ordered(s)' /\ Streamed(s)'
  <2>1. Ordered(s) /\ Streamed(s)
    BY DEF TurnInv
  <2>2. turn'[s] = turn[s] /\ stream'[s] = stream[s]
    BY DEF Only
  <2>3. /\ job'[<<s, "user">>] = job[<<s, "user">>]
        /\ job'[<<s, "assistant">>] = job[<<s, "assistant">>]
    BY DEF Roles
  <2>4. Ordered(s)'
    BY <2>1, <2>2, <2>3 DEF Ordered, QuestionFirst, Settled, Unlogged, Answerless, Plain
  <2>5. Streamed(s)'
    BY <2>1, <2>2 DEF Streamed, Flowing, Whole, Deltas, Plain
  <2> QED
    BY <2>4, <2>5
<1> QED
  BY <1>1, <1>2 DEF TurnInv

\* What the retrieval and the answer do, as far as rows and streams are concerned.
LEMMA Working ==
  ASSUME TurnInv, NEW t \in Turns, Only(t), stream' = stream, job' = job,
         turn[t].pc \in {"triage", "search", "rerank", "generate"},
         turn'[t].pc \in {"search", "rerank", "generate", "finish"},
         turn'[t].kind = turn[t].kind,
         turn'[t].tasks = turn[t].tasks,
         turn'[t].outcome = turn[t].outcome
  PROVE  TurnInv'
<1>1. Ordered(t) /\ Streamed(t)
  BY DEF TurnInv
<1>2. Ordered(t)'
  BY <1>1 DEF Ordered, QuestionFirst, Settled, Unlogged, Answerless, Plain
<1>3. stream[t] = NoStream /\ turn[t].outcome # "answered"
  BY <1>1 DEF Streamed
<1>4. Streamed(t)'
  BY <1>3 DEF Streamed
<1> QED
  BY <1>2, <1>4, OneTurn

\* The turn ends; if the client has its answer, nothing is left of the stream.
LEMMA Ending ==
  ASSUME TurnInv, NEW t \in Turns, NEW outcome,
         End(t, outcome),
         stream' \in [Turns -> Streams],
         \A s \in Turns \ {t} : stream'[s] = stream[s],
         outcome # "answered" \/ stream'[t] = NoStream,
         \A s \in Turns \ {t}, r \in Roles : job'[<<s, r>>] = job[<<s, r>>],
         QuestionFirst(t)'
  PROVE  TurnInv'
<1>1. DOMAIN turn = Turns /\ DOMAIN turn[t] = Fields
  BY DEF TurnInv, Shape
<1>2. turn' = [turn EXCEPT ![t] = Over(t, outcome)]
  BY DEF End
<1>3. turn'[t] = Over(t, outcome)
  BY <1>1, <1>2
<1>4. /\ DOMAIN Over(t, outcome) = Fields
      /\ Over(t, outcome).pc = "ended"
      /\ Over(t, outcome).outcome = outcome
  BY DEF Over, NotSent, Fields
<1>5. Only(t)
  BY <1>1, <1>2, <1>3, <1>4 DEF Only
<1>6. Ordered(t)' /\ Streamed(t)'
  BY <1>3, <1>4 DEF Ordered, Streamed
<1> QED
  BY <1>5, <1>6, OneTurn

LEMMA StreamShapes ==
  /\ NoStream \in Streams
  /\ [NoStream EXCEPT !.thread = "running"] \in Streams
<1>1. << >> \in Seq({"delta", "done"})
  OBVIOUS
<1> QED
  BY <1>1 DEF NoStream, Streams

LEMMA RequestSteps ==
  ASSUME TurnInv, NEW t \in Turns, UNCHANGED logVars,
         \/ Ask(t) \/ Reject(t) \/ StartPlain(t) \/ QuestionLogged(t)
         \/ Triage(t) \/ TriageRaises(t) \/ Search(t) \/ SearchFails(t) \/ RerankStep(t)
  PROVE  TurnInv'
<1>1. Ordered(t) /\ Streamed(t) /\ job' = job
  BY DEF TurnInv, logVars
<1>2. DOMAIN turn = Turns /\ DOMAIN turn[t] = Fields /\ stream \in [Turns -> Streams]
  BY DEF TurnInv, Shape
<1>3. QuestionFirst(t)'
  BY <1>1 DEF Ordered, QuestionFirst, Settled
<1>4. stream' = stream
  BY DEF Ask, Reject, StartPlain, QuestionLogged, Triage, TriageRaises, Search, SearchFails,
         RerankStep
<1>5. \A outcome : outcome # "answered" /\ End(t, outcome) => TurnInv'
  <2> SUFFICES ASSUME NEW outcome, outcome # "answered", End(t, outcome) PROVE TurnInv'
    OBVIOUS
  <2> QED
    BY <1>1, <1>2, <1>3, <1>4, Ending
<1>6. CASE Ask(t)
  <2>1. PICK kind \in {"plain", "stream"}, w \in Workers :
          turn' = [turn EXCEPT ![t].pc = "asked", ![t].kind = kind, ![t].worker = w]
    BY <1>6 DEF Ask
  <2>2. /\ DOMAIN turn'[t] = Fields /\ turn'[t].pc = "asked"
        /\ turn'[t].outcome = turn[t].outcome
    BY <1>2, <2>1 DEF Fields
  <2>3. Only(t)
    BY <1>2, <1>4, <2>1, <2>2 DEF Only
  <2>4. turn[t].pc = "unsent"
    BY <1>6 DEF Ask, At
  <2>5. Ordered(t)'
    BY <1>1, <2>2, <2>4 DEF Ordered, QuestionFirst, Settled, Unlogged, Answerless
  <2>6. Streamed(t)'
    BY <1>1, <1>4, <2>2, <2>4 DEF Streamed
  <2> QED
    BY <1>1, <2>3, <2>5, <2>6, OneTurn
<1>7. CASE Reject(t)
  BY <1>5, <1>7 DEF Reject
<1>8. CASE StartPlain(t)
  <2>1. turn' = [turn EXCEPT ![t].pc = "triage", ![t].tasks = <<"user">>]
    BY <1>8 DEF StartPlain
  <2>2. /\ DOMAIN turn'[t] = Fields /\ turn'[t].pc = "triage"
        /\ turn'[t].tasks = <<"user">> /\ turn'[t].kind = turn[t].kind
        /\ turn'[t].outcome = turn[t].outcome
    BY <1>2, <2>1 DEF Fields
  <2>3. Only(t)
    BY <1>2, <1>4, <2>1, <2>2 DEF Only
  <2>4. turn[t].pc = "asked" /\ Plain(t)
    BY <1>8 DEF StartPlain, At
  <2>5. Ordered(t)'
    BY <1>1, <2>2, <2>4 DEF Ordered, QuestionFirst, Settled, Unlogged, Answerless, Plain
  <2>6. Streamed(t)'
    BY <1>1, <1>4, <2>2, <2>4 DEF Streamed
  <2> QED
    BY <1>1, <2>3, <2>5, <2>6, OneTurn
<1>9. CASE QuestionLogged(t)
  <2>1. turn' = [turn EXCEPT ![t].pc = "triage"]
    BY <1>9 DEF QuestionLogged, Set
  <2>2. /\ DOMAIN turn'[t] = Fields /\ turn'[t].pc = "triage"
        /\ turn'[t].kind = turn[t].kind /\ turn'[t].outcome = turn[t].outcome
    BY <1>2, <2>1 DEF Fields
  <2>3. Only(t)
    BY <1>2, <1>4, <2>1, <2>2 DEF Only
  <2>4. turn[t].pc = "logging" /\ Settled(<<t, "user">>)
    BY <1>9 DEF QuestionLogged, At
  <2>5. Ordered(t)'
    BY <1>1, <2>2, <2>4 DEF Ordered, QuestionFirst, Settled, Unlogged, Answerless, Plain
  <2>6. Streamed(t)'
    BY <1>1, <1>4, <2>2, <2>4 DEF Streamed
  <2> QED
    BY <1>1, <2>3, <2>5, <2>6, OneTurn
<1>10. CASE Triage(t)
  <2>1. PICK triage :
          turn' = [turn EXCEPT
               ![t].triage = triage,
               ![t].pc = CASE triage.mode = "out_of_domain" -> "finish"
                           [] triage.mode = "history" -> "generate"
                           [] OTHER -> "search"]
    BY <1>10 DEF Triage
  <2> DEFINE pc == CASE triage.mode = "out_of_domain" -> "finish"
                     [] triage.mode = "history" -> "generate"
                     [] OTHER -> "search"
  <2>2. pc \in {"finish", "generate", "search"}
    OBVIOUS
  <2>3. turn' = [turn EXCEPT ![t].triage = triage, ![t].pc = pc]
    BY <2>1
  <2> HIDE DEF pc
  <2>4. /\ DOMAIN turn'[t] = Fields /\ turn'[t].pc = pc
        /\ turn'[t].kind = turn[t].kind /\ turn'[t].outcome = turn[t].outcome
        /\ turn'[t].tasks = turn[t].tasks
    BY <1>2, <2>3 DEF Fields
  <2>5. Only(t)
    BY <1>2, <1>4, <2>3, <2>4 DEF Only
  <2>6. turn[t].pc = "triage"
    BY <1>10 DEF Triage, At
  <2> QED
    BY <1>1, <1>4, <2>2, <2>4, <2>5, <2>6, Working
<1>11. CASE TriageRaises(t)
  BY <1>5, <1>11 DEF TriageRaises
<1>12. CASE Search(t)
  <2>1. PICK found : turn' = [turn EXCEPT ![t].pc = "rerank", ![t].candidates = found]
    BY <1>12 DEF Search
  <2>2. /\ DOMAIN turn'[t] = Fields /\ turn'[t].pc = "rerank"
        /\ turn'[t].kind = turn[t].kind /\ turn'[t].outcome = turn[t].outcome
        /\ turn'[t].tasks = turn[t].tasks
    BY <1>2, <2>1 DEF Fields
  <2>3. Only(t)
    BY <1>2, <1>4, <2>1, <2>2 DEF Only
  <2>4. turn[t].pc = "search"
    BY <1>12 DEF Search, At
  <2> QED
    BY <1>1, <1>4, <2>2, <2>3, <2>4, Working
<1>13. CASE SearchFails(t)
  <2>1. CASE ~Plain(t)
    BY <1>5, <1>13, <2>1 DEF SearchFails
  <2>2. CASE Plain(t)
    <3>1. turn' = [turn EXCEPT ![t].pc = "background", ![t].outcome = "error"]
      BY <1>13, <2>2 DEF SearchFails
    <3>2. /\ DOMAIN turn'[t] = Fields /\ turn'[t].pc = "background"
          /\ turn'[t].outcome = "error" /\ turn'[t].tasks = turn[t].tasks
      BY <1>2, <3>1 DEF Fields
    <3>3. Only(t)
      BY <1>2, <1>4, <3>1, <3>2 DEF Only
    <3>4. turn[t].pc = "search"
      BY <1>13 DEF SearchFails, At
    <3>5. Ordered(t)'
      BY <1>1, <2>2, <3>2, <3>4 DEF Ordered, QuestionFirst, Settled, Unlogged, Answerless
    <3>6. Streamed(t)'
      BY <1>1, <1>4, <3>2, <3>4 DEF Streamed
    <3> QED
      BY <1>1, <3>3, <3>5, <3>6, OneTurn
  <2> QED
    BY <2>1, <2>2
<1>14. CASE RerankStep(t)
  <2>1. PICK reply, cited :
          turn' = [turn EXCEPT ![t].pc = "generate", ![t].reply = reply,
                               ![t].references = cited]
    BY <1>14 DEF RerankStep
  <2>2. /\ DOMAIN turn'[t] = Fields /\ turn'[t].pc = "generate"
        /\ turn'[t].kind = turn[t].kind /\ turn'[t].outcome = turn[t].outcome
        /\ turn'[t].tasks = turn[t].tasks
    BY <1>2, <2>1 DEF Fields
  <2>3. Only(t)
    BY <1>2, <1>4, <2>1, <2>2 DEF Only
  <2>4. turn[t].pc = "rerank"
    BY <1>14 DEF RerankStep, At
  <2> QED
    BY <1>1, <1>4, <2>2, <2>3, <2>4, Working
<1> QED
  BY <1>6, <1>7, <1>8, <1>9, <1>10, <1>11, <1>12, <1>13, <1>14

LEMMA AnswerSteps ==
  ASSUME TurnInv, NEW t \in Turns, UNCHANGED logVars,
         Generate(t) \/ OpenStream(t) \/ Finish(t) \/ EndBackground(t) \/ Leave(t)
  PROVE  TurnInv'
<1>1. Ordered(t) /\ Streamed(t) /\ job' = job
  BY DEF TurnInv, logVars
<1>2. DOMAIN turn = Turns /\ DOMAIN turn[t] = Fields /\ stream \in [Turns -> Streams]
  BY DEF TurnInv, Shape
<1>3. QuestionFirst(t)'
  BY <1>1 DEF Ordered, QuestionFirst, Settled
<1>4. CASE Generate(t)
  <2>1. PICK text \in BOOLEAN :
          turn' = [turn EXCEPT ![t].pc = "finish", ![t].reply = NoReply,
                               ![t].usedFallback = ~text]
    BY <1>4 DEF Generate
  <2>2. /\ DOMAIN turn'[t] = Fields /\ turn'[t].pc = "finish"
        /\ turn'[t].kind = turn[t].kind /\ turn'[t].outcome = turn[t].outcome
        /\ turn'[t].tasks = turn[t].tasks
    BY <1>2, <2>1 DEF Fields
  <2>3. stream' = stream /\ turn[t].pc = "generate"
    BY <1>4 DEF Generate, At
  <2>4. Only(t)
    BY <1>2, <2>1, <2>2, <2>3 DEF Only
  <2> QED
    BY <1>1, <2>2, <2>3, <2>4, Working
<1>5. CASE OpenStream(t)
  <2>1. turn[t].pc = "generate" /\ ~Plain(t) /\ stream[t] = NoStream
    BY <1>1, <1>5 DEF OpenStream, At, Streamed
  <2>2. CASE Generates(t)
    <3>1. /\ turn' = [turn EXCEPT ![t].pc = "stream", ![t].reply = NoReply]
          /\ stream' = [stream EXCEPT ![t].thread = "running"]
      BY <1>5, <2>2 DEF OpenStream
    <3>2. /\ DOMAIN turn'[t] = Fields /\ turn'[t].pc = "stream"
          /\ turn'[t].kind = turn[t].kind /\ turn'[t].outcome = turn[t].outcome
      BY <1>2, <3>1 DEF Fields
    <3>3. stream'[t] = [NoStream EXCEPT !.thread = "running"]
      BY <1>2, <2>1, <3>1
    <3>4. Only(t)
      BY <1>2, <3>1, <3>2, <3>3, StreamShapes DEF Only
    <3>5. Ordered(t)'
      BY <1>1, <2>1, <3>2 DEF Ordered, QuestionFirst, Settled, Unlogged, Answerless, Plain
    <3>6. Flowing(t)'
      BY <3>3 DEF Flowing, NoStream, Deltas
    <3>7. Streamed(t)'
      BY <1>1, <2>1, <3>2, <3>6 DEF Streamed
    <3> QED
      BY <1>1, <3>4, <3>5, <3>7, OneTurn
  <2>3. CASE ~Generates(t)
    <3>1. /\ turn' = [turn EXCEPT ![t].pc = "finish", ![t].reply = NoReply]
          /\ stream' = [stream EXCEPT ![t].thread = "none"]
      BY <1>5, <2>3 DEF OpenStream
    <3>2. /\ DOMAIN turn'[t] = Fields /\ turn'[t].pc = "finish"
          /\ turn'[t].kind = turn[t].kind /\ turn'[t].outcome = turn[t].outcome
          /\ turn'[t].tasks = turn[t].tasks
      BY <1>2, <3>1 DEF Fields
    <3>3. [NoStream EXCEPT !.thread = "none"] = NoStream
      BY DEF NoStream
    <3>4. stream' = stream
      BY <1>2, <2>1, <3>1, <3>3
    <3>5. Only(t)
      BY <1>2, <3>1, <3>2, <3>4 DEF Only
    <3> QED
      BY <1>1, <2>1, <3>2, <3>4, <3>5, Working
  <2> QED
    BY <2>2, <2>3
<1>6. CASE Finish(t)
  <2>1. turn[t].pc = "finish" /\ stream' = stream
    BY <1>6 DEF Finish, At
  <2>2. CASE Plain(t)
    <3>1. turn' = [turn EXCEPT ![t].pc = "background", ![t].outcome = "answered",
                               ![t].triage = NoTriage, ![t].candidates = << >>,
                               ![t].references = << >>,
                               ![t].tasks = Append(@, "assistant")]
      BY <1>6, <2>2 DEF Finish
    <3>2. /\ DOMAIN turn'[t] = Fields /\ turn'[t].pc = "background"
          /\ turn'[t].tasks = Append(turn[t].tasks, "assistant")
          /\ turn'[t].outcome = "answered"
      BY <1>2, <3>1 DEF Fields
    <3>3. Only(t)
      BY <1>2, <2>1, <3>1, <3>2 DEF Only
    <3>4. turn[t].tasks = <<"user">> /\ Unlogged(t)
      BY <1>1, <2>1, <2>2 DEF Ordered
    <3>5. turn'[t].tasks = <<"user", "assistant">>
      <4>1. Append(<<"user">>, "assistant") = <<"user", "assistant">>
        <5>1. <<"user">> \in Seq(Roles) /\ <<"user", "assistant">> \in Seq(Roles)
          BY DEF Roles
        <5>2. /\ Append(<<"user">>, "assistant") \in Seq(Roles)
              /\ Len(Append(<<"user">>, "assistant")) = 2
              /\ Append(<<"user">>, "assistant")[1] = "user"
              /\ Append(<<"user">>, "assistant")[2] = "assistant"
          BY <5>1 DEF Roles
        <5>3. \A i \in 1 .. 2 : Append(<<"user">>, "assistant")[i] = <<"user", "assistant">>[i]
          BY <5>2
        <5> QED
          BY <5>1, <5>2, <5>3, SeqEqual
      <4> QED
        BY <3>2, <3>4, <4>1
    <3>6. Ordered(t)'
      BY <1>1, <3>2, <3>4, <3>5 DEF Ordered, QuestionFirst, Settled, Unlogged, Answerless
    <3>7. stream[t] = NoStream
      BY <1>1, <2>1, <2>2 DEF Streamed
    <3>8. Streamed(t)'
      BY <2>1, <3>2, <3>7 DEF Streamed
    <3> QED
      BY <1>1, <3>3, <3>6, <3>8, OneTurn
  <2>3. CASE ~Plain(t)
    <3>1. turn' = [turn EXCEPT ![t].pc = "log", ![t].outcome = "answered",
                               ![t].triage = NoTriage, ![t].candidates = << >>,
                               ![t].references = << >>, ![t].tasks = @]
      BY <1>6, <2>3 DEF Finish
    <3>2. /\ DOMAIN turn'[t] = Fields /\ turn'[t].pc = "log"
          /\ turn'[t].kind = turn[t].kind
          /\ turn'[t].usedFallback = turn[t].usedFallback
      BY <1>2, <3>1 DEF Fields
    <3>3. Only(t)
      BY <1>2, <2>1, <3>1, <3>2 DEF Only
    <3>4. Ordered(t)'
      BY <1>1, <2>1, <2>3, <3>2 DEF Ordered, QuestionFirst, Settled, Unlogged, Answerless, Plain
    <3>5. Streamed(t)'
      BY <1>1, <2>1, <2>3, <3>2 DEF Streamed, Whole, Plain
    <3> QED
      BY <1>1, <3>3, <3>4, <3>5, OneTurn
  <2> QED
    BY <2>2, <2>3
<1>7. CASE EndBackground(t)
  <2>1. turn[t].pc = "background" /\ stream' = stream /\ End(t, turn[t].outcome)
    BY <1>7 DEF EndBackground, At
  <2>2. stream[t] = NoStream
    BY <1>1, <2>1 DEF Streamed
  <2> QED
    BY <1>1, <1>2, <1>3, <2>1, <2>2, Ending
<1>8. CASE Leave(t)
  <2>1. /\ End(t, "left")
        /\ stream' = [stream EXCEPT ![t] = IF @.thread = "running"
                                           THEN [NoStream EXCEPT !.thread = "running"]
                                           ELSE NoStream]
    BY <1>8 DEF Leave
  <2>2. stream' \in [Turns -> Streams] /\ \A s \in Turns \ {t} : stream'[s] = stream[s]
    BY <1>2, <2>1, StreamShapes
  <2> QED
    BY <1>1, <1>3, <2>1, <2>2, Ending
<1> QED
  BY <1>4, <1>5, <1>6, <1>7, <1>8

LEMMA Balance ==
  \A r, n, p \in Nat : r + n = p => r + (n + 1) = p + 1 /\ (r + 1) + (n - 1) = p
OBVIOUS

LEMMA BalanceToEnd ==
  \A r, n, p \in Nat : r + (n - 1) = p => (r + 1) + ((n - 1) - 1) = p
OBVIOUS

\* What the thread appends, the client takes off at the other end.
LEMMA StreamSteps ==
  ASSUME TurnInv, NEW t \in Turns, UNCHANGED logVars,
         Produce(t) \/ EndStream(t) \/ Deliver(t)
  PROVE  TurnInv'
<1> DEFINE q == stream[t].queue
<1>1. Ordered(t) /\ Streamed(t) /\ job' = job
  BY DEF TurnInv, logVars
<1>2. DOMAIN turn = Turns /\ DOMAIN turn[t] = Fields /\ stream \in [Turns -> Streams]
  BY DEF TurnInv, Shape
<1>3. /\ q \in Seq({"delta", "done"})
      /\ stream[t].produced \in Nat /\ stream[t].received \in Nat
  BY <1>2 DEF Streams
<1>4. Len(q) \in Nat /\ DOMAIN q = 1 .. Len(q)
  BY <1>3
<1>5. CASE Produce(t)
  <2>1. /\ turn' = turn /\ turn[t].pc = "stream" /\ stream[t].thread = "running"
        /\ stream' = [stream EXCEPT ![t].produced = @ + 1, ![t].queue = Append(@, "delta")]
    BY <1>5 DEF Produce, At
  <2>2. stream'[t] = [stream[t] EXCEPT !.produced = @ + 1, !.queue = Append(@, "delta")]
    BY <1>2, <2>1
  <2>3. stream'[t] \in Streams
    <3>1. Append(q, "delta") \in Seq({"delta", "done"}) /\ stream[t].produced + 1 \in Nat
      BY <1>3
    <3> QED
      BY <1>2, <2>2, <3>1 DEF Streams
  <2>4. Only(t)
    BY <1>2, <2>1, <2>3 DEF Only
  <2>5. /\ stream'[t].thread = "running" /\ stream'[t].queue = Append(q, "delta")
        /\ stream'[t].produced = stream[t].produced + 1
        /\ stream'[t].received = stream[t].received
    BY <1>2, <2>1, <2>2 DEF Streams
  <2>6. Deltas(q) /\ stream[t].received + Len(q) = stream[t].produced
    BY <1>1, <2>1 DEF Streamed, Flowing
  <2>7. Deltas(Append(q, "delta")) /\ Len(Append(q, "delta")) = Len(q) + 1
    BY <1>3, <1>4, <2>6 DEF Deltas
  <2>8. Flowing(t)'
    <3>1. stream'[t].received + Len(stream'[t].queue) = stream'[t].produced
      BY <1>3, <1>4, <2>5, <2>6, <2>7, Balance
    <3> QED
      BY <2>5, <2>7, <3>1 DEF Flowing, Deltas
  <2>9. Ordered(t)'
    BY <1>1, <2>1 DEF Ordered, QuestionFirst, Settled, Unlogged, Answerless, Plain
  <2>10. Streamed(t)'
    BY <1>1, <2>1, <2>8 DEF Streamed
  <2> QED
    BY <1>1, <2>4, <2>9, <2>10, OneTurn
<1>6. CASE EndStream(t)
  <2>1. turn' = turn /\ stream[t].thread = "running"
    BY <1>6 DEF EndStream
  <2>2. Ordered(t)'
    BY <1>1, <2>1 DEF Ordered, QuestionFirst, Settled, Unlogged, Answerless, Plain
  <2>3. CASE turn[t].pc = "stream"
    <3>1. stream' = [stream EXCEPT ![t].thread = "ended", ![t].queue = Append(@, "done")]
      BY <1>6, <2>3 DEF EndStream, At
    <3>2. stream'[t] = [stream[t] EXCEPT !.thread = "ended", !.queue = Append(@, "done")]
      BY <1>2, <3>1
    <3>3. stream'[t] \in Streams
      <4>1. Append(q, "done") \in Seq({"delta", "done"})
        BY <1>3
      <4> QED
        BY <1>2, <3>2, <4>1 DEF Streams
    <3>4. Only(t)
      BY <1>2, <2>1, <3>1, <3>3 DEF Only
    <3>5. /\ stream'[t].thread = "ended" /\ stream'[t].queue = Append(q, "done")
          /\ stream'[t].produced = stream[t].produced
          /\ stream'[t].received = stream[t].received
      BY <1>2, <3>2 DEF Streams
    <3>6. Deltas(q) /\ stream[t].received + Len(q) = stream[t].produced
      BY <1>1, <2>1, <2>3 DEF Streamed, Flowing
    <3>7. /\ Len(Append(q, "done")) = Len(q) + 1
          /\ Append(q, "done")[Len(q) + 1] = "done"
          /\ \A i \in 1 .. Len(q) : Append(q, "done")[i] = "delta"
      BY <1>3, <1>4, <3>6 DEF Deltas
    <3>8. Flowing(t)'
      BY <1>3, <1>4, <3>5, <3>6, <3>7 DEF Flowing
    <3>9. Streamed(t)'
      BY <1>1, <2>1, <2>3, <3>8 DEF Streamed
    <3> QED
      BY <1>1, <2>2, <3>4, <3>9, OneTurn
  <2>4. CASE turn[t].pc # "stream"
    <3>1. stream' = [stream EXCEPT ![t] = NoStream]
      BY <1>6, <2>4 DEF EndStream, At
    <3>2. stream'[t] = NoStream
      BY <1>2, <3>1
    <3>3. Only(t)
      BY <1>2, <2>1, <3>1, <3>2, StreamShapes DEF Only
    <3>4. Streamed(t)'
      BY <1>1, <2>1, <2>4, <3>2 DEF Streamed
    <3> QED
      BY <1>1, <2>2, <3>3, <3>4, OneTurn
  <2> QED
    BY <2>3, <2>4
<1>7. CASE Deliver(t)
  <2>1. turn[t].pc = "stream" /\ q # << >>
    BY <1>7 DEF Deliver, At
  <2>2. Len(q) > 0 /\ Head(q) = q[1] /\ Flowing(t) /\ turn[t].outcome # "answered"
    BY <1>1, <1>3, <2>1 DEF Streamed
  <2>3. CASE Head(q) = "done"
    <3>1. /\ turn' = [turn EXCEPT ![t].pc = "finish",
                                  ![t].usedFallback = stream[t].received = 0]
          /\ stream' = stream
      BY <1>7, <2>3 DEF Deliver
    <3>2. /\ DOMAIN turn'[t] = Fields /\ turn'[t].pc = "finish"
          /\ turn'[t].kind = turn[t].kind /\ turn'[t].outcome = turn[t].outcome
      BY <1>2, <3>1 DEF Fields
    <3>3. turn'[t].usedFallback <=> stream[t].received = 0
      BY <1>2, <3>1 DEF Fields
    <3>4. Only(t)
      BY <1>2, <3>1, <3>2 DEF Only
    <3>5. stream[t].thread = "ended" /\ stream[t].received = stream[t].produced
      BY <1>3, <1>4, <2>2, <2>3 DEF Flowing, Deltas
    <3>6. Ordered(t)'
      BY <1>1, <2>1, <3>2 DEF Ordered, QuestionFirst, Settled, Unlogged, Answerless, Plain
    <3>7. ~Plain(t)'
      BY <1>1, <2>1, <3>2 DEF Ordered, Plain
    <3>8. Whole(t)'
      BY <3>1, <3>3, <3>5 DEF Whole
    <3>9. Streamed(t)'
      BY <2>2, <3>1, <3>2, <3>5, <3>7, <3>8 DEF Streamed
    <3> QED
      BY <1>1, <3>4, <3>6, <3>9, OneTurn
  <2>4. CASE Head(q) # "done"
    <3>1. /\ stream' = [stream EXCEPT ![t].received = @ + 1, ![t].queue = Tail(@)]
          /\ turn' = turn
      BY <1>7, <2>4 DEF Deliver
    <3>2. stream'[t] = [stream[t] EXCEPT !.received = @ + 1, !.queue = Tail(@)]
      BY <1>2, <3>1
    <3>3. /\ Tail(q) \in Seq({"delta", "done"}) /\ Len(Tail(q)) = Len(q) - 1
          /\ \A i \in 1 .. Len(q) - 1 : Tail(q)[i] = q[i + 1]
      BY <1>3, <2>1
    <3>4. stream'[t] \in Streams
      <4>1. stream[t].received + 1 \in Nat
        BY <1>3
      <4> QED
        BY <1>2, <3>2, <3>3, <4>1 DEF Streams
    <3>5. Only(t)
      BY <1>2, <3>1, <3>4 DEF Only
    <3>6. /\ stream'[t].thread = stream[t].thread /\ stream'[t].queue = Tail(q)
          /\ stream'[t].produced = stream[t].produced
          /\ stream'[t].received = stream[t].received + 1
      BY <1>2, <3>2 DEF Streams
    <3>7. Flowing(t)'
      <4>1. CASE stream[t].thread = "running"
        <5>1. Deltas(q) /\ stream[t].received + Len(q) = stream[t].produced
          BY <2>2, <4>1 DEF Flowing
        <5>2. Deltas(Tail(q))
          BY <1>4, <3>3, <5>1 DEF Deltas
        <5>3. (stream[t].received + 1) + (Len(q) - 1) = stream[t].produced
          <6>1. stream[t].received \in Nat /\ Len(q) \in Nat /\ stream[t].produced \in Nat
            BY <1>3, <1>4
          <6>2. stream[t].received + Len(q) = stream[t].produced
            BY <5>1
          <6> HIDE DEF q
          <6> QED
            BY <6>1, <6>2, Balance
        <5>4. stream'[t].received + Len(Tail(q)) = stream'[t].produced
          BY <3>3, <3>6, <5>3
        <5> QED
          BY <3>6, <4>1, <5>2, <5>4 DEF Flowing, Deltas
      <4>2. CASE stream[t].thread # "running"
        <5>1. /\ stream[t].thread = "ended" /\ q[Len(q)] = "done"
              /\ \A i \in 1 .. Len(q) - 1 : q[i] = "delta"
              /\ stream[t].received + (Len(q) - 1) = stream[t].produced
          BY <2>2, <4>2 DEF Flowing
        <5>2. Len(q) > 1
          BY <1>4, <2>2, <2>4, <5>1
        <5>3. Tail(q)[Len(q) - 1] = "done"
          BY <1>4, <3>3, <5>1, <5>2
        <5>4. \A i \in 1 .. Len(q) - 2 : Tail(q)[i] = "delta"
          BY <1>4, <3>3, <5>1, <5>2
        <5> HIDE DEF q
        <5>5. \A i \in 1 .. Len(Tail(q)) - 1 : Tail(q)[i] = "delta"
          BY <1>4, <3>3, <5>4
        <5>6. Len(Tail(q)) > 0 /\ Tail(q)[Len(Tail(q))] = "done"
          BY <1>4, <3>3, <5>2, <5>3
        <5>7. stream'[t].received + (Len(Tail(q)) - 1) = stream'[t].produced
          <6>1. (stream[t].received + 1) + ((Len(q) - 1) - 1) = stream[t].produced
            <7>1. stream[t].received \in Nat /\ Len(q) \in Nat /\ stream[t].produced \in Nat
              BY <1>3, <1>4
            <7>2. stream[t].received + (Len(q) - 1) = stream[t].produced
              BY <5>1
            <7> QED
              BY <7>1, <7>2, BalanceToEnd
          <6> QED
            BY <3>3, <3>6, <6>1
        <5> QED
          BY <3>6, <5>1, <5>5, <5>6, <5>7 DEF Flowing
      <4> QED
        BY <4>1, <4>2
    <3>8. Ordered(t)'
      BY <1>1, <3>1 DEF Ordered, QuestionFirst, Settled, Unlogged, Answerless, Plain
    <3>9. Streamed(t)'
      BY <1>1, <2>1, <3>1, <3>7 DEF Streamed
    <3> QED
      BY <1>1, <3>5, <3>8, <3>9, OneTurn
  <2> QED
    BY <2>3, <2>4
<1> QED
  BY <1>5, <1>6, <1>7

LEMMA RowsOfTurns ==
  \A s, t \in Turns, r \in Roles :
    /\ <<t, r>> \in Messages
    /\ s # t => \A o \in Roles : <<s, o>> # <<t, r>>
BY DEF Messages

\* A row is handed to a thread: the question's first, the answer's when that is done.
LEMMA SubmittingSteps ==
  ASSUME LogInv, RowsInv, TurnInv, NEW t \in Turns, turn[t].worker \in Workers,
         StartStream(t) \/ LogAnswer(t) \/ RunTask(t)
  PROVE  LogInv' /\ RowsInv' /\ TurnInv'
<1>1. Ordered(t) /\ Streamed(t)
  BY DEF TurnInv
<1>2. DOMAIN turn = Turns /\ DOMAIN turn[t] = Fields /\ stream \in [Turns -> Streams]
  BY DEF TurnInv, Shape
<1>3. "user" \in Roles /\ "assistant" \in Roles
  BY DEF Roles
<1>4. ASSUME NEW r \in Roles, Submit(<<t, r>>, turn[t].worker)
      PROVE  /\ LogInv' /\ RowsInv'
             /\ job[<<t, r>>].pc = "none" /\ job'[<<t, r>>].pc = "submitted"
             /\ \A o \in Messages \ {<<t, r>>} : job'[o] = job[o]
             /\ \A s \in Turns \ {t}, o \in Roles : job'[<<s, o>>] = job[<<s, o>>]
  <2>1. <<t, r>> \in Messages
    BY RowsOfTurns
  <2>2. LogInv' /\ job'[<<t, r>>].pc = "submitted"
    BY <1>4, <2>1, SubmitKeeps
  <2>3. \A o \in Messages \ {<<t, r>>} : job'[o] = job[o]
    BY <1>4, <2>1, SubmitKeeps
  <2>4. RowsInv'
    BY <1>4, <2>1, RowsAfterSubmit
  <2>5. \A s \in Turns \ {t}, o \in Roles : job'[<<s, o>>] = job[<<s, o>>]
    BY <2>3, RowsOfTurns
  <2>6. job[<<t, r>>].pc = "none"
    BY <1>4 DEF Submit
  <2> QED
    BY <2>2, <2>3, <2>4, <2>5, <2>6
<1>5. <<t, "user">> \in Messages /\ <<t, "assistant">> \in Messages
      /\ <<t, "user">> # <<t, "assistant">>
  BY <1>3, RowsOfTurns
<1>6. CASE StartStream(t)
  <2>1. /\ turn[t].pc = "asked" /\ ~Plain(t) /\ stream' = stream
        /\ Submit(<<t, "user">>, turn[t].worker)
        /\ turn' = [turn EXCEPT ![t].pc = "logging"]
    BY <1>6 DEF StartStream, At, Set
  <2>2. /\ DOMAIN turn'[t] = Fields /\ turn'[t].pc = "logging"
        /\ turn'[t].kind = turn[t].kind /\ turn'[t].outcome = turn[t].outcome
    BY <1>2, <2>1 DEF Fields
  <2>3. Only(t)
    BY <1>2, <2>1, <2>2 DEF Only
  <2>4. /\ LogInv' /\ RowsInv'
        /\ job'[<<t, "assistant">>] = job[<<t, "assistant">>]
        /\ \A s \in Turns \ {t}, o \in Roles : job'[<<s, o>>] = job[<<s, o>>]
    BY <1>3, <1>4, <1>5, <2>1
  <2>5. Answerless(t)'
    BY <1>1, <2>1, <2>4 DEF Ordered, Unlogged, Answerless
  <2>6. Ordered(t)'
    BY <2>1, <2>2, <2>5 DEF Ordered, QuestionFirst, Answerless, Plain
  <2>7. Streamed(t)'
    BY <1>1, <2>1, <2>2 DEF Streamed
  <2> QED
    BY <2>3, <2>4, <2>6, <2>7, OneTurn
<1>7. CASE LogAnswer(t)
  <2>1. /\ turn[t].pc = "log" /\ Submit(<<t, "assistant">>, turn[t].worker)
        /\ End(t, "answered") /\ stream' = [stream EXCEPT ![t] = NoStream]
    BY <1>7 DEF LogAnswer, At
  <2>2. /\ LogInv' /\ RowsInv'
        /\ job'[<<t, "user">>] = job[<<t, "user">>]
        /\ \A s \in Turns \ {t}, o \in Roles : job'[<<s, o>>] = job[<<s, o>>]
    BY <1>3, <1>4, <1>5, <2>1
  <2>3. QuestionFirst(t)'
    BY <1>1, <2>1, <2>2 DEF Ordered, QuestionFirst, Settled
  <2>4. /\ stream' \in [Turns -> Streams] /\ stream'[t] = NoStream
        /\ \A s \in Turns \ {t} : stream'[s] = stream[s]
    BY <1>2, <2>1, StreamShapes
  <2>5. TurnInv'
    BY <2>1, <2>2, <2>3, <2>4, Ending
  <2> QED
    BY <2>2, <2>5
<1>8. CASE RunTask(t)
  <2> DEFINE r == Head(turn[t].tasks)
  <2>1. /\ turn[t].pc = "background" /\ stream' = stream
        /\ turn[t].tasks # << >>
        /\ Submit(<<t, r>>, turn[t].worker)
        /\ turn' = [turn EXCEPT ![t].tasks = Tail(@)]
        /\ \A o \in Roles : job[<<t, o>>].pc = "none" \/ Settled(<<t, o>>)
    BY <1>8 DEF RunTask, At
  <2>2. /\ DOMAIN turn'[t] = Fields /\ turn'[t].pc = "background"
        /\ turn'[t].outcome = turn[t].outcome
        /\ turn'[t].tasks = Tail(turn[t].tasks)
    BY <1>2, <2>1 DEF Fields
  <2>3. Only(t)
    BY <1>2, <2>1, <2>2 DEF Only
  <2>4. Streamed(t)'
    BY <1>1, <2>1, <2>2 DEF Streamed
  <2>5. CASE r = "user"
    <3>1. turn[t].tasks \in {<<"user">>, <<"user", "assistant">>} /\ Answerless(t)
      <4>1. turn[t].tasks # <<"assistant">>
        BY <2>5
      <4> QED
        BY <1>1, <2>1, <4>1 DEF Ordered, Unlogged
    <3>2. Tail(<<"user">>) = << >> /\ Tail(<<"user", "assistant">>) = <<"assistant">>
      OBVIOUS
    <3>3. turn'[t].tasks \in {<< >>, <<"assistant">>}
      BY <2>2, <3>1, <3>2
    <3>4. /\ LogInv' /\ RowsInv'
          /\ job'[<<t, "user">>].pc = "submitted"
          /\ job'[<<t, "assistant">>] = job[<<t, "assistant">>]
          /\ \A s \in Turns \ {t}, o \in Roles : job'[<<s, o>>] = job[<<s, o>>]
      BY <1>3, <1>4, <1>5, <2>1, <2>5
    <3>5. Ordered(t)'
      BY <2>2, <3>1, <3>3, <3>4 DEF Ordered, QuestionFirst, Answerless
    <3> QED
      BY <2>3, <2>4, <3>4, <3>5, OneTurn
  <2>6. CASE r # "user"
    <3>1. turn[t].tasks = <<"assistant">> /\ job[<<t, "user">>].pc # "none"
      <4>1. turn[t].tasks \notin {<<"user">>, <<"user", "assistant">>}
        BY <2>6
      <4> QED
        BY <1>1, <2>1, <4>1 DEF Ordered
    <3>2. r = "assistant" /\ Tail(turn[t].tasks) = << >>
      BY <3>1
    <3>3. /\ LogInv' /\ RowsInv'
          /\ job'[<<t, "user">>] = job[<<t, "user">>]
          /\ \A s \in Turns \ {t}, o \in Roles : job'[<<s, o>>] = job[<<s, o>>]
      BY <1>3, <1>4, <1>5, <2>1, <3>2
    <3>4. Settled(<<t, "user">>)
      BY <1>3, <2>1, <3>1
    <3>5. Ordered(t)'
      BY <2>2, <3>2, <3>3, <3>4 DEF Ordered, QuestionFirst, Settled
    <3> QED
      BY <2>3, <2>4, <3>3, <3>5, OneTurn
  <2> QED
    BY <2>5, <2>6
<1> QED
  BY <1>6, <1>7, <1>8

LEMMA ThreadsOnTurns ==
  ASSUME TurnInv, JobsKept, UNCHANGED <<turn, stream>>
  PROVE  TurnInv'
<1>1. Shape'
  BY DEF TurnInv, Shape
<1>2. ASSUME NEW t \in Turns PROVE Ordered(t)' /\ Streamed(t)'
  <2>1. Ordered(t) /\ Streamed(t)
    BY DEF TurnInv
  <2>2. <<t, "user">> \in Messages /\ <<t, "assistant">> \in Messages
    BY RowsOfTurns DEF Roles
  <2>3. /\ Answerless(t) => Answerless(t)'
        /\ Unlogged(t) => Unlogged(t)'
        /\ Settled(<<t, "user">>) => Settled(<<t, "user">>)'
        /\ job[<<t, "user">>].pc # "none" => job'[<<t, "user">>].pc # "none"
        /\ QuestionFirst(t) => QuestionFirst(t)'
    BY <2>2 DEF JobsKept, Answerless, Unlogged, Settled, QuestionFirst
  <2>4. Ordered(t)'
    BY <2>1, <2>3 DEF Ordered, Plain
  <2>5. Streamed(t)'
    BY <2>1 DEF Streamed, Flowing, Whole, Deltas, Plain
  <2> QED
    BY <2>4, <2>5
<1> QED
  BY <1>1, <1>2 DEF TurnInv

LEMMA CrashOnTurns ==
  ASSUME TurnInv, JobsKept, NEW w \in Workers, Crash(w)
  PROVE  TurnInv'
<1>1. /\ turn' = [t \in Turns |-> IF turn[t].worker = w /\ ~At(t, "ended")
                                  THEN Over(t, "crashed") ELSE turn[t]]
      /\ stream' = [t \in Turns |-> IF turn[t].worker = w THEN NoStream ELSE stream[t]]
  BY DEF Crash
<1>2. \A t \in Turns : /\ DOMAIN Over(t, "crashed") = Fields
                       /\ Over(t, "crashed").pc = "ended"
                       /\ Over(t, "crashed").outcome = "crashed"
  BY DEF Over, NotSent, Fields
<1>3. Shape'
  BY <1>1, <1>2, StreamShapes DEF TurnInv, Shape
<1>4. ASSUME NEW t \in Turns PROVE Ordered(t)' /\ Streamed(t)'
  <2>1. Ordered(t) /\ Streamed(t)
    BY DEF TurnInv
  <2>2. <<t, "user">> \in Messages /\ <<t, "assistant">> \in Messages
    BY RowsOfTurns DEF Roles
  <2>3. /\ Answerless(t) => Answerless(t)'
        /\ Unlogged(t) => Unlogged(t)'
        /\ Settled(<<t, "user">>) => Settled(<<t, "user">>)'
        /\ job[<<t, "user">>].pc # "none" => job'[<<t, "user">>].pc # "none"
        /\ QuestionFirst(t) => QuestionFirst(t)'
    BY <2>2 DEF JobsKept, Answerless, Unlogged, Settled, QuestionFirst
  <2>4. CASE turn[t].worker = w /\ ~At(t, "ended")
    <3>1. turn'[t] = Over(t, "crashed")
      BY <1>1, <2>4
    <3> QED
      BY <1>2, <2>1, <2>3, <3>1 DEF Ordered, Streamed
  <2>5. CASE turn[t].worker = w /\ At(t, "ended")
    <3>1. turn'[t] = turn[t] /\ stream'[t] = NoStream /\ turn[t].pc = "ended"
      BY <1>1, <2>5 DEF At
    <3>2. Ordered(t)'
      BY <2>1, <2>3, <3>1 DEF Ordered
    <3>3. Streamed(t)'
      BY <2>1, <3>1 DEF Streamed
    <3> QED
      BY <3>2, <3>3
  <2>6. CASE turn[t].worker # w
    <3>1. turn'[t] = turn[t] /\ stream'[t] = stream[t]
      BY <1>1, <2>6
    <3>2. Ordered(t)'
      BY <2>1, <2>3, <3>1 DEF Ordered, Plain
    <3>3. Streamed(t)'
      BY <2>1, <3>1 DEF Streamed, Flowing, Whole, Deltas, Plain
    <3> QED
      BY <3>2, <3>3
  <2> QED
    BY <2>4, <2>5, <2>6
<1> QED
  BY <1>3, <1>4 DEF TurnInv

\* A turn that was asked is on a worker.
Hosted == \A t \in Turns : turn[t].pc # "unsent" => turn[t].worker \in Workers

\* Only Ask gives a turn its worker.
LEMMA HostedTurn ==
  ASSUME Shape, Hosted, NEW t \in Turns, Ask(t) \/ TurnStep(t) \/ ThreadStep(t) \/ Leave(t)
  PROVE  Hosted'
<1>1. DOMAIN turn = Turns /\ DOMAIN turn[t] = Fields
  BY DEF Shape
<1>2. SUFFICES ASSUME turn' # turn
               PROVE  /\ \A s \in Turns \ {t} : turn'[s] = turn[s]
                      /\ turn'[t].worker \in Workers
  BY DEF Hosted
<1>3. CASE Ask(t)
  <2>1. PICK kind \in {"plain", "stream"}, w \in Workers :
          turn' = [turn EXCEPT ![t].pc = "asked", ![t].kind = kind, ![t].worker = w]
    BY <1>3 DEF Ask
  <2> QED
    BY <1>1, <2>1 DEF Fields
<1>4. ASSUME turn[t].pc # "unsent",
             \E outcome : End(t, outcome)
      PROVE  /\ \A s \in Turns \ {t} : turn'[s] = turn[s]
             /\ turn'[t].worker \in Workers
  <2>1. PICK outcome : turn' = [turn EXCEPT ![t] = Over(t, outcome)]
    BY <1>4 DEF End
  <2>2. Over(t, outcome).worker = turn[t].worker
    BY DEF Over, NotSent
  <2> QED
    BY <1>1, <1>4, <2>1, <2>2 DEF Hosted
<1>5. CASE Reject(t) \/ TriageRaises(t) \/ LogAnswer(t) \/ EndBackground(t) \/ Leave(t)
  BY <1>4, <1>5 DEF Reject, TriageRaises, LogAnswer, EndBackground, Leave, At
<1>6. CASE StartPlain(t) \/ StartStream(t) \/ QuestionLogged(t)
  BY <1>1, <1>6 DEF StartPlain, StartStream, QuestionLogged, Set, At, Fields, Hosted
<1>7. CASE Triage(t)
  <2>1. turn[t].pc = "triage"
        /\ \E triage, pc : turn' = [turn EXCEPT ![t].triage = triage, ![t].pc = pc]
    BY <1>7 DEF Triage, At
  <2> QED
    BY <1>1, <2>1 DEF Fields, Hosted
<1>8. CASE Search(t)
  <2>1. turn[t].pc = "search"
        /\ \E found : turn' = [turn EXCEPT ![t].pc = "rerank", ![t].candidates = found]
    BY <1>8 DEF Search, At
  <2> QED
    BY <1>1, <2>1 DEF Fields, Hosted
<1>9. CASE SearchFails(t)
  BY <1>1, <1>4, <1>9 DEF SearchFails, At, Fields, Hosted
<1>10. CASE RerankStep(t)
  <2>1. turn[t].pc = "rerank"
        /\ \E reply, cited : turn' = [turn EXCEPT ![t].pc = "generate", ![t].reply = reply,
                                                  ![t].references = cited]
    BY <1>10 DEF RerankStep, At
  <2> QED
    BY <1>1, <2>1 DEF Fields, Hosted
<1>11. CASE Generate(t)
  <2>1. turn[t].pc = "generate"
        /\ \E fallback : turn' = [turn EXCEPT ![t].pc = "finish", ![t].reply = NoReply,
                                              ![t].usedFallback = fallback]
    BY <1>11 DEF Generate, At
  <2> QED
    BY <1>1, <2>1 DEF Fields, Hosted
<1>12. CASE OpenStream(t)
  <2>1. turn[t].pc = "generate"
        /\ \E pc : turn' = [turn EXCEPT ![t].pc = pc, ![t].reply = NoReply]
    BY <1>12 DEF OpenStream, At
  <2> QED
    BY <1>1, <2>1 DEF Fields, Hosted
<1>13. CASE Deliver(t)
  <2>1. turn[t].pc = "stream"
        /\ \E fallback : turn' = [turn EXCEPT ![t].pc = "finish", ![t].usedFallback = fallback]
    BY <1>2, <1>13 DEF Deliver, At
  <2> QED
    BY <1>1, <2>1 DEF Fields, Hosted
<1>14. CASE Finish(t)
  <2>1. turn[t].pc = "finish"
        /\ \E pc, tasks :
             turn' = [turn EXCEPT ![t].pc = pc,
                                  ![t].outcome = "answered", ![t].triage = NoTriage,
                                  ![t].candidates = << >>, ![t].references = << >>,
                                  ![t].tasks = tasks]
    BY <1>14 DEF Finish, At
  <2> QED
    BY <1>1, <2>1 DEF Fields, Hosted
<1>15. CASE RunTask(t)
  <2>1. turn[t].pc = "background" /\ turn' = [turn EXCEPT ![t].tasks = Tail(@)]
    BY <1>15 DEF RunTask, At
  <2> QED
    BY <1>1, <2>1 DEF Fields, Hosted
<1>16. CASE ThreadStep(t)
  BY <1>2, <1>16 DEF ThreadStep, Produce, EndStream
<1> QED
  BY <1>3, <1>5, <1>6, <1>7, <1>8, <1>9, <1>10, <1>11, <1>12, <1>13, <1>14, <1>15, <1>16
  DEF TurnStep

LEMMA HostedCrash ==
  ASSUME Shape, Hosted, NEW w \in Workers, Crash(w)
  PROVE  Hosted'
<1>1. turn' = [t \in Turns |-> IF turn[t].worker = w /\ ~At(t, "ended")
                               THEN Over(t, "crashed") ELSE turn[t]]
  BY DEF Crash
<1>2. \A t \in Turns : Over(t, "crashed").worker = turn[t].worker
  BY DEF Over, NotSent
<1> QED
  BY <1>1, <1>2 DEF Hosted

-----------------------------------------------------------------------------
(***************************************************************************)
(* The session                                                             *)
(***************************************************************************)

SessionInv == LogInv /\ RowsInv /\ TurnInv /\ Hosted

LEMMA SessionStep == SessionInv /\ [Next]_vars => SessionInv'
<1> SUFFICES ASSUME SessionInv, [Next]_vars PROVE SessionInv'
  OBVIOUS
<1>1. LogInv /\ RowsInv /\ TurnInv /\ Hosted /\ Shape
  BY DEF SessionInv, TurnInv
<1>2. UNCHANGED logVars => LogInv' /\ RowsInv'
  <2> SUFFICES ASSUME UNCHANGED logVars PROVE LogInv' /\ RowsInv'
    OBVIOUS
  <2>1. UNCHANGED <<table, rows, initialized, job>>
    BY DEF logVars
  <2> QED
    BY <1>1, <2>1 DEF LogInv, LogTyped, TableInv, InsertsFitTheTable, RowsInv, RowsStored,
                      QuestionBeforeAnswer
<1>3. \A t \in Turns : QuestionFirst(t)
  BY <1>1 DEF TurnInv, Ordered
<1>4. CASE UNCHANGED vars
  <2>1. UNCHANGED logVars /\ UNCHANGED <<turn, stream>> /\ job' = job
    BY <1>4 DEF vars, chatVars, logVars
  <2>2. JobsKept
    BY <2>1 DEF JobsKept
  <2>3. TurnInv' /\ Hosted'
    BY <1>1, <2>1, <2>2, ThreadsOnTurns DEF Hosted
  <2> QED
    BY <1>2, <2>1, <2>3 DEF SessionInv
<1>5. ASSUME NEW t \in Turns, Ask(t) \/ TurnStep(t) \/ ThreadStep(t) \/ Leave(t)
      PROVE  SessionInv'
  <2>1. Hosted'
    BY <1>1, <1>5, HostedTurn
  <2>2. CASE StartStream(t) \/ LogAnswer(t) \/ RunTask(t)
    <3>1. turn[t].worker \in Workers
      BY <1>1, <2>2 DEF Hosted, StartStream, LogAnswer, RunTask, At
    <3> QED
      BY <1>1, <2>1, <2>2, <3>1, SubmittingSteps DEF SessionInv
  <2>3. CASE \/ Ask(t) \/ Reject(t) \/ StartPlain(t) \/ QuestionLogged(t)
             \/ Triage(t) \/ TriageRaises(t) \/ Search(t) \/ SearchFails(t) \/ RerankStep(t)
    <3>1. UNCHANGED logVars
      BY <2>3 DEF Ask, Reject, StartPlain, QuestionLogged, Triage, TriageRaises, Search,
                  SearchFails, RerankStep
    <3> QED
      BY <1>1, <1>2, <2>1, <2>3, <3>1, RequestSteps DEF SessionInv
  <2>4. CASE Generate(t) \/ OpenStream(t) \/ Finish(t) \/ EndBackground(t) \/ Leave(t)
    <3>1. UNCHANGED logVars
      BY <2>4 DEF Generate, OpenStream, Finish, EndBackground, Leave
    <3> QED
      BY <1>1, <1>2, <2>1, <2>4, <3>1, AnswerSteps DEF SessionInv
  <2>5. CASE Produce(t) \/ EndStream(t) \/ Deliver(t)
    <3>1. UNCHANGED logVars
      BY <2>5 DEF Produce, EndStream, Deliver
    <3> QED
      BY <1>1, <1>2, <2>1, <2>5, <3>1, StreamSteps DEF SessionInv
  <2> QED
    BY <1>5, <2>2, <2>3, <2>4, <2>5 DEF TurnStep, ThreadStep
<1>6. ASSUME NEW m \in Messages, LogStep(m) \/ WriteFails(m), UNCHANGED chatVars
      PROVE  SessionInv'
  <2>1. /\ LogInv' /\ JobsKept
        /\ rows' = rows \/ Insert(m)
    BY <1>1, <1>6, LogStepKeeps
  <2>2. RowsInv'
    BY <1>1, <1>3, <2>1, RowsKept, InsertKeeps
  <2>3. UNCHANGED <<turn, stream>>
    BY <1>6 DEF chatVars
  <2>4. TurnInv' /\ Hosted'
    BY <1>1, <2>1, <2>3, ThreadsOnTurns DEF Hosted
  <2> QED
    BY <2>1, <2>2, <2>4 DEF SessionInv
<1>7. ASSUME NEW w \in Workers, Crash(w) PROVE SessionInv'
  <2>1. Forget(w)
    BY <1>7 DEF Crash
  <2>2. LogInv' /\ JobsKept /\ rows' = rows
    BY <1>1, <2>1, ForgetKeeps
  <2>3. RowsInv'
    BY <1>1, <2>2, RowsKept
  <2>4. TurnInv' /\ Hosted'
    BY <1>1, <1>7, <2>2, CrashOnTurns, HostedCrash
  <2> QED
    BY <2>2, <2>3, <2>4 DEF SessionInv
<1> QED
  BY <1>4, <1>5, <1>6, <1>7 DEF Next

LEMMA SessionHolds == Spec => []SessionInv
<1>1. Init => SessionInv
  <2>1. Init => Hosted
    BY DEF Init, Hosted, NotSent
  <2> QED
    BY <2>1, ChatInitially DEF SessionInv
<1> QED
  BY <1>1, SessionStep, PTL DEF Spec

-----------------------------------------------------------------------------
(***************************************************************************)
(* The references                                                          *)
(***************************************************************************)

\* Each place k of a finite set of numbers is taken by one of them.
LEMMA Ranks ==
  ASSUME NEW S \in SUBSET Nat, IsFiniteSet(S)
  PROVE  /\ Cardinality(S) \in Nat
         /\ \A k \in 1 .. Cardinality(S) : \E i \in S : Cardinality({j \in S : j < i}) = k - 1
<1> DEFINE N == Cardinality(S)
           Below(n) == {m \in S : m < n}
           place == [n \in S |-> Cardinality(Below(n)) + 1]
<1>1. IsFiniteSet(S) /\ N \in Nat
  BY FS_CardinalityType
<1>2. \A n \in S : IsFiniteSet(Below(n)) /\ Cardinality(Below(n)) \in Nat
  BY <1>1, FS_Subset, FS_CardinalityType
<1>a. \A n \in S : place[n] = Cardinality(Below(n)) + 1
  OBVIOUS
<1>b. /\ \A n, m \in S : m \in Below(n) <=> m < n
      /\ \A n \in S : Below(n) \subseteq S
  OBVIOUS
<1> HIDE DEF place, Below, N
<1>3. ASSUME NEW n \in S PROVE place[n] \in 1 .. N
  <2>1. IsFiniteSet(S \ {n}) /\ Cardinality(S \ {n}) = N - 1
    BY <1>1, FS_RemoveElement DEF N
  <2>2. Below(n) \in SUBSET (S \ {n})
    BY <1>b
  <2>3. Cardinality(Below(n)) <= N - 1
    BY <2>1, <2>2, FS_Subset
  <2> QED
    BY <2>3, <1>2, <1>1, <1>a
<1>4. ASSUME NEW n \in S, NEW m \in S, n < m PROVE place[n] < place[m]
  <2>1. Below(n) \cup {n} \in SUBSET Below(m)
    <3>1. \A x \in Below(n) : x \in S /\ x < n
      BY <1>b
    <3>a. \A x \in S : x \in Nat
      OBVIOUS
    <3>2. ASSUME NEW x \in Below(n) PROVE x \in S /\ x < m
      <4>1. x \in S /\ x < n /\ n < m /\ x \in Nat /\ n \in Nat /\ m \in Nat
        BY <1>4, <3>1, <3>a
      <4> QED
        BY <4>1
    <3> QED
      BY <1>4, <1>b, <3>2
  <2>2. n \notin Below(n)
    BY <1>b
  <2>3. Cardinality(Below(n) \cup {n}) = Cardinality(Below(n)) + 1
    BY <1>2, <2>2, FS_AddElement
  <2>4. Cardinality(Below(n) \cup {n}) <= Cardinality(Below(m))
    BY <1>2, <2>1, FS_Subset
  <2> QED
    BY <2>3, <2>4, <1>2, <1>a
<1>5. \A n, m \in S : n # m => place[n] # place[m]
  <2>1. \A n \in S : place[n] \in Nat
    BY <1>3, <1>1
  <2>2. \A n, m \in S : n = m \/ n < m \/ m < n
    OBVIOUS
  <2> QED
    BY <1>4, <2>1, <2>2
<1>6. place \in Surjection(S, 1 .. N)
  <2>1. place \in [S -> 1 .. N]
    BY <1>3 DEF place
  <2>2. place \in Injection(S, 1 .. N)
    BY <2>1, <1>5 DEF Injection, IsInjective
  <2>3. IsFiniteSet(1 .. N) /\ Cardinality(1 .. N) = N
    BY <1>1, FS_Interval
  <2> QED
    BY <2>2, <2>3, FS_Injection DEF N
<1>7. \A k \in 1 .. N : \E i \in S : place[i] = k
  BY <1>6 DEF Surjection
<1>8. \A k \in 1 .. N : \E i \in S : Cardinality(Below(i)) = k - 1
  BY <1>7, <1>2, <1>a
<1> QED
  BY <1>1, <1>8 DEF N, Below

\* A list of notices that has none twice.
Distinct(list) ==
  list \in Seq(Notices) /\ \A i, j \in DOMAIN list : list[i] = list[j] => i = j

LEMMA FirstsAre ==
  ASSUME NEW c, NEW items \in Seq(Int)
  PROVE  /\ Firsts(c, items) \in SUBSET Nat /\ IsFiniteSet(Firsts(c, items))
         /\ ToSet(items) \cap DOMAIN c # {} => Firsts(c, items) # {}
<1>0. DOMAIN items = 1 .. Len(items) /\ Len(items) \in Nat
  OBVIOUS
<1>1. IsFiniteSet(DOMAIN items) /\ DOMAIN items \subseteq Nat \ {0}
  <2>1. IsFiniteSet(1 .. Len(items))
    BY <1>0, FS_Interval
  <2> QED
    BY <1>0, <2>1
<1>2. Firsts(c, items) \subseteq DOMAIN items
  BY DEF Firsts
<1>3. ASSUME ToSet(items) \cap DOMAIN c # {} PROVE Firsts(c, items) # {}
  <2>1. PICK k \in DOMAIN items : items[k] \in DOMAIN c
    BY <1>3 DEF ToSet
  <2> DEFINE S == {i \in DOMAIN items : items[i] = items[k]}
  <2>2. S \in SUBSET Nat /\ IsFiniteSet(S) /\ k \in S
    BY <1>1, FS_Subset
  <2>3. Cardinality(S) \in Nat /\ Cardinality(S) # 0
    BY <2>2, FS_EmptySet, FS_CardinalityType
  <2>4. PICK i \in S : Cardinality({j \in S : j < i}) = 0
    <3> HIDE DEF S
    <3>1. 1 \in 1 .. Cardinality(S) /\ 1 - 1 = 0
      BY <2>3
    <3>2. \E i \in S : Cardinality({j \in S : j < i}) = 1 - 1
      BY <2>2, <3>1, Ranks
    <3> QED
      BY <3>1, <3>2
  <2>5. {j \in S : j < i} = {}
    <3>1. IsFiniteSet({j \in S : j < i})
      BY <2>2, FS_Subset
    <3> QED
      BY <2>4, <3>1, FS_EmptySet
  <2>6. \A j \in 1 .. i - 1 : items[j] # items[i]
    BY <1>1, <2>5
  <2>7. i \in Firsts(c, items)
    BY <2>1, <2>6 DEF Firsts
  <2> QED
    BY <2>7
<1> QED
  BY <1>1, <1>2, <1>3, FS_Subset

LEMMA NumberedAre ==
  ASSUME NEW c, Distinct(c), NEW items \in Seq(Int)
  PROVE  /\ Distinct(Numbered(c, items))
         /\ ToSet(Numbered(c, items)) \subseteq {c[n] : n \in ToSet(items) \cap DOMAIN c}
         /\ ToSet(items) \cap DOMAIN c # {} => Numbered(c, items) # << >>
<1> DEFINE firsts == Firsts(c, items)
           N == Cardinality(firsts)
           Before(i) == {j \in firsts : j < i}
           Place(k) == CHOOSE i \in firsts : Cardinality(Before(i)) = k - 1
           cited == Numbered(c, items)
<1>1. firsts \in SUBSET Nat /\ IsFiniteSet(firsts)
  BY FirstsAre
<1>2. N \in Nat /\ \A k \in 1 .. N : \E i \in firsts : Cardinality(Before(i)) = k - 1
  <2> HIDE DEF firsts
  <2> QED
    BY <1>1, Ranks
<1>3. cited = [k \in 1 .. N |-> c[items[Place(k)]]]
  BY DEF Numbered
<1>4. \A i \in firsts : i \in DOMAIN items /\ items[i] \in DOMAIN c
                        /\ \A j \in 1 .. i - 1 : items[j] # items[i]
  BY DEF Firsts
<1>5. \A i, j \in firsts : items[i] = items[j] => i = j
  <2> SUFFICES ASSUME NEW i \in firsts, NEW j \in firsts, items[i] = items[j] PROVE i = j
    OBVIOUS
  <2>1. i \in Nat \ {0} /\ j \in Nat \ {0}
    BY <1>4
  <2>2. ~ (i < j) /\ ~ (j < i)
    BY <1>4, <2>1
  <2> QED
    BY <2>1, <2>2
<1> HIDE DEF firsts, N, Before, cited
<1>6. \A k \in 1 .. N : Place(k) \in firsts /\ Cardinality(Before(Place(k))) = k - 1
  BY <1>2
<1> HIDE DEF Place
<1>7. \A k, l \in 1 .. N : Place(k) = Place(l) => k = l
  <2> SUFFICES ASSUME NEW k \in 1 .. N, NEW l \in 1 .. N, Place(k) = Place(l) PROVE k = l
    OBVIOUS
  <2>1. k - 1 = l - 1
    BY <1>6
  <2> QED
    BY <1>2, <2>1
<1>8. \A k \in 1 .. N : /\ Place(k) \in DOMAIN items /\ items[Place(k)] \in DOMAIN c
                        /\ c[items[Place(k)]] \in Notices
  <2>1. \A x \in DOMAIN c : c[x] \in Notices
    BY DEF Distinct
  <2> QED
    BY <1>4, <1>6, <2>1
<1>9. cited \in Seq(Notices) /\ DOMAIN cited = 1 .. N
  <2>1. cited \in [1 .. N -> Notices]
    BY <1>3, <1>8
  <2> QED
    BY <1>2, <2>1
<1>10. ASSUME NEW k \in DOMAIN cited, NEW l \in DOMAIN cited, cited[k] = cited[l] PROVE k = l
  <2>1. k \in 1 .. N /\ l \in 1 .. N
    BY <1>9
  <2>2. c[items[Place(k)]] = c[items[Place(l)]]
    BY <1>3, <1>10, <2>1
  <2>3. items[Place(k)] = items[Place(l)]
    BY <1>8, <2>1, <2>2 DEF Distinct
  <2>4. Place(k) = Place(l)
    BY <1>5, <1>6, <2>1, <2>3
  <2> QED
    BY <1>7, <2>1, <2>4
<1>11. \A k \in DOMAIN cited : cited[k] \in {c[n] : n \in ToSet(items) \cap DOMAIN c}
  BY <1>3, <1>8, <1>9 DEF ToSet
<1>12. ASSUME ToSet(items) \cap DOMAIN c # {} PROVE cited # << >>
  <2>1. firsts # {}
    BY <1>12, FirstsAre DEF firsts
  <2>2. N # 0
    BY <1>1, <2>1, FS_EmptySet DEF N
  <2> QED
    BY <1>2, <1>9, <2>2
<1> QED
  BY <1>9, <1>10, <1>11, <1>12 DEF Distinct, ToSet, cited

LEMMA TopOf ==
  ASSUME NEW list, Distinct(list)
  PROVE  /\ Distinct(Top(list)) /\ Len(Top(list)) <= MaxReferences
         /\ ToSet(Top(list)) \subseteq ToSet(list)
         /\ list # << >> => Top(list) # << >>
<1>1. MaxReferences \in Nat \ {0} /\ list \in Seq(Notices) /\ Len(list) \in Nat
  BY ReferencesAssumption DEF Distinct
<1>2. CASE Len(list) <= MaxReferences
  BY <1>1, <1>2 DEF Top
<1>3. CASE Len(list) > MaxReferences
  <2> DEFINE top == SubSeq(list, 1, MaxReferences)
  <2>1. Top(list) = top
    BY <1>1, <1>3 DEF Top
  <2>2. top \in Seq(Notices) /\ Len(top) = MaxReferences
        /\ \A i \in 1 .. MaxReferences : top[i] = list[i] /\ i \in DOMAIN list
    BY <1>1, <1>3
  <2> HIDE DEF top
  <2>3. DOMAIN top = 1 .. MaxReferences
    BY <2>2
  <2>4. Distinct(top)
    BY <1>1, <2>2, <2>3 DEF Distinct
  <2>5. ToSet(top) \subseteq ToSet(list)
    BY <2>2, <2>3 DEF ToSet
  <2>6. top # << >>
    BY <1>1, <2>2
  <2> QED
    BY <1>1, <2>1, <2>2, <2>4, <2>5, <2>6
<1> QED
  BY <1>1, <1>2, <1>3

Named(reply) == IF reply.form = "array" THEN ToSet(reply.items) ELSE {}

\* What a choice among the candidates keeps of a reply, asked for or not.
Chosen(all, reply, cited) ==
  /\ Distinct(cited) /\ Len(cited) <= MaxReferences
  /\ ToSet(cited) \subseteq ToSet(all)
  /\ all # << >> => (cited = << >> <=> reply.form = "array" /\ Named(reply) \subseteq {OtherType})
  /\ Named(reply) \cap DOMAIN all # {} =>
       ToSet(cited) \subseteq {all[n] : n \in Named(reply) \cap DOMAIN all}

\* Whatever the reply, and whether there is a model or not.
LEMMA RerankChooses ==
  ASSUME NEW all, Distinct(all), NEW enabled \in BOOLEAN,
         NEW reply \in IF NeedsRerank(all, enabled) THEN RerankReplies(RerankItems) ELSE {NoReply}
  PROVE  Chosen(all, reply, Rerank(all, reply, enabled))
<1> DEFINE cited == Rerank(all, reply, enabled)
<1>1. MaxReferences \in Nat \ {0} /\ all \in Seq(Notices) /\ Len(all) \in Nat
  BY ReferencesAssumption DEF Distinct
<1>2. reply.form = "array" => reply.items \in Seq(Int) /\ NeedsRerank(all, enabled)
  BY SearchAssumption DEF RerankReplies, NoReply
<1>3. CASE Len(all) <= MaxReferences
  <2>1. cited = all
    BY <1>3 DEF Rerank
  <2>2. reply.form # "array"
    BY <1>1, <1>2, <1>3 DEF NeedsRerank
  <2> HIDE DEF cited
  <2> QED
    BY <1>3, <2>1, <2>2 DEF Chosen, Named, cited
<1>4. CASE Len(all) > MaxReferences /\ reply.form # "array"
  <2>1. cited = Top(all)
    BY <1>1, <1>4 DEF Rerank
  <2>2. Distinct(cited) /\ Len(cited) <= MaxReferences /\ ToSet(cited) \subseteq ToSet(all)
        /\ (all # << >> => cited # << >>)
    BY <2>1, TopOf
  <2> HIDE DEF cited
  <2> QED
    BY <1>4, <2>2 DEF Chosen, Named, cited
<1>5. CASE Len(all) > MaxReferences /\ reply.form = "array"
  <2>1. enabled /\ reply.items \in Seq(Int)
    BY <1>2, <1>5 DEF NeedsRerank
  <2> DEFINE named == ToSet(reply.items)
             selected == Numbered(all, reply.items)
  <2>2. Named(reply) = named
    BY <1>5 DEF Named
  <2>3. all # << >>
    BY <1>1, <1>5
  <2>4. /\ Distinct(selected)
        /\ ToSet(selected) \subseteq {all[n] : n \in named \cap DOMAIN all}
        /\ named \cap DOMAIN all # {} => selected # << >>
    BY <2>1, NumberedAre
  <2>5. {all[n] : n \in named \cap DOMAIN all} \subseteq ToSet(all)
    BY DEF ToSet
  <2>6. CASE named \subseteq {OtherType}
    <3>1. cited = << >>
      BY <1>1, <1>5, <2>1, <2>6 DEF Rerank, Kept
    <3>2. OtherType \notin DOMAIN all
      BY <1>1 DEF OtherType
    <3>3. Distinct(<< >>) /\ Len(<< >>) = 0 /\ ToSet(<< >>) = {}
      BY DEF Distinct, ToSet
    <3> HIDE DEF cited, named
    <3> QED
      BY <1>1, <1>5, <2>2, <2>6, <3>1, <3>2, <3>3 DEF Chosen, cited
  <2>7. CASE ~ (named \subseteq {OtherType}) /\ selected = << >>
    <3>1. cited = Top(all)
      BY <1>1, <1>5, <2>1, <2>7 DEF Rerank, Kept
    <3>2. Distinct(cited) /\ Len(cited) <= MaxReferences /\ ToSet(cited) \subseteq ToSet(all)
          /\ cited # << >>
      BY <2>3, <3>1, TopOf
    <3> HIDE DEF cited, named, selected
    <3> QED
      BY <2>2, <2>4, <2>7, <3>2 DEF Chosen, cited
  <2>8. CASE ~ (named \subseteq {OtherType}) /\ selected # << >>
    <3>1. cited = Top(selected)
      BY <1>1, <1>5, <2>1, <2>8 DEF Rerank, Kept
    <3> HIDE DEF selected
    <3>2. Distinct(cited) /\ Len(cited) <= MaxReferences /\ ToSet(cited) \subseteq ToSet(selected)
          /\ cited # << >>
      BY <2>4, <2>8, <3>1, TopOf
    <3> HIDE DEF cited, named
    <3> QED
      BY <2>2, <2>4, <2>5, <2>8, <3>2 DEF Chosen, cited
  <2> QED
    BY <2>6, <2>7, <2>8
<1> QED
  BY <1>1, <1>3, <1>4, <1>5

\* What a turn has found and chosen, for each place of it: nothing before the search, and
\* the reply itself only until the answer is begun.
Citing(r) ==
  /\ r.candidates \in Hits \cup {Latest}
  /\ r.triage.keywords = "some" => r.triage.mode # "legacy" /\ r.candidates \in Hits
  /\ Distinct(r.references) /\ Len(r.references) <= MaxReferences
  /\ ToSet(r.references) \subseteq ToSet(r.candidates)
  /\ r.pc \in {"unsent", "asked", "logging", "triage", "search"} => r.candidates = << >>
  /\ r.pc \in {"unsent", "asked", "logging", "triage", "search", "rerank"} =>
       r.references = << >>
  /\ r.pc = "generate" => Chosen(r.candidates, r.reply, r.references)
  /\ r.pc # "generate" => r.reply = NoReply

CiteInv == \A t \in Turns : Citing(turn[t])

LEMMA NothingCited ==
  /\ Distinct(<< >>) /\ Len(<< >>) = 0 /\ 0 <= MaxReferences /\ ToSet(<< >>) = {}
  /\ << >> \in Hits
  /\ Chosen(<< >>, NoReply, << >>)
<1>1. Distinct(<< >>) /\ Len(<< >>) = 0 /\ 0 <= MaxReferences /\ ToSet(<< >>) = {}
  BY ReferencesAssumption DEF Distinct, ToSet
<1>2. NoReply.form # "array"
  BY DEF NoReply
<1> QED
  BY <1>1, <1>2, SearchAssumption DEF Chosen, Named

LEMMA IdleCites ==
  ASSUME NEW r, r.candidates = << >>, r.references = << >>, r.reply = NoReply,
         r.pc # "generate", r.triage.keywords = "some" => r.triage.mode # "legacy"
  PROVE  Citing(r)
BY NothingCited DEF Citing

LEMMA OverCites ==
  ASSUME NEW t \in Turns, NEW outcome
  PROVE  Citing(Over(t, outcome))
<1> DEFINE r == Over(t, outcome)
<1>1. r.candidates = << >> /\ r.references = << >> /\ r.reply = NoReply /\ r.pc = "ended"
  BY DEF Over, NotSent
<1>2. r.triage = NoTriage
  BY DEF Over, NotSent
<1> QED
  BY <1>1, <1>2, IdleCites DEF NoTriage

\* Steps that touch neither what was found nor what was chosen.
LEMMA CitesOn ==
  ASSUME NEW r, NEW s, Citing(r),
         s.candidates = r.candidates, s.triage = r.triage, s.references = r.references,
         \/ s.pc = r.pc /\ s.reply = r.reply
         \/ /\ r.pc \in {"unsent", "asked", "logging"}
            /\ s.pc \in {"asked", "logging", "triage"} /\ s.reply = r.reply
  PROVE  Citing(s)
BY DEF Citing

LEMMA TriageModes ==
  ASSUME NEW reply \in TriageReplies \cup {NoReply}, NEW history
  PROVE  ParseTriage(reply, history).keywords = "some" => ParseTriage(reply, history).mode # "legacy"
<1>1. CASE reply.form \in {"none", "garbage"}
  <2>1. ParseTriage(reply, history) = NoTriage
    BY <1>1 DEF ParseTriage
  <2> QED
    BY <2>1 DEF NoTriage
<1>2. ASSUME NEW mode \in Modes, NEW keywords
      PROVE  NormalizeTriage(mode, keywords, history).mode \in Modes
  BY DEF NormalizeTriage, Modes
<1>3. CASE reply.form = "object"
  <2> DEFINE mode == IF reply.mode \in Modes THEN reply.mode
                     ELSE IF reply.keywords = "some" THEN "search" ELSE "out_of_domain"
  <2>1. ParseTriage(reply, history) = NormalizeTriage(mode, reply.keywords, history)
    BY <1>3 DEF ParseTriage
  <2>2. mode \in Modes
    BY DEF Modes
  <2> HIDE DEF mode
  <2> QED
    BY <1>2, <2>1, <2>2 DEF Modes
<1>4. CASE reply.form = "array"
  <2> DEFINE mode == IF reply.keywords = "some" THEN "search" ELSE "out_of_domain"
  <2>1. ParseTriage(reply, history) = NormalizeTriage(mode, reply.keywords, history)
    BY <1>4 DEF ParseTriage
  <2>2. mode \in Modes
    BY DEF Modes
  <2> HIDE DEF mode
  <2> QED
    BY <1>2, <2>1, <2>2 DEF Modes
<1>5. reply.form \in {"none", "garbage", "object", "array"}
  BY DEF TriageReplies, NoReply
<1> QED
  BY <1>1, <1>3, <1>4, <1>5

LEMMA CitingStep ==
  ASSUME Shape, CiteInv, NEW t \in Turns, Ask(t) \/ TurnStep(t) \/ ThreadStep(t) \/ Leave(t)
  PROVE  CiteInv'
<1>1. DOMAIN turn = Turns /\ DOMAIN turn[t] = Fields /\ Citing(turn[t])
  BY DEF Shape, CiteInv
<1>2. ASSUME turn' = turn PROVE CiteInv'
  BY <1>2 DEF CiteInv
<1>3. ASSUME NEW s, turn' = [turn EXCEPT ![t] = s], Citing(s) PROVE CiteInv'
  <2>1. turn'[t] = s /\ \A u \in Turns \ {t} : turn'[u] = turn[u]
    BY <1>1, <1>3
  <2> QED
    BY <1>3, <2>1 DEF CiteInv
<1>4. ASSUME NEW outcome, End(t, outcome) PROVE CiteInv'
  BY <1>3, <1>4, OverCites DEF End
<1>5. CASE Reject(t) \/ TriageRaises(t) \/ LogAnswer(t) \/ EndBackground(t) \/ Leave(t)
  BY <1>4, <1>5 DEF Reject, TriageRaises, LogAnswer, EndBackground, Leave
<1>6. CASE Ask(t)
  <2>1. PICK kind, w : turn' = [turn EXCEPT ![t].pc = "asked", ![t].kind = kind, ![t].worker = w]
    BY <1>6 DEF Ask
  <2> DEFINE s == [turn[t] EXCEPT !.pc = "asked", !.kind = kind, !.worker = w]
  <2>2. turn[t].pc = "unsent"
    BY <1>6 DEF Ask, At
  <2>3. /\ s.pc = "asked" /\ s.candidates = turn[t].candidates /\ s.triage = turn[t].triage
        /\ s.references = turn[t].references /\ s.reply = turn[t].reply
    BY <1>1 DEF Fields
  <2>4. turn' = [turn EXCEPT ![t] = s]
    BY <1>1, <2>1
  <2> HIDE DEF s
  <2>5. Citing(s)
    BY <1>1, <2>2, <2>3, CitesOn
  <2> QED
    BY <1>3, <2>4, <2>5
<1>7. CASE StartPlain(t) \/ StartStream(t) \/ QuestionLogged(t)
  <2>1a. PICK pc \in {"logging", "triage"} : \E tasks :
          turn' = [turn EXCEPT ![t].pc = pc, ![t].tasks = tasks]
    <3>1. CASE StartPlain(t)
      BY <3>1 DEF StartPlain
    <3>2. ASSUME NEW pc, turn' = [turn EXCEPT ![t].pc = pc]
          PROVE  turn' = [turn EXCEPT ![t].pc = pc, ![t].tasks = turn[t].tasks]
      BY <1>1, <3>2 DEF Fields
    <3>3. CASE StartStream(t)
      BY <3>2, <3>3 DEF StartStream, Set
    <3>4. CASE QuestionLogged(t)
      BY <3>2, <3>4 DEF QuestionLogged, Set
    <3> QED
      BY <1>7, <3>1, <3>3, <3>4
  <2>1. PICK tasks :
          turn' = [turn EXCEPT ![t].pc = pc, ![t].tasks = tasks]
    BY <2>1a
  <2> DEFINE s == [turn[t] EXCEPT !.pc = pc, !.tasks = tasks]
  <2>2. turn[t].pc \in {"asked", "logging"}
    BY <1>7 DEF StartPlain, StartStream, QuestionLogged, At
  <2>3. /\ s.pc = pc /\ s.candidates = turn[t].candidates /\ s.triage = turn[t].triage
        /\ s.references = turn[t].references /\ s.reply = turn[t].reply
    BY <1>1 DEF Fields
  <2>4. turn' = [turn EXCEPT ![t] = s]
    BY <1>1, <2>1
  <2> HIDE DEF s
  <2>5. Citing(s)
    BY <1>1, <2>2, <2>3, CitesOn
  <2> QED
    BY <1>3, <2>4, <2>5
<1>8. CASE Triage(t)
  <2>a. PICK reply \in TriageReplies \cup {NoReply} :
          turn' = [turn EXCEPT
            ![t].triage = ParseTriage(reply, HasHistory(t)),
            ![t].pc = CASE ParseTriage(reply, HasHistory(t)).mode = "out_of_domain" -> "finish"
                        [] ParseTriage(reply, HasHistory(t)).mode = "history" -> "generate"
                        [] OTHER -> "search"]
    BY <1>8 DEF Triage
  <2> DEFINE triage == ParseTriage(reply, HasHistory(t))
             pc == CASE triage.mode = "out_of_domain" -> "finish"
                     [] triage.mode = "history" -> "generate"
                     [] OTHER -> "search"
  <2>b. pc \in {"finish", "generate", "search"}
    OBVIOUS
  <2>c. triage.keywords = "some" => triage.mode # "legacy"
    BY TriageModes
  <2>1. turn' = [turn EXCEPT ![t].triage = triage, ![t].pc = pc]
    BY <2>a
  <2> HIDE DEF triage, pc
  <2> DEFINE s == [turn[t] EXCEPT !.triage = triage, !.pc = pc]
  <2>2. turn[t].pc = "triage"
    BY <1>8 DEF Triage, At
  <2>3. turn[t].candidates = << >> /\ turn[t].references = << >> /\ turn[t].reply = NoReply
    BY <1>1, <2>2 DEF Citing
  <2>4. /\ s.pc = pc /\ s.triage = triage /\ s.candidates = turn[t].candidates
        /\ s.references = turn[t].references /\ s.reply = turn[t].reply
    BY <1>1 DEF Fields
  <2>5. turn' = [turn EXCEPT ![t] = s]
    BY <1>1, <2>1
  <2> HIDE DEF s
  <2>6. Citing(s)
    BY <2>3, <2>4, <2>b, <2>c, NothingCited DEF Citing
  <2> QED
    BY <1>3, <2>5, <2>6
<1>9. CASE Search(t)
  <2>1. PICK hits \in Hits :
          turn' = [turn EXCEPT
            ![t].pc = "rerank",
            ![t].candidates = IF hits = << >> /\ FallsBackToLatest(turn[t].triage)
                              THEN Latest ELSE hits]
    BY <1>9 DEF Search
  <2> DEFINE found == IF hits = << >> /\ FallsBackToLatest(turn[t].triage) THEN Latest ELSE hits
             s == [turn[t] EXCEPT !.pc = "rerank", !.candidates = found]
  <2>2. turn[t].pc = "search"
    BY <1>9 DEF Search, At
  <2>3. turn[t].references = << >> /\ turn[t].reply = NoReply
    BY <1>1, <2>2 DEF Citing
  <2>4. found \in Hits \cup {Latest}
    OBVIOUS
  <2>5. turn[t].triage.keywords = "some" => turn[t].triage.mode # "legacy" /\ found \in Hits
    BY <1>1 DEF FallsBackToLatest, Citing
  <2>6. /\ s.pc = "rerank" /\ s.candidates = found /\ s.triage = turn[t].triage
        /\ s.references = turn[t].references /\ s.reply = turn[t].reply
    BY <1>1 DEF Fields
  <2>7. turn' = [turn EXCEPT ![t] = s]
    BY <1>1, <2>1
  <2> HIDE DEF s, found
  <2>8. Citing(s)
    BY <2>3, <2>4, <2>5, <2>6, NothingCited DEF Citing
  <2> QED
    BY <1>3, <2>7, <2>8
<1>10. CASE SearchFails(t)
  <2>1. CASE ~Plain(t)
    BY <1>4, <1>10, <2>1 DEF SearchFails
  <2>2. CASE Plain(t)
    <3> DEFINE s == [turn[t] EXCEPT !.pc = "background", !.outcome = "error"]
    <3>1. turn' = [turn EXCEPT ![t] = s]
      BY <1>1, <1>10, <2>2 DEF SearchFails
    <3>2. turn[t].pc = "search"
      BY <1>10 DEF SearchFails, At
    <3>3. turn[t].candidates = << >> /\ turn[t].references = << >> /\ turn[t].reply = NoReply
      BY <1>1, <3>2 DEF Citing
    <3>4. /\ s.pc = "background" /\ s.triage = turn[t].triage
          /\ s.candidates = turn[t].candidates
          /\ s.references = turn[t].references /\ s.reply = turn[t].reply
      BY <1>1 DEF Fields
    <3> HIDE DEF s
    <3>5. Citing(s)
      BY <1>1, <3>3, <3>4, IdleCites DEF Citing
    <3> QED
      BY <1>3, <3>1, <3>5
  <2> QED
    BY <2>1, <2>2
<1>11. CASE RerankStep(t)
  <2> DEFINE all == turn[t].candidates
             enabled == rag # "off"
  <2>1. PICK reply \in IF NeedsRerank(all, enabled) THEN RerankReplies(RerankItems) ELSE {NoReply} :
          turn' = [turn EXCEPT ![t].pc = "generate", ![t].reply = reply,
                               ![t].references = Rerank(all, reply, enabled)]
    BY <1>11 DEF RerankStep
  <2> DEFINE cited == Rerank(all, reply, enabled)
             s == [turn[t] EXCEPT !.pc = "generate", !.reply = reply, !.references = cited]
  <2>2. Distinct(all)
    BY <1>1, SearchAssumption DEF Citing, Distinct
  <2>3. Chosen(all, reply, cited)
    <3> HIDE DEF all
    <3>1. enabled \in BOOLEAN
      OBVIOUS
    <3> HIDE DEF enabled
    <3> QED
      BY <2>1, <2>2, <3>1, RerankChooses
  <2>4. /\ s.pc = "generate" /\ s.candidates = all /\ s.triage = turn[t].triage
        /\ s.references = cited /\ s.reply = reply
    BY <1>1 DEF Fields
  <2>5. turn' = [turn EXCEPT ![t] = s]
    BY <1>1, <2>1
  <2>a. /\ all \in Hits \cup {Latest}
        /\ turn[t].triage.keywords = "some" => turn[t].triage.mode # "legacy" /\ all \in Hits
    BY <1>1 DEF Citing
  <2> HIDE DEF s, cited, all
  <2>6. Citing(s)
    <3>1. /\ Distinct(s.references) /\ Len(s.references) <= MaxReferences
          /\ ToSet(s.references) \subseteq ToSet(s.candidates)
          /\ Chosen(s.candidates, s.reply, s.references)
      BY <2>3, <2>4 DEF Chosen
    <3> QED
      BY <2>4, <2>a, <3>1 DEF Citing
  <2> QED
    BY <1>3, <2>5, <2>6
<1>12. CASE Generate(t) \/ OpenStream(t)
  <2>1. turn[t].pc = "generate"
    BY <1>12 DEF Generate, OpenStream, At
  <2>2a. PICK pc \in {"finish", "stream"} : \E fallback :
          turn' = [turn EXCEPT ![t].pc = pc, ![t].reply = NoReply, ![t].usedFallback = fallback]
    <3>1. CASE Generate(t)
      BY <3>1 DEF Generate
    <3>2. CASE OpenStream(t)
      <4>1. PICK pc \in {"finish", "stream"} :
              turn' = [turn EXCEPT ![t].pc = pc, ![t].reply = NoReply]
        BY <3>2 DEF OpenStream
      <4>2. turn' = [turn EXCEPT ![t].pc = pc, ![t].reply = NoReply,
                                 ![t].usedFallback = turn[t].usedFallback]
        BY <1>1, <4>1 DEF Fields
      <4> QED
        BY <4>2
    <3> QED
      BY <1>12, <3>1, <3>2
  <2>2. PICK fallback :
          turn' = [turn EXCEPT ![t].pc = pc, ![t].reply = NoReply, ![t].usedFallback = fallback]
    BY <2>2a
  <2> DEFINE s == [turn[t] EXCEPT !.pc = pc, !.reply = NoReply, !.usedFallback = fallback]
  <2>3. /\ s.pc = pc /\ s.candidates = turn[t].candidates /\ s.triage = turn[t].triage
        /\ s.references = turn[t].references /\ s.reply = NoReply
    BY <1>1 DEF Fields
  <2>4. turn' = [turn EXCEPT ![t] = s]
    BY <1>1, <2>2
  <2> HIDE DEF s
  <2>5. Citing(s)
    BY <1>1, <2>1, <2>3 DEF Citing
  <2> QED
    BY <1>3, <2>4, <2>5
<1>13. CASE Deliver(t)
  <2>1. CASE turn' = turn
    BY <1>2, <2>1
  <2>2. CASE turn' # turn
    <3>1. PICK fallback : turn' = [turn EXCEPT ![t].pc = "finish", ![t].usedFallback = fallback]
      BY <1>13, <2>2 DEF Deliver
    <3>2. turn[t].pc = "stream"
      BY <1>13 DEF Deliver, At
    <3> DEFINE s == [turn[t] EXCEPT !.pc = "finish", !.usedFallback = fallback]
    <3>3. /\ s.pc = "finish" /\ s.candidates = turn[t].candidates /\ s.triage = turn[t].triage
          /\ s.references = turn[t].references /\ s.reply = turn[t].reply
      BY <1>1 DEF Fields
    <3>4. turn' = [turn EXCEPT ![t] = s]
      BY <1>1, <3>1
    <3> HIDE DEF s
    <3>5. Citing(s)
      BY <1>1, <3>2, <3>3 DEF Citing
    <3> QED
      BY <1>3, <3>4, <3>5
  <2> QED
    BY <2>1, <2>2
<1>14. CASE Finish(t)
  <2>1a. PICK pc \in {"background", "log"} : \E tasks :
          turn' = [turn EXCEPT ![t].pc = pc,
                               ![t].outcome = "answered", ![t].triage = NoTriage,
                               ![t].candidates = << >>, ![t].references = << >>,
                               ![t].tasks = tasks]
    BY <1>14 DEF Finish
  <2>1. PICK tasks :
          turn' = [turn EXCEPT ![t].pc = pc,
                               ![t].outcome = "answered", ![t].triage = NoTriage,
                               ![t].candidates = << >>, ![t].references = << >>,
                               ![t].tasks = tasks]
    BY <2>1a
  <2> DEFINE s == [turn[t] EXCEPT !.pc = pc,
                               !.outcome = "answered", !.triage = NoTriage,
                               !.candidates = << >>, !.references = << >>,
                               !.tasks = tasks]
  <2>2. turn[t].pc = "finish"
    BY <1>14 DEF Finish, At
  <2>3. turn[t].reply = NoReply
    BY <1>1, <2>2 DEF Citing
  <2>4. /\ s.pc = pc /\ s.candidates = << >> /\ s.references = << >> /\ s.reply = turn[t].reply
        /\ s.triage = NoTriage
    BY <1>1 DEF Fields
  <2>5. turn' = [turn EXCEPT ![t] = s]
    BY <1>1, <2>1
  <2> HIDE DEF s
  <2>6. Citing(s)
    BY <2>3, <2>4, IdleCites DEF NoTriage
  <2> QED
    BY <1>3, <2>5, <2>6
<1>15. CASE RunTask(t)
  <2> DEFINE s == [turn[t] EXCEPT !.tasks = Tail(turn[t].tasks)]
  <2>1. turn' = [turn EXCEPT ![t] = s]
    BY <1>1, <1>15 DEF RunTask
  <2>2. /\ s.pc = turn[t].pc /\ s.candidates = turn[t].candidates /\ s.triage = turn[t].triage
        /\ s.references = turn[t].references /\ s.reply = turn[t].reply
    BY <1>1 DEF Fields
  <2> HIDE DEF s
  <2>3. Citing(s)
    BY <1>1, <2>2, CitesOn
  <2> QED
    BY <1>3, <2>1, <2>3
<1>16. CASE ThreadStep(t)
  BY <1>2, <1>16 DEF ThreadStep, Produce, EndStream
<1> QED
  BY <1>5, <1>6, <1>7, <1>8, <1>9, <1>10, <1>11, <1>12, <1>13, <1>14, <1>15, <1>16
  DEF TurnStep

LEMMA CitingHolds == Spec => []CiteInv
<1>1. Init => CiteInv
  <2> SUFFICES ASSUME Init, NEW t \in Turns PROVE Citing(turn[t])
    BY DEF CiteInv
  <2>1. turn[t] = NotSent
    BY DEF Init
  <2> QED
    BY <2>1, IdleCites DEF NotSent, NoTriage
<1>2. SessionInv /\ CiteInv /\ [Next]_vars => CiteInv'
  <2> SUFFICES ASSUME SessionInv, CiteInv, [Next]_vars PROVE CiteInv'
    OBVIOUS
  <2>1. Shape
    BY DEF SessionInv, TurnInv
  <2>2. CASE turn' = turn
    BY <2>2 DEF CiteInv
  <2>3. CASE \E t \in Turns : Ask(t) \/ TurnStep(t) \/ ThreadStep(t) \/ Leave(t)
    BY <2>1, <2>3, CitingStep
  <2>4. CASE \E w \in Workers : Crash(w)
    <3>1. PICK w \in Workers :
            turn' = [t \in Turns |-> IF turn[t].worker = w /\ ~At(t, "ended")
                                     THEN Over(t, "crashed") ELSE turn[t]]
      BY <2>4 DEF Crash
    <3> QED
      BY <3>1, OverCites DEF CiteInv
  <2>5. (UNCHANGED vars) \/ (\E m \in Messages : (LogStep(m) \/ WriteFails(m)) /\ UNCHANGED chatVars)
          => turn' = turn
    BY DEF vars, chatVars
  <2> QED
    BY <2>2, <2>3, <2>4, <2>5 DEF Next
<1> QED
  BY <1>1, <1>2, SessionHolds, PTL DEF Spec

LEMMA DistinctCounts ==
  ASSUME NEW list, Distinct(list)
  PROVE  Len(list) = Cardinality(ToSet(list))
<1>1. list \in Seq(Notices) /\ Len(list) \in Nat /\ DOMAIN list = 1 .. Len(list)
  BY DEF Distinct
<1>2. ToSet(list) = {list[i] : i \in 1 .. Len(list)}
  BY <1>1 DEF ToSet
<1>3. IsFiniteSet(1 .. Len(list)) /\ Cardinality(1 .. Len(list)) = Len(list)
  BY <1>1, FS_Interval
<1> DEFINE n == Len(list)
           S == ToSet(list)
<1>4. list \in [1 .. n -> S]
  BY <1>1, <1>2
<1>5. \A i, j \in 1 .. n : list[i] = list[j] => i = j
  BY <1>1 DEF Distinct
<1>6. \A x \in S : \E i \in 1 .. n : list[i] = x
  BY <1>2
<1> HIDE DEF S, n
<1>7. list \in Injection(1 .. n, S) /\ list \in Surjection(1 .. n, S)
  BY <1>4, <1>5, <1>6 DEF Injection, Surjection, IsInjective
<1>8. Cardinality(S) = Cardinality(1 .. n)
  <2>1. IsFiniteSet(1 .. n)
    BY <1>3 DEF n
  <2> QED
    BY <1>7, <2>1, FS_Surjection
<1> QED
  BY <1>3, <1>8 DEF n, S

\* A worker counts as initialized, and a message is inserted, only once the table has all
\* its columns, however the migrations of the workers interleave (chat_log.py).
THEOREM InsertsFit == Spec => []InsertsFitTheTable
<1>1. SessionInv => InsertsFitTheTable
  BY DEF SessionInv, LogInv
<1> QED
  BY <1>1, SessionHolds, PTL

\* Within a turn the question's row comes first, and no message has two rows, on both
\* endpoints of api/chat.py, although every row is written by a thread of its own.
THEOREM RowsInOrder == Spec => []QuestionBeforeAnswer
<1>1. SessionInv => QuestionBeforeAnswer
  BY DEF SessionInv, RowsInv
<1> QED
  BY <1>1, SessionHolds, PTL

\* A streamed answer that completes is the whole text the model's stream had, and a fallback
\* exactly if it had none (_aiter_threaded and its reader in chat_service.py).
THEOREM AnswersWhole == Spec => []StreamsAreWhole
<1>1. SessionInv => StreamsAreWhole
  <2> SUFFICES ASSUME SessionInv, NEW t \in Turns,
                      turn[t].outcome = "answered", stream[t].thread # "none"
               PROVE  Whole(t)
    BY DEF StreamsAreWhole, Whole
  <2>1. Streamed(t)
    BY DEF SessionInv, TurnInv
  <2>2. NoStream.thread = "none"
    BY DEF NoStream
  <2> QED
    BY <2>1, <2>2 DEF Streamed
<1> QED
  BY <1>1, SessionHolds, PTL

\* Whatever the model replies, an answer cites the candidates its reply numbers, the best ones
\* if the reply is of no use, and none only if it names none; and a search by keywords cites
\* only what they match (_rerank_candidates, find_relevant_notices).
THEOREM CitationsFollow == Spec => []ReferencesFollowTheReply
<1>1. CiteInv => ReferencesFollowTheReply
  <2> SUFFICES ASSUME CiteInv, NEW t \in Turns
               PROVE  LET cited == turn[t].references
                          all   == turn[t].candidates
                          reply == turn[t].reply
                          named == IF reply.form = "array"
                                   THEN {reply.items[k] : k \in DOMAIN reply.items} ELSE {}
                      IN /\ ToSet(cited) \subseteq ToSet(all)
                         /\ Len(cited) = Cardinality(ToSet(cited))
                         /\ Len(cited) <= MaxReferences
                         /\ At(t, "generate") /\ all # << >> =>
                              (cited = << >> <=> /\ reply.form = "array"
                                                 /\ named \subseteq {OtherType})
                         /\ reply.form = "array" /\ named \cap DOMAIN all # {} =>
                              ToSet(cited) \subseteq {all[n] : n \in named \cap DOMAIN all}
                         /\ turn[t].triage.keywords = "some" => all \in Hits
    BY DEF ReferencesFollowTheReply
  <2> DEFINE r == turn[t]
             named == IF r.reply.form = "array"
                      THEN {r.reply.items[k] : k \in DOMAIN r.reply.items} ELSE {}
  <2>1. Citing(r)
    BY DEF CiteInv
  <2>2. named = Named(r.reply)
    BY DEF Named, ToSet
  <2>3. NoReply.form # "array"
    BY DEF NoReply
  <2>4. Len(r.references) = Cardinality(ToSet(r.references))
    BY <2>1, DistinctCounts DEF Citing
  <2>5. At(t, "generate") => r.pc = "generate"
    BY DEF At
  <2> HIDE DEF r, named
  <2>6. /\ ToSet(r.references) \subseteq ToSet(r.candidates) /\ Len(r.references) <= MaxReferences
        /\ r.triage.keywords = "some" => r.candidates \in Hits
    BY <2>1 DEF Citing
  <2>7. r.pc = "generate" /\ r.candidates # << >> =>
          (r.references = << >> <=> r.reply.form = "array" /\ named \subseteq {OtherType})
    BY <2>1, <2>2 DEF Citing, Chosen
  <2>8. r.reply.form = "array" /\ named \cap DOMAIN r.candidates # {} =>
          ToSet(r.references) \subseteq {r.candidates[n] : n \in named \cap DOMAIN r.candidates}
    BY <2>1, <2>2, <2>3 DEF Citing, Chosen
  <2> QED
    BY <2>4, <2>5, <2>6, <2>7, <2>8 DEF r, named
<1> QED
  BY <1>1, CitingHolds, PTL
=============================================================================
