--------------------------- MODULE SnapshotPublish ---------------------------
(***************************************************************************)
(* The crawl-and-publish pipeline: uvicorn workers that each try to run    *)
(* the crawler scheduler (app/crawler_scheduler.py, app/main.py lifespan), *)
(* the one-shot shell script that publishes without them                   *)
(* (scripts/run_incremental_crawl_publish.sh), and the files they share on *)
(* the data volume.                                                        *)
(*                                                                         *)
(* A step is what one process does between two points where another one    *)
(* can be observed: taking a lock, one file-system call that others see,   *)
(* reading a shared file.  The long crawl is one step that reads nothing   *)
(* shared; what it found is any set of notices.                            *)
(***************************************************************************)
EXTENDS Snapshots

CONSTANTS
  Worker,     \* uvicorn worker processes (Dockerfile: --workers 2)
  Script,     \* concurrent runs of run_incremental_crawl_publish.sh
  General,    \* notices that age out; the others are permanent or undated
  TempFile,   \* names mkstemp can return for .{json}.tmp.*
  NoTemp,     \* "this process owns no temp file"
  SlowSteps,  \* the steps at which a process can sit for six hours; a crawl
              \*   that long is enough to ask for, a frozen process may do it
              \*   anywhere
  MaxFaults   \* bound: how often a process is killed, stopped or sees an
              \*   I/O or crawl failure in one behaviour

ASSUME ProcessAssumption ==
  /\ Worker \cap Script = {}
  /\ General \subseteq Notice
  /\ NoTemp \notin TempFile
  /\ MaxFaults \in Nat

Publisher == Worker \cup Script

VARIABLES
  final,     \* the file at NOTICE_JSON_PATH
  db,        \* the notices in the file at NOTICE_DB_PATH
  temp,      \* temp[f]: the temp snapshot named f
  aged,      \* temp snapshots whose mtime is older than 6 hours
  expired,   \* general notices older than CRAWLER_RECENT_NOTICE_DAYS
  lock,      \* the worker holding .crawler.lock, as a set of at most one
  sched,     \* the worker holding .crawler-scheduler.lock, likewise
  pc,        \* where each process is
  draining,  \* workers in lifespan shutdown whose publish thread still runs
  mine,      \* the temp snapshot a publish is working on
  base,      \* existing_posts of a running crawl
  loaded,    \* the snapshot an ingest has read
  faults     \* disruptions so far, see MaxFaults

files == <<final, db, temp, aged>>
vars == <<final, db, temp, aged, expired, lock, sched, pc, draining, mine,
          base, loaded, faults>>

(***************************************************************************)
(* "off": no process, or no script run.  "up": a worker with no publish    *)
(* thread.  The others are the steps of publish_crawler_snapshot in order, *)
(* of which the script has "load" to "discard".                            *)
(***************************************************************************)
ScriptSteps == {"load", "crawl", "validate", "replace", "discard"}
PublishSteps == ScriptSteps \cup {"sweep", "prepare", "label", "ingest", "swap"}
Steps == {"off", "up"} \cup PublishSteps

TypeOK ==
  /\ final \in Content
  /\ db \in Content
  /\ temp \in [TempFile -> Content]
  /\ aged \in SUBSET TempFile
  /\ expired \in SUBSET General
  /\ lock \in SUBSET Worker
  /\ sched \in SUBSET Worker
  /\ pc \in [Publisher -> Steps]
  /\ draining \in SUBSET Worker
  /\ mine \in [Publisher -> TempFile \cup {NoTemp}]
  /\ base \in [Publisher -> SUBSET Notice]
  /\ loaded \in [Worker -> Content]
  /\ faults \in Nat

Init ==
  /\ final \in {Absent} \cup {c \in Content : EnoughRecords(c)}
  /\ db \in {Absent, final}
  /\ temp = [f \in TempFile |-> Absent]
  /\ aged = {}
  /\ expired = {}
  /\ lock = {}
  /\ sched = {}
  /\ pc = [p \in Publisher |-> "off"]
  /\ draining = {}
  /\ mine = [p \in Publisher |-> NoTemp]
  /\ base = [p \in Publisher |-> {}]
  /\ loaded = [w \in Worker |-> Absent]
  /\ faults = 0

Goto(p, step) == pc' = [pc EXCEPT ![p] = step]

Disrupt == faults < MaxFaults /\ faults' = faults + 1

\* mkstemp never returns a name in use; the names are random, so the name of
\* a temp file that was swept under its owner is not handed out again either.
FreshTemp == {f \in TempFile : temp[f] = Absent /\ \A p \in Publisher : mine[p] # f}
------------------------------------------------------------------------------
(***************************************************************************)
(* Worker life cycle                                                       *)
(***************************************************************************)

\* A worker starts: its lifespan creates the scheduler task, which tries the
\* scheduler lock once.  The loser's task returns and never tries again.
StartWorker(w) ==
  /\ pc[w] = "off"
  /\ Goto(w, "up")
  /\ sched' = IF sched = {} THEN {w} ELSE sched
  /\ UNCHANGED <<files, expired, lock, draining, mine, base, loaded, faults>>

\* Faulty variant of StopWorker: shutdown also gives up .crawler.lock.
StopWorkerDropsLock(w) ==
  /\ pc[w] # "off" /\ w \notin draining
  /\ Disrupt
  /\ sched' = sched \ {w}
  /\ lock' = lock \ {w}
  /\ IF pc[w] = "up" THEN Goto(w, "off") /\ UNCHANGED draining
     ELSE draining' = draining \cup {w} /\ UNCHANGED pc
  /\ UNCHANGED <<files, expired, mine, base, loaded>>

\* Graceful shutdown: the scheduler task is cancelled, so its lock goes, but
\* a publish thread started by to_thread runs on and the process waits for it.
StopWorker(w) ==
  /\ pc[w] # "off" /\ w \notin draining
  /\ Disrupt
  /\ sched' = sched \ {w}
  /\ \/ /\ pc[w] = "up"
        /\ Goto(w, "off")
        /\ UNCHANGED draining
     \/ /\ pc[w] # "up"
        /\ draining' = draining \cup {w}
        /\ UNCHANGED pc
  /\ UNCHANGED <<files, expired, lock, mine, base, loaded>>

\* SIGKILL (OOM, container recreate): flocks vanish with the process, files
\* stay.  What was being written is left as it is; nobody reads it again.
Crash(p) ==
  /\ pc[p] # "off"
  /\ Disrupt
  /\ Goto(p, "off")
  /\ lock' = lock \ {p}
  /\ sched' = sched \ {p}
  /\ draining' = draining \ {p}
  /\ mine' = [mine EXCEPT ![p] = NoTemp]
  /\ base' = [base EXCEPT ![p] = {}]
  /\ loaded' = [w \in Worker |-> IF w = p THEN Absent ELSE loaded[w]]
  /\ UNCHANGED <<files, expired>>
------------------------------------------------------------------------------
(***************************************************************************)
(* publish_crawler_snapshot                                                *)
(***************************************************************************)

\* Faulty variant of TakeLock: the lock is not tried before it is taken.
TakeLockUntried(w) ==
  /\ pc[w] = "up" /\ w \in sched
  /\ lock' = {w}
  /\ Goto(w, "sweep")
  /\ UNCHANGED <<files, expired, sched, draining, mine, base, loaded, faults>>

\* _run_once: the publish thread takes .crawler.lock or returns at once.
TakeLock(w) ==
  /\ pc[w] = "up" /\ w \in sched
  /\ lock = {}
  /\ lock' = {w}
  /\ Goto(w, "sweep")
  /\ UNCHANGED <<files, expired, sched, draining, mine, base, loaded, faults>>

\* Faulty variant of Sweep: only the worker's own temp file is looked at.
SweepOwn(w) ==
  /\ pc[w] = "sweep"
  /\ temp' = [f \in TempFile |-> IF f \in aged /\ f = mine[w] THEN Absent ELSE temp[f]]
  /\ aged' = aged \ {mine[w]}
  /\ Goto(w, "prepare")
  /\ UNCHANGED <<final, db, expired, lock, sched, draining, mine, base, loaded, faults>>

\* _remove_stale_temp_snapshots: every temp snapshot past the age limit.
Sweep(w) ==
  /\ pc[w] = "sweep"
  /\ temp' = [f \in TempFile |-> IF f \in aged THEN Absent ELSE temp[f]]
  /\ aged' = {}
  /\ Goto(w, "prepare")
  /\ UNCHANGED <<final, db, expired, lock, sched, draining, mine, base, loaded, faults>>

\* _prepare_temp_snapshot, or the script's mktemp and cp: a fresh temp file
\* holding a copy of the published list, or an empty list.
Prepare(p) ==
  /\ pc[p] = IF p \in Worker THEN "prepare" ELSE "off"
  /\ \E f \in FreshTemp :
       /\ temp' = [temp EXCEPT ![f] = IF final = Absent THEN Json({}) ELSE final]
       /\ mine' = [mine EXCEPT ![p] = f]
  /\ Goto(p, "load")
  /\ UNCHANGED <<final, db, aged, expired, lock, sched, draining, base, loaded, faults>>

\* The copy fails (disk full).  _prepare_temp_snapshot runs before the try
\* block, so the finally clause does not know the file and it stays.
PrepareFails(w) ==
  /\ pc[w] = "prepare"
  /\ Disrupt
  /\ \E f \in FreshTemp : temp' = [temp EXCEPT ![f] = Torn]
  /\ Goto(w, "discard")
  /\ UNCHANGED <<final, db, aged, expired, lock, sched, draining, mine, base, loaded>>

\* load_existing_posts: a missing or unreadable file counts as empty.
LoadExisting(p) ==
  /\ pc[p] = "load"
  /\ base' = [base EXCEPT ![p] = temp[mine[p]].posts]
  /\ Goto(p, "crawl")
  /\ UNCHANGED <<files, expired, lock, sched, draining, mine, loaded, faults>>

\* Faulty variant of Crawl: what is found is not merged into existing posts.
CrawlAfresh(p) ==
  /\ pc[p] = "crawl"
  /\ \E found \in SUBSET Notice : temp' = [temp EXCEPT ![mine[p]] = Json(found \ expired)]
  /\ aged' = aged \ {mine[p]}
  /\ base' = [base EXCEPT ![p] = {}]
  /\ Goto(p, "validate")
  /\ UNCHANGED <<final, db, expired, lock, sched, draining, mine, loaded, faults>>

\* The boards are read, found is merged into the existing posts, stale ones
\* are pruned, and save_json rewrites (or recreates) the temp file.
Crawl(p) ==
  /\ pc[p] = "crawl"
  /\ \E found \in SUBSET Notice :
       temp' = [temp EXCEPT ![mine[p]] = Json((base[p] \cup found) \ expired)]
  /\ aged' = aged \ {mine[p]}
  /\ base' = [base EXCEPT ![p] = {}]
  /\ Goto(p, "validate")
  /\ UNCHANGED <<final, db, expired, lock, sched, draining, mine, loaded, faults>>

\* The crawl raises, before save_json opened the file or inside json.dump.
CrawlFails(p) ==
  /\ pc[p] = "crawl"
  /\ Disrupt
  /\ \/ UNCHANGED <<temp, aged>>
     \/ /\ temp' = [temp EXCEPT ![mine[p]] = Torn]
        /\ aged' = aged \ {mine[p]}
  /\ base' = [base EXCEPT ![p] = {}]
  /\ Goto(p, "discard")
  /\ UNCHANGED <<final, db, expired, lock, sched, draining, mine, loaded>>

\* Faulty variant of Validate: the very first list is published unchecked.
ValidateUnlessFirst(p) ==
  /\ pc[p] = "validate"
  /\ Goto(p, IF final = Absent \/ Publishable(temp[mine[p]], final, expired)
             THEN "replace" ELSE "discard")
  /\ UNCHANGED <<files, expired, lock, sched, draining, mine, base, loaded, faults>>

\* _validate_snapshot, against the list that is published now.
Validate(p) ==
  /\ pc[p] = "validate"
  /\ Goto(p, IF Publishable(temp[mine[p]], final, expired) THEN "replace" ELSE "discard")
  /\ UNCHANGED <<files, expired, lock, sched, draining, mine, base, loaded, faults>>

\* os.replace / mv.  It raises when the temp file was swept meanwhile.  The
\* script ends here; a worker goes on to label and ingest.
Replace(p) ==
  /\ pc[p] = "replace"
  /\ temp[mine[p]] # Absent
  /\ final' = temp[mine[p]]
  /\ temp' = [temp EXCEPT ![mine[p]] = Absent]
  /\ aged' = aged \ {mine[p]}
  /\ mine' = [mine EXCEPT ![p] = NoTemp]
  /\ Goto(p, IF p \in Worker THEN "label" ELSE "off")
  /\ UNCHANGED <<db, expired, lock, sched, draining, base, loaded, faults>>

ReplaceFails(p) ==
  /\ pc[p] = "replace"
  /\ temp[mine[p]] = Absent
  /\ Goto(p, "discard")
  /\ UNCHANGED <<files, expired, lock, sched, draining, mine, base, loaded, faults>>

\* Faulty variant of Label: a labeling failure also skips the ingest.
LabelGatesIngest(w) ==
  /\ pc[w] = "label"
  /\ \E step \in {"ingest", "discard"} : Goto(w, step)
  /\ UNCHANGED <<files, expired, lock, sched, draining, mine, base, loaded, faults>>

\* label_unlabeled_notices, whether it succeeds or raises: it only touches
\* the label files, and the ingest follows either way.
Label(w) ==
  /\ pc[w] = "label"
  /\ Goto(w, "ingest")
  /\ UNCHANGED <<files, expired, lock, sched, draining, mine, base, loaded, faults>>

\* ingest_json_snapshot reads the published file, not the validated copy.
IngestLoad(w) ==
  /\ pc[w] = "ingest"
  /\ final.state = "json"
  /\ loaded' = [loaded EXCEPT ![w] = final]
  /\ Goto(w, "swap")
  /\ UNCHANGED <<files, expired, lock, sched, draining, mine, base, faults>>

\* The new database is complete and replaces the old one.
IngestSwap(w) ==
  /\ pc[w] = "swap"
  /\ db' = loaded[w]
  /\ loaded' = [loaded EXCEPT ![w] = Absent]
  /\ Goto(w, "discard")
  /\ UNCHANGED <<final, temp, aged, expired, lock, sched, draining, mine, base, faults>>

\* The ingest raises: logged, the database file is left alone.
IngestFails(w) ==
  /\ pc[w] \in {"ingest", "swap"}
  /\ Disrupt
  /\ loaded' = [loaded EXCEPT ![w] = Absent]
  /\ Goto(w, "discard")
  /\ UNCHANGED <<files, expired, lock, sched, draining, mine, base>>

\* finally: unlink the temp file if it is still there, then leave the lock;
\* the script's EXIT trap.  A draining worker exits with its thread.
Discard(p) ==
  /\ pc[p] = "discard"
  /\ temp' = [f \in TempFile |-> IF f = mine[p] THEN Absent ELSE temp[f]]
  /\ aged' = aged \ {mine[p]}
  /\ mine' = [mine EXCEPT ![p] = NoTemp]
  /\ lock' = lock \ {p}
  /\ draining' = draining \ {p}
  /\ Goto(p, IF p \in Worker \ draining THEN "up" ELSE "off")
  /\ UNCHANGED <<final, db, expired, sched, base, loaded, faults>>
------------------------------------------------------------------------------
(***************************************************************************)
(* Time passes                                                             *)
(***************************************************************************)

\* A temp file has not been written for STALE_TEMP_SNAPSHOT_MAX_AGE_SECONDS:
\* an orphan, or one whose owner is that slow.
Age(f) ==
  /\ temp[f] # Absent /\ f \notin aged
  /\ \A p \in Publisher : mine[p] = f => pc[p] \in SlowSteps
  /\ aged' = aged \cup {f}
  /\ UNCHANGED <<final, db, temp, expired, lock, sched, pc, draining, mine, base,
                 loaded, faults>>

\* A general notice passes the one-year boundary.
Expire(n) ==
  /\ n \in General \ expired
  /\ expired' = expired \cup {n}
  /\ UNCHANGED <<files, lock, sched, pc, draining, mine, base, loaded, faults>>
------------------------------------------------------------------------------
WorkerStep(w) ==
  \/ TakeLock(w) \/ Sweep(w) \/ PrepareFails(w)
  \/ Label(w) \/ IngestLoad(w) \/ IngestSwap(w) \/ IngestFails(w)
  \/ StartWorker(w) \/ StopWorker(w)

PublisherStep(p) ==
  \/ Prepare(p) \/ LoadExisting(p) \/ Crawl(p) \/ CrawlFails(p)
  \/ Validate(p) \/ Replace(p) \/ ReplaceFails(p) \/ Discard(p)
  \/ Crash(p)

Next ==
  \/ \E w \in Worker : WorkerStep(w)
  \/ \E p \in Publisher : PublisherStep(p)
  \/ \E f \in TempFile : Age(f)
  \/ \E n \in General : Expire(n)

Spec == Init /\ [][Next]_vars

(***************************************************************************)
(* Fairness: the supervisor of uvicorn >= 0.30 restarts a worker that      *)
(* died, the event loop wakes the scheduler after each interval, a running *)
(* thread finishes what it started, and time passes.  Nothing is assumed   *)
(* of the script, of shutdowns or of failures.                             *)
(***************************************************************************)
ThreadStep(w) ==
  \/ TakeLock(w) \/ Sweep(w) \/ Prepare(w) \/ LoadExisting(w) \/ Crawl(w)
  \/ Validate(w) \/ Replace(w) \/ ReplaceFails(w) \/ Label(w)
  \/ IngestLoad(w) \/ IngestSwap(w) \/ Discard(w)

Fairness ==
  /\ \A w \in Worker : WF_vars(StartWorker(w)) /\ WF_vars(ThreadStep(w))
  /\ \A f \in TempFile : WF_vars(Age(f))

FairSpec == Spec /\ Fairness
------------------------------------------------------------------------------
(***************************************************************************)
(* Properties                                                              *)
(***************************************************************************)

Publishing(w) == pc[w] \in PublishSteps

\* At most one worker is anywhere between taking .crawler.lock and leaving
\* it, although a worker in shutdown keeps publishing after it has given the
\* scheduler lock to another one (crawler_scheduler.py:79, main.py:57).
OnePublishAtATime ==
  /\ \A w \in Worker : Publishing(w) => lock = {w}
  /\ \A v, w \in Worker : Publishing(v) /\ Publishing(w) => v = w

OwnsTemp(p) == pc[p] \in {"load", "crawl", "validate", "replace"}

\* However long a scheduler publish takes, no other publish's clean-up
\* removes the temp snapshot it is working on, and no two processes work on
\* the same one (crawler_scheduler.py:84-87).
LiveTempKept ==
  /\ \A w \in Worker : OwnsTemp(w) => temp[mine[w]] # Absent
  /\ \A p, q \in Publisher : p # q /\ mine[p] = mine[q] => mine[p] = NoTemp

\* Whoever publishes, readers of NOTICE_JSON_PATH never find a torn list or
\* one below the record minimum, even when a crawl dies in the middle of
\* its output or its temp file is swept (crawler_scheduler.py:93-99).
PublishedListIsValid == final = Absent \/ EnoughRecords(final)

\* Every publish by the scheduler, in any order of crashes, shutdowns and
\* overlapping workers, keeps each notice that has not aged out, and the
\* database only ever receives the list that is published at that moment.
Store == INSTANCE NoticeStore WITH snapshot <- final, served <- db
StoreSpec == Store!Spec

Orphan(f) == temp[f] # Absent /\ \A p \in Publisher : mine[p] # f

\* A temp snapshot that lost its process is deleted some time after the six
\* hours, by whichever worker runs the scheduler then.
OrphansAreSwept == \A f \in TempFile : Orphan(f) ~> ~Orphan(f)

\* After a crash or a failed ingest has left the database behind the
\* published list, a later publish brings it up to date again.
DatabaseCatchesUp == []<>(db = final)
==============================================================================
