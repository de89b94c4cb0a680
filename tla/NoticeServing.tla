---------------------------- MODULE NoticeServing ----------------------------
(***************************************************************************)
(* Serving notices: how a worker process picks its repository on the first *)
(* request (app/dependencies.py), how the SQLite and the JSON repository   *)
(* answer (app/sqlite_repository.py, app/repository.py), and what the      *)
(* publish pipeline does to the two files underneath (app/ingest.py).      *)
(*                                                                         *)
(* A published list is named by its number: list n is the n-th list that   *)
(* was renamed to NOTICE_JSON_PATH, and 0 is no list, so "older" is "<".   *)
(* The same number stands for the file's mtime.                            *)
(***************************************************************************)
EXTENDS Naturals, FiniteSets

CONSTANTS
  Worker,       \* uvicorn worker processes
  Request,      \* slots for requests in flight
  NoWorker,     \* the worker of an unused slot
  StartStates,  \* what is on the volume when the containers start
  MaxLists,     \* bound: lists ever published
  MaxFaults     \* bound: killed workers and failed ingests

ASSUME ServingAssumption ==
  /\ NoWorker \notin Worker
  /\ StartStates \subseteq {"current", "json_only", "old_schema",
                            "old_schema_no_json", "empty_volume"}
  /\ MaxLists \in Nat \ {0} /\ MaxFaults \in Nat

VARIABLES
  json,      \* the list at NOTICE_JSON_PATH, 0 when there is none
  db,        \* the file at NOTICE_DB_PATH
  overtaken, \* whether a bootstrap has put an older list over a newer one
  degraded,  \* workers that took an older version's database for want of a list
  repo,      \* the repository lru_cache keeps for each worker
  ready,     \* workers whose SqliteNoticeRepository has _schema_ready set
  cache,     \* JsonNoticeRepository._cache of each worker: mtime and list
  bootlock,  \* the request holding the flock on NOTICE_DB_PATH.lock
  pc,        \* where each request is
  host,      \* the worker that runs it
  using,     \* the repository get_notice_service returned to it
  own,       \* requests whose repository is not the one lru_cache keeps
  seen,      \* what it has read so far: an ingest's list, a connection, a stat
  floor,     \* the newest list in the database when it arrived
  answer,    \* the list it was answered with
  pub,       \* the publish pipeline: "idle", "label", "swap" or "failed"
  pubList,   \* the list its ingest has read
  faults

servingVars == <<json, db, overtaken, degraded, repo, ready, cache, bootlock, pc, host, using, own,
                 seen, floor, answer, pub, pubList, faults>>
fileVars == <<json, db, overtaken, degraded>>
workerVars == <<repo, ready, cache>>
requestVars == <<pc, host, using, own, seen, floor, answer>>
pubVars == <<pub, pubList>>

(***************************************************************************)
(* Database files.  "blank" is what sqlite3.connect creates for a missing  *)
(* path; initialize_schema adds the tables and stamps the current version  *)
(* on whatever rows are there.  Rows of an older version count as no list.  *)
(***************************************************************************)
Missing == [rows |-> "missing", stamp |-> "none", list |-> 0]
Blank == [rows |-> "blank", stamp |-> "none", list |-> 0]
Built(n) == [rows |-> "current", stamp |-> "current", list |-> n]
Outdated == [rows |-> "outdated", stamp |-> "outdated", list |-> 0]

\* sqlite3.connect creates the file it does not find.
Opened(file) == IF file = Missing THEN Blank ELSE file

\* initialize_schema: CREATE TABLE IF NOT EXISTS, then the version row.
Initialized(file) ==
  [file EXCEPT !.rows = IF @ = "blank" THEN "current" ELSE @, !.stamp = "current"]

DbFile == [rows : {"missing", "blank", "current", "outdated"},
           stamp : {"none", "current", "outdated"}, list : 0..MaxLists]

\* Answers: none yet, a NoticeRepositoryError (HTTP 500), or a list.
Answer == [kind : {"none", "error", "list"}, list : 0..MaxLists]
NoAnswer == [kind |-> "none", list |-> 0]
Error500 == [kind |-> "error", list |-> 0]
Listing(n) == [kind |-> "list", list |-> n]

Steps == {"idle", "check", "lock", "recheck", "load", "swap", "connect", "query",
          "stat", "read", "done"}

TypeOK ==
  /\ json \in 0..MaxLists
  /\ db \in DbFile
  /\ overtaken \in BOOLEAN
  /\ degraded \in SUBSET Worker
  /\ repo \in [Worker -> {"none", "sqlite", "json"}]
  /\ ready \in SUBSET Worker
  /\ cache \in [Worker -> [mtime : 0..MaxLists, list : 0..MaxLists]]
  /\ bootlock \in SUBSET Request
  /\ pc \in [Request -> Steps]
  /\ host \in [Request -> Worker \cup {NoWorker}]
  /\ using \in [Request -> {"none", "sqlite", "json"}]
  /\ own \in SUBSET Request
  /\ seen \in [Request -> DbFile]
  /\ floor \in [Request -> 0..MaxLists]
  /\ answer \in [Request -> Answer]
  /\ pub \in {"idle", "label", "swap", "failed"}
  /\ pubList \in 0..MaxLists
  /\ faults \in 0..MaxFaults

Init ==
  /\ \E start \in StartStates :
       /\ json = IF start \in {"empty_volume", "old_schema_no_json"} THEN 0 ELSE 1
       /\ db = CASE start = "current" -> Built(1)
                 [] start \in {"old_schema", "old_schema_no_json"} -> Outdated
                 [] OTHER -> Missing
  /\ overtaken = FALSE /\ degraded = {}
  /\ repo = [w \in Worker |-> "none"]
  /\ ready = {}
  /\ cache = [w \in Worker |-> [mtime |-> 0, list |-> 0]]
  /\ bootlock = {}
  /\ pc = [r \in Request |-> "idle"]
  /\ host = [r \in Request |-> NoWorker]
  /\ using = [r \in Request |-> "none"]
  /\ own = {}
  /\ seen = [r \in Request |-> Missing]
  /\ floor = [r \in Request |-> 0]
  /\ answer = [r \in Request |-> NoAnswer]
  /\ pub = "idle" /\ pubList = 0
  /\ faults = 0

Goto(r, step) == pc' = [pc EXCEPT ![r] = step]
------------------------------------------------------------------------------
(***************************************************************************)
(* A request and the repository it gets                                    *)
(***************************************************************************)

FirstStep(kind) == CASE kind = "none" -> "check" [] kind = "sqlite" -> "connect"
                     [] kind = "json" -> "stat"

Arrive(r, w) ==
  /\ pc[r] = "idle"
  /\ Goto(r, FirstStep(repo[w]))
  /\ host' = [host EXCEPT ![r] = w]
  /\ using' = [using EXCEPT ![r] = repo[w]]
  /\ floor' = [floor EXCEPT ![r] = db.list]
  /\ UNCHANGED <<fileVars, workerVars, bootlock, own, seen, answer, pubVars, faults>>

\* The client has its answer; the slot can be used again.
Finish(r) ==
  /\ pc[r] = "done"
  /\ Goto(r, "idle")
  /\ host' = [host EXCEPT ![r] = NoWorker]
  /\ using' = [using EXCEPT ![r] = "none"]
  /\ own' = own \ {r}
  /\ floor' = [floor EXCEPT ![r] = 0]
  /\ answer' = [answer EXCEPT ![r] = NoAnswer]
  /\ UNCHANGED <<fileVars, workerVars, bootlock, seen, pubVars, faults>>

\* _build_repository returns.  Two first requests of a worker may both be in
\* it: lru_cache keeps the one that returns first, the other request goes on
\* with an object of its own.
Return(r, kind) ==
  /\ using' = [using EXCEPT ![r] = kind]
  /\ repo' = IF repo[host[r]] = "none" THEN [repo EXCEPT ![host[r]] = kind] ELSE repo
  /\ own' = IF repo[host[r]] = "none" THEN own ELSE own \cup {r}
  /\ Goto(r, FirstStep(kind))

\* Faulty variant of SchemaMatches: any database is taken.
SchemaUnchecked == db # Missing

\* _db_schema_matches: a missing file has no version.
SchemaMatches == db.stamp = "current"

\* The checks before the lock: a database of this version, or no list to
\* build one from.  An outdated database without a list is used as it is.
Check(r) ==
  /\ pc[r] = "check"
  /\ \/ SchemaMatches /\ Return(r, "sqlite") /\ UNCHANGED degraded
     \/ /\ ~SchemaMatches /\ json = 0
        /\ Return(r, IF db = Missing THEN "json" ELSE "sqlite")
        /\ degraded' = IF db = Missing THEN degraded ELSE degraded \cup {host[r]}
     \/ ~SchemaMatches /\ json # 0 /\ Goto(r, "lock") /\ UNCHANGED <<using, own, repo, degraded>>
  /\ UNCHANGED <<json, db, overtaken, ready, cache, bootlock, host, seen, floor, answer, pubVars,
                 faults>>

\* _exclusive_lock: a blocking flock.
TakeBootLock(r) ==
  /\ pc[r] = "lock"
  /\ bootlock = {}
  /\ bootlock' = {r}
  /\ Goto(r, "recheck")
  /\ UNCHANGED <<fileVars, workerVars, host, using, own, seen, floor, answer, pubVars, faults>>

\* Under the lock: somebody else has built it meanwhile, or the file goes.
Recheck(r) ==
  /\ pc[r] = "recheck"
  /\ \/ /\ SchemaMatches
        /\ Return(r, "sqlite")
        /\ bootlock' = bootlock \ {r}
        /\ UNCHANGED db
     \/ /\ ~SchemaMatches
        /\ db' = Missing
        /\ Goto(r, "load")
        /\ UNCHANGED <<using, own, repo, bootlock>>
  /\ UNCHANGED <<json, overtaken, degraded, ready, cache, host, seen, floor, answer, pubVars, faults>>

\* ingest_json_snapshot reads the list ...
BootLoad(r) ==
  /\ pc[r] = "load"
  /\ seen' = [seen EXCEPT ![r] = Built(json)]
  /\ Goto(r, "swap")
  /\ UNCHANGED <<fileVars, workerVars, bootlock, host, using, own, floor, answer, pubVars,
                 faults>>

\* ... and renames the database it built from it.
BootSwap(r) ==
  /\ pc[r] = "swap"
  /\ db' = seen[r]
  /\ overtaken' = (overtaken \/ seen[r].list < db.list)
  /\ seen' = [seen EXCEPT ![r] = Missing]
  /\ Return(r, "sqlite")
  /\ bootlock' = bootlock \ {r}
  /\ UNCHANGED <<json, degraded, ready, cache, host, floor, answer, pubVars, faults>>

\* Faulty variant of BootFails: the request goes on with SQLite.
BootFailsToSqlite(r) ==
  /\ pc[r] \in {"load", "swap"}
  /\ faults < MaxFaults /\ faults' = faults + 1
  /\ seen' = [seen EXCEPT ![r] = Missing]
  /\ Return(r, "sqlite")
  /\ bootlock' = bootlock \ {r}
  /\ UNCHANGED <<fileVars, ready, cache, host, floor, answer, pubVars>>

\* Faulty variant of BootFails: the flock is not released.
BootFailsLocked(r) ==
  /\ pc[r] \in {"load", "swap"}
  /\ faults < MaxFaults /\ faults' = faults + 1
  /\ seen' = [seen EXCEPT ![r] = Missing]
  /\ Return(r, "json")
  /\ UNCHANGED <<fileVars, ready, cache, bootlock, host, floor, answer, pubVars>>

\* The ingest raises: the JSON repository instead, for as long as the worker
\* lives.
BootFails(r) ==
  /\ pc[r] \in {"load", "swap"}
  /\ faults < MaxFaults /\ faults' = faults + 1
  /\ seen' = [seen EXCEPT ![r] = Missing]
  /\ Return(r, "json")
  /\ bootlock' = bootlock \ {r}
  /\ UNCHANGED <<fileVars, ready, cache, host, floor, answer, pubVars>>
------------------------------------------------------------------------------
(***************************************************************************)
(* Answers                                                                 *)
(***************************************************************************)

\* SqliteNoticeRepository._connect: the first connection of the object also
\* initializes the schema.  A connection keeps the file it opened when
\* another one is renamed over it.
Connect(r) ==
  LET first == r \in own \/ host[r] \notin ready
      file == IF first THEN Initialized(Opened(db)) ELSE Opened(db)
  IN  /\ pc[r] = "connect"
      /\ db' = file
      /\ seen' = [seen EXCEPT ![r] = file]
      /\ ready' = IF r \in own THEN ready ELSE ready \cup {host[r]}
      /\ Goto(r, "query")
      /\ UNCHANGED <<json, overtaken, degraded, repo, cache, bootlock, host, using, own, floor,
                     answer, pubVars, faults>>

\* The statements of _search, on one connection; without tables they raise.
Query(r) ==
  /\ pc[r] = "query"
  /\ answer' = [answer EXCEPT ![r] = IF seen[r].rows = "blank" THEN Error500
                                     ELSE Listing(seen[r].list)]
  /\ seen' = [seen EXCEPT ![r] = Missing]
  /\ Goto(r, "done")
  /\ UNCHANGED <<fileVars, workerVars, bootlock, host, using, own, floor, pubVars, faults>>

\* JsonNoticeRepository._read_and_normalize: the cached list answers while
\* the file has the cached mtime.
Stat(r) ==
  LET cached == IF r \in own THEN [mtime |-> 0, list |-> 0] ELSE cache[host[r]]
      hit == json # 0 /\ cached.mtime = json
  IN  /\ pc[r] = "stat"
      /\ \/ /\ json = 0 \/ hit
            /\ answer' = [answer EXCEPT ![r] = IF cached.list = 0 THEN Error500
                                               ELSE Listing(cached.list)]
            /\ Goto(r, "done")
            /\ UNCHANGED seen
         \/ /\ json # 0 /\ ~hit
            /\ seen' = [seen EXCEPT ![r] = Built(json)]
            /\ Goto(r, "read")
            /\ UNCHANGED answer
      /\ UNCHANGED <<fileVars, workerVars, bootlock, host, using, own, floor, pubVars, faults>>

\* Faulty variant of Read: the mtime is taken after the list was read.
ReadThenStat(r) ==
  /\ pc[r] = "read"
  /\ answer' = [answer EXCEPT ![r] = Listing(seen[r].list)]
  /\ cache' = IF r \in own THEN cache
              ELSE [cache EXCEPT ![host[r]] = [mtime |-> json, list |-> seen[r].list]]
  /\ seen' = [seen EXCEPT ![r] = Missing]
  /\ Goto(r, "done")
  /\ UNCHANGED <<fileVars, repo, ready, bootlock, host, using, own, floor, pubVars, faults>>

\* The file may have been replaced since the stat: the cache then holds the
\* newer list under the older mtime.
Read(r) ==
  /\ pc[r] = "read"
  /\ answer' = [answer EXCEPT ![r] = Listing(json)]
  /\ cache' = IF r \in own THEN cache
              ELSE [cache EXCEPT ![host[r]] = [mtime |-> seen[r].list, list |-> json]]
  /\ seen' = [seen EXCEPT ![r] = Missing]
  /\ Goto(r, "done")
  /\ UNCHANGED <<fileVars, repo, ready, bootlock, host, using, own, floor, pubVars, faults>>
------------------------------------------------------------------------------
(***************************************************************************)
(* The publish pipeline (SnapshotPublish), as far as readers see it: one   *)
(* publish at a time, the list first and the database some time later.     *)
(***************************************************************************)

PublishList ==
  /\ pub \in {"idle", "failed"}
  /\ json < MaxLists
  /\ json' = json + 1
  /\ pub' = "label"
  /\ UNCHANGED <<db, overtaken, degraded, workerVars, bootlock, requestVars, pubList, faults>>

IngestLoad ==
  /\ pub = "label"
  /\ pubList' = json
  /\ pub' = "swap"
  /\ UNCHANGED <<fileVars, workerVars, bootlock, requestVars, faults>>

IngestSwap ==
  /\ pub = "swap"
  /\ db' = Built(pubList)
  /\ pub' = "idle" /\ pubList' = 0
  /\ UNCHANGED <<json, overtaken, degraded, workerVars, bootlock, requestVars, faults>>

\* Faulty variant of IngestFails: cleaning up removes the database itself.
IngestFailsAndUnlinks ==
  /\ pub \in {"label", "swap"}
  /\ faults < MaxFaults /\ faults' = faults + 1
  /\ pub' = "failed" /\ pubList' = 0
  /\ db' = Missing
  /\ UNCHANGED <<json, overtaken, degraded, workerVars, bootlock, requestVars>>

\* The ingest raises or its process dies.
IngestFails ==
  /\ pub \in {"label", "swap"}
  /\ faults < MaxFaults /\ faults' = faults + 1
  /\ pub' = "failed" /\ pubList' = 0
  /\ UNCHANGED <<fileVars, workerVars, bootlock, requestVars>>
------------------------------------------------------------------------------
\* A worker is killed: its repository and its requests are gone, its flock
\* is released.
CrashWorker(w) ==
  LET lost == {r \in Request : host[r] = w}
      Reset(f, v) == [r \in Request |-> IF r \in lost THEN v ELSE f[r]]
  IN  /\ faults < MaxFaults /\ faults' = faults + 1
      /\ repo[w] # "none" \/ lost # {}
      /\ repo' = [repo EXCEPT ![w] = "none"]
      /\ ready' = ready \ {w}
      /\ cache' = [cache EXCEPT ![w] = [mtime |-> 0, list |-> 0]]
      /\ bootlock' = bootlock \ lost
      /\ pc' = Reset(pc, "idle") /\ host' = Reset(host, NoWorker)
      /\ own' = own \ lost /\ using' = Reset(using, "none") /\ seen' = Reset(seen, Missing)
      /\ floor' = Reset(floor, 0) /\ answer' = Reset(answer, NoAnswer)
      /\ UNCHANGED <<fileVars, pubVars>>

------------------------------------------------------------------------------
Serve(r) ==
  \/ Check(r) \/ TakeBootLock(r) \/ Recheck(r) \/ BootLoad(r) \/ BootSwap(r)
  \/ Connect(r) \/ Query(r) \/ Stat(r) \/ Read(r)

Publish == PublishList \/ IngestLoad \/ IngestSwap \/ IngestFails

Next ==
  \/ \E r \in Request :
       Serve(r) \/ BootFails(r) \/ Finish(r) \/ \E w \in Worker : Arrive(r, w)
  \/ \E w \in Worker : CrashWorker(w)
  \/ Publish

Spec == Init /\ [][Next]_servingVars

(***************************************************************************)
(* Fairness: a thread serving a request goes on.  The boot lock is a kernel*)
(* flock; a waiter that is always passed over would need an endless supply *)
(* of other waiters, and each worker takes the lock a bounded number of    *)
(* times, so weak fairness is enough.                                      *)
(***************************************************************************)
FairSpec == Spec /\ \A r \in Request : WF_servingVars(Serve(r))
------------------------------------------------------------------------------
(***************************************************************************)
(* Properties                                                              *)
(***************************************************************************)

\* Nobody is answered with an empty or broken list while there is a
\* published one: not during a bootstrap that has unlinked the database, a
\* publish, a failed ingest or a restart (dependencies.py:49-61).  Once a
\* worker has taken an older version's database for want of a list, it may
\* be that database, or the empty one its connection makes of the unlinked
\* path, and nothing worse.
AnswersArePublished ==
  [][\A r \in Request :
       pc[r] # "done" /\ pc'[r] = "done" /\ json # 0 =>
         \/ answer'[r] \in {Listing(n) : n \in 1..json}
         \/ degraded # {} /\ answer'[r] = Listing(0)]_servingVars

\* A request that arrives after a list went into the database is never
\* answered with an older one, whichever repository its worker has and
\* whatever was rebuilt or failed, with one exception: a bootstrap, which does
\* not take .crawler.lock, has renamed an older list over a newer one
\* (dependencies.py:50, crawler_scheduler.py:120).
ReadsAreFresh ==
  ~overtaken => \A r \in Request :
    pc[r] = "done" /\ answer[r].kind = "list" => answer[r].list >= floor[r]

\* The JSON cache is never stale for longer than the file: whatever was
\* renamed between the stat and the read, a cached mtime equal to the file's
\* means the cached list is the file's (repository.py:78-116).
CacheIsCoherent ==
  \A w \in Worker : cache[w].mtime = json => cache[w].list = json

\* No connection is made to rows an older version of the code wrote
\* (db.py:6-13), whoever unlinks, rebuilds, stamps or publishes in between,
\* until a worker has found them on a volume without a list: that worker
\* stamps them, and from then on they may be served although a list came.
OutdatedRowsAreRebuilt ==
  degraded = {} => \A r \in Request : pc[r] = "query" => seen[r].rows = "current"

\* Every request is answered, or dies with its worker: nobody waits for the
\* boot lock for ever.
RequestsAreAnswered ==
  \A r \in Request : pc[r] # "idle" ~> pc[r] \in {"idle", "done"}
==============================================================================
