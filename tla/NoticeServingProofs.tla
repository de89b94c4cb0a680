-------------------------- MODULE NoticeServingProofs -------------------------
(***************************************************************************)
(* Proofs about NoticeServing for any number of workers, requests, lists   *)
(* and faults, on every kind of volume: types, the JSON cache, and what    *)
(* requests are answered with.                                             *)
(***************************************************************************)
EXTENDS NoticeServing, TLAPS

-----------------------------------------------------------------------------
(***************************************************************************)
(* Types                                                                   *)
(***************************************************************************)

\* The types of everything but overtaken, whose value no guard depends on.
Typed ==
  /\ json \in 0..MaxLists
  /\ db \in DbFile
  /\ degraded \in SUBSET Worker
  /\ repo \in [Worker -> {"none", "sqlite", "json"}]
  /\ ready \in SUBSET Worker
  /\ cache \in [Worker -> [mtime : 0..MaxLists, list : 0..MaxLists]]
  /\ bootlock \in SUBSET Request
  /\ pc \in [Request -> Steps]
  /\ host \in [Request -> Worker \cup {NoWorker}]
  /\ using \in [Request -> {"none", "sqlite", "json"}]
  /\ own \in SUBSET Request
  /\ seen \in [Request -> DbFile]
  /\ floor \in [Request -> 0..MaxLists]
  /\ answer \in [Request -> Answer]
  /\ pub \in {"idle", "label", "swap", "failed"}
  /\ pubList \in 0..MaxLists
  /\ faults \in 0..MaxFaults

\* A request that is being served is on a worker.
Placed == \A r \in Request : pc[r] # "idle" => host[r] \in Worker

LEMMA Files ==
  /\ Missing \in DbFile /\ Blank \in DbFile /\ Outdated \in DbFile
  /\ \A n \in 0..MaxLists : Built(n) \in DbFile
  /\ \A f \in DbFile : Opened(f) \in DbFile /\ Initialized(f) \in DbFile
  /\ \A f \in DbFile : f.list \in 0..MaxLists
<1> USE DEF DbFile
<1>0. 0 \in 0..MaxLists /\ 1 \in 0..MaxLists
  BY ServingAssumption
<1>1. Missing \in DbFile /\ Blank \in DbFile /\ Outdated \in DbFile
  BY <1>0 DEF Missing, Blank, Outdated
<1>2. \A n \in 0..MaxLists : Built(n) \in DbFile
  BY DEF Built
<1>3. \A f \in DbFile : Opened(f) \in DbFile
  BY <1>1 DEF Opened
<1>4. \A f \in DbFile : Initialized(f) \in DbFile
  BY DEF Initialized
<1> QED
  BY <1>1, <1>2, <1>3, <1>4

LEMMA Answers ==
  /\ NoAnswer \in Answer /\ Error500 \in Answer
  /\ \A n \in 0..MaxLists : Listing(n) \in Answer
<1>1. 0 \in 0..MaxLists
  BY ServingAssumption
<1> QED
  BY <1>1 DEF Answer, NoAnswer, Error500, Listing

LEMMA FirstSteps ==
  /\ FirstStep("none") = "check" /\ FirstStep("sqlite") = "connect" /\ FirstStep("json") = "stat"
BY DEF FirstStep

\* What a step of request r does that may end _build_repository.
Moved(r) ==
  /\ pc' \in [Request -> Steps]
  /\ using' \in [Request -> {"none", "sqlite", "json"}]
  /\ repo' \in [Worker -> {"none", "sqlite", "json"}]
  /\ own' \in SUBSET Request
  /\ \A s \in Request : s # r => pc'[s] = pc[s] /\ using'[s] = using[s]

\* What a request has when _build_repository returns.
LEMMA Returned ==
  ASSUME Typed, NEW r \in Request, NEW kind \in {"sqlite", "json"}, Return(r, kind)
  PROVE  /\ using' = [using EXCEPT ![r] = kind]
         /\ pc' = [pc EXCEPT ![r] = IF kind = "sqlite" THEN "connect" ELSE "stat"]
         /\ Moved(r)
         /\ \A w \in Worker : repo'[w] \in {repo[w], kind}
<1>1. pc' = [pc EXCEPT ![r] = IF kind = "sqlite" THEN "connect" ELSE "stat"]
  BY FirstSteps DEF Return, Goto
<1>2. pc' \in [Request -> Steps]
  BY <1>1 DEF Typed, Steps
<1>3. /\ using' = [using EXCEPT ![r] = kind]
      /\ using' \in [Request -> {"none", "sqlite", "json"}]
      /\ own' \in SUBSET Request
  BY DEF Return, Typed
<1>4. /\ repo' \in [Worker -> {"none", "sqlite", "json"}]
      /\ \A w \in Worker : repo'[w] \in {repo[w], kind}
  BY DEF Return, Typed
<1>5. \A s \in Request : s # r => pc'[s] = pc[s] /\ using'[s] = using[s]
  BY <1>1, <1>3 DEF Typed
<1> QED
  BY <1>1, <1>2, <1>3, <1>4, <1>5 DEF Moved

LEMMA WentTo ==
  ASSUME Typed, NEW r \in Request, NEW step \in Steps, Goto(r, step), UNCHANGED <<using, own, repo>>
  PROVE  Moved(r) /\ pc' = [pc EXCEPT ![r] = step]
BY DEF Goto, Moved, Typed

LEMMA TypedStep ==
  ASSUME Typed, Placed, [Next]_servingVars
  PROVE  Typed' /\ Placed'
<1> USE ServingAssumption
<1>1. ASSUME NEW r \in Request, NEW w \in Worker, Arrive(r, w) PROVE Typed' /\ Placed'
  <2>1. repo[w] \in {"none", "sqlite", "json"} /\ db.list \in 0..MaxLists
    BY Files DEF Typed
  <2>2. FirstStep(repo[w]) \in Steps
    BY <2>1, FirstSteps DEF Steps
  <2>3. /\ pc' = [pc EXCEPT ![r] = FirstStep(repo[w])]
        /\ host' = [host EXCEPT ![r] = w]
        /\ using' = [using EXCEPT ![r] = repo[w]]
        /\ floor' = [floor EXCEPT ![r] = db.list]
        /\ UNCHANGED <<fileVars, workerVars, bootlock, own, seen, answer, pubVars, faults>>
    BY <1>1 DEF Arrive, Goto
  <2> QED
    BY <2>1, <2>2, <2>3 DEF Typed, Placed, fileVars, workerVars, pubVars
<1>2. ASSUME NEW r \in Request, Finish(r) PROVE Typed' /\ Placed'
  BY <1>2, Answers DEF Finish, Goto, Typed, Placed, Steps, fileVars, workerVars, pubVars
<1>3. ASSUME NEW r \in Request, Check(r) PROVE Typed' /\ Placed'
  <2>1. /\ UNCHANGED <<json, db, ready, cache, bootlock, host, seen, floor, answer, pubVars, faults>>
        /\ pc[r] = "check" /\ degraded' \in {degraded, degraded \cup {host[r]}}
        /\ \/ \E kind \in {"sqlite", "json"} : Return(r, kind)
           \/ Goto(r, "lock") /\ UNCHANGED <<using, own, repo>>
    BY <1>3 DEF Check
  <2>2. Moved(r)
    BY <2>1, Returned, WentTo DEF Steps
  <2>3. host[r] \in Worker
    BY <2>1 DEF Placed
  <2>4. degraded' \in SUBSET Worker
    BY <2>1, <2>3 DEF Typed
  <2> QED
    BY <2>1, <2>2, <2>4 DEF Moved, Typed, Placed, pubVars
<1>4. ASSUME NEW r \in Request, TakeBootLock(r) PROVE Typed' /\ Placed'
  BY <1>4 DEF TakeBootLock, Goto, Typed, Placed, Steps, fileVars, workerVars, pubVars
<1>5. ASSUME NEW r \in Request, Recheck(r) PROVE Typed' /\ Placed'
  <2>1. /\ UNCHANGED <<json, degraded, ready, cache, host, seen, floor, answer, pubVars, faults>>
        /\ pc[r] = "recheck"
        /\ db' \in {db, Missing} /\ bootlock' \in {bootlock, bootlock \ {r}}
        /\ \/ Return(r, "sqlite")
           \/ Goto(r, "load") /\ UNCHANGED <<using, own, repo>>
    BY <1>5 DEF Recheck
  <2>2. Moved(r)
    BY <2>1, Returned, WentTo DEF Steps
  <2> QED
    BY <2>1, <2>2, Files DEF Moved, Typed, Placed, pubVars
<1>6. ASSUME NEW r \in Request, BootLoad(r) PROVE Typed' /\ Placed'
  BY <1>6, Files DEF BootLoad, Goto, Typed, Placed, Steps, fileVars, workerVars, pubVars
<1>7. ASSUME NEW r \in Request, BootSwap(r) \/ BootFails(r) PROVE Typed' /\ Placed'
  <2>1. /\ UNCHANGED <<json, degraded, ready, cache, host, floor, answer, pubVars>>
        /\ pc[r] \in {"load", "swap"}
        /\ db' \in {db, seen[r]} /\ seen' = [seen EXCEPT ![r] = Missing]
        /\ bootlock' = bootlock \ {r}
        /\ faults' \in 0..MaxFaults
        /\ \E kind \in {"sqlite", "json"} : Return(r, kind)
    BY <1>7 DEF BootSwap, BootFails, Typed, fileVars
  <2>2. Moved(r)
    BY <2>1, Returned
  <2>3. db' \in DbFile /\ seen' \in [Request -> DbFile] /\ bootlock' \in SUBSET Request
    BY <2>1, Files DEF Typed
  <2>4. Placed'
    BY <2>1, <2>2 DEF Moved, Placed
  <2> QED
    BY <2>1, <2>2, <2>3, <2>4 DEF Moved, Typed, pubVars
<1>8. ASSUME NEW r \in Request, Connect(r) PROVE Typed' /\ Placed'
  <2>1. /\ UNCHANGED <<json, degraded, repo, cache, bootlock, host, using, own, floor, answer, pubVars, faults>>
        /\ pc[r] = "connect" /\ pc' = [pc EXCEPT ![r] = "query"]
        /\ db' \in DbFile /\ seen' = [seen EXCEPT ![r] = db']
        /\ ready' \in {ready, ready \cup {host[r]}}
    BY <1>8, Files DEF Connect, Goto, Typed
  <2>2. host[r] \in Worker
    BY <2>1 DEF Placed
  <2> QED
    BY <2>1, <2>2 DEF Typed, Placed, Steps, pubVars
<1>9. ASSUME NEW r \in Request, Query(r) PROVE Typed' /\ Placed'
  <2>1. seen[r].list \in 0..MaxLists
    BY Files DEF Typed
  <2> QED
    BY <1>9, <2>1, Files, Answers DEF Query, Goto, Typed, Placed, Steps, fileVars, workerVars, pubVars
<1>10. ASSUME NEW r \in Request, Stat(r) PROVE Typed' /\ Placed'
  <2>1. host[r] \in Worker
    BY <1>10 DEF Stat, Placed
  <2>2. cache[host[r]].list \in 0..MaxLists
    BY <2>1 DEF Typed
  <2>3. /\ UNCHANGED <<fileVars, workerVars, bootlock, host, using, own, floor, pubVars, faults>>
        /\ pc[r] = "stat" /\ \E step \in {"done", "read"} : pc' = [pc EXCEPT ![r] = step]
        /\ seen' \in {seen, [seen EXCEPT ![r] = Built(json)]}
        /\ \/ answer' = answer
           \/ \E a \in Answer : answer' = [answer EXCEPT ![r] = a]
    BY <1>10, <2>2, Answers DEF Stat, Goto
  <2>4. seen' \in [Request -> DbFile]
    <3>1. Built(json) \in DbFile /\ seen \in [Request -> DbFile]
      BY Files DEF Typed
    <3> QED
      BY <2>3, <3>1
  <2>5. answer' \in [Request -> Answer]
    BY <2>3 DEF Typed
  <2>6. pc' \in [Request -> Steps] /\ Placed'
    BY <2>1, <2>3 DEF Typed, Placed, Steps
  <2> QED
    BY <2>3, <2>4, <2>5, <2>6 DEF Typed, fileVars, workerVars, pubVars
<1>11. ASSUME NEW r \in Request, Read(r) PROVE Typed' /\ Placed'
  <2>1. seen[r].list \in 0..MaxLists /\ host[r] \in Worker
    BY <1>11, Files DEF Typed, Read, Placed
  <2>2. cache' \in [Worker -> [mtime : 0..MaxLists, list : 0..MaxLists]]
    BY <1>11, <2>1 DEF Read, Typed
  <2> QED
    BY <1>11, <2>2, Files, Answers DEF Read, Goto, Typed, Placed, Steps, fileVars, pubVars
<1>12. CASE Publish
  BY <1>12, Files DEF Publish, PublishList, IngestLoad, IngestSwap, IngestFails, Typed, Placed,
                      fileVars, workerVars, requestVars
<1>13. ASSUME NEW w \in Worker, CrashWorker(w) PROVE Typed' /\ Placed'
  <2>1. /\ repo' = [repo EXCEPT ![w] = "none"] /\ ready' \subseteq ready
        /\ cache' = [cache EXCEPT ![w] = [mtime |-> 0, list |-> 0]]
        /\ bootlock' \subseteq bootlock /\ own' \subseteq own
        /\ pc' = [r \in Request |-> IF host[r] = w THEN "idle" ELSE pc[r]]
        /\ host' = [r \in Request |-> IF host[r] = w THEN NoWorker ELSE host[r]]
        /\ using' = [r \in Request |-> IF host[r] = w THEN "none" ELSE using[r]]
        /\ seen' = [r \in Request |-> IF host[r] = w THEN Missing ELSE seen[r]]
        /\ floor' = [r \in Request |-> IF host[r] = w THEN 0 ELSE floor[r]]
        /\ answer' = [r \in Request |-> IF host[r] = w THEN NoAnswer ELSE answer[r]]
        /\ faults' \in 0..MaxFaults /\ UNCHANGED <<fileVars, pubVars>>
    BY <1>13 DEF CrashWorker, Typed
  <2> QED
    BY <2>1, Files, Answers DEF Typed, Placed, Steps, fileVars, pubVars
<1>14. CASE UNCHANGED servingVars
  BY <1>14 DEF servingVars, Typed, Placed
<1> QED
  BY <1>1, <1>2, <1>3, <1>4, <1>5, <1>6, <1>7, <1>8, <1>9, <1>10, <1>11, <1>12, <1>13, <1>14
     DEF Next, Serve
LEMMA TypedInit == Init => Typed /\ Placed
<1> SUFFICES ASSUME Init PROVE Typed /\ Placed
  OBVIOUS
<1>0. 0 \in 0..MaxLists /\ 1 \in 0..MaxLists /\ 0 \in 0..MaxFaults
  BY ServingAssumption
<1>1. json \in 0..MaxLists /\ db \in DbFile
  BY <1>0, Files DEF Init
<1> QED
  BY <1>0, <1>1, Files, Answers DEF Init, Typed, Placed, Steps

LEMMA OvertakenStep == overtaken \in BOOLEAN /\ [Next]_servingVars => overtaken' \in BOOLEAN
<1> SUFFICES ASSUME overtaken \in BOOLEAN, [Next]_servingVars PROVE overtaken' \in BOOLEAN
  OBVIOUS
<1>1. ASSUME NEW r \in Request, BootSwap(r) PROVE overtaken' \in BOOLEAN
  BY <1>1, Zenon DEF BootSwap
<1>2. ASSUME overtaken' = overtaken PROVE overtaken' \in BOOLEAN
  BY <1>2, Zenon
<1>3. ASSUME NEW r \in Request, ~BootSwap(r), Serve(r) \/ BootFails(r) \/ Finish(r) \/ \E w \in Worker : Arrive(r, w)
      PROVE  overtaken' = overtaken
  BY <1>3 DEF Serve, Check, TakeBootLock, Recheck, BootLoad, BootFails, Connect, Query, Stat, Read,
              Finish, Arrive, fileVars
<1>4. ASSUME Publish \/ UNCHANGED servingVars \/ \E w \in Worker : CrashWorker(w)
      PROVE  overtaken' = overtaken
  BY <1>4 DEF Publish, PublishList, IngestLoad, IngestSwap, IngestFails, CrashWorker, fileVars, servingVars
<1> QED
  BY <1>1, <1>2, <1>3, <1>4 DEF Next

TypeInv == Typed /\ Placed /\ overtaken \in BOOLEAN

\* Whatever the workers, requests, publishes and faults, the variables stay in their
\* types.
THEOREM Typing == Spec => []TypeOK
<1>1. Init => TypeInv
  <2>1. Init => overtaken \in BOOLEAN
    BY Zenon DEF Init
  <2> QED
    BY <2>1, TypedInit DEF TypeInv
<1>2. TypeInv /\ [Next]_servingVars => TypeInv'
  <2> SUFFICES ASSUME TypeInv, [Next]_servingVars PROVE TypeInv'
    OBVIOUS
  <2>1. Typed' /\ Placed'
    BY TypedStep DEF TypeInv
  <2>2. overtaken' \in BOOLEAN
    BY OvertakenStep, Zenon DEF TypeInv
  <2> QED
    BY <2>1, <2>2 DEF TypeInv
<1>3. TypeInv => TypeOK
  BY DEF TypeInv, Typed, TypeOK
<1> QED
  BY <1>1, <1>2, <1>3, PTL DEF Spec

-----------------------------------------------------------------------------
(***************************************************************************)
(* The JSON cache                                                          *)
(***************************************************************************)

\* A cached list is never older than its mtime and never newer than the file; what a
\* request has seen of the file is not newer either.
CacheInv ==
  /\ Typed /\ Placed
  /\ \A w \in Worker : cache[w].mtime <= cache[w].list /\ cache[w].list <= json
  /\ \A r \in Request : pc[r] = "read" => seen[r].list <= json

LEMMA CacheInit == Init => CacheInv
<1> SUFFICES ASSUME Init PROVE CacheInv
  OBVIOUS
<1>1. json \in 0..MaxLists /\ MaxLists \in Nat
  BY TypedInit, ServingAssumption DEF Typed
<1>2. \A w \in Worker : cache[w].mtime = 0 /\ cache[w].list = 0
  BY DEF Init
<1>3. \A r \in Request : pc[r] # "read"
  BY DEF Init
<1> QED
  BY <1>1, <1>2, <1>3, TypedInit DEF CacheInv

LEMMA CacheStep == CacheInv /\ [Next]_servingVars => CacheInv'
<1> SUFFICES ASSUME CacheInv, [Next]_servingVars PROVE CacheInv'
  OBVIOUS
<1>0. /\ Typed /\ Placed /\ Typed' /\ Placed'
      /\ json \in Nat /\ json' \in Nat
      /\ \A r \in Request : seen[r].list \in Nat
      /\ \A w \in Worker : cache[w].mtime \in Nat /\ cache[w].list \in Nat
  <2>1. Typed /\ Placed /\ Typed' /\ Placed'
    BY TypedStep DEF CacheInv
  <2>2. \A n \in 0..MaxLists : n \in Nat
    BY ServingAssumption
  <2>3. json \in Nat /\ json' \in Nat
    BY <2>1, <2>2 DEF Typed
  <2>4. \A r \in Request : seen[r].list \in Nat
    BY <2>1, <2>2, Files DEF Typed
  <2>5. \A w \in Worker : cache[w].mtime \in Nat /\ cache[w].list \in Nat
    BY <2>1, <2>2 DEF Typed
  <2> QED
    BY <2>1, <2>3, <2>4, <2>5
<1>1. ASSUME json <= json', cache' = cache,
             \A s \in Request : pc'[s] = "read" => pc[s] = "read" /\ seen'[s] = seen[s]
      PROVE  CacheInv'
  BY <1>0, <1>1 DEF CacheInv
<1>2. ASSUME NEW r \in Request, Read(r) PROVE CacheInv'
  <2>1. /\ host[r] \in Worker /\ seen[r].list <= json /\ json' = json
        /\ \A w \in Worker : cache'[w] \in {cache[w], [mtime |-> seen[r].list, list |-> json]}
    BY <1>0, <1>2 DEF Read, CacheInv, Placed, Typed, fileVars
  <2>2. \A s \in Request : pc'[s] = "read" => pc[s] = "read" /\ seen'[s] = seen[s]
    BY <1>0, <1>2 DEF Read, Goto, Typed
  <2>3. \A w \in Worker : cache'[w].mtime <= cache'[w].list /\ cache'[w].list <= json'
    BY <1>0, <2>1 DEF CacheInv
  <2> QED
    BY <1>0, <2>1, <2>2, <2>3 DEF CacheInv
<1>3. ASSUME NEW r \in Request, Stat(r) PROVE CacheInv'
  <2>1. /\ json' = json /\ cache' = cache
        /\ \A s \in Request : s # r => pc'[s] = pc[s] /\ seen'[s] = seen[s]
        /\ (pc'[r] = "done") \/ (pc'[r] = "read" /\ seen'[r] = Built(json))
    BY <1>0, <1>3 DEF Stat, Goto, Typed, fileVars, workerVars
  <2>2. Built(json).list = json
    BY DEF Built
  <2> QED
    BY <1>0, <2>1, <2>2 DEF CacheInv
<1>4. ASSUME NEW r \in Request, Check(r) \/ Recheck(r) \/ BootSwap(r) \/ BootFails(r) PROVE CacheInv'
  <2>1. Moved(r) /\ pc'[r] # "read"
    BY <1>0, <1>4, Returned, WentTo DEF Check, Recheck, BootSwap, BootFails, Steps, Typed
  <2>2. json' = json /\ cache' = cache
    BY <1>4 DEF Check, Recheck, BootSwap, BootFails, fileVars
  <2>3. seen' = seen \/ seen' = [seen EXCEPT ![r] = Missing]
    BY <1>4 DEF Check, Recheck, BootSwap, BootFails
  <2>4. \A s \in Request : s # r => seen'[s] = seen[s]
    BY <1>0, <2>3 DEF Typed
  <2> QED
    BY <1>0, <1>1, <2>1, <2>2, <2>4 DEF Moved
<1>5. ASSUME NEW r \in Request, NEW w \in Worker, Arrive(r, w) PROVE CacheInv'
  <2>1. FirstStep(repo[w]) # "read"
    BY <1>0, FirstSteps DEF Typed
  <2> QED
    BY <1>0, <1>1, <1>5, <2>1 DEF Arrive, Goto, Typed, fileVars, workerVars
<1>6. ASSUME NEW r \in Request, Finish(r) \/ TakeBootLock(r) \/ BootLoad(r) \/ Connect(r) \/ Query(r)
      PROVE  CacheInv'
  <2>1. json' = json /\ cache' = cache /\ pc'[r] # "read" /\ \A s \in Request : s # r => pc'[s] = pc[s] /\ seen'[s] = seen[s]
    BY <1>0, <1>6 DEF Finish, TakeBootLock, BootLoad, Connect, Query, Goto, Typed, fileVars, workerVars
  <2> QED
    BY <1>0, <1>1, <2>1
<1>7. CASE Publish
  BY <1>0, <1>1, <1>7 DEF Publish, PublishList, IngestLoad, IngestSwap, IngestFails, fileVars,
                          workerVars, requestVars
<1>8. ASSUME NEW w \in Worker, CrashWorker(w) PROVE CacheInv'
  <2>1. /\ json' = json
        /\ cache' = [cache EXCEPT ![w] = [mtime |-> 0, list |-> 0]]
        /\ \A r \in Request : pc'[r] = "read" => pc[r] = "read" /\ seen'[r] = seen[r]
    BY <1>8 DEF CrashWorker, fileVars
  <2>2. \A v \in Worker : cache'[v].mtime <= cache'[v].list /\ cache'[v].list <= json'
    <3> TAKE v \in Worker
    <3>1. CASE v = w
      <4>1. cache'[v].mtime = 0 /\ cache'[v].list = 0
        BY <1>0, <2>1, <3>1 DEF Typed
      <4> QED
        BY <1>0, <4>1
    <3>2. CASE v # w
      BY <1>0, <2>1, <3>2 DEF Typed, CacheInv
    <3> QED
      BY <3>1, <3>2
  <2> QED
    BY <1>0, <2>1, <2>2 DEF CacheInv
<1>9. CASE UNCHANGED servingVars
  BY <1>0, <1>1, <1>9 DEF servingVars
<1> QED
  BY <1>2, <1>3, <1>4, <1>5, <1>6, <1>7, <1>8, <1>9 DEF Next, Serve

\* A cached mtime that is the file's means the cached list is the file's, however
\* stats, reads and publishes interleave (JsonNoticeRepository._read_and_normalize).
THEOREM CacheCoherent == Spec => []CacheIsCoherent
<1>1. CacheInv => CacheIsCoherent
  <2> SUFFICES ASSUME CacheInv, NEW w \in Worker, cache[w].mtime = json PROVE cache[w].list = json
    BY DEF CacheIsCoherent
  <2>1. json \in 0..MaxLists /\ cache[w].list \in 0..MaxLists
    BY DEF CacheInv, Typed
  <2>2. json <= cache[w].list /\ cache[w].list <= json
    BY DEF CacheInv
  <2> QED
    BY <2>1, <2>2, ServingAssumption
<1> QED
  BY <1>1, CacheInit, CacheStep, PTL DEF Spec

-----------------------------------------------------------------------------
(***************************************************************************)
(* The database and what requests know of it                               *)
(***************************************************************************)

\* A database of another version holds no list; whoever has connected once left one of
\* this version; an ingest publishes the list it has read before the next one can come.
\* As long as no worker has taken an older version's database, one of this version
\* holds rows of this version from a published list, and whoever uses SQLite found it.
DbInv ==
  /\ db.list <= json
  /\ ~SchemaMatches => db.list = 0
  /\ db.rows = "missing" => db = Missing
  /\ SchemaMatches => db.rows \in {"current", "outdated"}
  /\ \A w \in ready : SchemaMatches
  /\ pub = "label" => 1 <= json
  /\ pub = "swap" => 1 <= json /\ pubList = json
  /\ degraded = {} => /\ SchemaMatches => db.rows = "current" /\ 1 <= db.list
                      /\ \A w \in Worker : repo[w] = "sqlite" => SchemaMatches

RequestInv(r) ==
  /\ pc[r] \in {"lock", "recheck", "load", "swap", "read"} => 1 <= json
  /\ pc[r] = "swap" => seen[r] = Built(seen[r].list) /\ 1 <= seen[r].list /\ seen[r].list <= json
  /\ pc[r] = "query" => /\ SchemaMatches
                        /\ seen[r].rows \in {"current", "outdated"} /\ seen[r].list <= json
  /\ floor[r] <= json
  /\ degraded = {} => /\ pc[r] = "connect" => SchemaMatches
                      /\ pc[r] = "query" => seen[r].rows = "current" /\ 1 <= seen[r].list

ServingInv == CacheInv /\ DbInv /\ \A r \in Request : RequestInv(r)

LEMMA Numbers ==
  ASSUME Typed
  PROVE  /\ json \in Nat /\ db.list \in Nat /\ pubList \in Nat /\ MaxLists \in Nat
         /\ \A r \in Request : seen[r].list \in Nat /\ floor[r] \in Nat
         /\ \A w \in Worker : cache[w].mtime \in Nat /\ cache[w].list \in Nat
<1>1. \A n \in 0..MaxLists : n \in Nat
  BY ServingAssumption
<1>2. \A r \in Request : seen[r] \in DbFile /\ floor[r] \in 0..MaxLists
  BY DEF Typed
<1>3. \A w \in Worker : cache[w].mtime \in 0..MaxLists /\ cache[w].list \in 0..MaxLists
  BY DEF Typed
<1> QED
  BY <1>1, <1>2, <1>3, Files, ServingAssumption DEF Typed

LEMMA FileFields ==
  /\ Missing.list = 0 /\ Missing.stamp = "none"
  /\ \A n \in 0..MaxLists : /\ Built(n).list = n /\ Built(n).stamp = "current"
                            /\ Built(n).rows = "current" /\ Built(Built(n).list) = Built(n)
  /\ Outdated.list = 0 /\ Outdated.stamp = "outdated"
  /\ Blank.list = 0 /\ Blank.stamp = "none" /\ Blank.rows = "blank"
BY DEF Missing, Built, Outdated, Blank

LEMMA ServingInit == Init => ServingInv
<1> SUFFICES ASSUME Init PROVE ServingInv
  OBVIOUS
<1>0. 0 \in 0..MaxLists /\ 1 \in 0..MaxLists
  BY ServingAssumption
<1>1. PICK start \in StartStates :
        /\ json = IF start \in {"empty_volume", "old_schema_no_json"} THEN 0 ELSE 1
        /\ db = CASE start = "current" -> Built(1)
                  [] start \in {"old_schema", "old_schema_no_json"} -> Outdated
                  [] OTHER -> Missing
  BY DEF Init
<1>2. start \in {"current", "json_only", "old_schema", "old_schema_no_json", "empty_volume"}
  BY ServingAssumption
<1>3. \/ json = 1 /\ db = Built(1)
      \/ json = 1 /\ db = Outdated
      \/ json = 1 /\ db = Missing
      \/ json = 0 /\ db = Missing
      \/ json = 0 /\ db = Outdated
  BY <1>1, <1>2
<1>4. /\ \A w \in Worker : repo[w] = "none"
      /\ \A r \in Request : pc[r] = "idle" /\ floor[r] = 0
      /\ pub = "idle" /\ ready = {}
  BY DEF Init
<1>5. /\ db.list <= json
      /\ SchemaMatches => db.rows = "current" /\ 1 <= db.list
      /\ ~SchemaMatches => db.list = 0
      /\ db.rows = "missing" => db = Missing
  BY <1>0, <1>3, FileFields DEF SchemaMatches, Missing, Built, Outdated
<1>6. \A r \in Request : 0 <= json
  BY <1>3
<1> QED
  BY <1>4, <1>5, <1>6, CacheInit DEF ServingInv, DbInv, RequestInv

\* A bootstrap renames an older list over a newer one.
Overtakes == \E r \in Request : BootSwap(r) /\ seen[r].list < db.list

\* What every step keeps of the files: the published list grows, a database of this
\* version stays one, and its list grows unless a bootstrap overtakes it.
Grows ==
  /\ json <= json' /\ degraded \subseteq degraded'
  /\ SchemaMatches => SchemaMatches'
  /\ SchemaMatches /\ ~Overtakes => db.list <= db'.list

\* The first connection stamps this version; a later one finds it.
LEMMA Connected ==
  ASSUME ServingInv, NEW r \in Request, Connect(r)
  PROVE  /\ SchemaMatches' /\ db'.list = db.list
         /\ db'.rows \in {"current", "outdated"}
         /\ db.rows = "current" => db'.rows = "current"
<1>1. Typed /\ DbInv
  BY DEF ServingInv, CacheInv
<1>2. /\ db = [rows |-> db.rows, stamp |-> db.stamp, list |-> db.list]
      /\ db.rows \in {"missing", "blank", "current", "outdated"}
  BY <1>1 DEF Typed, DbFile
<1>3. /\ Opened(db).list = db.list /\ Opened(db).rows \in {"blank", "current", "outdated"}
      /\ db.rows = "current" => Opened(db).rows = "current"
      /\ Opened(db) = [rows |-> Opened(db).rows, stamp |-> Opened(db).stamp, list |-> Opened(db).list]
  <2>1. CASE db = Missing
    BY <2>1 DEF Opened, Missing, Blank
  <2>2. CASE db # Missing
    BY <1>1, <1>2, <2>2 DEF Opened, DbInv
  <2> QED
    BY <2>1, <2>2
<1>4. CASE db' = Initialized(Opened(db))
  <2>1. /\ db'.stamp = "current" /\ db'.list = db.list
        /\ db'.rows = IF Opened(db).rows = "blank" THEN "current" ELSE Opened(db).rows
    BY <1>3, <1>4 DEF Initialized
  <2> QED
    BY <1>3, <2>1 DEF SchemaMatches
<1>5. CASE db' = Opened(db) /\ host[r] \in ready
  <2>1. SchemaMatches /\ db.rows \in {"current", "outdated"}
    BY <1>1, <1>5 DEF DbInv
  <2>2. Opened(db) = db
    <3>1. db.stamp = "current"
      BY <2>1 DEF SchemaMatches
    <3> QED
      BY <3>1, FileFields DEF Opened
  <2> QED
    BY <1>5, <2>1, <2>2 DEF SchemaMatches
<1> QED
  BY <1>4, <1>5 DEF Connect

LEMMA DbStep ==
  ASSUME ServingInv, [Next]_servingVars
  PROVE  DbInv' /\ Grows
<1>0. Typed /\ Placed /\ Typed' /\ Placed'
  BY TypedStep DEF ServingInv, CacheInv
<1>n. /\ json \in Nat /\ db.list \in Nat /\ pubList \in Nat /\ MaxLists \in Nat
      /\ \A r \in Request : seen[r].list \in Nat /\ floor[r] \in Nat
  BY <1>0, Numbers
<1>j. json \in 0..MaxLists /\ pubList \in 0..MaxLists /\ \A r \in Request : seen[r].list \in 0..MaxLists
  BY <1>0, Files DEF Typed
<1>d. DbInv
  BY DEF ServingInv
<1>1. ASSUME UNCHANGED <<json, db, pub, pubList>>, degraded \subseteq degraded', ready' \subseteq ready,
             degraded' = {} =>
               \A w \in Worker : repo'[w] = "sqlite" => repo[w] = "sqlite" \/ SchemaMatches
      PROVE  DbInv' /\ Grows
  BY <1>d, <1>n, <1>1 DEF DbInv, Grows, SchemaMatches
\* A step that leaves a database of this version with a published list.
<1>s. ASSUME SchemaMatches', db'.rows = "current", 1 <= db'.list, db'.list <= json', db'.list \in Nat,
             ~Overtakes => db.list <= db'.list, json' = json, degraded' = degraded,
             pub' \in {"idle", pub}, pubList' = pubList \/ pub' = "idle"
      PROVE  DbInv' /\ Grows
  BY <1>d, <1>n, <1>s DEF DbInv, Grows
<1>2. ASSUME NEW r \in Request, Check(r) PROVE DbInv' /\ Grows
  <2>1. UNCHANGED <<json, db, pub, pubList>> /\ degraded \subseteq degraded' /\ ready' = ready
    BY <1>2 DEF Check, pubVars
  <2>2. degraded' = {} => \A w \in Worker : repo'[w] = "sqlite" => repo[w] = "sqlite" \/ SchemaMatches
    <3>1. CASE SchemaMatches
      BY <3>1
    <3>2. CASE ~SchemaMatches /\ json = 0 /\ db = Missing
      <4>1. Return(r, "json")
        BY <1>2, <3>2 DEF Check
      <4> QED
        BY <1>0, <4>1, Returned
    <3>3. CASE ~SchemaMatches /\ json = 0 /\ db # Missing
      <4>1. host[r] \in degraded'
        BY <1>2, <3>3 DEF Check
      <4> QED
        BY <4>1
    <3>4. CASE ~SchemaMatches /\ json # 0
      BY <1>2, <3>4 DEF Check
    <3> QED
      BY <3>1, <3>2, <3>3, <3>4
  <2> QED
    BY <1>1, <2>1, <2>2
<1>3. ASSUME NEW r \in Request, Recheck(r) PROVE DbInv' /\ Grows
  <2>1. UNCHANGED <<json, pub, pubList, degraded, ready>>
    BY <1>3 DEF Recheck, pubVars
  <2>2. CASE SchemaMatches
    BY <1>1, <1>3, <2>1, <2>2 DEF Recheck
  <2>3. CASE ~SchemaMatches
    <3>1. db' = Missing /\ repo' = repo
      BY <1>3, <2>3 DEF Recheck
    <3>2. ~SchemaMatches' /\ db'.list = 0
      BY <3>1, FileFields DEF SchemaMatches
    <3> QED
      BY <1>d, <1>n, <2>1, <2>3, <3>1, <3>2 DEF DbInv, Grows
  <2> QED
    BY <2>2, <2>3
<1>4. ASSUME NEW r \in Request, BootSwap(r) PROVE DbInv' /\ Grows
  <2>1. /\ seen[r] = Built(seen[r].list) /\ 1 <= seen[r].list /\ seen[r].list <= json
        /\ db' = seen[r]
        /\ UNCHANGED <<json, pub, pubList, degraded, ready>>
    BY <1>4 DEF BootSwap, ServingInv, RequestInv, pubVars
  <2>2. SchemaMatches' /\ db'.rows = "current" /\ db'.list = seen[r].list
    BY <1>j, <2>1, FileFields DEF SchemaMatches
  <2>3. ~Overtakes => db.list <= seen[r].list
    BY <1>n, <1>4 DEF Overtakes
  <2> QED
    BY <1>n, <1>s, <2>1, <2>2, <2>3
<1>5. ASSUME NEW r \in Request, BootFails(r) PROVE DbInv' /\ Grows
  <2>1. UNCHANGED <<json, db, pub, pubList, degraded, ready>> /\ Return(r, "json")
    BY <1>5 DEF BootFails, fileVars, pubVars
  <2> QED
    BY <1>0, <1>1, <2>1, Returned
<1>6. ASSUME NEW r \in Request, Connect(r) PROVE DbInv' /\ Grows
  <2>1. UNCHANGED <<json, pub, pubList, repo, degraded>>
    BY <1>6 DEF Connect, pubVars
  <2>2. /\ SchemaMatches' /\ db'.list = db.list
        /\ db'.rows \in {"current", "outdated"}
        /\ db.rows = "current" => db'.rows = "current"
    BY <1>6, Connected
  <2>3. degraded = {} => db.rows = "current" /\ 1 <= db.list
    BY <1>6, <1>d DEF Connect, ServingInv, RequestInv, DbInv
  <2> QED
    BY <1>d, <1>n, <2>1, <2>2, <2>3 DEF DbInv, Grows
<1>7. ASSUME NEW r \in Request,
             \/ TakeBootLock(r) \/ BootLoad(r) \/ Query(r) \/ Stat(r) \/ Read(r) \/ Finish(r)
             \/ \E w \in Worker : Arrive(r, w)
      PROVE  DbInv' /\ Grows
  <2>1. UNCHANGED <<json, db, pub, pubList, repo, degraded, ready>>
    BY <1>7 DEF TakeBootLock, BootLoad, Query, Stat, Read, Finish, Arrive, fileVars, workerVars, pubVars
  <2> QED
    BY <1>1, <2>1
<1>8. CASE PublishList
  <2>1. /\ json' = json + 1 /\ pub' = "label" /\ pub \in {"idle", "failed"}
        /\ UNCHANGED <<db, repo, degraded, ready>>
    BY <1>8 DEF PublishList, workerVars
  <2> QED
    BY <1>d, <1>n, <2>1 DEF DbInv, Grows, SchemaMatches
<1>9. CASE IngestLoad
  BY <1>d, <1>n, <1>9 DEF IngestLoad, DbInv, Grows, SchemaMatches, fileVars, workerVars
<1>10. CASE IngestSwap
  <2>1. /\ db' = Built(json) /\ pub' = "idle" /\ 1 <= json
        /\ UNCHANGED <<json, repo, degraded, ready>>
    BY <1>d, <1>10 DEF IngestSwap, DbInv, workerVars
  <2>2. SchemaMatches' /\ db'.rows = "current" /\ db'.list = json
    BY <1>j, <2>1, FileFields DEF SchemaMatches
  <2>3. db.list <= json
    BY <1>d DEF DbInv
  <2> QED
    BY <1>n, <1>s, <2>1, <2>2, <2>3
<1>11. CASE IngestFails
  BY <1>d, <1>n, <1>11 DEF IngestFails, DbInv, Grows, SchemaMatches, fileVars, workerVars
<1>12. ASSUME NEW w \in Worker, CrashWorker(w) PROVE DbInv' /\ Grows
  <2>1. /\ UNCHANGED <<json, db, pub, pubList, degraded>> /\ repo' = [repo EXCEPT ![w] = "none"]
        /\ ready' \subseteq ready
    BY <1>12 DEF CrashWorker, fileVars, pubVars
  <2>2. \A v \in Worker : repo'[v] = "sqlite" => repo[v] = "sqlite"
    BY <1>0, <2>1 DEF Typed
  <2> QED
    BY <1>1, <2>1, <2>2
<1>13. CASE UNCHANGED servingVars
  BY <1>1, <1>13 DEF servingVars
<1> QED
  BY <1>2, <1>3, <1>4, <1>5, <1>6, <1>7, <1>8, <1>9, <1>10, <1>11, <1>12, <1>13
     DEF Next, Serve, Publish

\* What a request may do by itself.
ActsFor(r) == Serve(r) \/ BootFails(r) \/ Finish(r) \/ \E w \in Worker : Arrive(r, w)

\* A step of one request leaves the others where they are.
LEMMA Elsewhere ==
  ASSUME Typed, NEW r \in Request, NEW s \in Request, s # r, ActsFor(r)
  PROVE  UNCHANGED <<pc[s], seen[s], floor[s], answer[s]>>
<1> USE DEF ActsFor, Serve
<1>1. \E step \in Steps : pc' = [pc EXCEPT ![r] = step]
  <2>1. CASE Check(r) \/ Recheck(r) \/ BootSwap(r) \/ BootFails(r)
    <3>1. (\E kind \in {"sqlite", "json"} : Return(r, kind)) \/ \E step \in Steps : Goto(r, step)
      BY <2>1 DEF Check, Recheck, BootSwap, BootFails, Steps
    <3>2. ASSUME NEW kind \in {"sqlite", "json"}, Return(r, kind)
          PROVE  \E step \in Steps : pc' = [pc EXCEPT ![r] = step]
      BY <3>2, Returned DEF Steps
    <3> QED
      BY <3>1, <3>2 DEF Goto
  <2>2. CASE \/ TakeBootLock(r) \/ BootLoad(r) \/ Connect(r) \/ Query(r) \/ Stat(r) \/ Read(r) \/ Finish(r)
    BY <2>2 DEF TakeBootLock, BootLoad, Connect, Query, Stat, Read, Finish, Goto, Steps
  <2>3. ASSUME NEW w \in Worker, Arrive(r, w) PROVE \E step \in Steps : pc' = [pc EXCEPT ![r] = step]
    <3>1. FirstStep(repo[w]) \in Steps
      BY FirstSteps DEF Typed, Steps
    <3> QED
      BY <2>3, <3>1 DEF Arrive, Goto
  <2> QED
    BY <2>1, <2>2, <2>3
<1>2. seen'[s] = seen[s] /\ floor'[s] = floor[s] /\ answer'[s] = answer[s]
  BY DEF Check, TakeBootLock, Recheck, BootLoad, BootSwap, BootFails, Connect, Query, Stat,
         Read, Finish, Arrive, Typed
<1> QED
  BY <1>1, <1>2 DEF Typed

\* A request that does not move keeps what it knows.
LEMMA Bystander ==
  ASSUME Typed, Typed', NEW s \in Request, RequestInv(s), Grows, UNCHANGED <<pc[s], seen[s], floor[s]>>
  PROVE  RequestInv(s)'
<1>1. json \in Nat /\ json' \in Nat /\ seen[s].list \in Nat /\ floor[s] \in Nat
  <2>1. json \in Nat /\ seen[s].list \in Nat /\ floor[s] \in Nat
    BY Numbers
  <2>2. json' \in 0..MaxLists
    BY DEF Typed
  <2> QED
    BY <2>1, <2>2, ServingAssumption
<1> QED
  BY <1>1 DEF RequestInv, Grows

\* So does one whose step leads where nothing is claimed.
LEMMA Released ==
  ASSUME Typed, Typed', NEW s \in Request, Grows, floor'[s] <= json',
         pc'[s] \in {"idle", "check", "stat", "done"}
  PROVE  RequestInv(s)'
BY DEF RequestInv

LEMMA RequestStep ==
  ASSUME ServingInv, [Next]_servingVars, NEW s \in Request
  PROVE  RequestInv(s)'
<1>0. Typed /\ Placed /\ Typed' /\ Placed'
  BY TypedStep DEF ServingInv, CacheInv
<1>g. DbInv /\ DbInv' /\ Grows
  BY DbStep DEF ServingInv
<1>n. /\ json \in Nat /\ json' \in Nat /\ db.list \in Nat /\ db'.list \in Nat /\ json <= json'
      /\ \A r \in Request : seen[r].list \in Nat /\ floor[r] \in Nat /\ floor[r] <= json /\ floor[r] <= json'
      /\ \A r \in Request : seen[r].list \in 0..MaxLists
  <2>1. json \in Nat /\ db.list \in Nat /\ \A r \in Request : seen[r].list \in Nat /\ floor[r] \in Nat
    BY <1>0, Numbers
  <2>2. json' \in 0..MaxLists /\ db' \in DbFile /\ \A r \in Request : seen[r] \in DbFile
    BY <1>0 DEF Typed
  <2>3. json' \in Nat /\ db'.list \in Nat /\ \A r \in Request : seen[r].list \in 0..MaxLists
    BY <2>2, Files, ServingAssumption
  <2>4. json <= json' /\ \A r \in Request : floor[r] <= json
    BY <1>g DEF Grows, ServingInv, RequestInv
  <2> QED
    BY <2>1, <2>3, <2>4
<1>b. ASSUME UNCHANGED <<pc[s], seen[s], floor[s]>> PROVE RequestInv(s)'
  BY <1>0, <1>g, <1>b, Bystander DEF ServingInv
<1>r. ASSUME floor'[s] \in {floor[s], 0}, pc'[s] \in {"idle", "check", "stat", "done"} PROVE RequestInv(s)'
  BY <1>0, <1>g, <1>n, <1>r, Released
<1>1. ASSUME NEW w \in Worker, Arrive(s, w) PROVE RequestInv(s)'
  <2>1. /\ floor'[s] = db.list /\ json' = json /\ db' = db /\ degraded' = degraded
        /\ repo[w] \in {"none", "sqlite", "json"} /\ pc'[s] = FirstStep(repo[w])
    BY <1>0, <1>1 DEF Arrive, Goto, Typed, fileVars
  <2>2. floor'[s] <= json'
    BY <1>g, <2>1 DEF DbInv
  <2>3. CASE repo[w] = "sqlite"
    <3>1. pc'[s] = "connect" /\ (degraded' = {} => SchemaMatches')
      BY <1>g, <2>1, <2>3, FirstSteps DEF DbInv, SchemaMatches
    <3> QED
      BY <2>2, <3>1 DEF RequestInv
  <2>4. CASE repo[w] \in {"none", "json"}
    BY <1>0, <1>g, <2>1, <2>2, <2>4, FirstSteps, Released
  <2> QED
    BY <2>1, <2>3, <2>4
<1>2. CASE Finish(s)
  BY <1>0, <1>2, <1>r DEF Finish, Goto, Typed
<1>3. ASSUME NEW kind \in {"sqlite", "json"}, Return(s, kind), floor' = floor,
             kind = "sqlite" /\ degraded' = {} => SchemaMatches'
      PROVE  RequestInv(s)'
  <2>1. pc'[s] = IF kind = "sqlite" THEN "connect" ELSE "stat"
    BY <1>0, <1>3, Returned DEF Typed
  <2> QED
    BY <1>n, <1>3, <2>1 DEF RequestInv
<1>4. CASE Check(s)
  <2>1. floor' = floor /\ seen' = seen /\ json' = json /\ db' = db
    BY <1>4 DEF Check
  <2>2. CASE SchemaMatches
    BY <1>3, <1>4, <2>1, <2>2 DEF Check, SchemaMatches
  <2>3. CASE ~SchemaMatches /\ json = 0
    <3>1. CASE db = Missing
      BY <1>3, <1>4, <2>1, <2>3, <3>1 DEF Check
    <3>2. CASE db # Missing
      <4>1. Return(s, "sqlite") /\ degraded' # {}
        BY <1>4, <2>3, <3>2 DEF Check
      <4> QED
        BY <1>3, <2>1, <4>1
    <3> QED
      BY <3>1, <3>2
  <2>4. CASE ~SchemaMatches /\ json # 0
    <3>1. pc'[s] = "lock" /\ 1 <= json'
      BY <1>0, <1>n, <1>4, <2>1, <2>4 DEF Check, Goto, Typed
    <3> QED
      BY <1>n, <2>1, <3>1 DEF RequestInv
  <2> QED
    BY <2>2, <2>3, <2>4
<1>5. CASE TakeBootLock(s)
  <2>1. pc[s] = "lock" /\ pc'[s] = "recheck" /\ json' = json /\ floor' = floor
    BY <1>0, <1>5 DEF TakeBootLock, Goto, Typed, fileVars
  <2>2. 1 <= json
    BY <2>1 DEF ServingInv, RequestInv
  <2> QED
    BY <1>n, <2>1, <2>2 DEF RequestInv
<1>6. CASE Recheck(s)
  <2>1. pc[s] = "recheck" /\ json' = json /\ floor' = floor
    BY <1>6 DEF Recheck
  <2>2. CASE SchemaMatches
    <3>1. SchemaMatches'
      BY <1>g, <2>2 DEF Grows
    <3> QED
      BY <1>3, <1>6, <2>1, <2>2, <3>1 DEF Recheck
  <2>3. CASE ~SchemaMatches
    <3>1. pc'[s] = "load" /\ 1 <= json
      BY <1>0, <1>6, <2>1, <2>3 DEF Recheck, Goto, Typed, ServingInv, RequestInv
    <3> QED
      BY <1>n, <2>1, <3>1 DEF RequestInv
  <2> QED
    BY <2>2, <2>3
<1>7. CASE BootLoad(s)
  <2>1. pc[s] = "load" /\ pc'[s] = "swap" /\ json' = json /\ floor' = floor /\ seen'[s] = Built(json)
    BY <1>0, <1>7 DEF BootLoad, Goto, Typed, fileVars
  <2>2. 1 <= json
    BY <2>1 DEF ServingInv, RequestInv
  <2>3. seen'[s].list = json
    BY <2>1 DEF Built
  <2> QED
    BY <1>n, <2>1, <2>2, <2>3 DEF RequestInv
<1>8. CASE BootSwap(s)
  <2>1. Return(s, "sqlite") /\ floor' = floor /\ db' = seen[s] /\ seen[s] = Built(seen[s].list)
    BY <1>8 DEF BootSwap, ServingInv, RequestInv
  <2>2. SchemaMatches'
    BY <1>n, <2>1, FileFields DEF SchemaMatches
  <2> QED
    BY <1>3, <2>1, <2>2
<1>9. CASE BootFails(s)
  BY <1>3, <1>9 DEF BootFails
<1>10. CASE Connect(s)
  <2>1. pc[s] = "connect" /\ pc'[s] = "query" /\ json' = json /\ floor' = floor /\ seen'[s] = db'
    BY <1>0, <1>10 DEF Connect, Goto, Typed
  <2>2. SchemaMatches' /\ db'.rows \in {"current", "outdated"} /\ db'.list <= json'
    BY <1>10, <1>g, Connected DEF DbInv
  <2>3. degraded' = {} => db'.rows = "current" /\ 1 <= db'.list
    BY <1>g, <2>2 DEF DbInv
  <2> QED
    BY <1>n, <2>1, <2>2, <2>3 DEF RequestInv
<1>11. CASE Query(s)
  BY <1>0, <1>11, <1>r DEF Query, Goto, Typed
<1>12. CASE Stat(s)
  <2>1. json' = json /\ floor' = floor /\ (pc'[s] = "done" \/ (pc'[s] = "read" /\ json # 0))
    BY <1>0, <1>12 DEF Stat, Goto, Typed, fileVars
  <2> QED
    BY <1>n, <1>r, <2>1 DEF RequestInv
<1>13. CASE Read(s)
  BY <1>0, <1>13, <1>r DEF Read, Goto, Typed
<1>14. ASSUME NEW r \in Request, r # s, ActsFor(r) PROVE RequestInv(s)'
  BY <1>0, <1>14, <1>b, Elsewhere
<1>15. CASE Publish
  BY <1>b, <1>15 DEF Publish, PublishList, IngestLoad, IngestSwap, IngestFails, requestVars
<1>16. ASSUME NEW w \in Worker, CrashWorker(w) PROVE RequestInv(s)'
  <2>1. CASE host[s] = w
    <3>1. pc'[s] = "idle" /\ floor'[s] = 0
      BY <1>16, <2>1 DEF CrashWorker
    <3> QED
      BY <1>r, <3>1
  <2>2. CASE host[s] # w
    <3>1. UNCHANGED <<pc[s], seen[s], floor[s]>>
      BY <1>16, <2>2 DEF CrashWorker
    <3> QED
      BY <1>b, <3>1
  <2> QED
    BY <2>1, <2>2
<1>17. CASE UNCHANGED servingVars
  BY <1>17, <1>b DEF servingVars
<1> QED
  BY <1>1, <1>2, <1>4, <1>5, <1>6, <1>7, <1>8, <1>9, <1>10, <1>11, <1>12, <1>13, <1>14, <1>15, <1>16,
     <1>17 DEF Next, Serve, ActsFor

LEMMA ServingStep == ServingInv /\ [Next]_servingVars => ServingInv'
<1> SUFFICES ASSUME ServingInv, [Next]_servingVars PROVE ServingInv'
  OBVIOUS
<1>1. CacheInv'
  BY CacheStep DEF ServingInv
<1>2. DbInv'
  BY DbStep
<1>3. \A s \in Request : RequestInv(s)'
  BY RequestStep
<1> QED
  BY <1>1, <1>2, <1>3 DEF ServingInv

-----------------------------------------------------------------------------
(***************************************************************************)
(* What requests are answered with                                         *)
(***************************************************************************)

LEMMA ServingKept == Spec => []ServingInv
BY ServingInit, ServingStep, PTL DEF Spec

\* The steps that answer are the query, the stat and the read.
LEMMA Answered ==
  ASSUME ServingInv, [Next]_servingVars, NEW r \in Request, pc[r] # "done", pc'[r] = "done"
  PROVE  /\ Query(r) \/ Stat(r) \/ Read(r)
         /\ json' = json /\ floor' = floor
<1>0. Typed
  BY DEF ServingInv, CacheInv
<1>1. ASSUME NEW q \in Request, q # r, ActsFor(q) PROVE pc'[r] = pc[r]
  BY <1>0, <1>1, Elsewhere
<1>2. ASSUME Check(r) \/ Recheck(r) \/ BootSwap(r) \/ BootFails(r) PROVE pc'[r] # "done"
  <2>1. (\E kind \in {"sqlite", "json"} : Return(r, kind)) \/ Goto(r, "lock") \/ Goto(r, "load")
    BY <1>2 DEF Check, Recheck, BootSwap, BootFails
  <2>2. ASSUME NEW kind \in {"sqlite", "json"}, Return(r, kind) PROVE pc'[r] # "done"
    BY <1>0, <2>2, Returned DEF Typed
  <2> QED
    BY <1>0, <2>1, <2>2 DEF Goto, Typed
<1>3. ASSUME TakeBootLock(r) \/ BootLoad(r) \/ Connect(r) \/ Finish(r) PROVE pc'[r] # "done"
  BY <1>0, <1>3 DEF TakeBootLock, BootLoad, Connect, Finish, Goto, Typed
<1>4. ASSUME NEW w \in Worker, Arrive(r, w) PROVE pc'[r] # "done"
  BY <1>0, <1>4, FirstSteps DEF Arrive, Goto, Typed
<1>5. ASSUME Publish \/ UNCHANGED servingVars PROVE pc' = pc
  BY <1>5 DEF Publish, PublishList, IngestLoad, IngestSwap, IngestFails, requestVars, servingVars
<1>6. ASSUME NEW w \in Worker, CrashWorker(w) PROVE pc'[r] \in {"idle", pc[r]}
  BY <1>6 DEF CrashWorker
<1>7. Query(r) \/ Stat(r) \/ Read(r)
  BY <1>1, <1>2, <1>3, <1>4, <1>5, <1>6 DEF Next, Serve, ActsFor
<1> QED
  BY <1>7 DEF Query, Stat, Read, fileVars

\* What such a step answers: the list the connection had, or the one the file has, and
\* a published one unless a worker has taken an older version's database.
LEMMA AnswerGiven ==
  ASSUME ServingInv, NEW r \in Request, Query(r) \/ Stat(r) \/ Read(r), json # 0, pc'[r] = "done"
  PROVE  \E n \in 0..json : /\ answer'[r] = Listing(n)
                            /\ (pc[r] = "query" /\ n = seen[r].list) \/ n = json
                            /\ degraded = {} => 1 <= n
<1>0. /\ Typed /\ Placed
      /\ json \in Nat /\ 1 <= json /\ seen[r].list \in Nat
      /\ \A w \in Worker : cache[w].mtime \in Nat /\ cache[w].list \in Nat
  <2>1. Typed /\ Placed
    BY DEF ServingInv, CacheInv
  <2> QED
    BY <2>1, Numbers
<1>1. CASE Query(r)
  <2>1. /\ pc[r] = "query"
        /\ seen[r].rows # "blank" /\ seen[r].list <= json
        /\ degraded = {} => 1 <= seen[r].list
    BY <1>1 DEF Query, ServingInv, RequestInv
  <2>2. answer'[r] = Listing(seen[r].list)
    BY <1>0, <1>1, <2>1 DEF Query, Typed
  <2>3. seen[r].list \in 0..json
    BY <1>0, <2>1
  <2> QED
    BY <2>1, <2>2, <2>3
<1>2. CASE Stat(r)
  <2>1. pc[r] = "stat" /\ host[r] \in Worker
    BY <1>0, <1>2 DEF Stat, Placed
  <2> DEFINE cached == IF r \in own THEN [mtime |-> 0, list |-> 0] ELSE cache[host[r]]
  <2>2. cached.mtime = json /\ answer' = [answer EXCEPT ![r] = IF cached.list = 0 THEN Error500
                                                              ELSE Listing(cached.list)]
    <3>1. pc'[r] # "done" \/ ~(pc' = [pc EXCEPT ![r] = "read"])
      BY <1>0 DEF Typed
    <3> QED
      BY <1>2, <3>1 DEF Stat, Goto
  <2>3. r \notin own /\ cached = cache[host[r]]
    BY <1>0, <2>2
  <2>4. cached.list = json
    <3>1. cache[host[r]].mtime <= cache[host[r]].list /\ cache[host[r]].list <= json
      BY <2>1 DEF ServingInv, CacheInv
    <3> QED
      BY <1>0, <2>1, <2>2, <2>3, <3>1
  <2>5. answer'[r] = Listing(json) /\ json \in 0..json
    BY <1>0, <2>2, <2>4 DEF Typed
  <2> QED
    BY <1>0, <2>5
<1>3. CASE Read(r)
  <2>1. answer'[r] = Listing(json) /\ json \in 0..json
    BY <1>0, <1>3 DEF Read, Typed
  <2> QED
    BY <1>0, <2>1
<1> QED
  BY <1>1, <1>2, <1>3

\* Whatever bootstraps, publishes, failed ingests and restarts do meanwhile, an answer
\* is a published list while there is one; after a worker has taken an older version's
\* database, it may be that database or an empty one, and never an error
\* (dependencies.py:49-61).
THEOREM Published == Spec => AnswersArePublished
<1> DEFINE Given(r) == \/ answer'[r] \in {Listing(n) : n \in 1..json}
                       \/ degraded # {} /\ answer'[r] = Listing(0)
<1>1. ASSUME ServingInv, [Next]_servingVars, NEW r \in Request, pc[r] # "done", pc'[r] = "done", json # 0
      PROVE  Given(r)
  <2>1. Query(r) \/ Stat(r) \/ Read(r)
    BY <1>1, Answered
  <2>2. PICK n \in 0..json : answer'[r] = Listing(n) /\ (degraded = {} => 1 <= n)
    BY <1>1, <2>1, AnswerGiven
  <2>3. json \in Nat
    BY <1>1, Numbers DEF ServingInv, CacheInv
  <2>4. CASE n = 0
    BY <2>2, <2>4
  <2>5. CASE n # 0
    <3>1. n \in 1..json
      BY <2>3, <2>5
    <3> QED
      BY <2>2, <3>1
  <2> QED
    BY <2>4, <2>5
<1>2. ServingInv /\ [Next]_servingVars
        => [\A r \in Request :
              pc[r] # "done" /\ pc'[r] = "done" /\ json # 0 =>
                \/ answer'[r] \in {Listing(n) : n \in 1..json}
                \/ degraded # {} /\ answer'[r] = Listing(0)]_servingVars
  BY <1>1
<1> QED
  BY <1>2, ServingKept, PTL DEF Spec, AnswersArePublished

\* No connection is made to rows an older version of the code wrote until a worker has
\* found them on a volume without a list, whoever unlinks, rebuilds and stamps the
\* file in between (db.py:6-13).
THEOREM Rebuilt == Spec => []OutdatedRowsAreRebuilt
<1>1. ServingInv => OutdatedRowsAreRebuilt
  BY DEF ServingInv, RequestInv, OutdatedRowsAreRebuilt
<1> QED
  BY <1>1, ServingKept, PTL

-----------------------------------------------------------------------------
(***************************************************************************)
(* Fresh reads                                                             *)
(***************************************************************************)

\* What came into the database before a request arrived is still there, or the
\* request has seen it, as long as no bootstrap has overtaken an ingest.
FreshRows(r) ==
  /\ floor[r] = 0 \/ (SchemaMatches /\ floor[r] <= db.list)
  /\ pc[r] = "query" => floor[r] <= seen[r].list
  /\ pc[r] = "done" /\ answer[r].kind = "list" => floor[r] <= answer[r].list
FreshInv == \A r \in Request : FreshRows(r)

LEMMA FreshStep ==
  ASSUME ServingInv, FreshInv, [Next]_servingVars, ~Overtakes
  PROVE  FreshInv'
<1> SUFFICES ASSUME NEW s \in Request PROVE FreshRows(s)'
  BY DEF FreshInv
<1>0. Typed /\ Placed /\ Typed' /\ DbInv /\ DbInv' /\ Grows /\ FreshRows(s)
  BY TypedStep, DbStep DEF ServingInv, CacheInv, FreshInv
<1>n. /\ json \in Nat /\ db.list \in Nat /\ db'.list \in Nat
      /\ seen[s].list \in Nat /\ floor[s] \in Nat /\ floor'[s] \in Nat
  <2>1. json \in Nat /\ db.list \in Nat /\ seen[s].list \in Nat /\ floor[s] \in Nat
    BY <1>0, Numbers
  <2>2. db' \in DbFile /\ floor'[s] \in 0..MaxLists
    BY <1>0 DEF Typed
  <2> QED
    BY <2>1, <2>2, Files, ServingAssumption
\* The database keeps what it held.
<1>1. ASSUME floor'[s] \in {floor[s], 0} PROVE floor'[s] = 0 \/ (SchemaMatches' /\ floor'[s] <= db'.list)
  BY <1>0, <1>n, <1>1 DEF FreshRows, Grows
<1>2. ASSUME UNCHANGED <<pc[s], seen[s], floor[s], answer[s]>> PROVE FreshRows(s)'
  BY <1>0, <1>1, <1>2 DEF FreshRows
<1>3. ASSUME floor'[s] \in {floor[s], 0}, pc'[s] \notin {"query", "done"} PROVE FreshRows(s)'
  BY <1>1, <1>3 DEF FreshRows
<1>4. ASSUME NEW w \in Worker, Arrive(s, w) PROVE FreshRows(s)'
  <2>1. floor'[s] = db.list /\ db' = db /\ pc'[s] \notin {"query", "done"}
    BY <1>0, <1>4, FirstSteps DEF Arrive, Goto, Typed, fileVars
  <2>2. floor'[s] = 0 \/ (SchemaMatches' /\ floor'[s] <= db'.list)
    BY <1>0, <1>n, <2>1 DEF DbInv, SchemaMatches
  <2> QED
    BY <2>1, <2>2 DEF FreshRows
<1>5. CASE Connect(s)
  <2>1. pc[s] = "connect" /\ pc'[s] = "query" /\ floor'[s] = floor[s] /\ seen'[s] = db'
    BY <1>0, <1>5 DEF Connect, Goto, Typed
  <2>3. floor'[s] <= db'.list
    BY <1>n, <1>1, <2>1
  <2> QED
    BY <1>1, <2>1, <2>3 DEF FreshRows
<1>6. CASE Query(s) \/ Stat(s) \/ Read(s)
  <2>1. floor'[s] = floor[s] /\ pc'[s] \in {"read", "done"}
    BY <1>0, <1>6 DEF Query, Stat, Read, Goto, Typed
  <2>2. CASE pc'[s] = "read"
    BY <1>3, <2>1, <2>2
  <2>3. ASSUME pc'[s] = "done", answer'[s].kind = "list" PROVE floor'[s] <= answer'[s].list
    <3>1. CASE json = 0
      <4>1. floor[s] = 0
        BY <1>n, <3>1 DEF ServingInv, RequestInv
      <4>2. answer'[s].list \in Nat
        <5>1. answer'[s] \in Answer
          BY <1>0 DEF Typed
        <5> QED
          BY <5>1, ServingAssumption DEF Answer
      <4> QED
        BY <2>1, <4>1, <4>2
    <3> SUFFICES ASSUME json # 0 PROVE floor'[s] <= answer'[s].list
      BY <3>1
    <3>2. PICK n \in 0..json : /\ answer'[s] = Listing(n)
                               /\ (pc[s] = "query" /\ n = seen[s].list) \/ n = json
      BY <1>6, <2>3, AnswerGiven
    <3>3. floor[s] <= json /\ (pc[s] = "query" => floor[s] <= seen[s].list)
      BY <1>0 DEF ServingInv, RequestInv, FreshRows
    <3>4. floor[s] <= n
      BY <3>2, <3>3
    <3> QED
      BY <2>1, <3>2, <3>4 DEF Listing
  <2> QED
    BY <1>1, <2>1, <2>2, <2>3 DEF FreshRows
<1>7. CASE Check(s) \/ Recheck(s) \/ BootSwap(s) \/ BootFails(s)
  <2>1. floor' = floor
    BY <1>7 DEF Check, Recheck, BootSwap, BootFails
  <2>2. (\E kind \in {"sqlite", "json"} : Return(s, kind)) \/ Goto(s, "lock") \/ Goto(s, "load")
    BY <1>7 DEF Check, Recheck, BootSwap, BootFails
  <2>3. ASSUME NEW kind \in {"sqlite", "json"}, Return(s, kind) PROVE pc'[s] \notin {"query", "done"}
    BY <1>0, <2>3, Returned DEF Typed
  <2>4. pc'[s] \notin {"query", "done"}
    BY <1>0, <2>2, <2>3 DEF Goto, Typed
  <2> QED
    BY <1>3, <2>1, <2>4
<1>8. CASE TakeBootLock(s) \/ BootLoad(s) \/ Finish(s)
  BY <1>0, <1>3, <1>8 DEF TakeBootLock, BootLoad, Finish, Goto, Typed
<1>9. ASSUME NEW r \in Request, r # s, ActsFor(r) PROVE FreshRows(s)'
  BY <1>0, <1>2, <1>9, Elsewhere
<1>10. CASE Publish \/ UNCHANGED servingVars
  BY <1>2, <1>10 DEF Publish, PublishList, IngestLoad, IngestSwap, IngestFails, requestVars, servingVars
<1>11. ASSUME NEW w \in Worker, CrashWorker(w) PROVE FreshRows(s)'
  <2>1. CASE host[s] = w
    BY <1>3, <1>11, <2>1 DEF CrashWorker
  <2>2. CASE host[s] # w
    BY <1>2, <1>11, <2>2 DEF CrashWorker
  <2> QED
    BY <2>1, <2>2
<1> QED
  BY <1>4, <1>5, <1>6, <1>7, <1>8, <1>9, <1>10, <1>11 DEF Next, ActsFor, Serve

\* Nothing undoes an overtaking, and a bootstrap that overtakes is one.
LEMMA OvertakingStays ==
  ASSUME overtaken \in BOOLEAN, [Next]_servingVars, overtaken \/ Overtakes
  PROVE  overtaken'
<1>1. ASSUME NEW r \in Request, BootSwap(r) PROVE overtaken' = (overtaken \/ seen[r].list < db.list)
  BY <1>1 DEF BootSwap
<1>2. (\E r \in Request : BootSwap(r)) \/ overtaken' = overtaken
  BY DEF Next, Publish, Serve, Check, TakeBootLock, Recheck, BootLoad, BootFails, Connect, Query, Stat, Read,
         Finish, Arrive, CrashWorker, PublishList, IngestLoad, IngestSwap, IngestFails, fileVars, servingVars
<1>3. CASE overtaken
  BY <1>1, <1>2, <1>3, Zenon
<1>4. CASE Overtakes
  BY <1>1, <1>4, Zenon DEF Overtakes
<1> QED
  BY <1>3, <1>4, Zenon

OvertakenOrFresh == overtaken \in BOOLEAN /\ ServingInv /\ (overtaken \/ FreshInv)

\* A request is never answered with a list older than the one the database held when
\* it arrived, unless a bootstrap has overtaken an ingest (dependencies.py:50,
\* crawler_scheduler.py:120).
THEOREM Fresh == Spec => []ReadsAreFresh
<1>1. Init => OvertakenOrFresh
  <2> SUFFICES ASSUME Init PROVE OvertakenOrFresh
    OBVIOUS
  <2>1. overtaken \in BOOLEAN
    BY Zenon DEF Init
  <2>2. FreshInv
    BY DEF Init, FreshInv, FreshRows
  <2> QED
    BY <2>1, <2>2, ServingInit, Zenon DEF OvertakenOrFresh
<1>2. OvertakenOrFresh /\ [Next]_servingVars => OvertakenOrFresh'
  <2> SUFFICES ASSUME OvertakenOrFresh, [Next]_servingVars PROVE OvertakenOrFresh'
    OBVIOUS
  <2>1. overtaken' \in BOOLEAN /\ ServingInv'
    BY OvertakenStep, ServingStep, Zenon DEF OvertakenOrFresh
  <2>2. overtaken' \/ FreshInv'
    BY OvertakingStays, FreshStep, Zenon DEF OvertakenOrFresh
  <2> QED
    BY <2>1, <2>2, Zenon DEF OvertakenOrFresh
<1>3. OvertakenOrFresh => ReadsAreFresh
  <2> SUFFICES ASSUME OvertakenOrFresh, ~overtaken PROVE ReadsAreFresh
    BY Zenon DEF ReadsAreFresh
  <2>1. FreshInv
    BY Zenon DEF OvertakenOrFresh
  <2>2. \A r \in Request : pc[r] = "done" /\ answer[r].kind = "list" => floor[r] <= answer[r].list
    BY <2>1, Zenon DEF FreshInv, FreshRows
  <2> QED
    BY <2>2 DEF ReadsAreFresh
<1> QED
  BY <1>1, <1>2, <1>3, PTL DEF Spec
=============================================================================
