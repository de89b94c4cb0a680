------------------------ MODULE SnapshotPublishProofs ------------------------
(***************************************************************************)
(* Proofs about SnapshotPublish for any number of workers, script runs,    *)
(* notices and disruptions.                                                *)
(***************************************************************************)
EXTENDS SnapshotPublish, TLAPS

\* Every step of Next, named once for the case splits below.
LEMMA NextCases ==
  ASSUME Next
  PROVE  \/ \E w \in Worker :
              \/ StartWorker(w) \/ StopWorker(w) \/ TakeLock(w) \/ Sweep(w)
              \/ PrepareFails(w) \/ Label(w) \/ IngestLoad(w) \/ IngestSwap(w)
              \/ IngestFails(w)
         \/ \E p \in Publisher :
              \/ Crash(p) \/ Prepare(p) \/ LoadExisting(p) \/ Crawl(p)
              \/ CrawlFails(p) \/ Validate(p) \/ Replace(p) \/ ReplaceFails(p)
              \/ Discard(p)
         \/ \E f \in TempFile : Age(f)
         \/ \E n \in General : Expire(n)
  BY DEF Next, WorkerStep, PublisherStep
------------------------------------------------------------------------------
(***************************************************************************)
(* Type correctness, with the facts about temp files it needs: a process   *)
(* names a temp file exactly while it works on one.                        *)
(***************************************************************************)
IdleSteps == {"off", "up", "sweep", "prepare", "label", "ingest", "swap"}

OwnershipInv ==
  /\ \A p \in Publisher : OwnsTemp(p) => mine[p] \in TempFile
  /\ \A p \in Publisher : pc[p] \in IdleSteps => mine[p] = NoTemp
  /\ \A p, q \in Publisher : p # q /\ mine[p] = mine[q] => mine[p] = NoTemp

LEMMA ContentFacts ==
  /\ Absent \in Content /\ Torn \in Content
  /\ \A S \in SUBSET Notice : Json(S) \in Content
  /\ \A c \in Content : c.posts \in SUBSET Notice
  /\ \A c \in Content : c.state = "json" => c = Json(c.posts)
  /\ \A S : Json(S).posts = S /\ Json(S).state = "json" /\ Json(S) # Absent
  /\ Torn # Absent /\ Absent.posts = {} /\ Absent.state # "json"
  /\ Torn.posts = {} /\ Torn.state # "json"
<1>1. Absent \in Content /\ Torn \in Content
  BY DEF Content
<1>2. \A S \in SUBSET Notice : Json(S) \in Content
  BY DEF Content
<1>3. \A S : Json(S).posts = S /\ Json(S).state = "json" /\ Json(S) # Absent
  BY DEF Json, Absent
<1>4. /\ Torn # Absent /\ Absent.posts = {} /\ Absent.state # "json"
      /\ Torn.posts = {} /\ Torn.state # "json"
  BY DEF Absent, Torn
<1>5. ASSUME NEW c \in Content
      PROVE  c.posts \in SUBSET Notice /\ (c.state = "json" => c = Json(c.posts))
  <2>1. CASE c \in {Absent, Torn}
    BY <2>1, <1>4
  <2>2. CASE \E S \in SUBSET Notice : c = Json(S)
    BY <2>2, <1>3
  <2> QED
    BY <2>1, <2>2 DEF Content
<1> QED
  BY <1>1, <1>2, <1>3, <1>4, <1>5

LEMMA TypeAndOwnershipInit == Init => TypeOK /\ OwnershipInv
<1> SUFFICES ASSUME Init PROVE TypeOK /\ OwnershipInv
  OBVIOUS
<1> USE ProcessAssumption DEF Init
<1>1. TypeOK
  BY ContentFacts DEF TypeOK, Publisher, Steps
<1>2. OwnershipInv
  BY DEF OwnershipInv, OwnsTemp
<1> QED
  BY <1>1, <1>2

LEMMA TypeStep == TypeOK /\ OwnershipInv /\ [Next]_vars => TypeOK'
<1> SUFFICES ASSUME TypeOK, OwnershipInv, [Next]_vars PROVE TypeOK'
  OBVIOUS
<1> USE ProcessAssumption, ContentFacts
      DEF TypeOK, files, Goto, Disrupt, Publisher, Steps, PublishSteps, ScriptSteps
<1>1. ASSUME NEW w \in Worker, StartWorker(w) PROVE TypeOK'
  BY <1>1 DEF StartWorker
<1>2. ASSUME NEW w \in Worker, StopWorker(w) PROVE TypeOK'
  BY <1>2 DEF StopWorker
<1>3. ASSUME NEW w \in Worker, TakeLock(w) PROVE TypeOK'
  BY <1>3 DEF TakeLock
<1>4. ASSUME NEW w \in Worker, Sweep(w) PROVE TypeOK'
  BY <1>4 DEF Sweep
<1>5. ASSUME NEW w \in Worker, PrepareFails(w) PROVE TypeOK'
  BY <1>5 DEF PrepareFails, FreshTemp
<1>6. ASSUME NEW w \in Worker, Label(w) PROVE TypeOK'
  BY <1>6 DEF Label
<1>7. ASSUME NEW w \in Worker, IngestLoad(w) PROVE TypeOK'
  BY <1>7 DEF IngestLoad
<1>8. ASSUME NEW w \in Worker, IngestSwap(w) PROVE TypeOK'
  BY <1>8 DEF IngestSwap
<1>9. ASSUME NEW w \in Worker, IngestFails(w) PROVE TypeOK'
  BY <1>9 DEF IngestFails
<1>10. ASSUME NEW p \in Publisher, Crash(p) PROVE TypeOK'
  BY <1>10 DEF Crash
<1>11. ASSUME NEW p \in Publisher, Prepare(p) PROVE TypeOK'
  BY <1>11 DEF Prepare, FreshTemp
<1>12. ASSUME NEW p \in Publisher, LoadExisting(p) PROVE TypeOK'
  <2>1. mine[p] \in TempFile
    BY <1>12 DEF LoadExisting, OwnershipInv, OwnsTemp
  <2> QED
    BY <1>12, <2>1 DEF LoadExisting
<1>13. ASSUME NEW p \in Publisher, Crawl(p) PROVE TypeOK'
  <2>1. PICK found \in SUBSET Notice :
          temp' = [temp EXCEPT ![mine[p]] = Json((base[p] \cup found) \ expired)]
    BY <1>13 DEF Crawl
  <2>2. temp' \in [TempFile -> Content]
    BY <2>1
  <2> QED
    BY <1>13, <2>2 DEF Crawl
<1>14. ASSUME NEW p \in Publisher, CrawlFails(p) PROVE TypeOK'
  BY <1>14 DEF CrawlFails
<1>15. ASSUME NEW p \in Publisher, Validate(p) PROVE TypeOK'
  BY <1>15 DEF Validate
<1>16. ASSUME NEW p \in Publisher, Replace(p) PROVE TypeOK'
  <2>1. mine[p] \in TempFile
    BY <1>16 DEF Replace, OwnershipInv, OwnsTemp
  <2> QED
    BY <1>16, <2>1 DEF Replace
<1>17. ASSUME NEW p \in Publisher, ReplaceFails(p) PROVE TypeOK'
  BY <1>17 DEF ReplaceFails
<1>18. ASSUME NEW p \in Publisher, Discard(p) PROVE TypeOK'
  BY <1>18 DEF Discard
<1>19. ASSUME NEW f \in TempFile, Age(f) PROVE TypeOK'
  BY <1>19 DEF Age
<1>20. ASSUME NEW n \in General, Expire(n) PROVE TypeOK'
  BY <1>20 DEF Expire
<1>21. CASE UNCHANGED vars
  BY <1>21 DEF vars
<1> QED
  BY <1>1, <1>2, <1>3, <1>4, <1>5, <1>6, <1>7, <1>8, <1>9, <1>10, <1>11, <1>12,
     <1>13, <1>14, <1>15, <1>16, <1>17, <1>18, <1>19, <1>20, <1>21, NextCases

LEMMA OwnershipStep == TypeOK /\ OwnershipInv /\ [Next]_vars => OwnershipInv'
<1> SUFFICES ASSUME TypeOK, OwnershipInv, [Next]_vars PROVE OwnershipInv'
  OBVIOUS
<1> USE ProcessAssumption
      DEF TypeOK, OwnershipInv, OwnsTemp, IdleSteps, files, Goto, Publisher
<1>1. ASSUME NEW w \in Worker, StartWorker(w) PROVE OwnershipInv'
  BY <1>1 DEF StartWorker
<1>2. ASSUME NEW w \in Worker, StopWorker(w) PROVE OwnershipInv'
  BY <1>2 DEF StopWorker
<1>3. ASSUME NEW w \in Worker, TakeLock(w) PROVE OwnershipInv'
  BY <1>3 DEF TakeLock
<1>4. ASSUME NEW w \in Worker, Sweep(w) PROVE OwnershipInv'
  BY <1>4 DEF Sweep
<1>5. ASSUME NEW w \in Worker, PrepareFails(w) PROVE OwnershipInv'
  BY <1>5 DEF PrepareFails
<1>6. ASSUME NEW w \in Worker, Label(w) PROVE OwnershipInv'
  BY <1>6 DEF Label
<1>7. ASSUME NEW w \in Worker, IngestLoad(w) PROVE OwnershipInv'
  BY <1>7 DEF IngestLoad
<1>8. ASSUME NEW w \in Worker, IngestSwap(w) PROVE OwnershipInv'
  BY <1>8 DEF IngestSwap
<1>9. ASSUME NEW w \in Worker, IngestFails(w) PROVE OwnershipInv'
  BY <1>9 DEF IngestFails
<1>10. ASSUME NEW p \in Publisher, Crash(p) PROVE OwnershipInv'
  BY <1>10 DEF Crash
<1>11. ASSUME NEW p \in Publisher, Prepare(p) PROVE OwnershipInv'
  BY <1>11 DEF Prepare, FreshTemp
<1>12. ASSUME NEW p \in Publisher, LoadExisting(p) PROVE OwnershipInv'
  BY <1>12 DEF LoadExisting
<1>13. ASSUME NEW p \in Publisher, Crawl(p) PROVE OwnershipInv'
  BY <1>13 DEF Crawl
<1>14. ASSUME NEW p \in Publisher, CrawlFails(p) PROVE OwnershipInv'
  BY <1>14 DEF CrawlFails
<1>15. ASSUME NEW p \in Publisher, Validate(p) PROVE OwnershipInv'
  BY <1>15 DEF Validate
<1>16. ASSUME NEW p \in Publisher, Replace(p) PROVE OwnershipInv'
  BY <1>16 DEF Replace
<1>17. ASSUME NEW p \in Publisher, ReplaceFails(p) PROVE OwnershipInv'
  BY <1>17 DEF ReplaceFails
<1>18. ASSUME NEW p \in Publisher, Discard(p) PROVE OwnershipInv'
  BY <1>18 DEF Discard
<1>19. ASSUME NEW f \in TempFile, Age(f) PROVE OwnershipInv'
  BY <1>19 DEF Age
<1>20. ASSUME NEW n \in General, Expire(n) PROVE OwnershipInv'
  BY <1>20 DEF Expire
<1>21. CASE UNCHANGED vars
  BY <1>21 DEF vars
<1> QED
  BY <1>1, <1>2, <1>3, <1>4, <1>5, <1>6, <1>7, <1>8, <1>9, <1>10, <1>11, <1>12,
     <1>13, <1>14, <1>15, <1>16, <1>17, <1>18, <1>19, <1>20, <1>21, NextCases

\* Every variable stays in its type, and a process names a temp snapshot
\* exactly while it works on one, never the same one as another process
\* (crawler_scheduler.py:184-198).
THEOREM Typing == Spec => [](TypeOK /\ OwnershipInv)
<1>1. TypeOK /\ OwnershipInv /\ [Next]_vars => (TypeOK /\ OwnershipInv)'
  BY TypeStep, OwnershipStep
<1> QED
  BY TypeAndOwnershipInit, <1>1, PTL DEF Spec
------------------------------------------------------------------------------
(***************************************************************************)
(* .crawler.lock                                                           *)
(***************************************************************************)
LockInv == \A w \in Worker : Publishing(w) => lock = {w}

LEMMA LockStep == TypeOK /\ LockInv /\ [Next]_vars => LockInv'
<1> SUFFICES ASSUME TypeOK, LockInv, [Next]_vars PROVE LockInv'
  OBVIOUS
<1> USE ProcessAssumption
      DEF TypeOK, LockInv, Publishing, PublishSteps, ScriptSteps, files, Goto, Publisher
<1>1. ASSUME NEW w \in Worker, StartWorker(w) PROVE LockInv'
  BY <1>1 DEF StartWorker
<1>2. ASSUME NEW w \in Worker, StopWorker(w) PROVE LockInv'
  BY <1>2 DEF StopWorker
<1>3. ASSUME NEW w \in Worker, TakeLock(w) PROVE LockInv'
  BY <1>3 DEF TakeLock
<1>4. ASSUME NEW w \in Worker,
             Sweep(w) \/ PrepareFails(w) \/ Label(w) \/ IngestLoad(w)
               \/ IngestSwap(w) \/ IngestFails(w)
      PROVE  LockInv'
  BY <1>4 DEF Sweep, PrepareFails, Label, IngestLoad, IngestSwap, IngestFails
<1>5. ASSUME NEW p \in Publisher, Crash(p) PROVE LockInv'
  BY <1>5 DEF Crash
<1>6. ASSUME NEW p \in Publisher, Prepare(p) PROVE LockInv'
  BY <1>6 DEF Prepare
<1>7. ASSUME NEW p \in Publisher,
             LoadExisting(p) \/ Crawl(p) \/ CrawlFails(p) \/ Validate(p)
               \/ Replace(p) \/ ReplaceFails(p)
      PROVE  LockInv'
  BY <1>7 DEF LoadExisting, Crawl, CrawlFails, Validate, Replace, ReplaceFails
<1>8. ASSUME NEW p \in Publisher, Discard(p) PROVE LockInv'
  BY <1>8 DEF Discard
<1>9. ASSUME NEW f \in TempFile, Age(f) PROVE LockInv'
  BY <1>9 DEF Age
<1>10. ASSUME NEW n \in General, Expire(n) PROVE LockInv'
  BY <1>10 DEF Expire
<1>11. CASE UNCHANGED vars
  BY <1>11 DEF vars
<1> QED
  BY <1>1, <1>2, <1>3, <1>4, <1>5, <1>6, <1>7, <1>8, <1>9, <1>10, <1>11, NextCases

\* A publish by the scheduler runs alone, whatever the crashes, shutdowns and
\* restarts of the workers: .crawler.lock is held from before the clean-up
\* until after the temp file is gone (crawler_scheduler.py:79-136).
THEOREM PublishMutualExclusion == Spec => []OnePublishAtATime
<1>1. Init => LockInv
  BY ProcessAssumption
     DEF Init, LockInv, Publishing, PublishSteps, ScriptSteps, Publisher
<1>2. LockInv => OnePublishAtATime
  BY DEF LockInv, OnePublishAtATime
<1> QED
  BY <1>1, <1>2, LockStep, Typing, PTL DEF Spec
------------------------------------------------------------------------------
(***************************************************************************)
(* The published list is valid: what passed validation cannot change       *)
(* before the rename, because only its owner writes a temp snapshot.       *)
(***************************************************************************)
ValidInv ==
  /\ PublishedListIsValid
  /\ \A p \in Publisher :
       pc[p] = "replace" => temp[mine[p]] = Absent \/ EnoughRecords(temp[mine[p]])

LEMMA ValidStep == TypeOK /\ OwnershipInv /\ ValidInv /\ [Next]_vars => ValidInv'
<1> SUFFICES ASSUME TypeOK, OwnershipInv, ValidInv, [Next]_vars PROVE ValidInv'
  OBVIOUS
<1>0. \A p \in Publisher : pc[p] = "replace" => mine[p] \in TempFile
  BY DEF OwnershipInv, OwnsTemp
<1> USE <1>0, ProcessAssumption
      DEF TypeOK, ValidInv, PublishedListIsValid, files, Goto, Publisher
<1>1. ASSUME NEW w \in Worker,
             StartWorker(w) \/ StopWorker(w) \/ TakeLock(w) \/ Label(w)
               \/ IngestLoad(w) \/ IngestSwap(w) \/ IngestFails(w)
      PROVE  ValidInv'
  BY <1>1 DEF StartWorker, StopWorker, TakeLock, Label, IngestLoad, IngestSwap,
              IngestFails
<1>2. ASSUME NEW w \in Worker, Sweep(w) PROVE ValidInv'
  BY <1>2 DEF Sweep
<1>3. ASSUME NEW w \in Worker, PrepareFails(w) PROVE ValidInv'
  BY <1>3 DEF PrepareFails, FreshTemp
<1>4. ASSUME NEW p \in Publisher, Crash(p) PROVE ValidInv'
  BY <1>4 DEF Crash
<1>5. ASSUME NEW p \in Publisher, Prepare(p) PROVE ValidInv'
  BY <1>5 DEF Prepare, FreshTemp
<1>6. ASSUME NEW p \in Publisher, LoadExisting(p) \/ ReplaceFails(p) PROVE ValidInv'
  BY <1>6 DEF LoadExisting, ReplaceFails
<1>7. ASSUME NEW p \in Publisher, Crawl(p) \/ CrawlFails(p) PROVE ValidInv'
  <2>1. mine[p] \in TempFile /\ pc'[p] # "replace"
    BY <1>7 DEF Crawl, CrawlFails, OwnershipInv, OwnsTemp
  <2>2. \A f \in TempFile \ {mine[p]} : temp'[f] = temp[f]
    BY <1>7, <2>1 DEF Crawl, CrawlFails
  <2>3. ASSUME NEW q \in Publisher, pc'[q] = "replace"
        PROVE  temp'[mine'[q]] = temp[mine[q]] /\ pc[q] = "replace"
    BY <1>7, <2>1, <2>2, <2>3 DEF Crawl, CrawlFails, OwnershipInv
  <2> QED
    BY <1>7, <2>3 DEF Crawl, CrawlFails, EnoughRecords
<1>8. ASSUME NEW p \in Publisher, Validate(p) PROVE ValidInv'
  BY <1>8 DEF Validate, Publishable
<1>9. ASSUME NEW p \in Publisher, Replace(p) PROVE ValidInv'
  <2>1. final' = temp[mine[p]] /\ EnoughRecords(final')
    BY <1>9 DEF Replace
  <2>2. ASSUME NEW q \in Publisher, pc'[q] = "replace"
        PROVE  temp'[mine'[q]] = temp[mine[q]] /\ pc[q] = "replace"
    BY <1>9, <2>2 DEF Replace, OwnershipInv
  <2> QED
    BY <2>1, <2>2 DEF EnoughRecords
<1>10. ASSUME NEW p \in Publisher, Discard(p) PROVE ValidInv'
  BY <1>10 DEF Discard
<1>11. ASSUME NEW f \in TempFile, Age(f) PROVE ValidInv'
  BY <1>11 DEF Age
<1>12. ASSUME NEW n \in General, Expire(n) PROVE ValidInv'
  BY <1>12 DEF Expire
<1>13. CASE UNCHANGED vars
  BY <1>13 DEF vars
<1> QED
  BY <1>1, <1>2, <1>3, <1>4, <1>5, <1>6, <1>7, <1>8, <1>9, <1>10, <1>11, <1>12,
     <1>13, NextCases

\* Readers of NOTICE_JSON_PATH never find a torn list or one below the record
\* minimum, with any number of scripts publishing beside the scheduler
\* (crawler_scheduler.py:93-99, run_incremental_crawl_publish.sh:110-140).
THEOREM PublishedListValid == Spec => []PublishedListIsValid
<1>1. Init => ValidInv
  BY DEF Init, ValidInv, PublishedListIsValid
<1>2. ValidInv => PublishedListIsValid
  BY DEF ValidInv
<1> QED
  BY <1>1, <1>2, ValidStep, Typing, PTL DEF Spec
------------------------------------------------------------------------------
(***************************************************************************)
(* Temp snapshots of live publishes.                                       *)
(***************************************************************************)
LiveInv == \A w \in Worker : OwnsTemp(w) => temp[mine[w]] # Absent

LEMMA LiveStep ==
  TypeOK /\ OwnershipInv /\ LockInv /\ LiveInv /\ [Next]_vars => LiveInv'
<1> SUFFICES ASSUME TypeOK, OwnershipInv, LockInv, LiveInv, [Next]_vars
             PROVE  LiveInv'
  OBVIOUS
<1>0. \A p \in Publisher : OwnsTemp(p) => mine[p] \in TempFile
  BY DEF OwnershipInv
<1> USE <1>0, ProcessAssumption DEF TypeOK, LiveInv, OwnsTemp, files, Goto, Publisher
<1>1. ASSUME NEW w \in Worker,
             StartWorker(w) \/ StopWorker(w) \/ TakeLock(w) \/ Label(w)
               \/ IngestLoad(w) \/ IngestSwap(w) \/ IngestFails(w)
      PROVE  LiveInv'
  BY <1>1 DEF StartWorker, StopWorker, TakeLock, Label, IngestLoad, IngestSwap,
              IngestFails
<1>2. ASSUME NEW w \in Worker, Sweep(w) PROVE LiveInv'
  <2>1. \A v \in Worker : OwnsTemp(v) => v = w
    <3>1. Publishing(w) /\ \A v \in Worker : OwnsTemp(v) => Publishing(v)
      BY <1>2 DEF Sweep, Publishing, PublishSteps, ScriptSteps
    <3> QED
      BY <3>1 DEF LockInv
  <2> QED
    BY <1>2, <2>1 DEF Sweep
<1>3. ASSUME NEW w \in Worker, PrepareFails(w) PROVE LiveInv'
  <2>1. \A f \in TempFile : temp'[f] = temp[f] \/ temp'[f] # Absent
    BY <1>3, ContentFacts DEF PrepareFails, FreshTemp
  <2>2. \A v \in Worker : OwnsTemp(v)' => OwnsTemp(v) /\ mine'[v] = mine[v]
    BY <1>3 DEF PrepareFails
  <2> QED
    BY <2>1, <2>2
<1>4. ASSUME NEW p \in Publisher, Crash(p) PROVE LiveInv'
  BY <1>4 DEF Crash
<1>5. ASSUME NEW p \in Publisher, Prepare(p) PROVE LiveInv'
  BY <1>5, ContentFacts DEF Prepare, FreshTemp
<1>6. ASSUME NEW p \in Publisher,
             LoadExisting(p) \/ Validate(p) \/ ReplaceFails(p)
      PROVE  LiveInv'
  BY <1>6 DEF LoadExisting, Validate, ReplaceFails
<1>7. ASSUME NEW p \in Publisher, Crawl(p) \/ CrawlFails(p) PROVE LiveInv'
  <2>1. ASSUME NEW w \in Worker, OwnsTemp(w)'
        PROVE  OwnsTemp(w) /\ mine'[w] = mine[w] /\ mine[w] \in TempFile
    BY <1>7, <2>1 DEF Crawl, CrawlFails
  <2>2. ASSUME NEW f \in TempFile PROVE temp'[f] = temp[f] \/ temp'[f] # Absent
    <3>1. CASE Crawl(p)
      BY <3>1, ContentFacts DEF Crawl
    <3>2. CASE CrawlFails(p)
      BY <3>2, ContentFacts DEF CrawlFails
    <3> QED
      BY <1>7, <3>1, <3>2
  <2> QED
    BY <2>1, <2>2
<1>8. ASSUME NEW p \in Publisher, Replace(p) PROVE LiveInv'
  BY <1>8 DEF Replace, OwnershipInv
<1>9. ASSUME NEW p \in Publisher, Discard(p) PROVE LiveInv'
  BY <1>9 DEF Discard, OwnershipInv
<1>10. ASSUME NEW f \in TempFile, Age(f) PROVE LiveInv'
  BY <1>10 DEF Age
<1>11. ASSUME NEW n \in General, Expire(n) PROVE LiveInv'
  BY <1>11 DEF Expire
<1>12. CASE UNCHANGED vars
  BY <1>12 DEF vars
<1> QED
  BY <1>1, <1>2, <1>3, <1>4, <1>5, <1>6, <1>7, <1>8, <1>9, <1>10, <1>11, <1>12,
     NextCases

\* The clean-up never removes the temp snapshot of a publish that is still
\* running, however slow it is: the sweep runs under .crawler.lock, which
\* that publish would be holding (crawler_scheduler.py:84-87).
THEOREM LiveTempSafe == Spec => []LiveTempKept
<1>1. Init => LockInv /\ LiveInv
  BY ProcessAssumption
     DEF Init, LockInv, LiveInv, OwnsTemp, Publishing, PublishSteps, ScriptSteps, Publisher
<1>2. OwnershipInv /\ LiveInv => LiveTempKept
  BY DEF LiveInv, LiveTempKept, OwnershipInv
<1> QED
  BY <1>1, <1>2, LockStep, LiveStep, Typing, PTL DEF Spec
------------------------------------------------------------------------------
(***************************************************************************)
(* The publish pipeline implements NoticeStore when no script publishes    *)
(* beside the scheduler, for any number of workers, notices and faults.    *)
(* With a script it does not: see the run publish_lost_update.             *)
(***************************************************************************)
\* What a publish holds is never behind the published list: from the copy to
\* the rename it carries every notice that has not aged out, and what an
\* ingest has read is still what is published when its database is renamed.
CarryInv ==
  /\ \A w \in Worker : pc[w] = "crawl" => Retained(final, expired) \subseteq base[w]
  /\ \A w \in Worker : pc[w] \in {"load", "validate", "replace"} =>
       Retained(final, expired) \subseteq temp[mine[w]].posts
  /\ \A w \in Worker : pc[w] = "swap" => loaded[w] = final /\ final.state = "json"

LEMMA CarryStep ==
  ASSUME Script = {}, TypeOK, OwnershipInv, LockInv, LiveInv, CarryInv, [Next]_vars
  PROVE  CarryInv'
<1>0. \A w \in Worker : OwnsTemp(w) => mine[w] \in TempFile
  BY DEF OwnershipInv, Publisher
<1>p. Publisher = Worker
  BY DEF Publisher
<1>l. \A v, w \in Worker : Publishing(v) /\ Publishing(w) => v = w
  BY DEF LockInv
<1>e. \A w \in Worker : pc[w] \in PublishSteps => Publishing(w)
  BY DEF Publishing
<1> USE <1>0, <1>p, ProcessAssumption
      DEF TypeOK, CarryInv, OwnsTemp, files, Goto
<1>1. ASSUME NEW w \in Worker, StartWorker(w) \/ StopWorker(w) \/ TakeLock(w)
      PROVE  CarryInv'
  BY <1>1 DEF StartWorker, StopWorker, TakeLock
<1>2. ASSUME NEW w \in Worker, Label(w) \/ IngestSwap(w) \/ IngestFails(w)
      PROVE  CarryInv'
  BY <1>2 DEF Label, IngestSwap, IngestFails
<1>3. ASSUME NEW w \in Worker, IngestLoad(w) PROVE CarryInv'
  BY <1>3 DEF IngestLoad
<1>4. ASSUME NEW w \in Worker, Sweep(w) PROVE CarryInv'
  <2>1. \A v \in Worker : v # w => pc[v] \notin PublishSteps
    BY <1>4, <1>l, <1>e DEF Sweep, PublishSteps
  <2> QED
    BY <1>4, <2>1 DEF Sweep, PublishSteps, ScriptSteps
<1>5. ASSUME NEW w \in Worker, PrepareFails(w) PROVE CarryInv'
  <2>1. PICK f \in TempFile : /\ temp' = [temp EXCEPT ![f] = Torn]
                              /\ \A p \in Worker : mine[p] # f
    BY <1>5 DEF PrepareFails, FreshTemp
  <2> QED
    BY <1>5, <2>1 DEF PrepareFails
<1>6. ASSUME NEW w \in Worker, Prepare(w) PROVE CarryInv'
  <2>1. PICK f \in FreshTemp :
          /\ temp' = [temp EXCEPT ![f] = IF final = Absent THEN Json({}) ELSE final]
          /\ mine' = [mine EXCEPT ![w] = f]
    BY <1>6 DEF Prepare
  <2>2. f \in TempFile /\ \A p \in Worker : mine[p] # f
    BY <2>1 DEF FreshTemp
  <2>3. Retained(final, expired) \subseteq temp'[mine'[w]].posts
    BY <2>1, <2>2, ContentFacts DEF Retained
  <2> QED
    BY <1>6, <2>1, <2>2, <2>3 DEF Prepare
<1>7. ASSUME NEW w \in Worker, LoadExisting(w) \/ Validate(w) \/ ReplaceFails(w)
      PROVE  CarryInv'
  BY <1>7 DEF LoadExisting, Validate, ReplaceFails
<1>8. ASSUME NEW w \in Worker, Crawl(w) PROVE CarryInv'
  <2>1. PICK found \in SUBSET Notice :
          temp' = [temp EXCEPT ![mine[w]] = Json((base[w] \cup found) \ expired)]
    BY <1>8 DEF Crawl
  <2>2. temp'[mine[w]].posts = (base[w] \cup found) \ expired
    BY <1>8, <2>1, ContentFacts DEF Crawl
  <2>3. Retained(final, expired) \subseteq temp'[mine'[w]].posts
    BY <1>8, <2>2 DEF Crawl, Retained
  <2>4. \A v \in Worker : v # w => pc[v] \notin PublishSteps
    BY <1>8, <1>l, <1>e DEF Crawl, PublishSteps, ScriptSteps
  <2> QED
    BY <1>8, <2>3, <2>4 DEF Crawl, PublishSteps, ScriptSteps
<1>9. ASSUME NEW w \in Worker, CrawlFails(w) PROVE CarryInv'
  <2>1. \A v \in Worker : v # w => pc[v] \notin PublishSteps
    BY <1>9, <1>l, <1>e DEF CrawlFails, PublishSteps, ScriptSteps
  <2> QED
    BY <1>9, <2>1 DEF CrawlFails, PublishSteps, ScriptSteps
<1>10. ASSUME NEW w \in Worker, Replace(w) PROVE CarryInv'
  <2>1. \A v \in Worker : v # w => pc[v] \notin PublishSteps
    BY <1>10, <1>l, <1>e DEF Replace, PublishSteps, ScriptSteps
  <2>2. \A v \in Worker : pc'[v] \in {"load", "crawl", "validate", "replace", "swap"}
                            => v # w /\ pc[v] = pc'[v]
    BY <1>10 DEF Replace
  <2> QED
    BY <2>1, <2>2 DEF PublishSteps, ScriptSteps
<1>11. ASSUME NEW w \in Worker, Discard(w) PROVE CarryInv'
  BY <1>11 DEF Discard, OwnershipInv
<1>12. ASSUME NEW w \in Worker, Crash(w) PROVE CarryInv'
  BY <1>12 DEF Crash
<1>13. ASSUME NEW f \in TempFile, Age(f) PROVE CarryInv'
  BY <1>13 DEF Age
<1>14. ASSUME NEW n \in General, Expire(n) PROVE CarryInv'
  BY <1>14 DEF Expire, Retained
<1>15. CASE UNCHANGED vars
  BY <1>15 DEF vars
<1> QED
  BY <1>1, <1>2, <1>3, <1>4, <1>5, <1>6, <1>7, <1>8, <1>9, <1>10, <1>11, <1>12,
     <1>13, <1>14, <1>15, NextCases
------------------------------------------------------------------------------
\* Every step of the pipeline is a Publish, an Ingest, an Expire or invisible.
LEMMA StoreStep ==
  ASSUME Script = {}, TypeOK, OwnershipInv, ValidInv, CarryInv, [Next]_vars
  PROVE  [Store!Next]_(Store!storeVars)
<1>p. Publisher = Worker
  BY DEF Publisher
<1> USE DEF files, Store!storeVars
<1>1. ASSUME NEW w \in Worker, Replace(w) PROVE Store!Publish
  <2> DEFINE posts == temp[mine[w]].posts
  <2>1. mine[w] \in TempFile /\ temp[mine[w]] \in Content
    BY <1>1, <1>p DEF Replace, OwnershipInv, OwnsTemp, TypeOK
  <2>2. EnoughRecords(temp[mine[w]])
    BY <1>1, <1>p DEF Replace, ValidInv
  <2>3. posts \in SUBSET Notice /\ temp[mine[w]] = Json(posts)
    BY <2>1, <2>2, ContentFacts DEF EnoughRecords
  <2>4. Retained(final, expired) \subseteq posts
    BY <1>1 DEF Replace, CarryInv
  <2>5. final' = Json(posts) /\ db' = db /\ expired' = expired
    BY <1>1, <2>3 DEF Replace
  <2> HIDE DEF posts
  <2>6. EnoughRecords(Json(posts))
    BY <2>2, <2>3
  <2> QED
    BY <2>3, <2>4, <2>5, <2>6
       DEF Store!Publish, Store!Retained, Store!EnoughRecords, Store!Json,
           Retained, EnoughRecords, Json, Cardinality, Store!Cardinality
<1>2. ASSUME NEW w \in Worker, IngestSwap(w) PROVE Store!Ingest
  BY <1>2 DEF IngestSwap, CarryInv, Store!Ingest
<1>3. ASSUME NEW n \in General, Expire(n) PROVE Store!Expire
  BY <1>3 DEF Expire, Store!Expire
<1>4. ASSUME NEW w \in Worker,
             \/ StartWorker(w) \/ StopWorker(w) \/ TakeLock(w) \/ Sweep(w)
             \/ PrepareFails(w) \/ Label(w) \/ IngestLoad(w) \/ IngestFails(w)
             \/ Crash(w) \/ Prepare(w) \/ LoadExisting(w) \/ Crawl(w)
             \/ CrawlFails(w) \/ Validate(w) \/ ReplaceFails(w) \/ Discard(w)
      PROVE  UNCHANGED <<final, db, expired>>
  BY <1>4 DEF StartWorker, StopWorker, TakeLock, Sweep, PrepareFails, Label,
              IngestLoad, IngestFails, Crash, Prepare, LoadExisting, Crawl,
              CrawlFails, Validate, ReplaceFails, Discard
<1>5. ASSUME NEW f \in TempFile, Age(f) PROVE UNCHANGED <<final, db, expired>>
  BY <1>5 DEF Age
<1>6. CASE UNCHANGED vars
  BY <1>6 DEF vars
<1> QED
  BY <1>p, <1>1, <1>2, <1>3, <1>4, <1>5, <1>6, NextCases DEF Store!Next

\* The scheduler's publishes never lose a notice that has not aged out, and
\* the database only ever receives the list published at that moment, with
\* any number of workers starting, draining and crashing
\* (crawler_scheduler.py:69-136, ingest.py:43-87).
THEOREM PipelineImplementsStore ==
  ASSUME Script = {}
  PROVE  Spec => StoreSpec
<1>1. Init => Store!Init
  BY DEF Init, Store!Init, Store!Content, Store!Absent, Store!Torn, Store!Json,
         Store!EnoughRecords, Content, Absent, Torn, Json, EnoughRecords,
         Cardinality, Store!Cardinality
<1>2. Init => LockInv /\ LiveInv /\ CarryInv /\ ValidInv
  BY ProcessAssumption
     DEF Init, LockInv, LiveInv, CarryInv, ValidInv, PublishedListIsValid, OwnsTemp,
         Publishing, PublishSteps, ScriptSteps, Publisher
<1> DEFINE Inv == LockInv /\ LiveInv /\ CarryInv /\ ValidInv
<1>3. TypeOK /\ OwnershipInv /\ Inv /\ [Next]_vars => Inv'
  BY LockStep, LiveStep, CarryStep, ValidStep
<1>4. TypeOK /\ OwnershipInv /\ Inv /\ [Next]_vars => [Store!Next]_(Store!storeVars)
  BY StoreStep
<1> QED
  BY <1>1, <1>2, <1>3, <1>4, Typing, PTL DEF Spec, StoreSpec, Store!Spec
==============================================================================
