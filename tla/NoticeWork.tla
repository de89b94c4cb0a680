----------------------------- MODULE NoticeWork -----------------------------
(***************************************************************************)
(* What a publish does to the notices besides collecting them: the crawl   *)
(* merges the boards' notices, new and edited ones, enriches thin texts    *)
(* and saves (app/crawler/main.py); the scheduler then labels the          *)
(* published list and ingests it (app/crawler_scheduler.py).  Everything   *)
(* but the published list and the label file is lost when a pass is cut    *)
(* off.                                                                    *)
(***************************************************************************)
EXTENDS ContentEnrichment, AutoLabels

CONSTANTS Board, Title,  \* [Posts -> the kind of its board, the words of its title]
          Body,          \* [Posts -> [Versions -> words of the full text]]
          KeyOf,         \* [Posts -> Keys]
          Edits,         \* [Posts -> how often the notice is edited], a bound
          Configs,       \* the settings [enrich, label, hasKey] a server may have
          MaxFaults      \* bound: crashes, raised errors, failed or broken label writes,
                         \* label files that cannot be read

ASSUME WorkAssumption ==
    /\ Board \in [Posts -> Boards]
    /\ KeyOf \in [Posts -> Keys]
    /\ Edits \in [Posts -> Versions]
    /\ Configs \subseteq [enrich : BOOLEAN, label : BOOLEAN, hasKey : BOOLEAN]
    /\ MaxFaults \in Nat

VARIABLES onBoard,  \* [Posts -> the version on its board, or NoText before it is posted]
          list,     \* the published list, [Posts -> post or Absent]
          served,   \* [Posts -> the label in the database]
          phase,    \* "idle", "enrich", "load", "label", "ingest"; "failed" after an error
          config,   \* the settings of the server
          faults    \* how many faults there were

vars == <<enrichVars, labelVars, onBoard, list, served, phase, config, faults>>
workVars == <<onBoard, list, served, phase, config, faults>>

Listed(posts) == {n \in Posts : posts[n] # Absent}

TypeOK ==
    /\ EnrichTypeOK
    /\ LabelsTypeOK
    /\ onBoard \in [Posts -> Versions \cup {NoText}]
    /\ list \in [Posts -> PostRecords]
    /\ served \in [Posts -> Labels \cup {ResearchLabel, NoLabel}]
    /\ phase \in {"idle", "enrich", "load", "label", "ingest", "failed"}
    /\ config \in Configs
    /\ faults \in 0 .. MaxFaults

NoWork == [n \in Posts |-> Absent]

Init ==
    /\ work = NoWork /\ pos = 0 /\ asset = 0 /\ gotText = FALSE /\ calls = 0 /\ requests = 0
    /\ rows = << >> /\ research = {} /\ known = {} /\ unread = {}
    /\ newRows = << >> /\ llmCalls = 0
    /\ onBoard = [n \in Posts |-> NoText]
    /\ list = NoWork
    /\ served = [n \in Posts |-> NoLabel]
    /\ phase = "idle"
    /\ config \in Configs
    /\ faults = 0

-----------------------------------------------------------------------------
(* The boards and the operators *)

\* Notices are posted in the order of their numbers, and edited later.  Only the
\* step that starts a crawl looks at the boards, so they change between passes.
Post(n) ==
    /\ phase = "idle"
    /\ onBoard[n] = NoText
    /\ \A m \in Posts : m < n => onBoard[m] # NoText
    /\ onBoard' = [onBoard EXCEPT ![n] = 0]
    /\ UNCHANGED <<enrichVars, labelVars, list, served, phase, config, faults>>

Edit(n) ==
    /\ phase = "idle"
    /\ onBoard[n] # NoText /\ onBoard[n] < Edits[n]
    /\ onBoard' = [onBoard EXCEPT ![n] = @ + 1]
    /\ UNCHANGED <<enrichVars, labelVars, list, served, phase, config, faults>>

\* A deployment restarts the server, so no pass is going on.
Deploy(k) ==
    /\ phase = "idle"
    /\ DeployResearch(k)
    /\ UNCHANGED <<enrichVars, workVars>>

-----------------------------------------------------------------------------
(* The crawl *)

\* What a crawl merges: it reads the listed notices in due again, and takes the
\* new ones up to the number last.  Which ones those are is BoardCrawl's subject.
Merged(due, last) ==
    [n \in Posts |->
        IF list[n] # Absent
        THEN IF n \in due /\ NeedsUpdate(list[n], onBoard[n])
             THEN ApplyUpdate(n, list[n], onBoard[n]) ELSE list[n]
        ELSE IF n <= last THEN Parsed(n, onBoard[n]) ELSE Absent]

Crawl(due, last) ==
    /\ phase \in {"idle", "failed"}
    /\ due \subseteq Listed(list)
    /\ \A n \in Posts : n <= last => onBoard[n] # NoText
    /\ work' = Merged(due, last)
    /\ pos' = 1 /\ asset' = 0 /\ gotText' = FALSE
    /\ NewService
    /\ phase' = "enrich"
    /\ UNCHANGED <<labelVars, onBoard, list, served, config, faults>>

Enrich(n) ==
    /\ phase = "enrich" /\ config.enrich
    /\ EnrichPost(n, config.hasKey)
    /\ UNCHANGED <<labelVars, workVars>>

EnrichmentDone == ~config.enrich \/ pos \notin Listed(work)

\* The lists in memory are gone.
DropWork(first) ==
    /\ work' = NoWork /\ pos' = first /\ asset' = 0 /\ gotText' = FALSE
    /\ NewService

\* The crawl saves, and the snapshot replaces the published list.
Publish ==
    /\ phase = "enrich"
    /\ EnrichmentDone
    /\ list' = work
    /\ phase' = IF config.label THEN "load" ELSE "ingest"
    /\ DropWork(1)
    /\ UNCHANGED <<labelVars, onBoard, served, config, faults>>

Fault == faults < MaxFaults /\ faults' = faults + 1

\* An extractor raises something else than its own errors: nothing catches it
\* below publish_crawler_snapshot, which deletes the temporary snapshot.
AssetRaises(n) ==
    /\ phase = "enrich" /\ config.enrich
    /\ Reading(n)
    /\ Fault
    /\ DropWork(0)
    /\ phase' = "failed"
    /\ UNCHANGED <<labelVars, onBoard, list, served, config>>

\* The process is killed, or the snapshot does not pass validation.
CutOff ==
    /\ phase \notin {"idle", "failed"}
    /\ Fault
    /\ DropWork(0)
    /\ LoseRows
    /\ phase' = "idle"
    /\ UNCHANGED <<onBoard, list, served, config>>
-----------------------------------------------------------------------------
(* The labeling run and the ingest *)

\* The label files that can be read now: both, or it is a fault.
Readable(read) ==
    /\ read \subseteq LabelFiles
    /\ IF read = LabelFiles THEN UNCHANGED faults ELSE Fault

BeginLabeling(read) ==
    /\ phase = "load"
    /\ Readable(read)
    /\ LoadKnown(read)
    /\ phase' = "label"
    /\ UNCHANGED <<enrichVars, onBoard, list, served, config>>

\* The words of a text that a rule can see; a thin text has none.
BodyOf(n) == IF list[n].thin THEN {} ELSE Body[n][list[n].ver]
Decision(n) == Decide(Board[n], Title[n], BodyOf(n))
Earlier(n) == {KeyOf[m] : m \in {m \in Posts : m < n}}

Labeling(n) == phase = "label" /\ pos = n /\ list[n] # Absent
NextNotice == pos' = pos + 1 /\ UNCHANGED <<work, asset, gotText, calls, requests>>

PassLabeled(n) ==
    /\ Labeling(n)
    /\ ~Unlabeled(Earlier(n), KeyOf[n])
    /\ NextNotice
    /\ UNCHANGED <<labelVars, workVars>>

LabelByRule(n) ==
    /\ Labeling(n)
    /\ Unlabeled(Earlier(n), KeyOf[n])
    /\ RuleLabel(KeyOf[n], Decision(n))
    /\ NextNotice
    /\ UNCHANGED workVars

PutOffLabel(n) ==
    /\ Labeling(n)
    /\ Unlabeled(Earlier(n), KeyOf[n])
    /\ PutOff(Decision(n), config.hasKey)
    /\ NextNotice
    /\ UNCHANGED workVars

LabelCallFails(n) ==
    /\ Labeling(n)
    /\ Unlabeled(Earlier(n), KeyOf[n])
    /\ LlmFails(Decision(n), config.hasKey)
    /\ NextNotice
    /\ UNCHANGED workVars

LabelByLlm(n) ==
    /\ Labeling(n)
    /\ Unlabeled(Earlier(n), KeyOf[n])
    /\ \E a \in Answers : LlmAnswers(KeyOf[n], Title[n], Decision(n), config.hasKey, a, TRUE)
    /\ NextNotice
    /\ UNCHANGED workVars

\* The answer's reason has a line separator in it.
LabelBroken(n) ==
    /\ Labeling(n)
    /\ Unlabeled(Earlier(n), KeyOf[n])
    /\ \E a \in Answers : LlmAnswers(KeyOf[n], Title[n], Decision(n), config.hasKey, a, FALSE)
    /\ Fault
    /\ NextNotice
    /\ UNCHANGED <<onBoard, list, served, phase, config>>

AllSeen == phase = "label" /\ pos \notin Listed(list)

SaveLabels ==
    /\ AllSeen
    /\ AppendRows
    /\ phase' = "ingest"
    /\ UNCHANGED <<enrichVars, onBoard, list, served, config, faults>>

\* The scheduler catches what the labeling run raises, and the ingest follows.
SaveFails ==
    /\ AllSeen
    /\ newRows # << >>
    /\ Fault
    /\ LoseRows
    /\ phase' = "ingest"
    /\ UNCHANGED <<enrichVars, onBoard, list, served, config>>

Ingest(read) ==
    /\ phase = "ingest"
    /\ Readable(read)
    /\ served' = [n \in Posts |-> IF list[n] # Absent THEN LabelOf(KeyOf[n], read)
                                 ELSE NoLabel]
    /\ phase' = "idle"
    /\ DropWork(0)
    /\ UNCHANGED <<labelVars, onBoard, list, config>>

LabelStep(n) ==
    \/ PassLabeled(n) \/ LabelByRule(n) \/ PutOffLabel(n)
    \/ LabelCallFails(n) \/ LabelByLlm(n) \/ LabelBroken(n)

-----------------------------------------------------------------------------

Next ==
    \/ \E n \in Posts : Post(n) \/ Edit(n) \/ Enrich(n) \/ AssetRaises(n) \/ LabelStep(n)
    \/ \E due \in SUBSET Posts, last \in {0} \cup Posts : Crawl(due, last)
    \/ \E k \in Keys : Deploy(k)
    \/ \E read \in SUBSET LabelFiles : BeginLabeling(read) \/ Ingest(read)
    \/ Publish \/ SaveLabels \/ SaveFails \/ CutOff

Spec == Init /\ [][Next]_vars

-----------------------------------------------------------------------------
(* Properties *)

\* A generated text belongs to the version the post holds, and content_original
\* keeps the board's text of that version, through retries of an enriched post,
\* edits and budgets that end in the middle of a post (_enrich_post,
\* apply_notice_update).
BoardTextIsKept ==
    \A n \in Posts : \A post \in {list[n], work[n]} :
        /\ post.made => post.original = post.ver
        /\ ~post.made => post.original = NoText

\* All posts of a crawl together take no more calls than the budget, however they fail
\* and are broken off, and a call sends at most two requests: only the retry with the
\* fallback model is not counted (_consume_call, extract_image_text).
CallsAreBounded == calls <= MaxCalls /\ requests <= 2 * calls

\* The published list loses a full generated text only when the board's notice was
\* edited: enrichment does not look like an edit, no text is paid for twice
\* (compute_content_hash, should_enrich).
PaidTextIsKept ==
    [][\A n \in Posts : list[n].made /\ ~list[n].thin /\ list'[n] # list[n]
                        => list'[n].ver # list[n].ver]_vars

\* The label file has one readable row for a key, over retried runs, notices that
\* share a key and research files that come later: a label is made once
\* (label_unlabeled_notices).  A run that could not read the file labels its keys
\* again.
OneLabelPerKey ==
    "auto" \notin unread =>
      \A i, j \in DOMAIN rows :
        rows[i].readable /\ rows[j].readable /\ rows[i].key = rows[j].key => i = j

\* No label is lost or undone: the file keeps the label that counts for a key, also
\* when a run that could not read it adds another (_append_atomically), and a served
\* label gives way to none but one of the research file, except that an ingest that
\* cannot read a label file serves the notices without its labels (_write_labels).
ServedLabelsStay ==
    [][/\ \A k \in ReadableKeys(rows) :
            k \in ReadableKeys(rows') /\ AutoLabel(k)' = AutoLabel(k)
       /\ \A n \in Posts : served[n] # NoLabel /\ served'[n] # served[n] =>
            \/ served'[n] = ResearchLabel
            \/ phase = "ingest" /\ faults' = faults + 1]_vars

\* When a run is through, a listed key is left without a label only for a reason: no
\* rule knows its first notice, and there is no API key, or the budget is used up, or
\* the call for it is one of those that failed (label_unlabeled_notices).  The first
\* notice decides for its key: a later one is passed over with it, even if a rule
\* knew it.
LeftKeys == {KeyOf[n] : n \in Listed(list)} \ (research \cup ReadableKeys(rows)
                                               \cup {newRows[i].key : i \in DOMAIN newRows})
FailedCalls == llmCalls - Cardinality({i \in DOMAIN newRows : newRows[i].label.by = "llm"})

NoticesAreNotStarved ==
    AllSeen =>
      /\ \A n \in Listed(list) :
           KeyOf[n] \in LeftKeys \ {KeyOf[m] : m \in 1 .. n - 1} => Decision(n).by = "llm"
      /\ config.hasKey /\ llmCalls < MaxLlmCalls => Cardinality(LeftKeys) <= FailedCalls

\* docs/CRAWLING_UPDATE.md:67: a failed enrichment is not a failed crawl.
EnrichmentNeverFailsACrawl == phase # "failed"
=============================================================================
