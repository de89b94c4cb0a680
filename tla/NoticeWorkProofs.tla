-------------------------- MODULE NoticeWorkProofs ---------------------------
(***************************************************************************)
(* Proofs about NoticeWork for any number of notices, keys, assets, edits, *)
(* faults and any budgets: types, the two texts of a post, what is paid    *)
(* once, the rows and served labels, and what a labeling run leaves out.   *)
(***************************************************************************)
EXTENDS NoticeWork, FiniteSetTheorems, SequenceTheorems, TLAPS

-----------------------------------------------------------------------------
(***************************************************************************)
(* Types                                                                   *)
(***************************************************************************)

LEMMA RecordFields ==
  ASSUME NEW post \in PostRecords, post # Absent
  PROVE  /\ post \in [ver : Versions, made : BOOLEAN, thin : BOOLEAN,
                      original : Versions \cup {NoText}]
         /\ post.ver \in Versions /\ post.ver # NoText
BY EnrichmentAssumption DEF PostRecords, Versions, NoText

LEMMA ParsedTyped ==
  ASSUME NEW n \in Posts, NEW v \in Versions
  PROVE  Parsed(n, v) \in PostRecords /\ Parsed(n, v) # Absent /\ Parsed(n, v).ver = v
BY EnrichmentAssumption DEF Parsed, PostRecords, Versions, NoText, Absent

LEMMA EnrichedTyped ==
  ASSUME NEW post \in PostRecords, post # Absent, NEW thin \in BOOLEAN
  PROVE  /\ Enriched(post, thin) \in PostRecords
         /\ Enriched(post, thin).ver = post.ver
         /\ Enriched(post, thin).made = TRUE
         /\ Enriched(post, thin).original = IF post.original = NoText THEN post.ver ELSE post.original
BY RecordFields DEF Enriched, PostRecords

\* What a step of the enrichment does to work and to the counters.
LEMMA EnrichSteps ==
  ASSUME EnrichTypeOK, NEW n \in Posts, NEW hasKey, EnrichPost(n, hasKey)
  PROVE  /\ EnrichTypeOK'
         /\ \/ work' = work
            \/ /\ work[n] # Absent /\ work[n].thin
               /\ \E thin \in BOOLEAN : work' = [work EXCEPT ![n] = Enriched(work[n], thin)]
         /\ \/ calls' = calls /\ requests' = requests
            \/ calls' = calls + 1 /\ requests' \in {requests + 1, requests + 2}
<1>0. /\ MaxCalls \in Nat
      /\ calls \in 0 .. MaxCalls /\ requests \in Nat /\ pos \in Nat /\ asset \in Nat
      /\ work \in [Posts -> PostRecords]
  BY EnrichmentAssumption DEF EnrichTypeOK
<1>1. ~Exhausted => calls + 1 \in 0 .. MaxCalls
  BY <1>0 DEF Exhausted
<1>2. ASSUME pos' \in Nat, asset' \in Nat, gotText' \in BOOLEAN,
             calls' \in 0 .. MaxCalls, requests' \in Nat, work' \in [Posts -> PostRecords]
      PROVE  EnrichTypeOK'
  BY <1>2 DEF EnrichTypeOK
<1>3. ASSUME GiveUp
      PROVE  EnrichTypeOK' /\ work' = work /\ calls' = calls /\ requests' = requests
  <2>1. pos' = pos + 1 /\ asset' = 0 /\ gotText' = FALSE
    BY <1>3, Zenon DEF GiveUp, NextPost
  <2>2. work' = work /\ calls' = calls /\ requests' = requests
    BY <1>3 DEF GiveUp
  <2>3. gotText' \in BOOLEAN
    BY <2>1, Zenon
  <2> QED
    BY <1>0, <1>2, <2>1, <2>2, <2>3
<1>4. CASE PassOver(n) \/ SkipPost(n) \/ RefusePost(n) \/ BreakOff(n) \/ NothingRead(n) \/ NoCallLeft(n)
  BY <1>3, <1>4 DEF PassOver, SkipPost, RefusePost, BreakOff, NothingRead, NoCallLeft
<1>5. CASE OpenPost(n) \/ LoseAsset(n) \/ ReadHwp(n)
  <2>1. asset' \in Nat
    BY <1>0, <1>5 DEF OpenPost, LoseAsset, ReadHwp
  <2>3. gotText' \in BOOLEAN
    BY <1>5, Zenon DEF OpenPost, LoseAsset, ReadHwp, EnrichTypeOK
  <2>2. pos' = pos /\ work' = work /\ calls' = calls /\ requests' = requests
    BY <1>5 DEF OpenPost, LoseAsset, ReadHwp
  <2> QED
    BY <1>0, <1>2, <2>1, <2>2, <2>3
<1>6. ASSUME NEW sent \in 1 .. 2, NEW text \in BOOLEAN, ReadImage(n, sent, text)
      PROVE  /\ EnrichTypeOK' /\ work' = work
             /\ calls' = calls + 1 /\ requests' \in {requests + 1, requests + 2}
  <2>1. /\ ~Exhausted
        /\ calls' = calls + 1 /\ requests' = requests + sent /\ pos' = pos /\ work' = work
        /\ asset' = asset + 1 /\ gotText' = (gotText \/ text)
    BY <1>6 DEF ReadImage
  <2>2. gotText' \in BOOLEAN
    BY <2>1 DEF EnrichTypeOK
  <2>3. requests' \in {requests + 1, requests + 2} /\ requests' \in Nat /\ asset' \in Nat
    BY <1>0, <2>1
  <2> QED
    BY <1>0, <1>1, <1>2, <2>1, <2>2, <2>3
<1>7. CASE FailGeneration(n)
  <2>1. /\ ~Exhausted
        /\ calls' = calls + 1 /\ requests' = requests + 1 /\ work' = work
        /\ pos' = pos + 1 /\ asset' = 0 /\ gotText' = FALSE
    BY <1>7 DEF FailGeneration, NextPost
  <2>2. gotText' \in BOOLEAN
    BY <2>1, Zenon
  <2>3. EnrichTypeOK'
    BY <1>0, <1>1, <1>2, <2>1, <2>2
  <2> QED
    BY <2>1, <2>3
<1>8. ASSUME NEW thin \in BOOLEAN, WriteText(n, thin)
      PROVE  /\ EnrichTypeOK'
             /\ work[n] # Absent /\ work[n].thin
             /\ work' = [work EXCEPT ![n] = Enriched(work[n], thin)]
             /\ calls' = calls + 1 /\ requests' = requests + 1
  <2>1. /\ ~Exhausted
        /\ calls' = calls + 1 /\ requests' = requests + 1
        /\ work' = [work EXCEPT ![n] = Enriched(work[n], thin)]
        /\ pos' = pos + 1 /\ asset' = 0 /\ gotText' = FALSE
    BY <1>8 DEF WriteText, NextPost
  <2>2. work[n] # Absent /\ work[n].thin
    BY <1>8 DEF WriteText, AllRead, At, ShouldEnrich
  <2>3. Enriched(work[n], thin) \in PostRecords
    BY <1>0, <2>2, EnrichedTyped
  <2>4. work' \in [Posts -> PostRecords]
    BY <1>0, <2>1, <2>3
  <2>5. gotText' \in BOOLEAN
    BY <2>1, Zenon
  <2>6. EnrichTypeOK'
    BY <1>0, <1>1, <1>2, <2>1, <2>4, <2>5
  <2> QED
    BY <2>1, <2>2, <2>6
<1> QED
  BY <1>4, <1>5, <1>6, <1>7, <1>8 DEF EnrichPost
\* A fresh list in memory is of the right type.
LEMMA EnrichReset ==
  ASSUME work' \in [Posts -> PostRecords], pos' \in Nat, asset' = 0, gotText' = FALSE, NewService
  PROVE  EnrichTypeOK'
<1>1. gotText' \in BOOLEAN
  BY Zenon
<1>2. calls' \in 0 .. MaxCalls /\ requests' \in Nat
  BY EnrichmentAssumption DEF NewService
<1> QED
  BY <1>1, <1>2 DEF EnrichTypeOK

LEMMA EnrichKept == ASSUME EnrichTypeOK, UNCHANGED enrichVars PROVE EnrichTypeOK'
BY DEF EnrichTypeOK, enrichVars

LEMMA NoWorkTyped == NoWork \in [Posts -> PostRecords]
BY DEF NoWork, PostRecords

-----------------------------------------------------------------------------
(***************************************************************************)
(* The labels a run can make                                               *)
(***************************************************************************)

\* A label a rule gives is one of Labels, whatever the board and the words are.
LEMMA RuleLabels ==
  ASSUME NEW board, NEW title, NEW body, Decide(board, title, body).by = "rule",
         board \in Boards
  PROVE  Decide(board, title, body) \in Labels
<1>1. Excludes(title, "freshmenApart" \in body) \in SUBSET {"freshmen"}
  BY DEF Excludes
<1>2. ByLlm.by # "rule"
  BY DEF ByLlm
<1>3. \A a \in SUBSET Codes, x \in SUBSET {"freshmen"} : ByRule(a, x) \in Labels
  BY DEF ByRule, Labels
<1>4. /\ {"outside"} \in SUBSET Codes /\ {"staff"} \in SUBSET Codes
      /\ {"institute"} \in SUBSET Codes /\ {"business"} \in SUBSET Codes
      /\ {"policy"} \in SUBSET Codes /\ {"graduate"} \in SUBSET Codes
      /\ {"undergraduate"} \in SUBSET Codes
  BY DEF Codes
<1>5. CASE board \in {"unknown", "school"}
  BY <1>2, <1>5 DEF Decide
<1>6. CASE board \in {"bid", "research", "institute"}
  BY <1>3, <1>4, <1>6 DEF Decide
<1>7. CASE board \in {"business", "policy"}
  BY <1>2, <1>3, <1>4, <1>7 DEF Decide
<1>8. CASE board \in {"department", "gradDepartment"}
  BY <1>1, <1>2, <1>3, <1>4, <1>8 DEF Decide
<1> QED
  BY <1>5, <1>6, <1>7, <1>8 DEF Boards

LEMMA LlmLabels ==
  ASSUME NEW title, NEW a \in Answers
  PROVE  LlmLabel(title, a) \in Labels
<1>1. Normalize(a.audiences) \in SUBSET Codes
  BY DEF Normalize
<1>2. Excludes(title, "freshmen" \in a.excludes) \in SUBSET {"freshmen"}
  BY DEF Excludes
<1> QED
  BY <1>1, <1>2 DEF LlmLabel, Labels

\* What a step of the labeling run does to the rows it collects.
LEMMA LabelSteps ==
  ASSUME TypeOK, NEW n \in Posts, LabelStep(n)
  PROVE  /\ Labeling(n)
         /\ NextNotice
         /\ UNCHANGED <<rows, research, known, unread, onBoard, list, served, phase, config>>
         /\ llmCalls' \in 0 .. MaxLlmCalls
         /\ faults' \in 0 .. MaxFaults
         /\ \/ newRows' = newRows
            \/ /\ Unlabeled(Earlier(n), KeyOf[n])
               /\ \E row \in Rows : row.key = KeyOf[n] /\ newRows' = Append(newRows, row)
<1>0. /\ llmCalls \in 0 .. MaxLlmCalls /\ MaxLlmCalls \in Nat
      /\ faults \in 0 .. MaxFaults /\ MaxFaults \in Nat
      /\ KeyOf[n] \in Keys /\ Board[n] \in Boards
  BY LabelsAssumption, WorkAssumption DEF TypeOK, LabelsTypeOK
<1> DEFINE Same == UNCHANGED <<rows, research, known, unread, onBoard, list, served, phase, config>>
           Added == /\ Unlabeled(Earlier(n), KeyOf[n])
                    /\ \E row \in Rows : row.key = KeyOf[n] /\ newRows' = Append(newRows, row)
           Spent == llmCalls' = llmCalls \/ (llmCalls < MaxLlmCalls /\ llmCalls' = llmCalls + 1)
           Faulted == faults' = faults \/ (faults < MaxFaults /\ faults' = faults + 1)
<1>1. \A label \in Labels, readable \in BOOLEAN :
        Unlabeled(Earlier(n), KeyOf[n]) /\ AddRow(KeyOf[n], label, readable) => Added
  <2> SUFFICES ASSUME NEW label \in Labels, NEW readable \in BOOLEAN,
                      Unlabeled(Earlier(n), KeyOf[n]), AddRow(KeyOf[n], label, readable)
               PROVE  Added
    OBVIOUS
  <2> DEFINE row == [key |-> KeyOf[n], label |-> label, readable |-> readable]
  <2>1. row \in Rows /\ row.key = KeyOf[n]
    BY <1>0 DEF Rows
  <2>2. newRows' = Append(newRows, row)
    BY DEF AddRow
  <2> QED
    BY <2>1, <2>2
<1>2. ASSUME PassLabeled(n) \/ PutOffLabel(n) \/ LabelCallFails(n)
      PROVE  Labeling(n) /\ NextNotice /\ Same /\ Spent /\ Faulted /\ newRows' = newRows
  BY <1>2 DEF PassLabeled, PutOffLabel, LabelCallFails, PutOff, LlmFails, labelVars, workVars
<1>3. ASSUME LabelByRule(n)
      PROVE  Labeling(n) /\ NextNotice /\ Same /\ Spent /\ Faulted /\ Added
  <2>1. Decision(n) \in Labels
    BY <1>0, <1>3, RuleLabels DEF LabelByRule, RuleLabel, Decision
  <2>2. Added
    BY <1>1, <1>3, <2>1 DEF LabelByRule, RuleLabel
  <2> QED
    BY <1>3, <2>2 DEF LabelByRule, RuleLabel, workVars
<1>4. ASSUME LabelByLlm(n) \/ LabelBroken(n)
      PROVE  Labeling(n) /\ NextNotice /\ Same /\ Spent /\ Faulted /\ Added
  <2>1. PICK a \in Answers, readable \in BOOLEAN :
          LlmAnswers(KeyOf[n], Title[n], Decision(n), config.hasKey, a, readable)
    BY <1>4 DEF LabelByLlm, LabelBroken
  <2>2. Added
    BY <1>1, <1>4, <2>1, LlmLabels DEF LabelByLlm, LabelBroken, LlmAnswers
  <2>3. Spent /\ UNCHANGED <<rows, research, known, unread>>
    BY <2>1 DEF LlmAnswers
  <2>4. Labeling(n) /\ NextNotice /\ Faulted /\ UNCHANGED <<onBoard, list, served, phase, config>>
    BY <1>4 DEF LabelByLlm, LabelBroken, Fault, workVars
  <2> QED
    BY <2>2, <2>3, <2>4
<1>5. /\ Spent => llmCalls' \in 0 .. MaxLlmCalls
      /\ Faulted => faults' \in 0 .. MaxFaults
  BY <1>0
<1> HIDE DEF Spent, Faulted, Added, Same
<1>6. Labeling(n) /\ NextNotice /\ Same /\ Spent /\ Faulted /\ (newRows' = newRows \/ Added)
  BY <1>2, <1>3, <1>4 DEF LabelStep
<1> QED
  BY <1>5, <1>6 DEF Added, Same
-----------------------------------------------------------------------------
(***************************************************************************)
(* The inductive invariant                                                 *)
(***************************************************************************)

\* What is listed or merged was seen on its board.
Posted == \A n \in Posts : list[n] # Absent \/ work[n] # Absent => onBoard[n] # NoText

\* The merged posts of a crawl have every listed post, and have its full generated
\* text, unless the board's notice has another version.
WorkKept ==
    phase = "enrich" =>
      \A n \in Posts : list[n] # Absent =>
        /\ work[n] # Absent
        /\ list[n].made /\ ~list[n].thin => work[n] = list[n] \/ work[n].ver # list[n].ver

\* A run knows the keys of the files it could read.  The rows it collects are of notices
\* it is past, one for a key, and no readable row has the key, as long as every run has
\* read the automatic labels.
RowsFresh ==
    /\ phase # "label" => newRows = << >>
    /\ phase = "label" => known \subseteq research \cup ReadableKeys(rows)
    /\ phase = "label" /\ "auto" \notin unread => ReadableKeys(rows) \subseteq known
    /\ \A i \in DOMAIN newRows :
         /\ "auto" \notin unread => newRows[i].key \notin ReadableKeys(rows)
         /\ \E m \in Posts : m < pos /\ KeyOf[m] = newRows[i].key
    /\ \A i, j \in DOMAIN newRows : newRows[i].key = newRows[j].key => i = j

\* A key that can be read has a first line, whose label counts.
Lines(k) == {i \in DOMAIN rows : rows[i].readable /\ rows[i].key = k}
FirstLines == \A k \in ReadableKeys(rows) : \E i \in Lines(k) : \A j \in Lines(k) : i <= j

\* A served label is of a listed notice, and a label file has it.
ServedFrom ==
    \A n \in Posts : served[n] # NoLabel =>
      /\ list[n] # Absent
      /\ \/ KeyOf[n] \in research /\ served[n] = ResearchLabel
         \/ KeyOf[n] \in ReadableKeys(rows) /\ served[n] = AutoLabel(KeyOf[n])

WorkInv == /\ TypeOK /\ Posted
           /\ BoardTextIsKept /\ WorkKept /\ CallsAreBounded
           /\ OneLabelPerKey /\ RowsFresh /\ FirstLines /\ ServedFrom

LEMMA WorkInit == Init => WorkInv
<1> SUFFICES ASSUME Init PROVE WorkInv
  OBVIOUS
<1> USE DEF Init, NoWork
<1>1. EnrichTypeOK
  <2>1. gotText \in BOOLEAN
    BY Zenon
  <2>2. work \in [Posts -> PostRecords] /\ pos \in Nat /\ asset \in Nat
        /\ calls \in 0 .. MaxCalls /\ requests \in Nat
    BY NoWorkTyped, EnrichmentAssumption
  <2> QED
    BY <2>1, <2>2 DEF EnrichTypeOK
<1>2. LabelsTypeOK
  BY LabelsAssumption, EmptySeq DEF LabelsTypeOK
<1>3. TypeOK
  BY <1>1, <1>2, NoWorkTyped, WorkAssumption DEF TypeOK
<1>4. Posted /\ WorkKept
  BY DEF Posted, WorkKept
<1>5. BoardTextIsKept
  BY DEF BoardTextIsKept, Absent
<1>6. CallsAreBounded
  BY EnrichmentAssumption DEF CallsAreBounded
<1>7. OneLabelPerKey /\ RowsFresh /\ FirstLines /\ ServedFrom
  BY DEF OneLabelPerKey, RowsFresh, FirstLines, ReadableKeys, ServedFrom
<1> QED
  BY <1>3, <1>4, <1>5, <1>6, <1>7 DEF WorkInv

\* What a crawl merges of the boards.
LEMMA MergedTyped ==
  ASSUME TypeOK, Posted, NEW due \in SUBSET Posts, NEW last, Crawl(due, last), NEW n \in Posts
  PROVE  /\ Merged(due, last)[n] \in PostRecords
         /\ list[n] # Absent => Merged(due, last)[n] # Absent
         /\ Merged(due, last)[n] # Absent => onBoard[n] # NoText
         /\ \/ Merged(due, last)[n] \in {list[n], Absent}
            \/ /\ onBoard[n] \in Versions /\ onBoard[n] # list[n].ver
               /\ Merged(due, last)[n] = Parsed(n, onBoard[n])
<1>1. list[n] \in PostRecords /\ onBoard[n] \in Versions \cup {NoText}
  BY DEF TypeOK
<1>2. Absent \in PostRecords /\ Absent.ver = NoText /\ NoText \notin Versions
  BY EnrichmentAssumption DEF PostRecords, Absent, NoText, Versions
<1>3. onBoard[n] # NoText => /\ Parsed(n, onBoard[n]) \in PostRecords
                             /\ Parsed(n, onBoard[n]) # Absent
  BY <1>1, ParsedTyped
<1>4. n <= last => onBoard[n] # NoText
  BY DEF Crawl
<1>5. list[n] # Absent => onBoard[n] # NoText
  BY DEF Posted
<1> HIDE DEF Merged
<1>6. Merged(due, last)[n] =
        IF list[n] # Absent
        THEN IF n \in due /\ list[n].ver # onBoard[n] THEN Parsed(n, onBoard[n]) ELSE list[n]
        ELSE IF n <= last THEN Parsed(n, onBoard[n]) ELSE Absent
  BY DEF Merged, NeedsUpdate, ApplyUpdate
<1> QED
  BY <1>1, <1>2, <1>3, <1>4, <1>5, <1>6

\* The first line of a key is the one that is chosen.
LEMMA FirstChosen ==
  ASSUME NEW S, S \subseteq Nat, NEW i \in S, \A j \in S : i <= j
  PROVE  (CHOOSE l \in S : \A j \in S : l <= j) = i
<1>1. \A l \in S : (\A j \in S : l <= j) => l = i
  OBVIOUS
<1> QED
  BY <1>1

\* The label that counts for a key is that of a readable row of the key.
LEMMA AutoLabelIs ==
  ASSUME rows \in Seq(Rows), FirstLines, NEW k \in ReadableKeys(rows)
  PROVE  /\ AutoLabel(k) \in Labels
         /\ \E i \in Lines(k) : AutoLabel(k) = rows[i].label /\ \A j \in Lines(k) : i <= j
<1>1. PICK i \in Lines(k) : \A j \in Lines(k) : i <= j
  BY DEF FirstLines
<1>2. DOMAIN rows = 1 .. Len(rows) /\ Len(rows) \in Nat
  BY LenProperties
<1>3. Lines(k) \subseteq Nat /\ rows[i] \in Rows
  BY <1>1, <1>2 DEF Lines
<1>4. (CHOOSE l \in Lines(k) : \A j \in Lines(k) : l <= j) = i
  BY <1>1, <1>3, FirstChosen
<1>5. AutoLabel(k) = rows[i].label
  BY <1>4 DEF AutoLabel, Lines
<1> QED
  BY <1>1, <1>3, <1>5 DEF Rows

\* A label that the files have for a key.
LEMMA LabelFrom ==
  ASSUME TypeOK, FirstLines, NEW k, NEW read, LabelOf(k, read) # NoLabel
  PROVE  /\ LabelOf(k, read) \in Labels \cup {ResearchLabel}
         /\ \/ k \in research /\ LabelOf(k, read) = ResearchLabel
            \/ k \in ReadableKeys(rows) /\ LabelOf(k, read) = AutoLabel(k)
<1>1. CASE "research" \in read /\ k \in research
  BY <1>1 DEF LabelOf
<1>2. CASE ~("research" \in read /\ k \in research)
  <2>1. k \in ReadableKeys(rows) /\ LabelOf(k, read) = AutoLabel(k)
    BY <1>2 DEF LabelOf
  <2> QED
    BY <2>1, AutoLabelIs DEF TypeOK, LabelsTypeOK
<1> QED
  BY <1>1, <1>2
-----------------------------------------------------------------------------
(***************************************************************************)
(* Every step keeps it                                                     *)
(***************************************************************************)

\* A step keeps the types, and what is listed or merged was posted.
LEMMA TypeStep ==
  ASSUME TypeOK, Posted, FirstLines, [Next]_vars
  PROVE  TypeOK' /\ Posted'
<1>0. /\ EnrichTypeOK /\ LabelsTypeOK
      /\ onBoard \in [Posts -> Versions \cup {NoText}] /\ list \in [Posts -> PostRecords]
      /\ served \in [Posts -> Labels \cup {ResearchLabel, NoLabel}]
      /\ config \in Configs /\ faults \in 0 .. MaxFaults
      /\ phase \in {"idle", "enrich", "load", "label", "ingest", "failed"}
      /\ known \subseteq Keys /\ unread \subseteq {"auto"}
      /\ rows \in Seq(Rows) /\ newRows \in Seq(Rows) /\ research \subseteq Reviewed
      /\ llmCalls \in 0 .. MaxLlmCalls /\ MaxLlmCalls \in Nat /\ MaxFaults \in Nat
      /\ work \in [Posts -> PostRecords] /\ pos \in Nat
  BY LabelsAssumption, WorkAssumption DEF TypeOK, LabelsTypeOK, EnrichTypeOK
<1>1. /\ << >> \in Seq(Rows) /\ 0 \in 0 .. MaxLlmCalls
      /\ Fault => faults' \in 0 .. MaxFaults
  BY <1>0, EmptySeq DEF Fault
<1>2. UNCHANGED labelVars => LabelsTypeOK'
  BY <1>0 DEF labelVars, LabelsTypeOK
<1>3. \A first \in Nat : DropWork(first) => EnrichTypeOK' /\ work' = NoWork
  <2> SUFFICES ASSUME NEW first \in Nat, DropWork(first) PROVE EnrichTypeOK' /\ work' = NoWork
    OBVIOUS
  <2>1. work' \in [Posts -> PostRecords] /\ pos' \in Nat
    BY NoWorkTyped DEF DropWork
  <2> QED
    BY <2>1, EnrichReset DEF DropWork
<1>4. \A n \in Posts : NoWork[n] = Absent
  BY DEF NoWork
<1>5. ASSUME NEW n \in Posts, Post(n) \/ Edit(n) PROVE TypeOK' /\ Posted'
  <2>1. onBoard' \in [Posts -> Versions \cup {NoText}]
    <3>1. 0 \in Versions
      BY EnrichmentAssumption DEF Versions
    <3>2. Edit(n) => onBoard[n] + 1 \in Versions
      BY <1>0, EnrichmentAssumption, WorkAssumption DEF Edit, Versions, NoText
    <3> QED
      BY <1>0, <1>5, <3>1, <3>2 DEF Post, Edit
  <2>2. \A m \in Posts : onBoard[m] # NoText => onBoard'[m] # NoText
    BY <1>0, <1>5, EnrichmentAssumption, WorkAssumption DEF Post, Edit, Versions, NoText
  <2>3. UNCHANGED <<enrichVars, labelVars, list, served, phase, config, faults>>
    BY <1>5 DEF Post, Edit
  <2>4. EnrichTypeOK' /\ LabelsTypeOK' /\ work' = work
    BY <1>0, <1>2, <2>3, EnrichKept DEF enrichVars
  <2> QED
    BY <1>0, <2>1, <2>2, <2>3, <2>4 DEF TypeOK, Posted
<1>6. ASSUME NEW n \in Posts, Enrich(n) PROVE TypeOK' /\ Posted'
  <2>1. EnrichPost(n, config.hasKey) /\ UNCHANGED <<labelVars, workVars>>
    BY <1>6 DEF Enrich
  <2>2. EnrichTypeOK' /\ \A m \in Posts : work'[m] # Absent => work[m] # Absent
    BY <1>0, <2>1, EnrichSteps
  <2> QED
    BY <1>0, <1>2, <2>1, <2>2 DEF TypeOK, Posted, workVars
<1>7. ASSUME NEW n \in Posts, AssetRaises(n) PROVE TypeOK' /\ Posted'
  BY <1>0, <1>1, <1>2, <1>3, <1>4, <1>7 DEF AssetRaises, TypeOK, Posted
<1>8. ASSUME NEW n \in Posts, LabelStep(n) PROVE TypeOK' /\ Posted'
  <2>1. /\ UNCHANGED <<rows, research, known, unread, onBoard, list, served, phase, config>>
        /\ NextNotice
        /\ llmCalls' \in 0 .. MaxLlmCalls /\ faults' \in 0 .. MaxFaults
        /\ newRows' = newRows \/ \E row \in Rows : newRows' = Append(newRows, row)
    BY <1>8, LabelSteps
  <2>2. newRows' \in Seq(Rows)
    <3>1. CASE newRows' = newRows
      BY <1>0, <3>1
    <3>2. ASSUME NEW row \in Rows, newRows' = Append(newRows, row) PROVE newRows' \in Seq(Rows)
      BY <1>0, <3>2, AppendProperties
    <3> QED
      BY <2>1, <3>1, <3>2
  <2>3. LabelsTypeOK'
    BY <1>0, <2>1, <2>2 DEF LabelsTypeOK
  <2>4. EnrichTypeOK'
    BY <1>0, <2>1 DEF EnrichTypeOK, NextNotice
  <2> QED
    BY <1>0, <2>1, <2>3, <2>4 DEF TypeOK, Posted, NextNotice
<1>9. ASSUME NEW due \in SUBSET Posts, NEW last, Crawl(due, last) PROVE TypeOK' /\ Posted'
  <2>1. \A n \in Posts : Merged(due, last)[n] \in PostRecords
                         /\ (Merged(due, last)[n] # Absent => onBoard[n] # NoText)
    BY <1>9, MergedTyped
  <2>2. Merged(due, last) \in [Posts -> PostRecords]
    BY <2>1 DEF Merged
  <2>3. EnrichTypeOK'
    BY <1>9, <2>2, EnrichReset DEF Crawl
  <2> QED
    BY <1>0, <1>2, <1>9, <2>1, <2>3 DEF Crawl, TypeOK, Posted
<1>10. ASSUME NEW k \in Keys, Deploy(k) PROVE TypeOK' /\ Posted'
  <2>1. LabelsTypeOK' /\ UNCHANGED <<enrichVars, workVars>>
    BY <1>0, <1>10 DEF Deploy, DeployResearch, LabelsTypeOK
  <2> QED
    BY <1>0, <2>1, EnrichKept DEF TypeOK, Posted, workVars, enrichVars
<1>11. CASE Publish
  <2>1. EnrichTypeOK' /\ work' = NoWork
    BY <1>3, <1>11 DEF Publish
  <2> QED
    BY <1>0, <1>2, <1>4, <1>11, <2>1 DEF Publish, TypeOK, Posted
<1>12. CASE SaveLabels
  <2>1. LabelsTypeOK'
    BY <1>0, <1>1, <1>12, ConcatProperties DEF SaveLabels, AppendRows, LabelsTypeOK
  <2> QED
    BY <1>0, <1>12, <2>1, EnrichKept DEF SaveLabels, TypeOK, Posted, enrichVars
<1>13. CASE SaveFails
  <2>1. LabelsTypeOK'
    BY <1>0, <1>1, <1>13 DEF SaveFails, LoseRows, LabelsTypeOK
  <2> QED
    BY <1>0, <1>1, <1>13, <2>1, EnrichKept DEF SaveFails, TypeOK, Posted, enrichVars
<1>14. ASSUME NEW read, Ingest(read) PROVE TypeOK' /\ Posted'
  <2>1. served' \in [Posts -> Labels \cup {ResearchLabel, NoLabel}]
    BY <1>14, LabelFrom DEF Ingest
  <2>2. faults' \in 0 .. MaxFaults
    BY <1>0, <1>1, <1>14 DEF Ingest, Readable
  <2> QED
    BY <1>0, <1>2, <1>3, <1>4, <1>14, <2>1, <2>2 DEF Ingest, TypeOK, Posted
<1>15. CASE CutOff
  <2>1. LabelsTypeOK'
    BY <1>0, <1>1, <1>15 DEF CutOff, LoseRows, LabelsTypeOK
  <2> QED
    BY <1>0, <1>1, <1>3, <1>4, <1>15, <2>1 DEF CutOff, TypeOK, Posted
<1>16. CASE UNCHANGED vars
  BY <1>0, <1>2, <1>16, EnrichKept DEF vars, TypeOK, Posted, enrichVars
<1>17. ASSUME NEW read, BeginLabeling(read) PROVE TypeOK' /\ Posted'
  <2>1. ReadableKeys(rows) \subseteq Keys
    <3>1. \A i \in DOMAIN rows : rows[i] \in Rows
      BY <1>0
    <3>2. \A row \in Rows : row.key \in Keys
      BY DEF Rows
    <3> QED
      BY <3>1, <3>2 DEF ReadableKeys
  <2>2. known' \subseteq Keys /\ unread' \subseteq {"auto"}
    BY <1>0, <1>17, <2>1, LabelsAssumption DEF BeginLabeling, LoadKnown, KeysRead
  <2>3. LabelsTypeOK'
    BY <1>0, <1>17, <2>2 DEF BeginLabeling, LoadKnown, LabelsTypeOK
  <2>4. faults' \in 0 .. MaxFaults
    BY <1>0, <1>1, <1>17 DEF BeginLabeling, Readable
  <2> QED
    BY <1>0, <1>17, <2>3, <2>4, EnrichKept DEF BeginLabeling, TypeOK, Posted, enrichVars
<1> QED
  BY <1>5, <1>6, <1>7, <1>8, <1>9, <1>10, <1>11, <1>12, <1>13, <1>14, <1>15, <1>16, <1>17 DEF Next
\* No step overwrites the board's text that a post keeps, or takes back a text that was
\* paid for.
LEMMA TextStep ==
  ASSUME TypeOK, Posted, BoardTextIsKept, WorkKept, [Next]_vars
  PROVE  /\ BoardTextIsKept' /\ WorkKept'
         /\ \A n \in Posts :
              /\ list[n].made /\ ~list[n].thin /\ list'[n] # list[n] => list'[n].ver # list[n].ver
              /\ list[n] # Absent => list'[n] # Absent
<1> DEFINE Good(post) == /\ post.made => post.original = post.ver
                         /\ ~post.made => post.original = NoText
           Keeps(l, w) == l # Absent => /\ w # Absent
                                        /\ l.made /\ ~l.thin => w = l \/ w.ver # l.ver
           Paid == \A n \in Posts :
              /\ list[n].made /\ ~list[n].thin /\ list'[n] # list[n] => list'[n].ver # list[n].ver
              /\ list[n] # Absent => list'[n] # Absent
<1> SUFFICES BoardTextIsKept' /\ WorkKept' /\ Paid
  OBVIOUS
<1>0. /\ work \in [Posts -> PostRecords] /\ list \in [Posts -> PostRecords]
      /\ \A n \in Posts : Good(list[n]) /\ Good(work[n])
      /\ phase = "enrich" => \A n \in Posts : Keeps(list[n], work[n])
  BY DEF TypeOK, EnrichTypeOK, BoardTextIsKept, WorkKept
<1>1. ASSUME \A n \in Posts : Good(list'[n]) /\ Good(work'[n]) PROVE BoardTextIsKept'
  BY <1>1 DEF BoardTextIsKept
<1>2. ASSUME list' = list PROVE Paid
  BY <1>2
<1>3. Good(Absent) /\ \A n \in Posts : NoWork[n] = Absent
  BY DEF Absent, NoWork
<1>4. ASSUME list' = list,
             \/ work' = work /\ phase' = phase
             \/ work' \in {work, NoWork} /\ phase' # "enrich"
      PROVE  BoardTextIsKept' /\ WorkKept' /\ Paid
  BY <1>0, <1>1, <1>2, <1>3, <1>4 DEF WorkKept
<1>5. ASSUME NEW n \in Posts, Post(n) \/ Edit(n) \/ AssetRaises(n)
      PROVE  BoardTextIsKept' /\ WorkKept' /\ Paid
  <2>1. CASE Post(n) \/ Edit(n)
    <3>1. work' = work /\ UNCHANGED <<list, phase>>
      BY <2>1 DEF Post, Edit, enrichVars
    <3> QED
      BY <1>4, <3>1
  <2>2. CASE AssetRaises(n)
    <3>1. work' = NoWork /\ list' = list /\ phase' = "failed"
      BY <2>2 DEF AssetRaises, DropWork
    <3> QED
      BY <1>4, <3>1
  <2> QED
    BY <1>5, <2>1, <2>2
<1>6. ASSUME NEW n \in Posts, Enrich(n) PROVE BoardTextIsKept' /\ WorkKept' /\ Paid
  <2>1. EnrichTypeOK /\ EnrichPost(n, config.hasKey) /\ UNCHANGED <<list, phase>>
    BY <1>6 DEF Enrich, workVars, TypeOK
  <2>2. CASE work' = work
    BY <1>4, <2>1, <2>2
  <2>3. CASE /\ work[n] # Absent /\ work[n].thin
             /\ \E thin \in BOOLEAN : work' = [work EXCEPT ![n] = Enriched(work[n], thin)]
    <3>1. PICK thin \in BOOLEAN : work' = [work EXCEPT ![n] = Enriched(work[n], thin)]
      BY <2>3
    <3>2. /\ work'[n] = Enriched(work[n], thin)
          /\ \A m \in Posts : m # n => work'[m] = work[m]
      BY <1>0, <3>1
    <3>3. /\ work'[n].ver = work[n].ver /\ work'[n].made = TRUE
          /\ work'[n].original = IF work[n].original = NoText THEN work[n].ver ELSE work[n].original
          /\ work[n].ver # NoText
      <4>1. work[n] \in PostRecords /\ work[n] # Absent
        BY <1>0, <2>3
      <4>2. work[n].ver # NoText
        BY <4>1, RecordFields
      <4>3. /\ Enriched(work[n], thin).ver = work[n].ver
            /\ Enriched(work[n], thin).made = TRUE
            /\ Enriched(work[n], thin).original =
                 IF work[n].original = NoText THEN work[n].ver ELSE work[n].original
        BY <4>1, EnrichedTyped
      <4> QED
        BY <3>2, <4>2, <4>3
    <3>4. work'[n] # Absent
      BY <3>3 DEF Absent
    <3>5. work[n].made \in BOOLEAN
      BY <1>0, <2>3, RecordFields
    <3>6. Good(work'[n])
      BY <1>0, <3>3, <3>5
    <3>7. Keeps(list[n], work[n]) => Keeps(list[n], work'[n])
      BY <2>3, <3>3, <3>4
    <3>8. BoardTextIsKept'
      BY <1>0, <1>1, <2>1, <3>2, <3>6
    <3>9. WorkKept'
      BY <1>0, <2>1, <3>2, <3>7 DEF WorkKept
    <3> QED
      BY <1>2, <2>1, <3>8, <3>9
  <2> QED
    BY <2>1, <2>2, <2>3, EnrichSteps
<1>7. ASSUME NEW n \in Posts, LabelStep(n) PROVE BoardTextIsKept' /\ WorkKept' /\ Paid
  BY <1>4, <1>7, LabelSteps DEF NextNotice
<1>8. ASSUME NEW due \in SUBSET Posts, NEW last, Crawl(due, last)
      PROVE  BoardTextIsKept' /\ WorkKept' /\ Paid
  <2>1. list' = list /\ \A n \in Posts : work'[n] = Merged(due, last)[n]
    BY <1>8 DEF Crawl
  <2>2. ASSUME NEW n \in Posts PROVE Good(work'[n]) /\ Keeps(list[n], work'[n])
    <3>1. CASE work'[n] \in {list[n], Absent}
      BY <1>0, <1>3, <1>8, <2>1, <3>1, MergedTyped
    <3>2. CASE onBoard[n] \in Versions /\ onBoard[n] # list[n].ver
               /\ work'[n] = Parsed(n, onBoard[n])
      <4>1. work'[n].ver = onBoard[n] /\ work'[n].made = FALSE /\ work'[n].original = NoText
        BY <3>2 DEF Parsed
      <4>2. work'[n] # Absent
        BY <3>2, ParsedTyped
      <4> QED
        BY <3>2, <4>1, <4>2
    <3> QED
      BY <1>8, <2>1, <3>1, <3>2, MergedTyped
  <2>3. BoardTextIsKept'
    BY <1>0, <1>1, <2>1, <2>2
  <2> QED
    BY <1>2, <2>1, <2>2, <2>3 DEF WorkKept
<1>9. CASE Publish
  <2>1. phase = "enrich" /\ phase' # "enrich" /\ list' = work /\ work' = NoWork
    BY <1>9 DEF Publish, DropWork
  <2>2. BoardTextIsKept'
    BY <1>0, <1>1, <1>3, <2>1
  <2>3. Paid
    <3> SUFFICES ASSUME NEW n \in Posts
                 PROVE  /\ list[n].made /\ ~list[n].thin /\ work[n] # list[n]
                              => work[n].ver # list[n].ver
                        /\ list[n] # Absent => work[n] # Absent
      BY <2>1
    <3>1. list[n].made => list[n] # Absent
      BY DEF Absent
    <3> QED
      BY <1>0, <2>1, <3>1
  <2> QED
    BY <2>1, <2>2, <2>3 DEF WorkKept
<1>10. CASE SaveLabels \/ SaveFails \/ (\E k \in Keys : Deploy(k))
            \/ \E read : BeginLabeling(read)
  <2>1. work' = work /\ list' = list /\ (phase' = phase \/ phase' \in {"label", "ingest"})
    BY <1>10 DEF SaveLabels, SaveFails, Deploy, BeginLabeling, enrichVars, workVars
  <2> QED
    BY <1>4, <2>1
<1>11. CASE CutOff \/ \E read : Ingest(read)
  <2>1. work' = NoWork /\ list' = list /\ phase' = "idle"
    BY <1>11 DEF Ingest, CutOff, DropWork
  <2> QED
    BY <1>4, <2>1
<1>12. CASE UNCHANGED vars
  BY <1>4, <1>12 DEF vars, enrichVars
<1> HIDE DEF Paid
<1> QED
  BY <1>5, <1>6, <1>7, <1>8, <1>9, <1>10, <1>11, <1>12 DEF Next

\* No step makes a call that the budget does not have, or sends more than two requests.
LEMMA CallsStep ==
  ASSUME TypeOK, CallsAreBounded, [Next]_vars
  PROVE  CallsAreBounded'
<1>0. EnrichTypeOK /\ calls \in 0 .. MaxCalls /\ MaxCalls \in Nat /\ requests \in Nat
  BY EnrichmentAssumption DEF TypeOK, EnrichTypeOK
<1>1. ASSUME calls' = 0, requests' = 0 PROVE CallsAreBounded'
  BY <1>0, <1>1 DEF CallsAreBounded
<1>2. ASSUME UNCHANGED <<calls, requests>> PROVE CallsAreBounded'
  BY <1>2 DEF CallsAreBounded
<1>3. ASSUME NEW n \in Posts, Enrich(n) PROVE CallsAreBounded'
  <2>1. EnrichTypeOK' /\ \/ calls' = calls /\ requests' = requests
                         \/ calls' = calls + 1 /\ requests' \in {requests + 1, requests + 2}
    BY <1>0, <1>3, EnrichSteps DEF Enrich
  <2>2. calls' \in 0 .. MaxCalls
    BY <2>1 DEF EnrichTypeOK
  <2> QED
    BY <1>0, <2>1, <2>2 DEF CallsAreBounded
<1>4. ASSUME NEW n \in Posts, Post(n) \/ Edit(n) \/ LabelStep(n) PROVE CallsAreBounded'
  BY <1>2, <1>4, LabelSteps DEF Post, Edit, NextNotice, enrichVars
<1>5. ASSUME NEW n \in Posts, AssetRaises(n) PROVE CallsAreBounded'
  BY <1>1, <1>5 DEF AssetRaises, DropWork, NewService
<1>6. ASSUME NEW due, NEW last, Crawl(due, last) PROVE CallsAreBounded'
  BY <1>1, <1>6 DEF Crawl, NewService
<1>7. CASE Publish \/ CutOff \/ \E read : Ingest(read)
  BY <1>1, <1>7 DEF Publish, Ingest, CutOff, DropWork, NewService
<1>8. CASE SaveLabels \/ SaveFails \/ UNCHANGED vars \/ (\E k \in Keys : Deploy(k))
           \/ \E read : BeginLabeling(read)
  BY <1>2, <1>8 DEF SaveLabels, SaveFails, Deploy, BeginLabeling, vars, enrichVars
<1> QED
  BY <1>3, <1>4, <1>5, <1>6, <1>7, <1>8 DEF Next
\* The readable rows stay readable, and keep their labels, when rows are appended.
LEMMA RowsAppended ==
  ASSUME rows \in Seq(Rows), newRows \in Seq(Rows), rows' = rows \o newRows
  PROVE  /\ rows' \in Seq(Rows)
         /\ DOMAIN rows \subseteq DOMAIN rows'
         /\ \A i \in DOMAIN rows : rows'[i] = rows[i]
         /\ \A i \in DOMAIN rows' \ DOMAIN rows :
              /\ i - Len(rows) \in DOMAIN newRows
              /\ rows'[i] = newRows[i - Len(rows)]
         /\ DOMAIN rows \subseteq Nat /\ DOMAIN rows' \subseteq Nat /\ Len(rows) \in Nat
<1>1. /\ rows' \in Seq(Rows) /\ Len(rows') = Len(rows) + Len(newRows)
      /\ \A i \in 1 .. Len(rows) + Len(newRows) :
           rows'[i] = IF i <= Len(rows) THEN rows[i] ELSE newRows[i - Len(rows)]
  BY ConcatProperties
<1>2. /\ DOMAIN rows = 1 .. Len(rows) /\ DOMAIN newRows = 1 .. Len(newRows)
      /\ DOMAIN rows' = 1 .. Len(rows') /\ Len(rows) \in Nat /\ Len(newRows) \in Nat
  BY <1>1, LenProperties
<1> QED
  BY <1>1, <1>2

\* A key that can be read keeps its label, whatever is appended.
LEMMA LabelKept ==
  ASSUME rows \in Seq(Rows), newRows \in Seq(Rows), FirstLines,
         rows' = rows \/ rows' = rows \o newRows, NEW k \in ReadableKeys(rows)
  PROVE  /\ k \in ReadableKeys(rows')
         /\ AutoLabel(k)' = AutoLabel(k)
         /\ \E i \in Lines(k)' : \A j \in Lines(k)' : i <= j
<1>1. PICK i \in Lines(k) : AutoLabel(k) = rows[i].label /\ \A j \in Lines(k) : i <= j
  BY AutoLabelIs
<1>2. /\ DOMAIN rows = 1 .. Len(rows) /\ Len(rows) \in Nat
      /\ DOMAIN rows' \subseteq Nat /\ DOMAIN rows \subseteq DOMAIN rows'
      /\ \A j \in DOMAIN rows : rows'[j] = rows[j]
  BY LenProperties, RowsAppended
<1>3. i \in Lines(k)' /\ i \in DOMAIN rows
  BY <1>1, <1>2 DEF Lines
<1>4. ASSUME NEW j \in Lines(k)' PROVE i <= j
  <2>1. CASE j \in DOMAIN rows
    BY <1>1, <1>2, <1>4, <2>1 DEF Lines
  <2>2. CASE j \notin DOMAIN rows
    <3>1. j \in DOMAIN rows' /\ j \in Nat
      BY <1>2, <1>4 DEF Lines
    <3>2. rows' = rows \o newRows
      BY <2>2, <3>1
    <3>3. j - Len(rows) \in 1 .. Len(newRows) /\ Len(newRows) \in Nat
      BY <2>2, <3>1, <3>2, RowsAppended, LenProperties
    <3> QED
      BY <1>2, <1>3, <3>1, <3>3
  <2> QED
    BY <2>1, <2>2
<1>5. k \in ReadableKeys(rows')
  BY <1>3 DEF Lines, ReadableKeys
<1>6. Lines(k)' \subseteq Nat
  BY <1>2 DEF Lines
<1>7. (CHOOSE l \in Lines(k)' : \A j \in Lines(k)' : l <= j) = i
  BY <1>3, <1>4, <1>6, FirstChosen
<1>8. AutoLabel(k)' = rows'[i].label
  BY <1>7 DEF AutoLabel, Lines
<1> QED
  BY <1>1, <1>2, <1>3, <1>4, <1>5, <1>8

\* Nor does a key lose its first line, since a run adds one line for it at most.
LEMMA FirstStep ==
  ASSUME rows \in Seq(Rows), newRows \in Seq(Rows), FirstLines, RowsFresh,
         rows' = rows \/ rows' = rows \o newRows
  PROVE  FirstLines'
<1> SUFFICES ASSUME NEW k \in ReadableKeys(rows')
             PROVE  \E i \in Lines(k)' : \A j \in Lines(k)' : i <= j
  BY DEF FirstLines
<1>1. CASE k \in ReadableKeys(rows)
  BY <1>1, LabelKept
<1>2. CASE k \notin ReadableKeys(rows)
  <2>1. PICK i \in DOMAIN rows' : rows'[i].readable /\ rows'[i].key = k
    BY DEF ReadableKeys
  <2>2. \A j \in DOMAIN rows : ~(rows[j].readable /\ rows[j].key = k)
    BY <1>2 DEF ReadableKeys
  <2>3. rows' = rows \o newRows
    BY <2>1, <2>2
  <2>4. ASSUME NEW j \in Lines(k)' PROVE i = j
    <3>1. i \in DOMAIN rows' \ DOMAIN rows /\ j \in DOMAIN rows' \ DOMAIN rows
      BY <2>1, <2>2, <2>3, <2>4, RowsAppended DEF Lines
    <3>2. i - Len(rows) = j - Len(rows)
      BY <2>1, <2>3, <2>4, <3>1, RowsAppended DEF Lines, RowsFresh
    <3> QED
      BY <2>3, <3>1, <3>2, RowsAppended
  <2>5. i \in Lines(k)' /\ i \in Nat
    BY <2>1, <2>3, RowsAppended DEF Lines
  <2> QED
    BY <2>4, <2>5
<1> QED
  BY <1>1, <1>2

\* No step labels a key twice, unless a run could not read the automatic labels.
LEMMA RowsStep ==
  ASSUME TypeOK, OneLabelPerKey, RowsFresh, [Next]_vars
  PROVE  OneLabelPerKey' /\ RowsFresh'
<1>0. /\ rows \in Seq(Rows) /\ newRows \in Seq(Rows) /\ pos \in Nat /\ Posts \subseteq Nat
      /\ DOMAIN newRows = 1 .. Len(newRows) /\ Len(newRows) \in Nat
  BY EnrichmentAssumption, LenProperties DEF TypeOK, LabelsTypeOK, EnrichTypeOK
<1>1. ASSUME rows' = rows, newRows' = << >>, unread' = unread, phase' # "label"
      PROVE  OneLabelPerKey' /\ RowsFresh'
  BY <1>1 DEF OneLabelPerKey, RowsFresh
<1>2. ASSUME rows' = rows, newRows' = newRows, unread' = unread, phase # "label", phase' # "label"
      PROVE  OneLabelPerKey' /\ RowsFresh'
  BY <1>1, <1>2 DEF RowsFresh
<1>3. ASSUME NEW n \in Posts, LabelStep(n) PROVE OneLabelPerKey' /\ RowsFresh'
  <2>1. /\ phase = "label" /\ phase' = phase /\ pos = n /\ pos' = pos + 1 /\ rows' = rows
        /\ UNCHANGED <<research, known, unread>>
    BY <1>3, LabelSteps DEF Labeling, NextNotice
  <2>2. OneLabelPerKey'
    BY <2>1 DEF OneLabelPerKey
  <2>3. CASE newRows' = newRows
    BY <1>0, <2>1, <2>2, <2>3 DEF RowsFresh, ReadableKeys
  <2>4. ASSUME Unlabeled(Earlier(n), KeyOf[n]),
               NEW row \in Rows, row.key = KeyOf[n], newRows' = Append(newRows, row)
        PROVE  RowsFresh'
    <3>1. /\ "auto" \notin unread => KeyOf[n] \notin ReadableKeys(rows)
          /\ \A m \in Posts : m < n => KeyOf[m] # KeyOf[n]
      BY <2>1, <2>4 DEF RowsFresh, Unlabeled, Known, Seen, Earlier
    <3>2. /\ newRows' \in Seq(Rows) /\ Len(newRows') = Len(newRows) + 1
          /\ \A i \in 1 .. Len(newRows) : newRows'[i] = newRows[i]
          /\ newRows'[Len(newRows) + 1] = row
      BY <1>0, <2>4, AppendProperties
    <3>3. DOMAIN newRows' = 1 .. Len(newRows) + 1
      BY <3>2, LenProperties
    <3>4. \A i \in 1 .. Len(newRows) :
            /\ "auto" \notin unread => newRows[i].key \notin ReadableKeys(rows)
            /\ newRows[i].key # row.key
            /\ \E m \in Posts : m < pos /\ KeyOf[m] = newRows[i].key
      BY <1>0, <2>1, <2>4, <3>1 DEF RowsFresh
    <3>5. ReadableKeys(rows)' = ReadableKeys(rows)
      BY <2>1 DEF ReadableKeys
    <3>6. ASSUME NEW i \in DOMAIN newRows'
          PROVE  /\ "auto" \notin unread => newRows'[i].key \notin ReadableKeys(rows)
                 /\ \E m \in Posts : m < pos' /\ KeyOf[m] = newRows'[i].key
      <4>1. CASE i \in 1 .. Len(newRows)
        BY <1>0, <2>1, <3>2, <3>4, <4>1
      <4>2. CASE i = Len(newRows) + 1
        <5>1. newRows'[i].key = KeyOf[n]
          BY <2>4, <3>2, <4>2
        <5>2. n < pos'
          BY <1>0, <2>1
        <5> QED
          BY <3>1, <5>1, <5>2
      <4>3. i \in 1 .. Len(newRows) \/ i = Len(newRows) + 1
        BY <1>0, <3>3
      <4> QED
        BY <4>1, <4>2, <4>3
    <3>7. ASSUME NEW i \in DOMAIN newRows', NEW j \in DOMAIN newRows',
                 newRows'[i].key = newRows'[j].key
          PROVE  i = j
      BY <1>0, <3>2, <3>3, <3>4, <3>7 DEF RowsFresh
    <3> QED
      BY <2>1, <3>5, <3>6, <3>7 DEF RowsFresh
  <2> QED
    BY <1>3, <2>2, <2>3, <2>4, LabelSteps
<1>4. CASE SaveLabels
  <2>1. rows' = rows \o newRows /\ newRows' = << >> /\ unread' = unread /\ phase' # "label"
    BY <1>4 DEF SaveLabels, AppendRows
  <2>2. ASSUME "auto" \notin unread, NEW i \in DOMAIN rows', NEW j \in DOMAIN rows',
               rows'[i].readable, rows'[j].readable, rows'[i].key = rows'[j].key
        PROVE  i = j
    <3>1. ASSUME NEW a \in DOMAIN rows, NEW b \in DOMAIN newRows, rows[a].readable
          PROVE  rows[a].key # newRows[b].key
      BY <2>2, <3>1 DEF RowsFresh, ReadableKeys
    <3>2. CASE i \in DOMAIN rows /\ j \in DOMAIN rows
      BY <1>0, <2>1, <2>2, <3>2, RowsAppended DEF OneLabelPerKey
    <3>3. CASE i \notin DOMAIN rows /\ j \notin DOMAIN rows
      <4>1. i - Len(rows) = j - Len(rows)
        BY <1>0, <2>1, <2>2, <3>3, RowsAppended DEF RowsFresh
      <4>2. i \in Nat /\ j \in Nat /\ Len(rows) \in Nat
        BY <1>0, <2>1, RowsAppended
      <4> QED
        BY <4>1, <4>2
    <3> QED
      BY <1>0, <2>1, <2>2, <3>1, <3>2, <3>3, RowsAppended
  <2>3. RowsFresh'
    BY <2>1 DEF RowsFresh
  <2> QED
    BY <2>1, <2>2, <2>3 DEF OneLabelPerKey
<1>5. CASE SaveFails \/ CutOff
  BY <1>1, <1>5 DEF SaveFails, CutOff, LoseRows
<1>6. ASSUME NEW n \in Posts, Post(n) \/ Edit(n) \/ Enrich(n) \/ AssetRaises(n)
      PROVE  OneLabelPerKey' /\ RowsFresh'
  BY <1>2, <1>6 DEF Post, Edit, Enrich, AssetRaises, labelVars, workVars
<1>7. CASE \/ Publish \/ (\E due \in SUBSET Posts, last \in {0} \cup Posts : Crawl(due, last))
           \/ (\E k \in Keys : Deploy(k)) \/ \E read : Ingest(read)
  BY <1>2, <1>7 DEF Publish, Ingest, Crawl, Deploy, DeployResearch, labelVars, workVars
<1>8. CASE UNCHANGED vars
  BY <1>8 DEF vars, labelVars, enrichVars, OneLabelPerKey, RowsFresh, ReadableKeys
<1>9. ASSUME NEW read, BeginLabeling(read) PROVE OneLabelPerKey' /\ RowsFresh'
  <2>1. /\ rows' = rows /\ research' = research /\ newRows' = newRows /\ phase = "load"
        /\ known' = KeysRead(read) /\ unread' = unread \cup ({"auto"} \ read)
    BY <1>9 DEF BeginLabeling, LoadKnown
  <2>2. newRows' = << >>
    BY <2>1 DEF RowsFresh
  <2>3. /\ known' \subseteq research \cup ReadableKeys(rows)
        /\ "auto" \notin unread' => ReadableKeys(rows) \subseteq known'
    BY <2>1 DEF KeysRead
  <2>4. ReadableKeys(rows') = ReadableKeys(rows)
    BY <2>1
  <2>5. OneLabelPerKey'
    BY <2>1 DEF OneLabelPerKey
  <2> HIDE DEF ReadableKeys
  <2>6. RowsFresh'
    BY <2>1, <2>2, <2>3, <2>4 DEF RowsFresh
  <2> QED
    BY <2>5, <2>6
<1> QED
  BY <1>3, <1>4, <1>5, <1>6, <1>7, <1>8, <1>9 DEF Next

\* No step takes a label of the file back, or a served one, but for the exceptions.
LEMMA ServedStep ==
  ASSUME WorkInv, [Next]_vars, \A n \in Posts : list[n] # Absent => list'[n] # Absent
  PROVE  /\ FirstLines' /\ ServedFrom'
         /\ \A k \in ReadableKeys(rows) :
              k \in ReadableKeys(rows') /\ AutoLabel(k)' = AutoLabel(k)
         /\ \A n \in Posts : served[n] # NoLabel /\ served'[n] # served[n] =>
              \/ served'[n] = ResearchLabel
              \/ phase = "ingest" /\ faults' = faults + 1
<1>0. /\ TypeOK /\ FirstLines /\ RowsFresh /\ ServedFrom
      /\ rows \in Seq(Rows) /\ newRows \in Seq(Rows)
  BY DEF WorkInv, TypeOK, LabelsTypeOK
<1> DEFINE Kept == \A k \in ReadableKeys(rows) :
                     k \in ReadableKeys(rows') /\ AutoLabel(k)' = AutoLabel(k)
           Stay == \A n \in Posts : served[n] # NoLabel /\ served'[n] # served[n] =>
                     \/ served'[n] = ResearchLabel
                     \/ phase = "ingest" /\ faults' = faults + 1
<1> SUFFICES FirstLines' /\ ServedFrom' /\ Kept /\ Stay
  OBVIOUS
<1>a. ASSUME rows' = rows \/ rows' = rows \o newRows PROVE FirstLines' /\ Kept
  BY <1>0, <1>a, FirstStep, LabelKept
<1> HIDE DEF Kept
<1>1. ASSUME served' = served, research \subseteq research',
             rows' = rows \/ rows' = rows \o newRows
      PROVE  FirstLines' /\ ServedFrom' /\ Kept /\ Stay
  <2>1. ASSUME NEW n \in Posts, served'[n] # NoLabel
        PROVE  /\ list'[n] # Absent
               /\ \/ KeyOf[n] \in research' /\ served'[n] = ResearchLabel
                  \/ KeyOf[n] \in ReadableKeys(rows') /\ served'[n] = AutoLabel(KeyOf[n])'
    BY <1>0, <1>1, <1>a, <2>1 DEF ServedFrom, Kept
  <2>2. ServedFrom'
    BY <2>1 DEF ServedFrom
  <2> QED
    BY <1>1, <1>a, <2>2
<1>2. ASSUME NEW read \in SUBSET LabelFiles, Ingest(read)
      PROVE  FirstLines' /\ ServedFrom' /\ Kept /\ Stay
  <2>1. /\ UNCHANGED <<rows, research, list>> /\ phase = "ingest"
        /\ \A n \in Posts : served'[n] = IF list[n] # Absent THEN LabelOf(KeyOf[n], read)
                                         ELSE NoLabel
        /\ read = LabelFiles \/ faults' = faults + 1
    BY <1>2 DEF Ingest, Readable, Fault, labelVars
  <2>2. \A k : AutoLabel(k)' = AutoLabel(k)
    BY <2>1 DEF AutoLabel
  <2>3. ServedFrom'
    <3> SUFFICES ASSUME NEW n \in Posts, served'[n] # NoLabel
                 PROVE  /\ list'[n] # Absent
                        /\ \/ KeyOf[n] \in research' /\ served'[n] = ResearchLabel
                           \/ KeyOf[n] \in ReadableKeys(rows') /\ served'[n] = AutoLabel(KeyOf[n])'
      BY DEF ServedFrom
    <3>1. list[n] # Absent /\ served'[n] = LabelOf(KeyOf[n], read)
      BY <2>1
    <3>2. \/ KeyOf[n] \in research /\ served'[n] = ResearchLabel
          \/ KeyOf[n] \in ReadableKeys(rows) /\ served'[n] = AutoLabel(KeyOf[n])
      BY <1>0, <3>1, LabelFrom
    <3> QED
      BY <2>1, <2>2, <3>1, <3>2
  <2>4. ASSUME NEW n \in Posts, served[n] # NoLabel, served'[n] # served[n], read = LabelFiles
        PROVE  served'[n] = ResearchLabel
    <3>1. served'[n] = LabelOf(KeyOf[n], read)
      BY <1>0, <2>1, <2>4 DEF ServedFrom
    <3>2. CASE KeyOf[n] \in research
      BY <2>4, <3>1, <3>2 DEF LabelOf, LabelFiles
    <3>3. CASE KeyOf[n] \notin research
      <4>1. KeyOf[n] \in ReadableKeys(rows) /\ served[n] = AutoLabel(KeyOf[n])
        BY <1>0, <2>4, <3>3 DEF ServedFrom
      <4> QED
        BY <2>4, <3>1, <3>3, <4>1 DEF LabelOf, LabelFiles
    <3> QED
      BY <3>2, <3>3
  <2> QED
    BY <1>a, <2>1, <2>3, <2>4
<1>3. ASSUME NEW n \in Posts, Post(n) \/ Edit(n) \/ Enrich(n) \/ AssetRaises(n)
      PROVE  FirstLines' /\ ServedFrom' /\ Kept /\ Stay
  <2>1. UNCHANGED <<served, research, rows>>
    BY <1>3 DEF Post, Edit, Enrich, AssetRaises, labelVars, workVars
  <2> QED
    BY <1>1, <2>1
<1>4. ASSUME NEW n \in Posts, LabelStep(n) PROVE FirstLines' /\ ServedFrom' /\ Kept /\ Stay
  BY <1>0, <1>1, <1>4, LabelSteps
<1>5. ASSUME NEW due, NEW last, Crawl(due, last) PROVE FirstLines' /\ ServedFrom' /\ Kept /\ Stay
  BY <1>1, <1>5 DEF Crawl, labelVars
<1>6. ASSUME NEW k \in Keys, Deploy(k) PROVE FirstLines' /\ ServedFrom' /\ Kept /\ Stay
  BY <1>1, <1>6 DEF Deploy, DeployResearch, workVars
<1>7. CASE Publish \/ SaveLabels \/ SaveFails \/ CutOff \/ \E read : BeginLabeling(read)
  <2>1. served' = served /\ research' = research /\ rows' \in {rows, rows \o newRows}
    BY <1>7 DEF Publish, SaveLabels, SaveFails, CutOff, BeginLabeling, AppendRows, LoseRows,
                LoadKnown, labelVars
  <2> QED
    BY <1>1, <2>1
<1>8. CASE UNCHANGED vars
  BY <1>1, <1>8 DEF vars, labelVars
<1> HIDE DEF Stay
<1> QED
  BY <1>0, <1>2, <1>3, <1>4, <1>5, <1>6, <1>7, <1>8 DEF Next, WorkInv
LEMMA WorkStep == WorkInv /\ [Next]_vars => WorkInv'
BY TypeStep, TextStep, CallsStep, RowsStep, ServedStep DEF WorkInv

LEMMA WorkAlways == Spec => []WorkInv
BY WorkInit, WorkStep, PTL DEF Spec

-----------------------------------------------------------------------------
(***************************************************************************)
(* What a labeling run leaves out                                          *)
(***************************************************************************)

\* The lists have no gaps: a notice is listed only if the earlier ones are.
NoGaps ==
    \A n, m \in Posts : m < n =>
      /\ list[n] # Absent => list[m] # Absent
      /\ work[n] # Absent => work[m] # Absent

\* The keys a run has passed without a row for them.
LabeledKeys == research \cup ReadableKeys(rows) \cup {newRows[i].key : i \in DOMAIN newRows}
PassedKeys == {KeyOf[n] : n \in {m \in Listed(list) : m < pos}} \ LabeledKeys
LlmRows == {i \in DOMAIN newRows : newRows[i].label.by = "llm"}

\* A run has made as many rows by the model as calls that did not fail, and has passed a
\* key without a row only for want of a rule and of an answer.
RunInv ==
    /\ phase # "label" => llmCalls = 0
    /\ phase = "load" => pos = 1
    /\ phase = "label" =>
         /\ pos # 0
         /\ IsFiniteSet(PassedKeys)
         /\ Cardinality(LlmRows) <= llmCalls
         /\ \A n \in Listed(list) :
              n < pos /\ KeyOf[n] \in PassedKeys \ Earlier(n) => Decision(n).by = "llm"
         /\ config.hasKey /\ llmCalls < MaxLlmCalls => Cardinality(PassedKeys) <= FailedCalls

LEMMA PostsBefore ==
  ASSUME NEW n \in Posts
  PROVE  Earlier(n) = {KeyOf[m] : m \in 1 .. n - 1}
<1>1. n \in Nat /\ n # 0 /\ 1 .. n \subseteq Posts /\ Posts \subseteq Nat \ {0}
  BY EnrichmentAssumption
<1>2. \A m : m \in Posts /\ m < n <=> m \in 1 .. n - 1
  <2>1. ASSUME NEW m \in Posts, m < n PROVE m \in 1 .. n - 1
    BY <1>1, <2>1
  <2>2. ASSUME NEW m \in 1 .. n - 1 PROVE m \in Posts /\ m < n
    BY <1>1
  <2> QED
    BY <2>1, <2>2
<1> QED
  BY <1>2 DEF Earlier

LEMMA RunInit == Init => NoGaps /\ RunInv
BY DEF Init, NoWork, NoGaps, RunInv

\* No list gets a gap.
LEMMA GapsStep ==
  ASSUME TypeOK, Posted, NoGaps, [Next]_vars
  PROVE  NoGaps'
<1>0. \A n \in Posts : n \in Nat
  BY EnrichmentAssumption
<1>w. /\ work \in [Posts -> PostRecords] /\ list \in [Posts -> PostRecords]
  BY DEF TypeOK, EnrichTypeOK
<1>1. ASSUME UNCHANGED list, work' = NoWork PROVE NoGaps'
  BY <1>1 DEF NoGaps, NoWork
<1>2. ASSUME UNCHANGED <<list, work>> PROVE NoGaps'
  BY <1>2 DEF NoGaps
<1>3. ASSUME NEW n \in Posts, Enrich(n) PROVE NoGaps'
  <2>1. list' = list /\ \/ work' = work
                        \/ /\ work[n] # Absent
                           /\ \E thin \in BOOLEAN : work' = [work EXCEPT ![n] = Enriched(work[n], thin)]
    BY <1>3, EnrichSteps DEF Enrich, workVars, TypeOK
  <2>2. ASSUME NEW thin \in BOOLEAN, work[n] # Absent,
               work' = [work EXCEPT ![n] = Enriched(work[n], thin)]
        PROVE  NoGaps'
    <3>1. Enriched(work[n], thin).made = TRUE
      BY <1>w, <2>2, EnrichedTyped
    <3>2. Absent.made = FALSE
      BY DEF Absent
    <3>3. work'[n] # Absent /\ \A m \in Posts : m # n => work'[m] = work[m]
      BY <1>w, <2>2, <3>1, <3>2
    <3> QED
      BY <2>1, <2>2, <3>3 DEF NoGaps
  <2> QED
    BY <1>2, <2>1, <2>2
<1>4. ASSUME NEW due \in SUBSET Posts, NEW last \in {0} \cup Posts, Crawl(due, last) PROVE NoGaps'
  <2>1. work' = Merged(due, last) /\ list' = list
    BY <1>4 DEF Crawl
  <2>2. \A n \in Posts : list[n] # Absent => work'[n] # Absent
    BY <1>4, <2>1, MergedTyped
  <2>3. ASSUME NEW n \in Posts, work'[n] # Absent, list[n] = Absent PROVE n <= last
    BY <2>1, <2>3 DEF Merged
  <2>4. ASSUME NEW n \in Posts, n <= last PROVE work'[n] # Absent
    <3>1. onBoard[n] \in Versions
      BY <1>4, <2>4 DEF Crawl, TypeOK
    <3>2. Parsed(n, onBoard[n]) # Absent
      BY <3>1, ParsedTyped
    <3>3. list[n] = Absent => work'[n] = Parsed(n, onBoard[n])
      BY <2>1, <2>4 DEF Merged
    <3> QED
      BY <2>2, <3>2, <3>3
  <2>5. ASSUME NEW n \in Posts, NEW m \in Posts, m < n, work'[n] # Absent PROVE work'[m] # Absent
    <3>1. CASE list[n] # Absent
      BY <2>2, <2>5, <3>1 DEF NoGaps
    <3>2. CASE list[n] = Absent
      <4>1. n <= last /\ n \in Nat /\ m \in Nat /\ last \in Nat
        BY <1>0, <2>3, <2>5, <3>2
      <4> QED
        BY <2>4, <2>5, <4>1
    <3> QED
      BY <3>1, <3>2
  <2> QED
    BY <2>1, <2>5 DEF NoGaps
<1>5. CASE Publish
  <2>1. list' = work /\ work' = NoWork
    BY <1>5 DEF Publish, DropWork
  <2> QED
    BY <2>1 DEF NoGaps, NoWork
<1>6. CASE CutOff \/ (\E read : Ingest(read)) \/ \E n \in Posts : AssetRaises(n)
  BY <1>1, <1>6 DEF Ingest, CutOff, AssetRaises, DropWork
<1>7. CASE \/ SaveLabels \/ SaveFails \/ UNCHANGED vars \/ (\E k \in Keys : Deploy(k))
           \/ (\E read : BeginLabeling(read)) \/ \E n \in Posts : Post(n) \/ Edit(n)
  BY <1>2, <1>7 DEF SaveLabels, SaveFails, Deploy, BeginLabeling, Post, Edit, vars, enrichVars, workVars
<1>8. ASSUME NEW n \in Posts, LabelStep(n) PROVE NoGaps'
  <2>1. list' = list /\ work' = work
    BY <1>8, LabelSteps DEF NextNotice
  <2> QED
    BY <1>2, <2>1
<1> QED
  BY <1>3, <1>4, <1>5, <1>6, <1>7, <1>8 DEF Next

\* What a labeling step decides, for its key and for the calls.
LEMMA RunSteps ==
  ASSUME TypeOK, NEW n \in Posts, LabelStep(n)
  PROVE  \/ /\ ~Unlabeled(Earlier(n), KeyOf[n])
            /\ newRows' = newRows /\ llmCalls' = llmCalls
         \/ /\ Unlabeled(Earlier(n), KeyOf[n]) /\ Decision(n).by = "rule"
            /\ llmCalls' = llmCalls
            /\ \E row \in Rows : /\ newRows' = Append(newRows, row)
                                 /\ row.key = KeyOf[n] /\ row.label.by = "rule"
         \/ /\ Unlabeled(Earlier(n), KeyOf[n]) /\ Decision(n).by = "llm"
            /\ ~config.hasKey \/ llmCalls >= MaxLlmCalls
            /\ newRows' = newRows /\ llmCalls' = llmCalls
         \/ /\ Unlabeled(Earlier(n), KeyOf[n]) /\ Decision(n).by = "llm"
            /\ newRows' = newRows /\ llmCalls' = llmCalls + 1
         \/ /\ Unlabeled(Earlier(n), KeyOf[n])
            /\ llmCalls' = llmCalls + 1
            /\ \E row \in Rows : /\ newRows' = Append(newRows, row)
                                 /\ row.key = KeyOf[n] /\ row.label.by = "llm"
<1>0. KeyOf[n] \in Keys /\ Board[n] \in Boards
  BY WorkAssumption
<1>1. CASE PassLabeled(n)
  BY <1>1 DEF PassLabeled, labelVars
<1>2. CASE LabelByRule(n)
  <2> DEFINE row == [key |-> KeyOf[n], label |-> Decision(n), readable |-> TRUE]
  <2>1. /\ Unlabeled(Earlier(n), KeyOf[n]) /\ Decision(n).by = "rule"
        /\ llmCalls' = llmCalls /\ newRows' = Append(newRows, row)
    BY <1>2 DEF LabelByRule, RuleLabel, AddRow
  <2>2. Decision(n) \in Labels
    BY <1>0, <2>1, RuleLabels DEF Decision
  <2>3. row \in Rows /\ row.key = KeyOf[n] /\ row.label.by = "rule"
    BY <1>0, <2>1, <2>2 DEF Rows
  <2> QED
    BY <2>1, <2>3
<1>3. CASE PutOffLabel(n)
  BY <1>3 DEF PutOffLabel, PutOff, labelVars
<1>4. CASE LabelCallFails(n)
  BY <1>4 DEF LabelCallFails, LlmFails
<1>5. CASE LabelByLlm(n) \/ LabelBroken(n)
  <2>1. PICK a \in Answers, readable \in BOOLEAN :
          LlmAnswers(KeyOf[n], Title[n], Decision(n), config.hasKey, a, readable)
    BY <1>5 DEF LabelByLlm, LabelBroken
  <2> DEFINE row == [key |-> KeyOf[n], label |-> LlmLabel(Title[n], a), readable |-> readable]
  <2>2. llmCalls' = llmCalls + 1 /\ newRows' = Append(newRows, row)
    BY <2>1 DEF LlmAnswers, AddRow
  <2>3. row \in Rows /\ row.key = KeyOf[n] /\ row.label.by = "llm"
    BY <1>0, LlmLabels DEF Rows, LlmLabel
  <2>4. Unlabeled(Earlier(n), KeyOf[n])
    BY <1>5 DEF LabelByLlm, LabelBroken
  <2> QED
    BY <2>2, <2>3, <2>4
<1> QED
  BY <1>1, <1>2, <1>3, <1>4, <1>5 DEF LabelStep

\* A row for key k is added: k is labeled, and the rows by the model count it or not.
LEMMA RowAdded ==
  ASSUME newRows \in Seq(Rows), NEW row \in Rows, newRows' = Append(newRows, row),
         UNCHANGED <<rows, research>>
  PROVE  /\ LabeledKeys' = LabeledKeys \cup {row.key}
         /\ IsFiniteSet(LlmRows) /\ Cardinality(LlmRows) \in Nat
         /\ row.label.by # "llm" => LlmRows' = LlmRows
         /\ row.label.by = "llm" => Cardinality(LlmRows') = Cardinality(LlmRows) + 1
<1> DEFINE d == Len(newRows) + 1
<1>1. /\ newRows' \in Seq(Rows) /\ Len(newRows') = Len(newRows) + 1
      /\ \A i \in 1 .. Len(newRows) : newRows'[i] = newRows[i]
      /\ newRows'[d] = row
  BY AppendProperties
<1>2. /\ DOMAIN newRows = 1 .. Len(newRows) /\ Len(newRows) \in Nat
      /\ DOMAIN newRows' = 1 .. Len(newRows) + 1
  BY <1>1, LenProperties
<1>3. /\ d \notin DOMAIN newRows /\ DOMAIN newRows' = DOMAIN newRows \cup {d}
      /\ \A i \in DOMAIN newRows : newRows'[i] = newRows[i]
  BY <1>1, <1>2
<1> HIDE DEF d
<1>4. {newRows'[i].key : i \in DOMAIN newRows'} = {newRows[i].key : i \in DOMAIN newRows} \cup {row.key}
  BY <1>1, <1>3
<1>5. LabeledKeys' = LabeledKeys \cup {row.key}
  BY <1>4 DEF LabeledKeys, ReadableKeys
<1>6. IsFiniteSet(LlmRows) /\ Cardinality(LlmRows) \in Nat /\ d \notin LlmRows
  <2>1. IsFiniteSet(1 .. Len(newRows))
    BY <1>2, FS_Interval
  <2>2. LlmRows \subseteq 1 .. Len(newRows)
    BY <1>2 DEF LlmRows
  <2> QED
    BY <1>3, <2>1, <2>2, FS_Subset, FS_CardinalityType DEF LlmRows
<1>7. LlmRows' = IF row.label.by = "llm" THEN LlmRows \cup {d} ELSE LlmRows
  BY <1>1, <1>3 DEF LlmRows
<1>8. Cardinality(LlmRows \cup {d}) = Cardinality(LlmRows) + 1
  BY <1>6, FS_AddElement
<1> QED
  BY <1>5, <1>6, <1>7, <1>8

\* A labeling step passes one listed notice, and looks at the lists as they were.
LEMMA RunPasses ==
  ASSUME TypeOK, NEW n \in Posts, LabelStep(n)
  PROVE  /\ {KeyOf[m] : m \in {m \in Listed(list) : m < pos}}'
              = {KeyOf[m] : m \in {m \in Listed(list) : m < pos}} \cup {KeyOf[n]}
         /\ n \in Listed(list) /\ pos = n /\ pos' = n + 1
         /\ Listed(list)' = Listed(list)
         /\ \A m \in Posts : Decision(m)' = Decision(m)
<1>1. /\ pos = n /\ pos' = n + 1 /\ list' = list /\ list[n] # Absent
  BY LabelSteps DEF Labeling, NextNotice
<1>2. Listed(list)' = Listed(list) /\ n \in Listed(list) /\ Listed(list) \subseteq Nat
  BY <1>1, EnrichmentAssumption DEF Listed
<1>3. \A m \in Listed(list) : m < n + 1 <=> m < n \/ m = n
  BY <1>2
<1>4. {m \in Listed(list) : m < pos}' = {m \in Listed(list) : m < pos} \cup {n}
  BY <1>1, <1>2, <1>3
<1>5. \A m \in Posts : Decision(m)' = Decision(m)
  BY <1>1 DEF Decision, BodyOf
<1> QED
  BY <1>1, <1>2, <1>4, <1>5

\* One more key left out is one more at most, and the count stays finite.
LEMMA OneMoreKey ==
  ASSUME NEW S, IsFiniteSet(S), NEW T, NEW k, T \subseteq S \cup {k}
  PROVE  /\ IsFiniteSet(T)
         /\ Cardinality(S) \in Nat /\ Cardinality(T) \in Nat
         /\ Cardinality(T) <= Cardinality(S) + 1
         /\ T \subseteq S => Cardinality(T) <= Cardinality(S)
<1>1. IsFiniteSet(S \cup {k}) /\ Cardinality(S) \in Nat
      /\ Cardinality(S \cup {k}) \in {Cardinality(S), Cardinality(S) + 1}
  BY FS_AddElement, FS_CardinalityType
<1>2. IsFiniteSet(T) /\ Cardinality(T) \in Nat /\ Cardinality(T) <= Cardinality(S \cup {k})
  BY <1>1, FS_Subset, FS_CardinalityType
<1>3. T \subseteq S => Cardinality(T) <= Cardinality(S)
  BY FS_Subset
<1> QED
  BY <1>1, <1>2, <1>3

\* A labeling step leaves its key out only as the run invariant says.
LEMMA RunLabels ==
  ASSUME WorkInv, NoGaps, RunInv, NEW n \in Posts, LabelStep(n)
  PROVE  RunInv'
<1>0. /\ TypeOK /\ newRows \in Seq(Rows) /\ llmCalls \in Nat /\ MaxLlmCalls \in Nat
      /\ \A m \in Posts : m \in Nat
  BY LabelsAssumption, EnrichmentAssumption DEF WorkInv, TypeOK, LabelsTypeOK
<1>1. /\ phase = "label" /\ phase' = "label" /\ config' = config
      /\ rows' = rows /\ research' = research
  BY <1>0, LabelSteps DEF Labeling
<1>2. /\ n \in Listed(list) /\ pos = n /\ pos' = n + 1
      /\ Listed(list)' = Listed(list) /\ Listed(list) \subseteq Posts
      /\ \A m \in Posts : Decision(m)' = Decision(m)
  BY <1>0, RunPasses DEF Listed
<1> DEFINE Passed == {KeyOf[m] : m \in {m \in Listed(list) : m < pos}}
<1>3. Passed' = Passed \cup {KeyOf[n]}
  BY <1>0, RunPasses
<1>4. PassedKeys = Passed \ LabeledKeys /\ PassedKeys' = Passed' \ LabeledKeys'
  BY DEF PassedKeys
<1>5. Earlier(n) \subseteq Passed
  <2>1. \A m \in Posts : m < n => m \in Listed(list)
    BY <1>2 DEF NoGaps, Listed
  <2> QED
    BY <1>2, <2>1 DEF Earlier
<1> HIDE DEF Passed
<1>6. /\ IsFiniteSet(PassedKeys) /\ Cardinality(LlmRows) <= llmCalls
      /\ \A m \in Listed(list) :
           m < n /\ KeyOf[m] \in PassedKeys \ Earlier(m) => Decision(m).by = "llm"
      /\ config.hasKey /\ llmCalls < MaxLlmCalls => Cardinality(PassedKeys) <= llmCalls - Cardinality(LlmRows)
  BY <1>1, <1>2 DEF RunInv, FailedCalls, LlmRows
<1>7. IsFiniteSet(LlmRows) /\ Cardinality(LlmRows) \in Nat
  <2>1. DOMAIN newRows = 1 .. Len(newRows) /\ Len(newRows) \in Nat
    BY <1>0, LenProperties
  <2>2. IsFiniteSet(1 .. Len(newRows)) /\ LlmRows \subseteq 1 .. Len(newRows)
    BY <2>1, FS_Interval DEF LlmRows
  <2> QED
    BY <2>2, FS_Subset, FS_CardinalityType
<1>8. /\ newRows' = newRows => LabeledKeys' = LabeledKeys /\ LlmRows' = LlmRows
      /\ \A row \in Rows : newRows' = Append(newRows, row) =>
           /\ LabeledKeys' = LabeledKeys \cup {row.key}
           /\ row.label.by # "llm" => LlmRows' = LlmRows
           /\ row.label.by = "llm" => Cardinality(LlmRows') = Cardinality(LlmRows) + 1
  BY <1>0, <1>1, RowAdded DEF LabeledKeys, LlmRows, ReadableKeys
\* It is enough to look at the key of n and at the two counts.
<1>9. ASSUME LabeledKeys \subseteq LabeledKeys',
             KeyOf[n] \in PassedKeys' \ Earlier(n) => Decision(n).by = "llm",
             Cardinality(LlmRows') <= llmCalls',
             config.hasKey /\ llmCalls' < MaxLlmCalls
                => Cardinality(PassedKeys') <= llmCalls' - Cardinality(LlmRows')
      PROVE  RunInv'
  <2>1. IsFiniteSet(PassedKeys')
    <3>1. PassedKeys' \subseteq PassedKeys \cup {KeyOf[n]}
      BY <1>3, <1>4, <1>9
    <3> HIDE DEF PassedKeys
    <3> QED
      BY <1>6, <3>1, OneMoreKey
  <2>2. ASSUME NEW m \in Listed(list), m < n + 1, KeyOf[m] \in PassedKeys' \ Earlier(m)
        PROVE  Decision(m).by = "llm"
    <3>1. CASE m = n
      BY <1>9, <2>2, <3>1
    <3>2. CASE m # n
      <4>1. m < n
        BY <1>0, <1>2, <2>2, <3>2
      <4>2. KeyOf[m] \in Passed
        BY <1>2, <4>1 DEF Passed
      <4>3. KeyOf[m] \in PassedKeys
        BY <1>4, <1>9, <2>2, <4>2
      <4> QED
        BY <1>6, <2>2, <4>1, <4>3
    <3> QED
      BY <3>1, <3>2
  <2>3. pos' # 0
    BY <1>0, <1>2
  <2>4. \A m \in Listed(list)' : m < pos' /\ KeyOf[m] \in PassedKeys' \ Earlier(m)
                                 => Decision(m)'.by = "llm"
    BY <1>2, <2>2
  <2>5. config'.hasKey /\ llmCalls' < MaxLlmCalls => Cardinality(PassedKeys') <= FailedCalls'
    BY <1>1, <1>9 DEF FailedCalls, LlmRows
  <2> QED
    BY <1>1, <1>9, <2>1, <2>3, <2>4, <2>5 DEF RunInv
<1>10. Known(KeyOf[n]) => KeyOf[n] \in LabeledKeys
  BY <1>1 DEF WorkInv, RowsFresh, Known, LabeledKeys
<1>11. /\ Cardinality(PassedKeys) \in Nat
       /\ PassedKeys' \subseteq PassedKeys => Cardinality(PassedKeys') <= Cardinality(PassedKeys)
                                              /\ Cardinality(PassedKeys') \in Nat
       /\ PassedKeys' \subseteq PassedKeys \cup {KeyOf[n]}
            => Cardinality(PassedKeys') <= Cardinality(PassedKeys) + 1
               /\ Cardinality(PassedKeys') \in Nat
  BY <1>6, OneMoreKey
<1> HIDE DEF RunInv, LabeledKeys, LlmRows, PassedKeys
<1>12. CASE /\ ~Unlabeled(Earlier(n), KeyOf[n])
            /\ newRows' = newRows /\ llmCalls' = llmCalls
  <2>1. KeyOf[n] \in LabeledKeys \/ KeyOf[n] \in Earlier(n)
    BY <1>10, <1>12 DEF Unlabeled, Seen
  <2>2. LabeledKeys' = LabeledKeys /\ LlmRows' = LlmRows
    BY <1>8, <1>12
  <2>3. PassedKeys' \subseteq PassedKeys /\ (KeyOf[n] \in PassedKeys' => KeyOf[n] \in Earlier(n))
    BY <1>3, <1>4, <1>5, <2>1, <2>2
  <2>4. config.hasKey /\ llmCalls' < MaxLlmCalls
                => Cardinality(PassedKeys') <= llmCalls' - Cardinality(LlmRows')
    BY <1>0, <1>6, <1>7, <1>11, <1>12, <2>2, <2>3
  <2> QED
    BY <1>6, <1>9, <1>12, <2>2, <2>3, <2>4
<1>13. CASE /\ Decision(n).by = "llm" /\ (~config.hasKey \/ llmCalls >= MaxLlmCalls)
            /\ newRows' = newRows /\ llmCalls' = llmCalls
  <2>1. LabeledKeys' = LabeledKeys /\ LlmRows' = LlmRows
    BY <1>8, <1>13
  <2>2. ~(config.hasKey /\ llmCalls' < MaxLlmCalls)
    BY <1>0, <1>13
  <2> QED
    BY <1>6, <1>9, <1>13, <2>1, <2>2
<1>14. CASE Decision(n).by = "llm" /\ newRows' = newRows /\ llmCalls' = llmCalls + 1
  <2>1. LabeledKeys' = LabeledKeys /\ LlmRows' = LlmRows
    BY <1>8, <1>14
  <2>2. PassedKeys' \subseteq PassedKeys \cup {KeyOf[n]}
    BY <1>3, <1>4, <2>1
  <2>3. config.hasKey /\ llmCalls' < MaxLlmCalls
                => Cardinality(PassedKeys') <= llmCalls' - Cardinality(LlmRows')
    BY <1>0, <1>6, <1>7, <1>11, <1>14, <2>1, <2>2
  <2>4. Cardinality(LlmRows') <= llmCalls'
    BY <1>0, <1>6, <1>7, <1>14, <2>1
  <2> QED
    BY <1>9, <1>14, <2>1, <2>3, <2>4
<1>15. ASSUME NEW row \in Rows, newRows' = Append(newRows, row), row.key = KeyOf[n],
              \/ row.label.by = "rule" /\ llmCalls' = llmCalls
              \/ row.label.by = "llm" /\ llmCalls' = llmCalls + 1
       PROVE  RunInv'
  <2>1. LabeledKeys' = LabeledKeys \cup {KeyOf[n]}
    BY <1>8, <1>15
  <2>2. \/ llmCalls' = llmCalls /\ Cardinality(LlmRows') = Cardinality(LlmRows)
        \/ llmCalls' = llmCalls + 1 /\ Cardinality(LlmRows') = Cardinality(LlmRows) + 1
    BY <1>8, <1>15
  <2>3. PassedKeys' \subseteq PassedKeys /\ KeyOf[n] \notin PassedKeys'
    BY <1>3, <1>4, <2>1
  <2>4. config.hasKey /\ llmCalls' < MaxLlmCalls
                => Cardinality(PassedKeys') <= llmCalls' - Cardinality(LlmRows')
    BY <1>0, <1>6, <1>7, <1>11, <2>2, <2>3
  <2>5. Cardinality(LlmRows') <= llmCalls'
    BY <1>0, <1>6, <1>7, <2>2
  <2> QED
    BY <1>9, <2>1, <2>3, <2>4, <2>5
<1> QED
  BY <1>0, <1>12, <1>13, <1>14, <1>15, RunSteps

\* No step leaves a key out for another reason.
LEMMA RunStep ==
  ASSUME WorkInv, NoGaps, RunInv, [Next]_vars
  PROVE  RunInv'
<1>1. ASSUME phase' \notin {"load", "label"}, llmCalls' = 0 PROVE RunInv'
  BY <1>1 DEF RunInv
<1>2. ASSUME phase # "label", phase' \notin {"load", "label"}, llmCalls' = llmCalls PROVE RunInv'
  BY <1>1, <1>2 DEF RunInv
<1>3. ASSUME NEW n \in Posts, LabelStep(n) PROVE RunInv'
  BY <1>3, RunLabels
<1>4. ASSUME NEW n \in Posts, Post(n) \/ Edit(n) \/ Enrich(n) \/ AssetRaises(n) PROVE RunInv'
  BY <1>2, <1>4 DEF Post, Edit, Enrich, AssetRaises, labelVars, workVars
<1>5. ASSUME NEW due, NEW last, Crawl(due, last) PROVE RunInv'
  BY <1>2, <1>5 DEF Crawl, labelVars
<1>6. CASE Publish
  <2>1. /\ phase = "enrich" /\ phase' \in {"load", "ingest"}
        /\ llmCalls' = llmCalls /\ pos' = 1
    BY <1>6 DEF Publish, DropWork, labelVars
  <2> QED
    BY <2>1 DEF RunInv
<1>7. CASE SaveLabels \/ SaveFails \/ CutOff
  BY <1>1, <1>7 DEF SaveLabels, SaveFails, CutOff, AppendRows, LoseRows
<1>8. CASE (\E read : Ingest(read)) \/ \E k \in Keys : Deploy(k)
  BY <1>2, <1>8 DEF Ingest, Deploy, DeployResearch, labelVars, workVars
<1>9. CASE UNCHANGED vars
  <2>1. UNCHANGED <<phase, pos, config, list, llmCalls, research, rows, newRows>>
    BY <1>9 DEF vars, enrichVars, labelVars
  <2>2. /\ PassedKeys' = PassedKeys /\ LlmRows' = LlmRows /\ FailedCalls' = FailedCalls
        /\ Listed(list)' = Listed(list) /\ \A n : Decision(n)' = Decision(n)
    BY <2>1 DEF PassedKeys, LabeledKeys, ReadableKeys, LlmRows, FailedCalls, Listed, Decision, BodyOf
  <2> QED
    BY <2>1, <2>2 DEF RunInv
<1>10. ASSUME NEW read, BeginLabeling(read) PROVE RunInv'
  <2>1. /\ phase = "load" /\ phase' = "label"
        /\ llmCalls' = llmCalls /\ newRows' = newRows /\ pos' = pos
    BY <1>10 DEF BeginLabeling, LoadKnown, enrichVars
  <2>2. llmCalls = 0 /\ newRows = << >> /\ pos' = 1
    BY <2>1 DEF RunInv, WorkInv, RowsFresh
  <2>3. \A n \in Posts : ~(n < 1)
    BY EnrichmentAssumption
  <2>4. {m \in Listed(list)' : m < pos'} = {}
    BY <2>2, <2>3 DEF Listed
  <2>5. PassedKeys' = {} /\ LlmRows' = {}
    BY <2>1, <2>2, <2>4 DEF PassedKeys, LlmRows
  <2>6. IsFiniteSet(PassedKeys') /\ Cardinality(PassedKeys') = 0 /\ Cardinality(LlmRows') = 0
    BY <2>5, FS_EmptySet
  <2>7. FailedCalls' = 0
    BY <2>1, <2>2, <2>6 DEF FailedCalls, LlmRows
  <2>8. \A n \in Listed(list)' : ~(n < pos')
    BY <2>4
  <2> QED
    BY <2>1, <2>2, <2>6, <2>7, <2>8 DEF RunInv
<1> QED
  BY <1>3, <1>4, <1>5, <1>6, <1>7, <1>8, <1>9, <1>10 DEF Next

LEMMA RunAlways == Spec => [](WorkInv /\ NoGaps /\ RunInv)
<1>1. WorkInv /\ NoGaps /\ [Next]_vars => NoGaps'
  BY GapsStep DEF WorkInv
<1>2. WorkInv /\ NoGaps /\ RunInv /\ [Next]_vars => RunInv'
  BY RunStep
<1> QED
  BY <1>1, <1>2, WorkInit, WorkStep, RunInit, PTL DEF Spec

\* When a run is through, it has passed every listed notice.
LEMMA RunIsThrough ==
  ASSUME WorkInv, NoGaps, RunInv
  PROVE  NoticesAreNotStarved
<1> SUFFICES ASSUME AllSeen PROVE NoticesAreNotStarved!2
  BY DEF NoticesAreNotStarved
<1>0. /\ phase = "label" /\ pos \notin Listed(list) /\ pos \in Nat /\ pos # 0
  BY DEF AllSeen, RunInv, WorkInv, TypeOK, EnrichTypeOK
<1>1. ASSUME NEW n \in Listed(list) PROVE n < pos
  <2>1. n \in Posts /\ n \in Nat /\ list[n] # Absent /\ 1 .. n \subseteq Posts
    BY EnrichmentAssumption DEF Listed
  <2>2. pos <= n => pos \in Posts
    BY <1>0, <2>1
  <2>3. pos < n => pos \in Listed(list)
    BY <1>0, <2>1, <2>2 DEF NoGaps, Listed
  <2> QED
    BY <1>0, <1>1, <2>1, <2>3
<1>2. {m \in Listed(list) : m < pos} = Listed(list)
  BY <1>1
<1>3. LeftKeys = PassedKeys
  BY <1>2 DEF LeftKeys, PassedKeys, LabeledKeys
<1>4. \A n \in Listed(list) : Earlier(n) = {KeyOf[m] : m \in 1 .. n - 1}
  BY PostsBefore DEF Listed
<1> QED
  BY <1>0, <1>1, <1>3, <1>4 DEF RunInv

-----------------------------------------------------------------------------
(***************************************************************************)
(* Theorems                                                                *)
(***************************************************************************)

\* Whatever the notices, their assets, edits, keys and faults and whatever the budgets,
\* the variables stay in their types; in particular calls_used never passes the budget
\* (_consume_call) and llm_calls never passes max_llm_calls (label_unlabeled_notices).
THEOREM Typing == Spec => []TypeOK
<1>1. WorkInv => TypeOK
  BY DEF WorkInv
<1> QED
  BY <1>1, WorkAlways, PTL

\* content_original is the board's text of the version a generated text was made of
\* (_enrich_post, apply_notice_update).
THEOREM TextKept == Spec => []BoardTextIsKept
<1>1. WorkInv => BoardTextIsKept
  BY DEF WorkInv
<1> QED
  BY <1>1, WorkAlways, PTL

\* All posts of a crawl share one budget of calls, of at most two requests each
\* (_consume_call, extract_image_text).
THEOREM CallsBounded == Spec => []CallsAreBounded
<1>1. WorkInv => CallsAreBounded
  BY DEF WorkInv
<1> QED
  BY <1>1, WorkAlways, PTL

\* A full generated text is given up only for another version of the board's notice
\* (notice_needs_update, should_enrich).
THEOREM PaidKept == Spec => PaidTextIsKept
<1>1. WorkInv /\ [Next]_vars =>
        [\A n \in Posts : list[n].made /\ ~list[n].thin /\ list'[n] # list[n]
                          => list'[n].ver # list[n].ver]_vars
  BY TextStep DEF WorkInv
<1> QED
  BY <1>1, WorkAlways, PTL DEF Spec, PaidTextIsKept

\* The label file has one readable row for a key, as long as every run could read it
\* (label_unlabeled_notices, _append_atomically).
THEOREM OneLabel == Spec => []OneLabelPerKey
<1>1. WorkInv => OneLabelPerKey
  BY DEF WorkInv
<1> QED
  BY <1>1, WorkAlways, PTL

\* The file keeps the label that counts for a key, also when a run that could not read it
\* appends another one, and a served label changes only to that of the research file or in
\* an ingest that could not read a label file (load_notice_labels, _append_atomically,
\* _write_labels).
THEOREM LabelsStay == Spec => ServedLabelsStay
<1>1. WorkInv /\ [Next]_vars =>
        [/\ \A k \in ReadableKeys(rows) :
              k \in ReadableKeys(rows') /\ AutoLabel(k)' = AutoLabel(k)
         /\ \A n \in Posts : served[n] # NoLabel /\ served'[n] # served[n] =>
              \/ served'[n] = ResearchLabel
              \/ phase = "ingest" /\ faults' = faults + 1]_vars
  <2> SUFFICES ASSUME WorkInv, [Next]_vars
               PROVE  /\ \A k \in ReadableKeys(rows) :
                           k \in ReadableKeys(rows') /\ AutoLabel(k)' = AutoLabel(k)
                      /\ \A n \in Posts : served[n] # NoLabel /\ served'[n] # served[n] =>
                           \/ served'[n] = ResearchLabel
                           \/ phase = "ingest" /\ faults' = faults + 1
    OBVIOUS
  <2>1. \A n \in Posts : list[n] # Absent => list'[n] # Absent
    BY TextStep DEF WorkInv
  <2> QED
    BY <2>1, ServedStep
<1> QED
  BY <1>1, WorkAlways, PTL DEF Spec, ServedLabelsStay

\* A labeling run that is through has left out only keys whose first notice no rule knows,
\* and no more keys than its failed calls, unless the key is missing or the budget used up
\* (label_unlabeled_notices).
THEOREM NoneStarved == Spec => []NoticesAreNotStarved
<1>1. WorkInv /\ NoGaps /\ RunInv => NoticesAreNotStarved
  BY RunIsThrough
<1> QED
  BY <1>1, RunAlways, PTL
=============================================================================
