----------------------------- MODULE AutoLabels -----------------------------
(***************************************************************************)
(* A labeling run (app/notice_auto_label.py, label_unlabeled_notices).  It *)
(* reads both label files and goes once through the published list; a      *)
(* notice whose key neither file has is labeled by a rule or by a language *)
(* model, within a budget of calls.  The new rows are appended to the file *)
(* of automatic labels in one replacement at the end of the run.  A label  *)
(* file that is missing or cannot be read counts as an empty one, for the  *)
(* run and for the ingest (app/notice_labels.py, load_notice_labels).      *)
(*                                                                         *)
(* A row is [key, label, readable].  A reason with a line separator in it  *)
(* splits a row over two lines, and neither is read back.                  *)
(***************************************************************************)
EXTENDS Naturals, Sequences, FiniteSets, LabelRules

CONSTANTS Keys,         \* label_url_key of the notices
          Reviewed,     \* the keys the research sessions may come to label
          MaxLlmCalls,  \* notice_auto_label_max_llm_calls_per_run
          Answers       \* the [audiences, excludes] a model may answer

ASSUME LabelsAssumption ==
    /\ Reviewed \subseteq Keys
    /\ MaxLlmCalls \in Nat
    /\ \A a \in Answers : a.audiences \in SUBSET Codes /\ a.excludes \in SUBSET {"freshmen"}

VARIABLES rows,      \* the file of automatic labels
          research,  \* the keys the research label file has
          known,     \* the keys the run has read from the two files
          unread,    \* {"auto"} after a run could not read the automatic labels
          newRows,   \* the rows the run has made
          llmCalls   \* the model calls the run has made

labelVars == <<rows, research, known, unread, newRows, llmCalls>>

LabelFiles == {"auto", "research"}

Labels == [by : {"rule", "llm"}, audiences : SUBSET Codes, excludes : SUBSET {"freshmen"}]
ResearchLabel == [by |-> "research", audiences |-> {}, excludes |-> {}]
NoLabel == [by |-> "none", audiences |-> {}, excludes |-> {}]
Rows == [key : Keys, label : Labels, readable : BOOLEAN]

LabelsTypeOK ==
    /\ rows \in Seq(Rows)
    /\ research \subseteq Reviewed
    /\ known \subseteq Keys
    /\ unread \subseteq {"auto"}
    /\ newRows \in Seq(Rows)
    /\ llmCalls \in 0 .. MaxLlmCalls

ReadableKeys(file) == {file[i].key : i \in {j \in DOMAIN file : file[j].readable}}

\* load_notice_labels: the first readable line of a key counts ...
AutoLabel(k) ==
    LET lines == {i \in DOMAIN rows : rows[i].readable /\ rows[i].key = k}
    IN  rows[CHOOSE i \in lines : \A j \in lines : i <= j].label

\* ... and only the files in read have any lines.
KeysRead(read) ==
    (IF "auto" \in read THEN ReadableKeys(rows) ELSE {})
        \cup (IF "research" \in read THEN research ELSE {})

LoadKnown(read) ==
    /\ known' = KeysRead(read)
    /\ unread' = unread \cup ({"auto"} \ read)
    /\ UNCHANGED <<rows, research, newRows, llmCalls>>

Known(k) == k \in known

\* Faulty variant of Seen: what this run has met is not remembered.
SeenNothing(earlier, k) == FALSE

\* A notice of the list that came earlier has the same key.
Seen(earlier, k) == k \in earlier

Unlabeled(earlier, k) == ~Known(k) /\ ~Seen(earlier, k)

AddRow(k, label, readable) ==
    newRows' = Append(newRows, [key |-> k, label |-> label, readable |-> readable])

\* Faulty variant of RuleLabel: the budget of calls is looked at before the rules.
RuleLabelWithinBudget(k, decision) ==
    /\ decision.by = "rule"
    /\ IF llmCalls < MaxLlmCalls THEN AddRow(k, decision, TRUE) ELSE UNCHANGED newRows
    /\ UNCHANGED <<rows, research, known, unread, llmCalls>>

RuleLabel(k, decision) ==
    /\ decision.by = "rule"
    /\ AddRow(k, decision, TRUE)
    /\ UNCHANGED <<rows, research, known, unread, llmCalls>>

PutOff(decision, hasKey) ==
    /\ decision.by = "llm"
    /\ ~hasKey \/ llmCalls >= MaxLlmCalls
    /\ UNCHANGED labelVars

\* A call that fails counts as well.
LlmFails(decision, hasKey) ==
    /\ decision.by = "llm"
    /\ hasKey /\ llmCalls < MaxLlmCalls
    /\ llmCalls' = llmCalls + 1
    /\ UNCHANGED <<rows, research, known, unread, newRows>>

LlmAnswers(k, title, decision, hasKey, answer, readable) ==
    /\ decision.by = "llm"
    /\ hasKey /\ llmCalls < MaxLlmCalls
    /\ llmCalls' = llmCalls + 1
    /\ AddRow(k, LlmLabel(title, answer), readable)
    /\ UNCHANGED <<rows, research, known, unread>>

\* Faulty variant of AppendRows: the file is written anew.
AppendRowsReplacing ==
    /\ rows' = newRows
    /\ newRows' = << >> /\ known' = {}
    /\ llmCalls' = 0
    /\ UNCHANGED <<research, unread>>

\* _append_atomically: the old content and the new rows replace the file.
AppendRows ==
    /\ rows' = rows \o newRows
    /\ newRows' = << >> /\ known' = {}
    /\ llmCalls' = 0
    /\ UNCHANGED <<research, unread>>

\* The run ends without its rows: the write fails, or the process dies.
LoseRows ==
    /\ newRows' = << >> /\ known' = {}
    /\ llmCalls' = 0
    /\ UNCHANGED <<rows, research, unread>>

\* A deployment brings a longer research label file.
DeployResearch(k) ==
    /\ k \in Reviewed \ research
    /\ research' = research \cup {k}
    /\ UNCHANGED <<rows, known, unread, newRows, llmCalls>>

\* _write_labels: {**auto, **research}, of the files in read.
LabelOf(k, read) ==
    IF "research" \in read /\ k \in research THEN ResearchLabel
    ELSE IF "auto" \in read /\ k \in ReadableKeys(rows) THEN AutoLabel(k)
    ELSE NoLabel
=============================================================================
