----------------------------- MODULE LabelRules -----------------------------
(***************************************************************************)
(* Which audience a notice is for (app/notice_auto_label.py, decide and    *)
(* normalize_audiences) and which targets see a label                      *)
(* (app/notice_labels.py, covers).  A title or a body is the set of the    *)
(* words in it that a rule looks for.                                      *)
(***************************************************************************)
EXTENDS Naturals

\* AUDIENCE_CODES.  Students of every kind are AllStudents.
Codes == {"undergraduate", "freshmen", "graduate", "business", "policy",
          "institute", "staff", "outside"}
AllStudents == {"undergraduate", "graduate", "business", "policy"}

\* The values of the target filter, and the codes each of them sees.
Targets == {"undergraduate", "freshmen", "graduate", "special", "other"}
TargetCodes(t) ==
    CASE t = "undergraduate" -> {"undergraduate"}
      [] t = "freshmen" -> {"freshmen", "undergraduate"}
      [] t = "graduate" -> {"graduate"}
      [] t = "special" -> {"business", "policy"}
      [] t = "other" -> {"staff", "institute", "outside"}

Covers(label, t) ==
    /\ t \notin label.excludes
    /\ label.audiences = {} \/ label.audiences \cap TargetCodes(t) # {}

\* normalize_audiences: unknown codes are dropped, and all students are everyone.
Normalize(values) ==
    LET present == values \cap Codes
    IN  IF AllStudents \subseteq present THEN {} ELSE present

\* The kinds of board the rules tell apart; a board without a key is "unknown".
Boards == {"unknown", "bid", "research", "institute", "school", "business", "policy",
           "department", "gradDepartment"}

\* The words of _DEPT_TITLE, _SPECIAL_TITLE, _DEPT_BODY and _EXCLUDES.
DeptTitle == {"graduate", "hiring", "professor"}
SpecialTitle == {"recruiting", "hiring", "professor"}
DeptBody == {"everyone"}

ByLlm == [by |-> "llm", audiences |-> {}, excludes |-> {}]
ByRule(audiences, excludes) ==
    [by |-> "rule", audiences |-> audiences, excludes |-> excludes]

\* New students are excluded only in the series of enrolment notices.
Excludes(title, apart) == IF apart /\ "enrolment" \in title THEN {"freshmen"} ELSE {}

Decide(board, title, body) ==
    CASE board = "unknown" -> ByLlm
      [] board \in {"bid", "research", "institute"} /\ "hiring" \in title ->
           ByRule({"outside"}, {})
      [] board = "bid" -> ByRule({"outside"}, {})
      [] board = "research" -> ByRule({"staff"}, {})
      [] board = "institute" -> ByRule({"institute"}, {})
      [] board = "school" -> ByLlm
      [] board \in {"business", "policy"} ->
           IF title \cap SpecialTitle # {} THEN ByLlm ELSE ByRule({board}, {})
      [] board \in {"department", "gradDepartment"} ->
           IF title \cap DeptTitle # {} \/ body \cap DeptBody # {} THEN ByLlm
           ELSE IF board = "gradDepartment" THEN ByRule({"graduate"}, {})
           ELSE ByRule({"undergraduate"}, Excludes(title, "freshmenApart" \in body))

\* label_with_llm on a well-formed answer.
LlmLabel(title, answer) ==
    [by |-> "llm",
     audiences |-> Normalize(answer.audiences),
     excludes |-> Excludes(title, "freshmen" \in answer.excludes)]
=============================================================================
