---------------------------- MODULE MCNoticeWork ----------------------------
(***************************************************************************)
(* Four notices: one with an image; one of a department with an image and  *)
(* an HWP file, edited once; one that a rule knows, whose URL has the      *)
(* label key of the first; one that a rule knows, after the two that may   *)
(* use up the two labeling calls.                                          *)
(***************************************************************************)
EXTENDS NoticeWork

CONSTANTS k1, k2, k3

MCPosts == 1 .. 4
MCAssets == <<<<"image">>, <<"image", "hwp">>, << >>, << >>>>
MCThin == {<<1, 0>>, <<2, 0>>, <<2, 1>>}
MCEdits == <<0, 1, 0, 0>>
MCBoard == <<"school", "department", "business", "bid">>
MCTitle == <<{}, {"enrolment"}, {}, {}>>
MCBody == [n \in MCPosts |-> [v \in 0 .. MaxVersion |-> IF n = 2 THEN {"everyone"} ELSE {}]]
MCKeyOf == <<k2, k1, k2, k3>>
MCAnswers == {[audiences |-> AllStudents, excludes |-> {}]}
MCConfigs == {[enrich |-> TRUE, label |-> TRUE, hasKey |-> TRUE],
              [enrich |-> TRUE, label |-> TRUE, hasKey |-> FALSE],
              [enrich |-> FALSE, label |-> FALSE, hasKey |-> TRUE]}
=============================================================================
