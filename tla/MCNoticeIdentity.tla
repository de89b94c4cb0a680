-------------------------- MODULE MCNoticeIdentity --------------------------
(***************************************************************************)
(* Two notices of one board, for every board; two notices with one number  *)
(* of two boards, for a board or two of every kind.                        *)
(***************************************************************************)
EXTENDS NoticeIdentity, TLC

CONSTANTS t1, t2

Kinds == {b \in CentreBoards \cup SchoolBoards : b.type # "kau_college"}
Chosen == {Official("notice", "s1101"), Official("event", "s1401"),
         CHOOSE b \in UniversityBoards : b.type = "kau_career",
         College("gc63585b", "0123"), College("gc34619b", "0098"),
         Card("http", "sw.kau.ac.kr", "s1401"), Card("https", "ai.kau.ac.kr", "s1401"),
         Card("https", "com.kau.ac.kr", "s1401")}

MCVariety == {{<<b, 1>>, <<b, 2>>} : b \in Boards}
             \cup {{<<b, 1>>, <<c, 1>>} : b, c \in Chosen \cup Kinds}

TitleSymmetry == Permutations(Titles)
=============================================================================
