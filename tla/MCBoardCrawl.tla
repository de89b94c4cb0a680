---------------------------- MODULE MCBoardCrawl ----------------------------
(***************************************************************************)
(* Instances of BoardCrawl for TLC: all notices on one board, or those but *)
(* d on the first of two.                                                  *)
(***************************************************************************)
EXTENDS BoardCrawl

CONSTANTS a, b, c, d

TwoBoards == [u \in Url |-> IF u = d THEN 2 ELSE 1]
OneBoard == [u \in Url |-> 1]

\* One title for all notices but b; an edit that gives a the title of b.
Reposted == [u \in Url |-> {IF u = b THEN "other" ELSE "shared"}]
RetitledOnce == [u \in Url |-> IF u = a THEN {a, b} ELSE {u}]
==============================================================================
