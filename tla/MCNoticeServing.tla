--------------------------- MODULE MCNoticeServing ---------------------------
(***************************************************************************)
(* Instances of NoticeServing for TLC.                                     *)
(***************************************************************************)
EXTENDS NoticeServing, TLC

CONSTANTS w1, w2, r1, r2

\* Workers and request slots are interchangeable.
WorkerRequestSymmetry == Permutations(Worker) \cup Permutations(Request)
==============================================================================
