-------------------------- MODULE MCSnapshotPublish --------------------------
(***************************************************************************)
(* Instances of SnapshotPublish for TLC.                                   *)
(***************************************************************************)
EXTENDS SnapshotPublish, TLC

CONSTANTS w1, w2, s1, n1, n2, f1, f2, f3

\* Names of temp files are interchangeable, and so are the workers.
FileSymmetry == Permutations(TempFile)
WorkerFileSymmetry == Permutations(Worker) \cup Permutations(TempFile)
==============================================================================
