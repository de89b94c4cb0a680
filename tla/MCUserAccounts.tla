---------------------------- MODULE MCUserAccounts ----------------------------
(***************************************************************************)
(* Instances of UserAccounts for TLC.                                      *)
(***************************************************************************)
EXTENDS UserAccounts, TLC

CONSTANTS k1, k2, u1, u2, u3, n1, n2, r1, r2

\* Everything but the limits is interchangeable.
AccountSymmetry ==
  Permutations(Kakao) \cup Permutations(UserId) \cup Permutations(Notice)
    \cup Permutations(Slot)
==============================================================================
