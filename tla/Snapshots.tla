------------------------------ MODULE Snapshots ------------------------------
(***************************************************************************)
(* What a notice file on the data volume can hold.  A file is missing,     *)
(* torn (its writer raised or was killed inside json.dump, so json.loads   *)
(* fails) or a well-formed JSON array.  Of an array only the set of notice *)
(* records it lists is kept: a record stands for one notice after URL and  *)
(* title merging.  The SQLite file has the same shape once an ingest has   *)
(* filled it, so it uses the same values.                                  *)
(***************************************************************************)
EXTENDS Naturals, FiniteSets

CONSTANTS
  Notice,      \* every notice record that can be crawled
  MinRecords,  \* Settings.crawler_min_records
  RetainNum,   \* Settings.crawler_min_retain_ratio as the fraction
  RetainDen    \*   RetainNum / RetainDen

ASSUME RatioAssumption ==
  /\ MinRecords \in Nat
  /\ RetainNum \in Nat
  /\ RetainDen \in Nat \ {0}

Absent == [state |-> "absent", posts |-> {}]
Torn == [state |-> "torn", posts |-> {}]
Json(posts) == [state |-> "json", posts |-> posts]

Content == {Absent, Torn} \cup {Json(posts) : posts \in SUBSET Notice}

(***************************************************************************)
(* The records of old that count in the retain baseline: those             *)
(* prune_stale_posts would keep today.                                     *)
(***************************************************************************)
Retained(old, expired) == old.posts \ expired

EnoughRecords(next) ==
  next.state = "json" /\ Cardinality(next.posts) >= MinRecords

(***************************************************************************)
(* _validate_snapshot: the new file parses as an array, holds at least     *)
(* MinRecords records and did not drop below the retain ratio of the       *)
(* baseline of the file it is to replace.  A missing or unreadable old     *)
(* file has an empty baseline.                                             *)
(***************************************************************************)
Publishable(next, old, expired) ==
  /\ EnoughRecords(next)
  /\ Retained(old, expired) # {} =>
       Cardinality(next.posts) * RetainDen
         >= Cardinality(Retained(old, expired)) * RetainNum
==============================================================================
