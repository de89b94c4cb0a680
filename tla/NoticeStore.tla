----------------------------- MODULE NoticeStore -----------------------------
(***************************************************************************)
(* What the publish pipeline promises to everything that reads notices:    *)
(* two atomic registers.  The published JSON list is only ever replaced as *)
(* a whole, by a list that is large enough and still holds every notice    *)
(* that has not aged out; the serving database is only ever replaced as a  *)
(* whole, by the list that is published at that moment.                    *)
(***************************************************************************)
EXTENDS Snapshots

CONSTANT General  \* notices that age out after CRAWLER_RECENT_NOTICE_DAYS

VARIABLES
  snapshot,  \* the file at NOTICE_JSON_PATH
  served,    \* the notices in the file at NOTICE_DB_PATH
  expired    \* notices that prune_stale_posts drops today

storeVars == <<snapshot, served, expired>>

Init ==
  /\ snapshot \in {Absent} \cup {c \in Content : EnoughRecords(c)}
  /\ served \in {Absent, snapshot}
  /\ expired = {}

Publish ==
  /\ \E posts \in SUBSET Notice :
       /\ EnoughRecords(Json(posts))
       /\ Retained(snapshot, expired) \subseteq posts
       /\ snapshot' = Json(posts)
  /\ UNCHANGED <<served, expired>>

Ingest ==
  /\ snapshot.state = "json"
  /\ served' = snapshot
  /\ UNCHANGED <<snapshot, expired>>

Expire ==
  /\ \E n \in General \ expired : expired' = expired \cup {n}
  /\ UNCHANGED <<snapshot, served>>

Next == Publish \/ Ingest \/ Expire

Spec == Init /\ [][Next]_storeVars
==============================================================================
