----------------------------- MODULE UserAccounts -----------------------------
(***************************************************************************)
(* Accounts and bookmarks: Kakao login, withdrawal and the bookmark        *)
(* endpoints (app/api/auth.py, app/api/bookmarks.py, app/auth.py) over the *)
(* user database (app/user_store.py), with requests of several clients in  *)
(* flight on several workers.                                              *)
(*                                                                         *)
(* A step is one call to the user store, one transaction or one statement  *)
(* outside a transaction, or one look at the notices; between two steps a  *)
(* request awaits and anything else may run.                               *)
(***************************************************************************)
EXTENDS Naturals, FiniteSets

CONSTANTS
  Kakao,         \* Kakao accounts
  UserId,        \* ids _new_user_id can draw: 64 random bits, never repeated
  Notice,        \* notice ids
  MaxBookmarks,  \* Settings.bookmark_max_per_user
  PageSize,      \* rows of a page
  Slot,          \* slots for requests in flight
  None

ASSUME AccountAssumption ==
  /\ MaxBookmarks \in Nat
  /\ PageSize \in Nat \ {0}
  /\ IsFiniteSet(Notice)
  /\ None \notin Kakao \cup UserId \cup Notice

VARIABLES
  users,      \* rows of the users table
  issued,     \* every user id ever created: a token exists for it
  bookmarks,  \* rows of the bookmarks table: <<user id, notice id>>
  served,     \* the notices in the current list
  pc,         \* where each request is
  who,        \* the user id of its token
  acct,       \* the Kakao account that logs in
  what,       \* the notice it is about
  known,      \* add: whether get_bookmark found a row
  total,      \* list: the row count it read
  page,       \* list: the page asked for, then the page it settled on
  shown,      \* list: the number of rows it got
  reply,     \* the HTTP status, or "none"
  stale      \* history: requests not yet authenticated when their account is gone

vars == <<users, issued, bookmarks, served, pc, who, acct, what, known, total,
          page, shown, reply, stale>>
tables == <<users, issued, bookmarks>>
request == <<who, acct, what>>
reading == <<known, total, page, shown>>

Operations == {"me", "lookup", "remove", "count", "withdraw"}
Steps == Operations \cup {"idle", "upsert", "auth", "notice", "insert", "rows", "done"}
Pages == 1..(Cardinality(Notice) + 1)

TypeOK ==
  /\ users \in SUBSET [id : UserId, kakao : Kakao]
  /\ issued \in SUBSET UserId
  /\ bookmarks \in SUBSET (UserId \X Notice)
  /\ served \in SUBSET Notice
  /\ pc \in [Slot -> Steps]
  /\ who \in [Slot -> UserId \cup {None}]
  /\ acct \in [Slot -> Kakao \cup {None}]
  /\ what \in [Slot -> Notice \cup {None}]
  /\ known \in [Slot -> BOOLEAN]
  /\ total \in [Slot -> Nat]
  /\ page \in [Slot -> Nat]
  /\ shown \in [Slot -> Nat]
  /\ reply \in [Slot -> {"none", "200", "201", "204", "401", "404", "409", "500"}]
  /\ stale \in SUBSET Slot

Init ==
  /\ users = {}
  /\ issued = {}
  /\ bookmarks = {}
  /\ served \in SUBSET Notice
  /\ pc = [r \in Slot |-> "idle"]
  /\ who = [r \in Slot |-> None]
  /\ acct = [r \in Slot |-> None]
  /\ what = [r \in Slot |-> None]
  /\ known = [r \in Slot |-> FALSE]
  /\ total = [r \in Slot |-> 0]
  /\ page = [r \in Slot |-> 0]
  /\ shown = [r \in Slot |-> 0]
  /\ reply = [r \in Slot |-> "none"]
  /\ stale = {}

IdsInUse == {u.id : u \in users}
BookmarksOf(id) == {n \in Notice : <<id, n>> \in bookmarks}

Goto(r, step) == pc' = [pc EXCEPT ![r] = step] /\ UNCHANGED reply
Answer(r, status) ==
  pc' = [pc EXCEPT ![r] = "done"] /\ reply' = [reply EXCEPT ![r] = status]
------------------------------------------------------------------------------
(***************************************************************************)
(* Login                                                                   *)
(***************************************************************************)

\* A login request; Kakao's answer is not state of this system.
StartLogin(r, k) ==
  /\ pc[r] = "idle"
  /\ acct' = [acct EXCEPT ![r] = k]
  /\ Goto(r, "upsert")
  /\ UNCHANGED <<tables, served, who, what, reading, stale>>

\* Faulty variant of Upsert: no unique key on the Kakao id.
UpsertAlwaysInserts(r) ==
  /\ pc[r] = "upsert"
  /\ \E id \in UserId \ issued :
       /\ users' = users \cup {[id |-> id, kakao |-> acct[r]]}
       /\ issued' = issued \cup {id}
       /\ who' = [who EXCEPT ![r] = id]
  /\ Answer(r, "200")
  /\ UNCHANGED <<bookmarks, served, acct, what, reading, stale>>

\* upsert_kakao_user: one INSERT ... ON CONFLICT(kakao_id) DO UPDATE ...
\* RETURNING, then a token for the id it returns.
Upsert(r) ==
  /\ pc[r] = "upsert"
  /\ \/ \E u \in users :
          /\ u.kakao = acct[r]
          /\ who' = [who EXCEPT ![r] = u.id]
          /\ UNCHANGED <<users, issued>>
     \/ /\ \A u \in users : u.kakao # acct[r]
        /\ \E id \in UserId \ issued :
             /\ users' = users \cup {[id |-> id, kakao |-> acct[r]]}
             /\ issued' = issued \cup {id}
             /\ who' = [who EXCEPT ![r] = id]
  /\ Answer(r, "200")
  /\ UNCHANGED <<bookmarks, served, acct, what, reading, stale>>

\* Kakao rejects the code or does not answer.
LoginRefused(r) ==
  /\ pc[r] = "upsert"
  /\ Answer(r, "401")
  /\ UNCHANGED <<tables, served, request, reading, stale>>
------------------------------------------------------------------------------
(***************************************************************************)
(* Requests with a token                                                   *)
(***************************************************************************)

\* Any token ever issued may come back, at any time.
StartRequest(r, id, n) ==
  /\ pc[r] = "idle"
  /\ who' = [who EXCEPT ![r] = id]
  /\ what' = [what EXCEPT ![r] = n]
  /\ Goto(r, "auth")
  /\ stale' = IF id \in IdsInUse THEN stale ELSE stale \cup {r}
  /\ UNCHANGED <<tables, served, acct, reading>>

\* Faulty variant of Auth: a token with a valid signature is enough.
AuthBySignature(r) ==
  /\ pc[r] = "auth"
  /\ \/ Answer(r, "401") /\ UNCHANGED page
     \/ \E op \in Operations, p \in Pages :
          /\ Goto(r, op)
          /\ page' = [page EXCEPT ![r] = IF op = "count" THEN p ELSE 0]
  /\ UNCHANGED <<tables, served, request, known, total, shown, stale>>

\* get_current_user: an expired token or one of a user who has withdrawn is
\* refused; otherwise the endpoint runs, without looking at the user again.
Auth(r) ==
  /\ pc[r] = "auth"
  /\ \/ Answer(r, "401") /\ UNCHANGED page
     \/ /\ who[r] \in IdsInUse
        /\ \E op \in Operations, p \in Pages :
             /\ Goto(r, op)
             /\ page' = [page EXCEPT ![r] = IF op = "count" THEN p ELSE 0]
  /\ UNCHANGED <<tables, served, request, known, total, shown, stale>>

\* read_me
Me(r) ==
  /\ pc[r] = "me"
  /\ Answer(r, "200")
  /\ UNCHANGED <<tables, served, request, reading, stale>>

\* add_bookmark, the endpoint: get_bookmark ...
Lookup(r) ==
  /\ pc[r] = "lookup"
  /\ known' = [known EXCEPT ![r] = what[r] \in BookmarksOf(who[r])]
  /\ Goto(r, "notice")
  /\ UNCHANGED <<tables, served, request, total, page, shown, stale>>

\* ... then the notice: an old bookmark is returned even without one.
FetchNotice(r) ==
  /\ pc[r] = "notice"
  /\ CASE known[r] -> Answer(r, "200")
       [] ~known[r] /\ what[r] \notin served -> Answer(r, "404")
       [] OTHER -> Goto(r, "insert")
  /\ UNCHANGED <<tables, served, request, reading, stale>>

\* Faulty variant of Insert: the limit is not counted in the transaction.
InsertUncounted(r) ==
  LET id == who[r]
      n == what[r]
  IN  /\ pc[r] = "insert"
      /\ IF id \in IdsInUse
         THEN bookmarks' = bookmarks \cup {<<id, n>>} /\ Answer(r, "201")
         ELSE Answer(r, "500") /\ UNCHANGED bookmarks
      /\ UNCHANGED <<users, issued, served, request, reading, stale>>

\* user_store.add_bookmark, one BEGIN IMMEDIATE transaction.  The foreign
\* key refuses the row of a user who has withdrawn meanwhile.
Insert(r) ==
  LET id == who[r]
      n == what[r]
  IN  /\ pc[r] = "insert"
      /\ \/ /\ n \in BookmarksOf(id)
            /\ Answer(r, "200") /\ UNCHANGED bookmarks
         \/ /\ n \notin BookmarksOf(id)
            /\ Cardinality(BookmarksOf(id)) >= MaxBookmarks
            /\ Answer(r, "409") /\ UNCHANGED bookmarks
         \/ /\ n \notin BookmarksOf(id)
            /\ Cardinality(BookmarksOf(id)) < MaxBookmarks
            /\ id \notin IdsInUse
            /\ Answer(r, "500") /\ UNCHANGED bookmarks
         \/ /\ n \notin BookmarksOf(id)
            /\ Cardinality(BookmarksOf(id)) < MaxBookmarks
            /\ id \in IdsInUse
            /\ bookmarks' = bookmarks \cup {<<id, n>>}
            /\ Answer(r, "201")
      /\ UNCHANGED <<users, issued, served, request, reading, stale>>

\* remove_bookmark
Remove(r) ==
  /\ pc[r] = "remove"
  /\ bookmarks' = bookmarks \ {<<who[r], what[r]>>}
  /\ Answer(r, "204")
  /\ UNCHANGED <<users, issued, served, request, reading, stale>>

LastPage(n) == IF n = 0 THEN 1 ELSE (n + PageSize - 1) \div PageSize
AtMost(m, n) == IF m < n THEN m ELSE n

\* list_bookmarks: the count, and the page clamped to it ...
Count(r) ==
  LET n == Cardinality(BookmarksOf(who[r]))
  IN  /\ pc[r] = "count"
      /\ total' = [total EXCEPT ![r] = n]
      /\ page' = [page EXCEPT ![r] = AtMost(page[r], LastPage(n))]
      /\ Goto(r, "rows")
      /\ UNCHANGED <<tables, served, request, known, shown, stale>>

\* ... and the rows of that page, in a statement of its own.
Rows(r) ==
  LET n == Cardinality(BookmarksOf(who[r]))
      offset == (page[r] - 1) * PageSize
  IN  /\ pc[r] = "rows"
      /\ shown' = [shown EXCEPT ![r] =
                     IF n > offset THEN AtMost(PageSize, n - offset) ELSE 0]
      /\ Answer(r, "200")
      /\ UNCHANGED <<tables, served, request, known, total, page, stale>>

\* The requests of a user whose token has not been looked up yet.
Pending(id) == {s \in Slot : pc[s] = "auth" /\ who[s] = id}

\* Faulty variant of Withdraw: foreign keys are off, nothing cascades.
WithdrawNoCascade(r) ==
  /\ pc[r] = "withdraw"
  /\ users' = {u \in users : u.id # who[r]}
  /\ stale' = stale \cup Pending(who[r])
  /\ Answer(r, "204")
  /\ UNCHANGED <<issued, bookmarks, served, request, reading>>

\* delete_user, with ON DELETE CASCADE on the user's bookmarks.
Withdraw(r) ==
  /\ pc[r] = "withdraw"
  /\ users' = {u \in users : u.id # who[r]}
  /\ bookmarks' = {b \in bookmarks : b[1] # who[r]}
  /\ stale' = stale \cup Pending(who[r])
  /\ Answer(r, "204")
  /\ UNCHANGED <<issued, served, request, reading>>

\* A store call raises (locked for five seconds, disk full): 500, and its
\* transaction is rolled back.
StoreFails(r) ==
  /\ pc[r] \notin {"idle", "me", "done"}
  /\ Answer(r, "500")
  /\ UNCHANGED <<tables, served, request, reading, stale>>
------------------------------------------------------------------------------
\* The slot is used again.
Finish(r) ==
  /\ pc[r] = "done"
  /\ pc' = [pc EXCEPT ![r] = "idle"]
  /\ reply' = [reply EXCEPT ![r] = "none"]
  /\ who' = [who EXCEPT ![r] = None]
  /\ acct' = [acct EXCEPT ![r] = None]
  /\ what' = [what EXCEPT ![r] = None]
  /\ known' = [known EXCEPT ![r] = FALSE]
  /\ total' = [total EXCEPT ![r] = 0]
  /\ page' = [page EXCEPT ![r] = 0]
  /\ shown' = [shown EXCEPT ![r] = 0]
  /\ stale' = stale \ {r}
  /\ UNCHANGED <<tables, served>>

\* A crawl publishes: notices come and go.
Refresh ==
  /\ \E list \in SUBSET Notice : served' = list
  /\ UNCHANGED <<tables, pc, request, reading, reply, stale>>

Step(r) ==
  \/ Upsert(r) \/ LoginRefused(r) \/ Auth(r) \/ Me(r)
  \/ Lookup(r) \/ FetchNotice(r) \/ Insert(r) \/ Remove(r)
  \/ Count(r) \/ Rows(r) \/ Withdraw(r) \/ StoreFails(r) \/ Finish(r)

Next ==
  \/ \E r \in Slot : Step(r)
  \/ \E r \in Slot, k \in Kakao : StartLogin(r, k)
  \/ \E r \in Slot, id \in issued, n \in Notice : StartRequest(r, id, n)
  \/ Refresh

Spec == Init /\ [][Next]_vars
------------------------------------------------------------------------------
(***************************************************************************)
(* Properties                                                              *)
(***************************************************************************)

\* Requests of one user racing on both workers never push the user over the
\* bookmark limit: the count is taken inside the write transaction, not when
\* the endpoint looked the bookmark up (user_store.py:228-262).
LimitKept == \A id \in UserId : Cardinality(BookmarksOf(id)) <= MaxBookmarks

\* A withdrawal leaves nothing behind, even when an add that authenticated
\* before it inserts after it (user_store.py:28-38, 174-184).
BookmarksHaveUser == \A b \in bookmarks : b[1] \in IdsInUse

\* Racing first logins of one Kakao account end up in one account, and no
\* id serves two (user_store.py:131-157).
OneAccountPerKakao ==
  \A u, v \in users : u.kakao = v.kakao \/ u.id = v.id => u = v

\* Once an account is withdrawn its tokens open nothing, before they expire and
\* also when the same person has registered again meanwhile: a request that was
\* not authenticated before the withdrawal ends in 401, or in 500 when the store
\* fails.  One that was authenticated before goes on (auth.py:3-4, 88-91).
OldTokensAreRefused ==
  \A r \in stale : pc[r] \in {"auth", "done"} /\ reply[r] \in {"none", "401", "500"}
==============================================================================
