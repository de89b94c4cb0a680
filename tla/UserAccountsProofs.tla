-------------------------- MODULE UserAccountsProofs --------------------------
(***************************************************************************)
(* Proofs about UserAccounts for any number of people, requests in flight, *)
(* notices and any bookmark limit.                                         *)
(***************************************************************************)
EXTENDS UserAccounts, FiniteSetTheorems, TLAPS

\* The steps that leave users, issued and bookmarks alone.
Reads(r) ==
  \/ LoginRefused(r) \/ Auth(r) \/ Me(r) \/ Lookup(r) \/ FetchNotice(r)
  \/ Count(r) \/ Rows(r) \/ StoreFails(r) \/ Finish(r)

LEMMA AccountCases ==
  ASSUME [Next]_vars
  PROVE  \/ \E r \in Slot : Upsert(r) \/ Insert(r) \/ Remove(r) \/ Withdraw(r)
         \/ UNCHANGED tables
<1>1. ASSUME NEW r \in Slot, Reads(r) PROVE UNCHANGED tables
  BY <1>1 DEF Reads, LoginRefused, Auth, Me, Lookup, FetchNotice, Count, Rows,
              StoreFails, Finish, tables
<1>2. ASSUME NEW r \in Slot, NEW k \in Kakao, StartLogin(r, k) PROVE UNCHANGED tables
  BY <1>2 DEF StartLogin
<1>3. ASSUME NEW r \in Slot, NEW id \in issued, NEW n \in Notice, StartRequest(r, id, n)
      PROVE  UNCHANGED tables
  BY <1>3 DEF StartRequest
<1>4. CASE Refresh
  BY <1>4 DEF Refresh
<1>5. CASE UNCHANGED vars
  BY <1>5 DEF vars, tables
<1> QED
  BY <1>1, <1>2, <1>3, <1>4, <1>5 DEF Next, Step, Reads
------------------------------------------------------------------------------
(***************************************************************************)
(* Accounts                                                                *)
(***************************************************************************)
AccountInv == IdsInUse \subseteq issued /\ OneAccountPerKakao

\* An account in use is either one of before or the one just registered.
LEMMA UpsertUsers ==
  ASSUME NEW r \in Slot, Upsert(r)
  PROVE  \/ users' = users /\ issued' = issued
         \/ \E id \in UserId \ issued :
              /\ \A u \in users : u.kakao # acct[r]
              /\ users' = users \cup {[id |-> id, kakao |-> acct[r]]}
              /\ issued' = issued \cup {id}
  BY DEF Upsert

LEMMA AccountStep == AccountInv /\ [Next]_vars => AccountInv'
<1> SUFFICES ASSUME AccountInv, [Next]_vars PROVE AccountInv'
  OBVIOUS
<1> USE DEF AccountInv, IdsInUse, OneAccountPerKakao
<1>1. ASSUME NEW r \in Slot, Upsert(r) PROVE AccountInv'
  <2>1. CASE users' = users /\ issued' = issued
    BY <2>1
  <2>2. ASSUME NEW id \in UserId \ issued,
               \A u \in users : u.kakao # acct[r],
               users' = users \cup {[id |-> id, kakao |-> acct[r]]},
               issued' = issued \cup {id}
        PROVE  AccountInv'
    <3> DEFINE new == [id |-> id, kakao |-> acct[r]]
    <3>1. new.id = id /\ new.kakao = acct[r]
      OBVIOUS
    <3>2. \A u \in users : u.id \in issued
      OBVIOUS
    <3> HIDE DEF new
    <3>3. users' = users \cup {new}
      BY <2>2 DEF new
    <3> QED
      BY <2>2, <3>1, <3>2, <3>3
  <2> QED
    BY <1>1, <2>1, <2>2, UpsertUsers
<1>2. ASSUME NEW r \in Slot, Insert(r) \/ Remove(r) PROVE AccountInv'
  BY <1>2 DEF Insert, Remove
<1>3. ASSUME NEW r \in Slot, Withdraw(r) PROVE AccountInv'
  BY <1>3 DEF Withdraw
<1>4. CASE UNCHANGED tables
  BY <1>4 DEF tables
<1> QED
  BY <1>1, <1>2, <1>3, <1>4, AccountCases

\* Racing logins never make two accounts of one Kakao account, and an id
\* never serves two people (user_store.py:131-157).
THEOREM AccountsUnique == Spec => []OneAccountPerKakao
<1>1. Init => AccountInv
  BY DEF Init, AccountInv, IdsInUse, OneAccountPerKakao
<1>2. AccountInv => OneAccountPerKakao
  BY DEF AccountInv
<1> QED
  BY <1>1, <1>2, AccountStep, PTL DEF Spec

------------------------------------------------------------------------------
(***************************************************************************)
(* Tokens of withdrawn accounts                                            *)
(***************************************************************************)
Replies == {"none", "200", "201", "204", "401", "404", "409", "500"}

\* A request has no reply before it is done, and its token was issued once.
RequestInv ==
  /\ pc \in [Slot -> Steps] /\ reply \in [Slot -> Replies]
  /\ who = [r \in Slot |-> who[r]] /\ stale \in SUBSET Slot
  /\ \A r \in Slot : pc[r] # "done" => reply[r] = "none"
  /\ \A r \in Slot : pc[r] = "auth" => who[r] \in issued

\* A dead token stays dead: its id was issued and will not be issued again.
StaleInv ==
  \A r \in stale :
    /\ who[r] \in issued /\ who[r] \notin IdsInUse
    /\ pc[r] \in {"auth", "done"} /\ reply[r] \in {"none", "401", "500"}

TokenInv == AccountInv /\ RequestInv /\ StaleInv

LEMMA Answered ==
  ASSUME RequestInv, NEW r \in Slot, NEW status \in Replies \ {"none"}, Answer(r, status)
  PROVE  /\ pc' \in [Slot -> Steps] /\ reply' \in [Slot -> Replies]
         /\ pc'[r] = "done" /\ reply'[r] = status
         /\ \A s \in Slot \ {r} : pc'[s] = pc[s] /\ reply'[s] = reply[s]
  BY DEF Answer, RequestInv, Steps

LEMMA Gone ==
  ASSUME RequestInv, NEW r \in Slot, NEW step \in Steps \ {"done"}, Goto(r, step)
  PROVE  /\ pc' \in [Slot -> Steps] /\ reply' = reply
         /\ pc'[r] = step
         /\ \A s \in Slot \ {r} : pc'[s] = pc[s]
  BY DEF Goto, RequestInv, Steps

\* A step that neither issues nor withdraws an id, nor starts a request, and that
\* only leads a request past "auth" when its account is in use.
LEMMA PlainStep ==
  ASSUME TokenInv, NEW r \in Slot, who' = who, stale' = stale,
         IdsInUse' = IdsInUse, issued' = issued,
         pc[r] # "done",
         \/ \E status \in Replies \ {"none"} :
              Answer(r, status) /\ (pc[r] = "auth" => status \in {"401", "500"})
         \/ \E step \in Steps \ {"done", "auth"} :
              Goto(r, step) /\ (pc[r] = "auth" => who[r] \in IdsInUse)
  PROVE  RequestInv' /\ StaleInv'
<1> USE DEF TokenInv
<1>1. ASSUME NEW status \in Replies \ {"none"}, Answer(r, status),
             pc[r] = "auth" => status \in {"401", "500"}
      PROVE  RequestInv' /\ StaleInv'
  <2>1. /\ pc' \in [Slot -> Steps] /\ reply' \in [Slot -> Replies]
        /\ pc'[r] = "done" /\ reply'[r] = status
        /\ \A s \in Slot \ {r} : pc'[s] = pc[s] /\ reply'[s] = reply[s]
    BY <1>1, Answered
  <2>2. RequestInv'
    BY <2>1 DEF RequestInv
  <2>3. StaleInv'
    <3> SUFFICES ASSUME NEW s \in stale
                 PROVE  /\ who[s] \in issued /\ who[s] \notin IdsInUse
                        /\ pc'[s] \in {"auth", "done"} /\ reply'[s] \in {"none", "401", "500"}
      BY DEF StaleInv
    <3>1. s \in Slot
      BY DEF RequestInv
    <3>2. CASE s # r
      BY <2>1, <3>1, <3>2 DEF StaleInv
    <3>3. CASE s = r
      BY <1>1, <2>1, <3>3 DEF StaleInv
    <3> QED
      BY <3>2, <3>3
  <2> QED
    BY <2>2, <2>3
<1>2. ASSUME NEW step \in Steps \ {"done", "auth"}, Goto(r, step),
             pc[r] = "auth" => who[r] \in IdsInUse
      PROVE  RequestInv' /\ StaleInv'
  <2>1. /\ pc' \in [Slot -> Steps] /\ reply' = reply
        /\ pc'[r] = step
        /\ \A s \in Slot \ {r} : pc'[s] = pc[s]
    BY <1>2, Gone
  <2>2. RequestInv'
    BY <2>1 DEF RequestInv
  <2>3. r \notin stale
    BY <1>2 DEF StaleInv
  <2>4. StaleInv'
    BY <2>1, <2>3 DEF StaleInv, RequestInv
  <2> QED
    BY <2>2, <2>4
<1> QED
  BY <1>1, <1>2

LEMMA TokenStep == TokenInv /\ [Next]_vars => TokenInv'
<1> SUFFICES ASSUME TokenInv, [Next]_vars PROVE TokenInv'
  OBVIOUS
<1>a. AccountInv'
  BY AccountStep DEF TokenInv
<1>0. AccountInv /\ RequestInv /\ StaleInv
  BY DEF TokenInv
<1>b. SUFFICES RequestInv' /\ StaleInv'
  BY <1>a DEF TokenInv
<1>1. ASSUME NEW r \in Slot, Upsert(r) PROVE RequestInv' /\ StaleInv'
  <2>1. pc[r] = "upsert" /\ Answer(r, "200") /\ stale' = stale
    BY <1>1 DEF Upsert
  <2>2. /\ pc' \in [Slot -> Steps] /\ reply' \in [Slot -> Replies]
        /\ pc'[r] = "done"
        /\ \A s \in Slot \ {r} : pc'[s] = pc[s] /\ reply'[s] = reply[s]
    BY <1>0, <2>1, Answered DEF Replies
  <2>3. PICK id : who' = [who EXCEPT ![r] = id]
    BY <1>1 DEF Upsert
  <2>4. who' = [s \in Slot |-> who'[s]] /\ \A s \in Slot \ {r} : who'[s] = who[s]
    BY <1>0, <2>3 DEF RequestInv
  <2>5. issued \subseteq issued'
    BY <1>1, UpsertUsers
  <2>6. \A i \in issued : i \notin IdsInUse => i \notin IdsInUse'
    <3>1. CASE users' = users
      BY <3>1 DEF IdsInUse
    <3>2. ASSUME NEW i \in UserId \ issued,
                 users' = users \cup {[id |-> i, kakao |-> acct[r]]}
          PROVE  \A j \in issued : j \notin IdsInUse => j \notin IdsInUse'
      BY <3>2 DEF IdsInUse
    <3> QED
      BY <1>1, <3>1, <3>2, UpsertUsers
  <2>7. r \notin stale
    BY <1>0, <2>1 DEF StaleInv
  <2>8. RequestInv'
    BY <1>0, <2>1, <2>2, <2>4, <2>5 DEF RequestInv
  <2>9. StaleInv'
    BY <1>0, <2>1, <2>2, <2>4, <2>5, <2>6, <2>7 DEF StaleInv, RequestInv
  <2> QED
    BY <2>8, <2>9
<1>2. ASSUME NEW r \in Slot,
             \/ LoginRefused(r) \/ Auth(r) \/ Me(r) \/ Lookup(r) \/ FetchNotice(r)
             \/ Insert(r) \/ Remove(r) \/ Count(r) \/ Rows(r) \/ StoreFails(r)
      PROVE  RequestInv' /\ StaleInv'
  <2>1. /\ who' = who /\ stale' = stale /\ issued' = issued /\ users' = users
        /\ pc[r] # "done"
    BY <1>2 DEF LoginRefused, Auth, Me, Lookup, FetchNotice, Insert, Remove, Count, Rows,
                StoreFails, tables, request
  <2>2. IdsInUse' = IdsInUse
    BY <2>1 DEF IdsInUse
  <2>3. \/ \E status \in Replies \ {"none"} :
             Answer(r, status) /\ (pc[r] = "auth" => status \in {"401", "500"})
        \/ \E step \in Steps \ {"done", "auth"} :
             Goto(r, step) /\ (pc[r] = "auth" => who[r] \in IdsInUse)
    <3>1. CASE Auth(r)
      BY <3>1 DEF Auth, Replies, Steps, Operations
    <3>2. CASE LoginRefused(r) \/ Me(r) \/ Insert(r) \/ Remove(r) \/ Rows(r)
      BY <3>2 DEF LoginRefused, Me, Insert, Remove, Rows, Replies
    <3>3. CASE StoreFails(r)
      BY <3>3 DEF StoreFails, Replies
    <3>4. CASE Lookup(r) \/ FetchNotice(r) \/ Count(r)
      BY <3>4 DEF Lookup, FetchNotice, Count, Replies, Steps, Operations
    <3> QED
      BY <1>2, <3>1, <3>2, <3>3, <3>4
  <2> QED
    BY <2>1, <2>2, <2>3, PlainStep
<1>3. ASSUME NEW r \in Slot, Withdraw(r) PROVE RequestInv' /\ StaleInv'
  <2>1. /\ pc[r] = "withdraw" /\ Answer(r, "204") /\ who' = who /\ issued' = issued
        /\ users' = {u \in users : u.id # who[r]}
        /\ stale' = stale \cup Pending(who[r])
    BY <1>3 DEF Withdraw, request
  <2>2. /\ pc' \in [Slot -> Steps] /\ reply' \in [Slot -> Replies]
        /\ pc'[r] = "done"
        /\ \A s \in Slot \ {r} : pc'[s] = pc[s] /\ reply'[s] = reply[s]
    BY <1>0, <2>1, Answered DEF Replies
  <2>3. IdsInUse' \subseteq IdsInUse /\ who[r] \notin IdsInUse'
    BY <2>1 DEF IdsInUse
  <2>4. RequestInv'
    BY <1>0, <2>1, <2>2 DEF RequestInv, Pending
  <2>5. ASSUME NEW s \in stale'
        PROVE  /\ who'[s] \in issued' /\ who'[s] \notin IdsInUse'
               /\ pc'[s] \in {"auth", "done"} /\ reply'[s] \in {"none", "401", "500"}
    <3>1. s \in Slot
      BY <2>4 DEF RequestInv
    <3>2. CASE s \in stale
      <4>1. s # r
        BY <1>0, <2>1, <3>2 DEF StaleInv
      <4> QED
        BY <1>0, <2>1, <2>2, <2>3, <3>1, <3>2, <4>1 DEF StaleInv
    <3>3. CASE s \in Pending(who[r])
      <4>1. pc[s] = "auth" /\ who[s] = who[r] /\ s # r
        BY <2>1, <3>3 DEF Pending
      <4> QED
        BY <1>0, <2>1, <2>2, <2>3, <3>1, <4>1 DEF RequestInv
    <3> QED
      BY <2>1, <2>5, <3>2, <3>3
  <2> QED
    BY <2>4, <2>5 DEF StaleInv
<1>4. ASSUME NEW r \in Slot, Finish(r) PROVE RequestInv' /\ StaleInv'
  <2>1. /\ issued' = issued /\ users' = users /\ stale' = stale \ {r}
        /\ pc' = [pc EXCEPT ![r] = "idle"] /\ reply' = [reply EXCEPT ![r] = "none"]
        /\ who' = [who EXCEPT ![r] = None]
    BY <1>4 DEF Finish, tables
  <2>2. pc' \in [Slot -> Steps] /\ reply' \in [Slot -> Replies]
    BY <1>0, <2>1 DEF RequestInv, Steps, Replies
  <2>3. IdsInUse' = IdsInUse
    BY <2>1 DEF IdsInUse
  <2>4. /\ pc'[r] = "idle" /\ reply'[r] = "none"
        /\ who' = [s \in Slot |-> who'[s]]
        /\ \A s \in Slot \ {r} : pc'[s] = pc[s] /\ reply'[s] = reply[s] /\ who'[s] = who[s]
    BY <1>0, <2>1 DEF RequestInv
  <2>5. RequestInv'
    BY <1>0, <2>1, <2>2, <2>4 DEF RequestInv
  <2>6. StaleInv'
    BY <1>0, <2>1, <2>3, <2>4 DEF StaleInv, RequestInv
  <2> QED
    BY <2>5, <2>6
<1>5. ASSUME NEW r \in Slot, NEW k \in Kakao, StartLogin(r, k)
      PROVE  RequestInv' /\ StaleInv'
  <2>1. /\ who' = who /\ stale' = stale /\ issued' = issued /\ users' = users
        /\ pc[r] = "idle" /\ Goto(r, "upsert")
    BY <1>5 DEF StartLogin, tables
  <2>2. IdsInUse' = IdsInUse
    BY <2>1 DEF IdsInUse
  <2> QED
    BY <2>1, <2>2, PlainStep DEF Steps
<1>6. ASSUME NEW r \in Slot, NEW id \in issued, NEW n \in Notice, StartRequest(r, id, n)
      PROVE  RequestInv' /\ StaleInv'
  <2>1. /\ issued' = issued /\ users' = users /\ pc[r] = "idle" /\ Goto(r, "auth")
        /\ who' = [who EXCEPT ![r] = id]
        /\ stale' = IF id \in IdsInUse THEN stale ELSE stale \cup {r}
    BY <1>6 DEF StartRequest, tables
  <2>2. IdsInUse' = IdsInUse
    BY <2>1 DEF IdsInUse
  <2>3. /\ pc' \in [Slot -> Steps] /\ reply' = reply /\ pc'[r] = "auth"
        /\ \A s \in Slot \ {r} : pc'[s] = pc[s]
    BY <1>0, <2>1, Gone DEF Steps
  <2>4. /\ who' = [s \in Slot |-> who'[s]] /\ who'[r] = id
        /\ \A s \in Slot \ {r} : who'[s] = who[s]
    BY <1>0, <2>1 DEF RequestInv
  <2>5. reply[r] = "none" /\ r \notin stale
    BY <1>0, <2>1 DEF RequestInv, StaleInv
  <2>6. RequestInv'
    BY <1>0, <2>1, <2>3, <2>4, <2>5 DEF RequestInv
  <2>7. StaleInv'
    BY <1>0, <2>1, <2>2, <2>3, <2>4, <2>5 DEF StaleInv, RequestInv
  <2> QED
    BY <2>6, <2>7
<1>7. CASE Refresh
  BY <1>0, <1>7 DEF Refresh, tables, request, RequestInv, StaleInv, IdsInUse
<1>8. CASE UNCHANGED vars
  BY <1>0, <1>8 DEF vars, RequestInv, StaleInv, IdsInUse
<1> QED
  BY <1>1, <1>2, <1>3, <1>4, <1>5, <1>6, <1>7, <1>8 DEF Next, Step

\* The tokens of a withdrawn account open nothing any more, whoever registers
\* again and whatever requests are under way (auth.py:3-4, 74-92).
THEOREM OldTokensRefused == Spec => []OldTokensAreRefused
<1>1. Init => TokenInv
  BY DEF Init, TokenInv, AccountInv, IdsInUse, OneAccountPerKakao, RequestInv, StaleInv,
         Steps, Replies
<1>2. TokenInv => OldTokensAreRefused
  BY DEF TokenInv, StaleInv, OldTokensAreRefused
<1> QED
  BY <1>1, <1>2, TokenStep, PTL DEF Spec
------------------------------------------------------------------------------
(***************************************************************************)
(* Bookmarks                                                               *)
(***************************************************************************)
LEMMA BookmarksOfFinite ==
  ASSUME NEW id PROVE IsFiniteSet(BookmarksOf(id)) /\ Cardinality(BookmarksOf(id)) \in Nat
<1>1. BookmarksOf(id) \in SUBSET Notice
  BY DEF BookmarksOf
<1> QED
  BY <1>1, AccountAssumption, FS_Subset, FS_CardinalityType

BookmarkInv == LimitKept /\ BookmarksHaveUser

LEMMA BookmarkStep == BookmarkInv /\ [Next]_vars => BookmarkInv'
<1> SUFFICES ASSUME BookmarkInv, [Next]_vars PROVE BookmarkInv'
  OBVIOUS
<1> USE AccountAssumption DEF BookmarkInv
<1>1. ASSUME bookmarks' \in SUBSET bookmarks PROVE LimitKept'
  <2>1. SUFFICES ASSUME NEW id \in UserId
                 PROVE  Cardinality(BookmarksOf(id)') <= MaxBookmarks
    BY DEF LimitKept
  <2>2. BookmarksOf(id)' \in SUBSET BookmarksOf(id)
    BY <1>1 DEF BookmarksOf
  <2>3. Cardinality(BookmarksOf(id)') <= Cardinality(BookmarksOf(id))
    BY <2>2, BookmarksOfFinite, FS_Subset
  <2>4. Cardinality(BookmarksOf(id)) <= MaxBookmarks
    BY DEF LimitKept
  <2>5. IsFiniteSet(BookmarksOf(id)')
    BY <2>2, BookmarksOfFinite, FS_Subset
  <2>6. Cardinality(BookmarksOf(id)') \in Nat
    BY <2>5, FS_CardinalityType
  <2> QED
    BY <2>3, <2>4, <2>6, BookmarksOfFinite
<1>2. ASSUME NEW r \in Slot, Upsert(r) PROVE BookmarkInv'
  <2>1. bookmarks' = bookmarks /\ users \subseteq users'
    BY <1>2 DEF Upsert
  <2> QED
    BY <2>1, <1>1 DEF BookmarksHaveUser, IdsInUse
<1>3. ASSUME NEW r \in Slot, Insert(r) PROVE BookmarkInv'
  <2>1. users' = users
    BY <1>3 DEF Insert
  <2>2. CASE bookmarks' = bookmarks
    BY <2>1, <2>2, <1>1 DEF BookmarksHaveUser, IdsInUse
  <2>3. CASE /\ bookmarks' = bookmarks \cup {<<who[r], what[r]>>}
             /\ Cardinality(BookmarksOf(who[r])) < MaxBookmarks
             /\ who[r] \in IdsInUse
    <3>1. BookmarksHaveUser'
      BY <2>1, <2>3 DEF BookmarksHaveUser, IdsInUse
    <3>2. ASSUME NEW id \in UserId
          PROVE  Cardinality(BookmarksOf(id)') <= MaxBookmarks
      <4>1. CASE id # who[r] \/ what[r] \notin Notice
        <5>1. BookmarksOf(id)' = BookmarksOf(id)
          BY <2>3, <4>1 DEF BookmarksOf
        <5> QED
          BY <5>1 DEF LimitKept
      <4>2. CASE id = who[r] /\ what[r] \in Notice
        <5>1. BookmarksOf(id)' = BookmarksOf(id) \cup {what[r]}
          BY <2>3, <4>2 DEF BookmarksOf
        <5>2. Cardinality(BookmarksOf(id)') <= Cardinality(BookmarksOf(id)) + 1
          <6> DEFINE S == BookmarksOf(id)
          <6>1. IsFiniteSet(S) /\ Cardinality(S) \in Nat
            BY BookmarksOfFinite
          <6> HIDE DEF S
          <6>2. Cardinality(S \cup {what[r]}) =
                  IF what[r] \in S THEN Cardinality(S) ELSE Cardinality(S) + 1
            BY <6>1, FS_AddElement, Zenon
          <6>3. Cardinality(S \cup {what[r]}) <= Cardinality(S) + 1
            BY <6>1, <6>2
          <6> QED
            BY <5>1, <6>3 DEF S
        <5>3. Cardinality(BookmarksOf(id)') \in Nat
          BY <5>1, BookmarksOfFinite, FS_AddElement, FS_CardinalityType
        <5> QED
          BY <5>2, <5>3, <2>3, <4>2, BookmarksOfFinite
      <4> QED
        BY <4>1, <4>2
    <3> QED
      BY <3>1, <3>2 DEF LimitKept
  <2> QED
    BY <1>3, <2>2, <2>3 DEF Insert
<1>4. ASSUME NEW r \in Slot, Remove(r) PROVE BookmarkInv'
  BY <1>4, <1>1 DEF Remove, BookmarksHaveUser, IdsInUse
<1>5. ASSUME NEW r \in Slot, Withdraw(r) PROVE BookmarkInv'
  <2>1. bookmarks' \in SUBSET bookmarks
    BY <1>5 DEF Withdraw
  <2>2. ASSUME NEW b \in bookmarks' PROVE b[1] \in IdsInUse'
    <3>1. b \in bookmarks /\ b[1] # who[r]
      BY <1>5, <2>2 DEF Withdraw
    <3>2. PICK u \in users : u.id = b[1]
      BY <3>1 DEF BookmarksHaveUser, IdsInUse
    <3>3. u \in users'
      BY <1>5, <3>1, <3>2 DEF Withdraw
    <3> QED
      BY <3>2, <3>3 DEF IdsInUse
  <2> QED
    BY <2>1, <2>2, <1>1 DEF BookmarksHaveUser
<1>6. CASE UNCHANGED tables
  BY <1>6, <1>1 DEF tables, BookmarksHaveUser, IdsInUse
<1> QED
  BY <1>2, <1>3, <1>4, <1>5, <1>6, AccountCases

LEMMA BookmarkInvariant == Spec => []BookmarkInv
<1>1. Init => BookmarkInv
  <2>1. ASSUME Init, NEW id \in UserId PROVE Cardinality(BookmarksOf(id)) <= MaxBookmarks
    <3>1. BookmarksOf(id) = {}
      BY <2>1 DEF Init, BookmarksOf
    <3> QED
      BY <3>1, FS_EmptySet, AccountAssumption
  <2> QED
    BY <2>1 DEF Init, BookmarkInv, LimitKept, BookmarksHaveUser
<1> QED
  BY <1>1, BookmarkStep, PTL DEF Spec

\* However many requests of one user race, the bookmark limit holds
\* (user_store.py:228-262).
THEOREM BookmarkLimitKept == Spec => []LimitKept
<1>1. BookmarkInv => LimitKept
  BY DEF BookmarkInv
<1> QED
  BY <1>1, BookmarkInvariant, PTL

\* No bookmark outlives its user, however adds and withdrawals race
\* (user_store.py:28-38, 174-184).
THEOREM NoOrphanBookmarks == Spec => []BookmarksHaveUser
<1>1. BookmarkInv => BookmarksHaveUser
  BY DEF BookmarkInv
<1> QED
  BY <1>1, BookmarkInvariant, PTL
==============================================================================
