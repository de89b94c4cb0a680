---------------------------- MODULE NoticeSearch ----------------------------
(***************************************************************************)
(* Readers of the notice list: one turns the pages of a query and narrows  *)
(* it with the filters an answer offers (GET /api/notices), one is the     *)
(* chat that looks for evidence (find_relevant_notices).  Meanwhile lists  *)
(* are published, the database or the JSON list answers, and days pass.    *)
(* Each request opens its own connection and the ingest replaces the       *)
(* database file as a whole, so one search sees one list: a request is one *)
(* step.  The two readers share nothing but the list, so a behaviour has   *)
(* one of them.                                                            *)
(***************************************************************************)
EXTENDS NoticeQueries

CONSTANTS Lists,      \* the sets of notices that may be published
          Queries,    \* what readers ask for
          JumpPages,  \* page numbers a new query comes with
          Questions   \* what the chat asks for: queries with words

QueryFields == {"words", "audience", "group", "source", "category", "department", "target",
                "size"}

ASSUME SearchAssumption ==
    /\ Lists \subseteq SUBSET Notices
    /\ JumpPages \subseteq Int
    /\ \A q \in Queries \cup Questions :
         DOMAIN q = QueryFields /\ q.words \subseteq Words /\ q.size \in Int
    /\ \A q \in Questions : q.words # {}

VARIABLES listed,   \* the published list
          backend,  \* what answers: "sqlite" or "json"
          db,       \* the rows that the ingest made of the list
          cache,    \* the rows of notice_facets_cache
          today,
          view,     \* the reader's query, its last answer and the pages it has seen
          hunt      \* the chat's question, how far it is and what it found

vars == <<listed, backend, db, cache, today, view, hunt>>

NoView == [query |-> None, answer |-> Failure, pages |-> << >>, narrowed |-> FALSE]
NoHunt == [question |-> None, at |-> "idle", items |-> << >>, sqlite |-> FALSE]

Init ==
    /\ listed \in Lists
    /\ backend \in {"sqlite", "json"}
    /\ db = RowsOf(listed)
    /\ cache = BuildFacets(db)
    /\ today \in Days
    /\ view = NoView
    /\ hunt = NoHunt

-----------------------------------------------------------------------------
(* The server *)

\* A read of the facet cache may fail; then the facets are computed.
Resolved(q, readable) ==
    LET row == FromCache(cache, q.audience, q.group)
    IN  IF readable /\ row # << >> THEN Head(row) ELSE LiveFacets(db, q.audience, q.group)

Answer(q, page, readable) ==
    IF backend = "sqlite" THEN SqlAnswer(db, Resolved(q, readable), today, q, page)
    ELSE JsonAnswer(listed, today, q, page)

\* A publish and its ingest.  After failed ones the other backend may answer.  Pages
\* of different lists or days need not fit together, so a view ends here.
Ingest ==
    /\ listed' \in Lists
    /\ backend' \in {"sqlite", "json"}
    /\ <<listed', backend'>> # <<listed, backend>>
    /\ db' = RowsOf(listed')
    /\ cache' = BuildFacets(db')
    /\ view' = NoView
    /\ UNCHANGED <<today, hunt>>

Midnight ==
    /\ today + 1 \in Days
    /\ today' = today + 1
    /\ view' = NoView
    /\ UNCHANGED <<listed, backend, db, cache, hunt>>

-----------------------------------------------------------------------------
(* The reader *)

Shown(a) == [p \in IF a.ok THEN {a.page} ELSE {} |-> a.items]

Start(q, a, narrowed) == [query |-> q, answer |-> a, pages |-> Shown(a), narrowed |-> narrowed]

\* A new query, at any page: a client may keep its page number.
Ask(q, page, readable) ==
    /\ hunt.at = "idle"
    /\ view' = Start(q, Answer(q, page, readable), FALSE)
    /\ UNCHANGED <<listed, backend, db, cache, today, hunt>>

WithPage(v, a) ==
    LET shown == Shown(a)
    IN  [v EXCEPT !.answer = a,
                  !.pages = [p \in DOMAIN shown \cup DOMAIN v.pages |->
                               IF p \in DOMAIN shown THEN shown[p] ELSE v.pages[p]]]

\* Another page of the same query.
Turn(page, readable) ==
    /\ view.answer.ok
    /\ page <= view.answer.pages
    /\ view' = WithPage(view, Answer(view.query, page, readable))
    /\ UNCHANGED <<listed, backend, db, cache, today, hunt>>

\* Every query that adds one of the offered values to one that has no other filter
\* than an audience and a group.
Broad(q) ==
    /\ q.words = {} /\ q.source = None /\ q.category = 0 /\ q.department = None
    /\ q.target = None

Offered(q, facets) ==
    {[q EXCEPT !.audience = a, !.group = None] : a \in facets.audiences}
    \cup {[q EXCEPT !.group = g] : g \in facets.groups}
    \cup {[q EXCEPT !.source = s] : s \in facets.sources}
    \cup {[q EXCEPT !.category = k] : k \in facets.categories}
    \cup {[q EXCEPT !.department = d] : d \in facets.departments}

Narrow(readable) ==
    /\ view.answer.ok
    /\ Broad(view.query)
    /\ \E q \in Offered(view.query, view.answer.facets) :
         view' = Start(q, Answer(q, 1, readable), TRUE)
    /\ UNCHANGED <<listed, backend, db, cache, today, hunt>>

-----------------------------------------------------------------------------
(* The chat *)

FirstSearch(q, a) ==
    [question |-> q, at |-> IF a.ok /\ a.items = << >> THEN "latest" ELSE "done",
     items |-> a.items, sqlite |-> backend = "sqlite"]

\* The first search of find_relevant_notices.
Hunt(q, readable) ==
    /\ DOMAIN view.pages = {}
    /\ hunt.at # "latest"
    /\ hunt' = FirstSearch(q, Answer(q, 1, readable))
    /\ UNCHANGED <<listed, backend, db, cache, today, view>>

\* Faulty variant of Broadened: the second search forgets for whom it is.
BroadenedForAll(q) == [q EXCEPT !.words = {}, !.target = None]
Broadened(q) == [q EXCEPT !.words = {}]

\* Nothing was found and the caller wants the latest notices instead, or not.
HuntLatest(readable) ==
    /\ hunt.at = "latest"
    /\ hunt' = [hunt EXCEPT !.at = "done", !.sqlite = backend = "sqlite",
                            !.items = Answer(Broadened(hunt.question), 1, readable).items]
    /\ UNCHANGED <<listed, backend, db, cache, today, view>>

GiveUpHunt ==
    /\ hunt.at = "latest"
    /\ hunt' = [hunt EXCEPT !.at = "done"]
    /\ UNCHANGED <<listed, backend, db, cache, today, view>>

-----------------------------------------------------------------------------

Next ==
    \/ Ingest \/ Midnight
    \/ \E readable \in BOOLEAN :
         \/ \E q \in Queries, page \in JumpPages : Ask(q, page, readable)
         \/ \E page \in 1 .. Cardinality(Notices) : Turn(page, readable)
         \/ Narrow(readable)
         \/ \E q \in Questions : Hunt(q, readable)
         \/ HuntLatest(readable)
    \/ GiveUpHunt

Spec == Init /\ [][Next]_vars

-----------------------------------------------------------------------------
(* Properties *)

\* What the filters of a query let through, said once for both backends: a group that
\* the audience does not have is no filter, the source only counts for an audience
\* that has a source filter, and only the database knows for whom a notice is.
GroupsFor(a) == UNION {NoticeGroups[n] : n \in {n \in listed : a \in {None, Audience[n]}}}

Wanted(q) ==
    {n \in listed :
       /\ q.audience \in {None, Audience[n]}
       /\ q.group \notin GroupsFor(q.audience) \/ q.group \in NoticeGroups[n]
       /\ UsesSources(q.audience) => q.source \in {None} \cup Info[n].sources
       /\ q.category \in {0, Info[n].category}
       /\ q.department \in {None, Info[n].department}
       /\ backend = "sqlite" /\ Info[n].labeled => q.target \in {None} \cup Info[n].targets}

\* And those of them that a query with words asks for: in the database one word, or
\* another one of its group, is enough; in the JSON list two of the words themselves
\* have to be there, if the query has two.
Matching(q) ==
    {n \in Wanted(q) :
       \/ q.words = {}
       \/ backend = "sqlite" /\ \E w \in q.words : Matches(n, w)
       \/ /\ backend = "json"
          /\ Cardinality({w \in q.words : MatchesExactly(n, w)}) >= Least(2, Cardinality(q.words))}

\* What LIKE lets through, of which only the newest are scored.
Candidates(q) == {n \in Wanted(q) : \E w \in q.words : Liked(n, w)}
AllScored(q) ==
    backend = "json" \/ q.words = {} \/ Cardinality(Candidates(q)) <= CandidateLimit

Complete(v) == v.answer.ok /\ DOMAIN v.pages = 1 .. v.answer.pages
Seen(v) == UNION {ToSet(v.pages[i]) : i \in DOMAIN v.pages}

\* A reader that has seen every page, in whatever order and with page numbers past
\* the end, has seen every notice that matches its query once and no other; if more
\* are candidates than are scored, those it has not seen come after all it has seen
\* in the order of the database.  It has seen as many as total says, if none is left
\* out and no word is a pattern to LIKE (_paginate_no_query, _search_with_query,
\* _apply_text_filter, filter_notices, list_notices).
WalksAreComplete ==
    Complete(view) =>
        LET q == view.query
        IN  /\ \A i, j \in DOMAIN view.pages :
                 \A k \in DOMAIN view.pages[i], l \in DOMAIN view.pages[j] :
                   <<i, k>> # <<j, l>> => view.pages[i][k] # view.pages[j][l]
            /\ Seen(view) \subseteq Matching(q)
            /\ AllScored(q) => Seen(view) = Matching(q)
            /\ \A n \in Matching(q) \ Seen(view), m \in Seen(view) : <<m, n>> \in SqlOrder
            /\ AllScored(q) /\ (backend = "sqlite" => Candidates(q) \subseteq Matching(q)) =>
                 Cardinality(Seen(view)) = view.answer.total

\* A filter value that an answer offered finds something, for any audience and
\* group and notices merged from boards of several audiences (_resolve_facets,
\* get_facet_source_names, get_clean_categories).
OffersFindSomething ==
    view.narrowed /\ view.answer.ok => view.answer.items # << >>

\* Whatever answered, the facets are those that the list gives by the code of the
\* JSON path and those that its rows give by that of the SQL path, be they stored or
\* computed; and without words and target both paths select the same notices, as
\* many as total says (_facets_from_cache, build_and_store_facets,
\* _compute_facets_live, _build_main_where, legacy_search, filter_notices).
AnswersAgree ==
    view.answer.ok =>
        LET q == view.query
            resolved == [group |-> view.answer.group, facets |-> view.answer.facets]
            scope == OfGroup(OfAudience(listed, q.audience), resolved.group)
        IN  /\ resolved = ListFacets(listed, q.audience, q.group)
            /\ resolved = LiveFacets(db, q.audience, q.group)
            /\ q.words = {} /\ q.target = None =>
                 /\ Selected(db, q, resolved.group) = Filtered(scope, q)
                 /\ view.answer.total = Cardinality(Filtered(scope, q))

\* What the chat gets as evidence from the database is not labeled for others than
\* its user, the latest notices that stand in for missing ones included
\* (find_relevant_notices).
EvidenceSuitsTheUser ==
    hunt.sqlite => \A n \in ToSet(hunt.items) :
        hunt.question.target # None /\ Info[n].labeled => hunt.question.target \in Info[n].targets
=============================================================================
