---------------------------- MODULE NoticeQueries ----------------------------
(***************************************************************************)
(* What a notice list answers to a query, by the code's two paths: SQL     *)
(* over the rows that the ingest wrote (app/sqlite_repository.py) and a    *)
(* pipeline over the JSON list (app/service_pipeline.py, app/search.py).   *)
(* They share what the code lets them share, which is the classification   *)
(* of a notice, get_clean_categories and rank_notices.  A source name is   *)
(* the set of the names of audiences and groups that classify it; the text *)
(* of a notice is what a word of a query hits in it.                       *)
(***************************************************************************)
EXTENDS Integers, FiniteSets, Sequences, SequencesExt, FiniteSetsExt, TLC

CONSTANTS Notices,
          Sources,         \* names of boards
          Named,           \* [Sources -> the audiences and groups in the name]
          Info,            \* [Notices -> what the crawler stored of the notice]
          Words,           \* of queries, each of another synonym group
          Days,            \* the dates on which something is asked
          CandidateLimit,  \* SEARCH_CANDIDATE_LIMIT
          UsefulShapes,    \* the categories that are no stray text
          CategoryLimit,   \* more categories than this are not offered,
          ShownCategories  \* and no more than this

None == "none"  \* no filter, or an empty value

\* AUDIENCE_GROUP_ORDER in the order of the tests in classify_source_to_audience,
\* and the groups of an audience in the order in which its test names them.
GroupsByAudience ==
    [career |-> {"jobCenter", "departmentJobs"},
     freshmen |-> {"freshmenCenter", "dreamCollege"},
     programs |-> {"exchange", "bootcamp", "industry", "teaching"},
     graduate |-> {}, lifelong |-> {},
     department |-> {"engineering", "ai", "management", "otherDepartments"},
     official |-> {"general", "academic", "scholarship", "bid", "event"},
     other |-> {"dormitory", "rights", "library", "lms", "admissions", "museum"}]
AudienceTests == <<"career", "freshmen", "programs", "graduate", "lifelong", "department">>
CollegeTests == <<"engineering", "ai", "management", "otherDepartments">>
FreshmenTests == <<"freshmenCenter", "dreamCollege">>
Audiences == DOMAIN GroupsByAudience
Groups == UNION {GroupsByAudience[a] : a \in Audiences}

\* The fields of a notice that a word can be in; "text" is the rest of the search
\* text and "compact" the text without blanks.  "pattern" is a place that only LIKE
\* finds, "synonym" says that not the word but another one of its group is there.
Fields == {"title", "tags", "source", "content", "text", "compact", "pattern", "synonym"}

ASSUME QueriesAssumption ==
    /\ IsFiniteSet(Notices) /\ IsFiniteSet(Words)
    /\ Named \in [Sources -> SUBSET (Audiences \cup Groups)]
    /\ \A n \in Notices :
         /\ Info[n].sources \subseteq Sources
         /\ Info[n].topic \in GroupsByAudience["official"]
         /\ {Info[n].date, Info[n].title, Info[n].id, Info[n].pos, Info[n].category} \subseteq Nat
         /\ Info[n].realDate \in BOOLEAN
         /\ DOMAIN Info[n].hits \subseteq Words
         /\ \A w \in DOMAIN Info[n].hits : Info[n].hits[w] \subseteq Fields
    /\ \A n, m \in Notices : n # m => Info[n].id # Info[m].id /\ Info[n].pos # Info[m].pos
    /\ Days \subseteq Nat
    /\ {CandidateLimit, CategoryLimit, ShownCategories} \subseteq Nat

-----------------------------------------------------------------------------
(* Classification *)

FirstOf(tests, names) ==
    {tests[i] : i \in {i \in DOMAIN tests :
                         tests[i] \in names /\ \A j \in 1 .. i - 1 : tests[j] \notin names}}

NamesIn(sources) == UNION {Named[s] : s \in sources}

\* classify_source_to_audience
AudienceOf(sources) ==
    LET tested == FirstOf(AudienceTests, NamesIn(sources))
    IN  IF tested # {} THEN CHOOSE a \in Audiences : tested = {a}
        ELSE IF "official" \in NamesIn(sources) THEN "official" ELSE "other"

\* classify_college_groups: a source belongs to one college.
Colleges(sources) ==
    LET found == UNION {FirstOf(CollegeTests, Named[s]) : s \in sources}
    IN  IF found = {} THEN {"otherDepartments"} ELSE found

\* classify_notice_source_groups
GroupsOf(sources, topic) ==
    LET audience == AudienceOf(sources)
        named == NamesIn(sources) \cap GroupsByAudience[audience]
    IN  CASE audience = "official" -> {topic}
          [] audience = "department" -> Colleges(sources)
          [] audience = "freshmen" -> FirstOf(FreshmenTests, named)
          [] OTHER -> named

Audience == [n \in Notices |-> AudienceOf(Info[n].sources)]
NoticeGroups == [n \in Notices |-> GroupsOf(Info[n].sources, Info[n].topic)]

\* should_use_source_filter
UsesSources(audience) == audience \in {"department", "graduate", "lifelong"}

-----------------------------------------------------------------------------
(* What both paths share about facets *)

\* Of the sources of a merged notice, those that are in the scope by themselves; if
\* none is, all of them.
InScopeAlone(sources, topic, a, g) ==
    LET scoped == {s \in sources :
                     /\ a = None \/ AudienceOf({s}) = a
                     /\ g = None \/ g \in GroupsOf({s}, topic)}
    IN  IF scoped = {} THEN sources ELSE scoped

\* get_clean_categories; 0 is no category.
CleanCategories(ns) ==
    LET entries == {Info[n].category : n \in ns} \ {0}
        Count(k) == Cardinality({n \in ns : Info[n].category = k})
        single == {k \in entries : Count(k) = 1}
        cleaned == (entries \ single) \cap UsefulShapes
    IN  IF \/ Cardinality(entries) > CategoryLimit
           \/ 100 * Cardinality(single) > 35 * Cardinality(entries)
        THEN {}
        ELSE {k \in cleaned : Cardinality({j \in cleaned : j < k}) < ShownCategories}

\* A group that the audience does not have is no filter.
Effective(group, groups) == IF group \in groups THEN group ELSE None

-----------------------------------------------------------------------------
(* Facets of the rows *)

\* What the ingest writes of a list: the audience_group of the rows of notices (their
\* other columns are those of Info), notice_sources, notice_source_groups,
\* notice_labels and notice_label_targets.
RowsOf(c) ==
    LET labels == {n \in c : Info[n].labeled}
    IN  [audience |-> [n \in c |-> Audience[n]],
         sources |-> UNION {{n} \X Info[n].sources : n \in c},
         groups |-> UNION {{n} \X NoticeGroups[n] : n \in c},
         labels |-> labels,
         targets |-> UNION {{n} \X Info[n].targets : n \in labels}]

Ids(d) == DOMAIN d.audience

\* The clauses on audience_group and notice_source_groups.
Scope(d, a, g) ==
    {n \in Ids(d) : (a = None \/ d.audience[n] = a) /\ (g = None \/ <<n, g>> \in d.groups)}

\* Faulty variant of QueryGroups: the groups of all notices, whatever the audience.
QueryGroupsOfAll(d, a) == {r[2] : r \in d.groups}

\* _query_source_groups: the groups joined with their notices.
QueryGroups(d, a) == {r[2] : r \in {r \in d.groups : a = None \/ d.audience[r[1]] = a}}

\* _query_sources: the rows of a notice are gathered before they are looked at.
QuerySources(d, a, g) ==
    LET Gathered(n) == {r[2] : r \in {r \in d.sources : r[1] = n}}
    IN  UNION {InScopeAlone(Gathered(n), Info[n].topic, a, g) : n \in Scope(d, a, g)}

\* _compute_facet_bundle
Bundle(d, a, g) ==
    [audiences |-> {d.audience[n] : n \in Ids(d)},
     groups |-> QueryGroups(d, a),
     sources |-> IF UsesSources(a) THEN QuerySources(d, a, g) ELSE {},
     categories |-> CleanCategories(Scope(d, a, g)),
     departments |-> {Info[n].department : n \in Scope(d, a, g)} \ {None}]

\* Rows for all notices and for each audience, with and without each of its groups.
FacetKeys(d) ==
    {key \in ({None} \cup {d.audience[n] : n \in Ids(d)}) \X ({None} \cup Groups) :
       key[2] = None \/ key[2] \in QueryGroups(d, key[1])}

\* Faulty variant of BuildFacets: one row for a group, whatever the audience.
BuildFacetsByGroup(d) ==
    [key \in FacetKeys(d) |-> Bundle(d, IF key[2] = None THEN key[1] ELSE None, key[2])]

\* build_and_store_facets: the rows of notice_facets_cache.
BuildFacets(d) == [key \in FacetKeys(d) |-> Bundle(d, key[1], key[2])]

\* _facets_from_cache: <<>> if a row that it needs is not there.
FromCache(cache, a, group) ==
    IF <<a, None>> \notin DOMAIN cache THEN << >>
    ELSE LET g == Effective(group, cache[<<a, None>>].groups)
         IN  IF <<a, g>> \notin DOMAIN cache THEN << >>
             ELSE <<[group |-> g, facets |-> cache[<<a, g>>]]>>

\* _compute_facets_live
LiveFacets(d, a, group) ==
    LET g == Effective(group, QueryGroups(d, a))
    IN  [group |-> g, facets |-> Bundle(d, a, g)]

-----------------------------------------------------------------------------
(* Facets of the JSON list *)

\* filter_by_audience_group, filter_by_source_group, get_all_source_groups
OfAudience(ns, a) == IF a = None THEN ns ELSE {n \in ns : Audience[n] = a}
OfGroup(ns, g) == IF g = None THEN ns ELSE {n \in ns : g \in NoticeGroups[n]}
GroupsIn(ns) == UNION {NoticeGroups[n] : n \in ns}

\* get_facet_source_names
FacetSources(n, a, g) == InScopeAlone(Info[n].sources, Info[n].topic, a, g)

\* The facets of legacy_search.
ListFacets(c, a, group) ==
    LET groups == GroupsIn(OfAudience(c, a))
        g == Effective(group, groups)
        scope == OfGroup(OfAudience(c, a), g)
    IN  [group |-> g,
         facets |->
           [audiences |-> {Audience[n] : n \in c},
            groups |-> groups,
            sources |-> IF UsesSources(a) THEN UNION {FacetSources(n, a, g) : n \in scope}
                        ELSE {},
            categories |-> CleanCategories(scope),
            departments |-> {Info[n].department : n \in scope} \ {None}]]

-----------------------------------------------------------------------------
(* Matching and ranking *)

InText(n, w) ==
    w \in DOMAIN Info[n].hits
    /\ Info[n].hits[w] \cap {"title", "tags", "source", "content", "text"} # {}

\* What LIKE counts, and what is left of it by _apply_text_filter.
Liked(n, w) == w \in DOMAIN Info[n].hits /\ Info[n].hits[w] \ {"synonym"} # {}
Matches(n, w) == w \in DOMAIN Info[n].hits /\ Info[n].hits[w] \ {"synonym", "pattern"} # {}
\* filter_notices knows no synonyms.
MatchesExactly(n, w) == Matches(n, w) /\ "synonym" \notin Info[n].hits[w]

\* Faulty variant of LikedBy, which sqlite_repository.py says it once had: a notice
\* has to have every word.
LikedByAll(n, words) == \A w \in words : Liked(n, w)
\* The clauses of the words are joined by OR.
LikedBy(n, words) == \E w \in words : Liked(n, w)
MatchesOne(n, words) == \E w \in words : Matches(n, w)

\* recency_boost
Recency(date, day) ==
    LET age == day - date
    IN  CASE age < 0 -> 0
          [] age \in 0 .. 7 -> 5
          [] age \in 8 .. 30 -> 3
          [] age \in 31 .. 90 -> 1
          [] age \in 91 .. 365 -> 0
          [] age > 365 -> -2

\* score_by_groups: a word counts once in the text and once in each place.
HitsIn(n, words, field) ==
    Cardinality({w \in words \cap DOMAIN Info[n].hits : field \in Info[n].hits[w]})
BaseScore(n, words) ==
    Cardinality({w \in words : InText(n, w)})
    + 7 * HitsIn(n, words, "title") + 3 * HitsIn(n, words, "tags")
    + 2 * HitsIn(n, words, "source") + HitsIn(n, words, "content")
Score(n, words, day) ==
    BaseScore(n, words)
    + (IF BaseScore(n, words) > 0 /\ Info[n].date # 0 THEN Recency(Info[n].date, day) ELSE 0)

\* recency_boost raises ValueError on a date like 2026-02-30.
Raises(ns, words) ==
    \E n \in ns : BaseScore(n, words) > 0 /\ Info[n].date # 0 /\ ~Info[n].realDate

Less(key1, key2) ==
    \E i \in 1 .. Len(key1) : key1[i] < key2[i] /\ \A j \in 1 .. i - 1 : key1[j] = key2[j]

\* Orders of the notices are sets of pairs.  Some notices, each after those that are
\* before it.
InOrder(before, ns) ==
    [i \in 1 .. Cardinality(ns) |->
        CHOOSE n \in ns : Cardinality({m \in ns : <<m, n>> \in before}) = i - 1]

\* ORDER BY published_at DESC, title ASC, id ASC; no date is the smallest.  (The pairs
\* are enumerated so that TLC computes them once.)
SqlKey(n) == <<-Info[n].date, Info[n].title, Info[n].id>>
SqlOrder == {p : p \in {p \in Notices \X Notices : Less(SqlKey(p[1]), SqlKey(p[2]))}}

FileOrder == {p \in Notices \X Notices : Info[p[1]].pos < Info[p[2]].pos}

\* rank_notices; without words only the date and the title count.  The sort is
\* stable, so the order of what it sorts decides the rest.
RankKey(n, words, day) ==
    <<IF words = {} THEN 0 ELSE -Score(n, words, day),
      IF Info[n].realDate THEN -Info[n].date ELSE 0,
      Info[n].title>>
Rank(sorted, words, day) ==
    {p \in Notices \X Notices :
       LET key1 == RankKey(p[1], words, day)
           key2 == RankKey(p[2], words, day)
       IN  Less(key1, key2) \/ (key1 = key2 /\ p \in sorted)}

\* The orders of the results of both backends, for any query and day.
SqlRanks ==
    {<<Rank(SqlOrder, words, day), words, day>> : words \in SUBSET Words, day \in Days}
JsonRanks ==
    {<<Rank(FileOrder, words, day), words, day>> : words \in SUBSET Words, day \in Days}
RankOrder(ranks, words, day) ==
    (CHOOSE r \in ranks : r[2] = words /\ r[3] = day)[1]

-----------------------------------------------------------------------------
(* Answers *)

Least(x, y) == IF x < y THEN x ELSE y

PageOf(ordered, page, size) ==
    SubSeq(ordered, (page - 1) * size + 1, Least(page * size, Len(ordered)))

PagesFor(total, size) == IF total = 0 THEN 1 ELSE (total + size - 1) \div size

\* clamp_page and clamp_page_size; a size of 0 counts as none.
ClampPage(page) == IF page < 1 THEN 1 ELSE page
ClampSize(size) == IF size = 0 THEN 20 ELSE IF size < 1 THEN 1 ELSE Least(size, 100)

Failure == [ok |-> FALSE, items |-> << >>, total |-> 0, page |-> 1, pages |-> 1,
            group |-> None,
            facets |-> [audiences |-> {}, groups |-> {}, sources |-> {}, categories |-> {},
                        departments |-> {}]]

\* NoticeService.list_notices around what a repository found.
Reply(ordered, total, page, size, resolved) ==
    LET shown == Least(page, PagesFor(total, size))
    IN  [ok |-> TRUE, items |-> PageOf(ordered, shown, size), total |-> total, page |-> shown,
         pages |-> PagesFor(total, size), group |-> resolved.group, facets |-> resolved.facets]

\* _build_main_where: an unlabeled notice is for everyone.
Selected(d, q, group) ==
    {n \in Scope(d, q.audience, group) :
       /\ q.source = None \/ ~UsesSources(q.audience) \/ <<n, q.source>> \in d.sources
       /\ q.category = 0 \/ Info[n].category = q.category
       /\ q.department = None \/ Info[n].department = q.department
       /\ q.target = None \/ n \notin d.labels \/ <<n, q.target>> \in d.targets}

\* _search, _paginate_no_query and _search_with_query.
SqlAnswer(d, resolved, day, q, askedPage) ==
    LET page == ClampPage(askedPage)
        size == ClampSize(q.size)
        selected == Selected(d, q, resolved.group)
        liked == {n \in selected : LikedBy(n, q.words)}
        newest == SubSeq(InOrder(SqlOrder, liked), 1,
                         Least(CandidateLimit, Cardinality(liked)))
        found == {n \in ToSet(newest) : MatchesOne(n, q.words)}
    IN  IF q.words = {}
        THEN Reply(InOrder(SqlOrder, selected), Cardinality(selected), page, size, resolved)
        ELSE IF Raises(found, q.words) THEN Failure
        ELSE Reply(InOrder(RankOrder(SqlRanks, q.words, day), found), Cardinality(liked), page, size,
                   resolved)

\* filter_notices wants two words, if there are two, and knows no target.
Filtered(ns, q) ==
    {n \in ns :
       /\ UsesSources(q.audience) /\ q.source # None => q.source \in Info[n].sources
       /\ q.department \in {None, Info[n].department}
       /\ q.category \in {0, Info[n].category}
       /\ Cardinality({w \in q.words : MatchesExactly(n, w)}) >= Least(2, Cardinality(q.words))}

\* legacy_search
JsonAnswer(c, day, q, askedPage) ==
    LET resolved == ListFacets(c, q.audience, q.group)
        found == Filtered(OfGroup(OfAudience(c, q.audience), resolved.group), q)
    IN  IF Raises(found, q.words) THEN Failure
        ELSE Reply(InOrder(RankOrder(JsonRanks, q.words, day), found), Cardinality(found),
                   ClampPage(askedPage), ClampSize(q.size), resolved)
=============================================================================
