-------------------------- MODULE NoticeSearchProofs --------------------------
(***************************************************************************)
(* Proofs about NoticeSearch.                                              *)
(***************************************************************************)
EXTENDS NoticeSearch, FiniteSetTheorems, SequenceTheorems, TLAPS

-----------------------------------------------------------------------------
(* Orders *)

\* A strict total order of the notices.
Strict(R) ==
    /\ \A n \in Notices : <<n, n>> \notin R
    /\ \A n, m, k \in Notices : <<n, m>> \in R /\ <<m, k>> \in R => <<n, k>> \in R
    /\ \A n, m \in Notices : n = m \/ <<n, m>> \in R \/ <<m, n>> \in R

LEMMA InOrderLists ==
  ASSUME NEW R, Strict(R), NEW ns \in SUBSET Notices
  PROVE  /\ InOrder(R, ns) \in Seq(ns)
         /\ Len(InOrder(R, ns)) = Cardinality(ns)
         /\ IsFiniteSet(ns) /\ Cardinality(ns) \in Nat
         /\ ToSet(InOrder(R, ns)) = ns
         /\ \A i, j \in 1 .. Cardinality(ns) : i # j => InOrder(R, ns)[i] # InOrder(R, ns)[j]
         /\ \A i, j \in 1 .. Cardinality(ns) : i < j => <<InOrder(R, ns)[i], InOrder(R, ns)[j]>> \in R
<1> DEFINE N == Cardinality(ns)
           Below(n) == {m \in ns : <<m, n>> \in R}
           place == [n \in ns |-> Cardinality(Below(n)) + 1]
<1>1. IsFiniteSet(ns) /\ N \in Nat
  BY QueriesAssumption, FS_Subset, FS_CardinalityType
<1>2. \A n \in ns : IsFiniteSet(Below(n)) /\ Cardinality(Below(n)) \in Nat
  BY <1>1, FS_Subset, FS_CardinalityType
<1>a. \A n \in ns : place[n] = Cardinality(Below(n)) + 1
  OBVIOUS
<1>b. /\ \A n, m \in ns : m \in Below(n) <=> <<m, n>> \in R
      /\ \A n \in ns : Below(n) \subseteq ns
  OBVIOUS
<1> HIDE DEF place, Below, N
<1>3. ASSUME NEW n \in ns PROVE place[n] \in 1 .. N
  <2>1. IsFiniteSet(ns \ {n}) /\ Cardinality(ns \ {n}) = N - 1
    BY <1>1, FS_RemoveElement DEF N
  <2>2. Below(n) \in SUBSET (ns \ {n})
    BY <1>b DEF Strict
  <2>3. Cardinality(Below(n)) <= N - 1
    BY <2>1, <2>2, FS_Subset
  <2> QED
    BY <2>3, <1>2, <1>1, <1>a
<1>4. ASSUME NEW n \in ns, NEW m \in ns, <<n, m>> \in R PROVE place[n] < place[m]
  <2>1. Below(n) \cup {n} \in SUBSET Below(m)
    BY <1>4, <1>b DEF Strict
  <2>2. n \notin Below(n)
    BY <1>b DEF Strict
  <2>3. Cardinality(Below(n) \cup {n}) = Cardinality(Below(n)) + 1
    BY <1>2, <2>2, FS_AddElement
  <2>4. Cardinality(Below(n) \cup {n}) <= Cardinality(Below(m))
    BY <1>2, <2>1, FS_Subset
  <2> QED
    BY <2>3, <2>4, <1>2, <1>a
<1>5. \A n, m \in ns : n # m => place[n] # place[m]
  <2>1. \A n \in ns : place[n] \in Nat
    BY <1>3, <1>1
  <2>2. \A n, m \in ns : n = m \/ <<n, m>> \in R \/ <<m, n>> \in R
    BY DEF Strict
  <2>3. \A n, m \in ns : <<n, m>> \in R => place[n] # place[m]
    BY <1>4, <2>1
  <2> QED
    BY <2>2, <2>3
<1>6. place \in Surjection(ns, 1 .. N)
  <2>1. place \in [ns -> 1 .. N]
    BY <1>3 DEF place
  <2>2. place \in Injection(ns, 1 .. N)
    BY <2>1, <1>5 DEF Injection, IsInjective
  <2>3. IsFiniteSet(1 .. N) /\ Cardinality(1 .. N) = N
    BY <1>1, FS_Interval
  <2> QED
    BY <2>2, <2>3, FS_Injection DEF N
<1>7. \A i \in 1 .. N : \E n \in ns : Cardinality(Below(n)) = i - 1
  <2>1. \A i \in 1 .. N : \E n \in ns : place[n] = i
    BY <1>6 DEF Surjection
  <2> QED
    BY <2>1, <1>2, <1>a
<1> DEFINE s == InOrder(R, ns)
<1>8. s = [i \in 1 .. N |-> CHOOSE n \in ns : Cardinality(Below(n)) = i - 1]
  BY DEF InOrder, N, Below
<1>9. \A i \in 1 .. N : s[i] \in ns /\ place[s[i]] = i
  <2> SUFFICES ASSUME NEW i \in 1 .. N PROVE s[i] \in ns /\ place[s[i]] = i
    OBVIOUS
  <2>1. s[i] \in ns /\ Cardinality(Below(s[i])) = i - 1
    BY <1>7, <1>8
  <2> QED
    BY <2>1, <1>2, <1>a
<1> HIDE DEF s
<1>10. s \in Seq(ns) /\ Len(s) = N /\ DOMAIN s = 1 .. N
  <2> SUFFICES s \in [1 .. N -> ns]
    BY <1>1
  <2> QED
    BY <1>8, <1>9
<1>11. \A i, j \in 1 .. N : i # j => s[i] # s[j]
  BY <1>9
<1>12. ASSUME NEW n \in ns PROVE \E i \in 1 .. N : s[i] = n
  <2>1. place[n] \in 1 .. N
    BY <1>3
  <2> QED
    BY <2>1, <1>9, <1>5
<1>13. ToSet(s) = ns
  BY <1>9, <1>10, <1>12 DEF ToSet
<1>14. ASSUME NEW i \in 1 .. N, NEW j \in 1 .. N, i < j PROVE <<s[i], s[j]>> \in R
  <2>1. s[i] \in ns /\ s[j] \in ns /\ place[s[i]] = i /\ place[s[j]] = j
    BY <1>9
  <2>2. ~ (j < i) /\ s[i] # s[j]
    BY <1>14, <1>1, <1>11
  <2>3. <<s[j], s[i]>> \notin R
    BY <1>4, <2>1, <2>2
  <2> QED
    BY <2>1, <2>2, <2>3 DEF Strict
<1> QED
  BY <1>1, <1>10, <1>11, <1>13, <1>14 DEF s, N

LEMMA LessOfTriples ==
  ASSUME NEW a1 \in Int, NEW a2 \in Int, NEW a3 \in Int,
         NEW b1 \in Int, NEW b2 \in Int, NEW b3 \in Int
  PROVE  Less(<<a1, a2, a3>>, <<b1, b2, b3>>) <=>
           a1 < b1 \/ (a1 = b1 /\ (a2 < b2 \/ (a2 = b2 /\ a3 < b3)))
<1> DEFINE a == <<a1, a2, a3>>
           b == <<b1, b2, b3>>
           At(i) == a[i] < b[i] /\ \A j \in 1 .. i - 1 : a[j] = b[j]
<1>1. Less(a, b) <=> \E i \in 1 .. 3 : At(i)
  BY DEF Less
<1>2. /\ a[1] = a1 /\ a[2] = a2 /\ a[3] = a3
      /\ b[1] = b1 /\ b[2] = b2 /\ b[3] = b3
  OBVIOUS
<1> HIDE DEF a, b
<1>3. At(1) <=> a1 < b1
  BY <1>2
<1>4. At(2) <=> a1 = b1 /\ a2 < b2
  <2>1. \A j \in 1 .. 2 - 1 : j = 1
    OBVIOUS
  <2> QED
    BY <1>2, <2>1
<1>5. At(3) <=> a1 = b1 /\ a2 = b2 /\ a3 < b3
  <2>1. \A j \in 1 .. 3 - 1 : j = 1 \/ j = 2
    OBVIOUS
  <2>2. 1 \in 1 .. 3 - 1 /\ 2 \in 1 .. 3 - 1
    OBVIOUS
  <2> QED
    BY <1>2, <2>1, <2>2
<1>6. \A i \in 1 .. 3 : i = 1 \/ i = 2 \/ i = 3
  OBVIOUS
<1> HIDE DEF At
<1>7. (\E i \in 1 .. 3 : At(i)) <=> At(1) \/ At(2) \/ At(3)
  BY <1>6
<1> QED
  BY <1>1, <1>3, <1>4, <1>5, <1>7 DEF a, b

LEMMA InfoTyped ==
  ASSUME NEW n \in Notices
  PROVE  /\ Info[n].date \in Nat /\ Info[n].title \in Nat /\ Info[n].id \in Nat
         /\ Info[n].pos \in Nat /\ Info[n].realDate \in BOOLEAN
BY QueriesAssumption

LEMMA SqlOrderIsStrict == Strict(SqlOrder)
<1> DEFINE d(n) == -Info[n].date
           t(n) == Info[n].title
           k(n) == Info[n].id
           pairs == {p \in Notices \X Notices : Less(SqlKey(p[1]), SqlKey(p[2]))}
<1>1. SqlOrder = pairs
  BY DEF SqlOrder
<1>2. \A n, m \in Notices : <<n, m>> \in SqlOrder <=> Less(SqlKey(n), SqlKey(m))
  BY <1>1
<1>3. \A n \in Notices : SqlKey(n) = <<d(n), t(n), k(n)>>
  BY DEF SqlKey
<1>4. \A n \in Notices : d(n) \in Int /\ t(n) \in Int /\ k(n) \in Int
  BY InfoTyped
<1>5. \A n, m \in Notices : n # m => k(n) # k(m)
  BY QueriesAssumption
<1> HIDE DEF d, t, k, pairs
<1>6. \A n, m \in Notices :
        <<n, m>> \in SqlOrder <=>
          d(n) < d(m) \/ (d(n) = d(m) /\ (t(n) < t(m) \/ (t(n) = t(m) /\ k(n) < k(m))))
  <2> SUFFICES ASSUME NEW n \in Notices, NEW m \in Notices
               PROVE  <<n, m>> \in SqlOrder <=>
          d(n) < d(m) \/ (d(n) = d(m) /\ (t(n) < t(m) \/ (t(n) = t(m) /\ k(n) < k(m))))
    OBVIOUS
  <2>1. Less(<<d(n), t(n), k(n)>>, <<d(m), t(m), k(m)>>) <=>
          d(n) < d(m) \/ (d(n) = d(m) /\ (t(n) < t(m) \/ (t(n) = t(m) /\ k(n) < k(m))))
    BY <1>4, LessOfTriples
  <2> QED
    BY <1>2, <1>3, <2>1
<1> QED
  BY <1>4, <1>5, <1>6 DEF Strict

LEMMA FileOrderIsStrict == Strict(FileOrder)
<1>1. \A n, m \in Notices : <<n, m>> \in FileOrder <=> Info[n].pos < Info[m].pos
  BY DEF FileOrder
<1>2. \A n \in Notices : Info[n].pos \in Nat
  BY InfoTyped
<1>3. \A n, m \in Notices : n # m => Info[n].pos # Info[m].pos
  BY QueriesAssumption
<1> QED
  BY <1>1, <1>2, <1>3 DEF Strict

LEMMA ScoreTyped ==
  ASSUME NEW n \in Notices, NEW words \in SUBSET Words, NEW day \in Days
  PROVE  Score(n, words, day) \in Int /\ BaseScore(n, words) \in Nat
<1>1. IsFiniteSet(words)
  BY QueriesAssumption, FS_Subset
<1>2. Cardinality({w \in words : InText(n, w)}) \in Nat
  BY <1>1, FS_Subset, FS_CardinalityType
<1>3. \A field : HitsIn(n, words, field) \in Nat
  <2> SUFFICES ASSUME NEW field PROVE HitsIn(n, words, field) \in Nat
    OBVIOUS
  <2> DEFINE hits == {w \in words \cap DOMAIN Info[n].hits : field \in Info[n].hits[w]}
  <2>1. hits \in SUBSET words
    OBVIOUS
  <2>2. Cardinality(hits) \in Nat
    BY <1>1, <2>1, FS_Subset, FS_CardinalityType
  <2> QED
    BY <2>2 DEF HitsIn
<1>4. BaseScore(n, words) =
        Cardinality({w \in words : InText(n, w)})
        + 7 * HitsIn(n, words, "title") + 3 * HitsIn(n, words, "tags")
        + 2 * HitsIn(n, words, "source") + HitsIn(n, words, "content")
  BY Zenon DEF BaseScore
<1>5. BaseScore(n, words) \in Nat
  <2> DEFINE c == Cardinality({w \in words : InText(n, w)})
             h(field) == HitsIn(n, words, field)
  <2>1. c \in Nat /\ h("title") \in Nat /\ h("tags") \in Nat /\ h("source") \in Nat
        /\ h("content") \in Nat
    BY <1>2, <1>3
  <2>2. BaseScore(n, words) = c + 7 * h("title") + 3 * h("tags") + 2 * h("source") + h("content")
    BY <1>4
  <2> HIDE DEF c, h
  <2> QED
    BY <2>1, <2>2
<1>6. Recency(Info[n].date, day) \in Int
  <2>1. day - Info[n].date \in Int
    BY InfoTyped, QueriesAssumption
  <2> QED
    BY <2>1 DEF Recency
<1> QED
  BY <1>5, <1>6 DEF Score

LEMMA RankIsStrict ==
  ASSUME NEW R, Strict(R), NEW words \in SUBSET Words, NEW day \in Days
  PROVE  Strict(Rank(R, words, day))
<1> DEFINE s(n) == IF words = {} THEN 0 ELSE -Score(n, words, day)
           d(n) == IF Info[n].realDate THEN -Info[n].date ELSE 0
           t(n) == Info[n].title
<1>1. \A n \in Notices : RankKey(n, words, day) = <<s(n), d(n), t(n)>>
  BY DEF RankKey
<1>2. \A n \in Notices : s(n) \in Int /\ d(n) \in Int /\ t(n) \in Int
  <2> SUFFICES ASSUME NEW n \in Notices PROVE s(n) \in Int /\ d(n) \in Int /\ t(n) \in Int
    OBVIOUS
  <2>1. Score(n, words, day) \in Int
    BY ScoreTyped
  <2>2. Info[n].date \in Nat /\ Info[n].title \in Nat
    BY InfoTyped
  <2> QED
    BY <2>1, <2>2
<1> HIDE DEF s, d, t
<1>3. \A n, m \in Notices :
        <<n, m>> \in Rank(R, words, day) <=>
          \/ s(n) < s(m) \/ (s(n) = s(m) /\ (d(n) < d(m) \/ (d(n) = d(m) /\ t(n) < t(m))))
          \/ s(n) = s(m) /\ d(n) = d(m) /\ t(n) = t(m) /\ <<n, m>> \in R
  <2> SUFFICES ASSUME NEW n \in Notices, NEW m \in Notices
               PROVE  <<n, m>> \in Rank(R, words, day) <=>
          \/ s(n) < s(m) \/ (s(n) = s(m) /\ (d(n) < d(m) \/ (d(n) = d(m) /\ t(n) < t(m))))
          \/ s(n) = s(m) /\ d(n) = d(m) /\ t(n) = t(m) /\ <<n, m>> \in R
    OBVIOUS
  <2>1. <<n, m>> \in Rank(R, words, day) <=>
          \/ Less(RankKey(n, words, day), RankKey(m, words, day))
          \/ RankKey(n, words, day) = RankKey(m, words, day) /\ <<n, m>> \in R
    BY DEF Rank
  <2>2. Less(<<s(n), d(n), t(n)>>, <<s(m), d(m), t(m)>>) <=>
          s(n) < s(m) \/ (s(n) = s(m) /\ (d(n) < d(m) \/ (d(n) = d(m) /\ t(n) < t(m))))
    BY <1>2, LessOfTriples
  <2>3. <<s(n), d(n), t(n)>> = <<s(m), d(m), t(m)>> <=>
          s(n) = s(m) /\ d(n) = d(m) /\ t(n) = t(m)
    OBVIOUS
  <2> QED
    BY <1>1, <2>1, <2>2, <2>3
<1> QED
  BY <1>2, <1>3 DEF Strict

LEMMA RanksAreStrict ==
  ASSUME NEW words \in SUBSET Words, NEW day \in Days
  PROVE  /\ Strict(RankOrder(SqlRanks, words, day))
         /\ Strict(RankOrder(JsonRanks, words, day))
<1>1. RankOrder(SqlRanks, words, day) = Rank(SqlOrder, words, day)
  <2> DEFINE r == <<Rank(SqlOrder, words, day), words, day>>
             P(x) == x \in SqlRanks /\ x[2] = words /\ x[3] = day
  <2>1. P(r)
    BY DEF SqlRanks
  <2>2. \A x : P(x) => x = r
    <3> SUFFICES ASSUME NEW x, P(x) PROVE x = r
      OBVIOUS
    <3>1. PICK w \in SUBSET Words, e \in Days : x = <<Rank(SqlOrder, w, e), w, e>>
      BY DEF SqlRanks
    <3>2. w = words /\ e = day
      BY <3>1
    <3> QED
      BY <3>1, <3>2
  <2>3. (CHOOSE x \in SqlRanks : x[2] = words /\ x[3] = day) = r
    BY <2>1, <2>2
  <2>4. r[1] = Rank(SqlOrder, words, day)
    OBVIOUS
  <2> HIDE DEF r
  <2> QED
    BY <2>3, <2>4 DEF RankOrder
<1>2. RankOrder(JsonRanks, words, day) = Rank(FileOrder, words, day)
  <2> DEFINE r == <<Rank(FileOrder, words, day), words, day>>
             P(x) == x \in JsonRanks /\ x[2] = words /\ x[3] = day
  <2>1. P(r)
    BY DEF JsonRanks
  <2>2. \A x : P(x) => x = r
    <3> SUFFICES ASSUME NEW x, P(x) PROVE x = r
      OBVIOUS
    <3>1. PICK w \in SUBSET Words, e \in Days : x = <<Rank(FileOrder, w, e), w, e>>
      BY DEF JsonRanks
    <3>2. w = words /\ e = day
      BY <3>1
    <3> QED
      BY <3>1, <3>2
  <2>3. (CHOOSE x \in JsonRanks : x[2] = words /\ x[3] = day) = r
    BY <2>1, <2>2
  <2>4. r[1] = Rank(FileOrder, words, day)
    OBVIOUS
  <2> HIDE DEF r
  <2> QED
    BY <2>3, <2>4 DEF RankOrder
<1> QED
  BY <1>1, <1>2, RankIsStrict, SqlOrderIsStrict, FileOrderIsStrict

-----------------------------------------------------------------------------
(* Classification *)

LEMMA FirstOfIsOne ==
  ASSUME NEW tests, NEW names, DOMAIN tests \subseteq Nat \ {0}
  PROVE  /\ FirstOf(tests, names) \subseteq {tests[i] : i \in DOMAIN tests}
         /\ FirstOf(tests, names) # {} => \E i \in DOMAIN tests : FirstOf(tests, names) = {tests[i]}
<1> DEFINE firsts == {i \in DOMAIN tests :
                        tests[i] \in names /\ \A j \in 1 .. i - 1 : tests[j] \notin names}
<1>1. FirstOf(tests, names) = {tests[i] : i \in firsts}
  BY DEF FirstOf
<1>2. \A i, j \in firsts : ~ (i < j)
  OBVIOUS
<1>3. \A i, j \in firsts : i = j
  <2>1. firsts \subseteq Nat
    OBVIOUS
  <2> HIDE DEF firsts
  <2> QED
    BY <1>2, <2>1
<1> QED
  BY <1>1, <1>3

LEMMA AudienceTyped ==
  ASSUME NEW sources
  PROVE  AudienceOf(sources) \in Audiences
<1> DEFINE tested == FirstOf(AudienceTests, NamesIn(sources))
<1>1. /\ DOMAIN AudienceTests \subseteq Nat \ {0}
      /\ \A i \in DOMAIN AudienceTests : AudienceTests[i] \in Audiences
  BY DEF AudienceTests, Audiences, GroupsByAudience
<1>2. tested # {} => \E a \in Audiences : tested = {a}
  <2> SUFFICES ASSUME tested # {} PROVE \E a \in Audiences : tested = {a}
    OBVIOUS
  <2>1. PICK i \in DOMAIN AudienceTests : tested = {AudienceTests[i]}
    BY <1>1, FirstOfIsOne
  <2> QED
    BY <1>1, <2>1
<1>3. "official" \in Audiences /\ "other" \in Audiences
  BY DEF Audiences, GroupsByAudience
<1>4. AudienceOf(sources) = IF tested # {} THEN CHOOSE a \in Audiences : tested = {a}
                            ELSE IF "official" \in NamesIn(sources) THEN "official" ELSE "other"
  BY DEF AudienceOf
<1> HIDE DEF tested
<1> QED
  BY <1>2, <1>3, <1>4

LEMMA NoGroupIsNone ==
  ASSUME NEW n \in Notices
  PROVE  None \notin NoticeGroups[n]
<1> DEFINE sources == Info[n].sources
           audience == AudienceOf(sources)
<1>1. NoticeGroups[n] = GroupsOf(sources, Info[n].topic)
  BY DEF NoticeGroups
<1>2. \A a \in Audiences : None \notin GroupsByAudience[a]
  BY DEF Audiences, GroupsByAudience, None
<1>3. audience \in Audiences /\ "official" \in Audiences
  BY AudienceTyped DEF Audiences, GroupsByAudience
<1>4. Info[n].topic # None
  BY <1>2, <1>3, QueriesAssumption
<1>5. \A names : None \notin FirstOf(CollegeTests, names) /\ None \notin FirstOf(FreshmenTests, names)
  <2>1. /\ DOMAIN CollegeTests \subseteq Nat \ {0} /\ DOMAIN FreshmenTests \subseteq Nat \ {0}
        /\ None \notin {CollegeTests[i] : i \in DOMAIN CollegeTests}
        /\ None \notin {FreshmenTests[i] : i \in DOMAIN FreshmenTests}
    BY DEF CollegeTests, FreshmenTests, None
  <2> QED
    BY <2>1, FirstOfIsOne
<1>6. None \notin Colleges(sources)
  BY <1>5 DEF Colleges, None
<1> DEFINE named == NamesIn(sources) \cap GroupsByAudience[audience]
<1>7. None \notin named
  BY <1>2, <1>3
<1>8. GroupsOf(sources, Info[n].topic) =
        CASE audience = "official" -> {Info[n].topic}
          [] audience = "department" -> Colleges(sources)
          [] audience = "freshmen" -> FirstOf(FreshmenTests, named)
          [] OTHER -> named
  BY DEF GroupsOf
<1> HIDE DEF audience, named, sources
<1> QED
  BY <1>1, <1>4, <1>5, <1>6, <1>7, <1>8

-----------------------------------------------------------------------------
(* What the two paths compute, said once *)

InScope(c, a, g) ==
    {n \in c : (a = None \/ Audience[n] = a) /\ (g = None \/ g \in NoticeGroups[n])}
SourceGroups(c, a) == UNION {NoticeGroups[n] : n \in InScope(c, a, None)}
Facets(c, a, g) ==
    [audiences |-> {Audience[n] : n \in c},
     groups |-> SourceGroups(c, a),
     sources |-> IF UsesSources(a) THEN UNION {FacetSources(n, a, g) : n \in InScope(c, a, g)}
                 ELSE {},
     categories |-> CleanCategories(InScope(c, a, g)),
     departments |-> {Info[n].department : n \in InScope(c, a, g)} \ {None}]
Live(c, a, group) ==
    LET g == Effective(group, SourceGroups(c, a))
    IN  [group |-> g, facets |-> Facets(c, a, g)]

Where(n, q, group, target) ==
    /\ n \in InScope({n}, q.audience, group)
    /\ q.source = None \/ ~UsesSources(q.audience) \/ q.source \in Info[n].sources
    /\ q.category = 0 \/ Info[n].category = q.category
    /\ q.department = None \/ Info[n].department = q.department
    /\ target = None \/ ~Info[n].labeled \/ target \in Info[n].targets

LEMMA RowsAre ==
  ASSUME NEW c
  PROVE  LET d == RowsOf(c)
         IN  /\ Ids(d) = c
             /\ \A n \in c : d.audience[n] = Audience[n]
             /\ \A r : r \in d.groups <=> \E n \in c : \E g \in NoticeGroups[n] : r = <<n, g>>
             /\ \A r : r \in d.sources <=> \E n \in c : \E s \in Info[n].sources : r = <<n, s>>
             /\ \A n \in c : n \in d.labels <=> Info[n].labeled
             /\ \A n \in d.labels : \A x : <<n, x>> \in d.targets <=> x \in Info[n].targets
<1> DEFINE d == RowsOf(c)
           labels == {n \in c : Info[n].labeled}
<1>1. /\ d.audience = [n \in c |-> Audience[n]]
      /\ d.groups = UNION {{n} \X NoticeGroups[n] : n \in c}
      /\ d.sources = UNION {{n} \X Info[n].sources : n \in c}
      /\ d.labels = labels
      /\ d.targets = UNION {{n} \X Info[n].targets : n \in labels}
  BY DEF RowsOf
<1> HIDE DEF d
<1>2. Ids(d) = c /\ \A n \in c : d.audience[n] = Audience[n]
  BY <1>1 DEF Ids
<1>3. \A r : r \in d.groups <=> \E n \in c : \E g \in NoticeGroups[n] : r = <<n, g>>
  BY <1>1
<1>4. \A r : r \in d.sources <=> \E n \in c : \E s \in Info[n].sources : r = <<n, s>>
  BY <1>1
<1>5. \A n \in c : n \in d.labels <=> Info[n].labeled
  BY <1>1
<1>6. \A n \in d.labels : \A x : <<n, x>> \in d.targets <=> x \in Info[n].targets
  BY <1>1
<1> QED
  BY <1>2, <1>3, <1>4, <1>5, <1>6 DEF d

LEMMA ScopeIs ==
  ASSUME NEW c, NEW a, NEW g
  PROVE  Scope(RowsOf(c), a, g) = InScope(c, a, g)
<1> DEFINE d == RowsOf(c)
<1>1. /\ Ids(d) = c /\ \A n \in c : d.audience[n] = Audience[n]
      /\ \A r : r \in d.groups <=> \E n \in c : \E x \in NoticeGroups[n] : r = <<n, x>>
  BY RowsAre
<1> HIDE DEF d
<1>2. \A n \in c : <<n, g>> \in d.groups <=> g \in NoticeGroups[n]
  BY <1>1
<1>3. Scope(d, a, g) = InScope(c, a, g)
  BY <1>1, <1>2 DEF Scope, InScope
<1> QED
  BY <1>3 DEF d

LEMMA QueryGroupsIs ==
  ASSUME NEW c, NEW a
  PROVE  QueryGroups(RowsOf(c), a) = SourceGroups(c, a)
<1> DEFINE d == RowsOf(c)
<1>1. /\ \A n \in c : d.audience[n] = Audience[n]
      /\ \A r : r \in d.groups <=> \E n \in c : \E x \in NoticeGroups[n] : r = <<n, x>>
  BY RowsAre
<1> HIDE DEF d
<1>2. \A x : x \in QueryGroups(d, a) <=> \E r \in d.groups : x = r[2] /\ (a = None \/ d.audience[r[1]] = a)
  BY DEF QueryGroups
<1>3. \A x : x \in QueryGroups(d, a)
               <=> \E n \in c : x \in NoticeGroups[n] /\ (a = None \/ Audience[n] = a)
  <2>1. ASSUME NEW x, NEW n \in c, x \in NoticeGroups[n], a = None \/ Audience[n] = a
        PROVE  x \in QueryGroups(d, a)
    <3> DEFINE r == <<n, x>>
    <3>1. r \in d.groups /\ r[1] = n /\ r[2] = x
      BY <1>1, <2>1
    <3> HIDE DEF r
    <3> QED
      BY <1>1, <1>2, <2>1, <3>1
  <2>2. ASSUME NEW x \in QueryGroups(d, a)
        PROVE  \E n \in c : x \in NoticeGroups[n] /\ (a = None \/ Audience[n] = a)
    <3>1. PICK r \in d.groups : x = r[2] /\ (a = None \/ d.audience[r[1]] = a)
      BY <1>2
    <3>2. PICK n \in c : \E y \in NoticeGroups[n] : r = <<n, y>>
      BY <1>1
    <3>3. r[1] = n /\ x \in NoticeGroups[n]
      BY <3>1, <3>2
    <3> QED
      BY <1>1, <3>1, <3>3
  <2> QED
    BY <2>1, <2>2
<1>4. \A x : x \in SourceGroups(c, a)
               <=> \E n \in c : x \in NoticeGroups[n] /\ (a = None \/ Audience[n] = a)
  BY DEF SourceGroups, InScope
<1>5. QueryGroups(d, a) = SourceGroups(c, a)
  BY <1>3, <1>4
<1> QED
  BY <1>5 DEF d

LEMMA QuerySourcesIs ==
  ASSUME NEW c, NEW a, NEW g
  PROVE  QuerySources(RowsOf(c), a, g) = UNION {FacetSources(n, a, g) : n \in InScope(c, a, g)}
<1> DEFINE d == RowsOf(c)
           Gathered(n) == {r[2] : r \in {r \in d.sources : r[1] = n}}
<1>1. \A r : r \in d.sources <=> \E n \in c : \E s \in Info[n].sources : r = <<n, s>>
  BY RowsAre
<1>2. QuerySources(d, a, g) =
        UNION {InScopeAlone(Gathered(n), Info[n].topic, a, g) : n \in InScope(c, a, g)}
  BY ScopeIs DEF QuerySources
<1> HIDE DEF d
<1>3. ASSUME NEW n \in c PROVE Gathered(n) = Info[n].sources
  <2>1. ASSUME NEW s \in Info[n].sources PROVE s \in Gathered(n)
    <3> DEFINE r == <<n, s>>
    <3>1. r \in d.sources /\ r[1] = n /\ r[2] = s
      BY <1>1
    <3> HIDE DEF r
    <3> QED
      BY <3>1
  <2>2. ASSUME NEW s \in Gathered(n) PROVE s \in Info[n].sources
    <3>1. PICK r \in d.sources : r[1] = n /\ s = r[2]
      OBVIOUS
    <3>2. PICK m \in c : \E t \in Info[m].sources : r = <<m, t>>
      BY <1>1
    <3> QED
      BY <3>1, <3>2
  <2> HIDE DEF Gathered
  <2>3. \A s : s \in Gathered(n) <=> s \in Info[n].sources
    BY <2>1, <2>2
  <2> QED
    BY <2>3
<1> HIDE DEF Gathered
<1>4. \A n \in InScope(c, a, g) :
        InScopeAlone(Gathered(n), Info[n].topic, a, g) = FacetSources(n, a, g)
  BY <1>3 DEF InScope, FacetSources
<1> QED
  BY <1>2, <1>4 DEF d

\* The rows and the list give the same facets and let the same notices through.
LEMMA BundleIs ==
  ASSUME NEW c, NEW a, NEW g
  PROVE  Bundle(RowsOf(c), a, g) = Facets(c, a, g)
<1>1. \A n \in c : RowsOf(c).audience[n] = Audience[n]
  BY RowsAre
<1>2. {RowsOf(c).audience[n] : n \in Ids(RowsOf(c))} = {Audience[n] : n \in c}
  BY <1>1, RowsAre
<1> QED
  BY <1>2, ScopeIs, QueryGroupsIs, QuerySourcesIs DEF Bundle, Facets

LEMMA LiveFacetsIs ==
  ASSUME NEW c, NEW a, NEW group
  PROVE  LiveFacets(RowsOf(c), a, group) = Live(c, a, group)
BY BundleIs, QueryGroupsIs DEF LiveFacets, Live

LEMMA ListScopeIs ==
  ASSUME NEW c, NEW a, NEW g
  PROVE  OfGroup(OfAudience(c, a), g) = InScope(c, a, g)
BY DEF OfGroup, OfAudience, InScope

LEMMA ListFacetsIs ==
  ASSUME NEW c, NEW a, NEW group
  PROVE  ListFacets(c, a, group) = Live(c, a, group)
<1>1. OfAudience(c, a) = InScope(c, a, None)
  BY DEF OfAudience, InScope
<1>2. GroupsIn(OfAudience(c, a)) = SourceGroups(c, a)
  BY <1>1 DEF GroupsIn, SourceGroups
<1> QED
  BY <1>2, ListScopeIs DEF ListFacets, Live, Facets

LEMMA SelectedIs ==
  ASSUME NEW c, NEW q, NEW group
  PROVE  Selected(RowsOf(c), q, group) = {n \in c : Where(n, q, group, q.target)}
<1> DEFINE d == RowsOf(c)
<1>1. Scope(d, q.audience, group) = InScope(c, q.audience, group)
  BY ScopeIs
<1>2. /\ \A r : r \in d.sources <=> \E n \in c : \E s \in Info[n].sources : r = <<n, s>>
      /\ \A n \in c : n \in d.labels <=> Info[n].labeled
      /\ \A n \in d.labels : \A x : <<n, x>> \in d.targets <=> x \in Info[n].targets
  BY RowsAre
<1> HIDE DEF d
<1>3. \A n \in c : <<n, q.source>> \in d.sources <=> q.source \in Info[n].sources
  BY <1>2
<1>4. \A n \in c : (q.target = None \/ n \notin d.labels \/ <<n, q.target>> \in d.targets)
                  <=> (q.target = None \/ ~Info[n].labeled \/ q.target \in Info[n].targets)
  BY <1>2
<1>5. \A n \in c : n \in InScope(c, q.audience, group) <=> n \in InScope({n}, q.audience, group)
  BY DEF InScope
<1>6. InScope(c, q.audience, group) \subseteq c
  BY DEF InScope
<1>7. Selected(d, q, group) = {n \in c : Where(n, q, group, q.target)}
  BY <1>1, <1>3, <1>4, <1>5, <1>6 DEF Selected, Where
<1> QED
  BY <1>7 DEF d

LEMMA FilteredIs ==
  ASSUME NEW c, NEW q, NEW group
  PROVE  Filtered(OfGroup(OfAudience(c, q.audience), group), q) =
           {n \in c : /\ Where(n, q, group, None)
                     /\ Cardinality({w \in q.words : MatchesExactly(n, w)})
                          >= Least(2, Cardinality(q.words))}
<1>1. OfGroup(OfAudience(c, q.audience), group) = InScope(c, q.audience, group)
  BY ListScopeIs
<1>2. \A n \in c : n \in InScope(c, q.audience, group) <=> n \in InScope({n}, q.audience, group)
  BY DEF InScope
<1>3. InScope(c, q.audience, group) \subseteq c
  BY DEF InScope
<1> QED
  BY <1>1, <1>2, <1>3 DEF Filtered, Where

LEMMA GroupFilter ==
  ASSUME NEW c \in SUBSET Notices, NEW a, NEW n \in Notices, NEW group
  PROVE  LET g == Effective(group, SourceGroups(c, a))
         IN  (g = None \/ g \in NoticeGroups[n])
               <=> (group \notin SourceGroups(c, a) \/ group \in NoticeGroups[n])
<1>1. None \notin SourceGroups(c, a)
  BY NoGroupIsNone DEF SourceGroups, InScope
<1> QED
  BY <1>1 DEF Effective

-----------------------------------------------------------------------------
(* Pages *)

LEMMA SizeTyped ==
  ASSUME NEW size \in Int
  PROVE  ClampSize(size) \in Nat \ {0}
BY DEF ClampSize, Least

LEMMA DivideUp ==
  ASSUME NEW t \in Nat \ {0}, NEW s \in Nat \ {0}
  PROVE  LET p == (t + s - 1) \div s
         IN  p \in Nat \ {0} /\ t <= p * s /\ (p - 1) * s < t
<1> DEFINE x == t + s - 1
           p == x \div s
           r == x % s
<1>1. x \in Nat /\ x >= s
  OBVIOUS
<1>2. p \in Int /\ r \in 0 .. s - 1 /\ x = s * p + r
  BY <1>1
<1>3. (p - 1) * s = p * s - s /\ s * p = p * s
  BY <1>2
<1> HIDE DEF p, r
<1> DEFINE y == p * s
<1>4. y \in Int /\ x = y + r /\ (p - 1) * s = y - s
  BY <1>2, <1>3
<1>5. t <= y /\ y - s < t
  <2> HIDE DEF y
  <2> QED
    BY <1>2, <1>4
<1>6. p > 0
  <2>1. y > 0
    <3> HIDE DEF y
    <3> QED
      BY <1>4, <1>5
  <2> QED
    BY <2>1, <1>2
<1> QED
  BY <1>2, <1>4, <1>5, <1>6 DEF p

LEMMA PageCount ==
  ASSUME NEW total \in Nat, NEW size \in Nat \ {0}
  PROVE  /\ PagesFor(total, size) \in Nat \ {0}
         /\ total <= PagesFor(total, size) * size
         /\ total # 0 => (PagesFor(total, size) - 1) * size < total
<1>1. CASE total = 0
  BY <1>1 DEF PagesFor
<1>2. CASE total # 0
  BY <1>2, DivideUp DEF PagesFor
<1> QED
  BY <1>1, <1>2

LEMMA PageItems ==
  ASSUME NEW A, NEW ordered \in Seq(A), NEW page \in Nat \ {0}, NEW size \in Nat \ {0}
  PROVE  /\ PageOf(ordered, page, size) \in Seq(A)
         /\ \A k : k \in DOMAIN PageOf(ordered, page, size) <=>
                     k \in 1 .. size /\ (page - 1) * size + k <= Len(ordered)
         /\ \A k \in DOMAIN PageOf(ordered, page, size) :
              /\ (page - 1) * size + k \in 1 .. Len(ordered)
              /\ PageOf(ordered, page, size)[k] = ordered[(page - 1) * size + k]
<1> DEFINE b == (page - 1) * size
           e == Least(page * size, Len(ordered))
           L == Len(ordered)
           items == SubSeq(ordered, b + 1, e)
<1>1. b \in Nat /\ page * size = b + size
  <2>1. page - 1 \in Nat /\ page = (page - 1) + 1
    OBVIOUS
  <2> DEFINE q == page - 1
  <2>2. (q + 1) * size = q * size + size /\ q * size \in Nat
    BY <2>1
  <2> QED
    BY <2>1, <2>2
<1>2. L \in Nat
  OBVIOUS
<1> HIDE DEF b, L
<1>3. e = IF b + size < L THEN b + size ELSE L
  BY <1>1 DEF Least, L
<1> HIDE DEF e
<1>4. e \in Int /\ b + 1 \in Int /\ \A i \in b + 1 .. e : i \in 1 .. L
  BY <1>1, <1>2, <1>3
<1>5. \A i \in b + 1 .. e : ordered[i] \in A
  BY <1>4 DEF L
<1>6. /\ items \in Seq(A)
      /\ Len(items) = IF b + 1 <= e THEN e - (b + 1) + 1 ELSE 0
      /\ \A i \in 1 .. e - (b + 1) + 1 : items[i] = ordered[b + 1 + i - 1]
  BY <1>4, <1>5, SubSeqProperties
<1> HIDE DEF items
<1>7. \A k : k \in DOMAIN items <=> k \in 1 .. size /\ b + k <= L
  <2>1. DOMAIN items = 1 .. Len(items)
    BY <1>6
  <2>2. \A k : k \in 1 .. Len(items) <=> k \in 1 .. size /\ b + k <= L
    BY <1>1, <1>2, <1>3, <1>6
  <2> QED
    BY <2>1, <2>2
<1>8. \A k \in DOMAIN items : b + k \in 1 .. L /\ items[k] = ordered[b + k]
  <2> SUFFICES ASSUME NEW k \in DOMAIN items PROVE b + k \in 1 .. L /\ items[k] = ordered[b + k]
    OBVIOUS
  <2>1. k \in 1 .. size /\ b + k <= L
    BY <1>7
  <2>2. b + k \in 1 .. L /\ k \in 1 .. e - (b + 1) + 1 /\ b + 1 + k - 1 = b + k
    BY <2>1, <1>1, <1>2, <1>3
  <2> QED
    BY <2>2, <1>6
<1>9. PageOf(ordered, page, size) = items
  BY DEF PageOf, items, b, e
<1> QED
  BY <1>6, <1>7, <1>8, <1>9 DEF b, L

\* A place in the order is on one page.
LEMMA PlacesDiffer ==
  ASSUME NEW size \in Nat \ {0}, NEW i \in Nat \ {0}, NEW j \in Nat \ {0},
         NEW k \in 1 .. size, NEW l \in 1 .. size,
         (i - 1) * size + k = (j - 1) * size + l
  PROVE  i = j /\ k = l
<1>1. ASSUME NEW a \in Nat \ {0}, NEW b \in Nat \ {0}, a < b, NEW x \in 1 .. size, NEW y \in 1 .. size
      PROVE  (a - 1) * size + x # (b - 1) * size + y
  <2> DEFINE d == b - 1 - a
  <2>1. d \in Nat /\ b - 1 = a + d
    BY <1>1
  <2>2. (a + d) * size = a * size + d * size /\ a * size \in Nat /\ d * size \in Nat
    BY <2>1
  <2>3. (a - 1) * size = a * size - size
    OBVIOUS
  <2> DEFINE u == a * size
             v == d * size
  <2>4. (a - 1) * size = u - size /\ (b - 1) * size = u + v /\ u \in Nat /\ v \in Nat
    BY <2>1, <2>2, <2>3
  <2> HIDE DEF u, v, d
  <2> QED
    BY <2>4
<1>2. i = j
  BY <1>1
<1> DEFINE w == (i - 1) * size
<1>3. w \in Int /\ w + k = w + l
  BY <1>2
<1> HIDE DEF w
<1> QED
  BY <1>2, <1>3

\* And every place is on one of the pages.
LEMMA PlacesAreFound ==
  ASSUME NEW size \in Nat \ {0}, NEW pages \in Nat, NEW x \in Nat \ {0}, x <= pages * size
  PROVE  \E i \in 1 .. pages, k \in 1 .. size : x = (i - 1) * size + k
<1> DEFINE q == (x - 1) \div size
           r == (x - 1) % size
<1>1. x - 1 \in Nat
  OBVIOUS
<1>2. q \in Int /\ r \in 0 .. size - 1 /\ x - 1 = size * q + r
  BY <1>1
<1> HIDE DEF q, r
<1>3. q >= 0
  <2> SUFFICES ASSUME q < 0 PROVE FALSE
    BY <1>2
  <2>1. -q - 1 \in Nat /\ q = -(-q - 1) - 1
    BY <1>2
  <2> DEFINE m == -q - 1
  <2>2. size * m \in Nat /\ size * q = -(size * m) - size
    BY <2>1
  <2> DEFINE sm == size * m
             sq == size * q
  <2>3. sm \in Nat /\ sq = -sm - size /\ x - 1 = sq + r
    BY <2>2, <1>2
  <2> HIDE DEF sm, sq, m
  <2> QED
    BY <2>3, <1>2
<1>4. q < pages
  <2> SUFFICES ASSUME q >= pages PROVE FALSE
    BY <1>2
  <2> DEFINE d == q - pages
  <2>1. d \in Nat /\ q = pages + d
    BY <1>2
  <2>2. size * (pages + d) = pages * size + size * d /\ size * d \in Nat /\ pages * size \in Nat
    BY <2>1
  <2> DEFINE sd == size * d
             ps == pages * size
  <2>3. sd \in Nat /\ ps \in Nat /\ x - 1 = ps + sd + r /\ x <= ps
    BY <2>1, <2>2, <1>2
  <2> HIDE DEF sd, ps, d
  <2> QED
    BY <2>3, <1>2
<1>5. (q + 1) - 1 = q /\ q * size = size * q /\ q + 1 \in 1 .. pages /\ r + 1 \in 1 .. size
  BY <1>2, <1>3, <1>4
<1>6. x = ((q + 1) - 1) * size + (r + 1)
  <2> DEFINE sq == size * q
  <2>1. sq \in Int /\ x - 1 = sq + r /\ ((q + 1) - 1) * size = sq
    BY <1>2, <1>5
  <2> HIDE DEF sq
  <2> QED
    BY <2>1, <1>2
<1> QED
  BY <1>5, <1>6

-----------------------------------------------------------------------------
(* What is found for a query, whatever the page *)

IsQuery(q) == DOMAIN q = QueryFields /\ q.words \in SUBSET Words /\ q.size \in Int

Group(c, q) == Effective(q.group, SourceGroups(c, q.audience))
Passing(c, q, target) == {n \in c : Where(n, q, Group(c, q), target)}

SqlLiked(c, q) == {n \in Passing(c, q, q.target) : LikedBy(n, q.words)}
SqlNewest(c, q) ==
    SubSeq(InOrder(SqlOrder, SqlLiked(c, q)), 1, Least(CandidateLimit, Cardinality(SqlLiked(c, q))))
SqlFound(c, q) == {n \in ToSet(SqlNewest(c, q)) : MatchesOne(n, q.words)}
JsonFound(c, q) ==
    {n \in c : /\ Where(n, q, Group(c, q), None)
               /\ Cardinality({w \in q.words : MatchesExactly(n, w)})
                    >= Least(2, Cardinality(q.words))}

Found(c, b, q) ==
    IF b # "sqlite" THEN JsonFound(c, q)
    ELSE IF q.words = {} THEN Passing(c, q, q.target) ELSE SqlFound(c, q)
OrderFor(b, day, q) ==
    IF b # "sqlite" THEN RankOrder(JsonRanks, q.words, day)
    ELSE IF q.words = {} THEN SqlOrder ELSE RankOrder(SqlRanks, q.words, day)
Ordered(c, b, day, q) == InOrder(OrderFor(b, day, q), Found(c, b, q))
Total(c, b, q) ==
    IF b = "sqlite" /\ q.words # {} THEN Cardinality(SqlLiked(c, q))
    ELSE Cardinality(Found(c, b, q))
Result(c, b, day, q, page) ==
    Reply(Ordered(c, b, day, q), Total(c, b, q), ClampPage(page), ClampSize(q.size),
          Live(c, q.audience, q.group))

LEMMA NewestAreLiked ==
  ASSUME NEW c \in SUBSET Notices, NEW q
  PROVE  /\ ToSet(SqlNewest(c, q)) \subseteq SqlLiked(c, q)
         /\ IsFiniteSet(SqlLiked(c, q)) /\ Cardinality(SqlLiked(c, q)) \in Nat
         /\ Cardinality(SqlLiked(c, q)) <= CandidateLimit
              => ToSet(SqlNewest(c, q)) = SqlLiked(c, q)
         /\ \A n \in SqlLiked(c, q) \ ToSet(SqlNewest(c, q)), k \in ToSet(SqlNewest(c, q)) :
              <<k, n>> \in SqlOrder
<1> DEFINE liked == SqlLiked(c, q)
           N == Cardinality(liked)
           s == InOrder(SqlOrder, liked)
           m == Least(CandidateLimit, N)
<1>1. liked \in SUBSET Notices
  BY DEF SqlLiked, Passing
<1>2. s \in Seq(liked) /\ Len(s) = N /\ N \in Nat /\ ToSet(s) = liked /\ IsFiniteSet(liked)
  BY <1>1, SqlOrderIsStrict, InOrderLists
<1>2a. \A x, y \in 1 .. N : x < y => <<s[x], s[y]>> \in SqlOrder
  BY <1>1, SqlOrderIsStrict, InOrderLists
<1>3. m \in Nat /\ m <= N /\ (N <= CandidateLimit => m = N)
  BY <1>2, QueriesAssumption DEF Least
<1> HIDE DEF liked, N, s, m
<1> DEFINE t == SubSeq(s, 1, m)
<1>4. \A i \in 1 .. m : s[i] \in liked
  BY <1>2, <1>3
<1>5. /\ t \in Seq(liked)
      /\ N <= CandidateLimit => t = s
  <2>1. t \in Seq(liked)
    BY <1>3, <1>4, SubSeqProperties
  <2>2. N <= CandidateLimit => t = s
    BY <1>2, <1>3, SubSeqFull
  <2> QED
    BY <2>1, <2>2
<1>6. ToSet(t) \subseteq liked
  BY <1>5 DEF ToSet
<1>7. SqlNewest(c, q) = t
  BY DEF SqlNewest, t, s, m, N, liked
<1>8. ASSUME NEW n \in liked, n \notin ToSet(t), NEW k \in ToSet(t) PROVE <<k, n>> \in SqlOrder
  <2>1. /\ Len(t) = m /\ DOMAIN t = 1 .. m
        /\ \A i \in 1 .. m : t[i] = s[i]
    BY <1>3, <1>4, SubSeqProperties
  <2> HIDE DEF t
  <2>2. PICK x \in 1 .. N : n = s[x]
    BY <1>2 DEF ToSet
  <2>3. PICK y \in 1 .. m : k = s[y]
    BY <2>1 DEF ToSet
  <2>4. x \notin 1 .. m
    BY <1>8, <2>1, <2>2 DEF ToSet
  <2>5. y \in 1 .. N /\ y < x
    BY <1>2, <1>3, <2>2, <2>3, <2>4
  <2> QED
    BY <1>2a, <2>2, <2>3, <2>5
<1> QED
  BY <1>2, <1>5, <1>6, <1>7, <1>8 DEF liked, N

LEMMA SelectedIsFinite ==
  ASSUME NEW c \in SUBSET Notices, NEW q, NEW b
  PROVE  /\ Found(c, b, q) \in SUBSET c
         /\ IsFiniteSet(Found(c, b, q)) /\ Cardinality(Found(c, b, q)) \in Nat
<1>1. Found(c, b, q) \in SUBSET c
  <2>1. SqlFound(c, q) \in SUBSET c
    BY NewestAreLiked DEF SqlFound, SqlLiked, Passing
  <2> QED
    BY <2>1 DEF Found, JsonFound, Passing
<1> QED
  BY <1>1, QueriesAssumption, FS_Subset, FS_CardinalityType

LEMMA OrderedLists ==
  ASSUME NEW c \in SUBSET Notices, NEW q, IsQuery(q), NEW b, NEW day \in Days
  PROVE  /\ Ordered(c, b, day, q) \in Seq(Notices)
         /\ ToSet(Ordered(c, b, day, q)) = Found(c, b, q)
         /\ Len(Ordered(c, b, day, q)) = Cardinality(Found(c, b, q))
         /\ \A i, j \in 1 .. Len(Ordered(c, b, day, q)) :
              i # j => Ordered(c, b, day, q)[i] # Ordered(c, b, day, q)[j]
         /\ Total(c, b, q) \in Nat
         /\ Len(Ordered(c, b, day, q)) <= Total(c, b, q)
<1> DEFINE R == OrderFor(b, day, q)
           ns == Found(c, b, q)
<1>1. Strict(R)
  BY RanksAreStrict, SqlOrderIsStrict DEF OrderFor, IsQuery
<1>2. ns \in SUBSET Notices /\ Cardinality(ns) \in Nat
  BY SelectedIsFinite
<1> HIDE DEF R, ns
<1>3. /\ InOrder(R, ns) \in Seq(ns)
      /\ Len(InOrder(R, ns)) = Cardinality(ns)
      /\ ToSet(InOrder(R, ns)) = ns
      /\ \A i, j \in 1 .. Cardinality(ns) : i # j => InOrder(R, ns)[i] # InOrder(R, ns)[j]
  BY <1>1, <1>2, InOrderLists
<1>4. InOrder(R, ns) \in Seq(Notices)
  BY <1>2, <1>3
<1>5. Total(c, b, q) \in Nat /\ Cardinality(ns) <= Total(c, b, q)
  <2>1. CASE b = "sqlite" /\ q.words # {}
    <3>1. ns \in SUBSET SqlLiked(c, q)
      BY <2>1, NewestAreLiked DEF ns, Found, SqlFound
    <3>2. IsFiniteSet(SqlLiked(c, q)) /\ Cardinality(SqlLiked(c, q)) \in Nat
      BY NewestAreLiked
    <3>3. Cardinality(ns) <= Cardinality(SqlLiked(c, q))
      BY <3>1, <3>2, FS_Subset
    <3> QED
      BY <2>1, <3>2, <3>3 DEF Total
  <2>2. CASE ~ (b = "sqlite" /\ q.words # {})
    <3>1. Total(c, b, q) = Cardinality(ns)
      BY <2>2 DEF Total, ns
    <3> QED
      BY <3>1, <1>2
  <2> QED
    BY <2>1, <2>2
<1> QED
  BY <1>3, <1>4, <1>5 DEF Ordered, R, ns

LEMMA NothingScoredWithoutWords ==
  ASSUME NEW n PROVE BaseScore(n, {}) = 0
<1>1. {w \in {} : InText(n, w)} = {} /\ Cardinality({}) = 0
  BY FS_EmptySet
<1>2. \A field : HitsIn(n, {}, field) = 0
  BY FS_EmptySet DEF HitsIn
<1>3. Cardinality({w \in {} : InText(n, w)}) = 0
  BY <1>1
<1> QED
  BY <1>2, <1>3 DEF BaseScore

\* Without words both backends find what the filters let through.
LEMMA FoundWithoutWords ==
  ASSUME NEW c \in SUBSET Notices, NEW q, q.words = {}, NEW b
  PROVE  /\ Found(c, b, q) = Passing(c, q, IF b = "sqlite" THEN q.target ELSE None)
         /\ Total(c, b, q) = Cardinality(Found(c, b, q))
         /\ \A ns : ~ Raises(ns, q.words)
<1>1. Cardinality({}) = 0
  BY FS_EmptySet
<1>2. \A n : {w \in q.words : MatchesExactly(n, w)} = {}
  OBVIOUS
<1>3. JsonFound(c, q) = Passing(c, q, None)
  <2>1. Cardinality(q.words) = 0
    BY <1>1
  <2>2. Least(2, 0) = 0
    BY DEF Least
  <2>3. \A n : Cardinality({w \in q.words : MatchesExactly(n, w)}) >= Least(2, Cardinality(q.words))
    BY <1>1, <1>2, <2>1, <2>2
  <2> QED
    BY <2>3 DEF JsonFound, Passing
<1>4. \A ns : ~ Raises(ns, q.words)
  BY NothingScoredWithoutWords DEF Raises
<1> QED
  BY <1>3, <1>4 DEF Found, Total

LEMMA SqlAnswerIs ==
  ASSUME NEW c, NEW q, NEW day, NEW page
  PROVE  LET r == SqlAnswer(RowsOf(c), Live(c, q.audience, q.group), day, q, page)
         IN  /\ r = Failure \/ r = Result(c, "sqlite", day, q, page)
             /\ q.words = {} => r = Result(c, "sqlite", day, q, page)
<1> DEFINE live == Live(c, q.audience, q.group)
<1>1. live.group = Group(c, q)
  BY DEF Live, Group
<1>2. Selected(RowsOf(c), q, live.group) = Passing(c, q, q.target)
  BY <1>1, SelectedIs DEF Passing
<1>3. CASE q.words = {}
  BY <1>2, <1>3 DEF SqlAnswer, Result, Ordered, OrderFor, Found, Total
<1>4. CASE q.words # {}
  BY <1>2, <1>4 DEF SqlAnswer, Result, Ordered, OrderFor, Found, Total, SqlFound, SqlNewest,
                    SqlLiked
<1> QED
  BY <1>3, <1>4

LEMMA JsonAnswerIs ==
  ASSUME NEW c, NEW q, NEW day, NEW page, NEW b, b # "sqlite"
  PROVE  LET r == JsonAnswer(c, day, q, page)
         IN  /\ r = Failure \/ r = Result(c, b, day, q, page)
             /\ (\A ns : ~ Raises(ns, q.words)) => r = Result(c, b, day, q, page)
<1> DEFINE live == Live(c, q.audience, q.group)
<1>1. live.group = Group(c, q)
  BY DEF Live, Group
<1>2. ListFacets(c, q.audience, q.group) = live
  BY ListFacetsIs
<1>3. Filtered(OfGroup(OfAudience(c, q.audience), live.group), q) = JsonFound(c, q)
  BY <1>1, FilteredIs DEF JsonFound
<1> HIDE DEF live
<1>4. JsonAnswer(c, day, q, page) =
        IF Raises(JsonFound(c, q), q.words) THEN Failure
        ELSE Reply(InOrder(RankOrder(JsonRanks, q.words, day), JsonFound(c, q)),
                   Cardinality(JsonFound(c, q)), ClampPage(page), ClampSize(q.size), live)
  BY <1>2, <1>3 DEF JsonAnswer
<1>5. Result(c, b, day, q, page) =
        Reply(InOrder(RankOrder(JsonRanks, q.words, day), JsonFound(c, q)),
              Cardinality(JsonFound(c, q)), ClampPage(page), ClampSize(q.size), live)
  BY DEF Result, Ordered, OrderFor, Found, Total, live
<1> QED
  BY <1>4, <1>5

-----------------------------------------------------------------------------
(* The invariant *)

ServerInv ==
    /\ listed \in SUBSET Notices
    /\ backend \in {"sqlite", "json"}
    /\ db = RowsOf(listed)
    /\ cache = BuildFacets(db)
    /\ today \in Days

\* What a reader holds are pages of what the list gives today for its query; a narrowed
\* query has no words and finds something.
ViewInv ==
    /\ DOMAIN view = {"query", "answer", "pages", "narrowed"}
    /\ view.answer.ok =>
         /\ IsQuery(view.query)
         /\ \E page \in Int : view.answer = Result(listed, backend, today, view.query, page)
         /\ \A i \in DOMAIN view.pages :
              /\ i \in 1 .. PagesFor(Total(listed, backend, view.query), ClampSize(view.query.size))
              /\ view.pages[i] = PageOf(Ordered(listed, backend, today, view.query), i,
                                        ClampSize(view.query.size))
         /\ view.narrowed => view.query.words = {} /\ Found(listed, backend, view.query) # {}

HuntInv ==
    /\ DOMAIN hunt = {"question", "at", "items", "sqlite"}
    /\ hunt.at = "latest" => IsQuery(hunt.question)
    /\ EvidenceSuitsTheUser

Inv == ServerInv /\ ViewInv /\ HuntInv

LEMMA CacheServes ==
  ASSUME NEW c, NEW a, NEW group
  PROVE  LET row == FromCache(BuildFacets(RowsOf(c)), a, group)
         IN  row = << >> \/ Head(row) = Live(c, a, group)
<1> DEFINE d == RowsOf(c)
           rows == BuildFacets(d)
           g == Effective(group, SourceGroups(c, a))
<1>1. DOMAIN rows = FacetKeys(d) /\ \A key \in FacetKeys(d) : rows[key] = Facets(c, key[1], key[2])
  BY BundleIs DEF BuildFacets
<1>2. Facets(c, a, None).groups = SourceGroups(c, a)
  BY DEF Facets
<1>3. Live(c, a, group) = [group |-> g, facets |-> Facets(c, a, g)]
  BY DEF Live
<1> HIDE DEF rows
<1>4. CASE <<a, None>> \notin DOMAIN rows
  BY <1>4 DEF FromCache, rows
<1>5. CASE <<a, None>> \in DOMAIN rows
  <2>1. rows[<<a, None>>].groups = SourceGroups(c, a)
    BY <1>1, <1>2, <1>5
  <2>2. FromCache(rows, a, group) =
          IF <<a, g>> \notin DOMAIN rows THEN << >> ELSE <<[group |-> g, facets |-> rows[<<a, g>>]]>>
    BY <1>5, <2>1 DEF FromCache
  <2>3. <<a, g>> \in DOMAIN rows => rows[<<a, g>>] = Facets(c, a, g)
    BY <1>1
  <2> QED
    BY <1>3, <2>2, <2>3 DEF rows
<1> QED
  BY <1>4, <1>5

LEMMA AnswerIs ==
  ASSUME ServerInv, NEW q, NEW page, NEW readable
  PROVE  LET r == Answer(q, page, readable)
         IN  /\ r = Failure \/ r = Result(listed, backend, today, q, page)
             /\ q.words = {} => r = Result(listed, backend, today, q, page)
<1>1. Resolved(q, readable) = Live(listed, q.audience, q.group)
  BY CacheServes, LiveFacetsIs DEF Resolved, ServerInv
<1>2. CASE backend = "sqlite"
  <2>1. Answer(q, page, readable) =
          SqlAnswer(RowsOf(listed), Live(listed, q.audience, q.group), today, q, page)
    BY <1>1, <1>2 DEF Answer, ServerInv
  <2> QED
    BY <1>2, <2>1, SqlAnswerIs
<1>3. CASE backend # "sqlite"
  <2>1. Answer(q, page, readable) = JsonAnswer(listed, today, q, page)
    BY <1>3 DEF Answer
  <2>2. q.words = {} => \A ns : ~ Raises(ns, q.words)
    BY NothingScoredWithoutWords DEF Raises
  <2> QED
    BY <1>3, <2>1, <2>2, JsonAnswerIs
<1> QED
  BY <1>2, <1>3

LEMMA ResultFields ==
  ASSUME NEW c \in SUBSET Notices, NEW q, IsQuery(q), NEW b, NEW day \in Days, NEW page \in Int
  PROVE  LET r == Result(c, b, day, q, page)
             size == ClampSize(q.size)
         IN  /\ r.ok = TRUE
             /\ r.total = Total(c, b, q)
             /\ r.pages = PagesFor(Total(c, b, q), size)
             /\ r.page \in 1 .. r.pages
             /\ r.items = PageOf(Ordered(c, b, day, q), r.page, size)
             /\ size \in Nat \ {0} /\ r.pages \in Nat \ {0}
<1> DEFINE size == ClampSize(q.size)
           total == Total(c, b, q)
           p == ClampPage(page)
           last == PagesFor(total, size)
<1>1. size \in Nat \ {0} /\ total \in Nat
  BY SizeTyped, OrderedLists DEF IsQuery
<1>2. last \in Nat \ {0}
  BY <1>1, PageCount
<1>3. p \in Nat \ {0}
  BY DEF ClampPage
<1>4. Least(p, last) \in 1 .. last
  <2> HIDE DEF p, last
  <2> QED
    BY <1>2, <1>3 DEF Least
<1> HIDE DEF size, total, p, last
<1>5. Result(c, b, day, q, page) =
        [ok |-> TRUE, items |-> PageOf(Ordered(c, b, day, q), Least(p, last), size),
         total |-> total, page |-> Least(p, last), pages |-> last,
         group |-> Live(c, q.audience, q.group).group,
         facets |-> Live(c, q.audience, q.group).facets]
  BY DEF Result, Reply, size, total, p, last
<1> QED
  BY <1>1, <1>2, <1>4, <1>5 DEF size, total, last

LEMMA ResultNow ==
  ASSUME ServerInv, NEW q, IsQuery(q), NEW page \in Int
  PROVE  LET r == Result(listed, backend, today, q, page)
             last == PagesFor(Total(listed, backend, q), ClampSize(q.size))
         IN  /\ r.ok = TRUE
             /\ r.total = Total(listed, backend, q)
             /\ r.group = Live(listed, q.audience, q.group).group
             /\ r.facets = Live(listed, q.audience, q.group).facets
             /\ r.pages = last
             /\ r.page \in 1 .. last
             /\ r.items = PageOf(Ordered(listed, backend, today, q), r.page, ClampSize(q.size))
<1>1. listed \in SUBSET Notices /\ today \in Days
  BY DEF ServerInv
<1> DEFINE r == Result(listed, backend, today, q, page)
           live == Live(listed, q.audience, q.group)
<1>2. r.ok = TRUE
  BY <1>1, ResultFields
<1>3. r.total = Total(listed, backend, q)
  BY <1>1, ResultFields
<1>4. r.pages = PagesFor(Total(listed, backend, q), ClampSize(q.size)) /\ r.page \in 1 .. r.pages
  BY <1>1, ResultFields
<1>5. r.items = PageOf(Ordered(listed, backend, today, q), r.page, ClampSize(q.size))
  BY <1>1, ResultFields
<1>6. r.group = live.group
  BY DEF Result, Reply
<1>7. r.facets = live.facets
  BY DEF Result, Reply
<1> HIDE DEF r, live
<1> QED
  BY <1>2, <1>3, <1>4, <1>5, <1>6, <1>7 DEF r, live

LEMMA InitInv == Init => Inv
<1> SUFFICES ASSUME Init PROVE Inv
  OBVIOUS
<1>1. ServerInv
  BY SearchAssumption DEF Init, ServerInv
<1>2. ViewInv
  BY DEF Init, NoView, Failure, ViewInv
<1>3. HuntInv
  BY DEF Init, NoHunt, HuntInv, EvidenceSuitsTheUser
<1> QED
  BY <1>1, <1>2, <1>3 DEF Inv

LEMMA StartKeepsView ==
  ASSUME ServerInv, NEW q, IsQuery(q), NEW page \in Int, NEW readable, NEW narrowed,
         narrowed => q.words = {} /\ Found(listed, backend, q) # {},
         view' = Start(q, Answer(q, page, readable), narrowed),
         UNCHANGED <<listed, backend, today>>
  PROVE  ViewInv'
<1> DEFINE a == Answer(q, page, readable)
<1>1. view' = [query |-> q, answer |-> a, pages |-> Shown(a), narrowed |-> narrowed]
  BY DEF Start
<1>2. a = Failure \/ a = Result(listed, backend, today, q, page)
  BY AnswerIs
<1> HIDE DEF a
<1>3. CASE a = Failure
  <2>1. ~ view'.answer.ok
    BY <1>1, <1>3 DEF Failure
  <2> QED
    BY <1>1, <2>1 DEF ViewInv
<1>4. CASE a = Result(listed, backend, today, q, page)
  <2> DEFINE size == ClampSize(q.size)
             last == PagesFor(Total(listed, backend, q), size)
             ordered == Ordered(listed, backend, today, q)
  <2>1. /\ a.ok = TRUE /\ a.page \in 1 .. last /\ a.items = PageOf(ordered, a.page, size)
    BY <1>4, ResultNow
  <2>2. view'.pages = [x \in {a.page} |-> a.items]
    BY <1>1, <2>1 DEF Shown
  <2>3. \A i \in DOMAIN view'.pages : i \in 1 .. last /\ view'.pages[i] = PageOf(ordered, i, size)
    BY <2>1, <2>2
  <2>4. view'.query = q /\ view'.answer = a /\ view'.narrowed = narrowed
        /\ DOMAIN view' = {"query", "answer", "pages", "narrowed"}
    BY <1>1
  <2> QED
    BY <1>4, <2>3, <2>4 DEF ViewInv
<1> QED
  BY <1>2, <1>3, <1>4

LEMMA TurnKeepsView ==
  ASSUME Inv, NEW page \in Int, NEW readable, Turn(page, readable)
  PROVE  ViewInv'
<1> DEFINE q == view.query
           a == Answer(q, page, readable)
           size == ClampSize(q.size)
           last == PagesFor(Total(listed, backend, q), size)
           ordered == Ordered(listed, backend, today, q)
           pages == [p \in DOMAIN Shown(a) \cup DOMAIN view.pages |->
                       IF p \in DOMAIN Shown(a) THEN Shown(a)[p] ELSE view.pages[p]]
<1>1. /\ view.answer.ok /\ IsQuery(q)
      /\ \A i \in DOMAIN view.pages : i \in 1 .. last /\ view.pages[i] = PageOf(ordered, i, size)
      /\ view.narrowed => q.words = {} /\ Found(listed, backend, q) # {}
      /\ DOMAIN view = {"query", "answer", "pages", "narrowed"}
  BY DEF Turn, Inv, ViewInv
<1>2. view' = [view EXCEPT !.answer = a, !.pages = pages]
      /\ UNCHANGED <<listed, backend, today>>
  BY DEF Turn, WithPage
<1>3. /\ view'.query = q /\ view'.answer = a /\ view'.narrowed = view.narrowed
      /\ view'.pages = pages
      /\ DOMAIN view' = {"query", "answer", "pages", "narrowed"}
  BY <1>1, <1>2
<1>4. a = Failure \/ a = Result(listed, backend, today, q, page)
  BY AnswerIs DEF Inv
<1> HIDE DEF a, q, size, last, ordered
<1>5. CASE a = Failure
  <2>1. ~ view'.answer.ok
    BY <1>3, <1>5 DEF Failure
  <2> QED
    BY <1>3, <2>1 DEF ViewInv
<1>6. CASE a = Result(listed, backend, today, q, page)
  <2>1. /\ a.ok = TRUE /\ a.page \in 1 .. last /\ a.items = PageOf(ordered, a.page, size)
    BY <1>1, <1>6, ResultNow DEF size, last, ordered, Inv
  <2>2. Shown(a) = [x \in {a.page} |-> a.items]
    BY <2>1 DEF Shown
  <2>3. view'.pages = [x \in {a.page} \cup DOMAIN view.pages |->
                         IF x \in {a.page} THEN a.items ELSE view.pages[x]]
    BY <1>3, <2>2
  <2>4. \A i \in DOMAIN view'.pages : i \in 1 .. last /\ view'.pages[i] = PageOf(ordered, i, size)
    BY <1>1, <2>1, <2>3
  <2> QED
    BY <1>1, <1>2, <1>3, <1>6, <2>4 DEF ViewInv, size, last, ordered
<1> QED
  BY <1>4, <1>5, <1>6

LEMMA OfferedFindSomething ==
  ASSUME ServerInv, ViewInv, view.answer.ok, Broad(view.query),
         NEW q \in Offered(view.query, view.answer.facets)
  PROVE  IsQuery(q) /\ q.words = {} /\ Found(listed, backend, q) # {}
<1> DEFINE p == view.query
           facets == Facets(listed, p.audience, Group(listed, p))
           scope == InScope(listed, p.audience, Group(listed, p))
<1>1. IsQuery(p) /\ Broad(p) /\ listed \in SUBSET Notices
  BY DEF ViewInv, ServerInv
<1>2. view.answer.facets = facets
  <2>1. PICK page \in Int : view.answer = Result(listed, backend, today, p, page)
    BY DEF ViewInv
  <2>2. Result(listed, backend, today, p, page).facets = Live(listed, p.audience, p.group).facets
    BY <1>1, ResultNow
  <2>3. Live(listed, p.audience, p.group).facets = facets
    BY DEF Live, Group
  <2> QED
    BY <2>1, <2>2, <2>3
<1>3. /\ facets.audiences = {Audience[n] : n \in listed}
      /\ facets.groups = SourceGroups(listed, p.audience)
      /\ facets.sources \subseteq UNION {FacetSources(n, p.audience, Group(listed, p)) : n \in scope}
      /\ facets.categories = CleanCategories(scope)
      /\ facets.departments = {Info[n].department : n \in scope} \ {None}
  BY DEF Facets
<1> HIDE DEF p, facets, scope
<1>4. /\ DOMAIN p = QueryFields /\ p.words = {} /\ p.source = None /\ p.category = 0
      /\ p.department = None /\ p.target = None /\ p.size \in Int
  BY <1>1 DEF IsQuery, Broad
\* One notice that the filters let through is enough.
<1>5. ASSUME NEW n \in listed, Where(n, q, Group(listed, q), None),
             IsQuery(q), q.words = {}, q.target = None
      PROVE  Found(listed, backend, q) # {}
  <2>1. n \in Passing(listed, q, IF backend = "sqlite" THEN q.target ELSE None)
    BY <1>5 DEF Passing
  <2>2. Found(listed, backend, q) = Passing(listed, q, IF backend = "sqlite" THEN q.target ELSE None)
    BY <1>1, <1>5, FoundWithoutWords
  <2> QED
    BY <2>1, <2>2
\* In scope of the query as it was.
<1>6. \A n \in scope : /\ n \in listed
                       /\ n \in InScope({n}, p.audience, Group(listed, p))
  BY DEF InScope, scope
<1>7. CASE \E a \in facets.audiences : q = [p EXCEPT !.audience = a, !.group = None]
  <2>0. PICK a \in facets.audiences : q = [p EXCEPT !.audience = a, !.group = None]
    BY <1>7
  <2>a. PICK n \in listed : a = Audience[n]
    BY <1>3
  <2>1. q = [p EXCEPT !.audience = Audience[n], !.group = None]
    BY <2>0, <2>a
  <2>2. /\ IsQuery(q) /\ q.words = {} /\ q.source = None /\ q.category = 0 /\ q.department = None
        /\ q.target = None /\ q.audience = Audience[n] /\ q.group = None
    BY <1>4, <2>1 DEF IsQuery, QueryFields
  <2>3. Group(listed, q) = None
    BY <2>2 DEF Group, Effective
  <2>4. Where(n, q, Group(listed, q), None)
    BY <2>2, <2>3 DEF Where, InScope
  <2> QED
    BY <1>5, <2>2, <2>4
<1>8. CASE \E g \in facets.groups : q = [p EXCEPT !.group = g]
  <2>1. PICK g \in SourceGroups(listed, p.audience) : q = [p EXCEPT !.group = g]
    BY <1>3, <1>8
  <2>2. PICK n \in InScope(listed, p.audience, None) : g \in NoticeGroups[n]
    BY DEF SourceGroups
  <2>3. /\ IsQuery(q) /\ q.words = {} /\ q.source = None /\ q.category = 0 /\ q.department = None
        /\ q.target = None /\ q.audience = p.audience /\ q.group = g
    BY <1>4, <2>1 DEF IsQuery, QueryFields
  <2>4. Group(listed, q) = g
    BY <2>3 DEF Group, Effective
  <2>5. Where(n, q, Group(listed, q), None) /\ n \in listed
    BY <2>2, <2>3, <2>4 DEF Where, InScope
  <2> QED
    BY <1>5, <2>3, <2>5
<1>9. CASE \E x \in facets.sources : q = [p EXCEPT !.source = x]
  <2>1. PICK x \in facets.sources : q = [p EXCEPT !.source = x]
    BY <1>9
  <2>2. PICK n \in scope : x \in FacetSources(n, p.audience, Group(listed, p))
    BY <1>3, <2>1
  <2>3. x \in Info[n].sources
    BY <2>2 DEF FacetSources, InScopeAlone
  <2>4. /\ IsQuery(q) /\ q.words = {} /\ q.source = x /\ q.category = 0 /\ q.department = None
        /\ q.target = None /\ q.audience = p.audience /\ q.group = p.group
    BY <1>4, <2>1 DEF IsQuery, QueryFields
  <2>5. Group(listed, q) = Group(listed, p)
    BY <2>4 DEF Group
  <2>6. Where(n, q, Group(listed, q), None)
    BY <1>6, <2>3, <2>4, <2>5 DEF Where
  <2> QED
    BY <1>5, <1>6, <2>4, <2>6
<1>10. CASE \E k \in facets.categories : q = [p EXCEPT !.category = k]
  <2>1. PICK k \in CleanCategories(scope) : q = [p EXCEPT !.category = k]
    BY <1>3, <1>10
  <2>2. PICK n \in scope : k = Info[n].category
    BY DEF CleanCategories
  <2>4. /\ IsQuery(q) /\ q.words = {} /\ q.source = None /\ q.category = k /\ q.department = None
        /\ q.target = None /\ q.audience = p.audience /\ q.group = p.group
    BY <1>4, <2>1 DEF IsQuery, QueryFields
  <2>5. Group(listed, q) = Group(listed, p)
    BY <2>4 DEF Group
  <2>6. Where(n, q, Group(listed, q), None)
    BY <1>6, <2>2, <2>4, <2>5 DEF Where
  <2> QED
    BY <1>5, <1>6, <2>4, <2>6
<1>11. CASE \E d \in facets.departments : q = [p EXCEPT !.department = d]
  <2>1. PICK n \in scope : q = [p EXCEPT !.department = Info[n].department]
    BY <1>3, <1>11
  <2>4. /\ IsQuery(q) /\ q.words = {} /\ q.source = None /\ q.category = 0
        /\ q.department = Info[n].department
        /\ q.target = None /\ q.audience = p.audience /\ q.group = p.group
    BY <1>4, <2>1 DEF IsQuery, QueryFields
  <2>5. Group(listed, q) = Group(listed, p)
    BY <2>4 DEF Group
  <2>6. Where(n, q, Group(listed, q), None)
    BY <1>6, <2>4, <2>5 DEF Where
  <2> QED
    BY <1>5, <1>6, <2>4, <2>6
<1>12. \/ \E a \in facets.audiences : q = [p EXCEPT !.audience = a, !.group = None]
       \/ \E g \in facets.groups : q = [p EXCEPT !.group = g]
       \/ \E x \in facets.sources : q = [p EXCEPT !.source = x]
       \/ \E k \in facets.categories : q = [p EXCEPT !.category = k]
       \/ \E d \in facets.departments : q = [p EXCEPT !.department = d]
  BY <1>2 DEF Offered, p
<1>13. IsQuery(q) /\ q.words = {}
  BY <1>4, <1>12 DEF IsQuery, QueryFields
<1> QED
  BY <1>7, <1>8, <1>9, <1>10, <1>11, <1>12, <1>13

\* PageItems for what is found now, and every page of it.
LEMMA PageNow ==
  ASSUME ServerInv, NEW q, IsQuery(q), NEW i \in Nat \ {0}
  PROVE  LET size == ClampSize(q.size)
             ordered == Ordered(listed, backend, today, q)
             items == PageOf(ordered, i, size)
         IN  /\ size \in Nat \ {0}
             /\ \A k : k \in DOMAIN items <=> k \in 1 .. size /\ (i - 1) * size + k <= Len(ordered)
             /\ \A k \in DOMAIN items : /\ (i - 1) * size + k \in 1 .. Len(ordered)
                                        /\ items[k] = ordered[(i - 1) * size + k]
<1> DEFINE size == ClampSize(q.size)
           ordered == Ordered(listed, backend, today, q)
<1>1. listed \in SUBSET Notices /\ today \in Days /\ size \in Nat \ {0}
  BY SizeTyped DEF ServerInv, IsQuery
<1>2. ordered \in Seq(Notices)
  BY <1>1, OrderedLists
<1> HIDE DEF size, ordered
<1>3. \A k : k \in DOMAIN PageOf(ordered, i, size)
               <=> k \in 1 .. size /\ (i - 1) * size + k <= Len(ordered)
  BY <1>1, <1>2, PageItems
<1>4. \A k \in DOMAIN PageOf(ordered, i, size) :
        /\ (i - 1) * size + k \in 1 .. Len(ordered)
        /\ PageOf(ordered, i, size)[k] = ordered[(i - 1) * size + k]
  BY <1>1, <1>2, PageItems
<1> QED
  BY <1>1, <1>3, <1>4 DEF size, ordered

\* The filter on the target stands in front of everything the database finds.
LEMMA AnswersSuit ==
  ASSUME ServerInv, NEW q, IsQuery(q), NEW page \in Int, NEW readable, backend = "sqlite",
         NEW n \in ToSet(Answer(q, page, readable).items)
  PROVE  q.target = None \/ ~ Info[n].labeled \/ q.target \in Info[n].targets
<1> DEFINE a == Answer(q, page, readable)
           ordered == Ordered(listed, backend, today, q)
           size == ClampSize(q.size)
<1>1. a # Failure
  BY DEF Failure, ToSet
<1>2. a = Result(listed, backend, today, q, page)
  BY <1>1, AnswerIs
<1>3. a.items = PageOf(ordered, a.page, size) /\ a.page \in 1 .. a.pages
  BY <1>2, ResultNow
<1>4. listed \in SUBSET Notices /\ today \in Days /\ size \in Nat \ {0}
  BY SizeTyped DEF ServerInv, IsQuery
<1>5. ordered \in Seq(Notices) /\ ToSet(ordered) = Found(listed, backend, q)
  BY <1>4, OrderedLists
<1>6. a.page \in Nat \ {0}
  <2>1. Total(listed, backend, q) \in Nat
    BY <1>4, OrderedLists
  <2>2. PagesFor(Total(listed, backend, q), size) \in Nat \ {0}
    BY <1>4, <2>1, PageCount
  <2>3. a.pages = PagesFor(Total(listed, backend, q), size)
    BY <1>2, ResultNow
  <2> HIDE DEF a, size
  <2> QED
    BY <1>3, <2>2, <2>3
<1>7. PICK k \in DOMAIN a.items : n = a.items[k]
  BY DEF ToSet
<1>8. \A x \in DOMAIN a.items : \E y \in 1 .. Len(ordered) : a.items[x] = ordered[y]
  <2>1. \A i \in Nat \ {0} : \A x \in DOMAIN PageOf(ordered, i, size) :
          \E y \in 1 .. Len(ordered) : PageOf(ordered, i, size)[x] = ordered[y]
    BY PageNow
  <2> HIDE DEF a, ordered, size
  <2> QED
    BY <1>3, <1>6, <2>1
<1> HIDE DEF a, ordered
<1>8a. \E x \in 1 .. Len(ordered) : n = ordered[x]
  BY <1>7, <1>8
<1>9. n \in Found(listed, backend, q)
  BY <1>5, <1>8a DEF ToSet
<1>10. n \in Passing(listed, q, q.target)
  BY <1>4, <1>9, NewestAreLiked DEF Found, SqlFound, SqlLiked
<1> QED
  BY <1>10 DEF Passing, Where

LEMMA HuntKeeps ==
  ASSUME Inv, NEW q \in Questions, NEW readable, Hunt(q, readable)
  PROVE  HuntInv'
<1> DEFINE a == Answer(q, 1, readable)
<1>1. IsQuery(q)
  BY SearchAssumption DEF IsQuery
<1>2. hunt' = [question |-> q, at |-> IF a.ok /\ a.items = << >> THEN "latest" ELSE "done",
               items |-> a.items, sqlite |-> backend = "sqlite"]
  BY DEF Hunt, FirstSearch
<1>3. backend = "sqlite" =>
        \A n \in ToSet(a.items) : q.target = None \/ ~ Info[n].labeled \/ q.target \in Info[n].targets
  BY <1>1, AnswersSuit DEF Inv
<1> HIDE DEF a
<1>4. /\ DOMAIN hunt' = {"question", "at", "items", "sqlite"}
      /\ hunt'.question = q /\ hunt'.items = a.items /\ hunt'.sqlite = (backend = "sqlite")
  BY <1>2
<1> QED
  BY <1>1, <1>3, <1>4 DEF HuntInv, EvidenceSuitsTheUser

LEMMA HuntLatestKeeps ==
  ASSUME Inv, NEW readable, HuntLatest(readable)
  PROVE  HuntInv'
<1> DEFINE p == hunt.question
           q == Broadened(p)
           a == Answer(q, 1, readable)
<1>1. /\ IsQuery(p) /\ DOMAIN hunt = {"question", "at", "items", "sqlite"}
  BY DEF Inv, HuntInv, HuntLatest
<1>2. IsQuery(q) /\ q.target = p.target
  BY <1>1 DEF IsQuery, Broadened, QueryFields
<1>3. backend = "sqlite" =>
        \A n \in ToSet(a.items) : q.target = None \/ ~ Info[n].labeled \/ q.target \in Info[n].targets
  BY <1>2, AnswersSuit DEF Inv
<1>4. hunt' = [hunt EXCEPT !.at = "done", !.sqlite = backend = "sqlite", !.items = a.items]
  BY DEF HuntLatest
<1> HIDE DEF a, q
<1>5. /\ DOMAIN hunt' = {"question", "at", "items", "sqlite"} /\ hunt'.at = "done"
      /\ hunt'.question = p /\ hunt'.items = a.items /\ hunt'.sqlite = (backend = "sqlite")
  BY <1>1, <1>4
<1> QED
  BY <1>2, <1>3, <1>5 DEF HuntInv, EvidenceSuitsTheUser

LEMMA InvStep == Inv /\ [Next]_vars => Inv'
<1> SUFFICES ASSUME Inv, [Next]_vars PROVE Inv'
  OBVIOUS
<1>1. CASE Ingest
  <2>1. ServerInv'
    BY <1>1, SearchAssumption DEF Inv, ServerInv, Ingest
  <2>2. ViewInv'
    BY <1>1 DEF Ingest, NoView, Failure, ViewInv
  <2>3. HuntInv'
    BY <1>1 DEF Inv, HuntInv, EvidenceSuitsTheUser, Ingest
  <2> QED
    BY <2>1, <2>2, <2>3 DEF Inv
<1>2. CASE Midnight
  <2>1. ServerInv'
    BY <1>2 DEF Inv, ServerInv, Midnight
  <2>2. ViewInv'
    BY <1>2 DEF Midnight, NoView, Failure, ViewInv
  <2>3. HuntInv'
    BY <1>2 DEF Inv, HuntInv, EvidenceSuitsTheUser, Midnight
  <2> QED
    BY <2>1, <2>2, <2>3 DEF Inv
<1>3. ASSUME NEW readable \in BOOLEAN, NEW q \in Queries, NEW page \in JumpPages, Ask(q, page, readable)
      PROVE  Inv'
  <2>1. ServerInv' /\ HuntInv'
    BY <1>3 DEF Inv, ServerInv, HuntInv, EvidenceSuitsTheUser, Ask
  <2>2. IsQuery(q) /\ page \in Int
    BY SearchAssumption DEF IsQuery
  <2>3. /\ view' = Start(q, Answer(q, page, readable), FALSE)
        /\ UNCHANGED <<listed, backend, today>>
    BY <1>3 DEF Ask
  <2>4. ViewInv'
    BY <2>2, <2>3, StartKeepsView DEF Inv
  <2> QED
    BY <2>1, <2>4 DEF Inv
<1>4. ASSUME NEW readable \in BOOLEAN, NEW page \in 1 .. Cardinality(Notices), Turn(page, readable)
      PROVE  Inv'
  <2>1. ServerInv' /\ HuntInv'
    BY <1>4 DEF Inv, ServerInv, HuntInv, EvidenceSuitsTheUser, Turn
  <2>2. page \in Int
    BY QueriesAssumption, FS_CardinalityType
  <2>3. ViewInv'
    BY <1>4, <2>2, TurnKeepsView
  <2> QED
    BY <2>1, <2>3 DEF Inv
<1>5. ASSUME NEW readable \in BOOLEAN, Narrow(readable)
      PROVE  Inv'
  <2>1. ServerInv' /\ HuntInv'
    BY <1>5 DEF Inv, ServerInv, HuntInv, EvidenceSuitsTheUser, Narrow
  <2>2. PICK q \in Offered(view.query, view.answer.facets) :
          view' = Start(q, Answer(q, 1, readable), TRUE)
    BY <1>5 DEF Narrow
  <2>3. IsQuery(q) /\ q.words = {} /\ Found(listed, backend, q) # {}
    BY <1>5, <2>2, OfferedFindSomething DEF Inv, Narrow
  <2>4. UNCHANGED <<listed, backend, today>>
    BY <1>5 DEF Narrow
  <2>5. ASSUME NEW narrowed, narrowed = TRUE
        PROVE  view' = Start(q, Answer(q, 1, readable), narrowed)
    BY <2>2, <2>5
  <2>6. ViewInv'
    <3>1. PICK narrowed : narrowed = TRUE
      OBVIOUS
    <3>2. 1 \in Int
      OBVIOUS
    <3> QED
      BY <2>3, <2>4, <2>5, <3>1, <3>2, StartKeepsView DEF Inv
  <2> QED
    BY <2>1, <2>6 DEF Inv
<1>6. ASSUME NEW readable \in BOOLEAN, NEW q \in Questions, Hunt(q, readable)
      PROVE  Inv'
  <2>1. ServerInv' /\ ViewInv'
    BY <1>6 DEF Inv, ServerInv, ViewInv, Hunt
  <2> QED
    BY <1>6, <2>1, HuntKeeps DEF Inv
<1>7. ASSUME NEW readable \in BOOLEAN, HuntLatest(readable)
      PROVE  Inv'
  <2>1. ServerInv' /\ ViewInv'
    BY <1>7 DEF Inv, ServerInv, ViewInv, HuntLatest
  <2> QED
    BY <1>7, <2>1, HuntLatestKeeps DEF Inv
<1>8. CASE GiveUpHunt
  <2>1. ServerInv' /\ ViewInv'
    BY <1>8 DEF Inv, ServerInv, ViewInv, GiveUpHunt
  <2>2. /\ DOMAIN hunt = {"question", "at", "items", "sqlite"}
        /\ hunt' = [hunt EXCEPT !.at = "done"]
    BY <1>8 DEF Inv, HuntInv, GiveUpHunt
  <2>3. /\ DOMAIN hunt' = {"question", "at", "items", "sqlite"} /\ hunt'.at = "done"
        /\ hunt'.question = hunt.question /\ hunt'.items = hunt.items /\ hunt'.sqlite = hunt.sqlite
    BY <2>2
  <2>4. HuntInv'
    BY <2>3 DEF Inv, HuntInv, EvidenceSuitsTheUser
  <2> QED
    BY <2>1, <2>4 DEF Inv
<1>9. CASE UNCHANGED vars
  BY <1>9 DEF Inv, ServerInv, ViewInv, HuntInv, EvidenceSuitsTheUser, vars
<1> QED
  BY <1>1, <1>2, <1>3, <1>4, <1>5, <1>6, <1>7, <1>8, <1>9 DEF Next

LEMMA InvHolds == Spec => []Inv
<1> QED
  BY InitInv, InvStep, PTL DEF Spec

-----------------------------------------------------------------------------
(* What it gives the readers *)

\* The filters of either path are those of the query.
LEMMA PassingAreWanted ==
  ASSUME ServerInv, NEW q
  PROVE  Passing(listed, q, IF backend = "sqlite" THEN q.target ELSE None) = Wanted(q)
<1> DEFINE target == IF backend = "sqlite" THEN q.target ELSE None
<1>1. listed \in SUBSET Notices
  BY DEF ServerInv
<1>2. GroupsFor(q.audience) = SourceGroups(listed, q.audience)
  BY DEF GroupsFor, SourceGroups, InScope
<1>3. \A n \in listed : Where(n, q, Group(listed, q), target) <=> n \in Wanted(q)
  <2> SUFFICES ASSUME NEW n \in listed
               PROVE  Where(n, q, Group(listed, q), target) <=> n \in Wanted(q)
    OBVIOUS
  <2>1. (Group(listed, q) = None \/ Group(listed, q) \in NoticeGroups[n])
          <=> (q.group \notin GroupsFor(q.audience) \/ q.group \in NoticeGroups[n])
    BY <1>1, <1>2, GroupFilter DEF Group
  <2>2. n \in InScope({n}, q.audience, Group(listed, q))
          <=> /\ q.audience = None \/ Audience[n] = q.audience
              /\ Group(listed, q) = None \/ Group(listed, q) \in NoticeGroups[n]
    BY DEF InScope
  <2>3. (target = None \/ ~Info[n].labeled \/ target \in Info[n].targets)
          <=> (backend = "sqlite" /\ Info[n].labeled => q.target \in {None} \cup Info[n].targets)
    OBVIOUS
  <2> HIDE DEF target
  <2> QED
    BY <2>1, <2>2, <2>3 DEF Where, Wanted
<1> QED
  BY <1>3 DEF Passing, Wanted

\* Whatever the backend, what it finds is what matches the query, and what it leaves
\* out of the scoring is not newer.
FoundMatches(q) ==
    LET found == Found(listed, backend, q)
    IN  /\ found \subseteq Matching(q)
        /\ AllScored(q) => found = Matching(q)
        /\ \A n \in Matching(q) \ found, m \in found : <<m, n>> \in SqlOrder
        /\ AllScored(q) /\ (backend = "sqlite" => Candidates(q) \subseteq Matching(q)) =>
             Cardinality(found) = Total(listed, backend, q)

LEMMA FoundAreMatching ==
  ASSUME ServerInv, NEW q, IsQuery(q)
  PROVE  FoundMatches(q)
<1> DEFINE found == Found(listed, backend, q)
<1>1. listed \in SUBSET Notices /\ backend \in {"sqlite", "json"}
  BY DEF ServerInv
<1>2. ASSUME found = Matching(q), Total(listed, backend, q) = Cardinality(found)
      PROVE  FoundMatches(q)
  BY <1>2 DEF FoundMatches
<1>3. CASE q.words = {}
  <2>1. found = Wanted(q) /\ Total(listed, backend, q) = Cardinality(found)
    BY <1>1, <1>3, PassingAreWanted, FoundWithoutWords
  <2>2. Matching(q) = Wanted(q)
    BY <1>3 DEF Matching
  <2> QED
    BY <1>2, <2>1, <2>2
<1>4. CASE q.words # {} /\ backend = "json"
  <2>1. Passing(listed, q, None) = Wanted(q)
    BY <1>4, PassingAreWanted
  <2>2. found = JsonFound(listed, q) /\ Total(listed, backend, q) = Cardinality(found)
    BY <1>4 DEF Found, Total
  <2>3. JsonFound(listed, q) =
          {n \in Passing(listed, q, None) :
             Cardinality({w \in q.words : MatchesExactly(n, w)}) >= Least(2, Cardinality(q.words))}
    BY DEF JsonFound, Passing
  <2>4. Matching(q) = JsonFound(listed, q)
    BY <1>4, <2>1, <2>3 DEF Matching
  <2> QED
    BY <1>2, <2>2, <2>4
<1>5. CASE q.words # {} /\ backend = "sqlite"
  <2> DEFINE newest == ToSet(SqlNewest(listed, q))
             all == Candidates(q)
  <2>1. all = SqlLiked(listed, q)
    BY <1>5, PassingAreWanted DEF Candidates, SqlLiked, LikedBy
  <2>2. found = {n \in newest : MatchesOne(n, q.words)}
        /\ Total(listed, backend, q) = Cardinality(all)
    BY <1>5, <2>1 DEF Found, Total, SqlFound
  <2>3. Matching(q) = {n \in all : MatchesOne(n, q.words)}
    <3>1. \A n, w : Matches(n, w) => Liked(n, w)
      BY DEF Matches, Liked
    <3> QED
      BY <1>5, <3>1 DEF Matching, MatchesOne, Candidates
  <2>4. /\ newest \subseteq all
        /\ Cardinality(all) <= CandidateLimit => newest = all
        /\ \A n \in all \ newest, m \in newest : <<m, n>> \in SqlOrder
    BY <1>1, <2>1, NewestAreLiked
  <2>5. AllScored(q) => Cardinality(all) <= CandidateLimit
    BY <1>5 DEF AllScored
  <2> HIDE DEF found, newest, all
  <2>6. found \subseteq Matching(q) /\ (AllScored(q) => found = Matching(q))
    BY <2>2, <2>3, <2>4, <2>5
  <2>7. \A n \in Matching(q) \ found, m \in found : <<m, n>> \in SqlOrder
    BY <2>2, <2>3, <2>4
  <2>8. AllScored(q) /\ (backend = "sqlite" => Candidates(q) \subseteq Matching(q)) =>
          Cardinality(found) = Total(listed, backend, q)
    <3> SUFFICES ASSUME AllScored(q), Candidates(q) \subseteq Matching(q)
                 PROVE  Cardinality(found) = Total(listed, backend, q)
      BY <1>5
    <3>1. found = all
      BY <2>3, <2>6 DEF all
    <3> QED
      BY <2>2, <3>1
  <2> QED
    BY <2>6, <2>7, <2>8 DEF FoundMatches, found
<1> QED
  BY <1>1, <1>3, <1>4, <1>5

\* ResultNow for the answer that a reader holds.
LEMMA AnswerHeld ==
  ASSUME ServerInv, ViewInv, view.answer.ok
  PROVE  LET q == view.query
             a == view.answer
             last == PagesFor(Total(listed, backend, q), ClampSize(q.size))
         IN  /\ IsQuery(q)
             /\ a.total = Total(listed, backend, q)
             /\ a.group = Live(listed, q.audience, q.group).group
             /\ a.facets = Live(listed, q.audience, q.group).facets
             /\ a.pages = last
             /\ a.page \in 1 .. last
             /\ a.items = PageOf(Ordered(listed, backend, today, q), a.page, ClampSize(q.size))
<1> DEFINE last(q) == PagesFor(Total(listed, backend, q), ClampSize(q.size))
           Held(q, r) ==
             /\ r.total = Total(listed, backend, q)
             /\ r.group = Live(listed, q.audience, q.group).group
             /\ r.facets = Live(listed, q.audience, q.group).facets
             /\ r.pages = last(q)
             /\ r.page \in 1 .. last(q)
             /\ r.items = PageOf(Ordered(listed, backend, today, q), r.page, ClampSize(q.size))
<1>1. ASSUME NEW q, IsQuery(q), NEW page \in Int
      PROVE  Held(q, Result(listed, backend, today, q, page))
  BY <1>1, ResultNow
<1>2. IsQuery(view.query)
      /\ \E page \in Int : view.answer = Result(listed, backend, today, view.query, page)
  BY DEF ViewInv
<1> HIDE DEF Held
<1>3. Held(view.query, view.answer)
  BY <1>1, <1>2
<1> QED
  BY <1>2, <1>3 DEF Held

\* Every notice found is on one page, at one place.
LEMMA PagesHoldAll ==
  ASSUME ServerInv, ViewInv, Complete(view)
  PROVE  /\ \A i, j \in DOMAIN view.pages :
              \A k \in DOMAIN view.pages[i], l \in DOMAIN view.pages[j] :
                <<i, k>> # <<j, l>> => view.pages[i][k] # view.pages[j][l]
         /\ Seen(view) = Found(listed, backend, view.query)
         /\ view.answer.total = Total(listed, backend, view.query)
<1> DEFINE q == view.query
           size == ClampSize(q.size)
           total == Total(listed, backend, q)
           last == PagesFor(total, size)
           ordered == Ordered(listed, backend, today, q)
<1>1. view.answer.ok /\ IsQuery(q) /\ DOMAIN view.pages = 1 .. view.answer.pages
  BY DEF Complete, ViewInv
<1>3. view.answer.total = total /\ view.answer.pages = last
  BY <1>1, AnswerHeld
<1>4. \A i \in DOMAIN view.pages : view.pages[i] = PageOf(ordered, i, size)
  BY <1>1 DEF ViewInv
<1>5. listed \in SUBSET Notices /\ today \in Days
  BY DEF ServerInv
<1>6. size \in Nat \ {0}
  BY <1>1, SizeTyped DEF IsQuery
<1>7. /\ total \in Nat /\ Len(ordered) <= total /\ ordered \in Seq(Notices)
      /\ ToSet(ordered) = Found(listed, backend, q)
  BY <1>1, <1>5, OrderedLists
<1>8. \A x, y \in 1 .. Len(ordered) : x # y => ordered[x] # ordered[y]
  BY <1>1, <1>5, OrderedLists
<1>9. last \in Nat \ {0} /\ total <= last * size
  BY <1>6, <1>7, PageCount
<1>10. \A i \in Nat \ {0} : \A k : k \in DOMAIN PageOf(ordered, i, size)
                                  <=> k \in 1 .. size /\ (i - 1) * size + k <= Len(ordered)
  BY <1>1, PageNow
<1>11. \A i \in Nat \ {0} : \A k \in DOMAIN PageOf(ordered, i, size) :
         /\ (i - 1) * size + k \in 1 .. Len(ordered)
         /\ PageOf(ordered, i, size)[k] = ordered[(i - 1) * size + k]
  BY <1>1, PageNow
<1> HIDE DEF q, size, total, last, ordered
<1>12. DOMAIN view.pages = 1 .. last /\ \A i \in DOMAIN view.pages : i \in Nat \ {0}
  BY <1>1, <1>3, <1>9
<1>13. \A i \in DOMAIN view.pages : \A k \in DOMAIN view.pages[i] :
         /\ k \in 1 .. size /\ (i - 1) * size + k \in 1 .. Len(ordered)
         /\ view.pages[i][k] = ordered[(i - 1) * size + k]
  BY <1>4, <1>10, <1>11, <1>12
<1>14. ASSUME NEW i \in DOMAIN view.pages, NEW j \in DOMAIN view.pages,
              NEW k \in DOMAIN view.pages[i], NEW l \in DOMAIN view.pages[j],
              view.pages[i][k] = view.pages[j][l]
       PROVE  <<i, k>> = <<j, l>>
  <2>1. /\ i \in Nat \ {0} /\ j \in Nat \ {0} /\ k \in 1 .. size /\ l \in 1 .. size
    BY <1>12, <1>13
  <2> DEFINE x == (i - 1) * size + k
             y == (j - 1) * size + l
  <2>2. x \in 1 .. Len(ordered) /\ y \in 1 .. Len(ordered) /\ ordered[x] = ordered[y]
    BY <1>13, <1>14
  <2>3. x = y
    <3> HIDE DEF x, y
    <3> QED
      BY <1>8, <2>2
  <2>4. \A a, b \in Nat \ {0} : \A c, d \in 1 .. size :
          (a - 1) * size + c = (b - 1) * size + d => a = b /\ c = d
    BY <1>6, PlacesDiffer
  <2>5. i = j /\ k = l
    BY <2>1, <2>3, <2>4
  <2> QED
    BY <2>5
<1>15. \A n \in Seen(view) : n \in ToSet(ordered)
  <2> SUFFICES ASSUME NEW n \in Seen(view) PROVE n \in ToSet(ordered)
    OBVIOUS
  <2>1. PICK i \in DOMAIN view.pages : n \in ToSet(view.pages[i])
    BY DEF Seen
  <2>2. PICK k \in DOMAIN view.pages[i] : n = view.pages[i][k]
    BY <2>1 DEF ToSet
  <2>3. \E x \in 1 .. Len(ordered) : n = ordered[x]
    BY <1>13, <2>2
  <2> QED
    BY <1>7, <2>3 DEF ToSet
<1>16. \A n \in ToSet(ordered) : n \in Seen(view)
  <2> SUFFICES ASSUME NEW n \in ToSet(ordered) PROVE n \in Seen(view)
    OBVIOUS
  <2>1. PICK x \in 1 .. Len(ordered) : n = ordered[x]
    BY <1>7 DEF ToSet
  <2>2. x \in Nat \ {0} /\ x <= last * size
    <3> DEFINE places == last * size
    <3>1. places \in Nat /\ total <= places
      BY <1>6, <1>9
    <3> HIDE DEF places
    <3>2. x \in Nat \ {0} /\ x <= places
      BY <1>7, <3>1
    <3> QED
      BY <3>2 DEF places
  <2>3. PICK i \in 1 .. last, k \in 1 .. size : x = (i - 1) * size + k
    BY <1>6, <1>9, <2>2, PlacesAreFound
  <2>4. i \in DOMAIN view.pages /\ i \in Nat \ {0}
    BY <1>12
  <2>5. k \in DOMAIN view.pages[i]
    BY <1>4, <1>7, <1>10, <2>1, <2>3, <2>4
  <2>6. view.pages[i][k] = n
    BY <1>13, <2>1, <2>3, <2>4, <2>5
  <2>7. n \in ToSet(view.pages[i])
    BY <2>5, <2>6 DEF ToSet
  <2> QED
    BY <2>4, <2>7 DEF Seen
<1>17. \A i, j \in DOMAIN view.pages :
         \A k \in DOMAIN view.pages[i], l \in DOMAIN view.pages[j] :
           <<i, k>> # <<j, l>> => view.pages[i][k] # view.pages[j][l]
  <2> SUFFICES ASSUME NEW i \in DOMAIN view.pages, NEW j \in DOMAIN view.pages,
                      NEW k \in DOMAIN view.pages[i], NEW l \in DOMAIN view.pages[j],
                      view.pages[i][k] = view.pages[j][l]
               PROVE  <<i, k>> = <<j, l>>
    OBVIOUS
  <2> QED
    BY <1>14
<1>18. Seen(view) = Found(listed, backend, view.query)
  BY <1>7, <1>15, <1>16 DEF q
<1> QED
  BY <1>3, <1>17, <1>18 DEF q, total

LEMMA InvWalks == Inv => WalksAreComplete
<1> SUFFICES ASSUME Inv, Complete(view) PROVE WalksAreComplete
  BY DEF WalksAreComplete
<1> DEFINE q == view.query
<1>1. ServerInv /\ ViewInv /\ IsQuery(q)
  BY DEF Inv, ViewInv, Complete
<1>2. /\ Seen(view) = Found(listed, backend, q)
      /\ view.answer.total = Total(listed, backend, q)
  BY <1>1, PagesHoldAll
<1>3. FoundMatches(q)
  BY <1>1, FoundAreMatching
<1>4. \A i, j \in DOMAIN view.pages :
        \A k \in DOMAIN view.pages[i], l \in DOMAIN view.pages[j] :
          <<i, k>> # <<j, l>> => view.pages[i][k] # view.pages[j][l]
  BY <1>1, PagesHoldAll
<1> HIDE DEF q
<1>5. /\ Seen(view) \subseteq Matching(q)
      /\ AllScored(q) => Seen(view) = Matching(q)
      /\ \A n \in Matching(q) \ Seen(view), m \in Seen(view) : <<m, n>> \in SqlOrder
      /\ AllScored(q) /\ (backend = "sqlite" => Candidates(q) \subseteq Matching(q)) =>
           Cardinality(Seen(view)) = view.answer.total
  BY <1>2, <1>3 DEF FoundMatches
<1> QED
  BY <1>4, <1>5 DEF WalksAreComplete, q

LEMMA InvOffers == Inv => OffersFindSomething
<1> SUFFICES ASSUME Inv, view.narrowed, view.answer.ok PROVE view.answer.items # << >>
  BY DEF OffersFindSomething
<1> DEFINE q == view.query
           a == view.answer
           size == ClampSize(q.size)
           total == Total(listed, backend, q)
           last == PagesFor(total, size)
           ordered == Ordered(listed, backend, today, q)
<1>1. ServerInv /\ IsQuery(q) /\ q.words = {} /\ Found(listed, backend, q) # {}
  BY DEF Inv, ViewInv
<1>3. a.page \in 1 .. last /\ a.items = PageOf(ordered, a.page, size)
  BY AnswerHeld DEF Inv
<1>4. listed \in SUBSET Notices /\ today \in Days
  BY <1>1 DEF ServerInv
<1>5. /\ total = Cardinality(Found(listed, backend, q))
      /\ IsFiniteSet(Found(listed, backend, q)) /\ total \in Nat
  <2>1. total = Cardinality(Found(listed, backend, q))
    BY <1>1, <1>4, FoundWithoutWords
  <2>2. IsFiniteSet(Found(listed, backend, q)) /\ Cardinality(Found(listed, backend, q)) \in Nat
    BY <1>4, SelectedIsFinite
  <2> QED
    BY <2>1, <2>2
<1>6. total # 0
  BY <1>1, <1>5, FS_EmptySet
<1>7. Len(ordered) = total
  BY <1>1, <1>4, <1>5, OrderedLists
<1>8. size \in Nat \ {0}
  BY <1>1, SizeTyped DEF IsQuery
<1>9. last \in Nat \ {0} /\ (last - 1) * size < total
  BY <1>5, <1>6, <1>8, PageCount
<1>10. \A i \in Nat \ {0} : \A k : k \in DOMAIN PageOf(ordered, i, size)
                                  <=> k \in 1 .. size /\ (i - 1) * size + k <= Len(ordered)
  BY <1>1, PageNow
<1> HIDE DEF q, a, size, total, last, ordered
<1> DEFINE i == a.page
<1>11. i \in Nat \ {0} /\ i <= last
  BY <1>3, <1>9
<1> HIDE DEF i
<1>12. (i - 1) * size <= (last - 1) * size
  <2>1. last - i \in Nat
    BY <1>9, <1>11
  <2>2. (last - i) * size \in Nat
    BY <1>8, <2>1
  <2>3. (last - 1) * size = (i - 1) * size + (last - i) * size
    BY <1>8, <1>9, <1>11
  <2> DEFINE x == (last - 1) * size
             y == (i - 1) * size
             z == (last - i) * size
  <2>4. x \in Int /\ y \in Int /\ z \in Nat /\ x = y + z
    BY <1>8, <1>9, <1>11, <2>2, <2>3
  <2> HIDE DEF x, y, z
  <2>5. y <= x
    BY <2>4
  <2> QED
    BY <2>5 DEF x, y
<1> DEFINE b == (i - 1) * size
           e == (last - 1) * size
<1>13. b \in Int /\ e \in Int /\ b <= e /\ e < total
  BY <1>8, <1>9, <1>11, <1>12
<1> HIDE DEF b, e
<1>14. b + 1 <= Len(ordered)
  BY <1>5, <1>7, <1>13
<1>15. 1 \in 1 .. size
  BY <1>8
<1>16. 1 \in DOMAIN PageOf(ordered, i, size)
  BY <1>10, <1>11, <1>14, <1>15 DEF b
<1>17. 1 \in DOMAIN a.items
  BY <1>3, <1>16 DEF i
<1> QED
  BY <1>17 DEF a

LEMMA InvAgree == Inv => AnswersAgree
<1> DEFINE q == view.query
           resolved == [group |-> view.answer.group, facets |-> view.answer.facets]
           scope == OfGroup(OfAudience(listed, q.audience), resolved.group)
<1> SUFFICES ASSUME Inv, view.answer.ok
             PROVE  /\ resolved = ListFacets(listed, q.audience, q.group)
                    /\ resolved = LiveFacets(db, q.audience, q.group)
                    /\ q.words = {} /\ q.target = None =>
                         /\ Selected(db, q, resolved.group) = Filtered(scope, q)
                         /\ view.answer.total = Cardinality(Filtered(scope, q))
  BY DEF AnswersAgree
<1>1. ServerInv /\ IsQuery(q)
  BY DEF Inv, ViewInv
<1>2. listed \in SUBSET Notices /\ db = RowsOf(listed)
  BY <1>1 DEF ServerInv
<1>3. /\ view.answer.group = Live(listed, q.audience, q.group).group
      /\ view.answer.facets = Live(listed, q.audience, q.group).facets
      /\ view.answer.total = Total(listed, backend, q)
  BY AnswerHeld DEF Inv
<1>4. resolved = Live(listed, q.audience, q.group) /\ resolved.group = Group(listed, q)
  BY <1>3 DEF Live, Group
<1>5. resolved = ListFacets(listed, q.audience, q.group)
      /\ resolved = LiveFacets(db, q.audience, q.group)
  BY <1>2, <1>4, ListFacetsIs, LiveFacetsIs
<1>6. ASSUME q.words = {}, q.target = None
      PROVE  /\ Selected(db, q, resolved.group) = Filtered(scope, q)
             /\ view.answer.total = Cardinality(Filtered(scope, q))
  <2>1. Selected(db, q, resolved.group) = Passing(listed, q, None)
    BY <1>2, <1>4, <1>6, SelectedIs DEF Passing
  <2>2. Filtered(scope, q) = JsonFound(listed, q)
    <3> HIDE DEF q, resolved
    <3>1. Filtered(scope, q) = {n \in listed : /\ Where(n, q, resolved.group, None)
                                             /\ Cardinality({w \in q.words : MatchesExactly(n, w)})
                                                  >= Least(2, Cardinality(q.words))}
      BY FilteredIs
    <3> QED
      BY <1>4, <3>1 DEF JsonFound
  <2>3. \A b : Found(listed, b, q) = Passing(listed, q, None)
              /\ Total(listed, b, q) = Cardinality(Passing(listed, q, None))
    BY <1>2, <1>6, FoundWithoutWords
  <2>4. JsonFound(listed, q) = Passing(listed, q, None)
    <3>1. Found(listed, "json", q) = JsonFound(listed, q)
      BY DEF Found
    <3> QED
      BY <2>3, <3>1
  <2> QED
    BY <1>3, <2>1, <2>2, <2>3, <2>4
<1> QED
  BY <1>5, <1>6

\* Whoever has seen every page of a query has seen exactly the notices that match its
\* filters and its words, each once, whatever the list, the page size and the order of
\* the pages; if more are candidates than are scored, only such that come later in the
\* order of the database are missing (_paginate_no_query, _search_with_query,
\* _apply_text_filter, filter_notices, list_notices).
THEOREM PagesShowEverythingOnce == Spec => []WalksAreComplete
<1> QED
  BY InvHolds, InvWalks, PTL

\* A filter value that an answer offered finds something (_resolve_facets).
THEOREM OfferedFiltersFind == Spec => []OffersFindSomething
<1> QED
  BY InvHolds, InvOffers, PTL

\* Stored facets, facets computed from the rows and facets of the JSON list are the
\* same, and without words and target the clauses of the SQL path and the filters of
\* the JSON path select the same notices of any list (_facets_from_cache,
\* _compute_facets_live, _build_main_where, legacy_search).
THEOREM BackendsAgree == Spec => []AnswersAgree
<1> QED
  BY InvHolds, InvAgree, PTL

\* The database gives the chat no notice labeled for others than its user
\* (find_relevant_notices).
THEOREM EvidenceIsForTheUser == Spec => []EvidenceSuitsTheUser
<1>1. Inv => EvidenceSuitsTheUser
  BY DEF Inv, HuntInv
<1> QED
  BY <1>1, InvHolds, PTL

=============================================================================
