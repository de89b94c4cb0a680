-------------------------- MODULE BoardCrawlProofs --------------------------
(***************************************************************************)
(* Proofs about BoardCrawl, for any boards, notices, page length, windows  *)
(* and bounds: the crawler's state is well formed; however notices are     *)
(* cross-posted, re-titled and re-crawled, each is stored once; a crawl    *)
(* that stops early loses nothing (the second part of the module); and     *)
(* edits of recent notices reach the store (the third).                    *)
(***************************************************************************)
EXTENDS BoardCrawl, FiniteSetTheorems, SequenceTheorems, TLAPS

------------------------------------------------------------------------------
(* Lists in an order *)

\* A strict total order of the elements of S.
Strict(R, S) ==
  /\ \A x \in S : <<x, x>> \notin R
  /\ \A x, y, z \in S : <<x, y>> \in R /\ <<y, z>> \in R => <<x, z>> \in R
  /\ \A x, y \in S : x = y \/ <<x, y>> \in R \/ <<y, x>> \in R

Below(R, S, x) == {y \in S : <<y, x>> \in R}

\* Each place of a finite set in an order is taken by one element of it.
LEMMA Ranked ==
  ASSUME NEW R, NEW S, IsFiniteSet(S), Strict(R, S)
  PROVE  /\ Cardinality(S) \in Nat
         /\ \A x \in S : Cardinality(Below(R, S, x)) + 1 \in 1 .. Cardinality(S)
         /\ \A k \in 1 .. Cardinality(S) : \E x \in S : Cardinality(Below(R, S, x)) = k - 1
         /\ \A x, y \in S :
              Cardinality(Below(R, S, x)) = Cardinality(Below(R, S, y)) => x = y
         /\ \A x, y \in S :
              <<x, y>> \in R => Cardinality(Below(R, S, x)) < Cardinality(Below(R, S, y))
<1> DEFINE N == Cardinality(S)
           B(x) == Below(R, S, x)
           place == [x \in S |-> Cardinality(B(x)) + 1]
<1>1. IsFiniteSet(S) /\ N \in Nat
  BY FS_CardinalityType
<1>b. /\ \A x, y \in S : y \in B(x) <=> <<y, x>> \in R
      /\ \A x \in S : B(x) \subseteq S
  BY DEF Below
<1>2. \A x \in S : IsFiniteSet(B(x)) /\ Cardinality(B(x)) \in Nat
  BY <1>1, <1>b, FS_Subset, FS_CardinalityType
<1>a. \A x \in S : place[x] = Cardinality(B(x)) + 1
  OBVIOUS
<1> HIDE DEF place, B, N
<1>3. ASSUME NEW x \in S PROVE place[x] \in 1 .. N
  <2>1. IsFiniteSet(S \ {x}) /\ Cardinality(S \ {x}) = N - 1
    BY <1>1, FS_RemoveElement DEF N
  <2>2. B(x) \in SUBSET (S \ {x})
    BY <1>b DEF Strict
  <2>3. Cardinality(B(x)) <= N - 1
    BY <2>1, <2>2, FS_Subset
  <2> QED
    BY <2>3, <1>2, <1>1, <1>a
<1>4. ASSUME NEW x \in S, NEW y \in S, <<x, y>> \in R PROVE place[x] < place[y]
  <2>1. B(x) \cup {x} \in SUBSET B(y)
    BY <1>4, <1>b DEF Strict
  <2>2. x \notin B(x)
    BY <1>b DEF Strict
  <2>3. Cardinality(B(x) \cup {x}) = Cardinality(B(x)) + 1
    BY <1>2, <2>2, FS_AddElement
  <2>4. Cardinality(B(x) \cup {x}) <= Cardinality(B(y))
    BY <1>2, <2>1, FS_Subset
  <2> QED
    BY <2>3, <2>4, <1>2, <1>a
<1>5. \A x, y \in S : x # y => place[x] # place[y]
  <2>1. \A x \in S : place[x] \in Nat
    BY <1>3, <1>1
  <2>2. \A x, y \in S : x = y \/ <<x, y>> \in R \/ <<y, x>> \in R
    BY DEF Strict
  <2>3. \A x, y \in S : <<x, y>> \in R => place[x] # place[y]
    BY <1>4, <2>1
  <2> QED
    BY <2>2, <2>3
<1>6. place \in Surjection(S, 1 .. N)
  <2>1. place \in [S -> 1 .. N]
    BY <1>3 DEF place
  <2>2. place \in Injection(S, 1 .. N)
    BY <2>1, <1>5 DEF Injection, IsInjective
  <2>3. IsFiniteSet(1 .. N) /\ Cardinality(1 .. N) = N
    BY <1>1, FS_Interval
  <2> QED
    BY <2>2, <2>3, FS_Injection DEF N
<1>7. \A k \in 1 .. N : \E x \in S : place[x] = k
  BY <1>6 DEF Surjection
<1>8. \A k \in 1 .. N : \E x \in S : Cardinality(B(x)) = k - 1
  BY <1>7, <1>2, <1>a
<1>9. \A x \in S : Cardinality(B(x)) + 1 \in 1 .. N
  BY <1>3, <1>a
<1>10. \A x, y \in S : Cardinality(B(x)) = Cardinality(B(y)) => x = y
  BY <1>5, <1>a
<1>11. ASSUME NEW x \in S, NEW y \in S, <<x, y>> \in R
       PROVE  Cardinality(B(x)) < Cardinality(B(y))
  BY <1>11, <1>4, <1>2, <1>a
<1> QED
  BY <1>1, <1>8, <1>9, <1>10, <1>11 DEF N, B

\* What Picked lists: the elements at the given places, each once and in order.
LEMMA PickedIs ==
  ASSUME NEW X, NEW s \in Seq(X), NEW places \in SUBSET (DOMAIN s)
  PROVE  LET r == Picked(s, places)
         IN  /\ r \in Seq(X)
             /\ \E place \in [DOMAIN r -> places] :
                  /\ \A k \in DOMAIN r : r[k] = s[place[k]]
                  /\ \A k, l \in DOMAIN r : place[k] = place[l] => k = l
                  /\ \A i \in places : \E k \in DOMAIN r : place[k] = i
                  /\ \A k, l \in DOMAIN r : k < l => place[k] < place[l]
<1> DEFINE R == {p \in places \X places : p[1] < p[2]}
           N == Cardinality(places)
           C(i) == {j \in places : j < i}
           place == [k \in 1 .. N |-> CHOOSE i \in places : Cardinality(C(i)) = k - 1]
           r == Picked(s, places)
<1>1. IsFiniteSet(places) /\ places \subseteq Nat
  <2>1. DOMAIN s = 1 .. Len(s) /\ Len(s) \in Nat
    OBVIOUS
  <2>2. IsFiniteSet(1 .. Len(s))
    BY <2>1, FS_Interval
  <2> QED
    BY <2>1, <2>2, FS_Subset
<1>2. Strict(R, places)
  <2>1. \A x, y \in places : <<x, y>> \in R <=> x < y
    OBVIOUS
  <2>2. \A x \in places : x \in Nat
    BY <1>1
  <2> HIDE DEF R
  <2>3. \A x \in places : <<x, x>> \notin R
    BY <2>1, <2>2
  <2>4. ASSUME NEW x \in places, NEW y \in places, NEW z \in places,
               <<x, y>> \in R, <<y, z>> \in R
        PROVE  <<x, z>> \in R
    BY <2>4, <2>1, <2>2
  <2>5. ASSUME NEW x \in places, NEW y \in places
        PROVE  x = y \/ <<x, y>> \in R \/ <<y, x>> \in R
    BY <2>1, <2>2
  <2> QED
    BY <2>3, <2>4, <2>5 DEF Strict
<1>3. \A i \in places : C(i) = Below(R, places, i)
  BY DEF Below
<1>4. /\ N \in Nat
      /\ \A i \in places : Cardinality(C(i)) + 1 \in 1 .. N
      /\ \A k \in 1 .. N : \E i \in places : Cardinality(C(i)) = k - 1
      /\ \A i, j \in places : Cardinality(C(i)) = Cardinality(C(j)) => i = j
      /\ \A i, j \in places : i < j => Cardinality(C(i)) < Cardinality(C(j))
  <2>1. \A i, j \in places : i < j => <<i, j>> \in R
    OBVIOUS
  <2> HIDE DEF R, C
  <2>2. /\ N \in Nat
        /\ \A i \in places : Cardinality(Below(R, places, i)) + 1 \in 1 .. N
        /\ \A k \in 1 .. N : \E i \in places : Cardinality(Below(R, places, i)) = k - 1
        /\ \A i, j \in places :
             Cardinality(Below(R, places, i)) = Cardinality(Below(R, places, j)) => i = j
        /\ \A i, j \in places :
             <<i, j>> \in R =>
               Cardinality(Below(R, places, i)) < Cardinality(Below(R, places, j))
    BY Ranked, <1>1, <1>2 DEF N
  <2> HIDE DEF N
  <2> QED
    BY <2>1, <2>2, <1>3
<1>5. r = [k \in 1 .. N |-> s[place[k]]]
  BY DEF Picked
<1>p. place = [k \in 1 .. N |-> CHOOSE i \in places : Cardinality(C(i)) = k - 1]
  OBVIOUS
<1> HIDE DEF C, place, N, r
<1>6. ASSUME NEW k \in 1 .. N PROVE place[k] \in places /\ Cardinality(C(place[k])) = k - 1
  BY <1>4, <1>p
<1>7. place \in [1 .. N -> places]
  BY <1>6, <1>p
<1>8. r \in Seq(X) /\ DOMAIN r = 1 .. N
  <2>1. \A k \in 1 .. N : s[place[k]] \in X
    <3>1. \A i \in places : s[i] \in X
      OBVIOUS
    <3> QED
      BY <1>6, <3>1
  <2>2. r \in [1 .. N -> X]
    BY <2>1, <1>5
  <2> QED
    BY <2>2, <1>4
<1>9. \A k \in 1 .. N : r[k] = s[place[k]]
  BY <1>5
<1>10. \A k, l \in 1 .. N : place[k] = place[l] => k = l
  BY <1>6
<1>11. ASSUME NEW i \in places PROVE \E k \in 1 .. N : place[k] = i
  <2> DEFINE k == Cardinality(C(i)) + 1
  <2>1. k \in 1 .. N
    BY <1>4
  <2>2. Cardinality(C(place[k])) = Cardinality(C(i))
    <3>1. Cardinality(C(i)) \in Nat
      <4>1. C(i) \subseteq places
        BY DEF C
      <4> QED
        BY <4>1, <1>1, FS_Subset, FS_CardinalityType
    <3>2. Cardinality(C(place[k])) = k - 1
      BY <2>1, <1>6
    <3> QED
      BY <3>1, <3>2
  <2> QED
    BY <2>1, <2>2, <1>6, <1>4
<1>o. ASSUME NEW k \in 1 .. N, NEW l \in 1 .. N, k < l PROVE place[k] < place[l]
  <2>1. place[k] \in Nat /\ place[l] \in Nat
    BY <1>6, <1>1
  <2>2. Cardinality(C(place[k])) = k - 1 /\ Cardinality(C(place[l])) = l - 1
    BY <1>6
  <2>3. place[k] # place[l]
    BY <1>10, <1>o, <1>4
  <2>4. ~(place[l] < place[k])
    <3>1. SUFFICES ASSUME place[l] < place[k] PROVE FALSE
      OBVIOUS
    <3>2. Cardinality(C(place[l])) < Cardinality(C(place[k]))
      BY <3>1, <1>4, <1>6
    <3> QED
      BY <3>2, <2>2, <1>o, <1>4
  <2> QED
    BY <2>1, <2>3, <2>4
<1>12. /\ \A k \in DOMAIN r : r[k] = s[place[k]]
       /\ \A k, l \in DOMAIN r : place[k] = place[l] => k = l
       /\ \A i \in places : \E k \in DOMAIN r : place[k] = i
       /\ \A k, l \in DOMAIN r : k < l => place[k] < place[l]
  BY <1>8, <1>9, <1>10, <1>11, <1>o
<1>13. place \in [DOMAIN r -> places]
  BY <1>7, <1>8
<1>14. /\ r \in Seq(X)
       /\ \E p \in [DOMAIN r -> places] :
            /\ \A k \in DOMAIN r : r[k] = s[p[k]]
            /\ \A k, l \in DOMAIN r : p[k] = p[l] => k = l
            /\ \A i \in places : \E k \in DOMAIN r : p[k] = i
            /\ \A k, l \in DOMAIN r : k < l => p[k] < p[l]
  BY <1>8, <1>12, <1>13
<1> QED
  BY <1>14 DEF r

On(b) == ToSet(lists[b])

\* u comes before v in the list of board b.
Before(b, u, v) ==
  \E i, j \in DOMAIN lists[b] : i < j /\ lists[b][i] = u /\ lists[b][j] = v

\* The notices of a board are ordered by its list, and by the order it shows.
LEMMA BoardOrders ==
  ASSUME NEW b, lists[b] \in Seq(Url), IsInjective(lists[b])
  PROVE  /\ IsFiniteSet(On(b)) /\ On(b) \subseteq Url
         /\ \A u \in On(b) : ~Before(b, u, u)
         /\ \A u, v, w \in On(b) : Before(b, u, v) /\ Before(b, v, w) => Before(b, u, w)
         /\ \A u, v \in On(b) : u = v \/ Before(b, u, v) \/ Before(b, v, u)
         /\ \A u \in On(b) : ~Above(b, u, u)
         /\ \A u, v, w \in On(b) : Above(b, u, v) /\ Above(b, v, w) => Above(b, u, w)
         /\ \A u, v \in On(b) : u = v \/ Above(b, u, v) \/ Above(b, v, u)
<1> DEFINE s == lists[b]
           D == DOMAIN s
           Bf(u, v) == \E i, j \in D : i < j /\ s[i] = u /\ s[j] = v
<1>1. /\ D = 1 .. Len(s) /\ Len(s) \in Nat
      /\ \A i, j \in D : s[i] = s[j] => i = j
      /\ \A u \in On(b) : \E i \in D : s[i] = u
      /\ On(b) \subseteq Url
  BY DEF IsInjective, ToSet, On
<1>2. IsFiniteSet(On(b))
  <2>1. s \in [1 .. Len(s) -> On(b)] /\ s \in Surjection(1 .. Len(s), On(b))
    BY <1>1 DEF ToSet, Surjection, On
  <2>2. IsFiniteSet(1 .. Len(s))
    <3>1. Len(s) \in Nat
      BY <1>1
    <3> QED
      BY <3>1, FS_Interval
  <2> QED
    BY <2>1, <2>2, FS_Surjection
<1>3. \A i \in D : i \in Nat
  BY <1>1
<1>b. \A u, v : Before(b, u, v) <=> Bf(u, v)
  BY DEF Before
<1>a. \A u, v : Above(b, u, v) <=>
        IF u \in pinned <=> v \in pinned THEN Bf(u, v) ELSE u \in pinned
  BY DEF Above
<1> HIDE DEF s, D
<1>4. ASSUME NEW u, NEW i \in D, NEW j \in D, i < j, s[i] = u, s[j] = u PROVE FALSE
  BY <1>1, <1>3, <1>4
<1>5. ASSUME NEW u, NEW v, NEW w,
             NEW i \in D, NEW j \in D, i < j, s[i] = u, s[j] = v,
             NEW k \in D, NEW l \in D, k < l, s[k] = v, s[l] = w
      PROVE  i < l
  BY <1>1, <1>3, <1>5
<1>6. ASSUME NEW u \in On(b), NEW v \in On(b)
      PROVE  u = v \/ \E i, j \in D : i < j /\ ((s[i] = u /\ s[j] = v) \/ (s[i] = v /\ s[j] = u))
  <2>1. PICK i \in D : s[i] = u
    BY <1>1
  <2>2. PICK j \in D : s[j] = v
    BY <1>1
  <2>3. i = j \/ i < j \/ j < i
    BY <1>3
  <2> QED
    BY <2>1, <2>2, <2>3
<1>7. \A u \in On(b) : ~Bf(u, u)
  BY <1>4
<1>8. \A u, v, w \in On(b) : Bf(u, v) /\ Bf(v, w) => Bf(u, w)
  BY <1>5
<1>9. \A u, v \in On(b) : u = v \/ Bf(u, v) \/ Bf(v, u)
  BY <1>6
<1> HIDE DEF Bf
<1>10. \A u \in On(b) : ~Above(b, u, u)
  BY <1>7, <1>a
<1>11. \A u, v, w \in On(b) : Above(b, u, v) /\ Above(b, v, w) => Above(b, u, w)
  BY <1>8, <1>a
<1>12. \A u, v \in On(b) : u = v \/ Above(b, u, v) \/ Above(b, v, u)
  BY <1>9, <1>a
<1> QED
  BY <1>1, <1>2, <1>b, <1>7, <1>8, <1>9, <1>10, <1>11, <1>12

\* What Listed lists: the given notices of the board, in the order it shows.
LEMMA ListedIs ==
  ASSUME NEW b, lists[b] \in Seq(Url), IsInjective(lists[b]), NEW urls \in SUBSET On(b)
  PROVE  LET r == Listed(b, urls)
         IN  /\ r \in Seq(urls)
             /\ \A u \in urls : \E k \in DOMAIN r : r[k] = u
             /\ \A k, l \in DOMAIN r : k < l => Above(b, r[k], r[l])
<1> DEFINE R == {p \in urls \X urls : Above(b, p[1], p[2])}
           N == Cardinality(urls)
           C(u) == {v \in urls : Above(b, v, u)}
           r == Listed(b, urls)
<1>1. IsFiniteSet(urls)
  BY BoardOrders, FS_Subset
<1>2. \A u, v \in urls : <<u, v>> \in R <=> Above(b, u, v)
  OBVIOUS
<1>3. \A u \in urls : C(u) = Below(R, urls, u)
  BY DEF Below
<1>4. r = [k \in 1 .. N |-> CHOOSE u \in urls : Cardinality(C(u)) = k - 1]
  BY DEF Listed
<1>5. \A u \in urls : C(u) \subseteq urls
  OBVIOUS
<1> HIDE DEF R, C, r, N
<1>6. Strict(R, urls)
  <2>1. \A x \in urls : <<x, x>> \notin R
    BY BoardOrders, <1>2
  <2>2. \A x, y \in urls : x = y \/ <<x, y>> \in R \/ <<y, x>> \in R
    BY BoardOrders, <1>2
  <2>3. \A x, y, z \in urls : <<x, y>> \in R /\ <<y, z>> \in R => <<x, z>> \in R
    BY BoardOrders, <1>2
  <2> QED
    BY <2>1, <2>2, <2>3 DEF Strict
<1>7. /\ N \in Nat
      /\ \A u \in urls : Cardinality(C(u)) + 1 \in 1 .. N
      /\ \A k \in 1 .. N : \E u \in urls : Cardinality(C(u)) = k - 1
      /\ \A u, v \in urls : Cardinality(C(u)) = Cardinality(C(v)) => u = v
      /\ \A u, v \in urls : Above(b, u, v) => Cardinality(C(u)) < Cardinality(C(v))
  <2>1. /\ N \in Nat
        /\ \A u \in urls : Cardinality(Below(R, urls, u)) + 1 \in 1 .. N
        /\ \A k \in 1 .. N : \E u \in urls : Cardinality(Below(R, urls, u)) = k - 1
        /\ \A u, v \in urls :
             Cardinality(Below(R, urls, u)) = Cardinality(Below(R, urls, v)) => u = v
        /\ \A u, v \in urls :
             <<u, v>> \in R =>
               Cardinality(Below(R, urls, u)) < Cardinality(Below(R, urls, v))
    BY Ranked, <1>1, <1>6 DEF N
  <2> QED
    BY <2>1, <1>2, <1>3
<1>8. \A k \in 1 .. N : r[k] \in urls /\ Cardinality(C(r[k])) = k - 1
  BY <1>4, <1>7
<1>9. r \in Seq(urls) /\ DOMAIN r = 1 .. N
  <2>1. r \in [1 .. N -> urls]
    BY <1>4, <1>8
  <2> QED
    BY <2>1, <1>7
<1>10. ASSUME NEW u \in urls PROVE \E k \in DOMAIN r : r[k] = u
  <2> DEFINE k == Cardinality(C(u)) + 1
  <2>1. k \in 1 .. N
    BY <1>7
  <2>2. Cardinality(C(u)) \in Nat
    BY <1>1, <1>5, FS_Subset, FS_CardinalityType
  <2>3. Cardinality(C(r[k])) = Cardinality(C(u))
    <3>1. Cardinality(C(r[k])) = k - 1
      BY <2>1, <1>8
    <3> QED
      BY <3>1, <2>2
  <2> QED
    BY <2>1, <2>3, <1>7, <1>8, <1>9
<1>11. ASSUME NEW k \in 1 .. N, NEW l \in 1 .. N, k < l PROVE Above(b, r[k], r[l])
  <2>1. r[k] \in urls /\ r[l] \in urls
    BY <1>8
  <2>2. Cardinality(C(r[k])) = k - 1 /\ Cardinality(C(r[l])) = l - 1
    BY <1>8
  <2>3. r[k] # r[l]
    BY <2>2, <1>11, <1>7
  <2>4. ~Above(b, r[l], r[k])
    <3> SUFFICES ASSUME Above(b, r[l], r[k]) PROVE FALSE
      OBVIOUS
    <3>1. Cardinality(C(r[l])) < Cardinality(C(r[k]))
      BY <2>1, <1>7
    <3> QED
      BY <3>1, <2>2, <1>11, <1>7
  <2>5. r[k] \in On(b) /\ r[l] \in On(b)
    BY <2>1
  <2> QED
    BY <2>3, <2>4, <2>5, BoardOrders
<1> QED
  BY <1>9, <1>10, <1>11 DEF r

------------------------------------------------------------------------------
(* Merging *)

\* No URL is in two posts.
Apart(posts) ==
  \A i, j \in DOMAIN posts : i # j => UrlsOf(posts[i]) \cap UrlsOf(posts[j]) = {}

TitlesDiffer(posts) ==
  \A i, j \in DOMAIN posts : i # j => posts[i].title # posts[j].title

LEMMA CoveredIs ==
  ASSUME NEW s
  PROVE  \A u : u \in Covered(s) <=> \E i \in DOMAIN s : u \in UrlsOf(s[i])
BY DEF Covered, ToSet

LEMMA ElementsOf ==
  ASSUME NEW X, NEW s \in Seq(X)
  PROVE  DOMAIN s = 1 .. Len(s) /\ Len(s) \in Nat /\ \A i \in DOMAIN s : s[i] \in X
OBVIOUS

\* Picked posts stay apart and typed.
LEMMA PickedPosts ==
  ASSUME NEW posts, IsPostList(posts), NEW places \in SUBSET (DOMAIN posts)
  PROVE  /\ IsPostList(Picked(posts, places))
         /\ Apart(posts) => Apart(Picked(posts, places))
         /\ TitlesDiffer(posts) => TitlesDiffer(Picked(posts, places))
<1> DEFINE r == Picked(posts, places)
<1>1. posts \in Seq(Posts)
  BY DEF IsPostList
<1>2. /\ r \in Seq(Posts)
      /\ \E place \in [DOMAIN r -> places] :
           /\ \A k \in DOMAIN r : r[k] = posts[place[k]]
           /\ \A k, l \in DOMAIN r : place[k] = place[l] => k = l
  BY <1>1, PickedIs
<1> HIDE DEF r
<1>3. PICK place \in [DOMAIN r -> places] :
        /\ \A k \in DOMAIN r : r[k] = posts[place[k]]
        /\ \A k, l \in DOMAIN r : place[k] = place[l] => k = l
  BY <1>2
<1>4. \A k \in DOMAIN r : place[k] \in DOMAIN posts
  BY <1>3
<1>5. IsPostList(r)
  BY <1>2, <1>3, <1>4 DEF IsPostList
<1>6. Apart(posts) => Apart(r)
  BY <1>3, <1>4 DEF Apart
<1>7. TitlesDiffer(posts) => TitlesDiffer(r)
  BY <1>3, <1>4 DEF TitlesDiffer
<1> QED
  BY <1>5, <1>6, <1>7 DEF r

LEMMA MergedByUrlIs ==
  ASSUME NEW posts, IsPostList(posts)
  PROVE  /\ IsPostList(MergedByUrl(posts))
         /\ Apart(posts) => Apart(MergedByUrl(posts))
<1> DEFINE Same(i) == {j \in DOMAIN posts : posts[j].url = posts[i].url}
           Perm(i) == \E j \in Same(i) : posts[j].permanent
           merged == [i \in DOMAIN posts |-> [posts[i] EXCEPT !.permanent = Perm(i)]]
           places == {i \in DOMAIN posts : \A j \in Same(i) : i <= j}
<1>1. posts \in Seq(Posts)
  BY DEF IsPostList
<1>2. /\ DOMAIN posts = 1 .. Len(posts) /\ Len(posts) \in Nat
      /\ \A i \in DOMAIN posts : posts[i] \in Posts
  BY <1>1, ElementsOf
<1>3. \A i \in DOMAIN posts : Perm(i) \in BOOLEAN
  BY Zenon
<1>4. MergedByUrl(posts) = Picked(merged, places)
  BY DEF MergedByUrl
<1>5. merged = [i \in DOMAIN posts |-> [posts[i] EXCEPT !.permanent = Perm(i)]]
  OBVIOUS
<1>6. places \in SUBSET (DOMAIN posts)
  OBVIOUS
<1> HIDE DEF merged, Perm, places
<1>7. DOMAIN merged = DOMAIN posts
  BY <1>5
<1>8. ASSUME NEW i \in DOMAIN posts
      PROVE  /\ merged[i] \in Posts /\ merged[i].url = posts[i].url
             /\ merged[i].title = posts[i].title /\ merged[i].meta = posts[i].meta
  <2>1. merged[i] = [posts[i] EXCEPT !.permanent = Perm(i)]
    BY <1>5
  <2>2. posts[i] \in Posts /\ Perm(i) \in BOOLEAN
    BY <1>2, <1>3
  <2> QED
    BY <2>1, <2>2 DEF Posts
<1>9. IsPostList(merged)
  <2>1. merged \in [1 .. Len(posts) -> Posts]
    BY <1>2, <1>5, <1>7, <1>8
  <2>2. merged \in Seq(Posts)
    BY <2>1, <1>2
  <2> QED
    BY <2>2, <1>7, <1>8 DEF IsPostList
<1>10. Apart(posts) => Apart(merged)
  BY <1>7, <1>8 DEF Apart, UrlsOf
<1> QED
  BY <1>4, <1>6, <1>7, <1>9, <1>10, PickedPosts

LEMMA AbsorbedIs ==
  ASSUME NEW post \in Posts, NEW dups \in SUBSET Posts
  PROVE  /\ Absorbed(post, dups) \in Posts
         /\ Absorbed(post, dups).url = post.url
         /\ Absorbed(post, dups).title = post.title
         /\ UrlsOf(Absorbed(post, dups)) \subseteq UrlsOf(post) \cup {dup.url : dup \in dups}
<1> DEFINE sources == IF post.meta = {} THEN {Entry(post)} ELSE post.meta
           added == {Entry(dup) : dup \in {dup \in dups : \A m \in sources : m.url # dup.url}}
           perm == post.permanent \/ \E dup \in dups : dup.permanent
           all == sources \cup added
           r == [post EXCEPT !.meta = all, !.permanent = perm]
<1>1. Absorbed(post, dups) = IF dups = {} THEN post ELSE r
  BY DEF Absorbed
<1>2. \A p \in Posts : Entry(p) \in Sources /\ Entry(p).url = p.url
  BY DEF Posts, Sources, Entry
<1>3. post.meta \in SUBSET Sources
  BY DEF Posts
<1>4. sources \in SUBSET Sources /\ \A m \in sources : m.url \in UrlsOf(post)
  BY <1>2, <1>3 DEF UrlsOf
<1>5. added \in SUBSET Sources /\ \A m \in added : \E dup \in dups : m.url = dup.url
  BY <1>2
<1>6. perm \in BOOLEAN
  BY Zenon
<1>7. all \in SUBSET Sources
      /\ \A m \in all : m.url \in UrlsOf(post) \cup {dup.url : dup \in dups}
  BY <1>4, <1>5
<1>r. r = [post EXCEPT !.meta = all, !.permanent = perm]
  OBVIOUS
<1> HIDE DEF sources, added, perm, all, r
<1>8. r \in Posts /\ r.url = post.url /\ r.title = post.title /\ r.meta = all
  BY <1>6, <1>7, <1>r DEF Posts
<1>9. post.url \in UrlsOf(post)
  BY DEF UrlsOf
<1>10. UrlsOf(r) \subseteq UrlsOf(post) \cup {dup.url : dup \in dups}
  <2>1. UrlsOf(r) = {post.url} \cup {m.url : m \in all}
    BY <1>8 DEF UrlsOf
  <2> QED
    BY <2>1, <1>7, <1>9
<1> QED
  BY <1>1, <1>8, <1>10

LEMMA MergedByTitleIs ==
  ASSUME NEW posts, IsPostList(posts), Apart(posts)
  PROVE  /\ IsPostList(MergedByTitle(posts))
         /\ Apart(MergedByTitle(posts))
         /\ TitlesDiffer(MergedByTitle(posts))
         /\ Covered(MergedByTitle(posts)) \subseteq Covered(posts)
<1> DEFINE D == DOMAIN posts
           Same(i) == {j \in D : posts[j].title = posts[i].title}
           Dups(i) == {posts[j] : j \in Same(i) \ {i}}
           merged == [i \in D |-> Absorbed(posts[i], Dups(i))]
           places == {i \in D : \A j \in Same(i) : i <= j}
           r == MergedByTitle(posts)
<1>1. posts \in Seq(Posts)
  BY DEF IsPostList
<1>2. D = 1 .. Len(posts) /\ Len(posts) \in Nat /\ \A i \in D : posts[i] \in Posts
  BY <1>1, ElementsOf
<1>3. r = Picked(merged, places)
  BY DEF MergedByTitle
<1>4. places \in SUBSET D
  OBVIOUS
<1>5. \A i \in D : Dups(i) \in SUBSET Posts
  BY <1>2
<1>6. \A i \in D : merged[i] = Absorbed(posts[i], Dups(i))
  OBVIOUS
<1>7. DOMAIN merged = D
  OBVIOUS
<1>8. \A i \in D : \A dup \in Dups(i) : \E j \in Same(i) : dup = posts[j]
  OBVIOUS
<1>9. \A i, j \in D : j \in Same(i) <=> posts[j].title = posts[i].title
  OBVIOUS
<1>10. \A i \in places : \A j \in Same(i) : i <= j
  OBVIOUS
<1>m. merged = [i \in D |-> Absorbed(posts[i], Dups(i))]
  OBVIOUS
<1>d. D = DOMAIN posts
  OBVIOUS
<1> HIDE DEF merged, places, Dups, Same, D, r
<1>11. ASSUME NEW i \in D
       PROVE  /\ merged[i] \in Posts /\ merged[i].url = posts[i].url
              /\ merged[i].title = posts[i].title
              /\ \A u \in UrlsOf(merged[i]) : \E j \in Same(i) : u \in UrlsOf(posts[j])
  <2>1. /\ merged[i] \in Posts /\ merged[i].url = posts[i].url
        /\ merged[i].title = posts[i].title
        /\ UrlsOf(merged[i]) \subseteq UrlsOf(posts[i]) \cup {dup.url : dup \in Dups(i)}
    BY <1>2, <1>5, <1>6, AbsorbedIs
  <2>2. i \in Same(i)
    BY <1>9
  <2>3. ASSUME NEW dup \in Dups(i) PROVE \E j \in Same(i) : dup.url \in UrlsOf(posts[j])
    BY <1>8 DEF UrlsOf
  <2> QED
    BY <2>1, <2>2, <2>3
<1>12. merged \in Seq(Posts)
  <2>1. merged \in [1 .. Len(posts) -> Posts]
    BY <1>2, <1>11, <1>m
  <2> QED
    BY <2>1, <1>2
<1>13. IsPostList(merged)
  BY <1>12, <1>7, <1>11, <1>d DEF IsPostList
<1>14. /\ r \in Seq(Posts)
       /\ \E place \in [DOMAIN r -> places] :
            /\ \A k \in DOMAIN r : r[k] = merged[place[k]]
            /\ \A k, l \in DOMAIN r : place[k] = place[l] => k = l
  <2>1. places \in SUBSET (DOMAIN merged)
    BY <1>4, <1>7
  <2> QED
    BY <2>1, <1>12, <1>3, PickedIs
<1>15. PICK place \in [DOMAIN r -> places] :
         /\ \A k \in DOMAIN r : r[k] = merged[place[k]]
         /\ \A k, l \in DOMAIN r : place[k] = place[l] => k = l
  BY <1>14
<1>16. \A k \in DOMAIN r : place[k] \in places /\ place[k] \in D
  BY <1>15, <1>4
<1>17. TitlesDiffer(r)
  <2> SUFFICES ASSUME NEW k \in DOMAIN r, NEW l \in DOMAIN r, r[k].title = r[l].title
               PROVE  k = l
    BY DEF TitlesDiffer
  <2>1. posts[place[k]].title = posts[place[l]].title
    BY <1>15, <1>16, <1>11
  <2>2. place[l] \in Same(place[k]) /\ place[k] \in Same(place[l])
    BY <2>1, <1>9, <1>16
  <2>3. place[k] <= place[l] /\ place[l] <= place[k]
    BY <2>2, <1>10, <1>16
  <2>4. place[k] = place[l]
    BY <2>3, <1>16, <1>2
  <2> QED
    BY <2>4, <1>15
<1>18. Apart(r)
  <2> SUFFICES ASSUME NEW k \in DOMAIN r, NEW l \in DOMAIN r, k # l,
                      NEW u, u \in UrlsOf(r[k]), u \in UrlsOf(r[l])
               PROVE  FALSE
    BY DEF Apart
  <2>1. PICK i \in Same(place[k]) : u \in UrlsOf(posts[i])
    BY <1>11, <1>15, <1>16
  <2>2. PICK j \in Same(place[l]) : u \in UrlsOf(posts[j])
    BY <1>11, <1>15, <1>16
  <2>3. i \in D /\ j \in D
    BY DEF Same
  <2>4. i = j
    BY <2>1, <2>2, <2>3, <1>d DEF Apart
  <2>5. posts[i].title = r[k].title /\ posts[j].title = r[l].title
    BY <2>1, <2>2, <2>3, <1>9, <1>11, <1>15, <1>16
  <2> QED
    BY <2>4, <2>5, <1>17 DEF TitlesDiffer
<1>19. IsPostList(r)
  BY <1>3, <1>4, <1>7, <1>13, PickedPosts
<1>20. Covered(r) \subseteq Covered(posts)
  <2> SUFFICES ASSUME NEW k \in DOMAIN r, NEW u, u \in UrlsOf(r[k]) PROVE u \in Covered(posts)
    BY CoveredIs
  <2>1. PICK i \in Same(place[k]) : u \in UrlsOf(posts[i])
    BY <1>11, <1>15, <1>16
  <2> QED
    BY <2>1, <1>d, CoveredIs DEF Same
<1> QED
  BY <1>17, <1>18, <1>19, <1>20 DEF r

\* A crawl's result, merged and pruned, has each notice once.
LEMMA SavedOnce ==
  ASSUME NEW posts, IsPostList(posts), Apart(posts)
  PROVE  LET result == Pruned(Merged(posts))
         IN  IsPostList(result) /\ Apart(result) /\ TitlesDiffer(result)
<1>1. IsPostList(MergedByUrl(posts)) /\ Apart(MergedByUrl(posts))
  BY MergedByUrlIs
<1>2. /\ IsPostList(Merged(posts)) /\ Apart(Merged(posts)) /\ TitlesDiffer(Merged(posts))
  BY <1>1, MergedByTitleIs DEF Merged
<1> DEFINE m == Merged(posts)
           places == {i \in DOMAIN m : ~Prunable(m[i])}
<1>3. places \in SUBSET (DOMAIN m)
  OBVIOUS
<1>4. Pruned(m) = Picked(m, places)
  BY DEF Pruned
<1> HIDE DEF m, places
<1>5. IsPostList(m) /\ Apart(m) /\ TitlesDiffer(m)
  BY <1>2 DEF m
<1>6. IsPostList(Pruned(m)) /\ Apart(Pruned(m)) /\ TitlesDiffer(Pruned(m))
  BY <1>3, <1>4, <1>5, PickedPosts
<1> QED
  BY <1>6 DEF m
------------------------------------------------------------------------------
(* Lists of posts *)

SameUrls(r, s) ==
  DOMAIN r = DOMAIN s /\ \A i \in DOMAIN s : r[i].url = s[i].url /\ UrlsOf(r[i]) = UrlsOf(s[i])

LEMMA SameUrlsKeep ==
  ASSUME NEW r, NEW s, SameUrls(r, s)
  PROVE  Covered(r) = Covered(s) /\ (Apart(s) => Apart(r))
<1>1. \A u : u \in Covered(r) <=> u \in Covered(s)
  BY CoveredIs DEF SameUrls
<1>2. Apart(s) => Apart(r)
  BY DEF SameUrls, Apart
<1> QED
  BY <1>1, <1>2

LEMMA CoveredUrls ==
  ASSUME NEW s, IsPostList(s)
  PROVE  Covered(s) \subseteq Url
<1>1. \A i \in DOMAIN s : s[i] \in Posts
  BY ElementsOf DEF IsPostList
<1>2. \A p \in Posts : UrlsOf(p) \subseteq Url
  BY DEF Posts, Sources, UrlsOf
<1> QED
  BY <1>1, <1>2, CoveredIs

LEMMA ApartJoined ==
  ASSUME NEW r, IsPostList(r), NEW s, IsPostList(s),
         Apart(r), Apart(s), Covered(r) \cap Covered(s) = {}
  PROVE  IsPostList(r \o s) /\ Apart(r \o s)
<1> DEFINE t == r \o s
<1>1. r \in Seq(Posts) /\ s \in Seq(Posts)
  BY DEF IsPostList
<1>2. /\ t \in Seq(Posts) /\ DOMAIN t = 1 .. (Len(r) + Len(s))
      /\ \A i \in DOMAIN t : t[i] = IF i <= Len(r) THEN r[i] ELSE s[i - Len(r)]
  BY <1>1
<1>3. /\ DOMAIN r = 1 .. Len(r) /\ Len(r) \in Nat
      /\ DOMAIN s = 1 .. Len(s) /\ Len(s) \in Nat
  BY <1>1
<1> HIDE DEF t
<1>4. ASSUME NEW i \in DOMAIN t
      PROVE  \/ i <= Len(r) /\ i \in DOMAIN r /\ t[i] = r[i]
             \/ i > Len(r) /\ i - Len(r) \in DOMAIN s /\ t[i] = s[i - Len(r)]
  BY <1>2, <1>3
<1>5. IsPostList(t)
  BY <1>2, <1>4 DEF IsPostList
<1>6. \A i \in DOMAIN r, j \in DOMAIN s : UrlsOf(r[i]) \cap UrlsOf(s[j]) = {}
  BY CoveredIs
<1>7. ASSUME NEW i \in DOMAIN t, NEW j \in DOMAIN t, i # j
      PROVE  UrlsOf(t[i]) \cap UrlsOf(t[j]) = {}
  <2>1. i \in Int /\ j \in Int
    BY <1>2, <1>3
  <2>2. CASE i <= Len(r) /\ j <= Len(r)
    BY <2>1, <2>2, <1>3, <1>4, <1>7 DEF Apart
  <2>3. CASE i <= Len(r) /\ j > Len(r)
    BY <2>1, <2>3, <1>3, <1>4, <1>6
  <2>4. CASE i > Len(r) /\ j <= Len(r)
    BY <2>1, <2>4, <1>3, <1>4, <1>6
  <2>5. CASE i > Len(r) /\ j > Len(r)
    <3>1. i - Len(r) # j - Len(r)
      BY <2>1, <1>3, <1>7
    <3> QED
      BY <2>1, <2>5, <3>1, <1>3, <1>4 DEF Apart
  <2> QED
    BY <2>1, <2>2, <2>3, <2>4, <2>5, <1>3
<1> QED
  BY <1>5, <1>7 DEF t, Apart

LEMMA AppendedPost ==
  ASSUME NEW s, IsPostList(s), Apart(s), NEW p \in Posts, p.title \in TitlesOf[p.url],
         UrlsOf(p) \cap Covered(s) = {}
  PROVE  /\ IsPostList(Append(s, p)) /\ Apart(Append(s, p))
         /\ Covered(Append(s, p)) = Covered(s) \cup UrlsOf(p)
<1> DEFINE t == Append(s, p)
<1>1. s \in Seq(Posts)
  BY DEF IsPostList
<1>2. /\ t \in Seq(Posts) /\ DOMAIN t = 1 .. (Len(s) + 1)
      /\ \A i \in DOMAIN t : t[i] = IF i <= Len(s) THEN s[i] ELSE p
  BY <1>1
<1>3. DOMAIN s = 1 .. Len(s) /\ Len(s) \in Nat
  BY <1>1
<1> HIDE DEF t
<1>4. /\ \A i \in DOMAIN s : i \in DOMAIN t /\ t[i] = s[i]
      /\ Len(s) + 1 \in DOMAIN t /\ t[Len(s) + 1] = p
      /\ \A i \in DOMAIN t : i \in DOMAIN s \/ i = Len(s) + 1
  BY <1>2, <1>3
<1>5. IsPostList(t)
  BY <1>2, <1>4 DEF IsPostList
<1>6. \A u : u \in Covered(t) <=> u \in Covered(s) \cup UrlsOf(p)
  BY <1>4, CoveredIs
<1>7. \A i \in DOMAIN s : UrlsOf(s[i]) \cap UrlsOf(p) = {}
  BY CoveredIs
<1>8. Apart(t)
  BY <1>4, <1>7 DEF Apart
<1> QED
  BY <1>5, <1>6, <1>8 DEF t

PageItem == [url : Url, permanent : BOOLEAN]

LEMMA SyncedIs ==
  ASSUME NEW posts, IsPostList(posts), NEW item \in PageItem
  PROVE  IsPostList(Synced(posts, item)) /\ SameUrls(Synced(posts, item), posts)
<1> DEFINE Sync(m) == IF m.url = item.url THEN [m EXCEPT !.permanent = item.permanent] ELSE m
           D == DOMAIN posts
           r == Synced(posts, item)
<1>1. D = 1 .. Len(posts) /\ Len(posts) \in Nat /\ \A i \in D : posts[i] \in Posts
  BY ElementsOf DEF IsPostList
<1>2. item.permanent \in BOOLEAN
  BY DEF PageItem
<1>3. \A m \in Sources : Sync(m) \in Sources /\ Sync(m).url = m.url
  BY <1>2 DEF Sources
<1>4. r = [i \in D |->
            IF posts[i].meta = {} /\ posts[i].url = item.url
            THEN [posts[i] EXCEPT !.permanent = item.permanent]
            ELSE [posts[i] EXCEPT !.meta = {Sync(m) : m \in posts[i].meta}]]
  BY DEF Synced
<1> HIDE DEF Sync, r
<1>5. ASSUME NEW i \in D
      PROVE  /\ r[i] \in Posts /\ r[i].url = posts[i].url /\ r[i].title = posts[i].title
             /\ UrlsOf(r[i]) = UrlsOf(posts[i])
  <2> DEFINE p == posts[i]
             synced == {Sync(m) : m \in p.meta}
  <2>1. p \in Posts /\ p.meta \in SUBSET Sources
    BY <1>1 DEF Posts
  <2>2. synced \in SUBSET Sources
    BY <2>1, <1>3
  <2>3. {m.url : m \in synced} = {m.url : m \in p.meta}
    BY <2>1, <1>3
  <2>4. r[i] = IF p.meta = {} /\ p.url = item.url
               THEN [p EXCEPT !.permanent = item.permanent]
               ELSE [p EXCEPT !.meta = synced]
    BY <1>4
  <2> HIDE DEF p, synced
  <2>5. CASE p.meta = {} /\ p.url = item.url
    <3>1. r[i] = [p EXCEPT !.permanent = item.permanent]
      BY <2>4, <2>5
    <3>2. /\ r[i] \in Posts /\ r[i].url = p.url /\ r[i].title = p.title
          /\ r[i].meta = p.meta
      BY <3>1, <2>1, <1>2 DEF Posts
    <3> QED
      BY <3>2 DEF UrlsOf, p
  <2>6. CASE ~(p.meta = {} /\ p.url = item.url)
    <3>1. r[i] = [p EXCEPT !.meta = synced]
      BY <2>4, <2>6
    <3>2. /\ r[i] \in Posts /\ r[i].url = p.url /\ r[i].title = p.title
          /\ r[i].meta = synced
      BY <3>1, <2>1, <2>2 DEF Posts
    <3> QED
      BY <3>2, <2>3 DEF UrlsOf, p
  <2> QED
    BY <2>5, <2>6
<1>6. DOMAIN r = D
  BY <1>4
<1>7. r \in Seq(Posts)
  <2>1. r \in [1 .. Len(posts) -> Posts]
    BY <1>1, <1>4, <1>5, <1>6
  <2> QED
    BY <2>1, <1>1
<1>8. IsPostList(r)
  BY <1>5, <1>6, <1>7 DEF IsPostList
<1>9. SameUrls(r, posts)
  BY <1>5, <1>6 DEF SameUrls
<1> QED
  BY <1>8, <1>9 DEF r

LEMMA UpdatedIs ==
  ASSUME NEW posts, IsPostList(posts), NEW u \in Url,
         title[u] \in Titles, title[u] \in TitlesOf[u], version[u] \in 0..MaxEdits,
         day[u] \in 1..MaxDay
  PROVE  IsPostList(Updated(posts, u)) /\ SameUrls(Updated(posts, u), posts)
<1> DEFINE D == DOMAIN posts
           r == Updated(posts, u)
<1>1. D = 1 .. Len(posts) /\ Len(posts) \in Nat /\ \A i \in D : posts[i] \in Posts
  BY ElementsOf DEF IsPostList
<1>2. r = [i \in D |->
            IF posts[i].meta = {} /\ posts[i].url = u
            THEN [posts[i] EXCEPT !.title = title[u], !.version = version[u], !.day = day[u]]
            ELSE posts[i]]
  BY DEF Updated
<1> HIDE DEF r
<1>3. ASSUME NEW i \in D
      PROVE  /\ r[i] \in Posts /\ r[i].title \in TitlesOf[r[i].url]
             /\ r[i].url = posts[i].url /\ UrlsOf(r[i]) = UrlsOf(posts[i])
  <2> DEFINE p == posts[i]
  <2>1. p \in Posts /\ p.title \in TitlesOf[p.url]
    BY <1>1 DEF IsPostList
  <2>2. r[i] = IF p.meta = {} /\ p.url = u
               THEN [p EXCEPT !.title = title[u], !.version = version[u], !.day = day[u]]
               ELSE p
    BY <1>2
  <2> HIDE DEF p
  <2>3. CASE p.meta = {} /\ p.url = u
    <3>1. r[i] = [p EXCEPT !.title = title[u], !.version = version[u], !.day = day[u]]
      BY <2>2, <2>3
    <3>2. /\ r[i] \in Posts /\ r[i].url = p.url /\ r[i].title = title[u]
          /\ r[i].meta = p.meta
      BY <3>1, <2>1 DEF Posts
    <3> QED
      BY <3>2, <2>3 DEF UrlsOf, p
  <2>4. CASE ~(p.meta = {} /\ p.url = u)
    BY <2>1, <2>2, <2>4 DEF p
  <2> QED
    BY <2>3, <2>4
<1>4. DOMAIN r = D
  BY <1>2
<1>5. r \in Seq(Posts)
  <2>1. r \in [1 .. Len(posts) -> Posts]
    BY <1>1, <1>2, <1>3, <1>4
  <2> QED
    BY <2>1, <1>1
<1>6. IsPostList(r)
  BY <1>3, <1>4, <1>5 DEF IsPostList
<1>7. SameUrls(r, posts)
  BY <1>3, <1>4 DEF SameUrls
<1> QED
  BY <1>6, <1>7 DEF r
------------------------------------------------------------------------------
(***************************************************************************)
(* The inductive invariant.  The boards: a list has the notices of its     *)
(* board, each with a day.  The store and the crawl: no URL is in two      *)
(* posts, and while pages are read, what the crawl holds it has seen, so   *)
(* that a notice it has not seen is in no post.                            *)
(***************************************************************************)
BoardsInv ==
  /\ today \in 1..MaxDay
  /\ lists \in [1..NumBoards -> Seq(Url)] /\ \A b \in 1..NumBoards : IsInjective(lists[b])
  /\ \A b \in 1..NumBoards : \A i \in DOMAIN lists[b] :
       BoardOf[lists[b][i]] = b /\ day[lists[b][i]] # 0
  /\ pinned \subseteq Posted
  /\ title \in [Url -> Titles] /\ \A u \in Url : title[u] \in TitlesOf[u]
  /\ version \in [Url -> 0..MaxEdits] /\ \A u \in Url : version[u] <= edits
  /\ day \in [Url -> 0..MaxDay]
  /\ touched \subseteq Url
  /\ edits \in 0..MaxEdits /\ pins \in 0..MaxPins /\ shifts \in 0..MaxShifts

StoreInv == IsPostList(store) /\ Apart(store) /\ TitlesDiffer(store)

HeldInv ==
  /\ IsPostList(old) /\ IsPostList(new)
  /\ Apart(old) /\ Apart(new) /\ Covered(old) \cap Covered(new) = {}
  /\ at = "idle" => old = <<>> /\ new = <<>>
  /\ at \in {"list", "items"} => Covered(old) \cup Covered(new) \subseteq seen

PlaceInv ==
  /\ at \in {"idle", "list", "items", "save"}
  /\ since \in 0..MaxDay /\ board \in 1..(NumBoards + 1) /\ page \in Nat \ {0}
  /\ at \in {"idle", "list", "items"} => board <= NumBoards
  /\ done \subseteq Url /\ seen \subseteq Url
  /\ pages \subseteq Seq(Url) /\ queue \in Seq(PageItem)
  /\ stopAfter \in BOOLEAN
  /\ faults \in 0..MaxFaults

CrawlInv == BoardsInv /\ StoreInv /\ HeldInv /\ PlaceInv

LEMMA PostedIs ==
  \A u : u \in Posted <=> \E b \in 1..NumBoards : \E i \in DOMAIN lists[b] : u = lists[b][i]
BY DEF Posted, ToSet

LEMMA NoPosts ==
  IsPostList(<<>>) /\ Apart(<<>>) /\ TitlesDiffer(<<>>) /\ Covered(<<>>) = {}
<1>1. DOMAIN <<>> = {} /\ <<>> \in Seq(Posts)
  OBVIOUS
<1> QED
  BY <1>1, CoveredIs DEF IsPostList, Apart, TitlesDiffer

LEMMA CrawlInitially == Init => CrawlInv
<1> SUFFICES ASSUME Init PROVE CrawlInv
  OBVIOUS
<1> USE CrawlAssumption
<1>1. \A u \in Url : title[u] \in TitlesOf[u]
  BY DEF Init
<1>2. title \in [Url -> Titles]
  BY <1>1 DEF Init, Titles
<1>3. \A b \in 1..NumBoards : lists[b] = <<>> /\ DOMAIN lists[b] = {}
  BY DEF Init
<1>4. BoardsInv
  <2>1. lists \in [1..NumBoards -> Seq(Url)] /\ \A b \in 1..NumBoards : IsInjective(lists[b])
    BY <1>3 DEF Init, IsInjective
  <2> QED
    BY <1>1, <1>2, <1>3, <2>1 DEF Init, BoardsInv
<1>5. StoreInv /\ HeldInv
  BY NoPosts DEF Init, Idle, StoreInv, HeldInv
<1>6. PlaceInv
  <2>1. /\ at = "idle" /\ since = 0 /\ board = 1 /\ page = 1 /\ done = {} /\ seen = {}
        /\ pages = {} /\ queue = <<>> /\ stopAfter = FALSE /\ faults = 0
    BY DEF Init, Idle
  <2>2. queue \in Seq(PageItem)
    BY <2>1
  <2>3. 1 \in 1..(NumBoards + 1) /\ 1 <= NumBoards /\ 0 \in 0..MaxDay /\ 0 \in 0..MaxFaults
    OBVIOUS
  <2> QED
    <3>1. at \in {"idle", "list", "items", "save"} /\ since \in 0..MaxDay
          /\ board \in 1..(NumBoards + 1) /\ page \in Nat \ {0} /\ faults \in 0..MaxFaults
      BY <2>1, <2>3
    <3>2. at \in {"idle", "list", "items"} => board <= NumBoards
      BY <2>1, <2>3
    <3>3. done \subseteq Url /\ seen \subseteq Url /\ pages \subseteq Seq(Url)
          /\ stopAfter \in BOOLEAN
      BY <2>1
    <3> QED
      BY <2>2, <3>1, <3>2, <3>3 DEF PlaceInv
<1> QED
  BY <1>4, <1>5, <1>6 DEF CrawlInv

LEMMA InvTypes == CrawlInv => TypeOK
BY DEF CrawlInv, BoardsInv, StoreInv, HeldInv, PlaceInv, TypeOK, PageItem

------------------------------------------------------------------------------
(* The boards *)

LEMMA TouchKeeps ==
  ASSUME BoardsInv, NEW u \in Url, Touch(u)
  PROVE  touched' \subseteq Url
BY DEF Touch, BoardsInv

LEMMA ShiftKeeps ==
  ASSUME BoardsInv, Shift
  PROVE  shifts' \in 0..MaxShifts
BY CrawlAssumption DEF Shift, BoardsInv

\* A posted notice is on its own board's list, and has a day.
LEMMA PostedHave ==
  ASSUME BoardsInv, NEW u \in Posted
  PROVE  /\ u \in Url /\ day[u] \in 1..MaxDay /\ BoardOf[u] \in 1..NumBoards
         /\ \E i \in DOMAIN lists[BoardOf[u]] : u = lists[BoardOf[u]][i]
<1>1. PICK b \in 1..NumBoards : \E i \in DOMAIN lists[b] : u = lists[b][i]
  BY PostedIs
<1>2. PICK i \in DOMAIN lists[b] : u = lists[b][i]
  BY <1>1
<1>3. lists[b] \in Seq(Url)
  BY DEF BoardsInv
<1>4. u \in Url
  BY <1>2, <1>3, ElementsOf
<1>5. BoardOf[u] = b /\ day[u] # 0
  BY <1>2 DEF BoardsInv
<1>6. day[u] \in 0..MaxDay
  BY <1>4 DEF BoardsInv
<1> QED
  BY <1>2, <1>4, <1>5, <1>6, CrawlAssumption

LEMMA PostNoticeKeeps ==
  ASSUME BoardsInv, NEW u \in Url, PostNotice(u)
  PROVE  BoardsInv'
<1> USE CrawlAssumption
<1> DEFINE b == BoardOf[u]
           s == lists[b]
           r == <<u>> \o s
<1>1. /\ b \in 1..NumBoards /\ s \in Seq(Url) /\ lists' = [lists EXCEPT ![b] = r]
      /\ day[u] = 0 /\ day' = [day EXCEPT ![u] = today] /\ today' = today
      /\ pinned' = pinned /\ version' = version /\ edits' = edits /\ pins' = pins
      /\ shifts' = shifts
  BY DEF PostNotice, BoardsInv
<1>2. /\ r \in Seq(Url) /\ DOMAIN r = 1 .. (Len(s) + 1) /\ r[1] = u
      /\ \A i \in DOMAIN r : i # 1 => i - 1 \in DOMAIN s /\ r[i] = s[i - 1]
      /\ \A i \in DOMAIN s : i + 1 \in DOMAIN r /\ r[i + 1] = s[i]
      /\ DOMAIN s = 1 .. Len(s) /\ Len(s) \in Nat
  <2> HIDE DEF s
  <2>1. s \in Seq(Url) /\ <<u>> \in Seq(Url) /\ Len(<<u>>) = 1 /\ <<u>>[1] = u
    BY <1>1
  <2>2. r \in Seq(Url) /\ Len(r) = 1 + Len(s) /\ DOMAIN r = 1 .. Len(r)
    BY <2>1
  <2>3. DOMAIN s = 1 .. Len(s) /\ Len(s) \in Nat
    BY <2>1
  <2>4. \A i \in DOMAIN r : r[i] = IF i <= 1 THEN <<u>>[i] ELSE s[i - 1]
    BY <2>1, <2>2
  <2> HIDE DEF r
  <2>5. r[1] = u /\ DOMAIN r = 1 .. (Len(s) + 1)
    <3>1. Len(r) = Len(s) + 1 /\ 1 \in 1 .. Len(r)
      BY <2>2, <2>3
    <3>2. DOMAIN r = 1 .. (Len(s) + 1)
      BY <3>1, <2>2
    <3>3. r[1] = <<u>>[1]
      BY <3>1, <2>2, <2>4
    <3> QED
      BY <3>2, <3>3, <2>1
  <2>6. \A i \in DOMAIN r : i # 1 => i - 1 \in DOMAIN s /\ r[i] = s[i - 1]
    BY <2>2, <2>3, <2>4
  <2>7. \A i \in DOMAIN s : i + 1 \in DOMAIN r /\ r[i + 1] = s[i]
    <3> SUFFICES ASSUME NEW i \in DOMAIN s PROVE i + 1 \in DOMAIN r /\ r[i + 1] = s[i]
      OBVIOUS
    <3>1. i + 1 \in DOMAIN r /\ ~(i + 1 <= 1) /\ (i + 1) - 1 = i
      BY <2>2, <2>3
    <3> QED
      BY <3>1, <2>4
  <2> QED
    BY <2>2, <2>3, <2>5, <2>6, <2>7
<1>3. \A c \in 1..NumBoards : lists'[c] = IF c = b THEN r ELSE lists[c]
  BY <1>1 DEF BoardsInv
<1> HIDE DEF r
<1>4. \A i \in DOMAIN s : s[i] # u /\ s[i] \in Url
  BY <1>1, ElementsOf DEF BoardsInv
<1>5. IsInjective(r)
  <2>1. \A i, j \in DOMAIN s : s[i] = s[j] => i = j
    BY <1>1 DEF BoardsInv, IsInjective
  <2> SUFFICES ASSUME NEW i \in DOMAIN r, NEW j \in DOMAIN r, r[i] = r[j] PROVE i = j
    BY DEF IsInjective
  <2>2. i \in Nat /\ j \in Nat
    BY <1>2
  <2> HIDE DEF s
  <2>3. CASE i = 1
    BY <2>2, <2>3, <1>2, <1>4
  <2>4. CASE j = 1
    BY <2>2, <2>4, <1>2, <1>4
  <2>5. CASE i # 1 /\ j # 1
    <3>1. i - 1 = j - 1
      BY <2>5, <2>1, <1>2
    <3> QED
      BY <3>1, <2>2
  <2> QED
    BY <2>3, <2>4, <2>5
<1>6. lists' \in [1..NumBoards -> Seq(Url)] /\ \A c \in 1..NumBoards : IsInjective(lists'[c])
  <2>1. lists' = [lists EXCEPT ![b] = r] /\ lists \in [1..NumBoards -> Seq(Url)]
    BY DEF PostNotice, BoardsInv, r
  <2>2. lists' \in [1..NumBoards -> Seq(Url)]
    BY <2>1, <1>1, <1>2
  <2>3. \A c \in 1..NumBoards : IsInjective(lists[c])
    BY DEF BoardsInv
  <2>4. \A c \in 1..NumBoards : IsInjective(lists'[c])
    BY <2>3, <1>3, <1>5
  <2> QED
    BY <2>2, <2>4
<1>7. day' \in [Url -> 0..MaxDay] /\ day'[u] # 0 /\ \A v \in Url : v # u => day'[v] = day[v]
  BY <1>1 DEF BoardsInv
<1>8. ASSUME NEW c \in 1..NumBoards, NEW i \in DOMAIN lists'[c]
      PROVE  BoardOf[lists'[c][i]] = c /\ day'[lists'[c][i]] # 0
  <2>1. CASE c # b
    <3>1. lists'[c] = lists[c] /\ i \in DOMAIN lists[c] /\ lists[c] \in Seq(Url)
      BY <2>1, <1>3, <1>8 DEF BoardsInv
    <3>2. lists[c][i] \in Url /\ BoardOf[lists[c][i]] = c /\ day[lists[c][i]] # 0
      BY <3>1, ElementsOf DEF BoardsInv
    <3> QED
      BY <3>1, <3>2, <1>7
  <2>2. CASE c = b /\ i = 1
    BY <2>2, <1>2, <1>3, <1>7
  <2>3. CASE c = b /\ i # 1
    <3>1. lists'[c][i] = s[i - 1] /\ i - 1 \in DOMAIN s
      BY <2>3, <1>2, <1>3, <1>8
    <3>2. BoardOf[s[i - 1]] = b /\ day[s[i - 1]] # 0
      BY <3>1, <1>1 DEF BoardsInv
    <3> QED
      BY <3>1, <3>2, <2>3, <1>4, <1>7
  <2> QED
    BY <2>1, <2>2, <2>3
<1>9. pinned' \subseteq Posted'
  <2> SUFFICES ASSUME NEW v \in pinned PROVE v \in Posted'
    BY <1>1
  <2>1. PICK c \in 1..NumBoards : \E i \in DOMAIN lists[c] : v = lists[c][i]
    BY PostedIs DEF BoardsInv
  <2>2. \E i \in DOMAIN lists'[c] : v = lists'[c][i]
    <3>1. PICK i \in DOMAIN lists[c] : v = lists[c][i]
      BY <2>1
    <3>2. CASE c # b
      BY <3>1, <3>2, <1>3
    <3>3. CASE c = b
      <4>1. i + 1 \in DOMAIN r /\ r[i + 1] = v
        BY <3>1, <3>3, <1>2
      <4> QED
        BY <4>1, <3>3, <1>3
    <3> QED
      BY <3>2, <3>3
  <2> QED
    BY <2>1, <2>2 DEF Posted, ToSet
<1>10. title' \in [Url -> Titles] /\ \A v \in Url : title'[v] \in TitlesOf[v]
  <2>1. PICK t \in TitlesOf[u] : title' = [title EXCEPT ![u] = t]
    BY DEF PostNotice
  <2>2. t \in Titles
    BY <2>1 DEF Titles
  <2> QED
    BY <2>1, <2>2 DEF BoardsInv
<1>11. touched' \subseteq Url
  BY TouchKeeps DEF PostNotice
<1> QED
  BY <1>1, <1>6, <1>7, <1>8, <1>9, <1>10, <1>11 DEF BoardsInv

LEMMA EditKeeps ==
  ASSUME BoardsInv, NEW u \in Url, Edit(u)
  PROVE  BoardsInv'
<1> USE CrawlAssumption
<1>1. /\ edits < MaxEdits /\ edits' = edits + 1
      /\ version' = [version EXCEPT ![u] = @ + 1]
      /\ UNCHANGED <<today, lists, pinned, day, pins, shifts>>
  BY DEF Edit
<1>2. PICK t \in TitlesOf[u] : title' = [title EXCEPT ![u] = t]
  BY DEF Edit
<1>3. title' \in [Url -> Titles] /\ \A v \in Url : title'[v] \in TitlesOf[v]
  <2>1. t \in Titles /\ t \in TitlesOf[u]
    BY <1>2 DEF Titles
  <2>2. title \in [Url -> Titles] /\ \A v \in Url : title[v] \in TitlesOf[v]
    BY DEF BoardsInv
  <2> QED
    BY <1>2, <2>1, <2>2
<1>4. \A v \in Url : version[v] \in Nat /\ version[v] <= edits
  BY DEF BoardsInv
<1>5. edits \in Nat /\ edits' \in 0..MaxEdits
  BY <1>1 DEF BoardsInv
<1>6. version' \in [Url -> 0..MaxEdits] /\ \A v \in Url : version'[v] <= edits'
  <2>1. version \in [Url -> 0..MaxEdits]
    BY DEF BoardsInv
  <2>2. \A v \in Url : version'[v] = IF v = u THEN version[v] + 1 ELSE version[v]
    BY <1>1, <2>1
  <2>3. \A v \in Url : version'[v] \in 0..MaxEdits /\ version'[v] <= edits'
    BY <1>1, <1>4, <1>5, <2>2
  <2>4. version' = [v \in Url |-> version'[v]]
    BY <1>1, <2>1
  <2> QED
    BY <2>3, <2>4
<1>7. touched' \subseteq Url
  BY TouchKeeps DEF Edit
<1>8. Posted' = Posted
  BY <1>1 DEF Posted
<1>9. \A b \in 1..NumBoards : \A i \in DOMAIN lists'[b] :
        BoardOf[lists'[b][i]] = b /\ day'[lists'[b][i]] # 0
  BY <1>1 DEF BoardsInv
<1>10. pinned' \subseteq Posted'
  BY <1>1, <1>8 DEF BoardsInv
<1> QED
  BY <1>1, <1>3, <1>5, <1>6, <1>7, <1>9, <1>10 DEF BoardsInv

LEMMA TakeDownKeeps ==
  ASSUME BoardsInv, NEW u \in Url, TakeDown(u)
  PROVE  BoardsInv'
<1> USE CrawlAssumption
<1> DEFINE b == BoardOf[u]
           s == lists[b]
           places == {i \in DOMAIN s : s[i] # u}
           r == Picked(s, places)
<1>1. /\ b \in 1..NumBoards /\ s \in Seq(Url) /\ lists' = [lists EXCEPT ![b] = r]
      /\ pinned' = pinned \ {u}
      /\ UNCHANGED <<today, title, version, day, touched, edits, pins>>
  BY DEF TakeDown, BoardsInv
<1>2. places \in SUBSET (DOMAIN s) /\ \A i \in DOMAIN s : i \in places <=> s[i] # u
  OBVIOUS
<1>s. s = lists[b]
  OBVIOUS
<1> HIDE DEF places, s
<1>3. /\ r \in Seq(Url)
      /\ \E place \in [DOMAIN r -> places] :
           /\ \A k \in DOMAIN r : r[k] = s[place[k]]
           /\ \A k, l \in DOMAIN r : place[k] = place[l] => k = l
           /\ \A i \in places : \E k \in DOMAIN r : place[k] = i
           /\ \A k, l \in DOMAIN r : k < l => place[k] < place[l]
  BY <1>1, <1>2, PickedIs
<1> HIDE DEF r
<1>4. PICK place \in [DOMAIN r -> places] :
        /\ \A k \in DOMAIN r : r[k] = s[place[k]]
        /\ \A k, l \in DOMAIN r : place[k] = place[l] => k = l
        /\ \A i \in places : \E k \in DOMAIN r : place[k] = i
  BY <1>3
<1>5. \A k \in DOMAIN r : place[k] \in places /\ place[k] \in DOMAIN s
  BY <1>2, <1>4
<1>6. \A c \in 1..NumBoards : lists'[c] = IF c = b THEN r ELSE lists[c]
  BY <1>1 DEF BoardsInv
<1>7. IsInjective(r)
  <2>1. \A i, j \in DOMAIN s : s[i] = s[j] => i = j
    BY <1>1, <1>s DEF BoardsInv, IsInjective
  <2> QED
    BY <2>1, <1>4, <1>5 DEF IsInjective
<1>8. lists' \in [1..NumBoards -> Seq(Url)] /\ \A c \in 1..NumBoards : IsInjective(lists'[c])
  BY <1>1, <1>3, <1>6, <1>7 DEF BoardsInv
<1>9. ASSUME NEW c \in 1..NumBoards, NEW i \in DOMAIN lists'[c]
      PROVE  BoardOf[lists'[c][i]] = c /\ day'[lists'[c][i]] # 0
  <2>1. CASE c # b
    BY <2>1, <1>1, <1>6, <1>9 DEF BoardsInv
  <2>2. CASE c = b
    <3>1. lists'[c][i] = s[place[i]] /\ place[i] \in DOMAIN s
      BY <2>2, <1>4, <1>5, <1>6, <1>9
    <3> QED
      BY <3>1, <2>2, <1>1, <1>s DEF BoardsInv
  <2> QED
    BY <2>1, <2>2
<1>10. ASSUME NEW v \in pinned, v # u PROVE v \in Posted'
  <2>1. PICK c \in 1..NumBoards : \E i \in DOMAIN lists[c] : v = lists[c][i]
    BY PostedIs DEF BoardsInv
  <2>2. PICK i \in DOMAIN lists[c] : v = lists[c][i]
    BY <2>1
  <2>3. \E k \in DOMAIN lists'[c] : v = lists'[c][k]
    <3>1. CASE c # b
      BY <3>1, <2>2, <1>6
    <3>2. CASE c = b
      <4>1. i \in places
        BY <3>2, <2>2, <1>2, <1>10, <1>s
      <4>2. PICK k \in DOMAIN r : place[k] = i
        BY <4>1, <1>4
      <4> QED
        BY <4>2, <3>2, <2>2, <1>4, <1>6, <1>s
    <3> QED
      BY <3>1, <3>2
  <2> QED
    BY <2>1, <2>3 DEF Posted, ToSet
<1>11. shifts' \in 0..MaxShifts
  BY ShiftKeeps DEF TakeDown
<1>12. pinned' \subseteq Posted'
  BY <1>1, <1>10
<1> QED
  BY <1>1, <1>8, <1>9, <1>11, <1>12 DEF BoardsInv

LEMMA BoardsStep ==
  ASSUME CrawlInv, Boards
  PROVE  CrawlInv'
<1> USE CrawlAssumption
<1>1. UNCHANGED <<store, crawl, faults>>
  BY DEF Boards, DayPasses, PostNotice, Edit, Pin, Unpin, TakeDown
<1>2. BoardsInv
  BY DEF CrawlInv
<1>3. BoardsInv'
  <2>1. ASSUME DayPasses PROVE BoardsInv'
    <3>1. today' \in 1..MaxDay
      BY <1>2, <2>1 DEF DayPasses, BoardsInv
    <3>2. UNCHANGED <<lists, pinned, title, version, day, touched, edits, pins, shifts>>
      BY <2>1 DEF DayPasses
    <3>3. Posted' = Posted
      BY <3>2 DEF Posted
    <3> QED
      BY <3>1, <3>2, <3>3, <1>2 DEF BoardsInv
  <2>2. ASSUME NEW u \in Url, Pin(u) \/ Unpin(u) PROVE BoardsInv'
    <3>1. UNCHANGED <<today, lists, title, version, day, touched, edits>>
      BY <2>2 DEF Pin, Unpin
    <3>2. Posted' = Posted
      BY <3>1 DEF Posted
    <3>3. pinned' \subseteq Posted
      BY <2>2, <1>2 DEF Pin, Unpin, BoardsInv
    <3>4. pins' \in 0..MaxPins
      BY <2>2, <1>2 DEF Pin, Unpin, BoardsInv
    <3>5. shifts' \in 0..MaxShifts
      BY <2>2, <1>2, ShiftKeeps DEF Pin, Unpin
    <3> QED
      BY <3>1, <3>2, <3>3, <3>4, <3>5, <1>2 DEF BoardsInv
  <2> QED
    BY <1>2, <2>1, <2>2, PostNoticeKeeps, EditKeeps, TakeDownKeeps DEF Boards
<1>4. (StoreInv /\ HeldInv /\ PlaceInv)'
  BY <1>1 DEF CrawlInv, StoreInv, HeldInv, PlaceInv, crawl
<1> QED
  BY <1>3, <1>4 DEF CrawlInv
------------------------------------------------------------------------------
(* The crawler *)

LEMMA KnownUrls ==
  ASSUME HeldInv
  PROVE  Known \subseteq Url
BY CoveredUrls DEF Known, HeldInv

\* Going on to the next board: what is held is all that was seen.
LEMMA NextBoardKeeps ==
  ASSUME HeldInv, PlaceInv, at \in {"list", "items"}, NextBoard, seen' = Known
  PROVE  /\ at' \in {"list", "save"} /\ board' \in 1..(NumBoards + 1)
         /\ at' = "list" => board' <= NumBoards
         /\ page' \in Nat \ {0} /\ pages' \subseteq Seq(Url) /\ queue' \in Seq(PageItem)
         /\ stopAfter' \in BOOLEAN /\ seen' \subseteq Url
<1>1. board \in Nat /\ board >= 1 /\ board <= NumBoards /\ NumBoards \in Nat
  BY CrawlAssumption DEF PlaceInv
<1>2. board' = board + 1 /\ page' = 1 /\ pages' = {} /\ queue' = <<>> /\ stopAfter' = FALSE
  BY DEF NextBoard
<1>3. at' = IF board = NumBoards THEN "save" ELSE "list"
  BY DEF NextBoard
<1>4. board' \in 1..(NumBoards + 1) /\ (board # NumBoards => board' <= NumBoards)
  BY <1>1, <1>2
<1>5. at' \in {"list", "save"} /\ (at' = "list" => board' <= NumBoards)
  BY <1>3, <1>4
<1>6. queue' \in Seq(PageItem) /\ pages' \subseteq Seq(Url)
  BY <1>2
<1>7. page' \in Nat \ {0} /\ stopAfter' \in BOOLEAN
  <2>1. 1 \in Nat \ {0} /\ FALSE \in BOOLEAN
    OBVIOUS
  <2>2. page' = 1 /\ stopAfter' = FALSE
    BY <1>2
  <2> QED
    BY <2>1, <2>2
<1> QED
  BY <1>4, <1>5, <1>6, <1>7, KnownUrls

\* The same, when the posts the crawl holds keep their URLs.
LEMMA LeavingKeeps ==
  ASSUME HeldInv, PlaceInv, at \in {"list", "items"}, NextBoard, seen' = Known,
         IsPostList(old'), IsPostList(new'), SameUrls(old', old), SameUrls(new', new),
         since' = since, done' \subseteq Url, faults' \in 0..MaxFaults
  PROVE  HeldInv' /\ PlaceInv'
<1>1. /\ Covered(old') = Covered(old) /\ Covered(new') = Covered(new)
      /\ Apart(old') /\ Apart(new')
  BY SameUrlsKeep DEF HeldInv
<1>2. /\ at' \in {"list", "save"} /\ board' \in 1..(NumBoards + 1)
      /\ at' = "list" => board' <= NumBoards
      /\ page' \in Nat \ {0} /\ pages' \subseteq Seq(Url) /\ queue' \in Seq(PageItem)
      /\ stopAfter' \in BOOLEAN /\ seen' \subseteq Url
  BY NextBoardKeeps
<1>3. seen' = Covered(old) \cup Covered(new)
  BY DEF Known
<1>4. HeldInv'
  BY <1>1, <1>2, <1>3 DEF HeldInv
<1>5. PlaceInv'
  BY <1>2 DEF PlaceInv
<1> QED
  BY <1>4, <1>5

LEMMA SameUrlsOfSame == \A s : SameUrls(s, s)
BY DEF SameUrls

LEMMA StartCrawlKeeps ==
  ASSUME StoreInv, HeldInv, PlaceInv, BoardsInv, StartCrawl
  PROVE  HeldInv' /\ PlaceInv'
<1>1. /\ at = "idle" /\ at' = "list" /\ old' = store /\ since' = today
      /\ seen' = Covered(store)
      /\ UNCHANGED <<new, done, board, page, pages, queue, stopAfter, faults>>
  BY DEF StartCrawl
<1>2. new = <<>> /\ board <= NumBoards
  BY <1>1 DEF HeldInv, PlaceInv
<1>3. Covered(new) = {} /\ Covered(store) \subseteq Url
  BY <1>2, NoPosts, CoveredUrls DEF StoreInv
<1>4. HeldInv'
  BY <1>1, <1>3 DEF HeldInv, StoreInv
<1>5. today \in 0..MaxDay
  BY DEF BoardsInv
<1>6. PlaceInv'
  BY <1>1, <1>2, <1>3, <1>5 DEF PlaceInv
<1> QED
  BY <1>4, <1>6

LEMMA EndsKeep ==
  ASSUME HeldInv, PlaceInv, ListFails \/ ListEnds
  PROVE  HeldInv' /\ PlaceInv'
<1>1. /\ at = "list" /\ NextBoard /\ seen' = Known
      /\ old' = old /\ new' = new /\ since' = since /\ done' = done
  BY DEF ListFails, ListEnds
<1>2. faults' \in 0..MaxFaults
  BY CrawlAssumption DEF ListFails, ListEnds, PlaceInv
<1> QED
  BY <1>1, <1>2, LeavingKeeps, SameUrlsOfSame DEF HeldInv, PlaceInv

LEMMA EndPageKeeps ==
  ASSUME HeldInv, PlaceInv, EndPage
  PROVE  HeldInv' /\ PlaceInv'
<1>1. at = "items" /\ UNCHANGED <<old, new, since, done, faults>>
  BY DEF EndPage
<1>2. CASE stopAfter
  <2>1. NextBoard /\ seen' = Known
    BY <1>2 DEF EndPage
  <2> QED
    BY <1>1, <2>1, LeavingKeeps, SameUrlsOfSame DEF HeldInv, PlaceInv
<1>3. CASE ~stopAfter
  <2>1. /\ at' = "list" /\ UNCHANGED <<board, seen, pages, queue, stopAfter>>
        /\ page' = page \/ page' = page + 1
    BY <1>3 DEF EndPage
  <2>2. page' \in Nat \ {0}
    BY <2>1 DEF PlaceInv
  <2>3. board <= NumBoards
    BY <1>1 DEF PlaceInv
  <2> QED
    BY <1>1, <2>1, <2>2, <2>3 DEF HeldInv, PlaceInv
<1> QED
  BY <1>2, <1>3

LEMMA ItemsTyped ==
  ASSUME NEW urls \in Seq(Url)
  PROVE  Items(urls) \in Seq(PageItem)
<1>1. DOMAIN urls = 1 .. Len(urls) /\ Len(urls) \in Nat /\ \A i \in DOMAIN urls : urls[i] \in Url
  BY ElementsOf
<1>2. Items(urls) = [i \in 1 .. Len(urls) |-> [url |-> urls[i], permanent |-> urls[i] \in pinned]]
  BY <1>1 DEF Items
<1>3. \A i \in 1 .. Len(urls) : [url |-> urls[i], permanent |-> urls[i] \in pinned] \in PageItem
  BY <1>1 DEF PageItem
<1>4. Items(urls) \in [1 .. Len(urls) -> PageItem]
  BY <1>2, <1>3
<1> QED
  BY <1>1, <1>4

LEMMA ReadPageKeeps ==
  ASSUME BoardsInv, HeldInv, PlaceInv, ReadPage
  PROVE  HeldInv' /\ PlaceInv'
<1> DEFINE shown == Shown(board, page)
           general == shown \ pinned
           stop == /\ general # {}
                   /\ \A u \in general : u \in seen /\ ~ShouldRecheck(u, OwnPost(u))
           top == Listed(board, shown \cap pinned)
           rest == Listed(board, general)
           next == Items(top) \o IF stop THEN <<>> ELSE Items(rest)
<1>1. /\ at = "list" /\ at' = "items" /\ pages' = pages \cup {Listed(board, shown)}
      /\ stopAfter' = stop /\ queue' = next
      /\ UNCHANGED <<old, new, since, done, board, page, seen, faults>>
  BY DEF ReadPage
<1>2. board \in 1..NumBoards
  BY <1>1, CrawlAssumption DEF PlaceInv
<1>3. lists[board] \in Seq(Url) /\ IsInjective(lists[board])
  BY <1>2 DEF BoardsInv
<1>4. shown \subseteq On(board)
  BY DEF Shown, On
<1>b. stop \in BOOLEAN
  BY Zenon
<1> HIDE DEF shown, stop
<1>5. \A urls \in SUBSET On(board) : Listed(board, urls) \in Seq(Url)
  <2>1. ASSUME NEW urls \in SUBSET On(board) PROVE Listed(board, urls) \in Seq(Url)
    <3>1. Listed(board, urls) \in Seq(urls)
      BY <1>3, ListedIs
    <3>2. urls \subseteq Url
      BY <1>3, BoardOrders
    <3> QED
      BY <3>1, <3>2
  <2> QED
    BY <2>1
<1>6. Listed(board, shown) \in Seq(Url) /\ top \in Seq(Url) /\ rest \in Seq(Url)
  BY <1>4, <1>5
<1>7. next \in Seq(PageItem)
  <2>1. Items(top) \in Seq(PageItem) /\ Items(rest) \in Seq(PageItem)
    BY <1>6, ItemsTyped
  <2> HIDE DEF top, rest
  <2>2. (IF stop THEN <<>> ELSE Items(rest)) \in Seq(PageItem)
    BY <2>1
  <2> QED
    BY <2>1, <2>2
<1> HIDE DEF next
<1>8. pages' \subseteq Seq(Url) /\ queue' \in Seq(PageItem) /\ stopAfter' \in BOOLEAN
  BY <1>1, <1>6, <1>7, <1>b DEF PlaceInv
<1>9. board <= NumBoards
  BY <1>1 DEF PlaceInv
<1> QED
  BY <1>1, <1>8, <1>9 DEF HeldInv, PlaceInv

\* The next item of the page.
LEMMA HeadItem ==
  ASSUME PlaceInv, queue # <<>>
  PROVE  Head(queue) \in PageItem /\ Head(queue).url \in Url /\ Tail(queue) \in Seq(PageItem)
<1>1. queue \in Seq(PageItem)
  BY DEF PlaceInv
<1>2. Head(queue) \in PageItem /\ Tail(queue) \in Seq(PageItem)
  BY <1>1, HeadTailProperties
<1>3. \A item \in PageItem : item.url \in Url
  BY DEF PageItem
<1> QED
  BY <1>2, <1>3

LEMMA ReadableHas ==
  ASSUME BoardsInv, NEW u \in Url, u \in Posted
  PROVE  /\ title[u] \in Titles /\ title[u] \in TitlesOf[u] /\ version[u] \in 0..MaxEdits
         /\ day[u] \in 1..MaxDay
BY PostedHave DEF BoardsInv

LEMMA UnreadableKeeps ==
  ASSUME PlaceInv, NEW u, Unreadable(u)
  PROVE  faults' \in 0..MaxFaults
BY CrawlAssumption DEF PlaceInv, Unreadable

LEMMA KnownItemKeeps ==
  ASSUME BoardsInv, HeldInv, PlaceInv, KnownItem
  PROVE  HeldInv' /\ PlaceInv'
<1> DEFINE item == Head(queue)
           u == item.url
           synced == Synced(old, item)
           due == ShouldRecheck(item.url, {post \in ToSet(synced) \cup ToSet(new) :
                                             post.url = item.url /\ post.meta = {}})
           stop == ~item.permanent /\ \E d \in KnownDay(item.url) : Stale(d)
<1>1. /\ at = "items" /\ queue # <<>>
      /\ \/ /\ due /\ Readable(u)
            /\ old' = IF ~item.permanent /\ Stale(day[u]) THEN synced ELSE Updated(synced, u)
         \/ due /\ Unreadable(u) /\ old' = synced
         \/ ~due /\ UNCHANGED faults /\ old' = synced
      /\ new' = Synced(new, item)
      /\ done' = IF due THEN done \cup {u} ELSE done
      /\ LeaveIf(stop)
      /\ since' = since
  BY DEF KnownItem
<1>2. item \in PageItem /\ u \in Url /\ Tail(queue) \in Seq(PageItem)
  BY <1>1, HeadItem
<1> HIDE DEF due, stop, item
<1>3. /\ IsPostList(synced) /\ SameUrls(synced, old)
      /\ IsPostList(new') /\ SameUrls(new', new)
  BY <1>1, <1>2, SyncedIs DEF HeldInv
<1>4. IsPostList(old') /\ SameUrls(old', old) /\ faults' \in 0..MaxFaults
  <2>0. faults \in 0..MaxFaults
    BY DEF PlaceInv
  <2>1. CASE /\ due /\ Readable(u)
             /\ old' = IF ~item.permanent /\ Stale(day[u]) THEN synced ELSE Updated(synced, u)
    <3>1. u \in Posted /\ faults' = faults
      BY <2>1 DEF Readable
    <3>2. /\ title[u] \in Titles /\ title[u] \in TitlesOf[u] /\ version[u] \in 0..MaxEdits
          /\ day[u] \in 1..MaxDay
      BY <3>1, <1>2, ReadableHas
    <3> HIDE DEF synced, u
    <3>3. IsPostList(Updated(synced, u)) /\ SameUrls(Updated(synced, u), synced)
      BY <3>2, <1>2, <1>3, UpdatedIs
    <3>4. SameUrls(Updated(synced, u), old)
      BY <3>3, <1>3 DEF SameUrls
    <3>5. old' = synced \/ old' = Updated(synced, u)
      BY <2>1
    <3> QED
      BY <3>1, <3>3, <3>4, <3>5, <2>0, <1>3
  <2>2. CASE due /\ Unreadable(u) /\ old' = synced
    BY <2>2, <1>3, UnreadableKeeps
  <2>3. CASE ~due /\ UNCHANGED faults /\ old' = synced
    BY <2>0, <2>3, <1>3
  <2> QED
    BY <1>1, <2>1, <2>2, <2>3
<1>5. done' \subseteq Url
  BY <1>1, <1>2 DEF PlaceInv
<1>6. CASE stop
  <2>1. NextBoard /\ seen' = Known
    BY <1>1, <1>6 DEF LeaveIf
  <2> QED
    BY <2>1, <1>1, <1>3, <1>4, <1>5, LeavingKeeps
<1>7. CASE ~stop
  <2>1. queue' = Tail(queue) /\ UNCHANGED <<at, board, page, seen, pages, stopAfter>>
    BY <1>1, <1>7 DEF LeaveIf, Rest
  <2>2. /\ Covered(old') = Covered(old) /\ Covered(new') = Covered(new)
        /\ Apart(old') /\ Apart(new')
    BY <1>3, <1>4, SameUrlsKeep DEF HeldInv
  <2>3. HeldInv'
    BY <1>1, <1>3, <1>4, <2>1, <2>2 DEF HeldInv
  <2>4. PlaceInv'
    BY <1>1, <1>2, <1>4, <1>5, <2>1 DEF PlaceInv
  <2> QED
    BY <2>3, <2>4
<1> QED
  BY <1>6, <1>7

LEMMA NewItemKeeps ==
  ASSUME BoardsInv, HeldInv, PlaceInv, NewItem
  PROVE  HeldInv' /\ PlaceInv'
<1> DEFINE item == Head(queue)
           u == item.url
           stop == ~item.permanent /\ Stale(day[item.url])
           post == Fetched(u, item.permanent)
<1>1. /\ at = "items" /\ queue # <<>> /\ u \notin seen /\ u \in Posted
      /\ UNCHANGED <<old, since, faults>>
  BY DEF NewItem, Readable
<1>2. item \in PageItem /\ u \in Url /\ Tail(queue) \in Seq(PageItem)
  BY <1>1, HeadItem
<1>3. CASE stop
  <2>1. NextBoard /\ seen' = Known /\ UNCHANGED <<new, done>>
    BY <1>3 DEF NewItem
  <2> QED
    BY <2>1, <1>1, LeavingKeeps, SameUrlsOfSame DEF HeldInv, PlaceInv
<1>4. CASE ~stop
  <2>1. /\ new' = Append(new, post)
        /\ done' = done \cup {u} /\ queue' = Tail(queue) /\ seen' = seen \cup {u}
        /\ UNCHANGED <<at, board, page, pages, stopAfter>>
    BY <1>4 DEF NewItem
  <2>2. /\ title[u] \in Titles /\ title[u] \in TitlesOf[u] /\ version[u] \in 0..MaxEdits
        /\ day[u] \in 1..MaxDay
    BY <1>1, <1>2, ReadableHas
  <2>3. item.permanent \in BOOLEAN
    BY <1>2 DEF PageItem
  <2>4. post \in Posts /\ post.title \in TitlesOf[post.url] /\ UrlsOf(post) = {u}
    <3>1. post = [url |-> u, title |-> title[u], version |-> version[u], day |-> day[u],
                  permanent |-> item.permanent, meta |-> {}]
      BY DEF Fetched
    <3> HIDE DEF post, u, item
    <3>2. post \in Posts
      BY <3>1, <2>2, <2>3, <1>2 DEF Posts
    <3> QED
      BY <3>1, <3>2, <2>2 DEF UrlsOf
  <2> HIDE DEF post, u, item
  <2>5. Covered(old) \cup Covered(new) \subseteq seen /\ board <= NumBoards
    BY <1>1 DEF HeldInv, PlaceInv
  <2>6. /\ IsPostList(new') /\ Apart(new') /\ Covered(new') = Covered(new) \cup {u}
    <3>1. UrlsOf(post) \cap Covered(new) = {}
      BY <1>1, <2>4, <2>5
    <3> QED
      BY <2>1, <2>4, <3>1, AppendedPost DEF HeldInv
  <2>7. HeldInv'
    BY <1>1, <2>1, <2>5, <2>6 DEF HeldInv
  <2>8. PlaceInv'
    BY <1>1, <1>2, <2>1, <2>5 DEF PlaceInv
  <2> QED
    BY <2>7, <2>8
<1> QED
  BY <1>3, <1>4

LEMMA NewItemFailsKeeps ==
  ASSUME HeldInv, PlaceInv, NewItemFails
  PROVE  HeldInv' /\ PlaceInv'
<1>1. /\ at = "items" /\ queue # <<>> /\ queue' = Tail(queue)
      /\ seen' = seen \cup {Head(queue).url} /\ Unreadable(Head(queue).url)
      /\ UNCHANGED <<at, old, new, since, done, board, page, pages, stopAfter>>
  BY DEF NewItemFails
<1>2. Head(queue).url \in Url /\ Tail(queue) \in Seq(PageItem)
  BY <1>1, HeadItem
<1>3. faults' \in 0..MaxFaults
  BY <1>1, UnreadableKeeps
<1>4. HeldInv'
  BY <1>1 DEF HeldInv
<1>5. PlaceInv'
  BY <1>1, <1>2, <1>3 DEF PlaceInv
<1> QED
  BY <1>4, <1>5

LEMMA FinishKeeps ==
  ASSUME Finish, faults' \in 0..MaxFaults
  PROVE  HeldInv' /\ PlaceInv'
<1> USE CrawlAssumption
<1>1. /\ at' = "idle" /\ old' = <<>> /\ new' = <<>> /\ since' = 0 /\ done' = {}
      /\ board' = 1 /\ page' = 1 /\ seen' = {} /\ pages' = {} /\ queue' = <<>>
      /\ stopAfter' = FALSE
  BY DEF Finish
<1>2. HeldInv'
  BY <1>1, NoPosts DEF HeldInv
<1>3. queue' \in Seq(PageItem)
  BY <1>1
<1>4. 1 \in 1..(NumBoards + 1) /\ 1 <= NumBoards /\ 0 \in 0..MaxDay
  OBVIOUS
<1>5. at' \in {"idle", "list", "items", "save"} /\ since' \in 0..MaxDay
      /\ board' \in 1..(NumBoards + 1) /\ page' \in Nat \ {0} /\ board' <= NumBoards
  BY <1>1, <1>4
<1>6. done' \subseteq Url /\ seen' \subseteq Url /\ pages' \subseteq Seq(Url)
      /\ stopAfter' \in BOOLEAN
  BY <1>1
<1>7. PlaceInv'
  BY <1>3, <1>5, <1>6 DEF PlaceInv
<1> QED
  BY <1>2, <1>7

LEMMA SaveKeeps ==
  ASSUME HeldInv, Save
  PROVE  StoreInv'
<1>1. store' = Pruned(Merged(old \o new))
  BY DEF Save
<1>2. IsPostList(old \o new) /\ Apart(old \o new)
  BY ApartJoined DEF HeldInv
<1> QED
  BY <1>1, <1>2, SavedOnce DEF StoreInv

LEMMA CrawlerStep ==
  ASSUME CrawlInv, Crawler
  PROVE  CrawlInv'
<1>0. BoardsInv /\ StoreInv /\ HeldInv /\ PlaceInv
  BY DEF CrawlInv
<1>1. BoardsInv'
  <2>1. /\ UNCHANGED <<today, lists, pinned, title, version, day, edits, pins, shifts>>
        /\ touched' = touched \/ touched' = {}
    BY DEF Crawler, StartCrawl, ListFails, ListEnds, ReadPage, EndPage, KnownItem, NewItem,
           NewItemFails, Save, Abandon, site
  <2>2. Posted' = Posted
    BY <2>1 DEF Posted
  <2>3. touched' \subseteq Url
    BY <1>0, <2>1 DEF BoardsInv
  <2> QED
    BY <1>0, <2>1, <2>2, <2>3 DEF BoardsInv
<1>2. StoreInv'
  <2>1. CASE Save
    BY <1>0, <2>1, SaveKeeps
  <2>2. CASE ~Save
    <3>1. store' = store
      BY <2>2 DEF Crawler, StartCrawl, ListFails, ListEnds, ReadPage, EndPage, KnownItem,
                  NewItem, NewItemFails, Abandon
    <3> QED
      BY <1>0, <3>1 DEF StoreInv
  <2> QED
    BY <2>1, <2>2
<1>3. HeldInv' /\ PlaceInv'
  <2>1. CASE Save \/ Abandon
    <3>1. Finish /\ faults' \in 0..MaxFaults
      BY <1>0, <2>1, CrawlAssumption DEF Save, Abandon, PlaceInv
    <3> QED
      BY <3>1, FinishKeeps
  <2> QED
    BY <1>0, <2>1, StartCrawlKeeps, EndsKeep, ReadPageKeeps, EndPageKeeps, KnownItemKeeps,
       NewItemKeeps, NewItemFailsKeeps DEF Crawler
<1> QED
  BY <1>1, <1>2, <1>3 DEF CrawlInv

LEMMA CrawlStep == CrawlInv /\ [Next]_vars => CrawlInv'
<1> SUFFICES ASSUME CrawlInv, [Next]_vars PROVE CrawlInv'
  OBVIOUS
<1>1. CASE UNCHANGED vars
  <2>1. UNCHANGED <<site, store, crawl, faults>>
    BY <1>1 DEF vars
  <2>2. Posted' = Posted
    BY <2>1 DEF Posted, site
  <2> QED
    BY <2>1, <2>2
       DEF CrawlInv, BoardsInv, StoreInv, HeldInv, PlaceInv, site, crawl
<1>2. CASE Next
  BY <1>2, BoardsStep, CrawlerStep DEF Next
<1> QED
  BY <1>1, <1>2

LEMMA CrawlHolds == Spec => []CrawlInv
BY CrawlInitially, CrawlStep, PTL DEF Spec

------------------------------------------------------------------------------
\* The crawler's state is well formed in every run, whatever the boards do:
\* lists of posts, pages and items, each notice on the list of its own board
\* (main.py:92-160, board_crawler.py:440-674).
THEOREM CrawlTyping == Spec => []TypeOK
BY CrawlHolds, InvTypes, PTL

\* No URL and no title is stored twice, after any number of crawls of any
\* boards, with failed requests, edited titles and notices that are pinned,
\* moved and taken down under the crawl (main.py:143-157,
\* dedup_service.py:145-204).
THEOREM StoredOnce == Spec => []NoticesAreStoredOnce
<1>1. CrawlInv => NoticesAreStoredOnce
  BY DEF CrawlInv, StoreInv, Apart, TitlesDiffer, NoticesAreStoredOnce
<1> QED
  BY <1>1, CrawlHolds, PTL

------------------------------------------------------------------------------
(* Pages *)

\* The notices a board divides into pages, and how many of them are above u.
Paged(b) == IF b \in PinsRepeat THEN On(b) \ pinned ELSE On(b)
RankOf(b, u) == Cardinality({v \in Paged(b) : Above(b, v, u)})

LEMMA BoardIs ==
  ASSUME BoardsInv, NEW b \in 1..NumBoards
  PROVE  /\ lists[b] \in Seq(Url) /\ IsInjective(lists[b])
         /\ \A u \in On(b) : u \in Url /\ BoardOf[u] = b /\ day[u] # 0 /\ u \in Posted
<1>1. lists[b] \in Seq(Url) /\ IsInjective(lists[b])
  BY DEF BoardsInv
<1>2. ASSUME NEW u \in On(b) PROVE u \in Url /\ BoardOf[u] = b /\ day[u] # 0 /\ u \in Posted
  <2>1. PICK i \in DOMAIN lists[b] : u = lists[b][i]
    BY DEF On, ToSet
  <2> QED
    BY <2>1, <1>1, ElementsOf, PostedIs DEF BoardsInv
<1> QED
  BY <1>1, <1>2

\* Ranks number the paged notices from 0, in the order the board shows them.
LEMMA RanksAre ==
  ASSUME BoardsInv, NEW b \in 1..NumBoards
  PROVE  /\ Paged(b) \subseteq On(b)
         /\ \A u \in On(b) : RankOf(b, u) \in Nat
         /\ \A u, v \in On(b) : Above(b, u, v) => RankOf(b, u) <= RankOf(b, v)
         /\ \A u \in Paged(b), v \in On(b) : Above(b, u, v) => RankOf(b, u) < RankOf(b, v)
         /\ \A u, v \in Paged(b) : RankOf(b, u) <= RankOf(b, v) => u = v \/ Above(b, u, v)
         /\ \A u \in Paged(b) : \A k \in Nat :
              k <= RankOf(b, u) => \E w \in Paged(b) : RankOf(b, w) = k
         /\ \A u \in Paged(b) : RankOf(b, u) < Cardinality(Url)
         /\ \A u \in On(b) \ Paged(b) : u \in pinned /\ RankOf(b, u) = 0
<1> DEFINE P == Paged(b)
           A(u) == {v \in P : Above(b, v, u)}
           R == {p \in P \X P : Above(b, p[1], p[2])}
<1>1. P \subseteq On(b) /\ \A u \in On(b) \ P : u \in pinned /\ \A v \in P : v \notin pinned
  BY DEF Paged
<1>2. /\ IsFiniteSet(On(b)) /\ On(b) \subseteq Url
      /\ \A u \in On(b) : ~Above(b, u, u)
      /\ \A u, v, w \in On(b) : Above(b, u, v) /\ Above(b, v, w) => Above(b, u, w)
      /\ \A u, v \in On(b) : u = v \/ Above(b, u, v) \/ Above(b, v, u)
  BY BoardIs, BoardOrders
<1>3. IsFiniteSet(P) /\ IsFiniteSet(Url) /\ P \subseteq Url
  BY <1>1, <1>2, FS_Subset, CrawlAssumption
<1>4. \A u : RankOf(b, u) = Cardinality(A(u)) /\ A(u) \subseteq P
  BY DEF RankOf
<1>5. \A u : IsFiniteSet(A(u)) /\ RankOf(b, u) \in Nat
  BY <1>3, <1>4, FS_Subset, FS_CardinalityType
<1>6. \A u, v \in P : <<u, v>> \in R <=> Above(b, u, v)
  OBVIOUS
<1>7. \A u \in P : A(u) = Below(R, P, u)
  BY DEF Below
<1>a. \A u, v : v \in A(u) <=> v \in P /\ Above(b, v, u)
  OBVIOUS
<1> HIDE DEF P, A, R
<1>8. Strict(R, P)
  <2>1. \A x \in P : <<x, x>> \notin R
    BY <1>1, <1>2, <1>6
  <2>2. \A x, y, z \in P : <<x, y>> \in R /\ <<y, z>> \in R => <<x, z>> \in R
    BY <1>1, <1>2, <1>6
  <2>3. \A x, y \in P : x = y \/ <<x, y>> \in R \/ <<y, x>> \in R
    BY <1>1, <1>2, <1>6
  <2> QED
    BY <2>1, <2>2, <2>3 DEF Strict
<1>9. /\ Cardinality(P) \in Nat
      /\ \A u \in P : RankOf(b, u) + 1 \in 1 .. Cardinality(P)
      /\ \A k \in 1 .. Cardinality(P) : \E u \in P : RankOf(b, u) = k - 1
      /\ \A u, v \in P : RankOf(b, u) = RankOf(b, v) => u = v
  <2>1. /\ Cardinality(P) \in Nat
        /\ \A u \in P : Cardinality(Below(R, P, u)) + 1 \in 1 .. Cardinality(P)
        /\ \A k \in 1 .. Cardinality(P) : \E u \in P : Cardinality(Below(R, P, u)) = k - 1
        /\ \A u, v \in P : Cardinality(Below(R, P, u)) = Cardinality(Below(R, P, v)) => u = v
    BY Ranked, <1>3, <1>8
  <2>2. \A u \in P : RankOf(b, u) = Cardinality(Below(R, P, u))
    BY <1>4, <1>7
  <2> QED
    BY <2>1, <2>2
<1>10. ASSUME NEW u \in On(b), NEW v \in On(b), Above(b, u, v)
       PROVE  RankOf(b, u) <= RankOf(b, v)
  <2>1. A(u) \subseteq A(v)
    BY <1>10, <1>1, <1>2, <1>a
  <2> QED
    BY <2>1, <1>4, <1>5, FS_Subset
<1>11. ASSUME NEW u \in P, NEW v \in On(b), Above(b, u, v)
       PROVE  RankOf(b, u) < RankOf(b, v)
  <2>1. A(u) \cup {u} \subseteq A(v) /\ u \notin A(u)
    BY <1>11, <1>1, <1>2, <1>a
  <2>2. Cardinality(A(u) \cup {u}) = Cardinality(A(u)) + 1
    BY <2>1, <1>5, FS_AddElement
  <2>3. Cardinality(A(u) \cup {u}) <= Cardinality(A(v))
    BY <2>1, <1>5, FS_Subset
  <2> QED
    BY <2>2, <2>3, <1>4, <1>5
<1>12. ASSUME NEW u \in P, NEW v \in P, RankOf(b, u) <= RankOf(b, v)
       PROVE  u = v \/ Above(b, u, v)
  <2>1. Above(b, v, u) => RankOf(b, v) < RankOf(b, u)
    BY <1>11, <1>1
  <2>2. ~Above(b, v, u)
    BY <2>1, <1>12, <1>5
  <2> QED
    BY <2>2, <1>1, <1>2
<1>13. ASSUME NEW u \in P, NEW k \in Nat, k <= RankOf(b, u)
       PROVE  \E w \in P : RankOf(b, w) = k
  <2>1. k + 1 \in 1 .. Cardinality(P)
    BY <1>13, <1>9, <1>5
  <2>2. PICK w \in P : RankOf(b, w) = (k + 1) - 1
    BY <2>1, <1>9
  <2> QED
    BY <2>2
<1>14. ASSUME NEW u \in P PROVE RankOf(b, u) < Cardinality(Url)
  <2>1. Cardinality(P) <= Cardinality(Url) /\ Cardinality(Url) \in Nat
    BY <1>3, FS_Subset, FS_CardinalityType
  <2> QED
    BY <2>1, <1>5, <1>9
<1>15. ASSUME NEW u \in On(b) \ P PROVE u \in pinned /\ RankOf(b, u) = 0
  <2>1. u \in pinned /\ \A v \in P : v \notin pinned
    BY <1>1
  <2>2. \A v \in P : ~Above(b, v, u)
    BY <2>1 DEF Above
  <2>3. A(u) = {}
    BY <2>2, <1>a
  <2> QED
    BY <2>1, <2>3, <1>4, FS_EmptySet
<1>16. \A u \in On(b) : RankOf(b, u) \in Nat
  BY <1>5
<1> QED
  BY <1>1, <1>10, <1>11, <1>12, <1>13, <1>14, <1>15, <1>16 DEF P

\* The rank of the first notice of page p.
Lo(p) == (p - 1) * PageLen

LEMMA LoIs ==
  ASSUME NEW p \in Nat \ {0}
  PROVE  Lo(p) \in Nat /\ Lo(p + 1) = Lo(p) + PageLen /\ Lo(p + 1) \in Nat /\ Lo(1) = 0
<1> USE CrawlAssumption
<1>1. p - 1 \in Nat /\ (p + 1) - 1 = (p - 1) + 1 /\ 1 - 1 = 0
  OBVIOUS
<1> DEFINE q == p - 1
<1> HIDE DEF q
<1>2. q \in Nat
  BY <1>1 DEF q
<1>3. (q + 1) * PageLen = q * PageLen + PageLen /\ q * PageLen \in Nat /\ 0 * PageLen = 0
  BY <1>2
<1> QED
  BY <1>1, <1>3 DEF Lo, q

\* A rank is on page p when it is from Lo(p) to below Lo(p + 1).
LEMMA PageOfRank ==
  ASSUME NEW r \in Nat, NEW p \in Nat \ {0}
  PROVE  /\ r \div PageLen + 1 \in Nat
         /\ r \div PageLen + 1 < p <=> r < Lo(p)
         /\ r \div PageLen + 1 = p <=> Lo(p) <= r /\ r < Lo(p + 1)
<1> USE CrawlAssumption
<1> DEFINE d == r \div PageLen
           q == p - 1
<1>1. d \in Nat /\ d * PageLen <= r /\ r < (d + 1) * PageLen
  OBVIOUS
<1>2. q \in Nat /\ p = q + 1
  OBVIOUS
<1> HIDE DEF d, q
<1>3. Lo(p) = q * PageLen /\ Lo(p + 1) = (q + 1) * PageLen
  BY <1>2 DEF Lo
<1>4. \A x, y \in Nat : x <= y => x * PageLen <= y * PageLen
  OBVIOUS
<1>5. /\ q * PageLen \in Nat /\ (q + 1) * PageLen \in Nat
      /\ d * PageLen \in Nat /\ (d + 1) * PageLen \in Nat
  BY <1>1, <1>2
<1>6. d < q => r < q * PageLen
  <2>1. d < q => d + 1 <= q
    BY <1>1, <1>2
  <2>2. d + 1 <= q => (d + 1) * PageLen <= q * PageLen
    BY <1>1, <1>2, <1>4
  <2> QED
    BY <2>1, <2>2, <1>1, <1>5
<1>7. q <= d => q * PageLen <= r
  BY <1>1, <1>2, <1>4, <1>5
<1>8. d <= q => r < (q + 1) * PageLen
  <2>1. d <= q => (d + 1) * PageLen <= (q + 1) * PageLen
    BY <1>1, <1>2, <1>4
  <2> QED
    BY <2>1, <1>1, <1>5
<1>9. q < d => (q + 1) * PageLen <= r
  <2>1. q < d => (q + 1) * PageLen <= d * PageLen
    BY <1>1, <1>2, <1>4
  <2> QED
    BY <2>1, <1>1, <1>5
<1>10. /\ d + 1 \in Nat
       /\ d + 1 < p <=> d < q
       /\ d + 1 = p <=> q <= d /\ d <= q
  BY <1>1, <1>2
<1>11. /\ d < q <=> r < q * PageLen
       /\ q <= d /\ d <= q <=> q * PageLen <= r /\ r < (q + 1) * PageLen
  BY <1>1, <1>2, <1>5, <1>6, <1>7, <1>8, <1>9
<1> QED
  BY <1>3, <1>10, <1>11 DEF d

\* What page p of a board shows: the notices of its ranks; where the board
\* repeats them, pinned ones; past the end nothing else or some last notices.
LEMMA ShownIs ==
  ASSUME BoardsInv, NEW b \in 1..NumBoards, NEW p \in Nat \ {0}
  PROVE  /\ Shown(b, p) \subseteq On(b)
         /\ On(b) \ Paged(b) \subseteq Shown(b, p)
         /\ \A v \in Paged(b) :
              Lo(p) <= RankOf(b, v) /\ RankOf(b, v) < Lo(p + 1) => v \in Shown(b, p)
         /\ \A u \in Shown(b, p) : RankOf(b, u) < Lo(p + 1)
         /\ \A u \in Shown(b, p) \cap Paged(b), v \in Paged(b) :
              Above(b, u, v) /\ RankOf(b, v) < Lo(p + 1) => v \in Shown(b, p)
<1> DEFINE all == On(b)
           P == Paged(b)
           PageOf(u) == RankOf(b, u) \div PageLen + 1
           last == {u \in P : \A v \in P : PageOf(v) <= PageOf(u)}
           past == b \in LastRepeats /\ \A u \in P : PageOf(u) < p
           S == Shown(b, p)
<1>1. S = (IF b \in PinsRepeat THEN all \cap pinned ELSE {}) \cup
          (IF past THEN last ELSE {u \in P : PageOf(u) = p})
  BY DEF Shown, Paged, On, RankOf
<1>2. P \subseteq all /\ all \ P = IF b \in PinsRepeat THEN all \cap pinned ELSE {}
  BY DEF Paged
<1>3. \A u \in all : RankOf(b, u) \in Nat
  BY RanksAre
<1>4. \A u \in P : /\ PageOf(u) \in Nat
                   /\ PageOf(u) < p <=> RankOf(b, u) < Lo(p)
                   /\ PageOf(u) = p <=> Lo(p) <= RankOf(b, u) /\ RankOf(b, u) < Lo(p + 1)
  BY <1>2, <1>3, PageOfRank
<1>5. Lo(p) \in Nat /\ Lo(p + 1) = Lo(p) + PageLen /\ Lo(p + 1) \in Nat /\ PageLen \in Nat \ {0}
  BY LoIs, CrawlAssumption
<1>6. /\ \A u : u \in S <=> u \in all \ P \/ u \in IF past THEN last ELSE {v \in P : PageOf(v) = p}
  BY <1>1, <1>2
<1>p. past => \A u \in P : PageOf(u) < p
  OBVIOUS
<1>l. \A u : u \in last <=> u \in P /\ \A v \in P : PageOf(v) <= PageOf(u)
  OBVIOUS
<1> HIDE DEF all, P, PageOf, last, past, S
<1>7. S \subseteq all /\ all \ P \subseteq S
  BY <1>2, <1>6, <1>l
<1>8. \A v \in P : Lo(p) <= RankOf(b, v) /\ RankOf(b, v) < Lo(p + 1) => v \in S
  <2> SUFFICES ASSUME NEW v \in P, Lo(p) <= RankOf(b, v), RankOf(b, v) < Lo(p + 1) PROVE v \in S
    OBVIOUS
  <2>1. PageOf(v) = p
    BY <1>4
  <2>2. ~past
    BY <2>1, <1>p, <1>4
  <2> QED
    BY <2>1, <2>2, <1>6
<1>9. ASSUME NEW u \in S PROVE RankOf(b, u) < Lo(p + 1)
  <2>1. CASE u \in all \ P
    <3>1. RankOf(b, u) = 0
      BY <2>1, RanksAre DEF all, P
    <3> QED
      BY <3>1, <1>5
  <2>2. CASE past /\ u \in last
    <3>1. u \in P /\ RankOf(b, u) < Lo(p)
      BY <2>2, <1>p, <1>l, <1>4
    <3> QED
      BY <3>1, <1>2, <1>3, <1>5
  <2>3. CASE ~past /\ u \in P /\ PageOf(u) = p
    BY <2>3, <1>4
  <2> QED
    BY <2>1, <2>2, <2>3, <1>6
<1>10. ASSUME NEW u \in S, u \in P, NEW v \in P, Above(b, u, v), RankOf(b, v) < Lo(p + 1)
       PROVE  v \in S
  <2>1. u \in all /\ v \in all /\ RankOf(b, u) < RankOf(b, v)
    BY <1>2, <1>10, RanksAre DEF all, P
  <2>2. CASE past
    <3>1. u \in last
      BY <2>2, <1>6, <1>10
    <3>2. PageOf(u) <= PageOf(v)
      BY <2>1, <1>3, <1>10, CrawlAssumption DEF PageOf
    <3>3. v \in last
      BY <3>1, <3>2, <1>l, <1>4, <1>10
    <3> QED
      BY <3>3, <2>2, <1>6
  <2>3. CASE ~past
    <3>1. PageOf(u) = p
      BY <2>3, <1>6, <1>10
    <3> QED
      BY <3>1, <2>1, <1>3, <1>4, <1>5, <1>8, <1>10
  <2> QED
    BY <2>2, <2>3
<1> QED
  BY <1>7, <1>8, <1>9, <1>10 DEF all, P, S

------------------------------------------------------------------------------
(* What saving keeps *)

\* A post and its sources have the days of their notices, and a merged post is
\* one of its own sources.
DatedPost(p, d) ==
  /\ p.day = d[p.url]
  /\ \A m \in p.meta : m.day = d[m.url]
  /\ p.meta # {} => \E m \in p.meta : m.url = p.url
Dated(posts, d) == \A i \in DOMAIN posts : DatedPost(posts[i], d)

\* Wherever v is stored, it is stored as permanent.
FlaggedPost(p, v) ==
  /\ p.meta = {} /\ p.url = v => p.permanent
  /\ \A m \in p.meta : m.url = v => m.permanent
Flagged(posts, v) == \A i \in DOMAIN posts : FlaggedPost(posts[i], v)

\* Posts that are merged into earlier ones have no sources to lose.
LaterPlain(posts) ==
  \A i, j \in DOMAIN posts :
    i < j /\ posts[i].title = posts[j].title => posts[j].meta = {}

LEMMA KeptByUrl ==
  ASSUME NEW posts, IsPostList(posts), Apart(posts)
  PROVE  LET r == MergedByUrl(posts)
         IN  /\ \A k \in DOMAIN r : \E i \in DOMAIN posts : r[k] = posts[i]
             /\ \A i \in DOMAIN posts : \E k \in DOMAIN r : r[k] = posts[i]
             /\ LaterPlain(posts) => LaterPlain(r)
<1> DEFINE D == DOMAIN posts
           Same(i) == {j \in D : posts[j].url = posts[i].url}
           Perm(i) == \E j \in Same(i) : posts[j].permanent
           merged == [i \in D |-> [posts[i] EXCEPT !.permanent = Perm(i)]]
           places == {i \in D : \A j \in Same(i) : i <= j}
           r == MergedByUrl(posts)
<1>1. posts \in Seq(Posts)
  BY DEF IsPostList
<1>2. D = 1 .. Len(posts) /\ Len(posts) \in Nat /\ \A i \in D : posts[i] \in Posts
  BY <1>1, ElementsOf
<1>3. r = Picked(merged, places)
  BY DEF MergedByUrl
<1>4. \A i \in D : \A j \in Same(i) : i = j
  <2> SUFFICES ASSUME NEW i \in D, NEW j \in Same(i) PROVE i = j
    OBVIOUS
  <2>1. j \in D /\ posts[i].url \in UrlsOf(posts[i]) /\ posts[i].url \in UrlsOf(posts[j])
    BY DEF UrlsOf
  <2> QED
    BY <2>1 DEF Apart
<1>5. \A i \in D : i \in Same(i)
  OBVIOUS
<1>6. \A i \in D : Perm(i) <=> posts[i].permanent
  BY <1>4, <1>5
<1>7. places = D
  BY <1>4, <1>2
<1>8. ASSUME NEW i \in D PROVE merged[i] = posts[i]
  <2>1. Perm(i) = posts[i].permanent
    <3>1. posts[i].permanent \in BOOLEAN /\ Perm(i) \in BOOLEAN
      <4>1. posts[i].permanent \in BOOLEAN
        BY <1>2 DEF Posts
      <4>2. Perm(i) \in BOOLEAN
        BY Zenon
      <4> QED
        BY <4>1, <4>2
    <3> HIDE DEF Perm
    <3> QED
      BY <3>1, <1>6
  <2>2. merged[i] = [posts[i] EXCEPT !.permanent = Perm(i)]
    OBVIOUS
  <2> HIDE DEF Perm, merged
  <2> QED
    BY <2>1, <2>2, <1>2 DEF Posts
<1>9. merged = posts
  <2>1. DOMAIN merged = D /\ merged = [i \in D |-> merged[i]] /\ posts = [i \in D |-> posts[i]]
    BY <1>1
  <2> HIDE DEF merged
  <2> QED
    BY <2>1, <1>8
<1> HIDE DEF merged, places, D, r
<1>10. r = Picked(posts, D)
  BY <1>3, <1>7, <1>9
<1>11. \E place \in [DOMAIN r -> D] :
         /\ \A k \in DOMAIN r : r[k] = posts[place[k]]
         /\ \A i \in D : \E k \in DOMAIN r : place[k] = i
         /\ \A k, l \in DOMAIN r : k < l => place[k] < place[l]
  <2>1. D \in SUBSET (DOMAIN posts)
    BY DEF D
  <2> QED
    BY <2>1, <1>1, <1>10, PickedIs
<1>12. PICK place \in [DOMAIN r -> D] :
         /\ \A k \in DOMAIN r : r[k] = posts[place[k]]
         /\ \A i \in D : \E k \in DOMAIN r : place[k] = i
         /\ \A k, l \in DOMAIN r : k < l => place[k] < place[l]
  BY <1>11
<1>13. \A k \in DOMAIN r : \E i \in D : r[k] = posts[i]
  BY <1>12
<1>14. \A i \in D : \E k \in DOMAIN r : r[k] = posts[i]
  <2> SUFFICES ASSUME NEW i \in D PROVE \E k \in DOMAIN r : r[k] = posts[i]
    OBVIOUS
  <2>1. PICK k \in DOMAIN r : place[k] = i
    BY <1>12
  <2> QED
    BY <2>1, <1>12
<1>15. LaterPlain(posts) => LaterPlain(r)
  <2>1. \A k \in DOMAIN r : place[k] \in D
    BY <1>12
  <2> QED
    BY <2>1, <1>12 DEF LaterPlain, D
<1> QED
  BY <1>13, <1>14, <1>15 DEF r, D

\* The post that stays keeps what was flagged, and the URLs of the others.
LEMMA AbsorbedKeeps ==
  ASSUME NEW post \in Posts, NEW dups \in SUBSET Posts, NEW d,
         DatedPost(post, d), \A dup \in dups : DatedPost(dup, d)
  PROVE  LET r == Absorbed(post, dups)
         IN  /\ DatedPost(r, d)
             /\ UrlsOf(post) \cup {dup.url : dup \in dups} \subseteq UrlsOf(r)
             /\ \A v : FlaggedPost(post, v) /\ (\A dup \in dups : dup.url = v => dup.permanent)
                         => FlaggedPost(r, v)
<1> DEFINE sources == IF post.meta = {} THEN {Entry(post)} ELSE post.meta
           added == {Entry(dup) : dup \in {dup \in dups : \A m \in sources : m.url # dup.url}}
           perm == post.permanent \/ \E dup \in dups : dup.permanent
           all == sources \cup added
           r == [post EXCEPT !.meta = all, !.permanent = perm]
<1>1. Absorbed(post, dups) = IF dups = {} THEN post ELSE r
  BY DEF Absorbed
<1>2. \A p : Entry(p).url = p.url /\ Entry(p).day = p.day /\ Entry(p).permanent = p.permanent
  BY DEF Entry
<1>3. \A m \in sources : \/ m \in post.meta
                         \/ post.meta = {} /\ m = Entry(post)
  OBVIOUS
<1>4. \A m \in added : \E dup \in dups : m = Entry(dup)
  OBVIOUS
<1>5. \A dup \in dups : \E m \in all : m.url = dup.url
  <2> SUFFICES ASSUME NEW dup \in dups PROVE \E m \in all : m.url = dup.url
    OBVIOUS
  <2>1. CASE \A m \in sources : m.url # dup.url
    <3>1. Entry(dup) \in added
      BY <2>1
    <3> HIDE DEF added, sources
    <3> QED
      BY <3>1, <1>2
  <2>2. CASE ~\A m \in sources : m.url # dup.url
    <3> HIDE DEF added, sources
    <3> QED
      BY <2>2
  <2> QED
    BY <2>1, <2>2
<1>6. /\ \A u \in {m.url : m \in post.meta} : \E m \in all : m.url = u
      /\ \E m \in all : m.url = post.url
  <2>1. CASE post.meta = {}
    <3>1. Entry(post) \in sources
      BY <2>1
    <3> HIDE DEF added, sources
    <3> QED
      BY <3>1, <2>1, <1>2
  <2>2. CASE post.meta # {}
    <3>1. sources = post.meta
      BY <2>2
    <3> HIDE DEF added, sources
    <3> QED
      BY <3>1, <2>2 DEF DatedPost
  <2> QED
    BY <2>1, <2>2
<1>7. \A m \in all : \/ m \in post.meta
                     \/ post.meta = {} /\ m = Entry(post)
                     \/ \E dup \in dups : m = Entry(dup)
  <2> HIDE DEF sources, added
  <2> QED
    BY <1>3, <1>4
<1>8. \A m \in all : m.day = d[m.url]
  BY <1>7, <1>2 DEF DatedPost
<1>r. r = [post EXCEPT !.meta = all, !.permanent = perm]
  OBVIOUS
<1> HIDE DEF sources, added, perm, all, r
<1>9. r.url = post.url /\ r.day = post.day /\ r.meta = all
  BY <1>r DEF Posts
<1>10. DatedPost(r, d)
  BY <1>6, <1>8, <1>9 DEF DatedPost
<1>11. UrlsOf(post) \cup {dup.url : dup \in dups} \subseteq UrlsOf(r)
  <2>1. UrlsOf(r) = {post.url} \cup {m.url : m \in all}
    BY <1>9 DEF UrlsOf
  <2>2. UrlsOf(post) = {post.url} \cup {m.url : m \in post.meta}
    BY DEF UrlsOf
  <2> QED
    BY <2>1, <2>2, <1>5, <1>6
<1>12. ASSUME NEW v, FlaggedPost(post, v), \A dup \in dups : dup.url = v => dup.permanent
       PROVE  FlaggedPost(r, v)
  <2>1. \A m \in all : m.url = v => m.permanent
    BY <1>2, <1>7, <1>12 DEF FlaggedPost
  <2>2. all # {}
    BY <1>6
  <2> QED
    BY <2>1, <2>2, <1>9 DEF FlaggedPost
<1>13. CASE dups = {}
  BY <1>1, <1>13
<1>14. CASE dups # {}
  BY <1>1, <1>10, <1>11, <1>12, <1>14
<1> QED
  BY <1>13, <1>14

\* Merging by title keeps every URL and every flag, when no post that is merged
\* into an earlier one has sources of its own.
LEMMA KeptByTitle ==
  ASSUME NEW posts, IsPostList(posts), NEW d, Dated(posts, d)
  PROVE  LET r == MergedByTitle(posts)
         IN  /\ Dated(r, d)
             /\ LaterPlain(posts) =>
                  /\ Covered(posts) \subseteq Covered(r)
                  /\ \A v : Flagged(posts, v) => Flagged(r, v)
<1> DEFINE D == DOMAIN posts
           Same(i) == {j \in D : posts[j].title = posts[i].title}
           Dups(i) == {posts[j] : j \in Same(i) \ {i}}
           merged == [i \in D |-> Absorbed(posts[i], Dups(i))]
           places == {i \in D : \A j \in Same(i) : i <= j}
           r == MergedByTitle(posts)
<1>1. posts \in Seq(Posts)
  BY DEF IsPostList
<1>2. D = 1 .. Len(posts) /\ Len(posts) \in Nat /\ \A i \in D : posts[i] \in Posts
  BY <1>1, ElementsOf
<1>3. r = Picked(merged, places)
  BY DEF MergedByTitle
<1>4. places \in SUBSET D /\ \A i \in places : \A j \in Same(i) : i <= j
  OBVIOUS
<1>5. \A i \in D : /\ Dups(i) \in SUBSET Posts /\ merged[i] = Absorbed(posts[i], Dups(i))
                   /\ \A dup \in Dups(i) : \E j \in Same(i) \ {i} : dup = posts[j]
                   /\ \A j \in Same(i) \ {i} : posts[j] \in Dups(i)
  BY <1>2
<1>6. \A i, j \in D : j \in Same(i) <=> posts[j].title = posts[i].title
  OBVIOUS
<1>7. \A i \in D : Same(i) \in SUBSET D
  OBVIOUS
<1>8. places = {i \in D : \A j \in Same(i) : i <= j}
  OBVIOUS
<1>m. merged = [i \in D |-> Absorbed(posts[i], Dups(i))]
  OBVIOUS
<1>d. D = DOMAIN posts
  OBVIOUS
<1> HIDE DEF merged, places, Dups, Same, D, r
<1>9. ASSUME NEW i \in D
      PROVE  /\ merged[i] \in Posts
             /\ DatedPost(merged[i], d)
             /\ UrlsOf(posts[i]) \cup {dup.url : dup \in Dups(i)} \subseteq UrlsOf(merged[i])
             /\ i \in places /\ LaterPlain(posts) =>
                  \A v : Flagged(posts, v) => FlaggedPost(merged[i], v)
  <2>1. posts[i] \in Posts /\ DatedPost(posts[i], d)
    BY <1>2, <1>d DEF Dated
  <2>2. \A dup \in Dups(i) : DatedPost(dup, d)
    BY <1>5, <1>7, <1>d DEF Dated
  <2>3. /\ DatedPost(merged[i], d)
        /\ UrlsOf(posts[i]) \cup {dup.url : dup \in Dups(i)} \subseteq UrlsOf(merged[i])
        /\ \A v : FlaggedPost(posts[i], v) /\ (\A dup \in Dups(i) : dup.url = v => dup.permanent)
                    => FlaggedPost(merged[i], v)
    BY <1>5, <2>1, <2>2, AbsorbedKeeps
  <2>5. merged[i] \in Posts
    BY <2>1, <1>5, AbsorbedIs
  <2>6. ASSUME i \in places, LaterPlain(posts), NEW v, Flagged(posts, v)
        PROVE  FlaggedPost(merged[i], v)
    <3>1. FlaggedPost(posts[i], v)
      BY <2>6, <1>d DEF Flagged
    <3>2. ASSUME NEW dup \in Dups(i), dup.url = v PROVE dup.permanent
      <4>1. PICK j \in Same(i) \ {i} : dup = posts[j]
        BY <1>5
      <4>2. j \in D /\ i < j /\ posts[j].title = posts[i].title
        BY <4>1, <1>2, <1>4, <1>6, <1>7, <2>6
      <4>3. posts[j].meta = {}
        BY <4>2, <2>6, <1>d DEF LaterPlain
      <4> QED
        BY <4>1, <4>2, <4>3, <3>2, <2>6, <1>d DEF Flagged, FlaggedPost
    <3> QED
      BY <3>1, <3>2, <2>3
  <2> QED
    BY <2>3, <2>5, <2>6
<1>10. merged \in Seq(Posts) /\ DOMAIN merged = D
  <2>1. merged \in [1 .. Len(posts) -> Posts]
    BY <1>2, <1>9, <1>m
  <2> QED
    BY <2>1, <1>2
<1>11. \E place \in [DOMAIN r -> places] :
         /\ \A k \in DOMAIN r : r[k] = merged[place[k]]
         /\ \A i \in places : \E k \in DOMAIN r : place[k] = i
  <2>1. places \in SUBSET (DOMAIN merged)
    BY <1>4, <1>10
  <2> QED
    BY <2>1, <1>10, <1>3, PickedIs
<1>12. PICK place \in [DOMAIN r -> places] :
         /\ \A k \in DOMAIN r : r[k] = merged[place[k]]
         /\ \A i \in places : \E k \in DOMAIN r : place[k] = i
  BY <1>11
<1>13. \A k \in DOMAIN r : place[k] \in places /\ place[k] \in D
  BY <1>12, <1>4
<1>14. Dated(r, d) /\ (LaterPlain(posts) => \A v : Flagged(posts, v) => Flagged(r, v))
  BY <1>9, <1>12, <1>13 DEF Dated, Flagged
<1>15. ASSUME NEW j \in D PROVE \E i \in places : i \in Same(j)
  <2> DEFINE first == Picked(posts, Same(j))
  <2>1. \E place2 \in [DOMAIN first -> Same(j)] :
          /\ \A i \in Same(j) : \E k \in DOMAIN first : place2[k] = i
          /\ \A k, l \in DOMAIN first : k < l => place2[k] < place2[l]
    <3>1. Same(j) \in SUBSET (DOMAIN posts)
      BY <1>7, <1>d
    <3> QED
      BY <3>1, <1>1, PickedIs
  <2>s. first \in Seq(Posts)
    <3>1. Same(j) \in SUBSET (DOMAIN posts)
      BY <1>7, <1>d
    <3> QED
      BY <3>1, <1>1, PickedIs
  <2> HIDE DEF first
  <2>2. PICK place2 \in [DOMAIN first -> Same(j)] :
          /\ \A i \in Same(j) : \E k \in DOMAIN first : place2[k] = i
          /\ \A k, l \in DOMAIN first : k < l => place2[k] < place2[l]
    BY <2>1
  <2>3. j \in Same(j)
    BY <1>6
  <2>4. DOMAIN first = 1 .. Len(first) /\ Len(first) \in Nat
    BY <2>s
  <2>5. 1 \in DOMAIN first
    BY <2>2, <2>3, <2>4
  <2>6. ASSUME NEW i \in Same(j) PROVE place2[1] <= i
    <3>1. PICK k \in DOMAIN first : place2[k] = i
      BY <2>2
    <3>2. k = 1 \/ 1 < k
      BY <2>4
    <3>3. place2[1] \in Nat /\ i \in Nat
      BY <2>2, <2>5, <1>2, <1>7
    <3> QED
      BY <3>1, <3>2, <3>3, <2>2, <2>5
  <2>7. place2[1] \in Same(j) /\ place2[1] \in D
    BY <2>2, <2>5, <1>7
  <2>8. \A i \in Same(place2[1]) : i \in Same(j)
    BY <2>7, <1>6, <1>7
  <2>9. place2[1] \in places
    BY <2>6, <2>7, <2>8, <1>8
  <2> QED
    BY <2>7, <2>9
<1>16. ASSUME LaterPlain(posts), NEW u \in Covered(posts) PROVE u \in Covered(r)
  <2>1. PICK j \in D : u \in UrlsOf(posts[j])
    BY <1>d, CoveredIs
  <2>2. PICK i \in places : i \in Same(j)
    BY <1>15
  <2>3. i \in D /\ j \in Same(i)
    BY <2>2, <1>4, <1>6
  <2>4. u \in UrlsOf(merged[i])
    <3>1. CASE i = j
      BY <3>1, <2>1, <2>3, <1>9
    <3>2. CASE i # j
      <4>1. i < j /\ posts[i].title = posts[j].title
        BY <3>2, <2>2, <2>3, <1>2, <1>4, <1>6
      <4>2. posts[j].meta = {}
        BY <4>1, <2>3, <1>16, <1>d DEF LaterPlain
      <4>3. u = posts[j].url
        BY <4>2, <2>1 DEF UrlsOf
      <4>4. posts[j] \in Dups(i)
        BY <3>2, <2>3, <1>5
      <4> QED
        BY <4>3, <4>4, <2>3, <1>9
    <3> QED
      BY <3>1, <3>2
  <2>5. PICK k \in DOMAIN r : place[k] = i
    BY <2>2, <1>12
  <2>6. u \in UrlsOf(r[k])
    BY <2>4, <2>5, <1>12
  <2> QED
    BY <2>6, CoveredIs
<1> QED
  BY <1>14, <1>16 DEF r

\* What a complete crawl may not lose: a notice that is pinned or recent.
Lasting(v) == v \in pinned \/ ~Stale(day[v])

\* Pruning keeps what is recent, and what is pinned and flagged.
LEMMA KeptByPruning ==
  ASSUME NEW posts, IsPostList(posts), Dated(posts, day)
  PROVE  LET r == Pruned(posts)
         IN  /\ Dated(r, day)
             /\ Covered(r) \subseteq Covered(posts)
             /\ \A v \in Covered(posts) :
                  Lasting(v) /\ (v \in pinned => Flagged(posts, v)) => v \in Covered(r)
<1> DEFINE places == {i \in DOMAIN posts : ~Prunable(posts[i])}
           r == Pruned(posts)
<1>1. r = Picked(posts, places) /\ places \in SUBSET (DOMAIN posts)
  BY DEF Pruned
<1>p. \A i \in DOMAIN posts : ~Prunable(posts[i]) => i \in places
  OBVIOUS
<1> HIDE DEF places, r
<1>2. \E place \in [DOMAIN r -> places] :
        /\ \A k \in DOMAIN r : r[k] = posts[place[k]]
        /\ \A k, l \in DOMAIN r : place[k] = place[l] => k = l
        /\ \A i \in places : \E k \in DOMAIN r : place[k] = i
        /\ \A k, l \in DOMAIN r : k < l => place[k] < place[l]
  <2>1. posts \in Seq(Posts)
    BY DEF IsPostList
  <2> QED
    BY <1>1, <2>1, PickedIs, SMTT(30)
<1>3. PICK place \in [DOMAIN r -> places] :
        /\ \A k \in DOMAIN r : r[k] = posts[place[k]]
        /\ \A i \in places : \E k \in DOMAIN r : place[k] = i
  BY <1>2
<1>4. \A k \in DOMAIN r : place[k] \in DOMAIN posts
  BY <1>1, <1>3
<1>5. Dated(r, day)
  BY <1>3, <1>4 DEF Dated
<1>6. Covered(r) \subseteq Covered(posts)
  BY <1>3, <1>4, CoveredIs
<1>7. ASSUME NEW v \in Covered(posts), Lasting(v), v \in pinned => Flagged(posts, v)
      PROVE  v \in Covered(r)
  <2>1. PICK i \in DOMAIN posts : v \in UrlsOf(posts[i])
    BY CoveredIs
  <2> DEFINE p == posts[i]
  <2>2. DatedPost(p, day) /\ (v \in pinned => FlaggedPost(p, v))
    BY <1>7 DEF Dated, Flagged
  <2>3. ~Prunable(p)
    <3>1. CASE p.meta = {}
      <4>1. v = p.url
        BY <3>1, <2>1 DEF UrlsOf
      <4> QED
        BY <4>1, <3>1, <2>2, <1>7 DEF Prunable, DatedPost, FlaggedPost, Lasting
    <3>2. CASE p.meta # {}
      <4>1. PICK m \in p.meta : m.url = v
        BY <3>2, <2>1, <2>2 DEF UrlsOf, DatedPost
      <4> QED
        BY <4>1, <3>2, <2>2, <1>7 DEF Prunable, DatedPost, FlaggedPost, Lasting
    <3> QED
      BY <3>1, <3>2
  <2>4. PICK k \in DOMAIN r : place[k] = i
    BY <2>3, <1>p, <1>3
  <2> QED
    BY <2>1, <2>4, <1>3, CoveredIs
<1> QED
  BY <1>5, <1>6, <1>7 DEF r

\* What the merged and pruned result of a crawl has of what the crawl held.
LEMMA SavedKeeps ==
  ASSUME NEW posts, IsPostList(posts), Apart(posts), Dated(posts, day)
  PROVE  LET r == Pruned(Merged(posts))
         IN  /\ Dated(r, day)
             /\ Covered(r) \subseteq Covered(posts)
             /\ LaterPlain(posts) =>
                  \A v \in Covered(posts) :
                    Lasting(v) /\ (v \in pinned => Flagged(posts, v)) => v \in Covered(r)
<1> DEFINE m == MergedByUrl(posts)
           t == MergedByTitle(m)
           r == Pruned(t)
<1>1. IsPostList(m) /\ Apart(m)
  BY MergedByUrlIs
<1>2. /\ \A k \in DOMAIN m : \E i \in DOMAIN posts : m[k] = posts[i]
      /\ \A i \in DOMAIN posts : \E k \in DOMAIN m : m[k] = posts[i]
      /\ LaterPlain(posts) => LaterPlain(m)
  BY KeptByUrl
<1> HIDE DEF m
<1>3. Dated(m, day) /\ \A v : Flagged(posts, v) => Flagged(m, v)
  BY <1>2 DEF Dated, Flagged
<1>4. Covered(posts) = Covered(m)
  <2>1. \A u : u \in Covered(posts) <=> u \in Covered(m)
    BY <1>2, CoveredIs
  <2> QED
    BY <2>1
<1>5. IsPostList(t) /\ Covered(t) \subseteq Covered(m)
  BY <1>1, MergedByTitleIs
<1>6. /\ Dated(t, day)
      /\ LaterPlain(m) =>
           Covered(m) \subseteq Covered(t) /\ \A v : Flagged(m, v) => Flagged(t, v)
  BY <1>1, <1>3, KeptByTitle
<1> HIDE DEF t
<1>7. /\ Dated(r, day)
      /\ Covered(r) \subseteq Covered(t)
      /\ \A v \in Covered(t) :
           Lasting(v) /\ (v \in pinned => Flagged(t, v)) => v \in Covered(r)
  BY <1>5, <1>6, KeptByPruning
<1> HIDE DEF r
<1>8. ASSUME LaterPlain(posts), NEW v \in Covered(posts), Lasting(v),
             v \in pinned => Flagged(posts, v)
      PROVE  v \in Covered(r)
  BY <1>2, <1>3, <1>4, <1>6, <1>7, <1>8
<1>9. Covered(r) \subseteq Covered(posts)
  BY <1>4, <1>5, <1>7
<1> QED
  BY <1>7, <1>8, <1>9 DEF Merged, m, t, r

Plain(posts) == \A i \in DOMAIN posts : posts[i].meta = {}

LEMMA SyncedKeeps ==
  ASSUME NEW posts, IsPostList(posts), NEW item \in PageItem
  PROVE  LET r == Synced(posts, item)
         IN  /\ \A d : Dated(posts, d) => Dated(r, d)
             /\ Plain(posts) => Plain(r)
             /\ \A v : Flagged(posts, v) /\ (v = item.url => item.permanent) => Flagged(r, v)
             /\ item.permanent => Flagged(r, item.url)
<1> DEFINE Sync(m) == IF m.url = item.url THEN [m EXCEPT !.permanent = item.permanent] ELSE m
           D == DOMAIN posts
           r == Synced(posts, item)
<1>1. \A i \in D : posts[i] \in Posts
  BY ElementsOf DEF IsPostList
<1>2. \A m \in Sources :
        /\ Sync(m).url = m.url /\ Sync(m).day = m.day
        /\ Sync(m).permanent = IF m.url = item.url THEN item.permanent ELSE m.permanent
  BY DEF Sources
<1>3. r = [i \in D |->
            IF posts[i].meta = {} /\ posts[i].url = item.url
            THEN [posts[i] EXCEPT !.permanent = item.permanent]
            ELSE [posts[i] EXCEPT !.meta = {Sync(m) : m \in posts[i].meta}]]
  BY DEF Synced
<1> HIDE DEF Sync, r
<1>4. ASSUME NEW i \in D
      PROVE  /\ r[i].url = posts[i].url /\ r[i].day = posts[i].day
             /\ r[i].meta = {Sync(m) : m \in posts[i].meta}
             /\ posts[i].meta = {} =>
                  r[i].permanent = IF posts[i].url = item.url THEN item.permanent
                                   ELSE posts[i].permanent
  <2> DEFINE p == posts[i]
             synced == {Sync(m) : m \in p.meta}
  <2>1. p \in Posts
    BY <1>1
  <2>2. r[i] = IF p.meta = {} /\ p.url = item.url
               THEN [p EXCEPT !.permanent = item.permanent]
               ELSE [p EXCEPT !.meta = synced]
    BY <1>3
  <2>3. p.meta = {} => synced = {}
    OBVIOUS
  <2> HIDE DEF p, synced
  <2>4. CASE p.meta = {} /\ p.url = item.url
    <3>1. r[i] = [p EXCEPT !.permanent = item.permanent]
      BY <2>2, <2>4
    <3>2. /\ r[i].url = p.url /\ r[i].day = p.day /\ r[i].permanent = item.permanent
          /\ r[i].meta = p.meta
      BY <3>1, <2>1 DEF Posts
    <3> QED
      BY <3>2, <2>3, <2>4 DEF p, synced
  <2>5. CASE ~(p.meta = {} /\ p.url = item.url)
    <3>1. r[i] = [p EXCEPT !.meta = synced]
      BY <2>2, <2>5
    <3>2. /\ r[i].url = p.url /\ r[i].day = p.day /\ r[i].permanent = p.permanent
          /\ r[i].meta = synced
      BY <3>1, <2>1 DEF Posts
    <3> QED
      BY <3>2, <2>5 DEF p, synced
  <2> QED
    BY <2>4, <2>5
<1>5. DOMAIN r = D /\ \A i \in D : posts[i].meta \subseteq Sources
  BY <1>1, <1>3 DEF Posts
<1>6. \A d : Dated(posts, d) => Dated(r, d)
  <2> SUFFICES ASSUME NEW d, Dated(posts, d), NEW i \in D PROVE DatedPost(r[i], d)
    BY <1>5 DEF Dated
  <2>1. DatedPost(posts[i], d)
    BY DEF Dated
  <2>2. \A m \in r[i].meta : m.day = d[m.url]
    BY <2>1, <1>2, <1>4, <1>5 DEF DatedPost
  <2>3. r[i].meta # {} => \E m \in r[i].meta : m.url = r[i].url
    BY <2>1, <1>2, <1>4, <1>5 DEF DatedPost
  <2> QED
    BY <2>1, <2>2, <2>3, <1>4 DEF DatedPost
<1>7. Plain(posts) => Plain(r)
  BY <1>4, <1>5 DEF Plain
<1>8. ASSUME NEW v, NEW i \in D,
             FlaggedPost(posts[i], v) \/ v = item.url, v = item.url => item.permanent
      PROVE  FlaggedPost(r[i], v)
  <2>1. r[i].meta = {} <=> posts[i].meta = {}
    BY <1>4
  <2>2. r[i].meta = {} /\ r[i].url = v => r[i].permanent
    BY <2>1, <1>4, <1>8 DEF FlaggedPost
  <2>3. \A m \in r[i].meta : m.url = v => m.permanent
    BY <1>2, <1>4, <1>5, <1>8 DEF FlaggedPost
  <2> QED
    BY <2>2, <2>3 DEF FlaggedPost
<1>9. \A v : Flagged(posts, v) /\ (v = item.url => item.permanent) => Flagged(r, v)
  BY <1>5, <1>8 DEF Flagged
<1>10. item.permanent => Flagged(r, item.url)
  BY <1>5, <1>8 DEF Flagged
<1> QED
  BY <1>6, <1>7, <1>9, <1>10 DEF r

LEMMA UpdatedKeeps ==
  ASSUME NEW posts, IsPostList(posts), NEW u
  PROVE  LET r == Updated(posts, u)
         IN  /\ Dated(posts, day) => Dated(r, day)
             /\ \A v : Flagged(posts, v) => Flagged(r, v)
<1> DEFINE D == DOMAIN posts
           r == Updated(posts, u)
<1>1. \A i \in D : posts[i] \in Posts
  BY ElementsOf DEF IsPostList
<1>2. r = [i \in D |->
            IF posts[i].meta = {} /\ posts[i].url = u
            THEN [posts[i] EXCEPT !.title = title[u], !.version = version[u], !.day = day[u]]
            ELSE posts[i]]
  BY DEF Updated
<1> HIDE DEF r
<1>3. ASSUME NEW i \in D
      PROVE  /\ r[i].url = posts[i].url /\ r[i].meta = posts[i].meta
             /\ r[i].permanent = posts[i].permanent
             /\ r[i].day = posts[i].day \/ r[i].day = day[r[i].url]
  <2> DEFINE p == posts[i]
  <2>1. p \in Posts
    BY <1>1
  <2>2. r[i] = IF p.meta = {} /\ p.url = u
               THEN [p EXCEPT !.title = title[u], !.version = version[u], !.day = day[u]]
               ELSE p
    BY <1>2
  <2> HIDE DEF p
  <2>3. CASE p.meta = {} /\ p.url = u
    <3>1. r[i] = [p EXCEPT !.title = title[u], !.version = version[u], !.day = day[u]]
      BY <2>2, <2>3
    <3>2. /\ r[i].url = p.url /\ r[i].meta = p.meta /\ r[i].permanent = p.permanent
          /\ r[i].day = day[u]
      BY <3>1, <2>1 DEF Posts
    <3> QED
      BY <3>2, <2>3 DEF p
  <2>4. CASE ~(p.meta = {} /\ p.url = u)
    BY <2>2, <2>4 DEF p
  <2> QED
    BY <2>3, <2>4
<1>4. DOMAIN r = D
  BY <1>2
<1>5. Dated(posts, day) => Dated(r, day)
  BY <1>3, <1>4 DEF Dated, DatedPost
<1>6. \A v : Flagged(posts, v) => Flagged(r, v)
  BY <1>3, <1>4 DEF Flagged, FlaggedPost
<1> QED
  BY <1>5, <1>6 DEF r

LEMMA AppendedKeeps ==
  ASSUME NEW posts, IsPostList(posts), NEW u, NEW permanent
  PROVE  LET r == Append(posts, Fetched(u, permanent))
         IN  /\ Dated(posts, day) => Dated(r, day)
             /\ Plain(posts) => Plain(r)
             /\ \A v : Flagged(posts, v) /\ (v = u => permanent) => Flagged(r, v)
<1> DEFINE p == Fetched(u, permanent)
           r == Append(posts, p)
<1>1. posts \in Seq(Posts)
  BY DEF IsPostList
<1>2. p.url = u /\ p.day = day[u] /\ p.meta = {} /\ p.permanent = permanent
  BY DEF Fetched
<1> HIDE DEF p
<1>3. \A i \in DOMAIN r : r[i] = p \/ (i \in DOMAIN posts /\ r[i] = posts[i])
  BY <1>1
<1> HIDE DEF r
<1>4. DatedPost(p, day) /\ \A v : (v = u => permanent) => FlaggedPost(p, v)
  BY <1>2 DEF DatedPost, FlaggedPost
<1> QED
  BY <1>2, <1>3, <1>4 DEF Dated, Flagged, Plain, p, r

------------------------------------------------------------------------------
(* How the boards change *)

\* A new notice is above all others of its board.
LEMMA PostNoticeIs ==
  ASSUME BoardsInv, NEW u \in Url, PostNotice(u)
  PROVE  /\ BoardOf[u] \in 1..NumBoards /\ u \notin Posted /\ u \notin pinned
         /\ day[u] = 0 /\ day'[u] = today /\ \A v \in Url : v # u => day'[v] = day[v]
         /\ \A c \in 1..NumBoards :
              /\ On(c)' = IF c = BoardOf[u] THEN On(c) \cup {u} ELSE On(c)
              /\ \A x, y : Before(c, x, y)' <=>
                   Before(c, x, y) \/ (c = BoardOf[u] /\ x = u /\ y \in On(c))
<1> DEFINE b == BoardOf[u]
           s == lists[b]
           r == <<u>> \o s
<1>1. /\ b \in 1..NumBoards /\ s \in Seq(Url) /\ lists' = [lists EXCEPT ![b] = r]
      /\ day[u] = 0 /\ day' = [day EXCEPT ![u] = today]
  BY CrawlAssumption DEF PostNotice, BoardsInv
<1>2. /\ \A i \in DOMAIN s : i + 1 \in DOMAIN r /\ r[i + 1] = s[i] /\ i \in Nat /\ 1 < i + 1
      /\ \A i \in DOMAIN r : i = 1 \/ (1 < i /\ i - 1 \in DOMAIN s /\ r[i] = s[i - 1])
      /\ 1 \in DOMAIN r /\ r[1] = u /\ \A i \in DOMAIN r : i \in Nat
  <2> HIDE DEF s
  <2>1. s \in Seq(Url) /\ <<u>> \in Seq(Url) /\ Len(<<u>>) = 1 /\ <<u>>[1] = u
    BY <1>1
  <2>2. r \in Seq(Url) /\ Len(r) = 1 + Len(s) /\ DOMAIN r = 1 .. Len(r)
    BY <2>1
  <2>3. DOMAIN s = 1 .. Len(s) /\ Len(s) \in Nat
    BY <2>1
  <2>4. \A i \in DOMAIN r : r[i] = IF i <= 1 THEN <<u>>[i] ELSE s[i - 1]
    BY <2>1, <2>2
  <2> HIDE DEF r
  <2>5. \A i \in DOMAIN r : i = 1 \/ (1 < i /\ i - 1 \in DOMAIN s /\ r[i] = s[i - 1])
    BY <2>2, <2>3, <2>4
  <2>6. 1 \in DOMAIN r /\ r[1] = u /\ \A i \in DOMAIN r : i \in Nat
    BY <2>1, <2>2, <2>3, <2>4
  <2>7. ASSUME NEW i \in DOMAIN s
        PROVE  i + 1 \in DOMAIN r /\ r[i + 1] = s[i] /\ i \in Nat /\ 1 < i + 1
    <3>1. i \in Nat /\ i + 1 \in DOMAIN r /\ 1 < i + 1 /\ ~(i + 1 <= 1) /\ (i + 1) - 1 = i
      BY <2>2, <2>3
    <3> QED
      BY <3>1, <2>4
  <2> QED
    BY <2>5, <2>6, <2>7
<1>3. u \notin Posted
  BY <1>1, PostedHave
<1>4. pinned \subseteq Posted
  BY DEF BoardsInv
<1>5. day'[u] = today /\ \A v \in Url : v # u => day'[v] = day[v]
  BY <1>1 DEF BoardsInv
<1>6. \A c \in 1..NumBoards : lists'[c] = IF c = b THEN r ELSE lists[c]
  BY <1>1 DEF BoardsInv
<1>s. s = lists[b]
  OBVIOUS
<1> HIDE DEF r, s
<1>7. ASSUME NEW c \in 1..NumBoards, c = b
      PROVE  /\ On(c)' = On(c) \cup {u}
             /\ \A x, y : Before(c, x, y)' <=> Before(c, x, y) \/ (x = u /\ y \in On(c))
  <2>1. lists'[c] = r /\ lists[c] = s
    BY <1>6, <1>7, <1>s
  <2>2. On(c)' = {r[i] : i \in DOMAIN r} /\ On(c) = {s[i] : i \in DOMAIN s}
    BY <2>1 DEF On, ToSet
  <2>3. On(c)' = On(c) \cup {u}
    <3>1. \A x : x \in {r[i] : i \in DOMAIN r} <=> x = u \/ x \in {s[i] : i \in DOMAIN s}
      BY <1>2
    <3> QED
      BY <3>1, <2>2
  <2>4. ASSUME NEW x, NEW y
        PROVE  Before(c, x, y)' <=> Before(c, x, y) \/ (x = u /\ y \in On(c))
    <3>1. /\ Before(c, x, y)' <=> \E i, j \in DOMAIN r : i < j /\ r[i] = x /\ r[j] = y
          /\ Before(c, x, y) <=> \E i, j \in DOMAIN s : i < j /\ s[i] = x /\ s[j] = y
      BY <2>1 DEF Before
    <3>2. ASSUME NEW i \in DOMAIN r, NEW j \in DOMAIN r, i < j, r[i] = x, r[j] = y
          PROVE  Before(c, x, y) \/ (x = u /\ y \in On(c))
      <4>1. j - 1 \in DOMAIN s /\ y = s[j - 1]
        BY <3>2, <1>2
      <4>2. CASE i = 1
        BY <4>1, <4>2, <3>2, <2>2, <1>2
      <4>3. CASE i # 1
        <5>1. i - 1 \in DOMAIN s /\ x = s[i - 1] /\ i - 1 < j - 1
          BY <4>3, <3>2, <1>2
        <5> QED
          BY <5>1, <4>1, <3>1
      <4> QED
        BY <4>2, <4>3
    <3>3. ASSUME NEW i \in DOMAIN s, NEW j \in DOMAIN s, i < j, s[i] = x, s[j] = y
          PROVE  Before(c, x, y)'
      <4>1. /\ i + 1 \in DOMAIN r /\ j + 1 \in DOMAIN r /\ i + 1 < j + 1
            /\ r[i + 1] = x /\ r[j + 1] = y
        BY <3>3, <1>2
      <4> QED
        BY <4>1, <3>1
    <3>4. ASSUME x = u, y \in On(c) PROVE Before(c, x, y)'
      <4>1. PICK j \in DOMAIN s : y = s[j]
        BY <3>4, <2>2
      <4>2. 1 \in DOMAIN r /\ j + 1 \in DOMAIN r /\ 1 < j + 1 /\ r[1] = x /\ r[j + 1] = y
        BY <4>1, <3>4, <1>2
      <4> QED
        BY <4>2, <3>1
    <3> QED
      BY <3>1, <3>2, <3>3, <3>4
  <2> QED
    BY <2>3, <2>4
<1>8. ASSUME NEW c \in 1..NumBoards, c # b
      PROVE  On(c)' = On(c) /\ \A x, y : Before(c, x, y)' <=> Before(c, x, y)
  <2>1. lists'[c] = lists[c]
    BY <1>6, <1>8
  <2> QED
    BY <2>1 DEF On, ToSet, Before
<1> QED
  BY <1>1, <1>3, <1>4, <1>5, <1>7, <1>8

\* Taking a notice down leaves the order of the others.
LEMMA TakeDownIs ==
  ASSUME BoardsInv, NEW u \in Url, TakeDown(u)
  PROVE  \A c \in 1..NumBoards :
           On(c)' \subseteq On(c) /\ \A x, y : Before(c, x, y)' => Before(c, x, y)
<1> DEFINE b == BoardOf[u]
           s == lists[b]
           places == {i \in DOMAIN s : s[i] # u}
           r == Picked(s, places)
<1>1. b \in 1..NumBoards /\ s \in Seq(Url) /\ lists' = [lists EXCEPT ![b] = r]
  BY CrawlAssumption DEF TakeDown, BoardsInv
<1>2. places \in SUBSET (DOMAIN s)
  OBVIOUS
<1>s. s = lists[b]
  OBVIOUS
<1> HIDE DEF places, s
<1>3. \E place \in [DOMAIN r -> places] :
        /\ \A k \in DOMAIN r : r[k] = s[place[k]]
        /\ \A k, l \in DOMAIN r : k < l => place[k] < place[l]
  BY <1>1, <1>2, PickedIs
<1> HIDE DEF r
<1>4. PICK place \in [DOMAIN r -> places] :
        /\ \A k \in DOMAIN r : r[k] = s[place[k]]
        /\ \A k, l \in DOMAIN r : k < l => place[k] < place[l]
  BY <1>3
<1>5. \A k \in DOMAIN r : place[k] \in DOMAIN s
  BY <1>2, <1>4
<1>6. \A c \in 1..NumBoards : lists'[c] = IF c = b THEN r ELSE lists[c]
  BY <1>1 DEF BoardsInv
<1>7. ASSUME NEW c \in 1..NumBoards
      PROVE  On(c)' \subseteq On(c) /\ \A x, y : Before(c, x, y)' => Before(c, x, y)
  <2>1. CASE c = b
    <3>1. lists'[c] = r /\ lists[c] = s
      BY <1>6, <2>1, <1>s
    <3>2. On(c)' \subseteq On(c)
      BY <3>1, <1>4, <1>5 DEF On, ToSet
    <3>3. \A x, y : Before(c, x, y)' => Before(c, x, y)
      BY <3>1, <1>4, <1>5 DEF Before
    <3> QED
      BY <3>2, <3>3
  <2>2. CASE c # b
    <3>1. lists'[c] = lists[c]
      BY <1>6, <2>2
    <3> QED
      BY <3>1 DEF On, ToSet, Before
  <2> QED
    BY <2>1, <2>2
<1> QED
  BY <1>7

------------------------------------------------------------------------------
(***************************************************************************)
(* Dates and places.  A board's list is newest first, and posts have the   *)
(* days of their notices; a page's items are worked off before the next    *)
(* page, and between crawls the crawler is at the start.                   *)
(***************************************************************************)
DatesInv ==
  /\ \A b \in 1..NumBoards : \A u, v \in On(b) : Before(b, u, v) => day[v] <= day[u]
  /\ \A u \in Url : day[u] <= today
  /\ \A u \in touched : day[u] # 0
  /\ Cardinality(touched) <= MaxTouches
  /\ Dated(store, day) /\ Dated(old, day) /\ Dated(new, day) /\ Plain(new)
  /\ at # "items" => queue = <<>> /\ ~stopAfter
  /\ at = "idle" => board = 1 /\ page = 1 /\ pages = {}
  /\ at = "save" => board = NumBoards + 1

LEMMA DatesInitially == Init => DatesInv
<1> SUFFICES ASSUME Init PROVE DatesInv
  OBVIOUS
<1>1. \A b \in 1..NumBoards : On(b) = {}
  BY DEF Init, On, ToSet
<1>2. \A u \in Url : day[u] <= today
  BY DEF Init
<1>3. Cardinality(touched) = 0
  BY FS_EmptySet DEF Init
<1>4. Dated(<<>>, day) /\ Plain(<<>>)
  BY DEF Dated, Plain
<1> QED
  BY <1>1, <1>2, <1>3, <1>4, CrawlAssumption DEF Init, Idle, DatesInv

LEMMA TouchIs ==
  ASSUME DatesInv, BoardsInv, NEW u \in Url, Touch(u)
  PROVE  /\ touched \subseteq touched' /\ touched' \subseteq touched \cup {u}
         /\ Cardinality(touched') <= MaxTouches
         /\ at # "idle" => u \in touched'
BY DEF Touch, DatesInv

LEMMA DatedStays ==
  ASSUME BoardsInv, NEW u \in Url, PostNotice(u),
         NEW posts, IsPostList(posts), Dated(posts, day)
  PROVE  Dated(posts, day')
<1>1. day[u] = 0 /\ \A v \in Url : v # u => day'[v] = day[v]
  BY PostNoticeIs
<1> SUFFICES ASSUME NEW i \in DOMAIN posts PROVE DatedPost(posts[i], day')
  BY DEF Dated
<1>2. posts[i] \in Posts /\ DatedPost(posts[i], day)
  BY ElementsOf DEF IsPostList, Dated
<1>3. /\ posts[i].url \in Url /\ posts[i].day # 0
      /\ \A m \in posts[i].meta : m.url \in Url /\ m.day # 0
  BY <1>2 DEF Posts, Sources
<1> QED
  BY <1>1, <1>2, <1>3 DEF DatedPost

LEMMA BoardsDates ==
  ASSUME CrawlInv, DatesInv, Boards
  PROVE  DatesInv'
<1>0. BoardsInv
  BY DEF CrawlInv
<1>1. /\ UNCHANGED <<store, old, new, at, queue, stopAfter, board, page, pages>>
  BY DEF Boards, DayPasses, PostNotice, Edit, Pin, Unpin, TakeDown, crawl
<1>2. CASE DayPasses
  <2>1. today' = today + 1 /\ UNCHANGED <<lists, day, touched>>
    BY <1>2 DEF DayPasses
  <2>2. \A u \in Url : day[u] <= today'
    BY <1>0, <2>1 DEF DatesInv, BoardsInv
  <2> QED
    BY <1>1, <2>1, <2>2 DEF DatesInv, On, Before
<1>3. ASSUME NEW u \in Url, PostNotice(u) PROVE DatesInv'
  <2>1. Touch(u) /\ today' = today
    BY <1>3 DEF PostNotice
  <2>2. /\ BoardOf[u] \in 1..NumBoards /\ u \notin Posted
        /\ day'[u] = today /\ \A v \in Url : v # u => day'[v] = day[v]
        /\ \A c \in 1..NumBoards :
             /\ On(c)' = IF c = BoardOf[u] THEN On(c) \cup {u} ELSE On(c)
             /\ \A x, y : Before(c, x, y)' <=>
                  Before(c, x, y) \/ (c = BoardOf[u] /\ x = u /\ y \in On(c))
    BY <1>0, <1>3, PostNoticeIs
  <2>3. \A v \in Url : day'[v] <= today'
    <3>1. today \in Nat /\ \A v \in Url : day[v] <= today
      BY <1>0 DEF DatesInv, BoardsInv
    <3> QED
      BY <3>1, <2>1, <2>2
  <2>4. today \in Nat \ {0}
    BY <1>0, CrawlAssumption DEF BoardsInv
  <2>5. \A v \in touched' : day'[v] # 0
    <3>1. touched' \subseteq touched \cup {u}
      BY <1>0, <2>1, TouchIs
    <3>2. \A v \in touched : v \in Url /\ day[v] # 0
      BY <1>0 DEF DatesInv, BoardsInv
    <3> QED
      BY <3>1, <3>2, <2>2, <2>4
  <2>6. ASSUME NEW c \in 1..NumBoards, NEW x \in On(c)', NEW y \in On(c)', Before(c, x, y)'
        PROVE  day'[y] <= day'[x]
    <3>1. \A v \in On(c) : v \in Url /\ v # u
      BY <1>0, <2>2, BoardIs
    <3>2. CASE Before(c, x, y)
      <4>1. x \in On(c) /\ y \in On(c)
        BY <3>2 DEF Before, On, ToSet
      <4> QED
        BY <4>1, <3>1, <3>2, <2>2 DEF DatesInv
    <3>3. CASE x = u /\ y \in On(c)
      BY <3>1, <3>3, <2>1, <2>2, <2>3
    <3> QED
      BY <3>2, <3>3, <2>2, <2>6
  <2>7. Dated(store, day') /\ Dated(old, day') /\ Dated(new, day')
    BY <1>0, <1>3, DatedStays DEF DatesInv, CrawlInv, StoreInv, HeldInv
  <2>8. Cardinality(touched') <= MaxTouches
    BY <1>0, <2>1, TouchIs
  <2> QED
    BY <1>1, <2>3, <2>5, <2>6, <2>7, <2>8 DEF DatesInv
<1>4. ASSUME NEW u \in Url, Edit(u) PROVE DatesInv'
  <2>1. Touch(u) /\ u \in Posted /\ UNCHANGED <<lists, day, today>>
    BY <1>4 DEF Edit
  <2>2. day[u] # 0
    BY <1>0, <2>1, PostedHave
  <2>3. Cardinality(touched') <= MaxTouches /\ \A v \in touched' : day[v] # 0
    BY <1>0, <2>1, <2>2, TouchIs DEF DatesInv
  <2> QED
    BY <1>1, <2>1, <2>3 DEF DatesInv, On, Before
<1>5. ASSUME NEW u \in Url, Pin(u) \/ Unpin(u) PROVE DatesInv'
  <2>1. UNCHANGED <<lists, day, today, touched>>
    BY <1>5 DEF Pin, Unpin
  <2> QED
    BY <1>1, <2>1 DEF DatesInv, On, Before
<1>6. ASSUME NEW u \in Url, TakeDown(u) PROVE DatesInv'
  <2>1. UNCHANGED <<day, today, touched>>
    BY <1>6 DEF TakeDown
  <2>2. \A c \in 1..NumBoards :
          On(c)' \subseteq On(c) /\ \A x, y : Before(c, x, y)' => Before(c, x, y)
    BY <1>0, <1>6, TakeDownIs
  <2>3. \A b \in 1..NumBoards : \A x, y \in On(b)' : Before(b, x, y)' => day'[y] <= day'[x]
    BY <2>1, <2>2 DEF DatesInv
  <2> QED
    BY <1>1, <2>1, <2>3 DEF DatesInv
<1> QED
  BY <1>2, <1>3, <1>4, <1>5, <1>6 DEF Boards

LEMMA NextBoardIs ==
  ASSUME PlaceInv, at \in {"list", "items"}, NextBoard
  PROVE  /\ board' = board + 1 /\ page' = 1 /\ pages' = {} /\ queue' = <<>> /\ ~stopAfter'
         /\ at' \in {"list", "save"} /\ (at' = "save" => board' = NumBoards + 1)
         /\ board \in 1..NumBoards
BY CrawlAssumption DEF NextBoard, PlaceInv

\* What is held stays apart, dated and flagged when an item of it is handled.
LEMMA KnownItemHolds ==
  ASSUME CrawlInv, DatesInv, KnownItem
  PROVE  LET item == Head(queue)
         IN  /\ IsPostList(old') /\ IsPostList(new')
             /\ SameUrls(old', old) /\ SameUrls(new', new)
             /\ Dated(old', day) /\ Dated(new', day) /\ Plain(new')
             /\ \A v : Flagged(old, v) /\ Flagged(new, v) /\ (v = item.url => item.permanent)
                         => Flagged(old', v) /\ Flagged(new', v)
             /\ item.permanent => Flagged(old', item.url) /\ Flagged(new', item.url)
<1> DEFINE item == Head(queue)
           u == item.url
           synced == Synced(old, item)
<1>1. /\ at = "items" /\ queue # <<>>
      /\ \/ old' = synced
         \/ u \in Posted /\ old' = Updated(synced, u)
      /\ new' = Synced(new, item)
  BY DEF KnownItem, Readable
<1>0. BoardsInv /\ HeldInv /\ PlaceInv
  BY DEF CrawlInv
<1>2. item \in PageItem /\ u \in Url
  BY <1>0, <1>1, HeadItem
<1> HIDE DEF item
<1>3. /\ IsPostList(synced) /\ SameUrls(synced, old)
      /\ IsPostList(new') /\ SameUrls(new', new)
  BY <1>0, <1>1, <1>2, SyncedIs DEF HeldInv
<1>4. /\ Dated(synced, day) /\ Dated(new', day) /\ Plain(new')
      /\ \A v : Flagged(old, v) /\ (v = u => item.permanent) => Flagged(synced, v)
      /\ \A v : Flagged(new, v) /\ (v = u => item.permanent) => Flagged(new', v)
      /\ item.permanent => Flagged(synced, u) /\ Flagged(new', u)
  BY <1>0, <1>1, <1>2, SyncedKeeps DEF HeldInv, DatesInv
<1>5. ASSUME u \in Posted
      PROVE  /\ IsPostList(Updated(synced, u)) /\ SameUrls(Updated(synced, u), synced)
             /\ Dated(Updated(synced, u), day)
             /\ \A v : Flagged(synced, v) => Flagged(Updated(synced, u), v)
  <2>1. /\ title[u] \in Titles /\ title[u] \in TitlesOf[u] /\ version[u] \in 0..MaxEdits
        /\ day[u] \in 1..MaxDay
    BY <1>0, <1>2, <1>5, ReadableHas
  <2> HIDE DEF synced, u
  <2>2. IsPostList(Updated(synced, u)) /\ SameUrls(Updated(synced, u), synced)
    BY <2>1, <1>2, <1>3, UpdatedIs
  <2>3. /\ Dated(Updated(synced, u), day)
        /\ \A v : Flagged(synced, v) => Flagged(Updated(synced, u), v)
    BY <1>3, <1>4, UpdatedKeeps
  <2> QED
    BY <2>2, <2>3
<1> HIDE DEF synced, u
<1>6. /\ IsPostList(old') /\ SameUrls(old', old) /\ Dated(old', day)
      /\ \A v : Flagged(synced, v) => Flagged(old', v)
  <2>1. CASE old' = synced
    BY <2>1, <1>3, <1>4
  <2>2. CASE u \in Posted /\ old' = Updated(synced, u)
    BY <2>2, <1>3, <1>5 DEF SameUrls
  <2> QED
    BY <2>1, <2>2, <1>1
<1>7. item = Head(queue) /\ u = item.url
  BY DEF item, u
<1> QED
  BY <1>3, <1>4, <1>6, <1>7

LEMMA CrawlerDates ==
  ASSUME CrawlInv, DatesInv, Crawler
  PROVE  DatesInv'
<1>0. BoardsInv /\ HeldInv /\ PlaceInv /\ StoreInv
  BY DEF CrawlInv
<1>1. /\ UNCHANGED <<today, lists, day>>
      /\ touched' = touched \/ touched' = {}
  BY DEF Crawler, StartCrawl, ListFails, ListEnds, ReadPage, EndPage, KnownItem, NewItem,
         NewItemFails, Save, Abandon, site
<1>2. /\ \A b \in 1..NumBoards : \A u, v \in On(b)' : Before(b, u, v)' => day'[v] <= day'[u]
      /\ \A u \in Url : day'[u] <= today'
      /\ \A u \in touched' : day'[u] # 0
      /\ Cardinality(touched') <= MaxTouches
  <2>1. Cardinality({}) <= MaxTouches
    BY FS_EmptySet, CrawlAssumption
  <2>2. \A b \in 1..NumBoards : \A u, v \in On(b)' : Before(b, u, v)' => day'[v] <= day'[u]
    BY <1>1 DEF DatesInv, On, Before
  <2>3. (\A u \in Url : day'[u] <= today') /\ (\A u \in touched' : day'[u] # 0)
    BY <1>1 DEF DatesInv
  <2>4. Cardinality(touched') <= MaxTouches
    BY <1>1, <2>1 DEF DatesInv
  <2> QED
    BY <2>2, <2>3, <2>4
<1>3. SUFFICES
        /\ Dated(store', day) /\ Dated(old', day) /\ Dated(new', day) /\ Plain(new')
        /\ at' # "items" => queue' = <<>> /\ ~stopAfter'
        /\ at' = "idle" => board' = 1 /\ page' = 1 /\ pages' = {}
        /\ at' = "save" => board' = NumBoards + 1
  BY <1>1, <1>2 DEF DatesInv
<1>4. Dated(<<>>, day) /\ Plain(<<>>)
  BY DEF Dated, Plain
<1>5. CASE StartCrawl
  BY <1>5 DEF StartCrawl, DatesInv
<1>6. CASE ListFails \/ ListEnds
  <2>1. at = "list" /\ NextBoard /\ UNCHANGED <<store, old, new>>
    BY <1>6 DEF ListFails, ListEnds
  <2> QED
    BY <1>0, <2>1, NextBoardIs DEF DatesInv
<1>7. CASE ReadPage
  <2>1. at' = "items" /\ UNCHANGED <<store, old, new>>
    BY <1>7 DEF ReadPage
  <2> QED
    BY <2>1 DEF DatesInv
<1>8. CASE EndPage
  <2>1. at = "items" /\ queue = <<>> /\ UNCHANGED <<store, old, new>>
    BY <1>8 DEF EndPage
  <2>2. CASE stopAfter
    <3>1. NextBoard
      BY <1>8, <2>2 DEF EndPage
    <3> QED
      BY <1>0, <2>1, <3>1, NextBoardIs DEF DatesInv
  <2>3. CASE ~stopAfter
    <3>1. at' = "list" /\ queue' = queue /\ stopAfter' = stopAfter
      BY <1>8, <2>3 DEF EndPage
    <3> QED
      BY <2>1, <2>3, <3>1 DEF DatesInv
  <2> QED
    BY <2>2, <2>3
<1>9. CASE KnownItem
  <2>1. at = "items" /\ store' = store /\ (NextBoard \/ Rest)
    BY <1>9 DEF KnownItem, LeaveIf
  <2>2. Dated(old', day) /\ Dated(new', day) /\ Plain(new')
    BY <1>9, KnownItemHolds
  <2>3. CASE NextBoard
    BY <1>0, <2>1, <2>2, <2>3, NextBoardIs DEF DatesInv
  <2>4. CASE Rest
    BY <2>1, <2>2, <2>4 DEF DatesInv, Rest
  <2> QED
    BY <2>1, <2>3, <2>4
<1>10. CASE NewItem
  <2>1. at = "items" /\ UNCHANGED <<store, old>>
    BY <1>10 DEF NewItem
  <2>2. \/ NextBoard /\ new' = new
        \/ at' = at /\ new' = Append(new, Fetched(Head(queue).url, Head(queue).permanent))
    BY <1>10 DEF NewItem
  <2>3. CASE NextBoard /\ new' = new
    BY <1>0, <2>1, <2>3, NextBoardIs DEF DatesInv
  <2>4. CASE at' = at /\ new' = Append(new, Fetched(Head(queue).url, Head(queue).permanent))
    <3>1. Dated(new', day) /\ Plain(new')
      BY <1>0, <2>4, AppendedKeeps DEF DatesInv, HeldInv
    <3> QED
      BY <2>1, <2>4, <3>1 DEF DatesInv
  <2> QED
    BY <2>2, <2>3, <2>4
<1>11. CASE NewItemFails
  BY <1>11 DEF NewItemFails, DatesInv
<1>12. CASE Save
  <2>1. at' = "idle" /\ old' = <<>> /\ new' = <<>> /\ board' = 1 /\ page' = 1
        /\ pages' = {} /\ queue' = <<>> /\ ~stopAfter' /\ store' = Pruned(Merged(old \o new))
    BY <1>12 DEF Save, Finish
  <2>2. IsPostList(old \o new) /\ Apart(old \o new)
    BY <1>0, ApartJoined DEF HeldInv
  <2>3. Dated(old \o new, day)
    <3>1. \A i \in DOMAIN (old \o new) :
            \/ i \in DOMAIN old /\ (old \o new)[i] = old[i]
            \/ i - Len(old) \in DOMAIN new /\ (old \o new)[i] = new[i - Len(old)]
      BY <1>0 DEF HeldInv, IsPostList
    <3> QED
      BY <3>1 DEF DatesInv, Dated
  <2>4. Dated(store', day)
    BY <2>1, <2>2, <2>3, SavedKeeps
  <2> QED
    BY <1>4, <2>1, <2>4
<1>13. CASE Abandon
  <2>1. at' = "idle" /\ old' = <<>> /\ new' = <<>> /\ board' = 1 /\ page' = 1
        /\ pages' = {} /\ queue' = <<>> /\ ~stopAfter' /\ store' = store
    BY <1>13 DEF Abandon, Finish
  <2> QED
    BY <1>4, <2>1 DEF DatesInv
<1> QED
  BY <1>5, <1>6, <1>7, <1>8, <1>9, <1>10, <1>11, <1>12, <1>13 DEF Crawler

LEMMA DatesStep == CrawlInv /\ DatesInv /\ [Next]_vars => DatesInv'
<1> SUFFICES ASSUME CrawlInv, DatesInv, [Next]_vars PROVE DatesInv'
  OBVIOUS
<1>1. CASE UNCHANGED vars
  BY <1>1 DEF vars, site, crawl, DatesInv, On, Before
<1>2. CASE Next
  BY <1>2, BoardsDates, CrawlerDates DEF Next
<1> QED
  BY <1>1, <1>2

------------------------------------------------------------------------------
(***************************************************************************)
(* Completeness.  In calm times and until a crawl is disturbed, what the   *)
(* store lacks of a board lies below all it has or is stale.  A crawl that *)
(* leaves a board has all that lasts of it, except what was posted while   *)
(* it read: notices that are above all the crawl knows.  On its board it   *)
(* has, or has in the queue, all that lasts of the pages it has read.      *)
(***************************************************************************)
Steady == Undisturbed /\ Calm

\* Where the store has a notice of a board, it has all that last below it.
StoreClosed ==
  \A b \in 1..NumBoards : \A u, v \in On(b) :
    Before(b, u, v) /\ u \in Covered(store) /\ ~Stale(day[v]) => v \in Covered(store)

\* The crawl holds v, and flagged if it is pinned.
Kept(v) == v \in Known /\ (v \in pinned => Flagged(old, v) /\ Flagged(new, v))

\* v came while its board was read, and so did all that is above it.
Missed(b, v) ==
  v \in touched /\ \A u \in On(b) : u = v \/ Before(b, u, v) => u \notin Known /\ u \notin pinned

Waiting == {queue[i].url : i \in DOMAIN queue}
Read == UNION {ToSet(s) : s \in pages}

\* The first rank that was not read, and what was read or is above it.
Bound == IF at = "items" THEN Lo(page + 1) ELSE Lo(page)
Reached(v) ==
  \/ stopAfter
  \/ RankOf(board, v) < Bound
  \/ \E h \in Read \ pinned : v = h \/ Above(board, v, h)

HeldAsStored ==
  /\ TitlesDiffer(old) /\ Covered(old) = Covered(store)
  /\ at \in {"list", "items"} => seen = Known

LeftComplete ==
  \A b \in 1..NumBoards : b < board =>
    \A v \in On(b) : Lasting(v) => Kept(v) \/ Missed(b, v)

QueueOrdered ==
  /\ \A i \in DOMAIN queue : queue[i].permanent <=> queue[i].url \in pinned
  /\ \A i, j \in DOMAIN queue : i < j /\ ~queue[i].permanent =>
       ~queue[j].permanent /\ day[queue[j].url] <= day[queue[i].url]

\* What was read has moved down by the notices posted since, at most.
PagesRanked ==
  \A u \in Read : u \in On(board) /\ RankOf(board, u) < Bound + Cardinality(touched)

PagesRead ==
  /\ Waiting \subseteq Read
  /\ \A u \in Covered(new) : BoardOf[u] < board \/ u \in Read
  /\ PagesRanked
  /\ \A u \in Read : Lasting(u) => Kept(u) \/ u \in Waiting

ReachedComplete ==
  \A v \in On(board) : Reached(v) /\ Lasting(v) =>
    Kept(v) \/ v \in Waiting \/ Missed(board, v)

\* What is below an unknown item of the page is known or an item itself.
WaitingClosed ==
  \A u \in Waiting \ Known : \A v \in On(board) :
    Reached(v) /\ Lasting(v) /\ Before(board, u, v) => v \in Waiting \/ v \in Known

BoardComplete == QueueOrdered /\ PagesRead /\ ReachedComplete /\ WaitingClosed

Complete ==
  /\ StoreClosed
  /\ at # "idle" => HeldAsStored /\ LeftComplete
  /\ at \in {"list", "items"} => BoardComplete

CompleteInv == Steady => Complete

LEMMA SameBoards ==
  ASSUME UNCHANGED <<lists, pinned>>
  PROVE  /\ \A b : On(b)' = On(b) /\ Paged(b)' = Paged(b)
         /\ \A b, u, v : /\ Before(b, u, v)' <=> Before(b, u, v)
                         /\ Above(b, u, v)' <=> Above(b, u, v)
         /\ \A b, u : RankOf(b, u)' = RankOf(b, u)
<1>1. \A b : On(b)' = On(b)
  BY DEF On
<1>2. \A b : Paged(b)' = Paged(b)
  BY <1>1 DEF Paged
<1>3. \A b, u, v : Before(b, u, v)' <=> Before(b, u, v)
  BY DEF Before
<1>4. \A b, u, v : Above(b, u, v)' <=> Above(b, u, v)
  BY DEF Above
<1>5. \A b, u : RankOf(b, u)' = RankOf(b, u)
  BY <1>2, <1>4 DEF RankOf
<1> QED
  BY <1>1, <1>2, <1>3, <1>4, <1>5

LEMMA SameHeld ==
  ASSUME UNCHANGED <<old, new, pinned>>
  PROVE  Known' = Known /\ \A v : Kept(v)' <=> Kept(v)
BY DEF Known, Kept

\* Days that pass and edits leave a crawl complete.
LEMMA QuietKeeps ==
  ASSUME Complete, UNCHANGED <<lists, pinned, day, store, crawl>>,
         touched \subseteq touched',
         Cardinality(touched) \in Nat, Cardinality(touched') \in Nat,
         Cardinality(touched) <= Cardinality(touched'),
         today' \in Nat, today <= today', CrawlInv
  PROVE  Complete'
<1> USE CrawlAssumption
<1>1. UNCHANGED <<at, old, new, seen, board, page, pages, queue, stopAfter>>
  BY DEF crawl
<1>2. /\ \A b : On(b)' = On(b) /\ Paged(b)' = Paged(b)
      /\ \A b, u, v : /\ Before(b, u, v)' <=> Before(b, u, v)
                      /\ Above(b, u, v)' <=> Above(b, u, v)
      /\ \A b, u : RankOf(b, u)' = RankOf(b, u)
  BY SameBoards
<1>3. Known' = Known /\ \A v : Kept(v)' <=> Kept(v)
  BY <1>1, SameHeld
<1>4. \A v \in Url : Stale(day[v]) => Stale(day[v])'
  BY DEF Stale, CrawlInv, BoardsInv
<1>5. \A v \in Url : Lasting(v)' => Lasting(v)
  BY <1>4 DEF Lasting
<1>6. Waiting' = Waiting /\ Read' = Read /\ Bound' = Bound /\ \A v : Reached(v)' <=> Reached(v)
  <2>1. Waiting' = Waiting /\ Read' = Read /\ Bound' = Bound
    BY <1>1 DEF Waiting, Read, Bound
  <2> QED
    BY <1>1, <1>2, <2>1 DEF Reached
<1>7. \A b, v : Missed(b, v) => Missed(b, v)'
  BY <1>2, <1>3 DEF Missed
<1>8. \A b \in 1..NumBoards : \A v \in On(b) : v \in Url
  BY BoardIs DEF CrawlInv
<1>9. StoreClosed'
  BY <1>2, <1>4, <1>8 DEF Complete, StoreClosed
<1>10. at # "idle" => HeldAsStored' /\ LeftComplete'
  <2>1. at # "idle" => HeldAsStored'
    BY <1>1, <1>3 DEF Complete, HeldAsStored
  <2>2. at # "idle" => LeftComplete'
    BY <1>1, <1>2, <1>3, <1>5, <1>7, <1>8 DEF Complete, LeftComplete
  <2> QED
    BY <2>1, <2>2
<1>11. ASSUME at \in {"list", "items"} PROVE BoardComplete'
  <2>0. QueueOrdered /\ PagesRead /\ ReachedComplete /\ WaitingClosed /\ board \in 1..NumBoards
    BY <1>11 DEF Complete, BoardComplete, CrawlInv, PlaceInv
  <2>1. QueueOrdered'
    BY <2>0, <1>1 DEF QueueOrdered
  <2>2. PagesRead'
    <3>1. \A u \in Read : /\ u \in On(board) /\ u \in Url
                          /\ RankOf(board, u) < Bound + Cardinality(touched)
      BY <2>0, <1>8 DEF PagesRead, PagesRanked
    <3>2. Bound \in Nat
      BY LoIs DEF Bound, CrawlInv, PlaceInv
    <3>3. \A u \in Read : RankOf(board, u) \in Nat
      BY <2>0, <3>1, RanksAre DEF CrawlInv
    <3>4. \A u \in Read : RankOf(board, u) < Bound + Cardinality(touched')
      BY <3>1, <3>2, <3>3
    <3>5. /\ Waiting \subseteq Read
          /\ \A u \in Covered(new) : BoardOf[u] < board \/ u \in Read
          /\ \A u \in Read : Lasting(u)' => Kept(u) \/ u \in Waiting
      BY <2>0, <3>1, <1>5 DEF PagesRead, PagesRanked
    <3> QED
      BY <3>1, <3>4, <3>5, <1>1, <1>2, <1>3, <1>6 DEF PagesRead, PagesRanked
  <2>3. ReachedComplete'
    BY <2>0, <1>1, <1>2, <1>3, <1>5, <1>6, <1>7, <1>8 DEF ReachedComplete
  <2>4. WaitingClosed'
    BY <2>0, <1>1, <1>2, <1>3, <1>5, <1>6, <1>8 DEF WaitingClosed
  <2> QED
    BY <2>1, <2>2, <2>3, <2>4 DEF BoardComplete
<1> QED
  BY <1>1, <1>9, <1>10, <1>11 DEF Complete

------------------------------------------------------------------------------
(* The boards change *)

\* A new notice moves the others of its board down by one at most.
LEMMA NewNoticeIs ==
  ASSUME BoardsInv, NEW u \in Url, PostNotice(u)
  PROVE  \A c \in 1..NumBoards :
           /\ u \notin On(c)
           /\ \A x, y \in On(c) : Above(c, x, y)' <=> Above(c, x, y)
           /\ \A v \in On(c) : /\ RankOf(c, v) \in Nat /\ RankOf(c, v)' \in Nat
                               /\ RankOf(c, v) <= RankOf(c, v)'
                               /\ RankOf(c, v)' <= RankOf(c, v) + 1
<1>0. pinned' = pinned
  BY DEF PostNotice
<1>1. u \notin Posted /\ u \notin pinned
  BY PostNoticeIs
<1> SUFFICES ASSUME NEW c \in 1..NumBoards
             PROVE  /\ u \notin On(c)
                    /\ \A x, y \in On(c) : Above(c, x, y)' <=> Above(c, x, y)
                    /\ \A v \in On(c) : /\ RankOf(c, v) \in Nat /\ RankOf(c, v)' \in Nat
                                        /\ RankOf(c, v) <= RankOf(c, v)'
                                        /\ RankOf(c, v)' <= RankOf(c, v) + 1
  OBVIOUS
<1>2. u \notin On(c)
  BY <1>1, BoardIs
<1>3. /\ On(c)' = IF c = BoardOf[u] THEN On(c) \cup {u} ELSE On(c)
      /\ \A x, y : Before(c, x, y)' <=>
           Before(c, x, y) \/ (c = BoardOf[u] /\ x = u /\ y \in On(c))
  BY PostNoticeIs
<1>4. /\ \A x, y : Above(c, x, y) <=> IF x \in pinned <=> y \in pinned
                                      THEN Before(c, x, y) ELSE x \in pinned
      /\ \A x, y : Above(c, x, y)' <=> IF x \in pinned <=> y \in pinned
                                       THEN Before(c, x, y)' ELSE x \in pinned
  BY <1>0 DEF Above, Before
<1>5. \A x, y : x # u => (Above(c, x, y)' <=> Above(c, x, y))
  BY <1>3, <1>4
<1>6. \A x : Above(c, x, u) => x \in pinned \/ Before(c, x, u)
  BY <1>4, <1>1
<1>7. Paged(c) \subseteq Paged(c)' /\ Paged(c)' \subseteq Paged(c) \cup {u}
  BY <1>0, <1>3 DEF Paged
<1>8. IsFiniteSet(Paged(c)) /\ Paged(c) \subseteq On(c)
  <2>1. Paged(c) \subseteq On(c) /\ IsFiniteSet(On(c))
    BY BoardIs, BoardOrders, RanksAre
  <2> QED
    BY <2>1, FS_Subset
<1>9. ASSUME NEW v \in On(c)
      PROVE  /\ RankOf(c, v) \in Nat /\ RankOf(c, v)' \in Nat
             /\ RankOf(c, v) <= RankOf(c, v)' /\ RankOf(c, v)' <= RankOf(c, v) + 1
  <2> DEFINE A == {w \in Paged(c) : Above(c, w, v)}
             B == {w \in Paged(c)' : Above(c, w, v)'}
  <2>1. RankOf(c, v) = Cardinality(A) /\ RankOf(c, v)' = Cardinality(B)
    BY DEF RankOf
  <2>2. A \subseteq B
    BY <1>2, <1>5, <1>7, <1>8
  <2>3. B \subseteq A \cup {u}
    BY <1>5, <1>7
  <2>4. IsFiniteSet(A) /\ IsFiniteSet(A \cup {u})
    BY <1>8, FS_Subset, FS_AddElement
  <2> HIDE DEF A, B
  <2>5. IsFiniteSet(B)
    BY <2>3, <2>4, FS_Subset
  <2>6. Cardinality(A) \in Nat /\ Cardinality(B) \in Nat /\ Cardinality(A) <= Cardinality(B)
    BY <2>2, <2>4, <2>5, FS_Subset, FS_CardinalityType
  <2>7. Cardinality(B) <= Cardinality(A \cup {u})
    BY <2>3, <2>4, FS_Subset
  <2>8. Cardinality(A \cup {u}) <= Cardinality(A) + 1
    BY <2>4, <2>6, FS_AddElement
  <2>9. Cardinality(A \cup {u}) \in Nat
    BY <2>4, FS_CardinalityType
  <2> QED
    BY <2>1, <2>6, <2>7, <2>8, <2>9
<1> QED
  BY <1>2, <1>5, <1>9

\* No stored post is of a notice that is still to come.
LEMMA CoveredDated ==
  ASSUME NEW posts, IsPostList(posts), Dated(posts, day)
  PROVE  \A u \in Covered(posts) : u \in Url /\ day[u] # 0
<1> SUFFICES ASSUME NEW u \in Covered(posts) PROVE u \in Url /\ day[u] # 0
  OBVIOUS
<1>1. PICK i \in DOMAIN posts : u \in UrlsOf(posts[i])
  BY CoveredIs
<1>2. posts[i] \in Posts /\ DatedPost(posts[i], day)
  BY ElementsOf DEF IsPostList, Dated
<1>3. /\ posts[i].url \in Url /\ posts[i].day # 0
      /\ \A m \in posts[i].meta : m.url \in Url /\ m.day # 0
  BY <1>2 DEF Posts, Sources
<1> QED
  BY <1>1, <1>2, <1>3 DEF DatedPost, UrlsOf

\* A notice posted while a board is read is above what is read of it.
LEMMA PostNoticeComplete ==
  ASSUME CrawlInv, DatesInv, Complete, NEW u \in Url, PostNotice(u)
  PROVE  Complete'
<1> USE CrawlAssumption
<1>0. BoardsInv /\ StoreInv /\ HeldInv /\ PlaceInv
  BY DEF CrawlInv
<1>1. /\ UNCHANGED <<at, old, new, seen, board, page, pages, queue, stopAfter, store, pinned,
                     today>>
      /\ Touch(u)
  BY DEF PostNotice, crawl
<1>2. /\ BoardOf[u] \in 1..NumBoards /\ u \notin Posted /\ u \notin pinned
      /\ day[u] = 0 /\ \A v \in Url : v # u => day'[v] = day[v]
      /\ \A c \in 1..NumBoards :
           /\ On(c)' = IF c = BoardOf[u] THEN On(c) \cup {u} ELSE On(c)
           /\ \A x, y : Before(c, x, y)' <=>
                Before(c, x, y) \/ (c = BoardOf[u] /\ x = u /\ y \in On(c))
  BY <1>0, PostNoticeIs
<1>3. \A c \in 1..NumBoards :
        /\ u \notin On(c) /\ \A v \in On(c) : v \in Url /\ v # u
        /\ \A x, y \in On(c) : Above(c, x, y)' <=> Above(c, x, y)
        /\ \A v \in On(c) : /\ RankOf(c, v) \in Nat /\ RankOf(c, v)' \in Nat
                            /\ RankOf(c, v) <= RankOf(c, v)'
                            /\ RankOf(c, v)' <= RankOf(c, v) + 1
  BY <1>0, NewNoticeIs, BoardIs
<1>4. Known' = Known /\ \A v : Kept(v)' <=> Kept(v)
  BY <1>1, SameHeld
<1>5. u \notin Covered(store) /\ u \notin Known
  BY <1>0, <1>2, CoveredDated DEF DatesInv, StoreInv, HeldInv, Known
<1>6. \A c \in 1..NumBoards : \A v \in On(c) : Lasting(v)' <=> Lasting(v)
  BY <1>1, <1>2, <1>3 DEF Lasting, Stale
<1>7. \A c \in 1..NumBoards : \A x, y : Before(c, x, y) => x \in On(c) /\ y \in On(c)
  BY DEF Before, On, ToSet
<1>8. touched \subseteq touched' /\ (at # "idle" => u \in touched')
  BY <1>0, <1>1, TouchIs
<1>9. \A c \in 1..NumBoards : \A v \in On(c) : Missed(c, v) => Missed(c, v)'
  BY <1>1, <1>2, <1>3, <1>4, <1>5, <1>7, <1>8 DEF Missed
<1>10. at # "idle" => Missed(BoardOf[u], u)'
  BY <1>1, <1>2, <1>3, <1>4, <1>5, <1>7, <1>8 DEF Missed
<1>11. StoreClosed'
  <2> SUFFICES ASSUME NEW c \in 1..NumBoards, NEW x \in On(c)', NEW y \in On(c)',
                      Before(c, x, y)', x \in Covered(store), ~Stale(day[y])'
               PROVE  y \in Covered(store)
    BY <1>1 DEF StoreClosed
  <2>1. x # u
    BY <1>5
  <2>2. Before(c, x, y)
    BY <2>1, <1>2
  <2>3. x \in On(c) /\ y \in On(c) /\ y \in Url /\ y # u
    BY <2>2, <1>3, <1>7
  <2>4. ~Stale(day[y])
    BY <2>3, <1>1, <1>2 DEF Stale
  <2> QED
    BY <2>2, <2>3, <2>4 DEF Complete, StoreClosed
<1>12. at # "idle" => HeldAsStored'
  BY <1>1, <1>4 DEF Complete, HeldAsStored
<1>13. at # "idle" => LeftComplete'
  <2> SUFFICES ASSUME at # "idle", NEW c \in 1..NumBoards, c < board,
                      NEW v \in On(c)', Lasting(v)'
               PROVE  Kept(v)' \/ Missed(c, v)'
    BY <1>1 DEF LeftComplete
  <2>1. CASE v \in On(c)
    BY <2>1, <1>4, <1>6, <1>9 DEF Complete, LeftComplete
  <2>2. CASE v \notin On(c)
    BY <2>2, <1>2, <1>10
  <2> QED
    BY <2>1, <2>2
<1>14. ASSUME at \in {"list", "items"} PROVE BoardComplete'
  <2>0. QueueOrdered /\ PagesRead /\ ReachedComplete /\ WaitingClosed /\ board \in 1..NumBoards
    BY <1>0, <1>14 DEF Complete, BoardComplete, PlaceInv
  <2>1. Waiting' = Waiting /\ Read' = Read /\ Bound' = Bound /\ Bound \in Nat
    BY <1>0, <1>1, LoIs DEF Waiting, Read, Bound, PlaceInv
  <2>2. Waiting \subseteq Read /\ Read \subseteq On(board)
    BY <2>0 DEF PagesRead, PagesRanked
  <2>3. \A i \in DOMAIN queue : queue[i].url \in On(board)
    BY <2>2 DEF Waiting
  <2>4. QueueOrdered'
    <3>1. \A i \in DOMAIN queue : day'[queue[i].url] = day[queue[i].url]
      BY <2>0, <2>3, <1>2, <1>3
    <3> QED
      BY <3>1, <2>0, <1>1 DEF QueueOrdered
  <2>5. \A v \in On(board) : Reached(v)' => Reached(v)
    <3> SUFFICES ASSUME NEW v \in On(board), Reached(v)' PROVE Reached(v)
      OBVIOUS
    <3>1. CASE stopAfter
      BY <3>1 DEF Reached
    <3>2. CASE RankOf(board, v)' < Bound
      <4>1. RankOf(board, v) < Bound
        BY <3>2, <2>0, <2>1, <1>1, <1>3
      <4> QED
        BY <4>1 DEF Reached
    <3>3. CASE \E h \in Read \ pinned : v = h \/ Above(board, v, h)'
      BY <3>3, <2>0, <2>2, <1>1, <1>3 DEF Reached
    <3> QED
      BY <3>1, <3>2, <3>3, <1>1, <2>1 DEF Reached
  <2>6. PagesRead'
    <3>1. Cardinality(touched') = Cardinality(touched) + 1 /\ Cardinality(touched) \in Nat
      <4>1. touched' = touched \cup {u}
        BY <1>1, <1>14 DEF Touch
      <4>2. u \notin touched /\ IsFiniteSet(touched)
        <5>1. touched \subseteq Url
          BY <1>0 DEF BoardsInv
        <5> QED
          BY <5>1, <1>2, FS_Subset DEF DatesInv
      <4> QED
        BY <4>1, <4>2, FS_AddElement, FS_CardinalityType
    <3>2. ASSUME NEW v \in Read
          PROVE  /\ v \in On(board)' /\ RankOf(board, v)' < Bound + Cardinality(touched')
                 /\ Lasting(v)' => Kept(v) \/ v \in Waiting
      <4>1. v \in On(board) /\ v \in On(board)'
        BY <2>0, <2>2, <1>1, <1>2
      <4>2. /\ RankOf(board, v) < Bound + Cardinality(touched)
            /\ Lasting(v) => Kept(v) \/ v \in Waiting
        BY <2>0 DEF PagesRead, PagesRanked
      <4>3. RankOf(board, v)' < Bound + Cardinality(touched')
        BY <4>1, <4>2, <3>1, <2>0, <2>1, <1>1, <1>3
      <4> QED
        BY <4>1, <4>2, <4>3, <1>1, <1>6, <2>0
    <3>3. \A v \in Covered(new) : BoardOf[v] < board \/ v \in Read
      BY <2>0 DEF PagesRead, PagesRanked
    <3> QED
      BY <3>2, <3>3, <2>1, <2>2, <1>1, <1>4 DEF PagesRead, PagesRanked
  <2>7. ReachedComplete'
    <3> SUFFICES ASSUME NEW v \in On(board)', Reached(v)', Lasting(v)'
                 PROVE  Kept(v) \/ v \in Waiting \/ Missed(board, v)'
      BY <1>1, <1>4, <2>1 DEF ReachedComplete
    <3>1. CASE v \in On(board)
      BY <3>1, <2>0, <2>5, <1>1, <1>6, <1>9 DEF ReachedComplete
    <3>2. CASE v \notin On(board)
      BY <3>2, <2>0, <1>1, <1>2, <1>10, <1>14
    <3> QED
      BY <3>1, <3>2
  <2>8. WaitingClosed'
    <3> SUFFICES ASSUME NEW x \in Waiting, x \notin Known, NEW v \in On(board)', Reached(v)',
                        Lasting(v)', Before(board, x, v)'
                 PROVE  v \in Waiting \/ v \in Known
      BY <1>1, <1>4, <2>1 DEF WaitingClosed
    <3>1. x \in On(board) /\ x # u
      BY <2>0, <2>2, <1>3
    <3>2. Before(board, x, v) /\ v \in On(board)
      BY <3>1, <2>0, <1>1, <1>2, <1>7
    <3> QED
      BY <3>2, <2>0, <2>5, <1>1, <1>6 DEF WaitingClosed
  <2> QED
    BY <2>4, <2>6, <2>7, <2>8 DEF BoardComplete
<1> QED
  BY <1>1, <1>11, <1>12, <1>13, <1>14 DEF Complete

\* A crawl that is not disturbed after a step was not before.
LEMMA UndisturbedBefore ==
  ASSUME CrawlInv, [Next]_vars, Undisturbed'
  PROVE  Undisturbed /\ faults' = faults /\ shifts' = shifts
<1>1. shifts \in Nat /\ faults \in Nat
  BY CrawlAssumption DEF CrawlInv, BoardsInv, PlaceInv
<1>2. faults' \in {faults, faults + 1} /\ shifts' \in {shifts, shifts + 1}
  <2>1. CASE UNCHANGED vars
    BY <2>1 DEF vars, site
  <2>2. CASE Boards
    BY <2>2 DEF Boards, DayPasses, PostNotice, Edit, Pin, Unpin, TakeDown, Shift
  <2>3. CASE Crawler
    <3>1. shifts' = shifts
      BY <2>3 DEF Crawler, StartCrawl, ListFails, ListEnds, ReadPage, EndPage, KnownItem,
                  NewItem, NewItemFails, Save, Abandon, site
    <3>2. faults' \in {faults, faults + 1}
      BY <2>3 DEF Crawler, StartCrawl, ListFails, ListEnds, ReadPage, EndPage, KnownItem,
                  NewItem, NewItemFails, Save, Abandon, Readable, Unreadable
    <3> QED
      BY <3>1, <3>2
  <2> QED
    BY <2>1, <2>2, <2>3 DEF Next
<1>3. faults' = 0 /\ shifts' = 0
  BY DEF Undisturbed
<1> QED
  BY <1>1, <1>2, <1>3 DEF Undisturbed

LEMMA SteadyBefore ==
  ASSUME CrawlInv, [Next]_vars, Steady'
  PROVE  Steady /\ faults' = faults /\ shifts' = shifts
BY UndisturbedBefore DEF Steady, Calm

LEMMA BoardsComplete ==
  ASSUME CrawlInv, DatesInv, Complete, Boards, shifts' = shifts
  PROVE  Complete'
<1> USE CrawlAssumption
<1>0. BoardsInv /\ today \in Nat /\ touched \subseteq Url /\ shifts \in Nat
  <2>1. BoardsInv
    BY DEF CrawlInv
  <2>2. today \in 1..MaxDay /\ touched \subseteq Url /\ shifts \in 0..MaxShifts
    BY <2>1 DEF BoardsInv
  <2> QED
    BY <2>1, <2>2
<1>1. \A s \in SUBSET Url : Cardinality(s) \in Nat /\ IsFiniteSet(s)
  BY FS_Subset, FS_CardinalityType
<1>2. CASE DayPasses
  <2>1. /\ today' = today + 1
        /\ UNCHANGED <<lists, pinned, day, store, crawl, touched>>
    BY <1>2 DEF DayPasses
  <2> QED
    BY <2>1, <1>0, <1>1, QuietKeeps
<1>3. ASSUME NEW u \in Url, Edit(u) PROVE Complete'
  <2>1. /\ today' = today /\ Touch(u)
        /\ UNCHANGED <<lists, pinned, day, store, crawl>>
    BY <1>3 DEF Edit
  <2>2. touched \subseteq touched' /\ touched' \subseteq Url
    BY <2>1, <1>0, TouchIs
  <2>3. Cardinality(touched) <= Cardinality(touched')
    BY <2>2, <1>1, FS_Subset
  <2> QED
    BY <2>1, <2>2, <2>3, <1>0, <1>1, QuietKeeps
<1>4. ASSUME NEW u \in Url, Pin(u) \/ Unpin(u) \/ TakeDown(u) PROVE Complete'
  <2>1. at = "idle" /\ UNCHANGED <<at, store, day, today>>
    BY <1>0, <1>4 DEF Pin, Unpin, TakeDown, Shift, crawl
  <2>2. \A c \in 1..NumBoards :
          On(c)' \subseteq On(c) /\ \A x, y : Before(c, x, y)' => Before(c, x, y)
    <3>1. CASE Pin(u) \/ Unpin(u)
      <4>1. lists' = lists
        BY <3>1 DEF Pin, Unpin
      <4> QED
        BY <4>1 DEF On, Before
    <3>2. CASE TakeDown(u)
      BY <3>2, <1>0, TakeDownIs
    <3> QED
      BY <3>1, <3>2, <1>4
  <2>3. StoreClosed'
    <3> SUFFICES ASSUME NEW c \in 1..NumBoards, NEW x \in On(c)', NEW y \in On(c)',
                        Before(c, x, y)', x \in Covered(store), ~Stale(day[y])
                 PROVE  y \in Covered(store)
      BY <2>1 DEF StoreClosed, Stale
    <3> QED
      BY <2>2 DEF Complete, StoreClosed
  <2> QED
    BY <2>1, <2>3 DEF Complete
<1> QED
  BY <1>2, <1>3, <1>4, PostNoticeComplete DEF Boards

------------------------------------------------------------------------------
(* Boards are entered and left *)

\* At the top of a board nothing is read of it.
LEMMA TopOfBoard ==
  ASSUME BoardsInv, at' = "list", board' \in 1..NumBoards, page' = 1, pages' = {},
         queue' = <<>>, ~stopAfter', UNCHANGED <<lists, pinned>>
  PROVE  /\ Waiting' = {} /\ Read' = {} /\ QueueOrdered' /\ PagesRanked'
         /\ \A v \in On(board)' : ~Reached(v)'
<1>1. Waiting' = {} /\ Read' = {}
  BY DEF Waiting, Read
<1>2. Bound' = 0
  BY LoIs DEF Bound
<1>3. QueueOrdered'
  BY DEF QueueOrdered
<1>4. PagesRanked'
  BY <1>1 DEF PagesRanked
<1>5. \A v \in On(board)' : ~Reached(v)'
  <2> DEFINE b == board'
  <2>1. \A v \in On(b) : RankOf(b, v) \in Nat
    BY RanksAre
  <2>2. On(board)' = On(b) /\ \A v : RankOf(board, v)' = RankOf(b, v)
    <3>1. \A u, v : Above(board, u, v)' <=> Above(b, u, v)
      BY DEF Above
    <3>2. On(board)' = On(b) /\ Paged(board)' = Paged(b)
      BY DEF On, Paged
    <3> QED
      BY <3>1, <3>2 DEF RankOf
  <2> QED
    BY <2>1, <2>2, <1>1, <1>2 DEF Reached
<1> QED
  BY <1>1, <1>3, <1>4, <1>5

\* And nothing is held of it that is not stored.
LEMMA FreshBoard ==
  ASSUME BoardsInv, at' = "list", board' \in 1..NumBoards, page' = 1, pages' = {},
         queue' = <<>>, ~stopAfter', UNCHANGED <<lists, pinned>>,
         \A u \in Covered(new') : BoardOf[u] < board'
  PROVE  BoardComplete'
<1>1. /\ Waiting' = {} /\ Read' = {} /\ QueueOrdered' /\ PagesRanked'
      /\ \A v \in On(board)' : ~Reached(v)'
  BY TopOfBoard
<1>2. PagesRead'
  BY <1>1 DEF PagesRead
<1>3. ReachedComplete' /\ WaitingClosed'
  BY <1>1 DEF ReachedComplete, WaitingClosed
<1> QED
  BY <1>1, <1>2, <1>3 DEF BoardComplete

\* The boards as they are, and what a crawl knows of them.
LEMMA SameSite ==
  ASSUME UNCHANGED site
  PROVE  /\ UNCHANGED <<lists, pinned, day, today, touched>>
         /\ \A b : On(b)' = On(b) /\ Paged(b)' = Paged(b)
         /\ \A b, u, v : /\ Before(b, u, v)' <=> Before(b, u, v)
                         /\ Above(b, u, v)' <=> Above(b, u, v)
         /\ \A b, u : RankOf(b, u)' = RankOf(b, u)
         /\ \A v : Lasting(v)' <=> Lasting(v)
<1>1. UNCHANGED <<lists, pinned, day, today, touched>>
  BY DEF site
<1>2. \A v : Lasting(v)' <=> Lasting(v)
  BY <1>1 DEF Lasting, Stale
<1> QED
  BY <1>1, <1>2, SameBoards

\* A board whose lasting notices are held may be left.
LEMMA LeaveBoard ==
  ASSUME CrawlInv, Complete, at \in {"list", "items"}, NextBoard, UNCHANGED <<site, store>>,
         seen' = Known, Known' = Known,
         TitlesDiffer(old'), Covered(old') = Covered(old), Covered(new') = Covered(new),
         \A v : Kept(v) => Kept(v)',
         \A v \in On(board) : Lasting(v) => Kept(v)' \/ Missed(board, v)
  PROVE  Complete'
<1> USE CrawlAssumption
<1>0. BoardsInv /\ PlaceInv
  BY DEF CrawlInv
<1>1. /\ board' = board + 1 /\ page' = 1 /\ pages' = {} /\ queue' = <<>> /\ ~stopAfter'
      /\ at' \in {"list", "save"} /\ board \in 1..NumBoards
  BY <1>0, NextBoardIs
<1>2. at' = "list" => board' \in 1..NumBoards
  BY <1>1 DEF NextBoard
<1>3. /\ UNCHANGED <<lists, pinned, day, today, touched>>
      /\ \A b : On(b)' = On(b)
      /\ \A b, u, v : Before(b, u, v)' <=> Before(b, u, v)
      /\ \A v : Lasting(v)' <=> Lasting(v)
  BY SameSite
<1>4. \A b, v : Missed(b, v)' <=> Missed(b, v)
  BY <1>3 DEF Missed
<1>5. StoreClosed'
  BY <1>3 DEF Complete, StoreClosed, Stale
<1>6. HeldAsStored'
  BY <1>1 DEF Complete, HeldAsStored
<1>7. LeftComplete'
  <2> SUFFICES ASSUME NEW b \in 1..NumBoards, b < board + 1, NEW v \in On(b), Lasting(v)
               PROVE  Kept(v)' \/ Missed(b, v)
    BY <1>1, <1>3, <1>4 DEF LeftComplete
  <2>1. CASE b < board
    BY <2>1 DEF Complete, LeftComplete
  <2>2. CASE ~(b < board)
    <3>1. b = board
      BY <1>1, <2>2
    <3> QED
      BY <3>1
  <2> QED
    BY <2>1, <2>2
<1>8. at' = "list" => BoardComplete'
  <2>1. \A u \in Covered(new') : BoardOf[u] < board'
    <3> SUFFICES ASSUME NEW u \in Covered(new) PROVE BoardOf[u] < board'
      OBVIOUS
    <3>1. BoardOf[u] < board \/ u \in On(board)
      BY DEF Complete, BoardComplete, PagesRead, PagesRanked
    <3>2. u \in Url
      BY CoveredUrls DEF CrawlInv, HeldInv
    <3>3. BoardOf[u] \in 1..NumBoards
      BY <3>2
    <3>4. u \in On(board) => BoardOf[u] = board
      BY <1>0, <1>1, BoardIs
    <3> QED
      BY <1>1, <3>1, <3>3, <3>4
  <2> QED
    BY <1>0, <1>1, <1>2, <1>3, <2>1, FreshBoard
<1> QED
  BY <1>1, <1>5, <1>6, <1>7, <1>8 DEF Complete

------------------------------------------------------------------------------
(* Items are handled *)

LEMMA QueueIs ==
  ASSUME PlaceInv, queue # <<>>
  PROVE  /\ 1 \in DOMAIN queue /\ queue[1] = Head(queue) /\ Head(queue).url \in Waiting
         /\ \A i \in DOMAIN queue : i \in Nat /\ (i = 1 \/ 1 < i)
         /\ \A i \in DOMAIN Tail(queue) :
              i \in Nat /\ i + 1 \in DOMAIN queue /\ Tail(queue)[i] = queue[i + 1]
         /\ Waiting = {Tail(queue)[i].url : i \in DOMAIN Tail(queue)} \cup {Head(queue).url}
<1>1. queue \in Seq(PageItem)
  BY DEF PlaceInv
<1>2. DOMAIN queue = 1 .. Len(queue) /\ Len(queue) \in Nat \ {0} /\ Head(queue) = queue[1]
  BY <1>1
<1>3. /\ DOMAIN Tail(queue) = 1 .. Len(queue) - 1
      /\ \A i \in DOMAIN Tail(queue) : Tail(queue)[i] = queue[i + 1]
  BY <1>1, <1>2
<1>4. /\ 1 \in DOMAIN queue /\ \A i \in DOMAIN queue : i \in Nat /\ (i = 1 \/ 1 < i)
      /\ \A i \in DOMAIN Tail(queue) : i \in Nat /\ i + 1 \in DOMAIN queue
      /\ \A i \in DOMAIN queue : 1 < i => i - 1 \in DOMAIN Tail(queue) /\ (i - 1) + 1 = i
  BY <1>2, <1>3
<1>5. Waiting = {Tail(queue)[i].url : i \in DOMAIN Tail(queue)} \cup {Head(queue).url}
  <2>1. ASSUME NEW u \in Waiting
        PROVE  u \in {Tail(queue)[i].url : i \in DOMAIN Tail(queue)} \cup {Head(queue).url}
    <3>1. PICK i \in DOMAIN queue : u = queue[i].url
      BY DEF Waiting
    <3>2. CASE i = 1
      BY <3>1, <3>2, <1>2
    <3>3. CASE 1 < i
      <4>1. /\ i - 1 \in DOMAIN Tail(queue) /\ (i - 1) + 1 = i
            /\ Tail(queue)[i - 1] = queue[(i - 1) + 1]
        BY <3>3, <1>3, <1>4
      <4>2. Tail(queue)[i - 1].url = u
        BY <4>1, <3>1
      <4> QED
        BY <4>1, <4>2
    <3> QED
      BY <3>2, <3>3, <1>4
  <2>2. ASSUME NEW i \in DOMAIN Tail(queue) PROVE Tail(queue)[i].url \in Waiting
    BY <1>3, <1>4 DEF Waiting
  <2>3. Head(queue).url \in Waiting
    BY <1>2, <1>4 DEF Waiting
  <2> QED
    BY <2>1, <2>2, <2>3
<1>6. Head(queue).url \in Waiting
  BY <1>5
<1> QED
  BY <1>2, <1>3, <1>4, <1>5, <1>6

\* The rest of a queue is in the same order.
LEMMA RestIs ==
  ASSUME PlaceInv, QueueOrdered, queue # <<>>, queue' = Tail(queue), UNCHANGED <<pinned, day>>
  PROVE  /\ Waiting = Waiting' \cup {Head(queue).url} /\ Head(queue).url \in Waiting
         /\ QueueOrdered'
<1>1. /\ \A i \in DOMAIN Tail(queue) :
           i \in Nat /\ i + 1 \in DOMAIN queue /\ Tail(queue)[i] = queue[i + 1]
      /\ Waiting = {Tail(queue)[i].url : i \in DOMAIN Tail(queue)} \cup {Head(queue).url}
      /\ Head(queue).url \in Waiting
  BY QueueIs
<1>2. Waiting' = {Tail(queue)[i].url : i \in DOMAIN Tail(queue)}
  BY DEF Waiting
<1>3. QueueOrdered'
  <2>1. \A i \in DOMAIN Tail(queue) : Tail(queue)[i].permanent <=> Tail(queue)[i].url \in pinned
    BY <1>1 DEF QueueOrdered
  <2>2. ASSUME NEW i \in DOMAIN Tail(queue), NEW j \in DOMAIN Tail(queue), i < j,
               ~Tail(queue)[i].permanent
        PROVE  ~Tail(queue)[j].permanent /\ day[Tail(queue)[j].url] <= day[Tail(queue)[i].url]
    <3>1. i + 1 \in DOMAIN queue /\ j + 1 \in DOMAIN queue /\ i + 1 < j + 1
      BY <2>2, <1>1
    <3> QED
      BY <3>1, <2>2, <1>1 DEF QueueOrdered
  <2> QED
    BY <2>1, <2>2 DEF QueueOrdered
<1> QED
  BY <1>1, <1>2, <1>3

\* One item more of the page is held.
LEMMA HandleItem ==
  ASSUME CrawlInv, Complete, at = "items", queue # <<>>, queue' = Tail(queue),
         UNCHANGED <<site, store, at, board, page, pages, stopAfter>>,
         NEW u, u = Head(queue).url, Known' = Known \cup {u}, seen' = Known',
         TitlesDiffer(old'), Covered(old') = Covered(old),
         Covered(new') \subseteq Covered(new) \cup {u},
         \A v : Kept(v) => Kept(v)', Kept(u)'
  PROVE  Complete'
<1> USE CrawlAssumption
<1>0. BoardsInv /\ PlaceInv /\ board \in 1..NumBoards
  BY DEF CrawlInv, PlaceInv
<1>1. HeldAsStored /\ LeftComplete /\ QueueOrdered /\ PagesRead /\ ReachedComplete /\ WaitingClosed
  BY DEF Complete, BoardComplete
<1>2. /\ UNCHANGED <<lists, pinned, day, today, touched>>
      /\ \A b : On(b)' = On(b)
      /\ \A b, x, y : Before(b, x, y)' <=> Before(b, x, y)
      /\ \A b, x, y : Above(b, x, y)' <=> Above(b, x, y)
      /\ \A b, x : RankOf(b, x)' = RankOf(b, x)
      /\ \A v : Lasting(v)' <=> Lasting(v)
  BY SameSite
<1>3. Read' = Read /\ Bound' = Bound /\ \A v : Reached(v)' <=> Reached(v)
  <2>1. Read' = Read /\ Bound' = Bound
    BY DEF Read, Bound
  <2> QED
    BY <2>1, <1>2 DEF Reached
<1>4. Waiting = Waiting' \cup {u} /\ u \in Waiting /\ QueueOrdered'
  BY <1>0, <1>1, <1>2, RestIs
<1>5. u \in Read /\ Read \subseteq On(board) /\ BoardOf[u] = board
  <2>1. u \in Read /\ Read \subseteq On(board)
    BY <1>1, <1>4 DEF PagesRead, PagesRanked
  <2> QED
    BY <2>1, <1>0, BoardIs
<1>6. StoreClosed'
  BY <1>2 DEF Complete, StoreClosed, Stale
<1>7. HeldAsStored'
  BY <1>1 DEF HeldAsStored
<1>8. LeftComplete'
  <2> SUFFICES ASSUME NEW b \in 1..NumBoards, b < board, NEW v \in On(b), Lasting(v)
               PROVE  Kept(v)' \/ Missed(b, v)'
    BY <1>2 DEF LeftComplete
  <2>1. CASE Kept(v)
    BY <2>1
  <2>2. CASE Missed(b, v)
    <3>1. \A x \in On(b) : x # u
      BY <1>0, <1>5, BoardIs
    <3> QED
      BY <2>2, <3>1, <1>2 DEF Missed
  <2> QED
    BY <2>1, <2>2, <1>1 DEF LeftComplete
<1>10. PagesRead'
  <2>1. Waiting' \subseteq Read /\ \A x \in Covered(new') : BoardOf[x] < board \/ x \in Read
    BY <1>1, <1>4, <1>5 DEF PagesRead, PagesRanked
  <2>2. \A x \in Read : /\ x \in On(board) /\ RankOf(board, x) < Bound + Cardinality(touched)
                        /\ Lasting(x) => Kept(x)' \/ x \in Waiting'
    BY <1>1, <1>4 DEF PagesRead, PagesRanked
  <2> QED
    BY <2>1, <2>2, <1>2, <1>3 DEF PagesRead, PagesRanked
<1>11. ReachedComplete'
  <2> SUFFICES ASSUME NEW v \in On(board), Reached(v), Lasting(v)
               PROVE  Kept(v)' \/ v \in Waiting' \/ Missed(board, v)'
    BY <1>2, <1>3 DEF ReachedComplete
  <2>1. v \in Waiting => Kept(v)' \/ v \in Waiting'
    BY <1>4
  <2>2. CASE Missed(board, v) /\ v \notin Waiting
    <3>1. v # u /\ v \notin Known
      BY <2>2, <1>4 DEF Missed
    <3>2. CASE Before(board, u, v)
      <4>1. u \in Waiting \ Known
        BY <2>2, <3>2, <1>4, <1>5 DEF Missed
      <4> QED
        BY <4>1, <3>1, <3>2, <2>2, <1>1 DEF WaitingClosed
    <3>3. CASE ~Before(board, u, v)
      BY <2>2, <3>1, <3>3, <1>2 DEF Missed
    <3> QED
      BY <3>2, <3>3
  <2> QED
    BY <2>1, <2>2, <1>1 DEF ReachedComplete
<1>12. WaitingClosed'
  <2> SUFFICES ASSUME NEW x \in Waiting', x \notin Known', NEW v \in On(board), Reached(v),
                      Lasting(v), Before(board, x, v)
               PROVE  v \in Waiting' \/ v \in Known'
    BY <1>2, <1>3 DEF WaitingClosed
  <2> QED
    BY <1>1, <1>4 DEF WaitingClosed
<1> QED
  BY <1>4, <1>6, <1>7, <1>8, <1>10, <1>11, <1>12 DEF Complete, BoardComplete

\* Below a stale item of a page there is nothing that lasts.
LEMMA BelowStale ==
  ASSUME CrawlInv, DatesInv, QueueOrdered, Waiting \subseteq Read, PagesRanked,
         at = "items", queue # <<>>, ~Head(queue).permanent, Stale(day[Head(queue).url])
  PROVE  \A v \in On(board) : Lasting(v) => Reached(v) /\ v \notin Waiting
<1> USE CrawlAssumption
<1> DEFINE h == Head(queue).url
<1>0. BoardsInv /\ PlaceInv /\ board \in 1..NumBoards
  BY DEF CrawlInv, PlaceInv
<1>2. /\ 1 \in DOMAIN queue /\ queue[1] = Head(queue) /\ h \in Waiting
      /\ \A i \in DOMAIN queue : i \in Nat /\ (i = 1 \/ 1 < i)
  BY <1>0, QueueIs
<1>3. h \in Read /\ h \in On(board) /\ Waiting \subseteq On(board) /\ h \notin pinned
  BY <1>2 DEF PagesRanked, QueueOrdered
<1>4. \A v \in On(board) : day[v] \in Nat
  <2>1. \A v \in On(board) : v \in Url
    BY <1>0, BoardIs
  <2>2. day \in [Url -> 0..MaxDay]
    BY <1>0 DEF BoardsInv
  <2> QED
    BY <2>1, <2>2
<1>t. today \in Nat
  BY <1>0 DEF BoardsInv
<1>d. \A d \in Nat : d <= day[h] => Stale(d)
  BY <1>t, <1>3, <1>4 DEF Stale
<1> HIDE DEF h
<1>5. ASSUME NEW v \in Waiting PROVE ~Lasting(v)
  <2>1. PICK i \in DOMAIN queue : v = queue[i].url
    BY DEF Waiting
  <2>2. ~queue[i].permanent /\ day[v] <= day[h]
    <3>1. CASE i = 1
      BY <3>1, <2>1, <1>2, <1>3, <1>4 DEF h
    <3>2. CASE 1 < i
      BY <3>2, <2>1, <1>2 DEF QueueOrdered, h
    <3> QED
      BY <3>1, <3>2, <1>2
  <2>3. v \notin pinned
    BY <2>1, <2>2 DEF QueueOrdered
  <2> QED
    BY <2>2, <2>3, <1>3, <1>4, <1>d DEF Lasting
<1>6. ASSUME NEW v \in On(board), Lasting(v) PROVE Reached(v)
  <2>1. CASE v = h \/ Above(board, v, h)
    BY <2>1, <1>3 DEF Reached
  <2>2. CASE ~(v = h \/ Above(board, v, h))
    <3>1. Above(board, h, v)
      BY <2>2, <1>0, <1>3, <1>6, BoardIs, BoardOrders
    <3>2. v \notin pinned /\ Before(board, h, v)
      BY <3>1, <1>3 DEF Above, Before
    <3>3. day[v] <= day[h]
      BY <3>2, <1>0, <1>3, <1>6 DEF DatesInv
    <3> QED
      BY <3>2, <3>3, <1>4, <1>6, <1>d DEF Lasting
  <2> QED
    BY <2>1, <2>2
<1> QED
  BY <1>5, <1>6

LEMMA StaleHead ==
  ASSUME CrawlInv, DatesInv, Complete, at = "items", queue # <<>>,
         ~Head(queue).permanent, Stale(day[Head(queue).url])
  PROVE  \A v \in On(board) : Lasting(v) => Kept(v) \/ Missed(board, v)
<1>1. QueueOrdered /\ PagesRead /\ ReachedComplete
  BY DEF Complete, BoardComplete
<1>2. \A v \in On(board) : Lasting(v) => Reached(v) /\ v \notin Waiting
  BY <1>1, BelowStale DEF PagesRead
<1> QED
  BY <1>1, <1>2 DEF ReachedComplete

LEMMA HeadPinned ==
  ASSUME PlaceInv, QueueOrdered, queue # <<>>
  PROVE  Head(queue).permanent <=> Head(queue).url \in pinned
BY QueueIs DEF QueueOrdered

\* What is not stored cannot lack a flag.
LEMMA UncoveredFlagged ==
  ASSUME NEW posts, NEW u, u \notin Covered(posts)
  PROVE  Flagged(posts, u)
BY CoveredIs DEF Flagged, FlaggedPost, UrlsOf

\* The day that decides whether a board is left is the notice's own.
LEMMA KnownDayIs ==
  ASSUME DatesInv, NEW u, NEW d \in KnownDay(u)
  PROVE  d = day[u]
<1>1. CASE d \in {post.day : post \in OwnPost(u)}
  <2>1. PICK post \in ToSet(old) \cup ToSet(new) : post.url = u /\ d = post.day
    BY <1>1 DEF OwnPost
  <2>2. DatedPost(post, day)
    BY DEF ToSet, DatesInv, Dated
  <2> QED
    BY <2>1, <2>2 DEF DatedPost
<1>2. CASE d \in {m.day : m \in {m \in UNION {post.meta : post \in ToSet(old)} : m.url = u}}
  <2>1. PICK post \in ToSet(old) : \E m \in post.meta : m.url = u /\ d = m.day
    BY <1>2
  <2>2. DatedPost(post, day)
    BY DEF ToSet, DatesInv, Dated
  <2> QED
    BY <2>1, <2>2 DEF DatedPost
<1> QED
  BY <1>1, <1>2 DEF KnownDay

LEMMA KnownItemComplete ==
  ASSUME CrawlInv, DatesInv, Complete, Calm, KnownItem
  PROVE  Complete'
<1> DEFINE item == Head(queue)
<1> PICK u : u = item.url
  OBVIOUS
<1>0. HeldInv /\ PlaceInv
  BY DEF CrawlInv
<1>1. /\ at = "items" /\ queue # <<>> /\ u \in seen /\ UNCHANGED <<site, store>>
      /\ LeaveIf(~item.permanent /\ \E d \in KnownDay(u) : Stale(d))
  BY DEF KnownItem
<1>2. /\ IsPostList(old') /\ SameUrls(old', old) /\ SameUrls(new', new)
      /\ \A v : Flagged(old, v) /\ Flagged(new, v) /\ (v = u => item.permanent)
                  => Flagged(old', v) /\ Flagged(new', v)
      /\ item.permanent => Flagged(old', u) /\ Flagged(new', u)
  BY KnownItemHolds
<1>3. HeldAsStored /\ QueueOrdered
  BY <1>1 DEF Complete, BoardComplete
<1>4. seen = Known /\ TitlesDiffer(old)
  BY <1>1, <1>3 DEF HeldAsStored
<1>5. item.permanent <=> u \in pinned
  BY <1>0, <1>1, <1>3, HeadPinned
<1>6. Covered(old') = Covered(old) /\ Covered(new') = Covered(new)
  BY <1>2, SameUrlsKeep
<1>7. Known' = Known /\ u \in Known
  BY <1>1, <1>4, <1>6 DEF Known
<1>8. TitlesDiffer(old')
  <2>1. DOMAIN old' = DOMAIN old /\ \A i \in DOMAIN old : old'[i].url = old[i].url
    BY <1>2 DEF SameUrls
  <2>2. /\ \A i \in DOMAIN old : old[i].url \in Url
        /\ \A i \in DOMAIN old : old[i].title \in TitlesOf[old[i].url]
        /\ \A i \in DOMAIN old' : old'[i].title \in TitlesOf[old'[i].url]
    <3>1. IsPostList(old) /\ \A i \in DOMAIN old : old[i] \in Posts
      BY <1>0, ElementsOf DEF HeldInv, IsPostList
    <3> QED
      BY <3>1, <1>2 DEF IsPostList, Posts
  <2>3. \A i \in DOMAIN old : old'[i].title = old[i].title
    BY <2>1, <2>2 DEF Calm
  <2> QED
    BY <2>1, <2>3, <1>4 DEF TitlesDiffer
<1>9. pinned' = pinned
  BY <1>1 DEF site
<1>10. \A v : Kept(v) => Kept(v)'
  BY <1>2, <1>5, <1>7, <1>9 DEF Kept
<1>11. Kept(u)'
  BY <1>2, <1>5, <1>7, <1>9 DEF Kept
<1>12. CASE ~item.permanent /\ \E d \in KnownDay(u) : Stale(d)
  <2>1. NextBoard /\ seen' = Known
    BY <1>1, <1>12 DEF LeaveIf
  <2>2. Stale(day[u])
    BY <1>12, KnownDayIs
  <2>3. \A v \in On(board) : Lasting(v) => Kept(v) \/ Missed(board, v)
    BY <1>1, <1>12, <2>2, StaleHead
  <2>4. \A v \in On(board) : Lasting(v) => Kept(v)' \/ Missed(board, v)
    BY <2>3, <1>10
  <2> HIDE DEF item
  <2> QED
    BY <1>1, <1>6, <1>7, <1>8, <1>10, <2>1, <2>4, LeaveBoard
<1>13. CASE ~(~item.permanent /\ \E d \in KnownDay(u) : Stale(d))
  <2>1. Rest
    BY <1>1, <1>13 DEF LeaveIf
  <2>2. /\ queue' = Tail(queue) /\ UNCHANGED <<site, store, at, board, page, pages, stopAfter>>
        /\ seen' = Known' /\ Known' = Known \cup {u}
        /\ Covered(new') \subseteq Covered(new) \cup {u}
    BY <2>1, <1>1, <1>4, <1>6, <1>7 DEF Rest
  <2>3. u = Head(queue).url
    OBVIOUS
  <2> HIDE DEF item
  <2> QED
    BY <1>1, <1>6, <1>8, <1>10, <1>11, <2>2, <2>3, HandleItem
<1> QED
  BY <1>12, <1>13

LEMMA NewItemComplete ==
  ASSUME CrawlInv, DatesInv, Complete, NewItem
  PROVE  Complete'
<1> DEFINE item == Head(queue)
<1> PICK u : u = item.url
  OBVIOUS
<1>0. HeldInv /\ PlaceInv /\ BoardsInv
  BY DEF CrawlInv
<1>1. /\ at = "items" /\ queue # <<>> /\ u \notin seen /\ u \in Posted
      /\ UNCHANGED <<site, store, old>>
  BY DEF NewItem, Readable
<1>3. HeldAsStored /\ QueueOrdered
  BY <1>1 DEF Complete, BoardComplete
<1>4. seen = Known /\ TitlesDiffer(old) /\ u \notin Known
  BY <1>1, <1>3 DEF HeldAsStored
<1>5. item.permanent <=> u \in pinned
  BY <1>0, <1>1, <1>3, HeadPinned
<1>6. pinned' = pinned
  BY <1>1 DEF site
<1>7. CASE ~item.permanent /\ Stale(day[u])
  <2>1. NextBoard /\ seen' = Known /\ new' = new
    BY <1>7 DEF NewItem
  <2>2. Known' = Known /\ \A v : Kept(v)' <=> Kept(v)
    BY <2>1, <1>1, <1>6, SameHeld
  <2>3. \A v \in On(board) : Lasting(v) => Kept(v) \/ Missed(board, v)
    BY <1>1, <1>7, StaleHead
  <2>4. TitlesDiffer(old') /\ Covered(old') = Covered(old) /\ Covered(new') = Covered(new)
    BY <1>1, <1>4, <2>1
  <2>5. \A v : Kept(v) => Kept(v)'
    BY <2>2
  <2>6. \A v \in On(board) : Lasting(v) => Kept(v)' \/ Missed(board, v)
    BY <2>2, <2>3
  <2> HIDE DEF item
  <2> QED
    BY <1>1, <2>1, <2>2, <2>4, <2>5, <2>6, LeaveBoard
<1>8. CASE ~(~item.permanent /\ Stale(day[u]))
  <2> DEFINE p == Fetched(u, item.permanent)
  <2>1. /\ new' = Append(new, p) /\ queue' = Tail(queue) /\ seen' = seen \cup {u}
        /\ UNCHANGED <<at, board, page, pages, stopAfter>>
    BY <1>8 DEF NewItem
  <2>2. item \in PageItem /\ u \in Url
    BY <1>0, <1>1, HeadItem
  <2>3. UrlsOf(p) = {u}
    BY DEF Fetched, UrlsOf
  <2>4. p \in Posts /\ p.title \in TitlesOf[p.url]
    <3>1. /\ title[u] \in Titles /\ title[u] \in TitlesOf[u] /\ version[u] \in 0..MaxEdits
          /\ day[u] \in 1..MaxDay
      BY <1>0, <1>1, <2>2, ReadableHas
    <3>2. item.permanent \in BOOLEAN
      BY <2>2 DEF PageItem
    <3> HIDE DEF item
    <3> QED
      BY <3>1, <3>2, <2>2 DEF Fetched, Posts
  <2>5. UrlsOf(p) \cap Covered(new) = {} /\ u \notin Covered(old) /\ u \notin Covered(new)
    BY <2>3, <1>4 DEF Known
  <2>6. Covered(new') = Covered(new) \cup {u}
    BY <1>0, <2>1, <2>3, <2>4, <2>5, AppendedPost DEF HeldInv
  <2>7. Known' = Known \cup {u}
    BY <2>6, <1>1 DEF Known
  <2>8. \A v : Flagged(new, v) /\ (v = u => item.permanent) => Flagged(new', v)
    BY <1>0, <2>1, AppendedKeeps DEF HeldInv
  <2> HIDE DEF p
  <2>9. \A v : Kept(v) => Kept(v)'
    BY <2>7, <2>8, <1>1, <1>4, <1>6 DEF Kept
  <2>10. Kept(u)'
    <3>1. Flagged(old, u) /\ Flagged(new, u)
      BY <2>5, UncoveredFlagged
    <3> QED
      BY <3>1, <2>7, <2>8, <1>1, <1>5, <1>6 DEF Kept
  <2>11. /\ u = Head(queue).url /\ seen' = Known'
         /\ TitlesDiffer(old') /\ Covered(old') = Covered(old)
         /\ Covered(new') \subseteq Covered(new) \cup {u}
    BY <1>1, <1>4, <2>1, <2>6, <2>7
  <2> HIDE DEF item
  <2> QED
    BY <1>1, <2>1, <2>7, <2>9, <2>10, <2>11, HandleItem
<1> QED
  BY <1>7, <1>8

\* What a page showed is not taken down while the crawl is not disturbed.
LEMMA NewItemReadable ==
  ASSUME CrawlInv, Complete, NewItemFails, faults' = faults
  PROVE  FALSE
<1> DEFINE u == Head(queue).url
<1>0. BoardsInv /\ PlaceInv /\ faults \in Nat
  BY CrawlAssumption DEF CrawlInv, PlaceInv
<1>1. at = "items" /\ queue # <<>> /\ Unreadable(u)
  BY DEF NewItemFails
<1>2. u \in Waiting /\ PagesRead /\ board \in 1..NumBoards
  BY <1>0, <1>1, QueueIs DEF Complete, BoardComplete, PlaceInv
<1>3. u \in On(board)
  BY <1>2 DEF PagesRead, PagesRanked
<1>4. u \in Posted
  BY <1>0, <1>2, <1>3, BoardIs
<1> QED
  BY <1>0, <1>1, <1>4 DEF Unreadable

------------------------------------------------------------------------------
(* Pages are read *)

LEMMA LoGrows ==
  ASSUME NEW p \in Nat \ {0}, NEW n \in Nat, p > n
  PROVE  n <= Lo(p)
<1> DEFINE q == p - 1
<1>1. q \in Nat /\ n <= q
  OBVIOUS
<1> HIDE DEF q
<1>2. q <= q * PageLen /\ q * PageLen \in Nat
  BY <1>1, CrawlAssumption
<1> QED
  BY <1>1, <1>2 DEF Lo, q

\* On to the next page nothing more is reached, and past the last one a page is as
\* far down as what was read.
LEMMA NextPageIs ==
  ASSUME CrawlInv, PagesRanked, EndPage, ~stopAfter
  PROVE  /\ Read' = Read /\ Waiting' = {} /\ Waiting = {} /\ QueueOrdered' /\ PagesRanked'
         /\ \A v \in On(board) : Reached(v)' => Reached(v)
<1> USE CrawlAssumption
<1>0. BoardsInv /\ PlaceInv /\ board \in 1..NumBoards /\ page \in Nat \ {0}
  BY DEF CrawlInv, PlaceInv, EndPage
<1>1. /\ at = "items" /\ queue = <<>> /\ UNCHANGED site
      /\ at' = "list" /\ page' = IF page > Cardinality(Url) THEN page ELSE page + 1
      /\ UNCHANGED <<board, pages, queue, stopAfter>>
  BY DEF EndPage
<1>2. /\ UNCHANGED touched
      /\ \A b : On(b)' = On(b)
      /\ \A b, x, y : Above(b, x, y)' <=> Above(b, x, y)
      /\ \A b, x : RankOf(b, x)' = RankOf(b, x)
  BY <1>1, SameSite
<1>3. Read' = Read /\ Waiting' = {} /\ Waiting = {} /\ QueueOrdered'
  BY <1>1 DEF Read, Waiting, QueueOrdered
<1>n. pinned' = pinned
  BY <1>1, SameSite
<1>4. /\ Bound = Lo(page + 1) /\ Bound' = Lo(page') /\ Bound' \in Nat /\ Bound \in Nat
      /\ Bound' <= Bound /\ (page <= Cardinality(Url) => Bound' = Bound)
      /\ (page > Cardinality(Url) => Cardinality(Url) <= Bound')
  <2>1. Cardinality(Url) \in Nat
    BY FS_CardinalityType
  <2>2. Lo(page) \in Nat /\ Lo(page + 1) = Lo(page) + PageLen
    BY <1>0, LoIs
  <2>3. page > Cardinality(Url) => Cardinality(Url) <= Lo(page)
    BY <1>0, <2>1, LoGrows
  <2>4. Bound = Lo(page + 1) /\ Bound' = Lo(page')
    BY <1>1 DEF Bound
  <2> QED
    BY <2>1, <2>2, <2>3, <2>4, <1>1, <1>0
<1>5. \A v \in On(board) : Reached(v)' => Reached(v)
  <2>1. \A v \in On(board) : RankOf(board, v) \in Nat
    BY <1>0, RanksAre
  <2> QED
    BY <2>1, <1>1, <1>2, <1>3, <1>4, <1>n DEF Reached
<1>6. ASSUME NEW u \in Read PROVE RankOf(board, u) < Bound' + Cardinality(touched)
  <2>1. u \in On(board) /\ RankOf(board, u) < Bound + Cardinality(touched)
    BY DEF PagesRanked
  <2>2. RankOf(board, u) \in Nat /\ u \in Url
    BY <2>1, <1>0, RanksAre, BoardIs
  <2>3. Cardinality(touched) \in Nat /\ Cardinality(Url) \in Nat
    <3>1. touched \subseteq Url
      BY <1>0 DEF BoardsInv
    <3> QED
      BY <3>1, FS_Subset, FS_CardinalityType
  <2>4. RankOf(board, u) < Cardinality(Url)
    <3>1. CASE u \in Paged(board)
      BY <3>1, <1>0, RanksAre
    <3>2. CASE u \notin Paged(board)
      <4>1. RankOf(board, u) = 0
        BY <3>2, <2>1, <1>0, RanksAre
      <4>2. Cardinality(Url) # 0
        BY <2>2, FS_EmptySet
      <4> QED
        BY <4>1, <4>2, <2>3
    <3> QED
      BY <3>1, <3>2
  <2> QED
    BY <2>1, <2>2, <2>3, <2>4, <1>4, <1>0
<1>7. PagesRanked'
  BY <1>1, <1>2, <1>3, <1>6 DEF PagesRanked
<1> QED
  BY <1>3, <1>5, <1>7

\* The end of a page whose items are handled.
LEMMA EndPageComplete ==
  ASSUME CrawlInv, DatesInv, Complete, EndPage
  PROVE  Complete'
<1> USE CrawlAssumption
<1>0. BoardsInv /\ PlaceInv /\ board \in 1..NumBoards /\ page \in Nat \ {0}
  BY DEF CrawlInv, PlaceInv, EndPage
<1>1. at = "items" /\ queue = <<>> /\ UNCHANGED <<site, store, old, new>>
  BY DEF EndPage
<1>2. HeldAsStored /\ LeftComplete /\ QueueOrdered /\ PagesRead /\ ReachedComplete /\ WaitingClosed
  BY <1>1 DEF Complete, BoardComplete
<1>3. pinned' = pinned
  BY <1>1 DEF site
<1>4. Known' = Known /\ \A v : Kept(v)' <=> Kept(v)
  BY <1>1, <1>3, SameHeld
<1>5. Waiting = {}
  BY <1>1 DEF Waiting
<1>6. CASE stopAfter
  <2>1. NextBoard /\ seen' = Known
    BY <1>6 DEF EndPage
  <2>2. \A v \in On(board) : Lasting(v) => Kept(v)' \/ Missed(board, v)
    BY <1>2, <1>4, <1>5, <1>6 DEF ReachedComplete, Reached
  <2>3. /\ TitlesDiffer(old') /\ Covered(old') = Covered(old) /\ Covered(new') = Covered(new)
        /\ \A v : Kept(v) => Kept(v)'
    BY <1>1, <1>2, <1>4 DEF HeldAsStored
  <2> QED
    BY <1>1, <1>4, <2>1, <2>2, <2>3, LeaveBoard
<1>7. CASE ~stopAfter
  <2>1. /\ at' = "list" /\ page' = IF page > Cardinality(Url) THEN page ELSE page + 1
        /\ UNCHANGED <<board, seen, pages, queue, stopAfter>>
    BY <1>7 DEF EndPage
  <2>2. /\ UNCHANGED <<lists, pinned, day, today, touched>>
        /\ \A b : On(b)' = On(b)
        /\ \A b, x, y : Before(b, x, y)' <=> Before(b, x, y)
        /\ \A b, x, y : Above(b, x, y)' <=> Above(b, x, y)
        /\ \A b, x : RankOf(b, x)' = RankOf(b, x)
        /\ \A v : Lasting(v)' <=> Lasting(v)
    BY <1>1, SameSite
  <2>3. /\ Read' = Read /\ Waiting' = Waiting /\ QueueOrdered' /\ PagesRanked'
        /\ \A v \in On(board) : Reached(v)' => Reached(v)
    BY <1>2, <1>7, NextPageIs DEF PagesRead
  <2>5. \A v : Missed(board, v)' <=> Missed(board, v)
    BY <2>1, <2>2, <1>4 DEF Missed
  <2>7. StoreClosed'
    BY <1>1, <2>2 DEF Complete, StoreClosed, Stale
  <2>8. HeldAsStored'
    BY <1>1, <1>2, <1>4, <2>1 DEF HeldAsStored
  <2>9. LeftComplete'
    <3>1. \A b, v : Missed(b, v)' <=> Missed(b, v)
      BY <2>2, <1>4 DEF Missed
    <3> QED
      BY <3>1, <1>2, <1>4, <2>1, <2>2 DEF LeftComplete
  <2>11. PagesRead'
    <3>1. /\ \A u \in Covered(new) : BoardOf[u] < board \/ u \in Read
          /\ \A u \in Read : Lasting(u) => Kept(u) \/ u \in Waiting
      BY <1>2 DEF PagesRead
    <3> QED
      BY <3>1, <1>1, <1>4, <1>5, <2>1, <2>2, <2>3 DEF PagesRead
  <2>12. ReachedComplete'
    BY <1>2, <1>4, <2>1, <2>2, <2>3, <2>5 DEF ReachedComplete
  <2>13. WaitingClosed'
    BY <1>5, <2>3 DEF WaitingClosed
  <2> QED
    BY <2>1, <2>3, <2>7, <2>8, <2>9, <2>11, <2>12, <2>13 DEF Complete, BoardComplete
<1> QED
  BY <1>6, <1>7

\* If a board goes on below a page, the page shows a notice not read before.
LEMMA LastOfPage ==
  ASSUME CrawlInv, PagesRanked, Cardinality(touched) < PageLen, at = "list",
         NEW v \in Paged(board), ~(RankOf(board, v) < Lo(page + 1))
  PROVE  \E w \in Paged(board) :
           /\ w \in Shown(board, page) /\ w \notin Read /\ Above(board, w, v)
           /\ RankOf(board, w) = Lo(page + 1) - 1
<1> USE CrawlAssumption
<1>0. BoardsInv /\ board \in 1..NumBoards /\ page \in Nat \ {0}
  BY DEF CrawlInv, PlaceInv
<1>1. Lo(page) \in Nat /\ Lo(page + 1) = Lo(page) + PageLen /\ Lo(page + 1) \in Nat
  BY <1>0, LoIs
<1>2. /\ Paged(board) \subseteq On(board) /\ \A u \in On(board) : RankOf(board, u) \in Nat
      /\ \A x, y \in Paged(board) :
           RankOf(board, x) <= RankOf(board, y) => x = y \/ Above(board, x, y)
  BY <1>0, RanksAre
<1> DEFINE k == Lo(page + 1) - 1
<1>3. /\ k \in Nat /\ k <= RankOf(board, v) /\ k # RankOf(board, v)
      /\ Lo(page) <= k /\ k < Lo(page + 1)
      /\ k = Lo(page) + (PageLen - 1)
  BY <1>1, <1>2
<1>k. k = Lo(page + 1) - 1
  OBVIOUS
<1> HIDE DEF k
<1>4. PICK w \in Paged(board) : RankOf(board, w) = k
  BY <1>0, <1>3, RanksAre
<1>5. w \in Shown(board, page)
  BY <1>0, <1>3, <1>4, ShownIs
<1>6. Above(board, w, v)
  BY <1>2, <1>3, <1>4
<1>7. w \notin Read
  <2>1. Cardinality(touched) \in Nat
    <3>1. touched \subseteq Url
      BY <1>0 DEF BoardsInv
    <3> QED
      BY <3>1, FS_Subset, FS_CardinalityType
  <2>2. ~(k < Lo(page) + Cardinality(touched))
    BY <2>1, <1>1, <1>3
  <2>3. Bound = Lo(page)
    BY DEF Bound
  <2> QED
    BY <2>2, <2>3, <1>4 DEF PagesRanked
<1> QED
  BY <1>4, <1>5, <1>6, <1>7, <1>k

\* In calm times less than a page of notices changes under a crawl.
LEMMA CalmTouches ==
  ASSUME CrawlInv, DatesInv, Calm
  PROVE  Cardinality(touched) < PageLen
<1>1. touched \subseteq Url
  BY DEF CrawlInv, BoardsInv
<1>2. Cardinality(touched) \in Nat
  BY <1>1, FS_Subset, FS_CardinalityType, CrawlAssumption
<1> QED
  BY <1>2, CrawlAssumption DEF DatesInv, Calm

\* Where a page repeats or is empty, all of the board was reached.
LEMMA ListEndIs ==
  ASSUME CrawlInv, PagesRanked, Cardinality(touched) < PageLen, at = "list",
         EndOfList(Listed(board, Shown(board, page)))
  PROVE  \A v \in On(board) : v \in Read \/ Reached(v)
<1> USE CrawlAssumption
<1>0. BoardsInv /\ PlaceInv /\ board \in 1..NumBoards /\ page \in Nat \ {0}
  BY DEF CrawlInv, PlaceInv
<1>1. Bound = Lo(page)
  BY DEF Bound
<1>2. Shown(board, page) \subseteq Read
  <2> DEFINE shown == Shown(board, page)
             r == Listed(board, shown)
  <2>1. shown \in SUBSET On(board) /\ lists[board] \in Seq(Url) /\ IsInjective(lists[board])
    BY <1>0, ShownIs, BoardIs
  <2>2. r = <<>> \/ r \in pages
    BY DEF EndOfList
  <2>s. shown = Shown(board, page)
    OBVIOUS
  <2> HIDE DEF shown
  <2>3. /\ r \in Seq(shown)
        /\ \A u \in shown : \E k \in DOMAIN r : r[k] = u
        /\ \A k, l \in DOMAIN r : k < l => Above(board, r[k], r[l])
    BY <2>1, ListedIs
  <2>4. \A u \in shown : \E k \in DOMAIN r : r[k] = u
    BY <2>3
  <2> HIDE DEF r
  <2>5. CASE r = <<>>
    BY <2>4, <2>5, <2>s
  <2>6. CASE r \in pages
    BY <2>4, <2>6, <2>s DEF Read, ToSet
  <2> QED
    BY <2>2, <2>5, <2>6
<1>3. ASSUME NEW v \in On(board), v \notin Shown(board, page) PROVE Reached(v)
  <2>1. v \in Paged(board)
    BY <1>0, <1>3, ShownIs
  <2>2. RankOf(board, v) < Lo(page + 1)
    BY <2>1, <1>0, <1>2, LastOfPage
  <2>3. RankOf(board, v) < Lo(page)
    <3>1. RankOf(board, v) \in Nat /\ Lo(page) \in Nat
      BY <1>0, <1>3, RanksAre, LoIs
    <3>2. ~(Lo(page) <= RankOf(board, v))
      BY <2>1, <2>2, <1>0, <1>3, ShownIs
    <3> QED
      BY <3>1, <3>2
  <2> QED
    BY <2>3, <1>1 DEF Reached
<1> QED
  BY <1>2, <1>3

\* What a board lists when a page repeats or is empty was read.
LEMMA ListEndsComplete ==
  ASSUME CrawlInv, DatesInv, Complete, Calm, ListEnds
  PROVE  Complete'
<1> USE CrawlAssumption
<1>0. BoardsInv /\ PlaceInv /\ board \in 1..NumBoards /\ page \in Nat \ {0}
  BY DEF CrawlInv, PlaceInv, ListEnds
<1>1. /\ at = "list" /\ NextBoard /\ seen' = Known /\ UNCHANGED <<site, store, old, new>>
      /\ EndOfList(Listed(board, Shown(board, page)))
  BY DEF ListEnds
<1>2. HeldAsStored /\ PagesRead /\ ReachedComplete
  BY <1>1 DEF Complete, BoardComplete
<1>3. pinned' = pinned
  BY <1>1 DEF site
<1>4. Known' = Known /\ \A v : Kept(v)' <=> Kept(v)
  BY <1>1, <1>3, SameHeld
<1>5. Waiting = {} /\ Bound = Lo(page)
  BY <1>1 DEF Waiting, Bound, DatesInv
<1>6. \A v \in On(board) : v \in Read \/ Reached(v)
  BY <1>1, <1>2, CalmTouches, ListEndIs DEF PagesRead
<1>7. \A v \in On(board) : Lasting(v) => Kept(v) \/ Missed(board, v)
  BY <1>2, <1>5, <1>6 DEF PagesRead, ReachedComplete
<1>8. /\ TitlesDiffer(old') /\ Covered(old') = Covered(old) /\ Covered(new') = Covered(new)
      /\ \A v : Kept(v) => Kept(v)'
      /\ \A v \in On(board) : Lasting(v) => Kept(v)' \/ Missed(board, v)
  BY <1>1, <1>2, <1>4, <1>7 DEF HeldAsStored
<1> QED
  BY <1>1, <1>4, <1>8, LeaveBoard

\* The items of some notices of a board, in the order of the board.
ItemsOf(b, urls, f) ==
  /\ f \in Seq(PageItem)
  /\ \A i \in DOMAIN f : f[i].url \in urls /\ (f[i].permanent <=> f[i].url \in pinned)
  /\ \A u \in urls : \E i \in DOMAIN f : f[i].url = u
  /\ \A i, j \in DOMAIN f : i < j => Above(b, f[i].url, f[j].url)

LEMMA ItemsListed ==
  ASSUME BoardsInv, NEW b \in 1..NumBoards, NEW urls \in SUBSET On(b)
  PROVE  ItemsOf(b, urls, Items(Listed(b, urls)))
<1> DEFINE r == Listed(b, urls)
<1>1. lists[b] \in Seq(Url) /\ IsInjective(lists[b]) /\ On(b) \subseteq Url
  BY BoardIs
<1>2. /\ r \in Seq(urls)
      /\ \A u \in urls : \E k \in DOMAIN r : r[k] = u
      /\ \A k, l \in DOMAIN r : k < l => Above(b, r[k], r[l])
  BY <1>1, ListedIs
<1> HIDE DEF r
<1> DEFINE f == Items(r)
<1>3. r \in Seq(Url)
  BY <1>1, <1>2
<1>4. f \in Seq(PageItem)
  BY <1>3, ItemsTyped
<1>5. /\ DOMAIN f = DOMAIN r
      /\ \A i \in DOMAIN r : /\ r[i] \in urls /\ f[i].url = r[i]
                             /\ f[i].permanent <=> r[i] \in pinned
  BY <1>2, ElementsOf DEF Items
<1> HIDE DEF f
<1>6. ItemsOf(b, urls, f)
  BY <1>2, <1>4, <1>5 DEF ItemsOf
<1> QED
  BY <1>6 DEF f, r

LEMMA NoItems == \A b : ItemsOf(b, {}, <<>>)
BY DEF ItemsOf

\* The items of a page: the pinned notices, and then general ones, newest first.
QueueOf(b, urls, q) ==
  /\ \A u : u \in urls <=> \E i \in DOMAIN q : q[i].url = u
  /\ \A i \in DOMAIN q : q[i].permanent <=> q[i].url \in pinned
  /\ \A i, j \in DOMAIN q : i < j /\ ~q[i].permanent =>
       ~q[j].permanent /\ Before(b, q[i].url, q[j].url)

LEMMA QueueOfPage ==
  ASSUME NEW b, NEW P \in SUBSET pinned, NEW H, H \cap pinned = {},
         NEW f, ItemsOf(b, P, f), NEW g, ItemsOf(b, H, g)
  PROVE  QueueOf(b, P \cup H, f \o g)
<1> PICK q : q = f \o g
  OBVIOUS
<1>1. /\ Len(f) \in Nat /\ DOMAIN f = 1 .. Len(f) /\ Len(g) \in Nat /\ DOMAIN g = 1 .. Len(g)
      /\ q \in Seq(PageItem) /\ Len(q) = Len(f) + Len(g) /\ DOMAIN q = 1 .. Len(q)
      /\ \A i \in DOMAIN q : q[i] = IF i <= Len(f) THEN f[i] ELSE g[i - Len(f)]
  <2>1. f \in Seq(PageItem) /\ g \in Seq(PageItem)
    BY DEF ItemsOf
  <2> QED
    BY <2>1
<1>2. /\ \A i \in DOMAIN f : i \in DOMAIN q /\ q[i] = f[i]
      /\ \A i \in DOMAIN g : i + Len(f) \in DOMAIN q /\ q[i + Len(f)] = g[i]
  <2>1. \A i \in DOMAIN f : i \in DOMAIN q /\ i <= Len(f)
    BY <1>1
  <2>2. \A i \in DOMAIN g :
          i + Len(f) \in DOMAIN q /\ ~(i + Len(f) <= Len(f)) /\ (i + Len(f)) - Len(f) = i
    BY <1>1
  <2> QED
    BY <2>1, <2>2, <1>1
<1>3. \A i \in DOMAIN q : \/ i \in DOMAIN f /\ q[i] = f[i] /\ i <= Len(f)
                          \/ i - Len(f) \in DOMAIN g /\ q[i] = g[i - Len(f)] /\ ~(i <= Len(f))
  BY <1>1
<1>4. /\ \A i \in DOMAIN f : f[i].url \in P /\ (f[i].permanent <=> f[i].url \in pinned)
      /\ \A i \in DOMAIN g : g[i].url \in H /\ (g[i].permanent <=> g[i].url \in pinned)
      /\ \A u \in P : \E i \in DOMAIN f : f[i].url = u
      /\ \A u \in H : \E i \in DOMAIN g : g[i].url = u
      /\ \A i, j \in DOMAIN g : i < j => Above(b, g[i].url, g[j].url)
  BY DEF ItemsOf
<1>5. \A x, y \in H : Above(b, x, y) => Before(b, x, y)
  BY DEF Above, Before
<1>6. \A u : u \in P \cup H <=> \E i \in DOMAIN q : q[i].url = u
  <2>1. ASSUME NEW i \in DOMAIN q PROVE q[i].url \in P \cup H
    BY <1>3, <1>4
  <2>2. ASSUME NEW u \in P PROVE \E i \in DOMAIN q : q[i].url = u
    <3>1. PICK i \in DOMAIN f : f[i].url = u
      BY <1>4
    <3> QED
      BY <3>1, <1>2
  <2>3. ASSUME NEW u \in H PROVE \E i \in DOMAIN q : q[i].url = u
    <3>1. PICK i \in DOMAIN g : g[i].url = u
      BY <1>4
    <3> QED
      BY <3>1, <1>2
  <2> QED
    BY <2>1, <2>2, <2>3
<1>7. \A i \in DOMAIN q : q[i].permanent <=> q[i].url \in pinned
  BY <1>3, <1>4
<1>8. ASSUME NEW i \in DOMAIN q, NEW j \in DOMAIN q, i < j, ~q[i].permanent
      PROVE  ~q[j].permanent /\ Before(b, q[i].url, q[j].url)
  <2>1. i - Len(f) \in DOMAIN g /\ q[i] = g[i - Len(f)] /\ ~(i <= Len(f))
    BY <1>8, <1>3, <1>4
  <2>2. ~(j <= Len(f)) /\ i - Len(f) < j - Len(f)
    BY <2>1, <1>8, <1>1
  <2>3. j - Len(f) \in DOMAIN g /\ q[j] = g[j - Len(f)]
    BY <2>2, <1>3
  <2> QED
    BY <2>1, <2>2, <2>3, <1>4, <1>5
<1> QED
  BY <1>6, <1>7, <1>8 DEF QueueOf

\* What a page shows waits to be handled, all of it or, where it ends its board, what is
\* pinned.  From its top to its end there is nothing it does not show that was not
\* reached; below its end only what is below an item of it not read before.
LEMMA PageIs ==
  ASSUME CrawlInv, DatesInv, PagesRanked, Cardinality(touched) < PageLen, ReadPage
  PROVE  LET shown == Shown(board, page)
         IN  /\ shown \subseteq On(board) /\ Read' = Read \cup shown
             /\ Waiting' = (IF stopAfter' THEN shown \cap pinned ELSE shown)
             /\ stopAfter' => \A u \in shown \ pinned : u \in seen /\ ~ShouldRecheck(u, OwnPost(u))
             /\ QueueOrdered' /\ PagesRanked'
             /\ \A v \in On(board) : RankOf(board, v) < Lo(page + 1) => v \in shown \/ Reached(v)
             /\ \A v \in On(board) : Reached(v)' /\ ~(RankOf(board, v) < Lo(page + 1)) =>
                  /\ stopAfter' /\ v \notin pinned
                  /\ \E w \in shown \ (pinned \cup Read) : Before(board, w, v)
<1> USE CrawlAssumption
<1> DEFINE shown == Shown(board, page)
           P == shown \cap pinned
           G == shown \ pinned
           stop == G # {} /\ \A u \in G : u \in seen /\ ~ShouldRecheck(u, OwnPost(u))
           r == Listed(board, shown)
           some == IF stop THEN <<>> ELSE Items(Listed(board, G))
           H == IF stop THEN {} ELSE G
           q == Items(Listed(board, P)) \o some
<1>0. BoardsInv /\ PlaceInv /\ board \in 1..NumBoards /\ page \in Nat \ {0}
  BY DEF CrawlInv, PlaceInv, ReadPage
<1>1. /\ at = "list" /\ at' = "items" /\ pages' = pages \cup {r} /\ stopAfter' = stop
      /\ queue' = q /\ UNCHANGED <<site, store, old, new, board, page, seen>>
  BY DEF ReadPage
<1>2. /\ stop \in BOOLEAN
      /\ stop => G # {} /\ \A u \in G : u \in seen /\ ~ShouldRecheck(u, OwnPost(u))
  OBVIOUS
<1>s. shown = Shown(board, page) /\ P = shown \cap pinned /\ G = shown \ pinned
  OBVIOUS
<1>3. shown \in SUBSET On(board) /\ P \in SUBSET On(board) /\ G \in SUBSET On(board)
  BY <1>0, ShownIs
<1>4. lists[board] \in Seq(Url) /\ IsInjective(lists[board])
  BY <1>0, BoardIs
<1> HIDE DEF shown, P, G, stop
<1>5. /\ r \in Seq(shown)
      /\ \A u \in shown : \E k \in DOMAIN r : r[k] = u
      /\ \A k, l \in DOMAIN r : k < l => Above(board, r[k], r[l])
  BY <1>3, <1>4, ListedIs
<1> DEFINE W == P \cup H
<1>6. /\ \A u : u \in P \cup H <=> \E i \in DOMAIN q : q[i].url = u
      /\ \A i \in DOMAIN q : q[i].permanent <=> q[i].url \in pinned
      /\ \A i, j \in DOMAIN q : i < j /\ ~q[i].permanent =>
           ~q[j].permanent /\ Before(board, q[i].url, q[j].url)
  <2>1. P \in SUBSET pinned /\ H \cap pinned = {}
    BY <1>s
  <2>2. ItemsOf(board, P, Items(Listed(board, P)))
    BY <1>0, <1>3, ItemsListed
  <2>3. ItemsOf(board, H, some)
    <3>1. CASE stop
      BY <3>1, NoItems
    <3>2. CASE ~stop
      <4>1. some = Items(Listed(board, G)) /\ H = G
        BY <3>2
      <4> HIDE DEF some, H
      <4> QED
        BY <4>1, <1>0, <1>3, ItemsListed
    <3> QED
      BY <3>1, <3>2
  <2> DEFINE f == Items(Listed(board, P))
  <2>4. q = f \o some
    OBVIOUS
  <2>f. ItemsOf(board, P, f)
    BY <2>2
  <2> HIDE DEF some, H, q, f
  <2>5. QueueOf(board, P \cup H, f \o some)
    BY <2>1, <2>3, <2>f, QueueOfPage
  <2> QED
    BY <2>4, <2>5 DEF QueueOf
<1> HIDE DEF q, r
<1>7. /\ UNCHANGED <<lists, pinned, day, today, touched>>
      /\ \A b : On(b)' = On(b)
      /\ \A b, x, y : Before(b, x, y)' <=> Before(b, x, y)
      /\ \A b, x, y : Above(b, x, y)' <=> Above(b, x, y)
      /\ \A b, x : RankOf(b, x)' = RankOf(b, x)
  BY <1>1, SameSite
<1>8. Waiting' = W
  <2>1. Waiting' = {q[i].url : i \in DOMAIN q}
    BY <1>1 DEF Waiting
  <2>2. \A u : u \in {q[i].url : i \in DOMAIN q} <=> u \in W
    BY <1>6
  <2> HIDE DEF W
  <2> QED
    BY <2>1, <2>2
<1>9. Read' = Read \cup shown
  <2>1. ToSet(r) = shown
    BY <1>5, ElementsOf DEF ToSet
  <2> QED
    BY <2>1, <1>1 DEF Read
<1>10. /\ Bound = Lo(page) /\ Bound' = Lo(page + 1)
       /\ Lo(page) \in Nat /\ Lo(page + 1) \in Nat
       /\ Cardinality(touched) \in Nat /\ Lo(page) + Cardinality(touched) < Lo(page + 1)
  <2>1. Bound = Lo(page) /\ Bound' = Lo(page + 1)
    BY <1>1 DEF Bound
  <2>2. Lo(page) \in Nat /\ Lo(page + 1) = Lo(page) + PageLen
    BY <1>0, LoIs
  <2>3. Cardinality(touched) \in Nat
    <3>1. touched \subseteq Url
      BY <1>0 DEF BoardsInv
    <3> QED
      BY <3>1, FS_Subset, FS_CardinalityType
  <2> QED
    BY <2>1, <2>2, <2>3
<1>11. \A u \in On(board) : RankOf(board, u) \in Nat
  BY <1>0, RanksAre
<1>12. \A u \in Read \cup shown : u \in On(board) /\ RankOf(board, u) < Lo(page + 1)
  <2>1. \A u \in Read : u \in On(board) /\ RankOf(board, u) < Lo(page + 1)
    BY <1>10, <1>11 DEF PagesRanked
  <2>2. \A u \in shown : u \in On(board) /\ RankOf(board, u) < Lo(page + 1)
    BY <1>0, <1>3, <1>s, ShownIs
  <2> QED
    BY <2>1, <2>2
<1>13. ASSUME NEW v \in On(board), RankOf(board, v) < Lo(page + 1), v \notin shown
       PROVE  Reached(v)
  <2>1. v \in Paged(board)
    BY <1>0, <1>s, <1>13, ShownIs
  <2>2. ~(Lo(page) <= RankOf(board, v))
    BY <2>1, <1>0, <1>s, <1>13, ShownIs
  <2>3. RankOf(board, v) < Lo(page)
    BY <2>2, <1>10, <1>11
  <2> QED
    BY <2>3, <1>10 DEF Reached
<1>14. ASSUME NEW v \in On(board), Reached(v)', ~(RankOf(board, v) < Lo(page + 1)) PROVE stop
  <2> SUFFICES ASSUME ~stop PROVE FALSE
    BY <1>2
  <2>1. PICK h \in Read \cup shown : v = h \/ Above(board, v, h)
    BY <1>1, <1>7, <1>9, <1>10, <1>14 DEF Reached
  <2>2. h \in On(board) /\ RankOf(board, h) < Lo(page + 1)
    BY <1>12
  <2>3. v = h \/ RankOf(board, v) <= RankOf(board, h)
    BY <2>1, <2>2, <1>0, <1>14, RanksAre
  <2> QED
    BY <2>2, <2>3, <1>10, <1>11, <1>14
<1>15. ASSUME stop, NEW v \in On(board), ~(RankOf(board, v) < Lo(page + 1))
       PROVE  v \notin pinned /\ \E w \in shown \ (pinned \cup Read) : Before(board, w, v)
  <2>1. v \in Paged(board)
    <3>1. v \notin Paged(board) => v \in Shown(board, page)
      BY <1>0, <1>15, ShownIs
    <3> QED
      BY <3>1, <1>12, <1>15, <1>s
  <2>2. PICK w \in Paged(board) :
          /\ w \in shown /\ w \notin Read /\ Above(board, w, v)
          /\ RankOf(board, w) = Lo(page + 1) - 1
    BY <2>1, <1>1, <1>15, <1>s, LastOfPage
  <2>3. w \notin pinned
    <3>1. PICK y \in shown : y \notin pinned
      BY <1>2, <1>15, <1>s
    <3>2. y \in Paged(board) /\ y \in On(board) /\ RankOf(board, y) <= RankOf(board, w)
      <4>1. y \in On(board) /\ RankOf(board, y) < Lo(page + 1)
        BY <1>12
      <4>2. y \in Paged(board)
        BY <3>1, <4>1, <1>0, RanksAre
      <4> QED
        BY <4>1, <4>2, <2>2, <1>10, <1>11
    <3>3. y = w \/ Above(board, y, w)
      BY <3>2, <1>0, RanksAre
    <3> QED
      BY <3>1, <3>3 DEF Above
  <2>4. v \notin pinned /\ Before(board, w, v)
    BY <2>2, <2>3 DEF Above, Before
  <2> QED
    BY <2>2, <2>3, <2>4
<1>16. QueueOrdered'
  <2>1. \A i, j \in DOMAIN q : i < j /\ ~q[i].permanent =>
          ~q[j].permanent /\ day[q[j].url] <= day[q[i].url]
    <3>1. \A i \in DOMAIN q : q[i].url \in On(board)
      <4>1. P \cup H \subseteq On(board)
        BY <1>3
      <4> QED
        BY <4>1, <1>6
    <3> QED
      BY <3>1, <1>0, <1>6 DEF DatesInv
  <2> QED
    BY <2>1, <1>1, <1>6, <1>7 DEF QueueOrdered
<1>17. PagesRanked'
  <2>1. \A u \in Read \cup shown : RankOf(board, u) < Lo(page + 1) + Cardinality(touched)
    BY <1>10, <1>11, <1>12
  <2> QED
    BY <2>1, <1>1, <1>7, <1>9, <1>10, <1>12 DEF PagesRanked
<1>18. W = IF stop THEN shown \cap pinned ELSE shown
  BY <1>2, <1>s
<1> HIDE DEF W
<1> QED
  BY <1>1, <1>2, <1>3, <1>8, <1>9, <1>13, <1>14, <1>15, <1>16, <1>17, <1>18, <1>s

\* So a page that was read leaves nothing above its end out.
LEMMA ReadPageComplete ==
  ASSUME CrawlInv, DatesInv, Complete, Calm, ReadPage
  PROVE  Complete'
<1> PICK shown : shown = Shown(board, page)
  OBVIOUS
<1>0. BoardsInv /\ PlaceInv /\ board \in 1..NumBoards /\ page \in Nat \ {0}
  BY DEF CrawlInv, PlaceInv, ReadPage
<1>1. /\ at = "list" /\ at' = "items"
      /\ UNCHANGED <<site, store, old, new, board, page, seen>>
  BY DEF ReadPage
<1>2. HeldAsStored /\ LeftComplete /\ PagesRead /\ ReachedComplete /\ seen = Known
  BY <1>1 DEF Complete, BoardComplete, HeldAsStored
<1>3. /\ shown \subseteq On(board) /\ Read' = Read \cup shown
      /\ Waiting' = (IF stopAfter' THEN shown \cap pinned ELSE shown)
      /\ stopAfter' => \A u \in shown \ pinned : u \in seen
      /\ QueueOrdered' /\ PagesRanked'
      /\ \A v \in On(board) : RankOf(board, v) < Lo(page + 1) => v \in shown \/ Reached(v)
      /\ \A v \in On(board) : Reached(v)' /\ ~(RankOf(board, v) < Lo(page + 1)) =>
           /\ stopAfter' /\ v \notin pinned
           /\ \E w \in shown \ (pinned \cup Read) : Before(board, w, v)
  BY <1>2, CalmTouches, PageIs DEF PagesRead
<1>4. /\ UNCHANGED <<lists, pinned, day, today, touched>>
      /\ \A b : On(b)' = On(b)
      /\ \A b, x, y : Before(b, x, y)' <=> Before(b, x, y)
      /\ \A v : Lasting(v)' <=> Lasting(v)
  BY <1>1, SameSite
<1>5. Known' = Known /\ \A v : Kept(v)' <=> Kept(v)
  BY <1>1, <1>4, SameHeld
<1>6. \A b, v : Missed(b, v)' <=> Missed(b, v)
  BY <1>4, <1>5 DEF Missed
<1>7. Waiting = {}
  BY <1>1 DEF Waiting, DatesInv
<1>8. ASSUME NEW v \in shown PROVE Kept(v) \/ v \in Waiting'
  BY <1>2, <1>3, <1>8 DEF Kept
<1>9. ASSUME NEW v \in On(board), Reached(v)', Lasting(v)
      PROVE  Kept(v) \/ v \in Waiting' \/ Missed(board, v)
  <2>1. CASE v \in shown
    BY <2>1, <1>8
  <2>2. CASE Reached(v)
    BY <2>2, <1>2, <1>7, <1>9 DEF ReachedComplete
  <2>3. CASE ~(RankOf(board, v) < Lo(page + 1))
    <3>1. /\ stopAfter' /\ v \notin pinned
          /\ \E w \in shown \ (pinned \cup Read) : Before(board, w, v)
      BY <2>3, <1>3, <1>9
    <3>2. PICK w \in shown \ (pinned \cup Read) : Before(board, w, v)
      BY <3>1
    <3>3. w \in On(board) /\ w \in Known /\ BoardOf[w] = board
      BY <3>1, <1>0, <1>2, <1>3, BoardIs
    <3>4. w \notin Covered(new)
      BY <3>2, <3>3, <1>0, <1>2 DEF PagesRead, PlaceInv
    <3>5. w \in Covered(store)
      BY <3>3, <3>4, <1>2 DEF Known, HeldAsStored
    <3>6. v \in Covered(store)
      BY <3>1, <3>2, <3>3, <3>5, <1>0, <1>9 DEF Complete, StoreClosed, Lasting
    <3> QED
      BY <3>1, <3>6, <1>2 DEF Kept, Known, HeldAsStored
  <2> QED
    BY <2>1, <2>2, <2>3, <1>3
<1>10. StoreClosed'
  BY <1>1, <1>4 DEF Complete, StoreClosed, Stale
<1>11. HeldAsStored'
  BY <1>1, <1>5, <1>2 DEF HeldAsStored
<1>12. LeftComplete'
  BY <1>1, <1>2, <1>4, <1>5, <1>6 DEF LeftComplete
<1>13. PagesRead'
  <2>1. Waiting' \subseteq Read' /\ \A u \in Covered(new) : BoardOf[u] < board \/ u \in Read'
    BY <1>2, <1>3 DEF PagesRead
  <2>2. \A u \in Read' : Lasting(u) => Kept(u) \/ u \in Waiting'
    BY <1>2, <1>3, <1>7, <1>8 DEF PagesRead
  <2> QED
    BY <2>1, <2>2, <1>1, <1>3, <1>4, <1>5 DEF PagesRead
<1>14. ReachedComplete'
  BY <1>1, <1>4, <1>5, <1>6, <1>9 DEF ReachedComplete
<1>15. ASSUME NEW x \in Waiting', x \notin Known, NEW v \in On(board), Reached(v)', Lasting(v),
              Before(board, x, v)
       PROVE  v \in Waiting' \/ v \in Known
  <2>1. CASE Kept(v) \/ v \in Waiting'
    BY <2>1 DEF Kept
  <2>2. CASE Missed(board, v)
    <3>1. x \in On(board) /\ x \in shown
      BY <1>3
    <3>2. x \notin pinned /\ v \notin pinned
      BY <2>2, <3>1, <1>15 DEF Missed
    <3>3. ~stopAfter'
      BY <3>2, <1>3
    <3>4. RankOf(board, v) < Lo(page + 1)
      BY <3>3, <1>3, <1>15
    <3>5. x \in Paged(board) /\ v \in Paged(board) /\ Above(board, x, v)
      <4>1. x \in Paged(board) /\ v \in Paged(board)
        BY <3>1, <3>2, <1>0, <1>15, RanksAre
      <4> QED
        BY <4>1, <3>2, <1>15 DEF Above, Before
    <3>6. v \in shown
      BY <3>1, <3>4, <3>5, <1>0, ShownIs
    <3> QED
      BY <3>3, <3>6, <1>3
  <2> QED
    BY <2>1, <2>2, <1>9, <1>15
<1>16. WaitingClosed'
  BY <1>1, <1>4, <1>5, <1>15 DEF WaitingClosed
<1> QED
  BY <1>1, <1>3, <1>10, <1>11, <1>12, <1>13, <1>14, <1>16 DEF Complete, BoardComplete

------------------------------------------------------------------------------
(* Crawls begin and are saved *)

LEMMA StartCrawlComplete ==
  ASSUME CrawlInv, DatesInv, Complete, StartCrawl
  PROVE  Complete'
<1> USE CrawlAssumption
<1>0. BoardsInv /\ HeldInv /\ StoreInv
  BY DEF CrawlInv
<1>1. /\ at = "idle" /\ at' = "list" /\ old' = store /\ seen' = Covered(store)
      /\ UNCHANGED <<today, lists, pinned, day, store, new, board, page, pages, queue, stopAfter>>
  BY DEF StartCrawl
<1>2. /\ new = <<>> /\ board = 1 /\ page = 1 /\ pages = {} /\ queue = <<>> /\ ~stopAfter
  BY <1>0, <1>1 DEF HeldInv, DatesInv
<1>3. Covered(new') = {}
  BY <1>1, <1>2, NoPosts
<1>4. Known' = Covered(store)
  BY <1>1, <1>3 DEF Known
<1>5. StoreClosed'
  BY <1>1, SameBoards DEF Complete, StoreClosed, Stale
<1>6. HeldAsStored'
  BY <1>0, <1>1, <1>4 DEF HeldAsStored, StoreInv
<1>7. LeftComplete'
  BY <1>1, <1>2 DEF LeftComplete
<1>8. BoardComplete'
  <2>1. /\ board' = 1 /\ page' = 1 /\ pages' = {} /\ queue' = <<>> /\ ~stopAfter'
        /\ UNCHANGED <<lists, pinned>>
        /\ \A u \in Covered(new') : BoardOf[u] < board'
    BY <1>1, <1>2, <1>3
  <2>2. board' \in 1..NumBoards
    BY <2>1
  <2> QED
    BY <1>0, <1>1, <2>1, <2>2, FreshBoard
<1> QED
  BY <1>1, <1>5, <1>6, <1>7, <1>8 DEF Complete

LEMMA JoinedIs ==
  ASSUME NEW X, NEW r \in Seq(X), NEW s \in Seq(X)
  PROVE  /\ \A i \in DOMAIN (r \o s) :
              \/ i \in DOMAIN r /\ (r \o s)[i] = r[i]
              \/ i - Len(r) \in DOMAIN s /\ (r \o s)[i] = s[i - Len(r)] /\ ~(i \in DOMAIN r)
         /\ \A i \in DOMAIN (r \o s), j \in DOMAIN r : i < j => i \in DOMAIN r
         /\ \A i \in DOMAIN (r \o s) : i \in Nat
OBVIOUS

\* What the crawl held of a board when it left it is in the store.
LEMMA SaveComplete ==
  ASSUME CrawlInv, DatesInv, Complete, Save
  PROVE  /\ Complete'
         /\ \A b \in 1..NumBoards : \A v \in On(b) :
              Lasting(v) => v \in Covered(store') \/ Missed(b, v)
<1> USE CrawlAssumption
<1>0. BoardsInv /\ HeldInv /\ IsPostList(old) /\ IsPostList(new)
  BY DEF CrawlInv, HeldInv
<1>1. /\ at = "save" /\ at' = "idle" /\ store' = Pruned(Merged(old \o new)) /\ UNCHANGED site
  BY DEF Save, Finish
<1>2. board = NumBoards + 1 /\ HeldAsStored /\ LeftComplete
  BY <1>1 DEF DatesInv, Complete
<1> DEFINE posts == old \o new
<1>3. IsPostList(posts) /\ Apart(posts)
  BY <1>0, ApartJoined DEF HeldInv
<1>j. /\ \A i \in DOMAIN posts :
           \/ i \in DOMAIN old /\ posts[i] = old[i]
           \/ i - Len(old) \in DOMAIN new /\ posts[i] = new[i - Len(old)] /\ ~(i \in DOMAIN old)
      /\ \A i \in DOMAIN posts, j \in DOMAIN old : i < j => i \in DOMAIN old
      /\ \A i \in DOMAIN posts : i \in Nat
  BY <1>0, JoinedIs DEF IsPostList
<1>4. \A u : u \in Covered(posts) <=> u \in Known
  <2>1. Covered(posts) = Covered(old) \cup Covered(new)
    <3>1. ToSet(posts) = ToSet(old) \cup ToSet(new)
      <4>1. old \in Seq(Posts) /\ new \in Seq(Posts)
        BY <1>0 DEF IsPostList
      <4>2. /\ \A i \in DOMAIN old : \E k \in DOMAIN posts : posts[k] = old[i]
            /\ \A i \in DOMAIN new : \E k \in DOMAIN posts : posts[k] = new[i]
        <5>1. \A i \in DOMAIN old : i \in DOMAIN posts /\ posts[i] = old[i]
          BY <4>1
        <5>2. \A i \in DOMAIN new : i + Len(old) \in DOMAIN posts /\ posts[i + Len(old)] = new[i]
          BY <4>1
        <5> QED
          BY <5>1, <5>2
      <4> HIDE DEF posts
      <4> QED
        BY <4>2, <1>j DEF ToSet
    <3> HIDE DEF posts
    <3> QED
      BY <3>1 DEF Covered
  <2> QED
    BY <2>1 DEF Known
<1>p. posts = old \o new
  OBVIOUS
<1> HIDE DEF posts
<1>5. Dated(posts, day)
  BY <1>j DEF DatesInv, Dated
<1>6. LaterPlain(posts)
  <2> SUFFICES ASSUME NEW i \in DOMAIN posts, NEW j \in DOMAIN posts, i < j,
                      posts[i].title = posts[j].title
               PROVE  posts[j].meta = {}
    BY DEF LaterPlain
  <2>1. CASE j \in DOMAIN old
    <3>1. i \in DOMAIN old /\ posts[i] = old[i] /\ posts[j] = old[j] /\ i # j
      BY <2>1, <1>0, <1>j DEF IsPostList
    <3> QED
      BY <3>1, <2>1, <1>2 DEF HeldAsStored, TitlesDiffer
  <2>2. CASE j \notin DOMAIN old
    BY <2>2, <1>j DEF DatesInv, Plain
  <2> QED
    BY <2>1, <2>2
<1>7. \A v : Flagged(old, v) /\ Flagged(new, v) => Flagged(posts, v)
  BY <1>j DEF Flagged
<1>8. /\ Covered(store') \subseteq Covered(posts)
      /\ \A v \in Covered(posts) :
           Lasting(v) /\ (v \in pinned => Flagged(posts, v)) => v \in Covered(store')
  BY <1>1, <1>3, <1>5, <1>6, <1>p, SavedKeeps
<1>9. ASSUME NEW b \in 1..NumBoards, NEW v \in On(b), Lasting(v)
      PROVE  v \in Covered(store') \/ Missed(b, v)
  <2>1. b < board
    BY <1>2
  <2>2. CASE Kept(v)
    BY <2>2, <1>4, <1>7, <1>8, <1>9 DEF Kept
  <2> QED
    BY <2>1, <2>2, <1>2, <1>9 DEF LeftComplete
<1>10. StoreClosed'
  <2> SUFFICES ASSUME NEW b \in 1..NumBoards, NEW u \in On(b), NEW v \in On(b),
                      Before(b, u, v), u \in Covered(store'), ~Stale(day[v])
               PROVE  v \in Covered(store')
    <3>1. /\ UNCHANGED <<lists, pinned, day, today, touched>>
          /\ \A b : On(b)' = On(b)
          /\ \A b, x, y : Before(b, x, y)' <=> Before(b, x, y)
      BY <1>1, SameSite
    <3> QED
      BY <3>1 DEF StoreClosed, Stale
  <2>1. ~Missed(b, v)
    BY <1>4, <1>8 DEF Missed
  <2> QED
    BY <2>1, <1>9 DEF Lasting
<1>11. Complete'
  BY <1>1, <1>10 DEF Complete
<1> QED
  BY <1>9, <1>11

LEMMA CompleteInitially == Init => CompleteInv
<1> SUFFICES ASSUME Init PROVE Complete
  BY DEF CompleteInv
<1>1. store = <<>> /\ at = "idle"
  BY DEF Init, Idle
<1>2. StoreClosed
  BY <1>1, NoPosts DEF StoreClosed
<1> QED
  BY <1>1, <1>2 DEF Complete

LEMMA CompleteStep == CrawlInv /\ DatesInv /\ CompleteInv /\ [Next]_vars => CompleteInv'
<1> SUFFICES ASSUME CrawlInv, DatesInv, CompleteInv, [Next]_vars, Steady' PROVE Complete'
  BY DEF CompleteInv
<1>1. Complete /\ Calm /\ faults' = faults /\ shifts' = shifts
  BY SteadyBefore DEF CompleteInv, Steady
<1>2. faults' # faults + 1
  BY <1>1, CrawlAssumption DEF CrawlInv, PlaceInv
<1>3. CASE UNCHANGED vars
  <2>1. UNCHANGED <<lists, pinned, day, store, crawl, touched, today>>
    BY <1>3 DEF vars, site
  <2>2. Cardinality(touched) \in Nat /\ today \in Nat
    <3>1. touched \subseteq Url /\ today \in Nat
      BY DEF CrawlInv, BoardsInv
    <3> QED
      BY <3>1, FS_Subset, FS_CardinalityType, CrawlAssumption
  <2> QED
    BY <1>1, <2>1, <2>2, QuietKeeps
<1>4. CASE Boards
  BY <1>1, <1>4, BoardsComplete
<1>5. CASE ListFails \/ Abandon
  BY <1>2, <1>5 DEF ListFails, Abandon
<1>6. CASE NewItemFails
  BY <1>1, <1>6, NewItemReadable
<1>7. CASE Crawler
  BY <1>1, <1>5, <1>6, <1>7, StartCrawlComplete, ListEndsComplete, ReadPageComplete,
     EndPageComplete, KnownItemComplete, NewItemComplete, SaveComplete DEF Crawler
<1> QED
  BY <1>3, <1>4, <1>7 DEF Next

\* What a finished crawl lacks came while it ran.
LEMMA SavedIsComplete ==
  ASSUME CrawlInv, DatesInv, CompleteInv, Save, Undisturbed, Calm,
         NEW u \in Posted \ touched, u \in pinned \/ ~Stale(day[u])
  PROVE  u \in Covered(store')
<1>1. Complete
  BY DEF CompleteInv, Steady
<1>2. PICK b \in 1..NumBoards : u \in On(b)
  BY DEF Posted, On
<1>3. Lasting(u)
  BY DEF Lasting
<1>4. ~Missed(b, u)
  BY DEF Missed
<1> QED
  BY <1>1, <1>2, <1>3, <1>4, SaveComplete

LEMMA CompleteHolds == Spec => [](CrawlInv /\ DatesInv /\ CompleteInv)
<1>1. Init => CrawlInv /\ DatesInv /\ CompleteInv
  BY CrawlInitially, DatesInitially, CompleteInitially
<1>2. CrawlInv /\ DatesInv /\ CompleteInv /\ [Next]_vars => (CrawlInv /\ DatesInv /\ CompleteInv)'
  BY CrawlStep, DatesStep, CompleteStep
<1> QED
  BY <1>1, <1>2, PTL DEF Spec

\* In calm times and unless crawls are disturbed, a crawl that saves leaves no
\* notice out that is pinned or recent and did not change under it: stopping
\* early at known pages and at stale notices loses nothing, and merging keeps
\* the address of every such notice (board_crawler.py:508-630, main.py:143-157).
THEOREM CrawlLosesNothing == Spec => CrawlIsComplete
<1>1. ASSUME CrawlInv, DatesInv, CompleteInv, [Next]_vars
      PROVE  [Save /\ Undisturbed /\ Calm =>
                \A u \in Posted \ touched :
                  u \in pinned \/ ~Stale(day[u]) => u \in Covered(store')]_vars
  BY <1>1, SavedIsComplete
<1> QED
  BY <1>1, CompleteHolds, PTL DEF Spec, CrawlIsComplete

------------------------------------------------------------------------------
(***************************************************************************)
(* Edits.  The posts a crawl loaded that were never merged are read again  *)
(* when their turn comes.  While less than a page of notices changes under *)
(* a crawl and it is not disturbed, every recheckable notice of the boards *)
(* it has left is as its author last wrote it, and on its board so is all  *)
(* it has reached, or it waits in the queue.                               *)
(***************************************************************************)
Gentle == Undisturbed /\ Cardinality(touched) < PageLen

\* What the crawl loaded of v is as its page shows it.
Current(v) == \A i \in DOMAIN old : old[i].url = v => old[i].version = version[v]

\* What this crawl has to bring up to date.
Wanted(v) == Recheckable(v) /\ Reread(v)

Handled(v) == Wanted(v) => Current(v) \/ v \in Waiting

NewCurrent ==
  \A i \in DOMAIN new : new[i].url \in touched \/ new[i].version = version[new[i].url]

LeftCurrent ==
  \A b \in 1..NumBoards : b < board => \A v \in On(b) : Wanted(v) => Current(v)

HeldCurrent ==
  /\ since <= today
  /\ NewCurrent /\ LeftCurrent
  /\ \A v \in done : Wanted(v) => Current(v)

BoardReread ==
  /\ seen = Known /\ QueueOrdered /\ Waiting \subseteq Read
  /\ \A u \in done : BoardOf[u] < board \/ u \in Read
  /\ PagesRanked
  /\ \A u \in Read : Handled(u)
  /\ \A v \in On(board) : Reached(v) => Handled(v)

Updating == HeldCurrent /\ (at \in {"list", "items"} => BoardReread)

EditsInv ==
  /\ at = "idle" => done = {}
  /\ Gentle /\ at # "idle" => Updating

(* Lists of posts *)

SourcesOf(post) == {m.url : m \in post.meta}

LEMMA MergedFromIs ==
  ASSUME NEW posts
  PROVE  \A u : u \in MergedFrom(posts) <=> \E i \in DOMAIN posts : u \in SourcesOf(posts[i])
BY DEF MergedFrom, SourcesOf, ToSet

LEMMA SyncedPosts ==
  ASSUME NEW posts, IsPostList(posts), NEW item \in PageItem
  PROVE  LET r == Synced(posts, item)
         IN  /\ DOMAIN r = DOMAIN posts
             /\ \A i \in DOMAIN posts :
                  /\ r[i].url = posts[i].url /\ r[i].version = posts[i].version
                  /\ r[i].day = posts[i].day /\ SourcesOf(r[i]) = SourcesOf(posts[i])
                  /\ posts[i].meta = {} /\ posts[i].url = item.url =>
                       r[i].permanent = item.permanent
<1> DEFINE Sync(m) == IF m.url = item.url THEN [m EXCEPT !.permanent = item.permanent] ELSE m
           D == DOMAIN posts
           r == Synced(posts, item)
<1>1. \A i \in D : posts[i] \in Posts
  BY ElementsOf DEF IsPostList
<1>2. \A m \in Sources : Sync(m).url = m.url
  BY DEF Sources
<1>3. r = [i \in D |->
            IF posts[i].meta = {} /\ posts[i].url = item.url
            THEN [posts[i] EXCEPT !.permanent = item.permanent]
            ELSE [posts[i] EXCEPT !.meta = {Sync(m) : m \in posts[i].meta}]]
  BY DEF Synced
<1> HIDE DEF Sync, r
<1>4. ASSUME NEW i \in D
      PROVE  /\ r[i].url = posts[i].url /\ r[i].version = posts[i].version
             /\ r[i].day = posts[i].day /\ SourcesOf(r[i]) = SourcesOf(posts[i])
             /\ posts[i].meta = {} /\ posts[i].url = item.url =>
                  r[i].permanent = item.permanent
  <2> DEFINE p == posts[i]
             synced == {Sync(m) : m \in p.meta}
  <2>1. p \in Posts /\ p.meta \in SUBSET Sources
    BY <1>1 DEF Posts
  <2>2. {m.url : m \in synced} = {m.url : m \in p.meta}
    BY <2>1, <1>2
  <2>3. r[i] = IF p.meta = {} /\ p.url = item.url
               THEN [p EXCEPT !.permanent = item.permanent]
               ELSE [p EXCEPT !.meta = synced]
    BY <1>3
  <2>p. p = posts[i]
    OBVIOUS
  <2> HIDE DEF p, synced
  <2>4. CASE p.meta = {} /\ p.url = item.url
    <3>1. r[i] = [p EXCEPT !.permanent = item.permanent]
      BY <2>3, <2>4
    <3>2. /\ r[i].url = p.url /\ r[i].version = p.version /\ r[i].day = p.day
          /\ r[i].meta = p.meta /\ r[i].permanent = item.permanent
      BY <3>1, <2>1 DEF Posts
    <3> QED
      BY <3>2, <2>p DEF SourcesOf
  <2>5. CASE ~(p.meta = {} /\ p.url = item.url)
    <3>1. r[i] = [p EXCEPT !.meta = synced]
      BY <2>3, <2>5
    <3>2. /\ r[i].url = p.url /\ r[i].version = p.version /\ r[i].day = p.day
          /\ r[i].meta = synced
      BY <3>1, <2>1 DEF Posts
    <3> QED
      BY <3>2, <2>2, <2>5, <2>p DEF SourcesOf
  <2> QED
    BY <2>4, <2>5
<1>5. DOMAIN r = D
  BY <1>3
<1> QED
  BY <1>4, <1>5 DEF r

LEMMA UpdatedPosts ==
  ASSUME NEW posts, IsPostList(posts), NEW u
  PROVE  LET r == Updated(posts, u)
         IN  /\ DOMAIN r = DOMAIN posts
             /\ \A i \in DOMAIN posts :
                  /\ r[i].url = posts[i].url /\ SourcesOf(r[i]) = SourcesOf(posts[i])
                  /\ r[i].version = IF posts[i].meta = {} /\ posts[i].url = u
                                    THEN version[u] ELSE posts[i].version
<1> DEFINE D == DOMAIN posts
           r == Updated(posts, u)
<1>1. \A i \in D : posts[i] \in Posts
  BY ElementsOf DEF IsPostList
<1>2. r = [i \in D |->
            IF posts[i].meta = {} /\ posts[i].url = u
            THEN [posts[i] EXCEPT !.title = title[u], !.version = version[u], !.day = day[u]]
            ELSE posts[i]]
  BY DEF Updated
<1> HIDE DEF r
<1>3. ASSUME NEW i \in D
      PROVE  /\ r[i].url = posts[i].url /\ SourcesOf(r[i]) = SourcesOf(posts[i])
             /\ r[i].version = IF posts[i].meta = {} /\ posts[i].url = u
                               THEN version[u] ELSE posts[i].version
  <2> DEFINE p == posts[i]
  <2>1. p \in Posts
    BY <1>1
  <2>2. r[i] = IF p.meta = {} /\ p.url = u
               THEN [p EXCEPT !.title = title[u], !.version = version[u], !.day = day[u]]
               ELSE p
    BY <1>2
  <2>p. p = posts[i]
    OBVIOUS
  <2> HIDE DEF p
  <2>3. CASE p.meta = {} /\ p.url = u
    <3>1. r[i] = [p EXCEPT !.title = title[u], !.version = version[u], !.day = day[u]]
      BY <2>2, <2>3
    <3>2. r[i].url = p.url /\ r[i].meta = p.meta /\ r[i].version = version[u]
      BY <3>1, <2>1 DEF Posts
    <3> QED
      BY <3>2, <2>3, <2>p DEF SourcesOf
  <2>4. CASE ~(p.meta = {} /\ p.url = u)
    BY <2>2, <2>4, <2>p
  <2> QED
    BY <2>3, <2>4
<1>4. DOMAIN r = D
  BY <1>2
<1> QED
  BY <1>3, <1>4 DEF r

LEMMA AbsorbedVersion ==
  ASSUME NEW post \in Posts, NEW dups
  PROVE  Absorbed(post, dups).url = post.url /\ Absorbed(post, dups).version = post.version
<1> DEFINE sources == IF post.meta = {} THEN {Entry(post)} ELSE post.meta
           added == {Entry(dup) : dup \in {dup \in dups : \A m \in sources : m.url # dup.url}}
           perm == post.permanent \/ \E dup \in dups : dup.permanent
           all == sources \cup added
           r == [post EXCEPT !.meta = all, !.permanent = perm]
<1>1. Absorbed(post, dups) = IF dups = {} THEN post ELSE r
  BY DEF Absorbed
<1>2. r.url = post.url /\ r.version = post.version
  <2> HIDE DEF perm, all
  <2> QED
    BY DEF Posts
<1> HIDE DEF r
<1> QED
  BY <1>1, <1>2

\* Merging and pruning change no post's version.
LEMMA SavedVersions ==
  ASSUME NEW posts, IsPostList(posts), Apart(posts)
  PROVE  LET r == Pruned(Merged(posts))
         IN  \A k \in DOMAIN r : \E i \in DOMAIN posts :
               r[k].url = posts[i].url /\ r[k].version = posts[i].version
<1> DEFINE m == MergedByUrl(posts)
           t == MergedByTitle(m)
           r == Pruned(t)
<1>1. IsPostList(m) /\ Apart(m)
  BY MergedByUrlIs
<1>2. \A k \in DOMAIN m : \E i \in DOMAIN posts : m[k] = posts[i]
  BY KeptByUrl
<1> HIDE DEF m
<1>3. IsPostList(t)
  BY <1>1, MergedByTitleIs
<1>4. \A k \in DOMAIN t : \E i \in DOMAIN m : t[k].url = m[i].url /\ t[k].version = m[i].version
  <2> DEFINE D == DOMAIN m
             Same(i) == {j \in D : m[j].title = m[i].title}
             Dups(i) == {m[j] : j \in Same(i) \ {i}}
             all == [i \in D |-> Absorbed(m[i], Dups(i))]
             places == {i \in D : \A j \in Same(i) : i <= j}
  <2>1. m \in Seq(Posts) /\ DOMAIN m = 1 .. Len(m) /\ Len(m) \in Nat /\ \A i \in D : m[i] \in Posts
    BY <1>1, ElementsOf DEF IsPostList
  <2>2. t = Picked(all, places)
    BY DEF MergedByTitle
  <2>3. \A i \in D : all[i].url = m[i].url /\ all[i].version = m[i].version
    <3> SUFFICES ASSUME NEW i \in D PROVE all[i].url = m[i].url /\ all[i].version = m[i].version
      OBVIOUS
    <3>1. all[i] = Absorbed(m[i], Dups(i)) /\ m[i] \in Posts
      BY <2>1
    <3> HIDE DEF all, Dups
    <3> QED
      BY <3>1, AbsorbedVersion
  <2>4. DOMAIN all = D /\ places \in SUBSET D
    OBVIOUS
  <2> DEFINE X == {all[i] : i \in D}
  <2>5. all \in [1 .. Len(m) -> X]
    BY <2>1
  <2> HIDE DEF all, places, t, X
  <2>s. all \in Seq(X)
    BY <2>1, <2>5
  <2>6. \E place \in [DOMAIN t -> places] : \A k \in DOMAIN t : t[k] = all[place[k]]
    <3>1. places \in SUBSET (DOMAIN all)
      BY <2>4
    <3> QED
      BY <2>2, <2>s, <3>1, PickedIs
  <2> QED
    BY <2>3, <2>4, <2>6
<1> HIDE DEF t
<1>5. \A k \in DOMAIN r : \E i \in DOMAIN t : r[k] = t[i]
  <2> DEFINE places == {i \in DOMAIN t : ~Prunable(t[i])}
  <2>1. r = Picked(t, places) /\ places \in SUBSET (DOMAIN t) /\ t \in Seq(Posts)
    BY <1>3 DEF Pruned, IsPostList
  <2> HIDE DEF places, r
  <2>2. \E place \in [DOMAIN r -> places] : \A k \in DOMAIN r : r[k] = t[place[k]]
    BY <2>1, PickedIs
  <2> QED
    BY <2>1, <2>2
<1> HIDE DEF r
<1>6. ASSUME NEW k \in DOMAIN r
      PROVE  \E i \in DOMAIN posts : r[k].url = posts[i].url /\ r[k].version = posts[i].version
  <2>1. PICK l \in DOMAIN t : r[k] = t[l]
    BY <1>5
  <2>2. PICK j \in DOMAIN m : t[l].url = m[j].url /\ t[l].version = m[j].version
    BY <1>4
  <2>3. PICK i \in DOMAIN posts : m[j] = posts[i]
    BY <1>2
  <2> QED
    BY <2>1, <2>2, <2>3
<1> QED
  BY <1>6 DEF Merged, m, t, r

\* A known notice is a source of a merged post, or a post of its own.
LEMMA KnownIs ==
  ASSUME CrawlInv, DatesInv, NEW u \in Known
  PROVE  /\ u \in MergedFrom(old) \/ OwnPost(u) # {}
         /\ \A post \in OwnPost(u) : post.day = day[u]
<1>1. ASSUME u \in Covered(old) PROVE u \in MergedFrom(old) \/ OwnPost(u) # {}
  <2>1. PICK i \in DOMAIN old : u \in UrlsOf(old[i])
    BY <1>1, CoveredIs
  <2>2. DatedPost(old[i], day)
    BY DEF DatesInv, Dated
  <2>3. u \in SourcesOf(old[i]) \/ (u = old[i].url /\ old[i].meta = {})
    BY <2>1, <2>2 DEF UrlsOf, SourcesOf, DatedPost
  <2>4. CASE u \in SourcesOf(old[i])
    BY <2>4, MergedFromIs
  <2>5. CASE u = old[i].url /\ old[i].meta = {}
    BY <2>5 DEF OwnPost, ToSet
  <2> QED
    BY <2>3, <2>4, <2>5
<1>2. ASSUME u \in Covered(new) PROVE OwnPost(u) # {}
  <2>1. PICK i \in DOMAIN new : u \in UrlsOf(new[i])
    BY <1>2, CoveredIs
  <2>2. new[i].meta = {}
    BY DEF DatesInv, Plain
  <2>3. u = new[i].url
    BY <2>1, <2>2 DEF UrlsOf
  <2> QED
    BY <2>2, <2>3 DEF OwnPost, ToSet
<1>3. ASSUME NEW post \in OwnPost(u) PROVE post.day = day[u]
  <2>1. post \in ToSet(old) \cup ToSet(new) /\ post.url = u
    BY <1>3 DEF OwnPost
  <2>2. DatedPost(post, day)
    BY <2>1 DEF ToSet, DatesInv, Dated
  <2> QED
    BY <2>1, <2>2 DEF DatedPost
<1> QED
  BY <1>1, <1>2, <1>3 DEF Known

\* What is wanted and not read again was read by this crawl.
LEMMA NotDue ==
  ASSUME CrawlInv, DatesInv, HeldCurrent, NEW v \in Known, v \notin pinned, Wanted(v),
         ~ShouldRecheck(v, OwnPost(v))
  PROVE  Current(v)
<1>1. v \notin MergedFrom(old) /\ day[v] + RecheckDays >= today
  BY DEF Wanted, Reread, Recheckable
<1>2. PICK post \in OwnPost(v) : post.day = day[v]
  BY <1>1, KnownIs
<1>3. day[v] \in Nat /\ today \in Nat /\ since \in Nat
  <2>1. v \in Url
    BY KnownUrls DEF CrawlInv
  <2>2. day \in [Url -> 0..MaxDay] /\ today \in 1..MaxDay /\ since \in 0..MaxDay
    BY DEF CrawlInv, BoardsInv, PlaceInv
  <2> QED
    BY <2>1, <2>2, CrawlAssumption
<1>4. post.day + RecheckDays >= since
  BY <1>1, <1>2, <1>3, CrawlAssumption DEF HeldCurrent
<1>5. v \in done
  BY <1>4 DEF ShouldRecheck
<1> QED
  BY <1>5 DEF HeldCurrent

(* The boards change *)

\* What is wanted of the boards after a change was wanted before it.
LEMMA UpdatingStays ==
  ASSUME CrawlInv, Updating, UNCHANGED <<crawl, pinned>>, today' \in Nat, today <= today',
         touched \subseteq touched', touched' \subseteq Url,
         \A v \in Url : v \notin touched' => version'[v] = version[v],
         \A c \in 1..NumBoards :
           /\ On(c) \subseteq On(c)' /\ On(c)' \subseteq On(c) \cup touched'
           /\ \A x, y : Above(c, x, y) => Above(c, x, y)'
           /\ \A x, y \in On(c) : Above(c, x, y)' => Above(c, x, y)
           /\ \A v \in On(c) :
                /\ day'[v] = day[v]
                /\ RankOf(c, v) <= RankOf(c, v)' /\ RankOf(c, v)' \in Nat
                /\ RankOf(c, v)' + Cardinality(touched) <= RankOf(c, v) + Cardinality(touched')
  PROVE  Updating'
<1> USE CrawlAssumption
<1>0. BoardsInv /\ HeldInv /\ PlaceInv
  BY DEF CrawlInv
<1>1. UNCHANGED <<at, old, new, since, done, seen, board, page, pages, queue, stopAfter>>
  BY DEF crawl
<1>2. ASSUME NEW c \in 1..NumBoards, NEW v \in On(c)
      PROVE  v \in Url /\ v \in Posted /\ BoardOf[v] = c /\ day[v] \in Nat
  <2>1. v \in Url /\ v \in Posted /\ BoardOf[v] = c
    BY <1>0, <1>2, BoardIs
  <2>2. day \in [Url -> 0..MaxDay]
    BY <1>0 DEF BoardsInv
  <2> QED
    BY <2>1, <2>2
<1>3. ASSUME NEW v, Recheckable(v)'
      PROVE  \E c \in 1..NumBoards : v \in On(c) /\ v \in On(c)' /\ v \notin touched'
  <2>1. v \in Posted' /\ v \notin touched'
    BY <1>3 DEF Recheckable
  <2>2. PICK c \in 1..NumBoards : v \in On(c)'
    BY <2>1 DEF Posted, On
  <2> QED
    BY <2>1, <2>2
<1>4. ASSUME NEW c \in 1..NumBoards, NEW v \in On(c), Recheckable(v)' PROVE Recheckable(v)
  <2>1. v \in Posted \ touched
    BY <1>2, <1>4 DEF Recheckable
  <2>2. ASSUME v \notin pinned PROVE day[v] + RecheckDays >= today /\ ~Stale(day[v])
    <3>1. day'[v] + RecheckDays >= today' /\ ~(day'[v] + RecentDays <= today')
      BY <1>4, <2>2 DEF Recheckable, Stale
    <3>2. day'[v] = day[v] /\ day[v] \in Nat /\ today \in Nat
      BY <1>0, <1>2 DEF BoardsInv
    <3>3. day[v] + RecheckDays >= today /\ ~(day[v] + RecentDays <= today)
      BY <3>1, <3>2
    <3> QED
      BY <3>3 DEF Stale
  <2> QED
    BY <2>1, <2>2 DEF Recheckable
<1>5. ASSUME NEW v, Wanted(v)'
      PROVE  /\ Wanted(v) /\ v \in Url /\ v \notin touched'
             /\ \E c \in 1..NumBoards : v \in On(c)
  <2>1. PICK c \in 1..NumBoards : v \in On(c) /\ v \in On(c)' /\ v \notin touched'
    BY <1>3, <1>5 DEF Wanted
  <2>2. Recheckable(v) /\ v \in Url /\ BoardOf[v] = c
    BY <2>1, <1>2, <1>4, <1>5 DEF Wanted
  <2>3. MergedFrom(old)' = MergedFrom(old)
    BY <1>1 DEF MergedFrom
  <2>4. \A m \in MergedFrom(old) : m # v /\ (m \in pinned \/ ~Above(c, m, v)')
    <3>1. \A m \in MergedFrom(old) : m # v /\ (m \in pinned \/ ~Above(BoardOf[v], m, v)')
      BY <2>3, <1>5 DEF Wanted, Reread
    <3> QED
      BY <3>1, <2>2
  <2>5. Reread(v)
    BY <2>2, <2>4 DEF Reread
  <2> QED
    BY <2>1, <2>2, <2>5 DEF Wanted
<1>6. ASSUME NEW v \in Url, v \notin touched', Current(v) PROVE Current(v)'
  BY <1>1, <1>6 DEF Current
<1>7. Waiting' = Waiting /\ Read' = Read /\ Bound' = Bound /\ Bound \in Nat
  BY <1>0, <1>1, LoIs DEF Waiting, Read, Bound, PlaceInv
<1>8. \A v : Handled(v) => Handled(v)'
  BY <1>5, <1>6, <1>7 DEF Handled
<1>9. since' <= today'
  <2>1. since \in Nat /\ today \in Nat /\ since <= today
    BY <1>0 DEF Updating, HeldCurrent, PlaceInv, BoardsInv
  <2> QED
    BY <2>1, <1>1
<1>10. NewCurrent'
  <2> SUFFICES ASSUME NEW i \in DOMAIN new
               PROVE  new[i].url \in touched' \/ new[i].version = version'[new[i].url]
    BY <1>1 DEF NewCurrent
  <2>1. new[i].url \in Url
    <3>1. new[i] \in Posts
      BY <1>0, ElementsOf DEF HeldInv, IsPostList
    <3> QED
      BY <3>1 DEF Posts
  <2>2. new[i].url \in touched \/ new[i].version = version[new[i].url]
    BY DEF Updating, HeldCurrent, NewCurrent
  <2> QED
    BY <2>1, <2>2
<1>11. LeftCurrent'
  <2> SUFFICES ASSUME NEW b \in 1..NumBoards, b < board, NEW v \in On(b)', Wanted(v)'
               PROVE  Current(v)'
    BY <1>1 DEF LeftCurrent
  <2>1. v \in On(b)
    BY <1>5
  <2> QED
    BY <2>1, <1>5, <1>6 DEF Updating, HeldCurrent, LeftCurrent
<1>12. \A v \in done' : Wanted(v)' => Current(v)'
  BY <1>1, <1>5, <1>6 DEF Updating, HeldCurrent
<1>13. ASSUME at \in {"list", "items"} PROVE BoardReread'
  <2>0. BoardReread /\ board \in 1..NumBoards
    BY <1>0, <1>13 DEF Updating, PlaceInv
  <2>1. Waiting \subseteq Read /\ Read \subseteq On(board)
    BY <2>0 DEF BoardReread, PagesRanked
  <2>2. seen' = Known'
    BY <2>0, <1>1 DEF BoardReread, Known
  <2>3. QueueOrdered'
    <3>1. \A i \in DOMAIN queue : day'[queue[i].url] = day[queue[i].url]
      BY <2>0, <2>1 DEF Waiting
    <3> QED
      BY <3>1, <2>0, <1>1 DEF BoardReread, QueueOrdered
  <2>4. \A u \in done' : BoardOf[u] < board' \/ u \in Read'
    BY <2>0, <1>1, <1>7 DEF BoardReread
  <2>5. PagesRanked'
    <3> SUFFICES ASSUME NEW u \in Read
                 PROVE  u \in On(board)' /\ RankOf(board, u)' < Bound + Cardinality(touched')
      BY <1>1, <1>7 DEF PagesRanked
    <3>1. u \in On(board) /\ RankOf(board, u) < Bound + Cardinality(touched)
      BY <2>0 DEF BoardReread, PagesRanked
    <3>2. /\ RankOf(board, u)' + Cardinality(touched) <= RankOf(board, u) + Cardinality(touched')
          /\ RankOf(board, u)' \in Nat /\ u \in On(board)'
      BY <3>1, <2>0, <1>1
    <3>3. RankOf(board, u) \in Nat
      BY <3>1, <2>0, <1>0, RanksAre
    <3>4. Cardinality(touched) \in Nat /\ Cardinality(touched') \in Nat
      BY FS_Subset, FS_CardinalityType
    <3> QED
      BY <3>1, <3>2, <3>3, <3>4, <1>7
  <2>6. \A u \in Read' : Handled(u)'
    BY <2>0, <1>7, <1>8 DEF BoardReread
  <2>7. ASSUME NEW v \in On(board)', Reached(v)' PROVE Handled(v)'
    <3>1. CASE v \in On(board)
      <4>1. CASE stopAfter
        BY <4>1, <3>1, <2>0, <1>8 DEF BoardReread, Reached
      <4>2. CASE RankOf(board, v)' < Bound
        <5>1. RankOf(board, v) < Bound
          <6>1. RankOf(board, v) <= RankOf(board, v)' /\ RankOf(board, v)' \in Nat
            BY <3>1, <2>0, <1>1
          <6>2. RankOf(board, v) \in Nat
            BY <3>1, <2>0, <1>0, RanksAre
          <6> QED
            BY <6>1, <6>2, <4>2, <1>7
        <5> QED
          BY <5>1, <3>1, <2>0, <1>8 DEF BoardReread, Reached
      <4>3. CASE \E h \in Read \ pinned : v = h \/ Above(board, v, h)'
        <5>1. \E h \in Read \ pinned : v = h \/ Above(board, v, h)
          BY <4>3, <3>1, <2>0, <2>1, <1>1
        <5> QED
          BY <5>1, <3>1, <2>0, <1>8 DEF BoardReread, Reached
      <4> QED
        BY <4>1, <4>2, <4>3, <2>7, <1>1, <1>7 DEF Reached
    <3>2. CASE v \notin On(board)
      <4>1. v \in touched'
        BY <3>2, <2>0, <2>7, <1>1
      <4> QED
        BY <4>1 DEF Handled, Wanted, Recheckable
    <3> QED
      BY <3>1, <3>2
  <2>8. Waiting' \subseteq Read'
    BY <2>1, <1>7
  <2> QED
    BY <2>2, <2>3, <2>4, <2>5, <2>6, <2>7, <2>8 DEF BoardReread
<1> QED
  BY <1>1, <1>9, <1>10, <1>11, <1>12, <1>13 DEF Updating, HeldCurrent

\* Days that pass and edits leave the boards' lists as they are.
LEMMA QuietUpdating ==
  ASSUME CrawlInv, Updating, UNCHANGED <<lists, pinned, day, crawl>>,
         today' \in Nat, today <= today', touched \subseteq touched', touched' \subseteq Url,
         \A v \in Url : v \notin touched' => version'[v] = version[v]
  PROVE  Updating'
<1>1. \A s \in SUBSET Url : Cardinality(s) \in Nat /\ IsFiniteSet(s)
  BY FS_Subset, FS_CardinalityType, CrawlAssumption
<1>2. /\ \A b : On(b)' = On(b)
      /\ \A b, u, v : Above(b, u, v)' <=> Above(b, u, v)
      /\ \A b, u : RankOf(b, u)' = RankOf(b, u)
  BY SameBoards
<1>3. /\ Cardinality(touched) \in Nat /\ Cardinality(touched') \in Nat
      /\ Cardinality(touched) <= Cardinality(touched')
  <2>1. touched \subseteq Url
    BY DEF CrawlInv, BoardsInv
  <2> QED
    BY <2>1, <1>1, FS_Subset
<1>4. \A c \in 1..NumBoards :
        /\ On(c) \subseteq On(c)' /\ On(c)' \subseteq On(c) \cup touched'
        /\ \A x, y : Above(c, x, y) => Above(c, x, y)'
        /\ \A x, y \in On(c) : Above(c, x, y)' => Above(c, x, y)
  BY <1>2
<1>5. ASSUME NEW c \in 1..NumBoards, NEW v \in On(c)
      PROVE  /\ day'[v] = day[v]
             /\ RankOf(c, v) <= RankOf(c, v)' /\ RankOf(c, v)' \in Nat
             /\ RankOf(c, v)' + Cardinality(touched) <= RankOf(c, v) + Cardinality(touched')
  <2>1. RankOf(c, v)' = RankOf(c, v) /\ RankOf(c, v) \in Nat
    BY <1>2, RanksAre DEF CrawlInv
  <2> QED
    BY <2>1, <1>3
<1> QED
  BY <1>4, <1>5, UpdatingStays

LEMMA BoardsUpdating ==
  ASSUME CrawlInv, DatesInv, Updating, at # "idle", Boards, shifts' = shifts
  PROVE  Updating'
<1> USE CrawlAssumption
<1>0. BoardsInv /\ today \in Nat /\ touched \subseteq Url /\ shifts \in Nat
  <2>1. BoardsInv
    BY DEF CrawlInv
  <2>2. today \in 1..MaxDay /\ touched \subseteq Url /\ shifts \in 0..MaxShifts
    BY <2>1 DEF BoardsInv
  <2> QED
    BY <2>1, <2>2
<1>1. \A s \in SUBSET Url : Cardinality(s) \in Nat /\ IsFiniteSet(s)
  BY FS_Subset, FS_CardinalityType
<1>r. \A c \in 1..NumBoards : \A v \in On(c) : RankOf(c, v) \in Nat
  BY <1>0, RanksAre
<1>3. CASE DayPasses
  <2>1. today' = today + 1 /\ UNCHANGED <<lists, pinned, day, crawl, touched, version>>
    BY <1>3 DEF DayPasses
  <2> QED
    BY <2>1, <1>0, QuietUpdating
<1>4. ASSUME NEW u \in Url, Edit(u) PROVE Updating'
  <2>1. /\ today' = today /\ Touch(u) /\ UNCHANGED <<lists, pinned, day, crawl>>
        /\ version' = [version EXCEPT ![u] = @ + 1]
    BY <1>4 DEF Edit
  <2>2. touched \subseteq touched' /\ touched' \subseteq Url /\ u \in touched'
    BY <2>1, <1>0, TouchIs
  <2>3. \A v \in Url : v \notin touched' => version'[v] = version[v]
    BY <2>1, <2>2, <1>0 DEF BoardsInv
  <2> QED
    BY <2>1, <2>2, <2>3, <1>0, QuietUpdating
<1>5. ASSUME NEW u \in Url, PostNotice(u) PROVE Updating'
  <2>1. Touch(u) /\ UNCHANGED <<crawl, pinned, today, version>>
    BY <1>5 DEF PostNotice
  <2>2. /\ u \notin Posted
        /\ \A v \in Url : v # u => day'[v] = day[v]
        /\ \A c \in 1..NumBoards :
             /\ On(c)' = IF c = BoardOf[u] THEN On(c) \cup {u} ELSE On(c)
             /\ \A x, y : Before(c, x, y)' <=>
                  Before(c, x, y) \/ (c = BoardOf[u] /\ x = u /\ y \in On(c))
    BY <1>0, <1>5, PostNoticeIs
  <2>3. \A c \in 1..NumBoards :
          /\ u \notin On(c)
          /\ \A x, y \in On(c) : Above(c, x, y)' <=> Above(c, x, y)
          /\ \A v \in On(c) : /\ RankOf(c, v) <= RankOf(c, v)' /\ RankOf(c, v)' \in Nat
                              /\ RankOf(c, v)' <= RankOf(c, v) + 1
    BY <1>0, <1>5, NewNoticeIs
  <2>4. touched \subseteq touched' /\ touched' \subseteq touched \cup {u} /\ u \in touched'
    BY <2>1, <1>0, TouchIs
  <2>5. Cardinality(touched') = Cardinality(touched) + 1 /\ Cardinality(touched) \in Nat
    <3>1. touched' = touched \cup {u}
      BY <2>4
    <3>2. u \notin touched
      BY <1>5 DEF DatesInv, PostNotice
    <3> QED
      BY <3>1, <3>2, <1>0, <1>1, FS_AddElement
  <2>6. \A c \in 1..NumBoards : \A x, y : Above(c, x, y) => Above(c, x, y)'
    <3> SUFFICES ASSUME NEW c \in 1..NumBoards, NEW x, NEW y, Above(c, x, y)
                 PROVE  Above(c, x, y)'
      OBVIOUS
    <3>1. /\ Above(c, x, y) <=> IF x \in pinned <=> y \in pinned THEN Before(c, x, y)
                                ELSE x \in pinned
          /\ Above(c, x, y)' <=> IF x \in pinned <=> y \in pinned THEN Before(c, x, y)'
                                 ELSE x \in pinned
      BY <2>1 DEF Above, Before
    <3> QED
      BY <3>1, <2>2
  <2>7. \A c \in 1..NumBoards :
          /\ On(c) \subseteq On(c)' /\ On(c)' \subseteq On(c) \cup touched'
          /\ \A x, y : Above(c, x, y) => Above(c, x, y)'
          /\ \A x, y \in On(c) : Above(c, x, y)' => Above(c, x, y)
    BY <2>2, <2>3, <2>4, <2>6
  <2>8. ASSUME NEW c \in 1..NumBoards, NEW v \in On(c)
        PROVE  /\ day'[v] = day[v]
               /\ RankOf(c, v) <= RankOf(c, v)' /\ RankOf(c, v)' \in Nat
               /\ RankOf(c, v)' + Cardinality(touched) <= RankOf(c, v) + Cardinality(touched')
    <3>1. v \in Url /\ v # u
      BY <2>3, <1>0, BoardIs
    <3>2. /\ RankOf(c, v) <= RankOf(c, v)' /\ RankOf(c, v)' \in Nat
          /\ RankOf(c, v)' <= RankOf(c, v) + 1 /\ RankOf(c, v) \in Nat
      BY <2>3, <1>r
    <3>3. RankOf(c, v)' + Cardinality(touched) <= RankOf(c, v) + Cardinality(touched')
      BY <3>2, <2>5
    <3> QED
      BY <3>1, <3>2, <3>3, <2>2
  <2>9. touched' \subseteq Url /\ today' \in Nat /\ today <= today'
    BY <2>1, <2>4, <1>0
  <2> QED
    BY <2>1, <2>4, <2>7, <2>8, <2>9, UpdatingStays
<1>6. ASSUME NEW u \in Url, Pin(u) \/ Unpin(u) \/ TakeDown(u) PROVE Updating'
  BY <1>0, <1>6 DEF Pin, Unpin, TakeDown, Shift
<1> QED
  BY <1>3, <1>4, <1>5, <1>6 DEF Boards

(* Boards are left and items handled *)

LEMMA SameWanted ==
  ASSUME UNCHANGED site, MergedFrom(old') = MergedFrom(old)
  PROVE  \A v : Wanted(v)' <=> Wanted(v)
<1>1. /\ UNCHANGED <<lists, pinned, day, today, touched>>
      /\ \A b, u, v : Above(b, u, v)' <=> Above(b, u, v)
  BY SameSite
<1>2. \A v : Recheckable(v)' <=> Recheckable(v)
  BY <1>1 DEF Recheckable, Posted, Stale
<1>3. \A v : Reread(v)' <=> Reread(v)
  BY <1>1 DEF Reread
<1> QED
  BY <1>2, <1>3 DEF Wanted

\* A board may be left when what is wanted of it is up to date.
LEMMA LeaveUpdated ==
  ASSUME CrawlInv, HeldCurrent, at \in {"list", "items"}, NextBoard, UNCHANGED <<site, since>>,
         MergedFrom(old') = MergedFrom(old), seen' = Known, Known' = Known,
         \A v : Current(v) => Current(v)', NewCurrent',
         \A v \in done' : BoardOf[v] <= board /\ (Wanted(v) => Current(v)'),
         done' \subseteq Url,
         \A v \in On(board) : Wanted(v) => Current(v)'
  PROVE  Updating'
<1> USE CrawlAssumption
<1>0. BoardsInv /\ PlaceInv
  BY DEF CrawlInv
<1>1. /\ board' = board + 1 /\ page' = 1 /\ pages' = {} /\ queue' = <<>> /\ ~stopAfter'
      /\ at' \in {"list", "save"} /\ board \in 1..NumBoards
  BY <1>0, NextBoardIs
<1>2. at' = "list" => board' \in 1..NumBoards
  BY <1>1 DEF NextBoard
<1>3. UNCHANGED <<lists, pinned, today>> /\ \A b : On(b)' = On(b)
  BY SameSite
<1>4. \A v : Wanted(v)' <=> Wanted(v)
  BY SameWanted
<1>5. LeftCurrent'
  <2> SUFFICES ASSUME NEW b \in 1..NumBoards, b < board + 1, NEW v \in On(b), Wanted(v)
               PROVE  Current(v)'
    BY <1>1, <1>3, <1>4 DEF LeftCurrent
  <2>1. CASE b < board
    BY <2>1 DEF HeldCurrent, LeftCurrent
  <2>2. CASE ~(b < board)
    <3>1. b = board
      BY <1>1, <2>2
    <3> QED
      BY <3>1
  <2> QED
    BY <2>1, <2>2
<1>6. HeldCurrent'
  BY <1>3, <1>4, <1>5 DEF HeldCurrent
<1>7. ASSUME at' = "list" PROVE BoardReread'
  <2>1. /\ Waiting' = {} /\ Read' = {} /\ QueueOrdered' /\ PagesRanked'
        /\ \A v \in On(board)' : ~Reached(v)'
    BY <1>0, <1>1, <1>2, <1>3, <1>7, TopOfBoard
  <2>2. \A u \in done' : BoardOf[u] < board'
    <3> SUFFICES ASSUME NEW u \in done' PROVE BoardOf[u] < board + 1
      BY <1>1
    <3>1. BoardOf[u] \in Nat /\ BoardOf[u] <= board /\ board \in Nat
      BY <1>1
    <3> QED
      BY <3>1
  <2> QED
    BY <2>1, <2>2 DEF BoardReread
<1> QED
  BY <1>1, <1>6, <1>7 DEF Updating

\* One item more of the page is done.
LEMMA ItemUpdated ==
  ASSUME CrawlInv, HeldCurrent, BoardReread, at = "items", queue # <<>>, queue' = Tail(queue),
         UNCHANGED <<site, since, at, board, page, pages, stopAfter>>,
         MergedFrom(old') = MergedFrom(old), seen' = Known',
         NEW u, u = Head(queue).url, done' \subseteq done \cup {u},
         \A v : Current(v) => Current(v)', NewCurrent', Wanted(u) => Current(u)'
  PROVE  Updating'
<1>0. BoardsInv /\ PlaceInv /\ board \in 1..NumBoards
  BY CrawlAssumption DEF CrawlInv, PlaceInv
<1>1. /\ UNCHANGED <<lists, pinned, day, today, touched>>
      /\ \A b : On(b)' = On(b)
      /\ \A b, x, y : Above(b, x, y)' <=> Above(b, x, y)
      /\ \A b, x : RankOf(b, x)' = RankOf(b, x)
  BY SameSite
<1>2. \A v : Wanted(v)' <=> Wanted(v)
  BY SameWanted
<1>3. Read' = Read /\ Bound' = Bound /\ \A v : Reached(v)' <=> Reached(v)
  <2>1. Read' = Read /\ Bound' = Bound
    BY DEF Read, Bound
  <2> QED
    BY <2>1, <1>1 DEF Reached
<1>4. Waiting = Waiting' \cup {u} /\ u \in Waiting /\ QueueOrdered'
  BY <1>0, <1>1, RestIs DEF BoardReread
<1>5. \A v : Handled(v) => Handled(v)'
  BY <1>2, <1>4 DEF Handled
<1>6. HeldCurrent'
  <2>1. LeftCurrent'
    BY <1>1, <1>2 DEF HeldCurrent, LeftCurrent
  <2>2. \A v \in done' : Wanted(v) => Current(v)'
    BY DEF HeldCurrent
  <2> QED
    BY <2>1, <2>2, <1>1, <1>2 DEF HeldCurrent
<1>7. BoardReread'
  <2>1. PagesRanked'
    BY <1>1, <1>3 DEF BoardReread, PagesRanked
  <2>2. Waiting' \subseteq Read' /\ \A v \in done' : BoardOf[v] < board' \/ v \in Read'
    BY <1>3, <1>4 DEF BoardReread
  <2>3. \A v \in Read' : Handled(v)'
    BY <1>3, <1>5 DEF BoardReread
  <2>4. \A v \in On(board)' : Reached(v)' => Handled(v)'
    BY <1>1, <1>3, <1>5 DEF BoardReread
  <2> QED
    BY <1>4, <2>1, <2>2, <2>3, <2>4 DEF BoardReread
<1> QED
  BY <1>6, <1>7 DEF Updating

\* What waits is of this board, and what is done of this one or an earlier one.
LEMMA PlacesIs ==
  ASSUME CrawlInv, BoardReread, at \in {"list", "items"}
  PROVE  /\ board \in 1..NumBoards /\ Waiting \subseteq On(board)
         /\ \A u \in done \cup Waiting : u \in Url /\ BoardOf[u] <= board
<1> USE CrawlAssumption
<1>0. BoardsInv /\ board \in 1..NumBoards /\ done \subseteq Url
  BY DEF CrawlInv, PlaceInv
<1>1. Read \subseteq On(board) /\ Waiting \subseteq On(board)
  BY DEF BoardReread, PagesRanked
<1>2. \A u \in On(board) : u \in Url /\ BoardOf[u] = board
  BY <1>0, BoardIs
<1>3. \A u \in done : BoardOf[u] \in Nat /\ (BoardOf[u] < board \/ BoardOf[u] = board)
  BY <1>0, <1>1, <1>2 DEF BoardReread
<1> QED
  BY <1>0, <1>1, <1>2, <1>3

\* Below a stale item of a page nothing is wanted that is not up to date.
LEMMA StaleLeft ==
  ASSUME CrawlInv, DatesInv, HeldCurrent, BoardReread, at = "items", queue # <<>>,
         ~Head(queue).permanent, Stale(day[Head(queue).url])
  PROVE  \A v \in On(board) : Wanted(v) => Current(v)
<1>1. \A v \in On(board) : Lasting(v) => Reached(v) /\ v \notin Waiting
  BY BelowStale DEF BoardReread
<1>2. \A v : Wanted(v) => Lasting(v)
  BY DEF Wanted, Recheckable, Lasting
<1> QED
  BY <1>1, <1>2 DEF BoardReread, Handled

\* A wanted item that is due is fetched again, and one that is not was done before.
LEMMA KnownItemCurrent ==
  ASSUME CrawlInv, DatesInv, HeldCurrent, BoardReread, KnownItem, faults' = faults,
         NEW u, u = Head(queue).url
  PROVE  /\ MergedFrom(old') = MergedFrom(old)
         /\ \A v : Current(v) => Current(v)'
         /\ NewCurrent'
         /\ Wanted(u) => Current(u)'
<1> USE CrawlAssumption
<1> DEFINE item == Head(queue)
           synced == Synced(old, item)
           posts == {post \in ToSet(synced) \cup ToSet(new) : post.url = u /\ post.meta = {}}
           due == ShouldRecheck(u, posts)
           again == IF ~item.permanent /\ Stale(day[u]) THEN synced ELSE Updated(synced, u)
<1>0. BoardsInv /\ HeldInv /\ PlaceInv /\ faults \in Nat
  BY DEF CrawlInv, PlaceInv
<1>1. /\ at = "items" /\ queue # <<>> /\ u \in seen /\ UNCHANGED site
      /\ \/ due /\ Readable(u) /\ old' = again
         \/ due /\ Unreadable(u) /\ old' = synced
         \/ ~due /\ old' = synced
      /\ new' = Synced(new, item)
  BY DEF KnownItem
<1>2. item \in PageItem /\ u \in Url
  BY <1>0, <1>1, HeadItem
<1>3. u \in On(board) /\ u \in Posted /\ u \in Known /\ (item.permanent <=> u \in pinned)
  <2>1. u \in Waiting
    BY <1>0, <1>1, QueueIs
  <2>2. u \in On(board) /\ board \in 1..NumBoards
    BY <2>1, <1>1, PlacesIs
  <2>3. item.permanent <=> u \in pinned
    BY <1>0, <1>1, HeadPinned DEF BoardReread
  <2> QED
    BY <2>2, <2>3, <1>0, <1>1, BoardIs DEF BoardReread
<1>4. \/ due /\ old' = again
      \/ ~due /\ old' = synced
  BY <1>0, <1>1, <1>3 DEF Unreadable
<1>d. due <=> u \notin done /\ \E post \in posts : post.permanent \/ post.day + RecheckDays >= since
  BY DEF ShouldRecheck
<1>5. /\ DOMAIN synced = DOMAIN old
      /\ \A i \in DOMAIN old :
           /\ synced[i].url = old[i].url /\ synced[i].version = old[i].version
           /\ synced[i].day = old[i].day /\ SourcesOf(synced[i]) = SourcesOf(old[i])
           /\ old[i].meta = {} /\ old[i].url = u => synced[i].permanent = item.permanent
  BY <1>0, <1>2, SyncedPosts DEF HeldInv
<1>6. IsPostList(synced)
  BY <1>0, <1>2, SyncedIs DEF HeldInv
<1>7. NewCurrent'
  <2>1. /\ DOMAIN new' = DOMAIN new
        /\ \A i \in DOMAIN new : new'[i].url = new[i].url /\ new'[i].version = new[i].version
    BY <1>0, <1>1, <1>2, SyncedPosts DEF HeldInv
  <2>2. version' = version /\ touched' = touched
    BY <1>1 DEF site
  <2> QED
    BY <2>1, <2>2 DEF HeldCurrent, NewCurrent
<1> HIDE DEF item, synced, posts, due
<1>8. \A i \in DOMAIN synced : SourcesOf(synced[i]) = {} <=> synced[i].meta = {}
  BY DEF SourcesOf
<1>9. /\ DOMAIN old' = DOMAIN old
      /\ \A i \in DOMAIN old :
           /\ old'[i].url = old[i].url /\ SourcesOf(old'[i]) = SourcesOf(old[i])
           /\ old'[i].version = old[i].version \/ (old[i].url = u /\ old'[i].version = version[u])
  <2>1. CASE old' = synced
    BY <2>1, <1>5
  <2>2. CASE old' = Updated(synced, u)
    <3>1. /\ DOMAIN Updated(synced, u) = DOMAIN synced
          /\ \A i \in DOMAIN synced :
               /\ Updated(synced, u)[i].url = synced[i].url
               /\ SourcesOf(Updated(synced, u)[i]) = SourcesOf(synced[i])
               /\ Updated(synced, u)[i].version = IF synced[i].meta = {} /\ synced[i].url = u
                                                  THEN version[u] ELSE synced[i].version
      BY <1>6, UpdatedPosts
    <3> QED
      BY <2>2, <3>1, <1>5
  <2> QED
    BY <2>1, <2>2, <1>4
<1>10. MergedFrom(old') = MergedFrom(old)
  <2>1. \A v : v \in MergedFrom(old') <=> v \in MergedFrom(old)
    BY <1>9, MergedFromIs
  <2> QED
    BY <2>1
<1>11. version' = version
  BY <1>1 DEF site
<1>12. \A v : Current(v) => Current(v)'
  BY <1>9, <1>11 DEF Current
<1>13. ASSUME Wanted(u) PROVE Current(u)'
  <2>1. Recheckable(u) /\ u \notin MergedFrom(old)
    BY <1>13 DEF Wanted, Reread
  <2>2. u \in pinned \/ (day[u] + RecheckDays >= today /\ ~Stale(day[u]))
    BY <2>1 DEF Recheckable
  <2>3. CASE due
    <3>1. old' = Updated(synced, u)
      BY <2>2, <2>3, <1>3, <1>4 DEF again
    <3>2. ASSUME NEW i \in DOMAIN old, old[i].url = u PROVE old'[i].version = version[u]
      <4>1. u \notin SourcesOf(old[i])
        BY <2>1, MergedFromIs
      <4>2. old[i].meta = {}
        <5>1. DatedPost(old[i], day)
          BY DEF DatesInv, Dated
        <5> QED
          BY <5>1, <4>1, <3>2 DEF DatedPost, SourcesOf
      <4>3. synced[i].meta = {} /\ synced[i].url = u
        BY <4>2, <3>2, <1>5, <1>8 DEF SourcesOf
      <4>4. i \in DOMAIN synced
        BY <1>5
      <4> QED
        BY <3>1, <4>3, <4>4, <1>6, UpdatedPosts
    <3> QED
      BY <3>2, <1>9, <1>11 DEF Current
  <2>4. CASE ~due /\ u \in Covered(old)
    <3>1. PICK i \in DOMAIN old : u \in UrlsOf(old[i])
      BY <2>4, CoveredIs
    <3>2. u \notin SourcesOf(old[i]) /\ DatedPost(old[i], day)
      BY <2>1, MergedFromIs DEF DatesInv, Dated
    <3>3. old[i].url = u /\ old[i].meta = {}
      BY <3>1, <3>2 DEF UrlsOf, SourcesOf, DatedPost
    <3>4. /\ synced[i].url = u /\ synced[i].meta = {} /\ synced[i].day = day[u]
          /\ synced[i].permanent = item.permanent /\ i \in DOMAIN synced
      <4>1. SourcesOf(old[i]) = {}
        BY <3>3 DEF SourcesOf
      <4>2. i \in DOMAIN synced /\ SourcesOf(synced[i]) = {}
        BY <4>1, <1>5
      <4>3. synced[i].meta = {}
        BY <4>2, <1>8
      <4>4. old[i].day = day[u]
        BY <3>2, <3>3 DEF DatedPost
      <4> QED
        BY <3>3, <4>2, <4>3, <4>4, <1>5
    <3>5. synced[i] \in posts
      BY <3>4 DEF posts, ToSet
    <3>6. synced[i].permanent \/ synced[i].day + RecheckDays >= since
      <4>1. CASE u \in pinned
        BY <4>1, <3>4, <1>3
      <4>2. CASE day[u] + RecheckDays >= today
        <5>1. day[u] \in Nat /\ today \in Nat /\ since \in Nat
          <6>1. day \in [Url -> 0..MaxDay] /\ today \in 1..MaxDay /\ since \in 0..MaxDay
            BY <1>0 DEF BoardsInv, PlaceInv
          <6> QED
            BY <6>1, <1>2
        <5> QED
          BY <5>1, <4>2, <3>4 DEF HeldCurrent
      <4> QED
        BY <4>1, <4>2, <2>2
    <3>7. u \in done
      BY <3>5, <3>6, <2>4, <1>d
    <3> QED
      BY <3>7, <1>12, <1>13 DEF HeldCurrent
  <2>5. CASE u \notin Covered(old)
    <3>1. \A i \in DOMAIN old : old[i].url # u
      BY <2>5, CoveredIs DEF UrlsOf
    <3> QED
      BY <3>1, <1>9 DEF Current
  <2> QED
    BY <2>3, <2>4, <2>5
<1> QED
  BY <1>7, <1>10, <1>12, <1>13

LEMMA KnownItemUpdating ==
  ASSUME CrawlInv, DatesInv, Updating, KnownItem, faults' = faults
  PROVE  Updating'
<1> PICK item : item = Head(queue)
  OBVIOUS
<1> PICK u : u = item.url
  OBVIOUS
<1>0. HeldInv /\ PlaceInv
  BY DEF CrawlInv
<1>1. /\ at = "items" /\ queue # <<>> /\ UNCHANGED <<site, since>>
      /\ done' \subseteq done \cup {u}
      /\ LeaveIf(~item.permanent /\ \E d \in KnownDay(u) : Stale(d))
  BY DEF KnownItem
<1>2. HeldCurrent /\ BoardReread /\ seen = Known
  BY <1>1 DEF Updating, BoardReread
<1>3. /\ MergedFrom(old') = MergedFrom(old)
      /\ \A v : Current(v) => Current(v)'
      /\ NewCurrent' /\ (Wanted(u) => Current(u)')
  BY <1>2, KnownItemCurrent
<1>4. Known' = Known
  <2>1. SameUrls(old', old) /\ SameUrls(new', new)
    BY KnownItemHolds
  <2> QED
    BY <2>1, SameUrlsKeep DEF Known
<1>5. u \in Waiting
  BY <1>0, <1>1, QueueIs
<1>6. CASE ~item.permanent /\ \E d \in KnownDay(u) : Stale(d)
  <2>1. NextBoard /\ seen' = Known
    BY <1>1, <1>6 DEF LeaveIf
  <2>2. Stale(day[u])
    BY <1>6, KnownDayIs
  <2>3. \A v \in On(board) : Wanted(v) => Current(v)'
    BY <1>1, <1>2, <1>3, <1>6, <2>2, StaleLeft
  <2>4. done' \subseteq Url /\ \A v \in done' : BoardOf[v] <= board
    BY <1>1, <1>2, <1>5, PlacesIs
  <2>5. \A v \in done' : Wanted(v) => Current(v)'
    BY <1>1, <1>2, <1>3 DEF HeldCurrent
  <2> QED
    BY <1>1, <1>2, <1>3, <1>4, <2>1, <2>3, <2>4, <2>5, LeaveUpdated
<1>7. CASE ~(~item.permanent /\ \E d \in KnownDay(u) : Stale(d))
  <2>1. Rest
    BY <1>1, <1>7 DEF LeaveIf
  <2>2. queue' = Tail(queue) /\ UNCHANGED <<at, board, page, pages, stopAfter>> /\ seen' = Known'
    BY <2>1, <1>2, <1>4 DEF Rest
  <2> QED
    BY <1>1, <1>2, <1>3, <2>2, ItemUpdated
<1> QED
  BY <1>6, <1>7

LEMMA SameHeldCurrent ==
  ASSUME HeldCurrent, UNCHANGED <<site, old, new, since, done>>
  PROVE  /\ MergedFrom(old') = MergedFrom(old)
         /\ \A v : (Current(v)' <=> Current(v)) /\ (Wanted(v)' <=> Wanted(v))
         /\ NewCurrent'
         /\ \A v \in done' : Wanted(v) => Current(v)'
<1>1. version' = version /\ touched' = touched
  BY DEF site
<1>2. \A v : Current(v)' <=> Current(v)
  BY <1>1 DEF Current
<1>3. NewCurrent'
  BY <1>1 DEF HeldCurrent, NewCurrent
<1> QED
  BY <1>2, <1>3, SameWanted DEF HeldCurrent

LEMMA NewItemUpdating ==
  ASSUME CrawlInv, DatesInv, Updating, NewItem
  PROVE  Updating'
<1> PICK item : item = Head(queue)
  OBVIOUS
<1> PICK u : u = item.url
  OBVIOUS
<1>0. HeldInv /\ PlaceInv /\ IsPostList(new)
  BY DEF CrawlInv, HeldInv
<1>1. at = "items" /\ queue # <<>> /\ u \notin seen /\ UNCHANGED <<site, since, old>>
  BY DEF NewItem
<1>2. HeldCurrent /\ BoardReread /\ seen = Known
  BY <1>1 DEF Updating, BoardReread
<1>3. version' = version /\ touched' = touched
  BY <1>1 DEF site
<1>4. MergedFrom(old') = MergedFrom(old) /\ \A v : Current(v) => Current(v)'
  BY <1>1, <1>3 DEF Current
<1>5. CASE ~item.permanent /\ Stale(day[u])
  <2>1. NextBoard /\ seen' = Known /\ UNCHANGED <<new, done>>
    BY <1>5 DEF NewItem
  <2>2. Known' = Known
    BY <2>1, <1>1 DEF Known
  <2>3. NewCurrent' /\ \A v \in done' : Wanted(v) => Current(v)'
    BY <2>1, <1>1, <1>2, SameHeldCurrent
  <2>4. \A v \in On(board) : Wanted(v) => Current(v)'
    BY <1>1, <1>2, <1>4, <1>5, StaleLeft
  <2>5. done' \subseteq Url /\ \A v \in done' : BoardOf[v] <= board
    BY <2>1, <1>1, <1>2, PlacesIs
  <2> QED
    BY <1>1, <1>2, <1>4, <2>1, <2>2, <2>3, <2>4, <2>5, LeaveUpdated
<1>6. CASE ~(~item.permanent /\ Stale(day[u]))
  <2> DEFINE p == Fetched(u, item.permanent)
  <2>1. /\ new' = Append(new, p) /\ done' = done \cup {u} /\ queue' = Tail(queue)
        /\ seen' = seen \cup {u} /\ UNCHANGED <<at, board, page, pages, stopAfter>>
    BY <1>6 DEF NewItem
  <2>2. p.url = u /\ p.version = version[u] /\ UrlsOf(p) = {u}
    BY DEF Fetched, UrlsOf
  <2> HIDE DEF p
  <2>3. new \in Seq(Posts)
    BY <1>0 DEF IsPostList
  <2>4. /\ \A i \in DOMAIN new' : new'[i] = p \/ (i \in DOMAIN new /\ new'[i] = new[i])
        /\ \A i \in DOMAIN new : i \in DOMAIN new' /\ new'[i] = new[i]
        /\ Len(new) + 1 \in DOMAIN new' /\ new'[Len(new) + 1] = p
    BY <2>1, <2>3
  <2>5. NewCurrent'
    BY <2>2, <2>4, <1>2, <1>3 DEF HeldCurrent, NewCurrent
  <2>6. seen' = Known'
    <3>1. \A v : v \in Covered(new') <=> v \in Covered(new) \/ v = u
      BY <2>2, <2>4, CoveredIs
    <3>2. Known' = Known \cup {u}
      BY <3>1, <1>1 DEF Known
    <3> QED
      BY <3>2, <2>1, <1>2
  <2>7. Current(u)'
    <3>1. u \notin Covered(old)
      BY <1>1, <1>2 DEF Known
    <3>2. \A i \in DOMAIN old : old[i].url # u
      BY <3>1, CoveredIs DEF UrlsOf
    <3> QED
      BY <3>2, <1>1 DEF Current
  <2> QED
    BY <1>1, <1>2, <1>4, <2>1, <2>5, <2>6, <2>7, ItemUpdated
<1> QED
  BY <1>5, <1>6

\* What a page showed is not taken down while the crawl is not disturbed.
LEMMA NewItemRead ==
  ASSUME CrawlInv, Updating, NewItemFails, faults' = faults
  PROVE  FALSE
<1> DEFINE u == Head(queue).url
<1>0. BoardsInv /\ PlaceInv /\ faults \in Nat
  BY CrawlAssumption DEF CrawlInv, PlaceInv
<1>1. at = "items" /\ queue # <<>> /\ Unreadable(u)
  BY DEF NewItemFails
<1>2. u \in Waiting
  BY <1>0, <1>1, QueueIs
<1>3. u \in On(board) /\ board \in 1..NumBoards
  BY <1>1, <1>2, PlacesIs DEF Updating
<1>4. u \in Posted
  BY <1>0, <1>3, BoardIs
<1> QED
  BY <1>0, <1>1, <1>4 DEF Unreadable

(* Pages are read *)

\* A board is left, and nothing that is held changes.
LEMMA LeavePages ==
  ASSUME CrawlInv, Updating, at \in {"list", "items"}, NextBoard, seen' = Known,
         UNCHANGED <<site, old, new, since, done>>,
         \A v \in On(board) : Wanted(v) => Current(v)
  PROVE  Updating'
<1>1. HeldCurrent /\ BoardReread
  BY DEF Updating
<1>2. /\ MergedFrom(old') = MergedFrom(old) /\ \A v : Current(v)' <=> Current(v)
      /\ NewCurrent' /\ \A v \in done' : Wanted(v) => Current(v)'
  BY <1>1, SameHeldCurrent
<1>3. Known' = Known
  BY DEF Known
<1>4. done' \subseteq Url /\ \A v \in done' : BoardOf[v] <= board
  BY <1>1, PlacesIs
<1> QED
  BY <1>1, <1>2, <1>3, <1>4, LeaveUpdated

LEMMA ListEndsUpdating ==
  ASSUME CrawlInv, DatesInv, Updating, Cardinality(touched) < PageLen, ListEnds
  PROVE  Updating'
<1>1. /\ at = "list" /\ NextBoard /\ seen' = Known /\ UNCHANGED <<site, old, new, since, done>>
      /\ EndOfList(Listed(board, Shown(board, page)))
  BY DEF ListEnds
<1>2. BoardReread /\ PagesRanked
  BY <1>1 DEF Updating, BoardReread
<1>3. Waiting = {}
  BY <1>1 DEF Waiting, DatesInv
<1>4. \A v \in On(board) : v \in Read \/ Reached(v)
  BY <1>1, <1>2, ListEndIs
<1>5. \A v \in On(board) : Wanted(v) => Current(v)
  BY <1>2, <1>3, <1>4 DEF BoardReread, Handled
<1> QED
  BY <1>1, <1>5, LeavePages

LEMMA EndPageUpdating ==
  ASSUME CrawlInv, Updating, EndPage
  PROVE  Updating'
<1>1. at = "items" /\ queue = <<>> /\ UNCHANGED <<site, old, new, since, done>>
  BY DEF EndPage
<1>2. HeldCurrent /\ BoardReread
  BY <1>1 DEF Updating
<1>3. Waiting = {}
  BY <1>1 DEF Waiting
<1>4. CASE stopAfter
  <2>1. NextBoard /\ seen' = Known
    BY <1>4 DEF EndPage
  <2>2. \A v \in On(board) : Wanted(v) => Current(v)
    BY <1>2, <1>3, <1>4 DEF BoardReread, Handled, Reached
  <2> QED
    BY <1>1, <2>1, <2>2, LeavePages
<1>5. CASE ~stopAfter
  <2>1. at' = "list" /\ UNCHANGED <<board, seen>>
    BY <1>5 DEF EndPage
  <2>2. /\ Read' = Read /\ Waiting' = {} /\ QueueOrdered' /\ PagesRanked'
        /\ \A v \in On(board) : Reached(v)' => Reached(v)
    BY <1>2, <1>5, NextPageIs DEF BoardReread
  <2>3. /\ \A v : (Current(v)' <=> Current(v)) /\ (Wanted(v)' <=> Wanted(v))
        /\ NewCurrent' /\ \A v \in done' : Wanted(v) => Current(v)'
    BY <1>1, <1>2, SameHeldCurrent
  <2>4. today' = today /\ \A b : On(b)' = On(b)
    BY <1>1, SameSite
  <2>5. HeldCurrent'
    BY <1>1, <1>2, <2>1, <2>3, <2>4 DEF HeldCurrent, LeftCurrent
  <2>6. \A v : Handled(v) => Handled(v)'
    BY <1>3, <2>2, <2>3 DEF Handled
  <2>7. BoardReread'
    <3>1. seen' = Known' /\ Waiting' \subseteq Read'
      BY <1>1, <1>2, <2>1, <2>2 DEF BoardReread, Known
    <3>2. \A v \in done' : BoardOf[v] < board' \/ v \in Read'
      BY <1>1, <1>2, <2>1, <2>2 DEF BoardReread
    <3>3. \A v \in Read' : Handled(v)'
      BY <1>2, <2>2, <2>6 DEF BoardReread
    <3>4. \A v \in On(board)' : Reached(v)' => Handled(v)'
      BY <1>2, <2>1, <2>2, <2>4, <2>6 DEF BoardReread
    <3> QED
      BY <2>2, <3>1, <3>2, <3>3, <3>4 DEF BoardReread
  <2> QED
    BY <2>5, <2>7 DEF Updating
<1> QED
  BY <1>4, <1>5

\* Below a page that ends its board nothing is wanted: its items are merged, or older
\* than what is read again.
LEMMA BelowKnown ==
  ASSUME CrawlInv, DatesInv, HeldCurrent, board \in 1..NumBoards,
         NEW v \in On(board), v \notin pinned, NEW w \in On(board), w \notin pinned,
         Before(board, w, v), w \in Known, w \notin done, ~ShouldRecheck(w, OwnPost(w))
  PROVE  ~Wanted(v)
<1> USE CrawlAssumption
<1>0. BoardsInv
  BY DEF CrawlInv
<1>1. BoardOf[v] = board /\ v \in Url /\ w \in Url
  BY <1>0, BoardIs
<1>2. Above(board, w, v)
  BY DEF Above, Before
<1>3. CASE w \in MergedFrom(old)
  BY <1>1, <1>2, <1>3 DEF Wanted, Reread
<1>4. CASE w \notin MergedFrom(old)
  <2>1. PICK post \in OwnPost(w) : post.day = day[w]
    BY <1>4, KnownIs
  <2>2. ~(day[w] + RecheckDays >= since)
    BY <2>1 DEF ShouldRecheck
  <2>3. day[v] <= day[w]
    BY DEF DatesInv
  <2>4. day[v] \in Nat /\ day[w] \in Nat /\ today \in Nat /\ since \in Nat /\ since <= today
    <3>1. day \in [Url -> 0..MaxDay] /\ today \in 1..MaxDay /\ since \in 0..MaxDay
      BY DEF CrawlInv, BoardsInv, PlaceInv
    <3> QED
      BY <3>1, <1>1 DEF HeldCurrent
  <2>5. ~(day[v] + RecheckDays >= today)
    BY <2>2, <2>3, <2>4
  <2> QED
    BY <2>5 DEF Wanted, Recheckable
<1> QED
  BY <1>3, <1>4

LEMMA ReadPageUpdating ==
  ASSUME CrawlInv, DatesInv, Updating, Cardinality(touched) < PageLen, ReadPage
  PROVE  Updating'
<1> PICK shown : shown = Shown(board, page)
  OBVIOUS
<1>0. BoardsInv /\ PlaceInv /\ board \in 1..NumBoards
  BY CrawlAssumption DEF CrawlInv, PlaceInv, ReadPage
<1>1. /\ at = "list" /\ at' = "items"
      /\ UNCHANGED <<site, old, new, since, done, board, page, seen>>
  BY DEF ReadPage
<1>2. HeldCurrent /\ BoardReread /\ PagesRanked /\ seen = Known
  BY <1>1 DEF Updating, BoardReread
<1>3. /\ shown \subseteq On(board) /\ Read' = Read \cup shown
      /\ Waiting' = (IF stopAfter' THEN shown \cap pinned ELSE shown)
      /\ stopAfter' => \A u \in shown \ pinned : u \in seen /\ ~ShouldRecheck(u, OwnPost(u))
      /\ QueueOrdered' /\ PagesRanked'
      /\ \A v \in On(board) : RankOf(board, v) < Lo(page + 1) => v \in shown \/ Reached(v)
      /\ \A v \in On(board) : Reached(v)' /\ ~(RankOf(board, v) < Lo(page + 1)) =>
           /\ stopAfter' /\ v \notin pinned
           /\ \E w \in shown \ (pinned \cup Read) : Before(board, w, v)
  BY <1>2, PageIs
<1>4. /\ \A v : (Current(v)' <=> Current(v)) /\ (Wanted(v)' <=> Wanted(v))
      /\ NewCurrent' /\ \A v \in done' : Wanted(v) => Current(v)'
  BY <1>1, <1>2, SameHeldCurrent
<1>5. today' = today /\ \A b : On(b)' = On(b)
  BY <1>1, SameSite
<1>6. Waiting = {}
  BY <1>1 DEF Waiting, DatesInv
<1>7. HeldCurrent'
  BY <1>1, <1>2, <1>4, <1>5 DEF HeldCurrent, LeftCurrent
<1>8. \A v : Handled(v) => (Wanted(v) => Current(v))
  BY <1>6 DEF Handled
<1>9. ASSUME NEW v \in shown, Wanted(v) PROVE Current(v) \/ v \in Waiting'
  BY <1>2, <1>3, <1>9, NotDue
<1>10. ASSUME NEW v \in On(board), Reached(v)', Wanted(v) PROVE Current(v) \/ v \in Waiting'
  <2>1. CASE v \in shown
    BY <2>1, <1>9, <1>10
  <2>2. CASE Reached(v)
    BY <2>2, <1>2, <1>8, <1>10 DEF BoardReread
  <2>3. CASE ~(RankOf(board, v) < Lo(page + 1))
    <3>1. stopAfter' /\ v \notin pinned
      BY <2>3, <1>3, <1>10
    <3>2. PICK w \in shown \ (pinned \cup Read) : Before(board, w, v)
      BY <2>3, <1>3, <1>10
    <3>3. w \in On(board) /\ w \in Known /\ ~ShouldRecheck(w, OwnPost(w)) /\ w \notin pinned
      BY <3>1, <3>2, <1>2, <1>3
    <3>4. w \notin done
      <4>1. BoardOf[w] = board /\ ~(board < board)
        BY <3>3, <1>0, BoardIs
      <4> QED
        BY <4>1, <3>2, <1>2 DEF BoardReread
    <3> QED
      BY <3>1, <3>2, <3>3, <3>4, <1>0, <1>2, <1>10, BelowKnown
  <2> QED
    BY <2>1, <2>2, <2>3, <1>3
<1>11. BoardReread'
  <2>1. seen' = Known' /\ Waiting' \subseteq Read'
    BY <1>1, <1>2, <1>3 DEF Known
  <2>2. \A v \in done' : BoardOf[v] < board' \/ v \in Read'
    BY <1>1, <1>2, <1>3 DEF BoardReread
  <2>3. \A v \in Read' : Handled(v)'
    <3>1. \A v \in Read : Wanted(v) => Current(v)
      BY <1>2, <1>8 DEF BoardReread
    <3> QED
      BY <3>1, <1>3, <1>4, <1>9 DEF Handled
  <2>4. \A v \in On(board)' : Reached(v)' => Handled(v)'
    BY <1>1, <1>4, <1>5, <1>10 DEF Handled
  <2> QED
    BY <1>3, <2>1, <2>2, <2>3, <2>4 DEF BoardReread
<1> QED
  BY <1>7, <1>11 DEF Updating

(* Crawls begin and are saved *)

LEMMA StartCrawlUpdating ==
  ASSUME CrawlInv, DatesInv, EditsInv, StartCrawl
  PROVE  Updating'
<1> USE CrawlAssumption
<1>0. BoardsInv /\ HeldInv /\ today \in Nat
  BY DEF CrawlInv, BoardsInv
<1>1. /\ at = "idle" /\ at' = "list" /\ old' = store /\ seen' = Covered(store)
      /\ since' = today /\ UNCHANGED <<today, lists, pinned, new, done, board, page, pages,
                                       queue, stopAfter>>
  BY DEF StartCrawl
<1>2. /\ new = <<>> /\ board = 1 /\ page = 1 /\ pages = {} /\ queue = <<>> /\ ~stopAfter
      /\ done = {}
  BY <1>0, <1>1 DEF HeldInv, DatesInv, EditsInv
<1>3. Known' = Covered(store)
  BY <1>1, <1>2, NoPosts DEF Known
<1>4. HeldCurrent'
  <2>1. NewCurrent' /\ LeftCurrent'
    BY <1>1, <1>2 DEF NewCurrent, LeftCurrent
  <2> QED
    BY <2>1, <1>0, <1>1, <1>2 DEF HeldCurrent
<1>5. BoardReread'
  <2>1. /\ Waiting' = {} /\ Read' = {} /\ QueueOrdered' /\ PagesRanked'
        /\ \A v \in On(board)' : ~Reached(v)'
    <3>1. board' \in 1..NumBoards /\ page' = 1 /\ pages' = {} /\ queue' = <<>> /\ ~stopAfter'
      BY <1>1, <1>2
    <3> QED
      BY <3>1, <1>0, <1>1, TopOfBoard
  <2> QED
    BY <2>1, <1>1, <1>2, <1>3 DEF BoardReread
<1> QED
  BY <1>4, <1>5 DEF Updating

LEMMA EditsInitially == Init => EditsInv
BY DEF Init, Idle, EditsInv

\* Only the start of a crawl forgets what was touched.
LEMMA GentleBefore ==
  ASSUME CrawlInv, DatesInv, [Next]_vars, ~StartCrawl, Gentle'
  PROVE  Gentle
<1>1. Undisturbed
  BY UndisturbedBefore DEF Gentle
<1>2. touched \subseteq touched'
  <2>1. CASE UNCHANGED vars
    BY <2>1 DEF vars, site
  <2>2. CASE Boards
    BY <2>2 DEF Boards, DayPasses, PostNotice, Edit, Pin, Unpin, TakeDown, Touch
  <2>3. CASE Crawler
    BY <2>3 DEF Crawler, ListFails, ListEnds, ReadPage, EndPage, KnownItem, NewItem,
                NewItemFails, Save, Abandon, site
  <2> QED
    BY <2>1, <2>2, <2>3 DEF Next
<1>3. touched' \subseteq Url
  BY CrawlStep DEF CrawlInv, BoardsInv
<1>4. /\ IsFiniteSet(touched') /\ Cardinality(touched) \in Nat /\ Cardinality(touched') \in Nat
      /\ Cardinality(touched) <= Cardinality(touched')
  <2>1. IsFiniteSet(touched') /\ IsFiniteSet(touched)
    BY <1>2, <1>3, FS_Subset, CrawlAssumption
  <2> QED
    BY <2>1, <1>2, FS_Subset, FS_CardinalityType
<1> QED
  BY <1>1, <1>4, CrawlAssumption DEF Gentle

LEMMA EditsStep == CrawlInv /\ DatesInv /\ EditsInv /\ [Next]_vars => EditsInv'
<1> SUFFICES ASSUME CrawlInv, DatesInv, EditsInv, [Next]_vars PROVE EditsInv'
  OBVIOUS
<1>1. at' = "idle" => done' = {}
  <2>1. CASE UNCHANGED vars
    BY <2>1 DEF vars, crawl, EditsInv
  <2>2. CASE Boards
    BY <2>2 DEF Boards, DayPasses, PostNotice, Edit, Pin, Unpin, TakeDown, crawl, EditsInv
  <2>3. CASE Crawler
    <3>1. CASE Save \/ Abandon
      BY <3>1 DEF Save, Abandon, Finish
    <3>2. CASE ~(Save \/ Abandon)
      BY <2>3, <3>2 DEF Crawler, StartCrawl, ListFails, ListEnds, ReadPage, EndPage, KnownItem,
                        NewItem, NewItemFails, NextBoard, LeaveIf, Rest
    <3> QED
      BY <3>1, <3>2
  <2> QED
    BY <2>1, <2>2, <2>3 DEF Next
<1>2. ASSUME Gentle', at' # "idle" PROVE Updating'
  <2>1. faults' = faults /\ shifts' = shifts
    BY <1>2, UndisturbedBefore DEF Gentle
  <2>2. faults' # faults + 1
    BY <2>1, CrawlAssumption DEF CrawlInv, PlaceInv
  <2>3. CASE StartCrawl
    BY <2>3, StartCrawlUpdating
  <2>4. CASE ~StartCrawl
    <3>1. Gentle /\ at # "idle"
      <4>1. Gentle
        BY <2>4, <1>2, GentleBefore
      <4>2. at # "idle"
        <5>1. CASE UNCHANGED vars
          BY <5>1, <1>2 DEF vars, crawl
        <5>2. CASE Boards
          BY <5>2, <1>2 DEF Boards, DayPasses, PostNotice, Edit, Pin, Unpin, TakeDown, crawl
        <5>3. CASE Crawler
          BY <5>3, <2>4 DEF Crawler, ListFails, ListEnds, ReadPage, EndPage, KnownItem, NewItem,
                            NewItemFails, Save, Abandon
        <5> QED
          BY <5>1, <5>2, <5>3 DEF Next
      <4> QED
        BY <4>1, <4>2
    <3>2. Updating /\ Cardinality(touched) < PageLen
      BY <3>1 DEF EditsInv, Gentle
    <3>3. CASE UNCHANGED vars
      <4>1. UNCHANGED <<lists, pinned, day, crawl, today, touched, version>>
        BY <3>3 DEF vars, site
      <4>2. today \in Nat /\ touched \subseteq Url
        BY DEF CrawlInv, BoardsInv
      <4> QED
        BY <4>1, <4>2, <3>2, QuietUpdating
    <3>4. CASE Boards
      BY <3>1, <3>2, <3>4, <2>1, BoardsUpdating
    <3>5. CASE ListFails \/ Abandon \/ Save
      BY <2>2, <3>5, <1>2 DEF ListFails, Abandon, Save, Finish
    <3>6. CASE NewItemFails
      BY <3>2, <3>6, <2>1, NewItemRead
    <3>7. CASE Crawler
      BY <2>1, <2>4, <3>2, <3>5, <3>6, <3>7, ListEndsUpdating, ReadPageUpdating,
         EndPageUpdating, KnownItemUpdating, NewItemUpdating DEF Crawler
    <3> QED
      BY <3>3, <3>4, <3>7 DEF Next
  <2> QED
    BY <2>3, <2>4
<1> QED
  BY <1>1, <1>2 DEF EditsInv

LEMMA EditsHolds == Spec => [](CrawlInv /\ DatesInv /\ EditsInv)
<1>1. Init => CrawlInv /\ DatesInv /\ EditsInv
  BY CrawlInitially, DatesInitially, EditsInitially
<1>2. CrawlInv /\ DatesInv /\ EditsInv /\ [Next]_vars => (CrawlInv /\ DatesInv /\ EditsInv)'
  BY CrawlStep, DatesStep, EditsStep
<1> QED
  BY <1>1, <1>2, PTL DEF Spec

\* What was loaded of every board is up to date when it is saved, and what is new was
\* read in this crawl.
LEMMA SavedIsCurrent ==
  ASSUME CrawlInv, DatesInv, EditsInv, Save, Undisturbed, Cardinality(touched) < PageLen,
         NEW post \in ToSet(store'), Recheckable(post.url), Reread(post.url)
  PROVE  post.version = version[post.url]
<1> USE CrawlAssumption
<1> DEFINE u == post.url
           posts == old \o new
<1>0. BoardsInv /\ IsPostList(old) /\ IsPostList(new)
  BY DEF CrawlInv, HeldInv
<1>1. at = "save" /\ store' = Pruned(Merged(posts)) /\ board = NumBoards + 1
  BY DEF Save, DatesInv
<1>2. HeldCurrent
  BY <1>1 DEF EditsInv, Gentle, Updating
<1>3. IsPostList(posts) /\ Apart(posts)
  BY <1>0, ApartJoined DEF CrawlInv, HeldInv
<1>4. \A i \in DOMAIN posts :
        \/ i \in DOMAIN old /\ posts[i] = old[i]
        \/ i - Len(old) \in DOMAIN new /\ posts[i] = new[i - Len(old)]
  BY <1>0, JoinedIs DEF IsPostList
<1> HIDE DEF posts
<1>5. \A k \in DOMAIN store' : \E i \in DOMAIN posts :
        store'[k].url = posts[i].url /\ store'[k].version = posts[i].version
  BY <1>1, <1>3, SavedVersions
<1>6. PICK i \in DOMAIN posts : u = posts[i].url /\ post.version = posts[i].version
  BY <1>5 DEF ToSet
<1>7. Current(u)
  <2>1. u \in Posted /\ u \notin touched
    BY DEF Recheckable
  <2>2. PICK b \in 1..NumBoards : u \in On(b)
    BY <2>1 DEF Posted, On
  <2>3. b < board
    BY <1>1
  <2> QED
    BY <2>2, <2>3, <1>2 DEF HeldCurrent, LeftCurrent, Wanted
<1>8. CASE i \in DOMAIN old /\ posts[i] = old[i]
  BY <1>6, <1>7, <1>8 DEF Current
<1>9. CASE i - Len(old) \in DOMAIN new /\ posts[i] = new[i - Len(old)]
  <2>1. u \notin touched
    BY DEF Recheckable
  <2> QED
    BY <2>1, <1>2, <1>6, <1>9 DEF HeldCurrent, NewCurrent
<1> QED
  BY <1>4, <1>8, <1>9

\* "Recent notices and pinned ones are read again": while crawls are not disturbed and
\* less than a page of notices changes under one, what it saves of a notice that is
\* recent enough to recheck, or pinned, is what its author last wrote, unless it or an
\* unpinned notice above it on its board was merged (08_crawling_rules.md:75,
\* notice_update.py:56, board_crawler.py:508-630).
THEOREM EditsArrive == Spec => EditsReachStore
<1>1. ASSUME CrawlInv, DatesInv, EditsInv, [Next]_vars
      PROVE  [Save /\ Undisturbed /\ Cardinality(touched) < PageLen =>
                \A post \in ToSet(store') :
                  Recheckable(post.url) /\ Reread(post.url) =>
                    post.version = version[post.url]]_vars
  BY <1>1, SavedIsCurrent
<1> QED
  BY <1>1, EditsHolds, PTL DEF Spec, EditsReachStore
=============================================================================
