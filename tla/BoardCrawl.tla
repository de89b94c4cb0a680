----------------------------- MODULE BoardCrawl -----------------------------
(***************************************************************************)
(* One incremental crawl after the other: which list pages of which boards *)
(* are read, which details are fetched or fetched again, and how the       *)
(* result is merged into the stored list (app/crawler/main.py,             *)
(* services/board_crawler.py, services/dedup_service.py,                   *)
(* services/notice_update.py, policies/notice_policy.py).                  *)
(*                                                                         *)
(* A step is one request to a board, list page or detail, with everything  *)
(* the crawler does before the next one; between two steps the boards      *)
(* change.  The crawler is the production one: no page limit, no --since,  *)
(* no --research.  Locks, temp files and publishing are SnapshotPublish's. *)
(***************************************************************************)
EXTENDS Naturals, FiniteSets, Sequences, SequencesExt

CONSTANTS
  Url,           \* canonical detail URLs, one per notice on a board
  NumBoards,     \* NOTICE_BOARDS are 1..NumBoards, in this order
  BoardOf,       \* the board of a URL
  TitlesOf,      \* the normalized titles a notice may have over time
  PageLen,       \* items of a list page
  PinsRepeat,    \* boards that show their pinned notices on every page
  LastRepeats,   \* boards that show the last page again past the end
  RecheckDays,   \* CRAWLER_RECHECK_DAYS
  RecentDays,    \* CRAWLER_RECENT_NOTICE_DAYS
  MaxDay,        \* bound: days that pass
  MaxEdits,      \* bound: edits of notices
  MaxPins,       \* bound: times a notice is pinned
  MaxShifts,     \* bound: notices moved in a list or off it while a crawl runs
  MaxTouches,    \* bound: notices posted or edited during one crawl
  MaxFaults      \* bound: failed requests and crawls

ASSUME CrawlAssumption ==
  /\ IsFiniteSet(Url)
  /\ NumBoards \in Nat \ {0} /\ PageLen \in Nat \ {0}
  /\ BoardOf \in [Url -> 1..NumBoards]
  /\ \A u \in Url : TitlesOf[u] # {}
  /\ PinsRepeat \subseteq 1..NumBoards /\ LastRepeats \subseteq 1..NumBoards
  /\ RecheckDays \in Nat \ {0} /\ RecentDays \in Nat \ {0}
  /\ MaxDay \in Nat \ {0} /\ MaxEdits \in Nat /\ MaxPins \in Nat
  /\ MaxShifts \in Nat /\ MaxTouches \in Nat /\ MaxFaults \in Nat

VARIABLES
  today,
  lists,     \* lists[b]: the notices of board b, newest first
  pinned,    \* those a board pins (is_permanent_notice)
  title, version, day,  \* of each notice as its detail page shows it
  store,     \* the stored list
  at,        \* "idle", "list", "items" or "save"
  old, new,  \* existing_posts and all_new_posts of a running crawl
  since,     \* RecheckPolicy.today
  done,      \* RecheckPolicy.done_urls
  board, page,
  seen,      \* seen_for_board
  pages,     \* seen_page_signatures
  queue,     \* the rest of ordered_page_items
  stopAfter, \* stop_after_page
  touched,   \* notices posted or edited since the crawl began
  edits, pins, shifts, faults

site == <<today, lists, pinned, title, version, day, touched, edits, pins, shifts>>
crawl == <<at, old, new, since, done, board, page, seen, pages, queue, stopAfter>>
vars == <<site, store, crawl, faults>>

Posted == UNION {ToSet(lists[b]) : b \in 1..NumBoards}

(***************************************************************************)
(* Stored posts.  A notice merged by title lists its sources in meta, its  *)
(* own first; a notice that never was merged has none.                     *)
(***************************************************************************)

\* Faulty variant of Fetched: the notice is its own source from the start.
FetchedWithSource(u, permanent) ==
  [url |-> u, title |-> title[u], version |-> version[u], day |-> day[u],
   permanent |-> permanent, meta |-> {u}]

\* What parsing a detail page gives.
Fetched(u, permanent) ==
  [url |-> u, title |-> title[u], version |-> version[u], day |-> day[u],
   permanent |-> permanent, meta |-> {}]

\* _build_source_meta_entry
Entry(post) == [url |-> post.url, day |-> post.day, permanent |-> post.permanent]

UrlsOf(post) == {post.url} \cup {m.url : m \in post.meta}
Covered(posts) == UNION {UrlsOf(post) : post \in ToSet(posts)}

\* The elements of s at some of its places, in their order.
Picked(s, places) ==
  [k \in 1..Cardinality(places) |->
     s[CHOOSE i \in places : Cardinality({j \in places : j < i}) = k - 1]]

\* merge_posts_with_dedup, first by URL and then by title: of the posts that
\* are one, the earliest stays, and is permanent if any of them is.
MergedByUrl(posts) ==
  LET Same(i) == {j \in DOMAIN posts : posts[j].url = posts[i].url}
      merged == [i \in DOMAIN posts |->
                  [posts[i] EXCEPT !.permanent = \E j \in Same(i) : posts[j].permanent]]
  IN  Picked(merged, {i \in DOMAIN posts : \A j \in Same(i) : i <= j})

\* _merge_title_duplicate: of each duplicate its own entry is added, unless
\* the post lists its URL, and nothing else.
Absorbed(post, dups) ==
  LET sources == IF post.meta = {} THEN {Entry(post)} ELSE post.meta
      added == {Entry(dup) : dup \in {dup \in dups : \A m \in sources : m.url # dup.url}}
  IN  IF dups = {} THEN post
      ELSE [post EXCEPT !.meta = sources \cup added,
                        !.permanent = @ \/ \E dup \in dups : dup.permanent]

\* Faulty variant of MergedByTitle: titles are not compared.
MergedByTitleNever(posts) == posts

MergedByTitle(posts) ==
  LET Same(i) == {j \in DOMAIN posts : posts[j].title = posts[i].title}
      merged == [i \in DOMAIN posts |->
                  Absorbed(posts[i], {posts[j] : j \in Same(i) \ {i}})]
  IN  Picked(merged, {i \in DOMAIN posts : \A j \in Same(i) : i <= j})

Merged(posts) == MergedByTitle(MergedByUrl(posts))

Stale(d) == d + RecentDays <= today

\* should_prune_stale_notice: the sources decide when there are any.
Prunable(post) ==
  /\ IF post.meta = {} THEN ~post.permanent ELSE \A m \in post.meta : ~m.permanent
  /\ Stale(post.day) /\ \A m \in post.meta : Stale(m.day)

Pruned(posts) == Picked(posts, {i \in DOMAIN posts : ~Prunable(posts[i])})

Sources == [url : Url, day : 1..MaxDay, permanent : BOOLEAN]
Titles == UNION {TitlesOf[u] : u \in Url}
Posts == [url : Url, title : Titles, version : 0..MaxEdits, day : 1..MaxDay,
          permanent : BOOLEAN, meta : SUBSET Sources]

IsPostList(posts) ==
  posts \in Seq(Posts) /\ \A i \in DOMAIN posts : posts[i].title \in TitlesOf[posts[i].url]

TypeOK ==
  /\ today \in 1..MaxDay
  /\ lists \in [1..NumBoards -> Seq(Url)] /\ \A b \in 1..NumBoards : IsInjective(lists[b])
  /\ pinned \subseteq Posted
  /\ title \in [Url -> Titles] /\ \A u \in Url : title[u] \in TitlesOf[u]
  /\ version \in [Url -> 0..MaxEdits] /\ day \in [Url -> 0..MaxDay]
  /\ IsPostList(store) /\ IsPostList(old) /\ IsPostList(new)
  /\ at \in {"idle", "list", "items", "save"}
  /\ since \in 0..MaxDay /\ board \in 1..(NumBoards + 1) /\ page \in Nat \ {0}
  /\ done \subseteq Url /\ seen \subseteq Url /\ touched \subseteq Url
  /\ pages \subseteq Seq(Url) /\ queue \in Seq([url : Url, permanent : BOOLEAN])
  /\ stopAfter \in BOOLEAN
  /\ edits \in 0..MaxEdits /\ pins \in 0..MaxPins /\ shifts \in 0..MaxShifts
  /\ faults \in 0..MaxFaults

Idle ==
  /\ at = "idle" /\ old = <<>> /\ new = <<>> /\ since = 0 /\ done = {}
  /\ board = 1 /\ page = 1 /\ seen = {} /\ pages = {} /\ queue = <<>>
  /\ stopAfter = FALSE

Init ==
  /\ today = 1
  /\ lists = [b \in 1..NumBoards |-> <<>>]
  /\ pinned = {}
  /\ title = [u \in Url |-> CHOOSE t \in TitlesOf[u] : TRUE]
  /\ version = [u \in Url |-> 0] /\ day = [u \in Url |-> 0]
  /\ store = <<>>
  /\ Idle
  /\ touched = {} /\ edits = 0 /\ pins = 0 /\ shifts = 0 /\ faults = 0
------------------------------------------------------------------------------
(***************************************************************************)
(* The boards                                                              *)
(***************************************************************************)

Touch(u) ==
  \/ at = "idle" /\ UNCHANGED touched
  \/ /\ at # "idle" /\ Cardinality(touched \cup {u}) <= MaxTouches
     /\ touched' = touched \cup {u}

\* Taking a notice off its place in a list moves others up, and pinning one
\* moves it: a crawl on its way down may pass a notice without seeing it.
Shift == IF at = "idle" THEN UNCHANGED shifts
         ELSE shifts < MaxShifts /\ shifts' = shifts + 1

DayPasses ==
  /\ today < MaxDay
  /\ today' = today + 1
  /\ UNCHANGED <<lists, pinned, title, version, day, touched, edits, pins, shifts, store,
                 crawl, faults>>

PostNotice(u) ==
  /\ day[u] = 0
  /\ day' = [day EXCEPT ![u] = today]
  /\ \E t \in TitlesOf[u] : title' = [title EXCEPT ![u] = t]
  /\ lists' = [lists EXCEPT ![BoardOf[u]] = <<u>> \o @]
  /\ Touch(u)
  /\ UNCHANGED <<today, pinned, version, edits, pins, shifts, store, crawl, faults>>

Edit(u) ==
  /\ u \in Posted
  /\ edits < MaxEdits /\ edits' = edits + 1
  /\ version' = [version EXCEPT ![u] = @ + 1]
  /\ \E t \in TitlesOf[u] : title' = [title EXCEPT ![u] = t]
  /\ Touch(u)
  /\ UNCHANGED <<today, lists, pinned, day, pins, shifts, store, crawl, faults>>

Pin(u) ==
  /\ u \in Posted \ pinned /\ pins < MaxPins
  /\ pinned' = pinned \cup {u}
  /\ pins' = pins + 1
  /\ Shift
  /\ UNCHANGED <<today, lists, title, version, day, touched, edits, store, crawl, faults>>

Unpin(u) ==
  /\ u \in pinned
  /\ pinned' = pinned \ {u}
  /\ Shift
  /\ UNCHANGED <<today, lists, title, version, day, touched, edits, pins, store, crawl, faults>>

TakeDown(u) ==
  /\ u \in Posted
  /\ lists' = [lists EXCEPT ![BoardOf[u]] = Picked(@, {i \in DOMAIN @ : @[i] # u})]
  /\ pinned' = pinned \ {u}
  /\ Shift
  /\ UNCHANGED <<today, title, version, day, touched, edits, pins, store, crawl, faults>>
------------------------------------------------------------------------------
(***************************************************************************)
(* List pages                                                              *)
(***************************************************************************)

\* A board lists its pinned notices first, and both kinds as in lists[b].
Above(b, u, v) ==
  IF u \in pinned <=> v \in pinned
  THEN \E i, j \in DOMAIN lists[b] : i < j /\ lists[b][i] = u /\ lists[b][j] = v
  ELSE u \in pinned

\* Some notices of board b in that order.
Listed(b, urls) ==
  [k \in 1..Cardinality(urls) |->
     CHOOSE u \in urls : Cardinality({v \in urls : Above(b, v, u)}) = k - 1]

\* What page p of board b shows.
Shown(b, p) ==
  LET all == ToSet(lists[b])
      paged == IF b \in PinsRepeat THEN all \ pinned ELSE all
      PageOf(u) == Cardinality({v \in paged : Above(b, v, u)}) \div PageLen + 1
      last == {u \in paged : \A v \in paged : PageOf(v) <= PageOf(u)}
  IN  (IF b \in PinsRepeat THEN all \cap pinned ELSE {}) \cup
      (IF b \in LastRepeats /\ \A u \in paged : PageOf(u) < p
       THEN last ELSE {u \in paged : PageOf(u) = p})

\* Its items: url and is_permanent_notice of each.
Items(urls) == [i \in DOMAIN urls |-> [url |-> urls[i], permanent |-> urls[i] \in pinned]]

\* known_urls, and the entries of known_posts_by_url for u: of a merged post
\* it is the source_meta entry, for the post's own URL too.
Known == Covered(old) \cup Covered(new)
OwnPost(u) == {post \in ToSet(old) \cup ToSet(new) : post.url = u /\ post.meta = {}}

\* Faulty variant of ShouldRecheck: the last day of the window is left out.
ShouldRecheckStrict(u, posts) ==
  /\ u \notin done
  /\ \E post \in posts : post.permanent \/ post.day + RecheckDays > since

\* should_recheck: a source_meta entry has no content, so only posts that
\* were never merged are read again.
ShouldRecheck(u, posts) ==
  /\ u \notin done
  /\ \E post \in posts : post.permanent \/ post.day + RecheckDays >= since

\* load_existing_posts and the known-URL maps.
StartCrawl ==
  /\ at = "idle"
  /\ at' = "list"
  /\ old' = store
  /\ since' = today
  /\ seen' = Covered(store)
  /\ touched' = {}
  /\ UNCHANGED <<today, lists, pinned, title, version, day, edits, pins, shifts, store, new,
                 done, board, page, pages, queue, stopAfter, faults>>

NextBoard ==
  /\ at' = IF board = NumBoards THEN "save" ELSE "list"
  /\ board' = board + 1
  /\ page' = 1 /\ pages' = {} /\ queue' = <<>> /\ stopAfter' = FALSE

\* The list request fails: the board is left for this crawl.
ListFails ==
  /\ at = "list"
  /\ faults < MaxFaults /\ faults' = faults + 1
  /\ NextBoard
  /\ seen' = Known
  /\ UNCHANGED <<site, store, old, new, since, done>>

\* Faulty variant of EndOfList: a repeated page is read again.
EndIfEmpty(urls) == urls = <<>>

EndOfList(urls) == urls = <<>> \/ urls \in pages

\* The end of a board's list: an empty page, or one that was seen already.
ListEnds ==
  /\ at = "list"
  /\ EndOfList(Listed(board, Shown(board, page)))
  /\ NextBoard
  /\ seen' = Known
  /\ UNCHANGED <<site, store, old, new, since, done, faults>>

\* Faulty variant of ReadPage: one known notice on a page ends the board.
ReadPageStopsOnOneKnown ==
  LET shown == Shown(board, page)
      general == shown \ pinned
      stop == \E u \in general : u \in seen /\ ~ShouldRecheck(u, OwnPost(u))
  IN  /\ at = "list"
      /\ ~EndOfList(Listed(board, shown))
      /\ at' = "items"
      /\ pages' = pages \cup {Listed(board, shown)}
      /\ stopAfter' = stop
      /\ queue' = Items(Listed(board, shown \cap pinned)) \o
                  IF stop THEN <<>> ELSE Items(Listed(board, general))
      /\ UNCHANGED <<site, store, old, new, since, done, board, page, seen, faults>>

\* A page with items: the permanent ones come first, and the general ones
\* only if one of them is new or due for a recheck.
ReadPage ==
  LET shown == Shown(board, page)
      general == shown \ pinned
      stop == /\ general # {}
              /\ \A u \in general : u \in seen /\ ~ShouldRecheck(u, OwnPost(u))
  IN  /\ at = "list"
      /\ ~EndOfList(Listed(board, shown))
      /\ at' = "items"
      /\ pages' = pages \cup {Listed(board, shown)}
      /\ stopAfter' = stop
      /\ queue' = Items(Listed(board, shown \cap pinned)) \o
                  IF stop THEN <<>> ELSE Items(Listed(board, general))
      /\ UNCHANGED <<site, store, old, new, since, done, board, page, seen, faults>>

\* The page is worked off.  No list is longer than Url, so pages past the
\* cap would all look like the one at it.
EndPage ==
  /\ at = "items" /\ queue = <<>>
  /\ IF stopAfter
     THEN NextBoard /\ seen' = Known
     ELSE /\ at' = "list"
          /\ page' = IF page > Cardinality(Url) THEN page ELSE page + 1
          /\ UNCHANGED <<board, seen, pages, queue, stopAfter>>
  /\ UNCHANGED <<site, store, old, new, since, done, faults>>
------------------------------------------------------------------------------
(***************************************************************************)
(* Items                                                                   *)
(***************************************************************************)

\* The detail page of u cannot be had: taken down, or a request failed.
Unreadable(u) ==
  \/ u \notin Posted /\ UNCHANGED faults
  \/ faults < MaxFaults /\ faults' = faults + 1

Readable(u) == u \in Posted /\ UNCHANGED faults

Rest == queue' = Tail(queue) /\ UNCHANGED <<at, board, page, seen, pages, stopAfter>>

\* A general item from beyond RecentDays ends the board.
LeaveIf(stop) == IF stop THEN NextBoard /\ seen' = Known ELSE Rest

\* _sync_known_item_metadata on whichever entry known_posts_by_url has.
Synced(posts, item) ==
  [i \in DOMAIN posts |->
    IF posts[i].meta = {} /\ posts[i].url = item.url
    THEN [posts[i] EXCEPT !.permanent = item.permanent]
    ELSE [posts[i] EXCEPT !.meta =
           {IF m.url = item.url THEN [m EXCEPT !.permanent = item.permanent] ELSE m : m \in @}]]

\* apply_notice_update: what the author can edit, not what the crawl added.
Updated(posts, u) ==
  [i \in DOMAIN posts |->
    IF posts[i].meta = {} /\ posts[i].url = u
    THEN [posts[i] EXCEPT !.title = title[u], !.version = version[u], !.day = day[u]]
    ELSE posts[i]]

KnownDay(u) ==
  {post.day : post \in OwnPost(u)} \cup
  {m.day : m \in {m \in UNION {post.meta : post \in ToSet(old)} : m.url = u}}

\* An item this crawl or an earlier one has handled.
KnownItem ==
  LET item == Head(queue)
      synced == Synced(old, item)
      due == ShouldRecheck(item.url, {post \in ToSet(synced) \cup ToSet(new) :
                                        post.url = item.url /\ post.meta = {}})
  IN  /\ at = "items" /\ queue # <<>> /\ item.url \in seen
      /\ \/ /\ due /\ Readable(item.url)
            /\ old' = IF ~item.permanent /\ Stale(day[item.url]) THEN synced
                      ELSE Updated(synced, item.url)
         \/ due /\ Unreadable(item.url) /\ old' = synced
         \/ ~due /\ UNCHANGED faults /\ old' = synced
      /\ new' = Synced(new, item)
      /\ done' = IF due THEN done \cup {item.url} ELSE done
      /\ LeaveIf(~item.permanent /\ \E d \in KnownDay(item.url) : Stale(d))
      /\ UNCHANGED <<site, store, since>>

\* A new item whose detail page is read.
NewItem ==
  LET item == Head(queue)
      stop == ~item.permanent /\ Stale(day[item.url])
  IN  /\ at = "items" /\ queue # <<>> /\ item.url \notin seen
      /\ Readable(item.url)
      /\ IF stop
         THEN NextBoard /\ seen' = Known /\ UNCHANGED <<new, done>>
         ELSE /\ new' = Append(new, Fetched(item.url, item.permanent))
              /\ done' = done \cup {item.url}
              /\ queue' = Tail(queue)
              /\ seen' = seen \cup {item.url}
              /\ UNCHANGED <<at, board, page, pages, stopAfter>>
      /\ UNCHANGED <<site, store, old, since>>

\* Its detail page is not read: it stays unknown to the next crawl.
NewItemFails ==
  LET item == Head(queue)
  IN  /\ at = "items" /\ queue # <<>> /\ item.url \notin seen
      /\ Unreadable(item.url)
      /\ queue' = Tail(queue)
      /\ seen' = seen \cup {item.url}
      /\ UNCHANGED <<site, store, at, old, new, since, done, board, page, pages, stopAfter>>
------------------------------------------------------------------------------
Finish ==
  /\ at' = "idle" /\ old' = <<>> /\ new' = <<>> /\ since' = 0 /\ done' = {}
  /\ board' = 1 /\ page' = 1 /\ seen' = {} /\ pages' = {} /\ queue' = <<>>
  /\ stopAfter' = FALSE

\* Merge, prune and save.
Save ==
  /\ at = "save"
  /\ \E posts \in {Merged(old \o new)} : store' = Pruned(posts)
  /\ Finish
  /\ UNCHANGED <<site, faults>>

\* The crawl raises, or its result is not published.
Abandon ==
  /\ at # "idle"
  /\ faults < MaxFaults /\ faults' = faults + 1
  /\ Finish
  /\ UNCHANGED <<site, store>>

Crawler ==
  \/ StartCrawl \/ ListFails \/ ListEnds \/ ReadPage \/ EndPage
  \/ KnownItem \/ NewItem \/ NewItemFails \/ Save \/ Abandon

Boards ==
  \/ DayPasses
  \/ \E u \in Url : PostNotice(u) \/ Edit(u) \/ Pin(u) \/ Unpin(u) \/ TakeDown(u)

Next == Crawler \/ Boards

Spec == Init /\ [][Next]_vars

(***************************************************************************)
(* Fairness: every request returns, with an answer or a timeout, and the   *)
(* scheduler starts a crawl again after each interval.  A crawler always   *)
(* has a next step, so this is WF_vars(Crawler) without its ENABLED.       *)
(***************************************************************************)
FairSpec == Spec /\ []<><<Crawler>>_vars
------------------------------------------------------------------------------
(***************************************************************************)
(* Properties                                                              *)
(***************************************************************************)

\* However often cross-posted, re-titled and re-crawled, a notice is stored
\* once: no URL, as a post or as a source of one, and no title is in two
\* posts (main.py:143-157, dedup_service.py:145-204).
NoticesAreStoredOnce ==
  \A i, j \in DOMAIN store : i # j =>
    /\ UrlsOf(store[i]) \cap UrlsOf(store[j]) = {}
    /\ store[i].title # store[j].title

\* No crawl yet has been disturbed by a failed request or by a notice that
\* was taken down, pinned or unpinned between two requests.
Undisturbed == faults = 0 /\ shifts = 0

\* No page full of notices ever arrives under a crawl, and no edit changes a title.
\* A page of new notices may hide older ones from this crawl and from all later
\* ones; two posts that an edit gives one title are merged, and the sources of the
\* later one are lost.
Calm == MaxTouches < PageLen /\ \A u \in Url : \A s, t \in TitlesOf[u] : s = t

\* Stopping early loses nothing: in calm times and unless crawls are disturbed,
\* a crawl ends with every notice that is pinned or recent, except those that
\* changed under it (board_crawler.py:508-630).
CrawlIsComplete ==
  [][Save /\ Undisturbed /\ Calm =>
       \A u \in Posted \ touched :
         u \in pinned \/ ~Stale(day[u]) => u \in Covered(store')]_vars

\* Due for a recheck, and not from beyond RecentDays, where a board is left.
Recheckable(u) ==
  /\ u \in Posted \ touched
  /\ u \in pinned \/ (day[u] + RecheckDays >= today /\ ~Stale(day[u]))

\* The notices that were merged into one with others.
MergedFrom(posts) == {m.url : m \in UNION {post.meta : post \in ToSet(posts)}}

\* A merged notice is not read again, and a page of such notices ends its board.
Reread(u) == \A m \in MergedFrom(old) : m # u /\ (m \in pinned \/ ~Above(BoardOf[u], m, u))

\* "Recent notices and pinned ones are read again": an edit of one is in the
\* list after the next crawl, if crawls are undisturbed, less than a page of
\* notices changes under this one, and neither the notice nor one above it on its
\* board was merged (08_crawling_rules.md:75, notice_update.py:56).
EditsReachStore ==
  [][Save /\ Undisturbed /\ Cardinality(touched) < PageLen =>
       \A post \in ToSet(store') :
         Recheckable(post.url) /\ Reread(post.url) => post.version = version[post.url]]_vars

\* No board keeps the crawler paging for ever, whatever it shows past the
\* end of its list.
CrawlEnds == at # "idle" ~> at = "idle"
==============================================================================
