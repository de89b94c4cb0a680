--------------------------- MODULE NoticeIdentity ---------------------------
(***************************************************************************)
(* How the published list names notices over many crawls: a notice is met  *)
(* on whatever page of its board it has come to, read from whatever link   *)
(* the page gives, cross-posted, re-titled, pruned and met again, and its  *)
(* board's site moves.  Bookmarks and shared links hold the id, the label  *)
(* file holds the key.                                                     *)
(*                                                                         *)
(* Which notices a crawl reads is BoardCrawl's subject; here one notice is *)
(* met at a time.                                                          *)
(***************************************************************************)
EXTENDS NoticeAddress, Sequences, FiniteSets, SequencesExt

CONSTANTS Variety,     \* sets of notices <<board, number>>; a behaviour is about one of them
          Pages,       \* the pages of a list
          Titles,      \* what a title can be
          MaxRetitles  \* bound: titles edited

ASSUME IdentityAssumption ==
    /\ Variety \subseteq SUBSET (Boards \X Nat)
    /\ Pages \subseteq Nat
    /\ Titles # {}
    /\ MaxRetitles \in Nat

VARIABLES notices,
          title,  \* title[n], of notice n
          site,   \* site[b], where board b is now
          posts,  \* the published list, of [title, url, sources]
          named,  \* every [notice, site, url] that was met
          retitles

vars == <<notices, title, site, posts, named, retitles>>

Open == {n[1] : n \in notices}

Init ==
    /\ notices \in Variety
    /\ title \in [notices -> Titles]
    /\ site \in [Open -> {Site(b) : b \in Open} \cup OldSites]
    /\ \A b \in Open : site[b] \in {Site(b)} \cup FormerSites(b)
    /\ \A b, c \in Open : site[b] = site[c] /\ site[b] \in OldSites => b = c
    /\ posts = << >>
    /\ named = {}
    /\ retitles = 0

Addresses(post) == {post.url} \cup post.sources
Known == UNION {Addresses(posts[i]) : i \in DOMAIN posts}

Titled(list, t) == {i \in DOMAIN list : list[i].title = t}

\* Faulty variant of Merge: the post goes by the address that came last.
MergeToNewest(post, url) ==
    [post EXCEPT !.url = url, !.sources = @ \cup {post.url, url}]

\* _merge_title_duplicate: the first post keeps its address.
Merge(post, url) == [post EXCEPT !.sources = @ \cup {post.url, url}]

\* merge_posts_with_dedup, of a list and one more notice.
Merged(list, t, url) ==
    IF Titled(list, t) = {}
    THEN Append(list, [title |-> t, url |-> url, sources |-> {}])
    ELSE [i \in DOMAIN list |-> IF list[i].title = t THEN Merge(list[i], url) ELSE list[i]]

\* A crawl meets the notice in a list.
Meet(n, p) ==
    \E link \in Links(n[1], site[n[1]], n[2], p) :
        LET url == CanonicalUrl(link)
        IN  /\ named' = named \cup {[notice |-> n, site |-> site[n[1]], url |-> url]}
            /\ posts' = IF url \in Known THEN posts ELSE Merged(posts, title[n], url)
            /\ UNCHANGED <<notices, title, site, retitles>>

Retitle(n, t) ==
    /\ retitles < MaxRetitles
    /\ t # title[n]
    /\ retitles' = retitles + 1
    /\ title' = [title EXCEPT ![n] = t]
    /\ UNCHANGED <<notices, site, posts, named>>

\* A crawl reads a post of one notice again.  If another post has its new title, the
\* two are merged into the earlier one.
Reread(i, n) ==
    /\ posts[i].sources = {} /\ posts[i].title # title[n]
    /\ \E m \in named : m.notice = n /\ m.url = posts[i].url
    /\ LET retitled == [posts EXCEPT ![i].title = title[n]]
       IN  IF Titled(posts, title[n]) = {} THEN posts' = retitled
           ELSE \E j \in Titled(posts, title[n]) :
                  LET first == IF i < j THEN i ELSE j
                      last == IF i < j THEN j ELSE i
                  IN  posts' = RemoveAt([retitled EXCEPT ![first] = Merge(@, posts[last].url)],
                                        last)
    /\ UNCHANGED <<notices, title, site, named, retitles>>

\* prune_expired_notices drops a post.
Prune(i) ==
    /\ posts' = RemoveAt(posts, i)
    /\ UNCHANGED <<notices, title, site, named, retitles>>

\* A site moves, and the configuration follows.
Move(b, to) ==
    /\ site' = [site EXCEPT ![b] = to]
    /\ UNCHANGED <<notices, title, posts, named, retitles>>

Next ==
    \/ \E n \in notices, p \in Pages : Meet(n, p)
    \/ \E n \in notices, t \in Titles : Retitle(n, t)
    \/ \E i \in DOMAIN posts : Prune(i) \/ \E n \in notices : Reread(i, n)
    \/ \E b \in Open : \E to \in LaterSites(b, site[b]) : Move(b, to)

Spec == Init /\ [][Next]_vars

-----------------------------------------------------------------------------
(* Properties *)

\* "One id never points to another notice" (docs/AUTH_BOOKMARK_API.md:111): whatever
\* the canonical form leaves out, notices of one site and of two, at old and new
\* addresses, keep ids of their own (canonicalize_original_url, build_notice_id).
IdsNameOneNotice ==
    \A x, y \in named : NoticeId(x.url) = NoticeId(y.url) => x.notice = y.notice

\* While its site stays where it is a notice is met under one address, on every page
\* and from every link: known URLs are recognised, and the id outlives pruning and a
\* second crawl (canonicalize_original_url, parse_post_items).
NoticesHaveOneAddress ==
    \A x, y \in named :
        x.notice = y.notice /\ x.site = y.site => NoticeId(x.url) = NoticeId(y.url)

\* Neither cross-posts nor moved sites take an id away that is served: an id goes
\* when its post is pruned or merged into an earlier one of its new title
\* (docs/API_SPEC.md:221, _merge_title_duplicate).
Ids(list) == {NoticeId(list[i].url) : i \in DOMAIN list}
IdsStayWhileListed == [][Len(posts') >= Len(posts) => Ids(posts) \subseteq Ids(posts')]_vars

\* A label made at one address of a notice is found at every other of the same host,
\* http or https, and at no other notice (label_url_key).
LabelsFollowNotices ==
    \A x, y \in named :
        LabelKey(x.url) = LabelKey(y.url)
          <=> x.notice = y.notice /\ x.site.host = y.site.host
=============================================================================
