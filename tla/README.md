# KAU Notice Hub back end: verification project

TLA+ models of the notice crawler and its API server, checked with TLC on small
instances and, where it pays, proved with TLAPS for all of them. Every definition
is translated from the code under `src/`; `PROJECT.json` maps it to its lines.

## 1. The system

One container runs two uvicorn worker processes (Dockerfile). Each serves the
FastAPI application; one of them also runs the crawler. They share a data volume:

| File | Written by | Read by |
|---|---|---|
| `NOTICE_JSON_PATH`, the published list | publish pipeline, shell script | next crawl, ingest, labeling, JSON repository |
| `.{json}.tmp.*`, temp snapshots | the publish or script that owns one | its owner, the clean-up |
| `.crawler-scheduler.lock`, `.crawler.lock` | flock | workers |
| `NOTICE_DB_PATH`, notices in SQLite | ingest (rename), first connection (schema) | SQLite repository |
| `NOTICE_DB_PATH.lock` | flock | first request of a worker |
| user database (WAL) | login, bookmarks, withdrawal | the same |
| automatic and research label files | labeling run, research by hand | labeling run, ingest |
| chat log (WAL) | background writes of both workers | read back by hand |

### Components

| Component | State | Operations | What is hard | What makes it correct |
|---|---|---|---|---|
| Scheduler and publish pipeline (`crawler_scheduler.py`, `main.py`, `run_incremental_crawl_publish.sh`) | two flocks, temp snapshots, list, database | take the locks, sweep, copy, crawl, validate, rename, label, ingest, clean up | workers killed or drained in the middle, a crawl longer than the sweep age, a script without locks | one publish at a time; no live temp file is swept; readers never see a torn or truncated list; orphans go; the database catches up |
| Ingest (`ingest.py`) | temp database | read list, build, rename | crash before the rename, two ingests | the database is always one published list as a whole |
| Notice serving (`dependencies.py`, `db.py`, `sqlite_repository.py`, `repository.py`) | repository per worker, schema flag, JSON cache, boot lock | choose repository, bootstrap, connect, query, stat, read | first requests racing, files replaced under readers, old schemas | every answer is a published list, never older than what the database had; coherent cache; everyone is answered |
| Accounts and bookmarks (`user_store.py`, `api/auth.py`, `api/bookmarks.py`, `auth.py`) | users, bookmarks, issued tokens | login, me, add, remove, list, withdraw | endpoints of several store calls on two workers | limit, uniqueness, no orphans, old tokens stay refused |
| Incremental crawl (`crawler/main.py`, `board_crawler.py`, `dedup_service.py`, `notice_update.py`, `notice_policy.py`) | list, known URLs, per-board progress | read list page, fetch detail, recheck, merge, prune | stopping early while the boards change, failed requests, merged notices | nothing recent is missed, edits arrive, nothing is stored twice, crawls end |
| Addresses and ids (`url_normalizer.py`, `config.py`, the parsers, `normalize.py`) | the list's URLs | canonicalize, merge, move | one notice has many links, sites move, boards number alike | an id names one notice and stays with it |
| Enrichment (`content_enrichment_service.py` and its downloader, extractors, provider) | merged posts, call budget | read assets, generate, keep or retry | failures use up the budget, errors nobody catches, texts of earlier crawls | budget kept, the board's text kept, nothing paid for twice |
| Labeling (`notice_auto_label.py`, `notice_labels.py`) | label files, call budget | decide by rule or model, append, serve | crash before the append, shared keys, failing calls, split rows | one label for a key, no served label is taken back, nobody is starved |
| Search (`sqlite_repository.py`, `search.py`, `service*.py`, `classification.py`) | facet rows, candidate limit | filter, match, rank, page, facets; evidence for the chat | clamping, two backends, stored and computed facets | pages hold each match once, offers find something, backends agree |
| Chat (`chat_service.py`, `api/chat.py`) | the turn, the stream's thread and queue | triage, search, rerank, generate, stream | readers that leave, replies of any shape, a thread feeding an event loop | answers cite what the model chose, streams are whole, turns end |
| Chat log (`chat_log.py`) | table, initialized paths, background jobs | create, migrate, insert | two workers migrate at once, rows written in the background | the question's row comes first, inserts fit the table, answers are logged |
| Rate limit, Kakao client, settings, converters, scripts | none or per process | | | see section 7 |

The publish pipeline runs the incremental crawl in its crawl step, the enrichment
in the crawl, the labeling run and the ingest after its rename; serving and search
read what they leave; the chat searches; bookmarks look a notice up in whatever is
served.

## 2. Modules

| Module | Models |
|---|---|
| `Snapshots` | contents of a notice file (absent, torn, a set of notices) and the publish validation |
| `NoticeStore` | what the pipeline promises: two atomic registers, the list and the database |
| `SnapshotPublish` | scheduler, publish steps, script, crashes, file ageing; implements `NoticeStore` |
| `NoticeServing` | requests on two workers over the two files, with the publish pipeline reduced to what readers see |
| `UserAccounts` | accounts and bookmarks |
| `BoardCrawl` | the incremental crawl over changing boards |
| `NoticeAddress` | boards, the links they show, `canonicalize_original_url`, ids and label keys |
| `NoticeIdentity` | a list of notices met, merged, re-titled, pruned and moved; uses `NoticeAddress` |
| `ContentEnrichment` | the enrichment pass of a crawl |
| `LabelRules`, `AutoLabels` | the rules that decide a label; a labeling run and its file |
| `NoticeWork` | crawl, enrichment, labeling and ingest one after the other, with crashes; composes the two passes |
| `NoticeQueries` | what a list answers to a query: both backends, facets, ranking, paging |
| `NoticeSearch` | readers turning pages, narrowing and chatting over lists that change |
| `ChatAnswer` | what the chat makes of a model's replies |
| `ChatLog` | the log table and its background writes |
| `ChatSession` | the turns of a session on both endpoints; composes `ChatAnswer` and `ChatLog` |
| `*Proofs` | theorems about the module they are named after |
| `MC*` | constants and symmetry sets for TLC |

**SnapshotPublish.** `pc[p]` is the place in `publish_crawler_snapshot` (or in the
script, which has only `load` to `discard`): `sweep` and `prepare` before the try
block, `load` and `crawl` inside the crawl, `validate`, `replace`, `label`,
`ingest` and `swap` (before and after the ingest has read the list), `discard` for
the finally clause and the EXIT trap. `lock` and `sched` are the two flocks;
`draining` holds workers whose lifespan has ended while `to_thread` still runs.
`temp`, `aged` and `mine` are the temp snapshots, those past six hours, and who
owns which. A file is a set of notices because all the pipeline compares is how
many there are and which ones age out; the crawl finds an arbitrary set.

**NoticeServing.** Lists are numbered in publish order, so a stale answer is a
smaller number. `seen[r]` is what a request holds across two steps: the list an
ingest has read, an open connection (which keeps its inode when the path is
renamed over), or a stat. `degraded` remembers the workers that took an older
version's database because there was no list to rebuild it from. `own` marks requests whose repository lost the race
inside `lru_cache` and is not the one the worker keeps. `pub` is the pipeline: the
list changes first, the database some time later or, after a failure, not at all.

**UserAccounts.** Each slot is a request; a step is one store call (one
transaction, or one autocommit statement) or one look at the notices. `Insert` is
the `BEGIN IMMEDIATE` transaction with limit and foreign key; `Count` and `Rows`
are the two statements of a page. A drawn id is always new: 64 random bits. `stale`
remembers the requests whose token was issued to an account that is gone before they
were authenticated, those included that were under way when it went (`Pending`).

**BoardCrawl.** A step is one request to a board with everything the crawler does
before the next one. A stored post keeps its URL, title, version (content), day,
permanent flag and sources; `Synced`, `Updated`, `Merged` and `Pruned` are the
metadata sync, `apply_notice_update`, `merge_posts_with_dedup` and
`prune_stale_posts`. Merging is written as a choice of places (`Picked`): of the posts
with one URL or title the earliest stays, in the order of the list. A board shows its pinned notices first, on every page if it
is in `PinsRepeat`, and repeats its last page past the end if in `LastRepeats`.

**NoticeAddress, NoticeIdentity.** A URL is its scheme, host, path and the
parameters that decide anything; `Rules` lists the branches of
`canonicalize_original_url` in order, each with the hosts, paths and parameters it
needs and those it keeps. `Boards` are the configured boards with their present
sites, `Links` what a list page gives for a notice, `FormerSites` and
`LaterSites` the hosts and schemes of a board over time. `NoticeIdentity!Meet` is a
crawl that meets a notice on some page: an unknown URL becomes a post or, by its
title, a source of one. `Reread`, `Retitle`, `Prune` and `Move` are the other ways
in which a list or a site changes. `named` remembers what was ever met.

**NoticeWork.** `phase` is where the publish is. `Crawl` merges the boards' notices
into `work`; the steps of `ContentEnrichment` then go through the posts (`pos`,
`asset`), one model call at a time, `calls` counting what the budget counts and
`requests` what is sent. A post keeps the version of its text, whether its content
was generated (`made`), whether that is all of it (`thin`), and the board's text under
`content_original` (`original`). `Publish` replaces the list. The steps of `AutoLabels` go
through the list once more; `known` is what the run has read of the two label files,
`newRows` what it has decided and `AppendRows` the append at its end, which may fail,
be cut off, or put a row in two lines that nobody can read. `Ingest` writes the labels
the database serves. Both read the label files, and a file that cannot be read counts
as empty (`BeginLabeling(read)`, `Ingest(read)`); `unread` remembers a run that could
not read the automatic labels. A crash loses everything but list, label file and
database.

**NoticeQueries, NoticeSearch.** A notice has the names of its boards, of which
`AudienceOf` and `GroupsOf` make its audience and groups as the classification does,
and for each word the fields that the word hits. The two backends are written apart, as
they are in the code. `RowsOf` is what the ingest makes of a list; over these rows go
`Scope`, `Selected`, `QueryGroups` and `QuerySources`, which are the SQL clauses and
queries, `Bundle` and `LiveFacets`, `BuildFacets` and `FromCache` (the facets computed,
stored and read back), and `SqlAnswer`. Over the list itself go `OfAudience`, `OfGroup`,
`ListFacets`, `Filtered` and `JsonAnswer`, which are `legacy_search`. Both use the
classification, `CleanCategories`, the scores and the paging, as the code does. A request is one step: it opens one connection on
a file that is replaced as a whole. `view` is a reader, `hunt` the chat's search.

**ChatSession, ChatLog.** `turn[t].pc` is the place of a turn in its handler; the
plain endpoint collects its log rows in `tasks`, which run after the response, the
streaming one writes the question's row before and the answer's row after its
events. `stream[t]` is the thread of `_aiter_threaded` with its queue. In `ChatLog`
a row is a job of its own thread: it waits for its worker's `_init_lock`, creates,
inspects and migrates the table and inserts.

Operators commented "Faulty variant of" are mutations: replacing the definition by
its variant makes the property they are listed with fail, which shows that the
property depends on that code.

## 3. Runs

| Run | Shows |
|---|---|
| `MCPublishSafety` | two workers, the script, 2 disruptions: publishes exclude each other, live temp files are kept, the list readers find is always valid |
| `MCPublishLive` | two workers, 2 disruptions: refinement of `NoticeStore`, orphans are swept, the database catches up |
| `MCNoticeServing` | five kinds of data volume: answers are published lists and not stale, old rows are rebuilt if there is a list, the cache is coherent, everyone is answered |
| `MCUserAccounts` | limit, ownership, uniqueness; tokens of withdrawn accounts are refused, their owner's return included |
| `MCCrawlComplete` | stopping early misses no recent or pinned notice; every crawl ends |
| `MCCrawlEdits` | nothing is stored twice under failures, takedowns and re-titling; edits of recent notices arrive, unless a merged one is in the way |
| `MCNoticeIdentity` | ids name one notice, a notice keeps its id and its label, no crawl takes a served id away |
| `MCNoticeWork` | over many publishes with too small budgets, failures and crashes: texts are kept and paid for once, calls are bounded, a key has one label, nobody is starved, served labels stay unless a label file cannot be read |
| `MCNoticeCrawlFails` (violation) | an asset whose extraction raises an unforeseen error fails the whole crawl |
| `MCNoticeSearch` | all pages of a query hold each match of its filters and words once, an offered filter finds something, rows and list select alike and give the same facets, the chat's evidence suits its user |
| `MCChatSafety` | rows of a turn in order, citations follow the model's choice, streams are whole, inserts fit the table |
| `MCChatLive` | every turn ends, a whole answer is logged |

The violation run is a disagreement between the code and a sentence of its
documents, quoted in `PROJECT.json` under `findings`.

### Observations

Found while modelling, without a run of their own. Publish and serving:

- The script takes no lock and can drop notices that a scheduler publish adds
  meanwhile (`run_incremental_crawl_publish.sh:140`; `docs/CRAWLING_UPDATE.md:64` asks
  for the whole list at all times, and `docs/DEPLOYMENT.md:249` says that publishes
  exclude each other). `StoreSpec` is
  false with a script, so its run and its theorem have none.
- The bootstrap ingest and the publish ingest take different locks
  (`dependencies.py:45`, `crawler_scheduler.py:79`) although
  `docs/DEPLOYMENT.md:249` says that ingests do not overlap. A bootstrap can
  rename an older list over a newer one; `overtaken` marks this in
  `NoticeServing`, and `ReadsAreFresh` excepts it.
- The documented `rm` of the database (`docs/DEPLOYMENT.md:76`) is not picked up by
  running workers: the cached repository opens a blank file (`sqlite_repository.py:70`)
  and answers 500 until the next ingest. The deletion is no step of the system.
- With an outdated database and no list, a worker takes the database and its first
  connection stamps the current version on old rows (`db.py:157`). Workers that start
  later take them for current although a list has come, where `db.py:6` says that a
  mismatch is rebuilt; until the next ingest old rows are served, or an empty list.
  `dependencies.py:33` only warns that such a database may misbehave. The run starts in
  this state as well: `OutdatedRowsAreRebuilt` speaks of the time before a worker takes
  such a database (`degraded`), and `AnswersArePublished` then allows what it holds.
- After a failed ingest nothing "falls back to JSON", as the log line at
  `crawler_scheduler.py:128` says: workers keep the old database.
- A removal between the count and the rows of a bookmark page can leave an
  out-of-range page empty, where `user_store.py:289` promises the last page.

Crawl and addresses:

- A notice that was merged is never read again (`crawler/main.py:155`;
  `08_crawling_rules.md:75` promises it), and merging a merged notice drops its other
  sources (`dedup_service.py:127`; `08_crawling_rules.md:113`). A page on which
  nothing is to be read ends its board, so a page of merged notices also hides the
  recheckable ones below it. `EditsReachStore` speaks of notices that were not merged
  and do not lie below a merged one that is not pinned (`Reread`).
- A page of notices this crawl has done already, as a burst of arrivals pushes them
  down, ends a board, and so does a notice from beyond `RecentDays`: with a recheck
  window as long as that, notices it still covers are not read. `EditsReachStore`
  leaves these cases out: it speaks of crawls under which less than a page of notices
  changes, and of notices that are not stale (`Recheckable`).
- After a failed list page, a takedown under the crawl, or a burst of a whole page,
  notices below are passed and later lie under known ones, so they are missed for
  good; so is a notice pinned while a crawl is below the top of its board and
  unpinned before the next. An edit that gives two merged posts one title makes one
  of them lose its sources, and a page of the others then hides them.
  `CrawlIsComplete` leaves these cases out (`Undisturbed`, `Calm`).
- After a site has moved, a notice at its new URL is merged by title into the post
  that has the old one: id and URL stay, the link is dead, where
  `docs/AUTH_BOOKMARK_API.md:117` expects a new id. An id also goes when a post gets
  the title of an earlier one and merges into it.

Enrichment and labels:

- A line separator (U+2028, U+0085) in a model's reason splits the label's row in
  two: the key stays unknown and is paid for at every run.
- The provider's request with the fallback model is not counted
  (`CallsAreBounded` allows two requests for a call). A text of images and links only
  is generated again at every crawl, and a notice that needs more calls than the
  budget is begun again by every crawl.
- A label made from a thin text is not made again when the text has come. Notices
  that always fail at the head of the list use up the labeling budget of every run;
  `NoticesAreNotStarved` says what a run does with what is left of it.
- A label file that cannot be read counts as empty (`notice_labels.py:96`). An ingest
  that meets one serves a database without its labels until the next ingest
  (`ingest.py:236`), so what was hidden from a user is shown. A run that meets one labels
  its keys again, pays again, and its append repeats keys; the older row goes on to
  count. `ServedLabelsStay` and `OneLabelPerKey` except these two cases and no other.
- The first notice of the list decides for its label key. A later one with the key, say
  a cross-post on a board that a rule knows, is passed over with it when it was put off
  or its call failed (`notice_auto_label.py:452`), although a rule could label it for
  nothing. `NoticesAreNotStarved` therefore speaks of the first notice of a key.

Search and chat:

- `total` can exceed what the pages hold: with words that are patterns to LIKE,
  synonyms in capitals, or more candidates than are scored. `WalksAreComplete` claims
  equality in the other cases. With more candidates than are scored (`AllScored`) a
  reader misses matches, but only ones that are later in the database's order.
- The JSON backend ignores `target`, wants two words of a query and knows no synonyms
  (`docs/API_SPEC.md:373` describes one search). A date that does not exist in the
  calendar makes `recency_boost` raise, so the search answers 500 (`Raises`).
- Facets do not depend on target, category and department, so two filters together
  may find nothing; `OffersFindSomething` narrows once.
- `{"keywords": 5}` as a triage reply raises a TypeError that nobody catches
  (`chat_service.py:566`, against its docstring at 547), and on the plain endpoint the
  question's row is lost with the response (`TriageRaises`), which the comment at
  `api/chat.py:83` says it is not.
- Two workers that migrate an old log at once lose at most one row each: the second
  ALTER raises and `record_*` swallows it.

### Bounds

- Publish: two workers is the deployment. Two disruptions allow a shutdown and a
  crash of the successor, or either with a failure. Three temp names suffice: a
  publish waits for a free one, and two orphans beside a live file are possible.
  Two notices distinguish "kept" and "lost", with a minimum of one record and a
  ratio of one half; in `MCPublishSafety` one of them ages out. `SlowSteps` are
  the steps in which a worker may sit for six hours. In `MCPublishLive` nothing
  ages out: a list all of whose notices are gone from the boards could never be
  replaced, since an empty list is not publishable, and nothing would catch up.
- Serving: two workers and two requests give every race inside one worker and
  between two; two lists give an old and a new one. The run starts from a current
  database, a JSON list alone, a database of an older schema with and without a list,
  and an empty volume.
- Accounts: two requests, two people and three ids let a person come back after
  a withdrawal; two notices and a limit of one make adds compete.
- Crawl, `MCCrawlComplete`: pages of two and up to three notices on one board, which
  shows its pins on every page and its last page again past the end, give a second page
  that an early stop could hide; a second board has no notices. Four days with a
  recheck window of one and a life of three give notices that are new, rechecked, known
  but not rechecked, and stale. One notice may be pinned, and one touched during a crawl.
- Crawl, `MCCrawlEdits`: pages of two and three notices on one board, over two days with
  a recheck window of one and a life of two, one edit (of the title as well), one
  shift, one touch per crawl and one failure.
- `MaxTouches` bounds what is posted or edited during one crawl, `MaxShifts` what
  is moved in or taken off a list, `MaxEdits` all edits. Completeness needs the first
  below `PageLen`, the second zero and titles that stay (see the observations).
- Identity: the properties compare two notices, so each behaviour has two: two of
  one board, for every configured board, and one number on two boards, for a board or
  two of every kind. Two titles, one of which is edited once, make posts merge.
- Work: one notice with an image; one with two assets and an edit; one that a rule
  knows and that shares its label key with the first; and one that a rule knows, at the
  end of the list. Two enrichment calls do not finish the second notice, and two
  labeling calls are used up before the last one, so budgets end in the middle of a
  notice and of a run, and a call may fail while there is budget left. One fault: a
  crash, a lost or broken append, an asset that raises, or a label file that cannot be
  read; the theorems hold for any number of them.
- Search: six notices of four boards, one merged of two audiences, one with a date
  that does not exist, one without a date; four are scored. A page of two gives up to
  three pages, and page numbers 0 and 3 are before the first and past the last.
- Chat: two turns on two workers let the rows of turns interleave and workers
  migrate side by side; three candidates of which two may be cited make a rerank
  necessary; two deltas tell a cut stream from an empty one; a crash and a failed
  write each.

### Fairness

All of it is weak fairness. Publish: uvicorn's supervisor restarts workers, the
scheduler wakes after each interval, a running thread finishes, time passes; nothing
is assumed of the script or of failures, and failures are bounded. Serving: a thread
that serves a request goes on; a flock waiter competes with finitely many others.
Crawl: each request returns, with an answer or a timeout (the crawler takes steps
again and again, `[]<><<Crawler>>_vars`). Chat: handlers and log
threads go on, and the model's stream produces or ends, as its timeout and token
limit force it to; no client is obliged to ask, to stay or to leave.

## 4. Theorems

All proofs go to the last leaf and hold for every value of the constants under
the named assumptions of the modules (`RatioAssumption`, `ProcessAssumption`,
`ServingAssumption`, `AccountAssumption`, `CrawlAssumption`, `IdentityAssumption`,
`EnrichmentAssumption`, `LabelsAssumption`, `WorkAssumption`, `QueriesAssumption`,
`SearchAssumption`, `LogAssumption`). Each invariant was checked by TLC before it was
proved. What the assumptions ask of a constant is what the code gives it: finitely many
notices and words, queries with the fields of the request's model, `Hits` and `Latest` that are
lists of notices, posts numbered in the order in which they arrive.

**SnapshotPublish.**
- `PublishMutualExclusion`. A worker in a publish step holds the lock, the lock has
  one holder, and both change only together: inductive as a conjunct of its own.
- `PublishedListValid`. Needs that a process about to rename has a temp file that
  is either gone or was validated: nobody else writes a file in `mine`, and a
  sweep only deletes it. So the invariant ties `pc`, `mine` and `temp`.
- `LiveTempSafe`. A sweep runs only under the lock, where by mutual exclusion no
  other worker owns a temp file, and the sweeper has none yet.
- `PipelineImplementsStore`, with `Script = {}`: initial states map to initial
  states and every step to a `NoticeStore` step or a stutter. A validated file
  holds every retained notice of the current list because, under the lock, the
  list cannot have changed since the copy was taken; the invariant of the
  refinement records this for each step from `load` to `replace`.

**NoticeServing.**
- `CacheCoherent`. A cached list is between its mtime and the file's list, since the
  stat comes before the read and lists only get newer; a cached mtime that is the
  file's closes the interval.
- `Published`, `Rebuilt`. `ServingInv`: until a worker has taken an outdated database,
  one of this version has rows of this version and a list that was published (`DbInv`);
  whoever has chosen SQLite saw such a database, and it stays one (`Grows`), because
  only a bootstrap under a mismatch unlinks it; what a request holds between two steps is a published list
  (`RequestInv`).
- `Fresh`. Unless a bootstrap overtakes, the list of a matching database grows; so
  what was in it when a request arrived is still there or in the connection the request
  has opened (`FreshRows`).
- None of them assumes anything about the volume the workers start on: what a worker
  does that takes an outdated database for want of a list is part of `ServingInv`, by
  `degraded`.

**UserAccounts.** `AccountsUnique`, `BookmarkLimitKept`, `NoOrphanBookmarks`: live ids
are issued ids, so a new id is fresh. `OldTokensRefused` needs `StaleInv`: a request in
`stale` has an issued id that no account has, now or after any login, and it has not got
past the look at its account.

**BoardCrawl.** `CrawlInv` has four parts: a board lists a notice once and only
notices of its own (`BoardsInv`); the stored posts have URLs and titles apart
(`StoreInv`); what a running crawl holds has its URLs apart, and it has seen all it
holds (`HeldInv`), so that a new item is new; the place in the loop is one of a board,
a page and its items (`PlaceInv`). `CrawlTyping` and `StoredOnce` follow. `StoredOnce`
rests on `MergedByUrlIs` and `MergedByTitleIs`: the posts that `Picked` leaves are those
of the chosen places in their order, and what a post absorbs is of its own title.

`CrawlLosesNothing` speaks of all pages a crawl did not read, so it needs to know why
what is there is stored already. `DatesInv`: on every board a newer post has no earlier
day, and a day that was read is the notice's. `CompleteInv` says, in calm times and until
a crawl is disturbed, where a lasting notice is (one that is pinned or not stale):
- What the store lacks of a board is newer than all the store has of it, or stale
  (`StoreClosed`); so a known plain post at the end of a page means that nothing
  below is missing.
- Of a board the crawl has left, such a notice is held, or changed during the crawl and
  is now above all that is known of the board (`Missed`); the next crawl finds it there.
- On the board at hand everything of the pages read is held or waits in the page's
  items (`ReachedComplete`, `WaitingClosed`). A post moves between two page reads by no
  more places than notices were touched, fewer than a page has in calm times, so
  none slips past (`PagesRead`).
- A plain post that a merge drops is kept as a source, and none that the next stop
  relies on goes (`LaterPlain`).

Each part needs the others: saving keeps `StoreClosed` because of `ReachedComplete`,
and the early stops keep that because of `StoreClosed`. TLC checked the invariant on
the instance of `MCCrawlComplete` before it was proved.

`EditsArrive` goes over the same pages with another question: not whether a notice is
held, but whether what is held of it is its author's last version (`Current`). It
speaks of the notices that are due for a recheck and that no merged one hides
(`Wanted`). `EditsInv` says, while the crawl is undisturbed and less than a page of
notices has changed under it (`Gentle`):
- On the boards the crawl has left, everything wanted is current (`LeftCurrent`), and a
  new post is as it was read unless it changed since (`NewCurrent`).
- On the board at hand everything of the pages read is current or waits in the page's
  items (`BoardReread`). Again no notice slips past between two page reads.
- A page that ends its board has only merged notices and ones older than the recheck
  window; by `DatesInv` nothing below it is wanted. A stale item that ends a board has
  nothing recheckable below it.
- Merging and pruning choose among posts and change no version (`SavedVersions`): what
  is saved is current because what was loaded and read is.

The hypothesis is about the list the crawl loaded. With the merged notices of the saved
list in its place the property is false: a merged recent notice ends its board, then
the save absorbs its post by title into an earlier one, its sources are lost, and that
post is pruned as stale; the saved list no longer shows the merge that kept an edit
below it from being read. The proofs share what they know of pages and stops
(`TopOfBoard`, `PageIs`, `ListEndIs`, `BelowStale`, `NextPageIs`). TLC checked
`EditsInv` on the instance of `MCCrawlEdits` and on two others, with pins, two boards
and boards that repeat their pages, before it was proved.

**NoticeAddress.** `CanonicalIdempotent`: a rule keeps the parameters it needs, so the
canonical URL fits the same rule first. `CanonicalLink`: every link of every configured
board has the canonical URL of its notice. `AddressesDiffer`: two notices never share
one. Board by board, from the table of rules.

**NoticeIdentity.** `Names`: every URL that was met is the canonical one of its notice
at a site its board has had. From it and the two theorems above follow `IdsName`,
`OneAddress` and `LabelsFollow`. `IdsStay`: the posts are a sequence of posts with
a URL, and merging keeps the URL of the post that stays.

**NoticeWork.** One inductive invariant, `WorkInv`. `TextKept` and `CallsBounded` are
conjuncts of it. `PaidKept` needs `WorkKept`: the merged posts of a running crawl hold
every listed post and its full generated text unless its notice was edited. `OneLabel`
needs `RowsFresh`: a run's new rows are of notices it is past, one for a key, and as long
as every run has read the file (`unread`), of keys that no readable row has. `LabelsStay`
needs `ServedFrom`, a served label is still the one of its key in a label file, and
`FirstLines`: the file only grows at its end, so the first line of a key stays the first
even when a run that could not read the file appends another.
`NoneStarved` needs two more invariants. `NoGaps`: a notice is listed only if all earlier
ones are, so a key met before in the numbers was met before in the list, and a run
whose next notice is not listed has passed all. `RunInv`: the keys that a run
has passed without a row are of first notices no rule knows and, while there is a key and
budget, no more than the calls without an answer; a step that adds a key also adds
such a call.

**NoticeSearch.** First what each path of `NoticeQueries` computes is reduced to one
statement about the notices of the list: `RowsAre`, `ScopeIs`, `QueryGroupsIs`,
`QuerySourcesIs`, `BundleIs`, `LiveFacetsIs` and `SelectedIs` for the rows,
`ListScopeIs`, `ListFacetsIs` and `FilteredIs` for the list. `BackendsAgree` compares the
two, with `CacheServes`: what is stored under a key is what would be computed for it.
`ServerInv`: rows and stored facets are those of the list; `ViewInv`: the pages a reader
has are pages of one ordered list, and the query it narrowed to has a match; `HuntInv`:
the chat's items come from a search with its own filters. `PagesShowEverythingOnce`
rests on lemmas about orders and pages (a ranking is a strict order, the places of a
finite set in it are 1 to its cardinality, `PageOf` cuts them without gap or overlap)
and on `FoundAreMatching`: what a path finds is what the filters and the words ask for,
as `Matching` says it once for both, when all candidates are scored, and otherwise the
matches among the newest candidates (`NewestAreLiked`). `OfferedFiltersFind` goes through
every kind of offer: a value is offered for some notice in scope, and that notice,
merged or not, passes the filter the value becomes. `EvidenceIsForTheUser` follows from
`HuntInv`.

**ChatSession.** `SessionInv` has four parts. `InsertsFit` needs only the log: a job
that migrates has seen columns that stay (`TableInv`). `RowsInOrder` needs, for each
place of a turn, which of its two rows have been handed to a thread (`Ordered`), so
that the answer's row is not before the question's thread is done, and that a crash
drops no job that was never submitted. `AnswersWhole` needs that what was received and
what is queued is together what was produced, with the marker last (`Flowing`). The
actions of a turn leave other turns alone (`OneTurn`), and steps of the log keep what
turns rely on (`JobsKept`). `CitationsFollow` needs `CiteInv`: a
turn has no candidates before its search and no references before its rerank, and when
it generates, its references are those of its candidates that the reply chose.

Model-checked only: the liveness properties `OrphansAreSwept`, `DatabaseCatchesUp`,
`RequestsAreAnswered`, `CrawlEnds`, `TurnsEnd` and `AnswersAreLogged`, which need fairness
and ENABLED, out of the prover's reach. Every safety invariant and every action
property that a run checks, and the refinement `StoreSpec`, is a theorem.

## 5. Abstractions worth knowing

- The database check on the first request is one step; the code calls `exists`
  and then connects. Between them a deleted file could be created blank, which
  the recheck under the lock repairs.
- A connection that raises while the version is checked counts as a mismatch in the code
  (`dependencies.py:67`); `SchemaMatches` has no such failure.
- The college boards' API is taken to name the board it was asked for: the parser prefers
  an item's own `bbsId` (`kau_college_parser.py:59`), `CollegeLinks` the configured one.
- The JSON repository's branch for an unparsable file is unreachable as long as
  `PublishedListIsValid` holds, which it does; the branch for a missing file is
  modelled.
- `robots.txt` refusals count as failed requests. Posts without a content hash
  (from before hashes were stored) are left out.
- `DatabaseCatchesUp` says that database and list agree again and again; its run
  has no notice that ages out (see Bounds).
- Ids are the canonical URLs themselves: the hash is taken to be injective, the
  suffix for a collision is left out, and so is the order of parameters.
- A text is its version and whether it is thin; a title or body is the set of marker
  words of the labeling rules in it; a word's hits in a notice are the fields it is in.
- A model's reply is the shape its parser tells apart.
- Search is one step over one list; days pass between requests. The normalization of a
  single string (dates, categories, filter values) is a constant of the notice.
- Each pass has its own notion of a notice: `BoardCrawl`, `NoticeWork`,
  `NoticeIdentity` and `NoticeQueries` meet in the published list, which
  `SnapshotPublish` keeps whole.

## 6. Plan

Done: publish pipeline, serving, accounts, incremental crawl, addresses, enrichment,
labeling, search, chat and its log; theorems for every safety invariant and action
property that a run checks. Left:

1. A composition of `BoardCrawl` with `SnapshotPublish` through the crawl step, in
   place of the arbitrary set of notices a crawl finds.
2. The research labeling tools, if they are ever run by the server.

## 7. Not modelled

- Rate limiting: a key function; the counters are a library's, per process by design.
- Kakao client, settings, schemas, health: no state; the client's refusals are
  `LoginRefused`, the settings are constants.
- The HTML of each board, HTTP clients, downloads and text extraction: I/O and string
  processing; their results and failures are in `BoardCrawl` and `ContentEnrichment`,
  the links they find in `NoticeAddress`.
- Markdown conversion: a pure string conversion without state.
- Research collection (`--research`), `--since`, and the scripts under
  `scripts/research` and for maintenance: run by hand on separate files.
