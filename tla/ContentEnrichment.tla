------------------------- MODULE ContentEnrichment --------------------------
(***************************************************************************)
(* The enrichment pass of a crawl                                          *)
(* (app/crawler/services/content_enrichment_service.py).  It goes once     *)
(* through the merged posts; where the board's text is thin, it reads the  *)
(* post's images and HWP files and has a model write the text.  Images and *)
(* generations share one budget of calls for the whole crawl.              *)
(*                                                                         *)
(* A post is [ver, made, thin, original]: the version of the board's       *)
(* notice it holds, whether its content was generated, whether that        *)
(* content is too thin to read, and the version content_original keeps (or *)
(* NoText).  The status that an attempt leaves in content_enrichment is    *)
(* left out: no decision depends on it.                                    *)
(***************************************************************************)
EXTENDS Naturals, Sequences, FiniteSets

CONSTANTS Posts,       \* 1 .. n, in the order in which they arrive
          Assets,      \* [Posts -> Seq({"image", "hwp"})], as find_supported_assets
          Thin,        \* the <<post, version>> whose board text is too short
          MaxVersion,  \* bound: edits of one notice
          MaxCalls     \* content_enrichment_max_calls_per_run

ASSUME EnrichmentAssumption ==
    /\ Posts \subseteq Nat \ {0} /\ \A n \in Posts : 1 .. n \subseteq Posts
    /\ Assets \in [Posts -> Seq({"image", "hwp"})]
    /\ MaxVersion \in Nat
    /\ Thin \subseteq Posts \X (0 .. MaxVersion)
    /\ MaxCalls \in Nat

VARIABLES work,      \* [Posts -> post or Absent], the merged posts of the crawl
          pos,       \* the post the pass is at
          asset,     \* the next asset of that post, 0 before it is looked at
          gotText,   \* whether some asset of it gave a text
          calls,     \* calls_used
          requests   \* the requests really sent to the model provider

enrichVars == <<work, pos, asset, gotText, calls, requests>>

Versions == 0 .. MaxVersion
NoText == MaxVersion + 1
Absent == [ver |-> NoText, made |-> FALSE, thin |-> FALSE, original |-> NoText]
PostRecords == {Absent} \cup [ver : Versions, made : BOOLEAN, thin : BOOLEAN,
                              original : Versions \cup {NoText}]

\* A post as the parser returns it.
Parsed(n, v) == [ver |-> v, made |-> FALSE, thin |-> <<n, v>> \in Thin,
                 original |-> NoText]

EnrichTypeOK ==
    /\ work \in [Posts -> PostRecords]
    /\ pos \in Nat
    /\ asset \in Nat
    /\ gotText \in BOOLEAN
    /\ calls \in 0 .. MaxCalls
    /\ requests \in Nat

\* Faulty variant of NeedsUpdate: the stored hash is that of the current content.
NeedsUpdateByContent(post, v) == post.ver # v \/ post.made

\* compute_content_hash is taken of the text as parsed: only a new version differs.
NeedsUpdate(post, v) == post.ver # v

\* apply_notice_update: what enrichment made of the old text is dropped.
ApplyUpdate(n, post, v) == Parsed(n, v)

Exhausted == calls >= MaxCalls

\* should_enrich: also a post that was enriched before, when its text is thin.
ShouldEnrich(n) == Assets[n] # << >> /\ work[n].thin

At(n) == pos = n /\ work[n] # Absent /\ ShouldEnrich(n)

NextPost == pos' = pos + 1 /\ asset' = 0 /\ gotText' = FALSE
\* _mark_skipped or _mark_failed, and on to the next post.
GiveUp == NextPost /\ UNCHANGED <<work, calls, requests>>

\* The text is long enough or the post has nothing to read.
PassOver(n) ==
    /\ pos = n /\ asset = 0
    /\ work[n] # Absent
    /\ ~ShouldEnrich(n)
    /\ GiveUp

\* The budget is used up before the post is looked at.
SkipPost(n) ==
    /\ At(n) /\ asset = 0
    /\ Exhausted
    /\ GiveUp

\* There is no API key, so no generator.
RefusePost(n) ==
    /\ At(n) /\ asset = 0
    /\ ~Exhausted
    /\ GiveUp

OpenPost(n) ==
    /\ At(n) /\ asset = 0
    /\ ~Exhausted
    /\ asset' = 1
    /\ UNCHANGED <<work, pos, gotText, calls, requests>>

Reading(n) == At(n) /\ asset \in 1 .. Len(Assets[n])

\* A download fails, or an HWP file has no text: no call is made.
LoseAsset(n) ==
    /\ Reading(n)
    /\ asset' = asset + 1
    /\ UNCHANGED <<work, pos, gotText, calls, requests>>

ReadHwp(n) ==
    /\ Reading(n)
    /\ Assets[n][asset] = "hwp"
    /\ gotText' = TRUE
    /\ asset' = asset + 1
    /\ UNCHANGED <<work, pos, calls, requests>>

\* An image costs one call of the budget; when the first text is too short the
\* provider sends it again to the fallback model, which the budget does not see.
ReadImage(n, sent, text) ==
    /\ Reading(n)
    /\ Assets[n][asset] = "image"
    /\ ~Exhausted
    /\ calls' = calls + 1
    /\ requests' = requests + sent
    /\ gotText' = (gotText \/ text)
    /\ asset' = asset + 1
    /\ UNCHANGED <<work, pos>>

\* The budget ends in the middle of a post: what its other assets gave is dropped.
BreakOff(n) ==
    /\ Reading(n)
    /\ Assets[n][asset] = "image"
    /\ Exhausted
    /\ GiveUp

\* from_settings: every crawl makes a new service, which counts from 0.
NewService == calls' = 0 /\ requests' = 0

AllRead(n) == At(n) /\ asset = Len(Assets[n]) + 1

NothingRead(n) ==
    /\ AllRead(n)
    /\ ~gotText
    /\ GiveUp

\* No call is left to write the text with.
NoCallLeft(n) ==
    /\ AllRead(n)
    /\ gotText
    /\ Exhausted
    /\ GiveUp

\* Faulty variant of FailGeneration: a call is made without asking for one.
FailGenerationUnchecked(n) ==
    /\ AllRead(n)
    /\ gotText
    /\ calls' = calls + 1
    /\ requests' = requests + 1
    /\ NextPost
    /\ UNCHANGED work

\* The generation fails, is no JSON object, or is too short.
FailGeneration(n) ==
    /\ AllRead(n)
    /\ gotText
    /\ ~Exhausted
    /\ calls' = calls + 1
    /\ requests' = requests + 1
    /\ NextPost
    /\ UNCHANGED work

\* Faulty variant of Enriched: the original is overwritten by every success.
EnrichedOverwriting(post, thin) ==
    [post EXCEPT !.original = IF post.made THEN NoText ELSE post.ver,
                 !.made = TRUE, !.thin = thin]

\* setdefault keeps the first original.  A generated text is long enough, but of
\* links or images alone it still counts as thin.
Enriched(post, thin) ==
    [post EXCEPT !.original = IF post.original = NoText THEN post.ver ELSE post.original,
                 !.made = TRUE, !.thin = thin]

WriteText(n, thin) ==
    /\ AllRead(n)
    /\ gotText
    /\ ~Exhausted
    /\ calls' = calls + 1
    /\ requests' = requests + 1
    /\ work' = [work EXCEPT ![n] = Enriched(work[n], thin)]
    /\ NextPost

EnrichPost(n, hasKey) ==
    \/ PassOver(n)
    \/ SkipPost(n)
    \/ ~hasKey /\ RefusePost(n)
    \/ hasKey /\ OpenPost(n)
    \/ LoseAsset(n)
    \/ ReadHwp(n)
    \/ \E sent \in 1 .. 2, text \in BOOLEAN : ReadImage(n, sent, text)
    \/ BreakOff(n)
    \/ NothingRead(n)
    \/ NoCallLeft(n)
    \/ FailGeneration(n)
    \/ \E thin \in BOOLEAN : WriteText(n, thin)
=============================================================================
