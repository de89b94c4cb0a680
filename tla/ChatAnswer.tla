----------------------------- MODULE ChatAnswer -----------------------------
(***************************************************************************)
(* What the chat service makes of a model's replies: the triage of a       *)
(* question, the plan of its search, the choice among the candidates and   *)
(* the answer (app/chat_service.py).  No state: the operators are used by  *)
(* ChatSession.                                                            *)
(*                                                                         *)
(* A reply's text is abstracted to the shape its parser tells apart, and a *)
(* keyword list to whether it holds a keyword, holds none, or is not a     *)
(* list at all.                                                            *)
(***************************************************************************)
EXTENDS Integers, Sequences, SequencesExt

CONSTANTS Notices,         \* what a search can return
          MaxReferences    \* RAG_MAX_REFERENCES

ASSUME ReferencesAssumption == MaxReferences \in Nat \ {0}

Modes == {"search", "history", "out_of_domain"}

\* Shapes of a triage reply: no text at all, text in which no JSON is found, a
\* JSON object, or (the older form) a bare array.  "other" is a mode the code
\* does not know.
TriageReplies ==
    [form : {"none", "garbage"}]
      \cup [form : {"object"}, mode : Modes \cup {"other"}, keywords : {"some", "empty", "number"}]
      \cup [form : {"array"}, keywords : {"some", "empty"}]

NoTriage == [mode |-> "legacy", keywords |-> "empty"]

\* A conversation without history cannot be answered from it; one with history
\* is never turned away as out of domain.
NormalizeTriage(mode, keywords, hasHistory) ==
    [mode |-> IF mode = (IF hasHistory THEN "out_of_domain" ELSE "history")
              THEN "search" ELSE mode,
     keywords |-> keywords]

\* An object whose "keywords" is a number: iterating it raises a TypeError that
\* nothing between the parser and the endpoint catches.
Raises(reply) == reply.form = "object" /\ reply.keywords = "number"

ParseTriage(reply, hasHistory) ==
    LET guessed == IF reply.keywords = "some" THEN "search" ELSE "out_of_domain"
    IN CASE reply.form \in {"none", "garbage"} -> NoTriage
         [] reply.form = "object" ->
              NormalizeTriage(IF reply.mode \in Modes THEN reply.mode ELSE guessed,
                              reply.keywords, hasHistory)
         [] reply.form = "array" -> NormalizeTriage(guessed, reply.keywords, hasHistory)

\* _retrieve_references falls back to the latest notices exactly when it searches
\* with the question itself instead of extracted keywords.
FallsBackToLatest(triage) == triage.mode = "legacy" \/ triage.keywords # "some"

-----------------------------------------------------------------------------
(* Choosing among the candidates. *)

\* Shapes of a rerank reply: no text, no JSON array in it, or an array of items.
RerankReplies(items) ==
    [form : {"none", "garbage"}] \cup [form : {"array"}, items : items]

\* An item is the integer it reads as.  A word and a number of no candidate select
\* nothing and stand for each other: 0.  A value of another type (a list, null) is
\* dropped by _parse_keyword_list already.
OtherType == -1
Kept(items) == ToSet(items) \ {OtherType}

\* The places of a reply's list where a candidate is numbered for the first time.
Firsts(candidates, items) ==
    {i \in DOMAIN items : items[i] \in DOMAIN candidates
                           /\ \A j \in 1 .. i - 1 : items[j] # items[i]}

\* The candidates the reply numbers, in its order, each once.
Numbered(candidates, items) ==
    LET firsts == Firsts(candidates, items)
        Place(k) == CHOOSE i \in firsts : Cardinality({j \in firsts : j < i}) = k - 1
    IN  [k \in 1 .. Cardinality(firsts) |-> candidates[items[Place(k)]]]

Top(candidates) ==
    IF Len(candidates) <= MaxReferences THEN candidates ELSE SubSeq(candidates, 1, MaxReferences)

\* Faulty variant of Rerank: every list that numbers no candidate is read as the
\* answer "nothing is relevant".
RerankFallbackLost(candidates, reply, enabled) ==
    IF Len(candidates) <= MaxReferences THEN candidates
    ELSE IF ~enabled \/ reply.form # "array" THEN Top(candidates)
    ELSE Top(Numbered(candidates, reply.items))

Rerank(candidates, reply, enabled) ==
    IF Len(candidates) <= MaxReferences THEN candidates
    ELSE IF ~enabled \/ reply.form # "array" THEN Top(candidates)
    ELSE IF Kept(reply.items) = {} THEN << >>
    ELSE LET selected == Numbered(candidates, reply.items)
         IN IF selected = << >> THEN Top(candidates) ELSE Top(selected)

\* A rerank call is made only when there is a choice to make.
NeedsRerank(candidates, enabled) == Len(candidates) > MaxReferences /\ enabled

=============================================================================
