---------------------------- MODULE ChatSession ----------------------------
(***************************************************************************)
(* The turns of one chat session (app/api/chat.py over                     *)
(* app/chat_service.py), with the log they are written to (ChatLog).  A    *)
(* turn is asked on one worker process, plainly or as an event stream; it  *)
(* is triaged, searched, reranked and answered; its two log rows are       *)
(* written by threads beside it.  The client asks the next question when   *)
(* it has the answer (or an error, or left).                               *)
(***************************************************************************)
EXTENDS ChatAnswer, ChatLog

CONSTANTS Hits,         \* the candidate lists a search of the question or keywords yields
          Latest,       \* the latest notices, which a search without hits may fall back to
          RerankItems,  \* the lists a rerank reply may hold
          MaxDeltas,    \* bound: text deltas of one streamed answer
          MaxCrashes    \* bound: kills of a worker process

\* A search lists a notice once and may find nothing.
ASSUME SearchAssumption ==
    /\ << >> \in Hits
    /\ \A list \in Hits \cup {Latest} :
         list \in Seq(Notices) /\ \A i, j \in DOMAIN list : list[i] = list[j] => i = j
    /\ RerankItems \subseteq Seq(Int)

VARIABLES turn,     \* [Turns -> the request]
          stream,   \* [Turns -> the thread that reads the model's stream, and its queue]
          rag,      \* the settings: "on", "no_extraction" (no triage), "off" (no model)
          crashes

chatVars == <<turn, stream, rag, crashes>>
vars == <<chatVars, logVars>>

NoReply == [form |-> "none"]
NotSent == [pc |-> "unsent", kind |-> "none", worker |-> NoWorker, outcome |-> "none",
            triage |-> NoTriage, candidates |-> << >>, references |-> << >>,
            reply |-> NoReply, usedFallback |-> TRUE, tasks |-> << >>]
NoStream == [thread |-> "none", queue |-> << >>, produced |-> 0, received |-> 0]

TypeOK ==
    /\ LogTypeOK
    /\ \A t \in Turns :
         /\ turn[t].pc \in {"unsent", "asked", "logging", "triage", "search", "rerank",
                            "generate", "stream", "finish", "log", "background", "ended"}
         /\ turn[t].kind \in {"none", "plain", "stream"}
         /\ turn[t].worker \in Workers \cup {NoWorker}
         /\ turn[t].outcome \in {"none", "rejected", "answered", "error", "raised", "left",
                                 "crashed"}
         /\ turn[t].references \in Seq(Notices)
         /\ stream[t].thread \in {"none", "running", "ended"}
         /\ stream[t].received <= stream[t].produced
    /\ rag \in {"on", "no_extraction", "off"}
    /\ crashes \in 0 .. MaxCrashes

Init ==
    /\ LogInit
    /\ turn = [t \in Turns |-> NotSent]
    /\ stream = [t \in Turns |-> NoStream]
    /\ rag \in {"on", "no_extraction", "off"}
    /\ crashes = 0

\* The request t once its handler has returned: its local state is gone.
Over(t, outcome) ==
    [NotSent EXCEPT !.pc = "ended", !.kind = turn[t].kind, !.worker = turn[t].worker,
                    !.outcome = outcome]
End(t, outcome) == turn' = [turn EXCEPT ![t] = Over(t, outcome)]

Set(t, field, value) == turn' = [turn EXCEPT ![t][field] = value]
At(t, pc) == turn[t].pc = pc
Plain(t) == turn[t].kind = "plain"
HasHistory(t) == t > 1

\* The client has all it will get of the turn.
Seen(t) == turn[t].outcome # "none"

-----------------------------------------------------------------------------
(* The request. *)

Ask(t) ==
    /\ At(t, "unsent")
    /\ \A s \in Turns : s < t => Seen(s)
    /\ \E kind \in {"plain", "stream"}, w \in Workers :
         turn' = [turn EXCEPT ![t].pc = "asked", ![t].kind = kind, ![t].worker = w]
    /\ UNCHANGED <<stream, rag, crashes, logVars>>

\* An empty question, or one longer than 500 characters.
Reject(t) ==
    /\ At(t, "asked")
    /\ End(t, "rejected")
    /\ UNCHANGED <<stream, rag, crashes, logVars>>

\* The plain endpoint schedules the question's row to be written after the response.
StartPlain(t) ==
    /\ At(t, "asked")
    /\ Plain(t)
    /\ turn' = [turn EXCEPT ![t].pc = "triage", ![t].tasks = <<"user">>]
    /\ UNCHANGED <<stream, rag, crashes, logVars>>

\* Faulty variant of StartStream: the question's row is not awaited.
StartStreamUnawaited(t) ==
    /\ At(t, "asked")
    /\ ~Plain(t)
    /\ Submit(<<t, "user">>, turn[t].worker)
    /\ Set(t, "pc", "triage")
    /\ UNCHANGED <<stream, rag, crashes>>

\* The streaming endpoint writes the row in a thread and waits for it.
StartStream(t) ==
    /\ At(t, "asked")
    /\ ~Plain(t)
    /\ Submit(<<t, "user">>, turn[t].worker)
    /\ Set(t, "pc", "logging")
    /\ UNCHANGED <<stream, rag, crashes>>

QuestionLogged(t) ==
    /\ At(t, "logging")
    /\ Settled(<<t, "user">>)
    /\ Set(t, "pc", "triage")
    /\ UNCHANGED <<stream, rag, crashes, logVars>>

-----------------------------------------------------------------------------
(* Retrieval (_retrieve_references). *)

Triage(t) ==
    /\ At(t, "triage")
    /\ \E reply \in IF rag = "on" THEN TriageReplies ELSE {NoReply} :
         /\ ~Raises(reply)
         /\ LET triage == ParseTriage(reply, HasHistory(t))
            IN turn' = [turn EXCEPT
                 ![t].triage = triage,
                 ![t].pc = CASE triage.mode = "out_of_domain" -> "finish"
                             [] triage.mode = "history" -> "generate"
                             [] OTHER -> "search"]
    /\ UNCHANGED <<stream, rag, crashes, logVars>>

\* The parser raises what no handler expects: the plain endpoint answers 500 and its
\* background tasks are gone with the response they belonged to; the stream breaks off.
TriageRaises(t) ==
    /\ At(t, "triage")
    /\ rag = "on"
    /\ \E reply \in TriageReplies : Raises(reply)
    /\ End(t, "raised")
    /\ UNCHANGED <<stream, rag, crashes, logVars>>

Search(t) ==
    /\ At(t, "search")
    /\ \E hits \in Hits :
         turn' = [turn EXCEPT
           ![t].pc = "rerank",
           ![t].candidates = IF hits = << >> /\ FallsBackToLatest(turn[t].triage)
                             THEN Latest ELSE hits]
    /\ UNCHANGED <<stream, rag, crashes, logVars>>

\* NoticeRepositoryError: an answer of status 500 that keeps its background tasks, or
\* an error event that ends the stream.
SearchFails(t) ==
    /\ At(t, "search")
    /\ IF Plain(t)
       THEN turn' = [turn EXCEPT ![t].pc = "background", ![t].outcome = "error"]
       ELSE End(t, "error")
    /\ UNCHANGED <<stream, rag, crashes, logVars>>

RerankStep(t) ==
    /\ At(t, "rerank")
    /\ \E reply \in IF NeedsRerank(turn[t].candidates, rag # "off")
                    THEN RerankReplies(RerankItems) ELSE {NoReply} :
         turn' = [turn EXCEPT
           ![t].pc = "generate", ![t].reply = reply,
           ![t].references = Rerank(turn[t].candidates, reply, rag # "off")]
    /\ UNCHANGED <<stream, rag, crashes, logVars>>

-----------------------------------------------------------------------------
(* The answer. *)

\* Without a notice to cite nothing is generated, except from the history.
Generates(t) ==
    /\ rag # "off"
    /\ turn[t].triage.mode = "history" \/ turn[t].references # << >>

\* The model's text, or the fallback text when there is none.
Generate(t) ==
    /\ At(t, "generate")
    /\ Plain(t)
    /\ \E text \in IF Generates(t) THEN BOOLEAN ELSE {FALSE} :
         turn' = [turn EXCEPT ![t].pc = "finish", ![t].reply = NoReply,
                              ![t].usedFallback = ~text]
    /\ UNCHANGED <<stream, rag, crashes, logVars>>

OpenStream(t) ==
    /\ At(t, "generate")
    /\ ~Plain(t)
    /\ turn' = [turn EXCEPT ![t].pc = IF Generates(t) THEN "stream" ELSE "finish",
                            ![t].reply = NoReply]
    /\ stream' = [stream EXCEPT ![t].thread = IF Generates(t) THEN "running" ELSE "none"]
    /\ UNCHANGED <<rag, crashes, logVars>>

\* The thread of _aiter_threaded reads a delta of the model's stream.
Produce(t) ==
    /\ stream[t].thread = "running"
    /\ At(t, "stream")
    /\ stream[t].produced < MaxDeltas
    /\ stream' = [stream EXCEPT ![t].produced = @ + 1, ![t].queue = Append(@, "delta")]
    /\ UNCHANGED <<turn, rag, crashes, logVars>>

\* Faulty variant of EndStream: the marker overtakes the text that is still queued.
EndStreamFirst(t) ==
    /\ stream[t].thread = "running"
    /\ stream' = IF At(t, "stream")
                 THEN [stream EXCEPT ![t].thread = "ended", ![t].queue = <<"done">> \o @]
                 ELSE [stream EXCEPT ![t] = NoStream]
    /\ UNCHANGED <<turn, rag, crashes, logVars>>

\* Faulty variant of EndStream: a broken stream ends its thread without the marker.
EndStreamSilently(t) ==
    /\ stream[t].thread = "running"
    /\ stream' = [stream EXCEPT ![t].thread = "ended"]
    /\ UNCHANGED <<turn, rag, crashes, logVars>>

\* The model's stream ends, or breaks: the reader does not tell which.  After the
\* client has left, the thread reads on and nobody hears it.
EndStream(t) ==
    /\ stream[t].thread = "running"
    /\ stream' = IF At(t, "stream")
                 THEN [stream EXCEPT ![t].thread = "ended", ![t].queue = Append(@, "done")]
                 ELSE [stream EXCEPT ![t] = NoStream]
    /\ UNCHANGED <<turn, rag, crashes, logVars>>

Deliver(t) ==
    /\ At(t, "stream")
    /\ stream[t].queue # << >>
    /\ IF Head(stream[t].queue) = "done"
       THEN /\ turn' = [turn EXCEPT ![t].pc = "finish",
                                    ![t].usedFallback = stream[t].received = 0]
            /\ UNCHANGED stream
       ELSE /\ stream' = [stream EXCEPT ![t].received = @ + 1, ![t].queue = Tail(@)]
            /\ UNCHANGED turn
    /\ UNCHANGED <<rag, crashes, logVars>>

\* The response, or the event answer_completed, reaches the client.
Finish(t) ==
    /\ At(t, "finish")
    /\ turn' = [turn EXCEPT ![t].pc = IF Plain(t) THEN "background" ELSE "log",
                            ![t].outcome = "answered", ![t].triage = NoTriage,
                            ![t].candidates = << >>, ![t].references = << >>,
                            ![t].tasks = IF Plain(t) THEN Append(@, "assistant") ELSE @]
    /\ UNCHANGED <<stream, rag, crashes, logVars>>

\* Faulty variant of LogAnswer: only a generated answer is logged.
LogAnswerIfGenerated(t) ==
    /\ At(t, "log")
    /\ IF turn[t].usedFallback THEN UNCHANGED logVars
       ELSE Submit(<<t, "assistant">>, turn[t].worker)
    /\ End(t, "answered")
    /\ stream' = [stream EXCEPT ![t] = NoStream]
    /\ UNCHANGED <<rag, crashes>>

\* fire_and_forget: after answer_completed, a task of its own.
LogAnswer(t) ==
    /\ At(t, "log")
    /\ Submit(<<t, "assistant">>, turn[t].worker)
    /\ End(t, "answered")
    /\ stream' = [stream EXCEPT ![t] = NoStream]
    /\ UNCHANGED <<rag, crashes>>

\* The background tasks of a plain response run one after the other.
RunTask(t) ==
    /\ At(t, "background")
    /\ \A r \in Roles : job[<<t, r>>].pc = "none" \/ Settled(<<t, r>>)
    /\ turn[t].tasks # << >>
    /\ Submit(<<t, Head(turn[t].tasks)>>, turn[t].worker)
    /\ turn' = [turn EXCEPT ![t].tasks = Tail(@)]
    /\ UNCHANGED <<stream, rag, crashes>>

EndBackground(t) ==
    /\ At(t, "background")
    /\ turn[t].tasks = << >>
    /\ \A r \in Roles : job[<<t, r>>].pc = "none" \/ Settled(<<t, r>>)
    /\ End(t, turn[t].outcome)
    /\ UNCHANGED <<stream, rag, crashes, logVars>>

\* The client closes the stream: the generator is cancelled at whatever it waits for,
\* the last event included.  Threads are not: a row being written and the model's
\* stream go on.
Leave(t) ==
    /\ turn[t].kind = "stream"
    /\ turn[t].pc \notin {"unsent", "asked", "ended"}
    /\ End(t, "left")
    /\ stream' = [stream EXCEPT ![t] = IF @.thread = "running"
                                       THEN [NoStream EXCEPT !.thread = "running"]
                                       ELSE NoStream]
    /\ UNCHANGED <<rag, crashes, logVars>>

\* A worker process dies and is started again: what it held in memory is gone.
Crash(w) ==
    /\ crashes < MaxCrashes
    /\ crashes' = crashes + 1
    /\ turn' = [t \in Turns |->
                  IF turn[t].worker = w /\ ~At(t, "ended")
                  THEN Over(t, "crashed") ELSE turn[t]]
    /\ stream' = [t \in Turns |-> IF turn[t].worker = w THEN NoStream ELSE stream[t]]
    /\ Forget(w)
    /\ UNCHANGED rag

TurnStep(t) ==
    \/ Reject(t) \/ StartPlain(t) \/ StartStream(t) \/ QuestionLogged(t)
    \/ Triage(t) \/ TriageRaises(t) \/ Search(t) \/ SearchFails(t) \/ RerankStep(t)
    \/ Generate(t) \/ OpenStream(t) \/ Deliver(t) \/ Finish(t)
    \/ LogAnswer(t) \/ RunTask(t) \/ EndBackground(t)

ThreadStep(t) == Produce(t) \/ EndStream(t)

Next ==
    \/ \E t \in Turns : Ask(t) \/ TurnStep(t) \/ ThreadStep(t) \/ Leave(t)
    \/ \E m \in Messages : (LogStep(m) \/ WriteFails(m)) /\ UNCHANGED chatVars
    \/ \E w \in Workers : Crash(w)

\* The event loop and the threads go on; the model answers or times out
\* (OPENAI_TIMEOUT_SECONDS, max_output_tokens).  No client is obliged to ask.
Fairness ==
    /\ \A t \in Turns : WF_vars(TurnStep(t)) /\ WF_vars(ThreadStep(t))
    /\ \A m \in Messages : WF_vars(LogStep(m) /\ UNCHANGED chatVars)

Spec == Init /\ [][Next]_vars /\ Fairness

-----------------------------------------------------------------------------
(* Safety. *)

\* Every message has one row, and within a turn the question's row comes first,
\* whichever endpoint served it: api/chat.py awaits the question's row of a stream
\* (lines 135-138) and runs the background tasks of a plain turn in order.
QuestionBeforeAnswer ==
    \A i, j \in DOMAIN rows :
      i < j => /\ rows[i] # rows[j]
               /\ rows[i][1] = rows[j][1] => rows[i][2] = "user"

\* The notices an answer cites are distinct, at most MaxReferences, and among the
\* candidates; and when the model numbered usable candidates, exactly its first
\* usable ones, while an unusable reply falls back to the best candidates and only
\* an empty list means that none is relevant (_rerank_candidates).  A search by
\* keywords cites only what they match: the latest notices stand in for a search of
\* the question itself alone (find_relevant_notices).
ReferencesFollowTheReply ==
    \A t \in Turns :
      LET cited == turn[t].references
          all   == turn[t].candidates
          reply == turn[t].reply
          named == IF reply.form = "array"
                   THEN {reply.items[k] : k \in DOMAIN reply.items} ELSE {}
      IN /\ ToSet(cited) \subseteq ToSet(all)
         /\ Len(cited) = Cardinality(ToSet(cited))
         /\ Len(cited) <= MaxReferences
         /\ At(t, "generate") /\ all # << >> =>
              (cited = << >> <=> /\ reply.form = "array"
                                 /\ named \subseteq {OtherType})
         /\ reply.form = "array" /\ named \cap DOMAIN all # {} =>
              ToSet(cited) \subseteq {all[n] : n \in named \cap DOMAIN all}
         /\ turn[t].triage.keywords = "some" => all \in Hits

\* A streamed answer that completes holds every delta its thread produced, and is
\* called a fallback exactly if there was none (_aiter_threaded): the text that is
\* logged is the text the model wrote.
StreamsAreWhole ==
    \A t \in Turns :
      turn[t].kind = "stream" /\ turn[t].outcome = "answered" /\ stream[t].thread # "none" =>
        /\ stream[t].received = stream[t].produced
        /\ turn[t].usedFallback <=> stream[t].produced = 0

(* Liveness. *)

\* Every request that was asked ends, whatever the model, the search and the log do.
TurnsEnd == \A t \in Turns : turn[t].pc = "asked" ~> turn[t].pc = "ended"

\* The answer a client has received whole is logged, or its write failed: unless the
\* client closed the stream on its last event, or the worker died.
AnswersAreLogged ==
    \A t \in Turns :
      turn[t].outcome = "answered" ~>
        Settled(<<t, "assistant">>) \/ turn[t].outcome \in {"left", "crashed"}

=============================================================================
