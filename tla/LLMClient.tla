------------------------------ MODULE LLMClient ------------------------------
(***************************************************************************)
(* HTTPClient.GenerateJSON (internal/llm/client.go): one exchange with the *)
(* Responses API, what it leaves in the trace and the kind of error or the *)
(* output it ends with.  The provider is external: an exchange says how    *)
(* far it came.  The output is a text of Pieces pieces, which come as      *)
(* deltas or in one event; JSON that is not whole does not parse.          *)
(***************************************************************************)
EXTENDS Integers, Sequences, FiniteSets, SequencesExt

CONSTANT Pieces

ASSUME PiecesAssumption == Pieces \in Nat \ {0}

Whole == [i \in 1..Pieces |-> i]

Event(type, text) == [type |-> type, text |-> text]

Deltas == [i \in 1..Pieces |-> Event("delta", <<i>>)]
End == Event("end", <<>>)

\* The streams of a provider that finishes: with the arguments again at the end,
\* without, in one item, or with the item of another tool.
Streams == {Deltas \o <<Event("arguments_done", Whole), End>>,
            Deltas \o <<Event("arguments_done", <<>>), End>>,
            <<Event("item_done", Whole), End>>,
            <<Event("other_item_done", Whole), End>>}

\* A stream may end early, without a word or with a failure or a line that does not
\* parse.
CutStreams ==
  UNION {{SubSeq(s, 1, n) \o tail :
            n \in 0..Len(s), tail \in {<<>>, <<Event("failed", <<>>)>>, <<Event("garbled", <<>>)>>}} :
         s \in Streams}

Exchanges ==
  [route : {"no_request", "unreachable"}]
    \cup [route : {"answered"}, status : {200, 400, 429, 500}, readable : BOOLEAN,
          truncated : BOOLEAN, valid : BOOLEAN, events : {<<>>}]
    \cup [route : {"answered"}, status : {200}, readable : {TRUE},
          truncated : BOOLEAN, valid : BOOLEAN, events : CutStreams]

\* The events readStructuredResponsesStream returns at.
Stops(event) == \/ event.type \in {"end", "garbled", "failed"}
                \/ event.type \in {"arguments_done", "item_done"} /\ event.text # <<>>

\* readStructuredResponsesStream: the first event to stop at decides; without
\* arguments of its own, the content is the deltas so far.
ReadStream(events) ==
  LET stops == {i \in DOMAIN events : Stops(events[i])}
      last == IF stops = {} THEN End ELSE events[Min(stops)]
      before == IF stops = {} THEN events ELSE SubSeq(events, 1, Min(stops) - 1)
      Delta(e) == IF e.type = "delta" THEN e.text ELSE <<>>
  IN [failed |-> last.type \in {"failed", "garbled"},
      content |-> IF last.text # <<>> THEN last.text
                  ELSE FlattenSeq([i \in DOMAIN before |-> Delta(before[i])])]

\* Mutant: a response over the limit is decoded all the same.
KindOfTruncated(x) ==
  CASE x.route = "no_request" -> "infra_fatal"
    [] x.route = "unreachable" -> "infra_retryable"
    [] OTHER ->
       CASE ~x.readable -> "infra_retryable"
         [] x.readable /\ x.status # 200 ->
              IF x.status = 429 \/ x.status >= 500 THEN "infra_retryable" ELSE "infra_fatal"
         [] OTHER -> IF ReadStream(x.events).failed THEN "infra_retryable"
                     ELSE IF ReadStream(x.events).content # Whole \/ ~x.valid THEN "model_output"
                     ELSE "none"

\* The error GenerateJSON returns, in the order of its early returns.
ErrorKind(x) ==
  CASE x.route = "no_request" -> "infra_fatal"
    [] x.route = "unreachable" -> "infra_retryable"
    [] OTHER ->
       CASE ~x.readable -> "infra_retryable"
         [] x.readable /\ x.truncated -> "response_size"
         [] x.readable /\ ~x.truncated /\ x.status # 200 ->
              IF x.status = 429 \/ x.status >= 500 THEN "infra_retryable" ELSE "infra_fatal"
         [] OTHER -> IF ReadStream(x.events).failed THEN "infra_retryable"
                     ELSE IF ReadStream(x.events).content # Whole \/ ~x.valid THEN "model_output"
                     ELSE "none"

\* The parts of the trace there is something to store of.
Parts(x) == IF x.route = "answered" THEN {"request", "response"} ELSE {"request"}
==============================================================================
