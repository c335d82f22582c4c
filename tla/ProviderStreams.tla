--------------------------- MODULE ProviderStreams ---------------------------
(***************************************************************************)
(* One call of stream_events of a model provider, for the five adapters:   *)
(* gemini and anthropic (reflex_provider_native_protocols), responses      *)
(* (reflex_provider_openai_responses), compatible (.._openai_compatible)   *)
(* and minimax.  The provider's server answers each attempt with a status, *)
(* a JSON body or a stream of server-sent events in the protocol's own     *)
(* alphabet, which may be malformed, out of order or cut off; the token of *)
(* the call may be cancelled at any step.  An event reaches the consumer   *)
(* one at a time: `pending' holds what the adapter has parsed and not yet  *)
(* yielded.  `whole' is what the server knows: it has ended its answer.    *)
(***************************************************************************)
EXTENDS Naturals, Sequences, SequencesExt

CONSTANTS
  Protocols,      \* the adapters checked
  MaxAttempts,    \* MAX_ATTEMPTS
  MaxEvents       \* bound: server-sent events of an attempt

\* What the constants must satisfy, assumed where they get their values.
ProviderAssumption ==
  /\ Protocols \subseteq {"gemini", "anthropic", "responses", "compatible", "minimax"}
  /\ MaxAttempts \in Nat \ {0} /\ MaxEvents \in Nat

VARIABLES
  call,       \* the adapter and whether the request asks for a stream
  phase,      \* "idle", "sending", "reading", "waiting", "over"
  attempt,
  cancelled,  \* the cancellation token
  parsed,     \* what the parser of the attempt remembers
  pending,    \* kinds of the events parsed and not yet yielded
  after,      \* what the adapter does then: "read" on, be "done", or fail with a code
  out,        \* events yielded, with the attempt they come from; "raised" ends a call that raises
  whole,
  events      \* server-sent events of the attempt so far

vars == <<call, phase, attempt, cancelled, parsed, pending, after, out, whole, events>>

p == call.protocol
Codes == {"auth", "limited", "timeout", "network", "service", "invalid", "empty"}
Err(c, r) == [code |-> c, retryable |-> r]
ReadOn == Err("read", FALSE)
Done == Err("done", FALSE)
Kinds == {"started", "text", "usage", "completed", "error", "cancelled", "raised", "models"}
Fresh == [started |-> FALSE, finish |-> FALSE, delta |-> FALSE, text |-> FALSE,
          open |-> {}, closed |-> {}]

TypeOK ==
  /\ call \in [protocol : Protocols, stream : BOOLEAN]
  /\ phase \in {"idle", "sending", "reading", "waiting", "over"}
  /\ attempt \in 1..MaxAttempts /\ cancelled \in BOOLEAN /\ whole \in BOOLEAN
  /\ pending \in Seq(Kinds) /\ events \in 0..MaxEvents
  /\ after \in [code : Codes \cup {"read", "done"}, retryable : BOOLEAN]
  /\ out \in Seq([kind : Kinds, try : 1..MaxAttempts])

Init ==
  /\ call \in [protocol : Protocols, stream : BOOLEAN]
  /\ phase = "idle" /\ attempt = 1 /\ cancelled \in BOOLEAN /\ parsed = Fresh
  /\ pending = <<>> /\ after = ReadOn /\ out = <<>> /\ whole = FALSE /\ events = 0

-----------------------------------------------------------------------------
(* The catalogue of a server (list_models): "foreign" has objects of       *)
(* another type, "none" has no acceptable id, "many" more than 256.        *)

Catalogues == {"models", "foreign", "none", "many", "malformed"}
NativeModels(d) == IF d = "models" THEN "models" ELSE "raised"
ResponsesModels(d) == IF d \in {"models", "foreign"} THEN "models" ELSE "raised"
CompatibleModels(d) == IF d \in {"models", "foreign"} THEN "models" ELSE "raised"

Listed(d) ==
  CASE p = "anthropic" -> NativeModels(d)
    [] p = "responses" -> ResponsesModels(d)
    [] p = "compatible" -> CompatibleModels(d)

-----------------------------------------------------------------------------
(* What is refused before anything is sent.                                *)

\* Configurations, and what each adapter asks of one.  A blank model is none, or no model id.
Configs == [secret : BOOLEAN, https : BOOLEAN, timeout : BOOLEAN, verify : BOOLEAN,
            model : {"listed", "custom", "blank"}]

NativeFields(c) == c.model # "blank" /\ c.https /\ c.timeout
NativeConfig(c) == c.secret /\ NativeFields(c) /\ c.verify /\ (p = "gemini" => c.model = "listed")
ResponsesFields(c) == c.model # "blank" /\ c.https /\ c.timeout
ResponsesConfig(c) == c.secret /\ ResponsesFields(c)
CompatibleFields(c) == c.model # "blank" /\ c.https /\ c.timeout
CompatibleConfig(c) == c.secret /\ CompatibleFields(c) /\ c.verify
MiniMaxFields(c) == c.model # "blank" /\ c.timeout
MiniMaxConfig(c) == c.secret /\ MiniMaxFields(c) /\ c.verify /\ c.model = "listed"

ConfigAccepted(c) ==
  CASE p \in {"gemini", "anthropic"} -> NativeConfig(c)
    [] p = "responses" -> ResponsesConfig(c)
    [] p = "compatible" -> CompatibleConfig(c)
    [] p = "minimax" -> MiniMaxConfig(c)

\* Rendered requests: a list of messages (with a user's, of the system only,
\* with an unknown role), the system and user keys, the text key, or none.
Rendered == {"messages", "system_only", "unknown_role", "keys", "text", "none"}
NativeRenders == {"messages"}
ResponsesRenders == {"messages", "keys", "text"}
CompatibleRenders == {"messages", "system_only", "keys", "text"}
MiniMaxRenders == {"messages", "system_only", "keys", "text"}

Renders(r) ==
  r \in CASE p \in {"gemini", "anthropic"} -> NativeRenders
          [] p = "responses" -> ResponsesRenders
          [] p = "compatible" -> CompatibleRenders
          [] p = "minimax" -> MiniMaxRenders

\* The model of the request, which overrides that of the configuration.
ModelAccepted(model) ==
  CASE p \in {"gemini", "minimax"} -> model = "listed"
    [] p = "anthropic" -> TRUE
    [] OTHER -> model # "blank"

-----------------------------------------------------------------------------
(* Errors.                                                                 *)

Invalid == Err("invalid", FALSE)
Common(s) ==
  CASE s \in {401, 403} -> Err("auth", FALSE)
    [] s = 429 -> Err("limited", TRUE)
    [] s \in {408, 504} -> Err("timeout", TRUE)
    [] OTHER -> Invalid
Service == Err("service", TRUE)

NativeStatus(s) == IF s \in {500, 502, 503, 529} THEN Service ELSE Common(s)
ResponsesStatus(s) == IF s >= 500 /\ s < 600 /\ s # 504 THEN Service ELSE Common(s)
CompatibleStatus(s) == IF s \in {500, 502, 503} THEN Service ELSE Common(s)
MiniMaxStatus(s) == IF s >= 500 /\ s # 504 THEN Service ELSE Common(s)

StatusError(s) ==
  CASE p \in {"gemini", "anthropic"} -> NativeStatus(s)
    [] p = "responses" -> ResponsesStatus(s)
    [] p = "compatible" -> CompatibleStatus(s)
    [] p = "minimax" -> MiniMaxStatus(s)

TransportErrors == {Err("timeout", TRUE), Err("network", TRUE), Invalid}

-----------------------------------------------------------------------------
(* JSON bodies: the events they give, and what comes after.                *)

Bodies == {"text", "empty", "half", "bad", "incomplete", "failed", "cancelled"}
Answer(emits, then) == [emits |-> emits, then |-> then]

GeminiJson(b) == IF b \in {"bad", "half"} THEN Answer(<<>>, Invalid)
                 ELSE Answer(IF b = "empty" THEN <<>> ELSE <<"text">>, Done)

\* A message that turns out malformed after its start has been announced is half an answer.
AnthropicJson(b) ==
  CASE b = "bad" -> Answer(<<>>, Invalid)
    [] b = "half" -> Answer(<<"started", "usage", "text">>, Invalid)
    [] b = "empty" -> Answer(<<"started", "usage", "completed">>, Done)
    [] OTHER -> Answer(<<"started", "usage", "text", "completed">>, Done)

ResponsesJson(b) ==
  CASE b = "bad" -> Answer(<<>>, Invalid)
    [] b = "half" -> Answer(<<"started", "text", "usage">>, Invalid)
    [] b = "failed" -> Answer(<<"started", "usage", "error">>, Done)
    [] b = "cancelled" -> Answer(<<"started", "usage", "cancelled">>, Done)
    [] b = "empty" -> Answer(<<"started", "usage", "completed">>, Done)
    [] OTHER -> Answer(<<"started", "text", "usage", "completed">>, Done)

CompatibleJson(b) ==
  CASE b \in {"bad", "half"} -> Answer(<<>>, Invalid)
    [] b = "empty" -> Answer(<<"started">>, Err("empty", FALSE))
    [] OTHER -> Answer(<<"started", "text", "usage", "completed">>, Done)

\* An item that is not a completion has no content.
MiniMaxJson(b) == IF b = "bad" THEN Answer(<<>>, Invalid)
                  ELSE Answer(IF b = "text" THEN <<"text">> ELSE <<>>, Done)

Json(b) ==
  CASE p = "gemini" -> GeminiJson(b)
    [] p = "anthropic" -> AnthropicJson(b)
    [] p = "responses" -> ResponsesJson(b)
    [] p = "compatible" -> CompatibleJson(b)
    [] p = "minimax" -> MiniMaxJson(b)

ContentTypes == {"json", "sse", "other"}

\* Whether a body of this type is read as one JSON document, or as events.
GeminiReads(type) == IF ~call.stream \/ type = "json" THEN "json" ELSE "events"
AnthropicReads(type) ==
  IF ~call.stream \/ type = "json" THEN "json" ELSE IF type = "sse" THEN "events" ELSE "nothing"
CompatibleReads(type) == IF ~call.stream \/ type = "json" THEN "json" ELSE "events"
MiniMaxReads(type) == IF type = "json" THEN "json" ELSE "events"

Reads(type) ==
  CASE p = "gemini" -> GeminiReads(type)
    [] p = "anthropic" -> AnthropicReads(type)
    [] p = "responses" -> IF call.stream THEN "events" ELSE "json"
    [] p = "compatible" -> CompatibleReads(type)
    [] p = "minimax" -> MiniMaxReads(type)

-----------------------------------------------------------------------------
(* Server-sent events: [type, index or content], one alphabet per API.     *)

Skip(s) == [parsed |-> s, emits |-> <<>>, then |-> ReadOn]
Refuse(s) == [parsed |-> s, emits |-> <<>>, then |-> Invalid]
Take(s, emits) == [parsed |-> s, emits |-> emits, then |-> ReadOn]
Finish(s, emits) == [parsed |-> s, emits |-> emits, then |-> Done]

Blocks == {0, 1}
AnthropicEvents ==
  {[type |-> t] : t \in {"ping", "unknown", "malformed", "overloaded", "rate_limited", "rejected",
                         "message_start", "message_stop"}}
  \cup [type : {"block_start", "text_delta", "other_delta", "block_stop"}, index : Blocks]
  \cup [type : {"message_delta"}, reason : BOOLEAN]

\* The order _iter_anthropic_sse_events insists on.
AnthropicInOrder(s, e) ==
  IF e.type = "message_start" THEN ~s.started
  ELSE /\ s.started
       /\ CASE e.type = "block_start" -> e.index \notin s.open \cup s.closed /\ ~s.delta
            [] e.type \in {"text_delta", "other_delta", "block_stop"} -> e.index \in s.open /\ ~s.delta
            [] e.type = "message_delta" -> s.open = {}
            [] e.type = "message_stop" -> s.open = {} /\ s.delta /\ s.finish

AnthropicError(e) ==
  CASE e.type = "overloaded" -> Service
    [] e.type = "rate_limited" -> Err("limited", TRUE)
    [] e.type = "rejected" -> Err("auth", FALSE)
    [] e.type = "malformed" -> Invalid
AnthropicErrors == {"overloaded", "rate_limited", "rejected", "malformed"}

AnthropicStep(s, e) ==
  CASE e.type \in {"ping", "unknown"} -> Skip(s)
    [] e.type \in AnthropicErrors -> [Refuse(s) EXCEPT !.then = AnthropicError(e)]
    [] OTHER ->
       IF ~AnthropicInOrder(s, e) THEN Refuse(s)
       ELSE CASE e.type = "message_start" -> Take([s EXCEPT !.started = TRUE], <<"started", "usage">>)
              [] e.type = "block_start" -> Take([s EXCEPT !.open = @ \cup {e.index}], <<>>)
              [] e.type = "text_delta" -> Take(s, <<"text">>)
              [] e.type = "other_delta" -> Skip(s)
              [] e.type = "block_stop" ->
                   Take([s EXCEPT !.open = @ \ {e.index}, !.closed = @ \cup {e.index}], <<>>)
              [] e.type = "message_delta" ->
                   Take([s EXCEPT !.delta = TRUE, !.finish = @ \/ e.reason], <<"usage">>)
              [] e.type = "message_stop" -> Finish(s, <<"completed">>)

ResponsesEvents == {[type |-> t] : t \in {"created", "delta", "completed", "incomplete", "failed",
                                          "error", "other", "malformed"}}

\* Mutated form of ResponsesStep: each of created, queued and in_progress announces the start.
ResponsesStepAnnounces(s, e) ==
  CASE e.type = "created" -> Take([s EXCEPT !.started = TRUE], <<"started">>)
    [] e.type = "delta" -> Take([s EXCEPT !.started = TRUE], IF s.started THEN <<"text">> ELSE <<"started", "text">>)
    [] OTHER -> Refuse(s)

\* Whatever comes first announces the start, except an event of no interest here.
ResponsesStep(s, e) ==
  LET start == IF s.started THEN <<>> ELSE <<"started">>
      begun == [s EXCEPT !.started = TRUE] IN
  CASE e.type = "malformed" -> Refuse(s)
    [] e.type = "other" -> Skip(s)
    [] e.type = "created" -> Take(begun, start)
    [] e.type = "delta" -> Take(begun, start \o <<"text">>)
    [] e.type \in {"completed", "incomplete"} -> Finish(begun, start \o <<"usage", "completed">>)
    [] e.type = "failed" -> Finish(begun, start \o <<"usage", "error">>)
    [] e.type = "error" -> Finish(begun, start \o <<"error">>)

\* A part may carry text and a finish reason; "usage" has no choices; "sentinel" is [DONE].
ChatEvents == [type : {"part"}, text : BOOLEAN, finish : BOOLEAN]
              \cup {[type |-> t] : t \in {"usage", "sentinel", "malformed"}}
ChatEnds(e) == e.type = "sentinel" \/ (e.type = "part" /\ e.finish)

CompatibleEnd(s) ==
  IF ~s.finish THEN Refuse(s)
  ELSE IF s.text THEN Finish(s, <<"completed">>) ELSE [Refuse(s) EXCEPT !.then = Err("empty", FALSE)]

CompatibleStep(s, e) ==
  LET start == IF s.started THEN <<>> ELSE <<"started">>
      begun == [s EXCEPT !.started = TRUE] IN
  CASE e.type = "malformed" -> Refuse(s)
    [] e.type = "sentinel" -> CompatibleEnd([s EXCEPT !.finish = TRUE])
    [] e.type = "usage" -> Take(begun, start \o <<"usage">>)
    [] e.type = "part" -> Take([begun EXCEPT !.text = @ \/ e.text, !.finish = @ \/ e.finish],
                               start \o IF e.text THEN <<"text">> ELSE <<>>)

MiniMaxStep(s, e) ==
  CASE e.type = "malformed" -> Refuse(s)
    [] e.type = "sentinel" -> Finish(s, <<>>)
    [] e.type = "usage" -> Skip(s)
    [] e.type = "part" -> Take([s EXCEPT !.finish = @ \/ e.finish], IF e.text THEN <<"text">> ELSE <<>>)

\* A candidate; the stream is over at the first finish reason.
GeminiEvents == [type : {"part"}, text : BOOLEAN, finish : BOOLEAN] \cup {[type |-> "malformed"]}
GeminiStep(s, e) ==
  IF e.type = "malformed" THEN Refuse(s)
  ELSE LET text == IF e.text THEN <<"text">> ELSE <<>> IN
       IF e.finish THEN Finish(s, text) ELSE Take(s, text)

ServerEvents ==
  CASE p = "anthropic" -> AnthropicEvents
    [] p = "responses" -> ResponsesEvents
    [] p = "gemini" -> GeminiEvents
    [] OTHER -> ChatEvents

StepOf(e) ==
  CASE p = "anthropic" -> AnthropicStep(parsed, e)
    [] p = "responses" -> ResponsesStep(parsed, e)
    [] p = "compatible" -> CompatibleStep(parsed, e)
    [] p = "minimax" -> MiniMaxStep(parsed, e)
    [] p = "gemini" -> GeminiStep(parsed, e)

\* Mutated form of EndOf: the end of the body is the end of the answer.
EndOfBodyIsEnd(s) == Finish(s, IF p \in {"anthropic", "responses", "compatible"} THEN <<"completed">> ELSE <<>>)

\* The body ends and the parser has not seen the end of the answer.
EndOf(s) ==
  CASE p = "compatible" -> CompatibleEnd(s)
    [] p = "minimax" -> IF s.finish THEN Finish(s, <<>>) ELSE Refuse(s)
    [] OTHER -> Refuse(s)

\* The answer is over for the server.
Ends(e) ==
  CASE p = "anthropic" -> e.type = "message_stop"
    [] p = "responses" -> e.type \in {"completed", "incomplete", "failed", "error"}
    [] p = "gemini" -> e.type = "part" /\ e.finish
    [] OTHER -> ChatEnds(e)

-----------------------------------------------------------------------------
(* The call.                                                               *)

Yields(ks) == out' = out \o [i \in DOMAIN ks |-> [kind |-> ks[i], try |-> attempt]]
Over(ks) == Yields(ks) /\ phase' = "over" /\ pending' = <<>>
\* What the call of each adapter yields of its own: when it opens, when the token is cancelled
\* before it or during it, when it is refused and when it fails; how often it tries; what it has
\* shown that forbids another attempt.
GeminiCall == [opens |-> <<"started">>, early |-> <<>>, cancelled |-> <<>>,
               refused |-> <<"started", "raised">>, fails |-> <<"raised">>,
               tries |-> MaxAttempts, shown |-> {"text"}]
AnthropicCall == [opens |-> <<>>, early |-> <<"cancelled">>, cancelled |-> <<"cancelled">>,
                  refused |-> <<"started", "error">>,
                  fails |-> IF out = <<>> THEN <<"started", "error">> ELSE <<"error">>,
                  tries |-> MaxAttempts, shown |-> Kinds]
ResponsesCall == [opens |-> <<>>, early |-> <<>>, cancelled |-> <<"cancelled">>,
                  refused |-> <<"raised">>, fails |-> <<"raised">>, tries |-> 1, shown |-> Kinds]
CompatibleCall == [opens |-> <<>>, early |-> <<>>, cancelled |-> <<"cancelled">>,
                   refused |-> <<"raised">>, fails |-> <<"raised">>,
                   tries |-> MaxAttempts, shown |-> Kinds]
MiniMaxCall == [opens |-> <<"started">>, early |-> <<"started", "cancelled">>,
                cancelled |-> <<"cancelled">>, refused |-> <<"started", "raised">>,
                fails |-> <<"raised">>, tries |-> MaxAttempts, shown |-> {"text"}]

Call ==
  CASE p = "gemini" -> GeminiCall [] p = "anthropic" -> AnthropicCall
    [] p = "responses" -> ResponsesCall [] p = "compatible" -> CompatibleCall
    [] p = "minimax" -> MiniMaxCall

\* The factory and the first lines of stream_events.
Begin ==
  /\ phase = "idle"
  /\ \E c \in Configs, r \in Rendered, m \in {"listed", "custom", "blank"} :
       CASE ~ConfigAccepted(c) -> Over(<<"raised">>)
         [] ConfigAccepted(c) /\ cancelled -> Over(Call.early)
         [] ConfigAccepted(c) /\ ~cancelled /\ ~(ModelAccepted(m) /\ Renders(r)) -> Over(Call.refused)
         [] OTHER -> Yields(Call.opens) /\ phase' = "sending" /\ pending' = <<>>
  /\ UNCHANGED <<call, attempt, cancelled, parsed, after, whole, events>>

\* list_models, a call of its own: a bad status or a transport error is a bad catalogue.
ListModels ==
  /\ phase = "idle" /\ p \in {"anthropic", "responses", "compatible"}
  /\ \E c \in Configs, d \in Catalogues : Over(<<IF ConfigAccepted(c) THEN Listed(d) ELSE "raised">>)
  /\ UNCHANGED <<call, attempt, cancelled, parsed, after, whole, events>>

\* Mutated form of Yielded: an attempt that has shown something may be repeated.
YieldedNothing == FALSE

Yielded == \E i \in DOMAIN out : out[i].kind \in Call.shown

\* An attempt ends in an error: the call is repeated, or raises.
Fail(e) ==
  IF cancelled /\ p # "responses" THEN Over(Call.cancelled)
  ELSE IF Yielded \/ ~e.retryable \/ attempt >= Call.tries THEN Over(Call.fails)
  ELSE phase' = "waiting" /\ pending' = <<>> /\ out' = out

\* The delay between two attempts, which a cancellation cuts short.
Retry ==
  /\ phase = "waiting"
  /\ IF cancelled THEN Over(Call.cancelled) /\ UNCHANGED <<attempt, parsed, after, whole, events>>
     ELSE /\ phase' = "sending" /\ attempt' = attempt + 1 /\ parsed' = Fresh /\ after' = ReadOn
          /\ whole' = FALSE /\ events' = 0 /\ UNCHANGED <<out, pending>>
  /\ UNCHANGED <<call, cancelled>>

Cancel ==
  /\ ~cancelled /\ phase # "over" /\ cancelled' = TRUE
  /\ UNCHANGED <<call, phase, attempt, parsed, pending, after, out, whole, events>>

Reading == phase = "reading" /\ pending = <<>> /\ after = ReadOn

\* Mutated form of Closed: only a response is registered with the token, not the client.
ClosedResponse ==
  /\ cancelled /\ Reading
  /\ \E ks \in {Call.cancelled, <<"raised">>} : Over(ks)
  /\ UNCHANGED <<call, attempt, cancelled, parsed, after, whole, events>>

\* Cancelling closes the client: what waits for the server ends, cancelled, or with httpx's
\* error for a client or a stream that was closed before it was used, which nobody catches.
Closed ==
  /\ cancelled /\ (phase = "sending" \/ Reading)
  /\ \E ks \in {Call.cancelled, <<"raised">>} : Over(ks)
  /\ UNCHANGED <<call, attempt, cancelled, parsed, after, whole, events>>

TransportFails ==
  /\ ~cancelled /\ (phase = "sending" \/ Reading)
  /\ \E e \in TransportErrors : Fail(e)
  /\ UNCHANGED <<call, attempt, cancelled, parsed, after, whole, events>>

Refused ==
  /\ phase = "sending" /\ ~cancelled
  /\ \/ \E s \in {400, 401, 403, 408, 429, 500, 503, 504, 529} : Fail(StatusError(s))
     \/ \E t \in ContentTypes : Reads(t) = "nothing" /\ Fail(Invalid)
  /\ UNCHANGED <<call, attempt, cancelled, parsed, after, whole, events>>

ReceiveJson ==
  /\ phase = "sending" /\ ~cancelled /\ \E t \in ContentTypes : Reads(t) = "json"
  /\ phase' = "reading"
  /\ \E b \in Bodies : /\ pending' = Json(b).emits /\ after' = Json(b).then
                       /\ whole' = (b \notin {"bad", "half"})
  /\ UNCHANGED <<call, attempt, cancelled, parsed, out, events>>

ReceiveStream ==
  /\ phase = "sending" /\ ~cancelled /\ \E t \in ContentTypes : Reads(t) = "events"
  /\ phase' = "reading"
  /\ UNCHANGED <<call, attempt, cancelled, parsed, pending, after, out, whole, events>>

Parse(a) == parsed' = a.parsed /\ pending' = a.emits /\ after' = a.then

ServerSends(e) ==
  /\ Reading /\ ~(cancelled /\ p = "responses") /\ events < MaxEvents
  /\ events' = events + 1
  /\ Parse(StepOf(e))
  /\ whole' = (whole \/ Ends(e))
  /\ UNCHANGED <<call, phase, attempt, cancelled, out>>

EndOfBody ==
  /\ Reading /\ ~(cancelled /\ p = "responses")
  /\ Parse(EndOf(parsed))
  /\ UNCHANGED <<call, phase, attempt, cancelled, out, whole, events>>

\* Every adapter but responses looks at the token before each event it yields.
Yield ==
  /\ pending # <<>>
  /\ IF cancelled /\ p # "responses" THEN Over(Call.cancelled)
     ELSE Yields(<<Head(pending)>>) /\ pending' = Tail(pending) /\ phase' = phase
  /\ UNCHANGED <<call, attempt, cancelled, parsed, after, whole, events>>

HasText == \E i \in DOMAIN out : out[i] = [kind |-> "text", try |-> attempt]

\* The attempt has been read to its end.
Settle ==
  /\ phase = "reading" /\ pending = <<>> /\ after # ReadOn
  /\ IF after # Done THEN Fail(after)
     ELSE CASE p = "anthropic" -> Over(<<>>)
            [] p = "responses" -> Over(IF cancelled /\ call.stream THEN <<"cancelled">> ELSE <<>>)
            [] p = "compatible" -> Over(IF cancelled THEN <<"cancelled">> ELSE <<>>)
            [] OTHER -> IF cancelled THEN Over(Call.cancelled)
                        ELSE IF ~HasText THEN Fail(Err("empty", FALSE)) ELSE Over(<<"completed">>)
  /\ UNCHANGED <<call, attempt, cancelled, parsed, after, whole, events>>

Next ==
  \/ ListModels \/ Begin \/ Retry \/ Cancel \/ Closed \/ TransportFails \/ Refused
  \/ ReceiveJson \/ ReceiveStream \/ EndOfBody \/ Yield \/ Settle
  \/ \E e \in ServerEvents : ServerSends(e)

\* The thread of the call goes on, and a closed client wakes it up.
GoesOn == ListModels \/ Begin \/ Retry \/ Yield \/ Settle
Fairness == WF_vars(GoesOn) /\ WF_vars(Closed)
Spec == Init /\ [][Next]_vars /\ Fairness

-----------------------------------------------------------------------------
Positions(S) == {i \in DOMAIN out : out[i].kind \in S}
Terminal == {"completed", "error", "raised"}

(* Text is shown from one attempt only: an error after the first text is   *)
(* reported and not retried, for a repeat would show the text twice.       *)
TextFromOneAttempt ==
  \A i \in Positions({"text"}) : \A j \in i..Len(out) : out[j].try = out[i].try

(* What a consumer may rely on, whatever server and user do: one start, no *)
(* text before it, nothing but a cancellation after the end, an end for    *)
(* every call that is not cancelled, and no completion of a stream that    *)
(* was cut off before the server ended its answer (all five parsers).      *)
WellFormed ==
  /\ \A i, j \in Positions({"started"}) : i = j
  /\ \A i \in Positions({"text", "usage", "completed"}) : i > 1 /\ out[1].kind = "started"
  /\ \A i \in Positions(Terminal) : \A j \in i + 1..Len(out) : out[j].kind = "cancelled" /\ cancelled
  /\ phase = "over" /\ ~cancelled => out # <<>> /\ Last(out).kind \in Terminal \cup {"cancelled", "models"}
  /\ Positions({"completed"}) # {} => whole

(* A cancelled call ends, though the server never answers: the token holds *)
(* the close of the client.                                                *)
CancelledCallEnds == cancelled ~> phase = "over"
=============================================================================
