--------------------------- MODULE OptimizeRequest ---------------------------
(***************************************************************************)
(* One optimize request: the generator of OptimizeUseCase                  *)
(* (reflex_core/usecases/optimize.py) as RuntimeContext._run_optimize      *)
(* consumes it (reflex_runtime/context.py), its deadline watchdog, the     *)
(* cancellation token and a provider that may send anything.  Three        *)
(* threads meet here: the worker that runs the generator, the watchdog     *)
(* timer and whoever cancels.  Every read of the token, of the clock or of *)
(* the deadline is a step of its own.                                      *)
(***************************************************************************)
EXTENDS Naturals

CONSTANTS
  MaxChunks,      \* _MAX_OUTPUT_CHUNKS (the byte limit fails the same way)
  UsageMayClash   \* may a provider's usage repeat a key of its metadata?

ASSUME OptimizeAssumption == MaxChunks \in Nat \ {0} /\ UsageMayClash \in BOOLEAN

VARIABLES
  pc,        \* where the worker is
  then,      \* where it goes once the token and the clock are checked
  event,     \* the provider event in hand
  provider,  \* provider_started and provider_completed
  chunks,    \* output_chunks
  visible,   \* has a chunk that is not blank been produced?
  clash,     \* a usage key also occurs in the provider's metadata
  token,     \* CancellationToken: is it set?
  timer,     \* the watchdog thread
  time,      \* 0: in time, 1: the timer is due, 2: so says the clock too
  expired,   \* _RequestDeadline._expired
  closed,    \* _RequestDeadline._closed
  last,      \* the latest event written to the client
  stored,    \* what became of the history record
  asked,     \* history: did the user cancel?
  extra      \* history: progress written since the token was set

workerVars   == <<pc, then, event, provider, chunks, visible, clash>>
deadlineVars == <<timer, time, expired, closed>>
clientVars   == <<last, stored, extra>>
vars == <<workerVars, token, deadlineVars, clientVars, asked>>

Pcs == {"resolve", "validate", "check", "clock", "scene", "render", "request",
        "await", "handle", "finish", "complete", "stop", "fail", "expire",
        "expired", "save", "metric", "close", "over"}
Thens == {"scene", "render", "request", "handle", "finish"}
EventKinds == {"request_started", "text_delta", "blank_delta", "invisible_delta",
               "usage", "error", "completed", "cancelled", "foreign"}

Init ==
  /\ pc = "resolve" /\ then = "scene" /\ event = "foreign"
  /\ provider = "silent" /\ chunks = 0 /\ visible = FALSE /\ clash = FALSE
  /\ token = FALSE
  /\ timer = "off" /\ time = 0 /\ expired = FALSE /\ closed = FALSE
  /\ last = "nothing" /\ stored = "no" /\ asked = FALSE /\ extra = 0

-----------------------------------------------------------------------------
\* Write a progress event; those after a cancel are counted.
Write(e) ==
  /\ last' = e
  /\ extra' = IF token THEN extra + 1 ELSE extra
  /\ UNCHANGED stored

\* Write a terminal event or the metric.
Report(e) == last' = e /\ UNCHANGED <<stored, extra>>

\* Go to p, by way of is_cancelled and _deadline_exceeded.
CheckThen(p) == pc' = "check" /\ then' = p

\* Mutated form of Settle: the expiry is not looked at.
SettleBlindly(e) ==
  /\ closed' = TRUE
  /\ Report(e)
  /\ UNCHANGED <<timer, time, expired>>

\* Mutated form of Settle: the deadline is asked but not closed.
SettleOpen(e) ==
  /\ Report(IF expired THEN "timeout" ELSE e)
  /\ UNCHANGED <<closed, timer, time, expired>>

\* _RequestDeadline.try_complete decides between e and request_timeout.
Settle(e) ==
  /\ closed' = (closed \/ ~expired)
  /\ Report(IF expired THEN "timeout" ELSE e)
  /\ UNCHANGED <<timer, time, expired>>

-----------------------------------------------------------------------------
(* Before the provider is asked.                                           *)

\* The provider or the payload is refused before a use case exists.
ResolveFails ==
  /\ pc = "resolve"
  /\ pc' = "over" /\ Report("error")
  /\ UNCHANGED <<then, event, provider, chunks, visible, clash, token, deadlineVars, asked>>

\* optimize: the watchdog starts with the generator.
Resolve ==
  /\ pc = "resolve"
  /\ pc' = "validate" /\ timer' = "armed"
  /\ UNCHANGED <<then, event, provider, chunks, visible, clash, token, time,
                 expired, closed, clientVars, asked>>

InvalidInput ==
  /\ pc = "validate"
  /\ pc' = "fail"
  /\ UNCHANGED <<then, event, provider, chunks, visible, clash, token,
                 deadlineVars, clientVars, asked>>

Analyze ==
  /\ pc = "validate"
  /\ CheckThen("scene") /\ Write("analyzing")
  /\ UNCHANGED <<event, provider, chunks, visible, clash, token, deadlineVars, asked>>

\* Before the scene is detected only the token is looked at.
Check ==
  /\ pc = "check"
  /\ pc' = IF token THEN "stop" ELSE IF then = "scene" THEN "scene" ELSE "clock"
  /\ UNCHANGED <<then, event, provider, chunks, visible, clash, token,
                 deadlineVars, clientVars, asked>>

CheckClock ==
  /\ pc = "clock"
  /\ pc' = IF time = 2 THEN "expire" ELSE then
  /\ UNCHANGED <<then, event, provider, chunks, visible, clash, token,
                 deadlineVars, clientVars, asked>>

\* A detector that fails is replaced by the general scene.
DetectScene ==
  /\ pc = "scene"
  /\ CheckThen("render") /\ Write("scene")
  /\ UNCHANGED <<event, provider, chunks, visible, clash, token, deadlineVars, asked>>

Render ==
  /\ pc = "render"
  /\ pc' \in {"check", "fail"}
  /\ then' = "request"
  /\ UNCHANGED <<event, provider, chunks, visible, clash, token, deadlineVars,
                 clientVars, asked>>

Request ==
  /\ pc = "request"
  /\ pc' = "await" /\ Write("request")
  /\ UNCHANGED <<then, event, provider, chunks, visible, clash, token, deadlineVars, asked>>

-----------------------------------------------------------------------------
(* The provider's stream.                                                  *)

ProviderSends ==
  /\ pc = "await"
  /\ event' \in EventKinds
  /\ CheckThen("handle")
  /\ UNCHANGED <<provider, chunks, visible, clash, token, deadlineVars, clientVars, asked>>

\* The stream ends, raises an error or raises OperationCancelled.
ProviderStops ==
  /\ pc = "await"
  /\ \/ provider = "completed" /\ CheckThen("finish")
     \/ pc' \in {"fail", "stop"} /\ UNCHANGED then
  /\ UNCHANGED <<event, provider, chunks, visible, clash, token, deadlineVars,
                 clientVars, asked>>

IsText == event \in {"text_delta", "invisible_delta"}

\* What raises provider_invalid_response, or the provider's own error.
Unexpected ==
  \/ event \in {"foreign", "error"}
  \/ provider = "completed"
  \/ event = "request_started" /\ provider = "started"
  \/ event \notin {"request_started", "cancelled"} /\ provider = "silent"

TooLarge == IsText /\ chunks + 1 > MaxChunks

HandleFailure ==
  /\ pc = "handle"
  /\ Unexpected \/ TooLarge
  /\ pc' = "fail"
  /\ UNCHANGED <<then, event, provider, chunks, visible, clash, token,
                 deadlineVars, clientVars, asked>>

HandleText ==
  /\ pc = "handle" /\ ~Unexpected /\ IsText /\ ~TooLarge
  /\ pc' = "await" /\ Write("chunk")
  /\ chunks' = chunks + 1
  /\ visible' = (visible \/ event = "text_delta")
  /\ UNCHANGED <<then, event, provider, clash, token, deadlineVars, asked>>

HandleOther ==
  /\ pc = "handle" /\ ~Unexpected /\ ~IsText
  /\ pc' = IF event = "cancelled" THEN "stop" ELSE "await"
  /\ provider' = CASE event = "request_started" -> "started"
                   [] event = "completed" -> "completed"
                   [] OTHER -> provider
  /\ clash' \in IF event = "usage" /\ UsageMayClash THEN {clash, TRUE} ELSE {clash}
  /\ UNCHANGED <<then, event, chunks, visible, token, deadlineVars, clientVars, asked>>

-----------------------------------------------------------------------------
(* The end of the request.                                                 *)

\* Mutated form of Finish: an empty result is a result.
FinishEmpty ==
  /\ pc = "finish"
  /\ pc' = "complete"
  /\ UNCHANGED <<then, event, provider, chunks, visible, clash, token,
                 deadlineVars, clientVars, asked>>

Finish ==
  /\ pc = "finish"
  /\ pc' = IF visible THEN "complete" ELSE "fail"
  /\ UNCHANGED <<then, event, provider, chunks, visible, clash, token,
                 deadlineVars, clientVars, asked>>

\* The result is written if the deadline has not passed.
Complete ==
  /\ pc = "complete"
  /\ pc' = IF expired THEN "close" ELSE "save"
  /\ Settle("done")
  /\ UNCHANGED <<then, event, provider, chunks, visible, clash, token, asked>>

\* The record is stored between the result and its metric; the store gives up
\* when the token is set.
Save ==
  /\ pc = "save"
  /\ pc' = "metric"
  /\ stored' \in IF token THEN {"no", "failed", "cancelled"} ELSE {"no", "failed", "yes"}
  /\ UNCHANGED <<then, event, provider, chunks, visible, clash, token,
                 deadlineVars, last, extra, asked>>

\* metric_event(elapsed_seconds, **usage, **metadata): a repeated key raises.
Metric ==
  /\ pc = "metric"
  /\ \/ clash /\ pc' = "fail" /\ UNCHANGED clientVars
     \/ ~clash /\ pc' = "close" /\ Report("metric")
  /\ UNCHANGED <<then, event, provider, chunks, visible, clash, token, deadlineVars, asked>>

\* Mutated form of Stop: a cancel is reported without asking the deadline.
StopAtOnce ==
  /\ pc = "stop"
  /\ pc' = "close" /\ Report("cancelled")
  /\ UNCHANGED <<then, event, provider, chunks, visible, clash, token, deadlineVars, asked>>

\* _cancellation_terminal.
Stop ==
  /\ pc = "stop"
  /\ pc' = "close" /\ Settle("cancelled")
  /\ UNCHANGED <<then, event, provider, chunks, visible, clash, token, asked>>

\* Every other terminal: an error, unless the deadline has passed.
Fail ==
  /\ pc = "fail"
  /\ pc' = "close" /\ Settle("error")
  /\ UNCHANGED <<then, event, provider, chunks, visible, clash, token, asked>>

\* The worker sees the deadline pass before the watchdog does.
Expire ==
  /\ pc = "expire"
  /\ pc' = "expired"
  /\ expired' = (expired \/ ~closed)
  /\ UNCHANGED <<then, event, provider, chunks, visible, clash, token, timer,
                 time, closed, clientVars, asked>>

ReportExpired ==
  /\ pc = "expired"
  /\ pc' = "close" /\ Report("timeout")
  /\ token' = (token \/ expired)
  /\ UNCHANGED <<then, event, provider, chunks, visible, clash, deadlineVars, asked>>

\* optimize's finally.
CloseDeadline ==
  /\ pc = "close"
  /\ pc' = "over" /\ closed' = TRUE
  /\ UNCHANGED <<then, event, provider, chunks, visible, clash, token, timer,
                 time, expired, clientVars, asked>>

-----------------------------------------------------------------------------
(* The other threads.                                                      *)

\* 120 seconds pass.
Tick ==
  /\ timer # "off" /\ time < 2
  /\ time' = time + 1
  /\ UNCHANGED <<workerVars, token, timer, expired, closed, clientVars, asked>>

\* _RequestDeadline.expire on the watchdog thread; closing also stops a timer
\* that has not fired, which this covers: it fires and finds closed set.
WatchdogFires ==
  /\ timer = "armed" /\ time >= 1
  /\ expired' = (expired \/ ~closed)
  /\ timer' = IF closed THEN "off" ELSE "firing"
  /\ UNCHANGED <<workerVars, token, time, closed, clientVars, asked>>

\* Mutated form of WatchdogCancels: the watchdog only leaves a mark.
WatchdogForgets ==
  /\ timer = "firing"
  /\ timer' = "off"
  /\ UNCHANGED <<workerVars, token, time, expired, closed, clientVars, asked>>

WatchdogCancels ==
  /\ timer = "firing"
  /\ token' = TRUE /\ timer' = "off"
  /\ UNCHANGED <<workerVars, time, expired, closed, clientVars, asked>>

\* The user cancels, or the runtime shuts down.
UserCancels ==
  /\ ~asked /\ pc # "over"
  /\ token' = TRUE /\ asked' = TRUE
  /\ UNCHANGED <<workerVars, deadlineVars, clientVars>>

-----------------------------------------------------------------------------
Await == ProviderSends \/ ProviderStops

Work ==
  \/ ResolveFails \/ Resolve \/ InvalidInput \/ Analyze \/ Check \/ CheckClock
  \/ DetectScene \/ Render \/ Request \/ HandleFailure \/ HandleText \/ HandleOther
  \/ Finish \/ Complete \/ Save \/ Metric \/ Stop \/ Fail \/ Expire \/ ReportExpired
  \/ CloseDeadline

Watchdog == WatchdogFires \/ WatchdogCancels

Next == Work \/ Await \/ Tick \/ Watchdog \/ UserCancels

Spec == Init /\ [][Next]_vars

\* The worker and the watchdog run, time passes, and a provider whose token is
\* set comes back (the provider contract); an idle provider may be silent for
\* ever.
FairSpec ==
  /\ Spec
  /\ WF_vars(Work) /\ WF_vars(Tick) /\ WF_vars(Watchdog)
  /\ WF_vars(token /\ Await)

-----------------------------------------------------------------------------
(* Properties.                                                             *)

TypeOK ==
  /\ pc \in Pcs /\ then \in Thens /\ event \in EventKinds
  /\ provider \in {"silent", "started", "completed"}
  /\ chunks \in 0..MaxChunks
  /\ visible \in BOOLEAN /\ clash \in BOOLEAN /\ token \in BOOLEAN
  /\ timer \in {"off", "armed", "firing"} /\ time \in 0..2
  /\ expired \in BOOLEAN /\ closed \in BOOLEAN /\ asked \in BOOLEAN
  /\ last \in {"nothing", "analyzing", "scene", "request", "chunk", "done",
               "metric", "error", "timeout", "cancelled"}
  /\ stored \in {"no", "failed", "yes", "cancelled"}
  /\ extra \in Nat

\* A result and an expired deadline exclude each other, before and after the
\* result is written (try_complete against the watchdog).
ResultInTime == last \in {"done", "metric"} => ~expired

\* Once the deadline has expired the client hears of a timeout, whatever else
\* happens at the same moment: a user's cancel, a provider error, a result.
ExpiryIsReported == pc = "over" /\ expired => last = "timeout"

\* The deadline and the result: exactly one of them decides what the client hears.
DeadlineDecides == ResultInTime /\ ExpiryIsReported

\* The watchdog is silenced before the record is stored: only the user can
\* make the store give up a result the client already has
\* (test_error_terminal_closes_watchdog_before_generator_is_resumed).
OnlyUserStopsSave == pc = "metric" /\ stored = "cancelled" => asked

\* After a cancel the client sees at most one more piece of progress.
CancelStopsProgress == extra <= 1

\* The client sees the events in order and exactly one terminal.
Stream == INSTANCE EventStream
StreamSpec == Stream!Spec

\* Every request comes to an end, even if the provider never answers.
RequestEnds == <>(pc = "over")
==============================================================================
