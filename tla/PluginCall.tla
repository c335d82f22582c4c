------------------------------ MODULE PluginCall ------------------------------
(***************************************************************************)
(* Calls of trusted plugins: PluginCallBudget, PluginExecution and         *)
(* BoundedPluginExecutor (reflex_runtime/plugin_limits.py) with the two    *)
(* loops of RuntimeContext that use them, _run_plugin_call on a runtime    *)
(* worker (the caller) and _execute_plugin_call on an isolated thread (the *)
(* plugin).  The two share a token, a deadline timer and a bounded queue;  *)
(* all calls share the slots of the executor.                              *)
(***************************************************************************)
EXTENDS Naturals, Sequences, FiniteSets

CONSTANTS
  Calls,       \* the plugin_call requests
  MaxWorkers,  \* max_workers of the executor: its slots
  Buffer,      \* max_buffered_events of a call
  MaxEvents    \* max_events of a call's budget

ASSUME PluginAssumption ==
  /\ IsFiniteSet(Calls)
  /\ MaxWorkers \in Nat \ {0} /\ Buffer \in Nat \ {0} /\ MaxEvents \in Nat \ {0}

VARIABLES
  caller,     \* where the runtime worker of the call is
  plugin,     \* where the isolated thread of the call is
  item,       \* the message in the plugin thread's hand
  got,        \* the message in the caller's hand
  queue,      \* PluginExecution._messages
  completed,  \* PluginExecution._completed
  events,     \* PluginCallBudget._events
  token,      \* the call's CancellationToken
  late,       \* has the deadline passed?  (PluginCallBudget.expired)
  timer,      \* is the budget's timer running?
  answer,     \* the terminal event written for the call
  slots,      \* free slots of the executor
  threads,    \* BoundedPluginExecutor._threads
  closed,     \* BoundedPluginExecutor._closed
  asked,      \* history: did the user cancel the call?
  extra       \* history: plugin events written since the token was set

callerVars   == <<caller, got, answer, extra>>
pluginVars   == <<plugin, item, completed, events>>
budgetVars   == <<token, late, timer>>
executorVars == <<slots, threads, closed>>
vars == <<callerVars, pluginVars, queue, budgetVars, executorVars, asked>>

Failures == {"denied", "raised", "limit"}
Messages == {"event", "result", "error"} \cup Failures

Init ==
  /\ caller = [c \in Calls |-> "idle"]
  /\ plugin = [c \in Calls |-> "none"]
  /\ item = [c \in Calls |-> "stream"]
  /\ got = [c \in Calls |-> "event"]
  /\ queue = [c \in Calls |-> <<>>]
  /\ completed = [c \in Calls |-> FALSE]
  /\ events = [c \in Calls |-> 0]
  /\ token = [c \in Calls |-> FALSE]
  /\ late = [c \in Calls |-> FALSE]
  /\ timer = [c \in Calls |-> FALSE]
  /\ answer = [c \in Calls |-> "none"]
  /\ slots = MaxWorkers /\ threads = {} /\ closed = FALSE
  /\ asked = [c \in Calls |-> FALSE]
  /\ extra = [c \in Calls |-> 0]

-----------------------------------------------------------------------------
(* The caller: _run_plugin_call and BoundedPluginExecutor.submit.          *)

CallerAt(c, from, to) == caller[c] = from /\ caller' = [caller EXCEPT ![c] = to]

\* Write the terminal event and stop the timer (the finally of the call).
Answer(c, terminal) ==
  /\ caller' = [caller EXCEPT ![c] = "over"]
  /\ answer' = [answer EXCEPT ![c] = terminal]
  /\ timer' = [timer EXCEPT ![c] = FALSE]
  /\ UNCHANGED <<got, extra>>

\* What an exception of any kind is reported as.
Reported(c) ==
  IF late[c] THEN "timeout" ELSE IF token[c] THEN "cancelled" ELSE "error"

\* The budget starts its timer and the started event is written.
Begin(c) ==
  /\ CallerAt(c, "idle", "acquire")
  /\ timer' = [timer EXCEPT ![c] = TRUE]
  /\ UNCHANGED <<got, answer, extra, pluginVars, queue, token, late, executorVars, asked>>

NoSlot == closed \/ slots = 0

AcquireBusy(c) ==
  /\ caller[c] = "acquire" /\ NoSlot
  /\ Answer(c, "busy")
  /\ UNCHANGED <<pluginVars, queue, token, late, executorVars, asked>>

Acquire(c) ==
  /\ ~NoSlot /\ CallerAt(c, "acquire", "add")
  /\ slots' = slots - 1
  /\ UNCHANGED <<got, answer, extra, pluginVars, queue, budgetVars, threads, closed, asked>>

\* The thread cannot be created: the slot is given back.
CreateFails(c) ==
  /\ caller[c] = "add"
  /\ slots' = slots + 1
  /\ Answer(c, Reported(c))
  /\ UNCHANGED <<pluginVars, queue, token, late, threads, closed, asked>>

\* Mutated form of AddBusy: the slot is not given back.
AddBusyKeepsSlot(c) ==
  /\ caller[c] = "add" /\ closed
  /\ Answer(c, "busy")
  /\ UNCHANGED <<pluginVars, queue, token, late, executorVars, asked>>

\* The executor was closed in between.
AddBusy(c) ==
  /\ caller[c] = "add" /\ closed
  /\ slots' = slots + 1
  /\ Answer(c, "busy")
  /\ UNCHANGED <<pluginVars, queue, token, late, threads, closed, asked>>

Add(c) ==
  /\ ~closed /\ CallerAt(c, "add", "start")
  /\ threads' = threads \cup {c}
  /\ UNCHANGED <<got, answer, extra, pluginVars, queue, budgetVars, slots, closed, asked>>

StartFails(c) ==
  /\ caller[c] = "start"
  /\ threads' = threads \ {c} /\ slots' = slots + 1
  /\ Answer(c, Reported(c))
  /\ UNCHANGED <<pluginVars, queue, token, late, closed, asked>>

Start(c) ==
  /\ CallerAt(c, "start", "budget")
  /\ plugin' = [plugin EXCEPT ![c] = "invoke"]
  /\ UNCHANGED <<got, answer, extra, item, completed, events, queue, budgetVars,
                 executorVars, asked>>

\* budget.check()
CheckBudget(c) ==
  /\ ~late[c] /\ CallerAt(c, "budget", "token")
  /\ UNCHANGED <<got, answer, extra, pluginVars, queue, budgetVars, executorVars, asked>>

BudgetExpired(c) ==
  /\ caller[c] = "budget" /\ late[c]
  /\ token' = [token EXCEPT ![c] = TRUE]
  /\ Answer(c, "timeout")
  /\ UNCHANGED <<pluginVars, queue, late, executorVars, asked>>

CheckToken(c) ==
  /\ ~token[c] /\ CallerAt(c, "token", "receive")
  /\ UNCHANGED <<got, answer, extra, pluginVars, queue, budgetVars, executorVars, asked>>

Cancelled(c) ==
  /\ caller[c] = "token" /\ token[c]
  /\ Answer(c, "cancelled")
  /\ UNCHANGED <<pluginVars, queue, token, late, executorVars, asked>>

Receive(c) ==
  /\ queue[c] # <<>> /\ CallerAt(c, "receive", "emit")
  /\ got' = [got EXCEPT ![c] = Head(queue[c])]
  /\ queue' = [queue EXCEPT ![c] = Tail(queue[c])]
  /\ UNCHANGED <<answer, extra, pluginVars, budgetVars, executorVars, asked>>

\* 50 ms pass without a message.
ReceiveNothing(c) ==
  /\ queue[c] = <<>> /\ CallerAt(c, "receive", "empty")
  /\ UNCHANGED <<got, answer, extra, pluginVars, queue, budgetVars, executorVars, asked>>

\* Mutated form of KeepWaiting: the budget is only looked at once.
WaitOnly(c) ==
  /\ ~completed[c] /\ CallerAt(c, "empty", "receive")
  /\ UNCHANGED <<got, answer, extra, pluginVars, queue, budgetVars, executorVars, asked>>

KeepWaiting(c) ==
  /\ ~completed[c] /\ CallerAt(c, "empty", "budget")
  /\ UNCHANGED <<got, answer, extra, pluginVars, queue, budgetVars, executorVars, asked>>

\* The plugin thread is gone: CapabilityDenied("plugin_failed").
PluginFailed(c) ==
  /\ caller[c] = "empty" /\ completed[c]
  /\ Answer(c, IF late[c] THEN "timeout" ELSE "failed")
  /\ UNCHANGED <<pluginVars, queue, token, late, executorVars, asked>>

\* Mutated form of Emit: the loop goes on without looking at the budget and
\* the token again.
EmitAndReceive(c) ==
  /\ got[c] = "event" /\ CallerAt(c, "emit", "receive")
  /\ extra' = IF token[c] THEN [extra EXCEPT ![c] = @ + 1] ELSE extra
  /\ UNCHANGED <<got, answer, pluginVars, queue, budgetVars, executorVars, asked>>

Emit(c) ==
  /\ got[c] = "event" /\ CallerAt(c, "emit", "budget")
  /\ extra' = IF token[c] THEN [extra EXCEPT ![c] = @ + 1] ELSE extra
  /\ UNCHANGED <<got, answer, pluginVars, queue, budgetVars, executorVars, asked>>

\* Every other message ends the call.
EmitLast(c) ==
  /\ caller[c] = "emit" /\ got[c] # "event"
  /\ Answer(c, CASE got[c] \in {"result", "error"} -> got[c]
                 [] got[c] = "limit"  -> "error"
                 [] got[c] = "denied" -> IF late[c] THEN "timeout" ELSE "error"
                 [] got[c] = "raised" -> Reported(c))
  /\ UNCHANGED <<pluginVars, queue, token, late, executorVars, asked>>

-----------------------------------------------------------------------------
(* The plugin's thread: _run and _execute_plugin_call.                     *)

Hold(c, message, to) ==
  /\ item' = [item EXCEPT ![c] = message]
  /\ plugin' = [plugin EXCEPT ![c] = to]
  /\ UNCHANGED <<completed, events>>

PluginAt(c, from, to) ==
  /\ plugin[c] = from /\ plugin' = [plugin EXCEPT ![c] = to]
  /\ UNCHANGED <<item, completed, events>>

\* invoke returns a dict or an iterable.
Invoke(c) ==
  /\ plugin[c] = "invoke"
  /\ \E message \in {"stream", "result"} : Hold(c, message, "budget")
  /\ UNCHANGED <<callerVars, queue, budgetVars, executorVars, asked>>

\* The iterable yields something.
Yield(c) ==
  /\ plugin[c] = "next"
  /\ \E message \in {"event", "result", "error"} : Hold(c, message, "budget")
  /\ UNCHANGED <<callerVars, queue, budgetVars, executorVars, asked>>

\* The iterable ends without a result: an empty one is accounted and sent.
Exhausted(c) ==
  /\ plugin[c] = "next"
  /\ Hold(c, "result", "account")
  /\ UNCHANGED <<callerVars, queue, budgetVars, executorVars, asked>>

\* The plugin, or the gate in front of it, raises; what it returned or yielded
\* is refused as an invalid result.
Raises(c) ==
  /\ \/ plugin[c] \in {"invoke", "next"} /\ \E f \in {"denied", "raised"} : Hold(c, f, "send")
     \/ plugin[c] = "check" /\ ~token[c] /\ Hold(c, "denied", "send")
  /\ UNCHANGED <<callerVars, queue, budgetVars, executorVars, asked>>

\* budget.check(), before the token is looked at and in account_event.
PluginOnTime(c) ==
  /\ ~late[c] /\ PluginAt(c, "budget", "check")
  /\ UNCHANGED <<callerVars, queue, budgetVars, executorVars, asked>>

PluginLate(c) ==
  /\ plugin[c] \in {"budget", "account"} /\ late[c]
  /\ token' = [token EXCEPT ![c] = TRUE]
  /\ Hold(c, "limit", "send")
  /\ UNCHANGED <<callerVars, queue, late, timer, executorVars, asked>>

PluginStops(c) ==
  /\ token[c] /\ PluginAt(c, "check", "finish")
  /\ UNCHANGED <<callerVars, queue, budgetVars, executorVars, asked>>

PluginGoesOn(c) ==
  /\ ~token[c]
  /\ PluginAt(c, "check", IF item[c] = "stream" THEN "next" ELSE "account")
  /\ UNCHANGED <<callerVars, queue, budgetVars, executorVars, asked>>

OverBudget(c) == events[c] + 1 > MaxEvents

AccountFails(c) ==
  /\ plugin[c] = "account" /\ ~late[c] /\ OverBudget(c)
  /\ plugin' = [plugin EXCEPT ![c] = "send"]
  /\ item' = [item EXCEPT ![c] = "limit"]
  /\ events' = [events EXCEPT ![c] = @ + 1]
  /\ UNCHANGED <<completed, callerVars, queue, budgetVars, executorVars, asked>>

Account(c) ==
  /\ plugin[c] = "account" /\ ~late[c] /\ ~OverBudget(c)
  /\ plugin' = [plugin EXCEPT ![c] = "send"]
  /\ events' = [events EXCEPT ![c] = @ + 1]
  /\ UNCHANGED <<item, completed, callerVars, queue, budgetVars, executorVars, asked>>

\* Where the thread goes after a message was put in the queue.
AfterSend(c) == IF item[c] = "event" THEN "next" ELSE "finish"

\* send: the token is looked at, then put waits for room.
TrySend(c) ==
  /\ ~token[c] /\ PluginAt(c, "send", "put")
  /\ UNCHANGED <<callerVars, queue, budgetVars, executorVars, asked>>

\* Mutated form of GiveUpSend: a full queue is waited for without end.
GiveUpNever(c) ==
  /\ token[c] /\ Len(queue[c]) < Buffer /\ PluginAt(c, "send", "finish")
  /\ UNCHANGED <<callerVars, queue, budgetVars, executorVars, asked>>

GiveUpSend(c) ==
  /\ token[c] /\ PluginAt(c, "send", "finish")
  /\ UNCHANGED <<callerVars, queue, budgetVars, executorVars, asked>>

Put(c) ==
  /\ Len(queue[c]) < Buffer /\ PluginAt(c, "put", AfterSend(c))
  /\ queue' = [queue EXCEPT ![c] = Append(@, item[c])]
  /\ UNCHANGED <<callerVars, budgetVars, executorVars, asked>>

PutFull(c) ==
  /\ Len(queue[c]) = Buffer /\ PluginAt(c, "put", "send")
  /\ UNCHANGED <<callerVars, queue, budgetVars, executorVars, asked>>

\* The finally of _run.
MarkCompleted(c) ==
  /\ plugin[c] = "finish"
  /\ plugin' = [plugin EXCEPT ![c] = "release"]
  /\ completed' = [completed EXCEPT ![c] = TRUE]
  /\ UNCHANGED <<item, events, callerVars, queue, budgetVars, executorVars, asked>>

Release(c) ==
  /\ PluginAt(c, "release", "over")
  /\ threads' = threads \ {c} /\ slots' = slots + 1
  /\ UNCHANGED <<callerVars, queue, budgetVars, closed, asked>>

-----------------------------------------------------------------------------
(* Time, the user and the end of the runtime.                              *)

Tick(c) ==
  /\ ~late[c] /\ caller[c] # "idle"
  /\ late' = [late EXCEPT ![c] = TRUE]
  /\ UNCHANGED <<callerVars, pluginVars, queue, token, timer, executorVars, asked>>

\* PluginCallBudget._expire
Expire(c) ==
  /\ timer[c] /\ late[c]
  /\ timer' = [timer EXCEPT ![c] = FALSE]
  /\ token' = [token EXCEPT ![c] = TRUE]
  /\ UNCHANGED <<callerVars, pluginVars, queue, late, executorVars, asked>>

UserCancels(c) ==
  /\ caller[c] \notin {"idle", "over"} /\ ~asked[c]
  /\ token' = [token EXCEPT ![c] = TRUE]
  /\ asked' = [asked EXCEPT ![c] = TRUE]
  /\ UNCHANGED <<callerVars, pluginVars, queue, late, timer, executorVars>>

\* BoundedPluginExecutor.close, up to the bounded join.
CloseExecutor ==
  /\ ~closed /\ closed' = TRUE
  /\ UNCHANGED <<callerVars, pluginVars, queue, budgetVars, slots, threads, asked>>

-----------------------------------------------------------------------------
Caller(c) ==
  \/ AcquireBusy(c) \/ Acquire(c) \/ CreateFails(c) \/ AddBusy(c) \/ Add(c)
  \/ StartFails(c) \/ Start(c) \/ CheckBudget(c) \/ BudgetExpired(c)
  \/ CheckToken(c) \/ Cancelled(c) \/ Receive(c) \/ ReceiveNothing(c)
  \/ KeepWaiting(c) \/ PluginFailed(c) \/ Emit(c) \/ EmitLast(c)

\* What only the plugin's own code decides, and what the runtime does for it.
PluginCode(c) == Invoke(c) \/ Yield(c) \/ Exhausted(c) \/ Raises(c)
PluginThread(c) ==
  \/ PluginOnTime(c) \/ PluginLate(c) \/ PluginStops(c) \/ PluginGoesOn(c)
  \/ AccountFails(c) \/ Account(c) \/ TrySend(c) \/ GiveUpSend(c) \/ Put(c)
  \/ PutFull(c) \/ MarkCompleted(c) \/ Release(c)

Next ==
  \/ \E c \in Calls : \/ Begin(c) \/ Caller(c) \/ PluginCode(c) \/ PluginThread(c)
                      \/ Tick(c) \/ Expire(c) \/ UserCancels(c)
  \/ CloseExecutor

Spec == Init /\ [][Next]_vars

\* The runtime's threads run and time passes.  Nothing is asked of the plugin's
\* own code: it need never return.
FairSpec ==
  /\ Spec
  /\ \A c \in Calls : /\ WF_vars(Caller(c)) /\ WF_vars(PluginThread(c))
                      /\ WF_vars(Tick(c)) /\ WF_vars(Expire(c))

-----------------------------------------------------------------------------
(* Properties.                                                             *)

CallerPcs == {"idle", "acquire", "add", "start", "budget", "token", "receive",
              "empty", "emit", "over"}
PluginPcs == {"none", "invoke", "next", "budget", "check", "account", "send",
              "put", "finish", "release", "over"}

TypeOK ==
  /\ caller \in [Calls -> CallerPcs] /\ plugin \in [Calls -> PluginPcs]
  /\ item \in [Calls -> Messages \cup {"stream"}] /\ got \in [Calls -> Messages]
  /\ queue \in [Calls -> Seq(Messages)]
  /\ \A c \in Calls : Len(queue[c]) <= Buffer
  /\ completed \in [Calls -> BOOLEAN] /\ events \in [Calls -> 0..(MaxEvents + 1)]
  /\ token \in [Calls -> BOOLEAN] /\ late \in [Calls -> BOOLEAN]
  /\ timer \in [Calls -> BOOLEAN] /\ asked \in [Calls -> BOOLEAN]
  /\ answer \in [Calls -> {"none", "result", "error", "timeout", "cancelled",
                           "busy", "failed"}]
  /\ slots \in 0..MaxWorkers /\ threads \subseteq Calls /\ closed \in BOOLEAN
  /\ extra \in [Calls -> Nat]

\* Who holds a slot: a caller between acquire and start, then the plugin's
\* thread, even after its caller has left.
Holders ==
  {c \in Calls : caller[c] \in {"add", "start"} \/ plugin[c] \notin {"none", "over"}}

\* No slot is lost and none is given back twice, on any of the five ways out
\* of submit and _run; so never more than max_workers plugin threads exist.
SlotsAccounted == slots + Cardinality(Holders) = MaxWorkers

\* After a cancel or the deadline the client sees at most one more event of
\* the plugin, however many wait in the buffer.
CancelStopsEvents == \A c \in Calls : extra[c] <= 1

\* No plugin thread is filed once the executor is closed, also for a call that
\* had its slot before (plugin_limits.py:191).
ClosedStartsNothing == [][closed => threads' \subseteq threads]_vars

\* Every caller is released, though its plugin ignores the token and the
\* deadline for ever (backend-resource-lifecycle.md:32).
CallerIsReleased == \A c \in Calls : caller[c] = "acquire" ~> caller[c] = "over"

\* The runtime's part of the thread always comes to an end, though the buffer is
\* full and the caller has left: the plugin goes on or the slot is given back.
ThreadComesBack ==
  \A c \in Calls : plugin[c] \in PluginPcs \ {"none", "invoke", "next", "over"}
                     ~> plugin[c] \in {"next", "over"}

\* A call the user cancelled is not reported as a failure of a plugin that did
\* not fail (test_plugin_cancellation_emits_exactly_one_cancelled_terminal).
CancelIsNoFailure ==
  \A c \in Calls : answer[c] = "failed" /\ asked[c] => item[c] \in Failures
==============================================================================
