---------------------------- MODULE TaskScheduler ----------------------------
(***************************************************************************)
(* The request table and the bounded worker pool of the Python runtime     *)
(* (reflex_runtime/task_registry.py), driven the way RuntimeContext drives *)
(* them (reflex_runtime/context.py): submit, cancel, cancel_all, close and *)
(* synchronous commands come from client threads; a fixed set of workers   *)
(* takes tasks from a FIFO queue.  Every block the code runs under one     *)
(* lock is one action; what it does after releasing the lock is a separate *)
(* action, so that every interleaving of the threads is explored.          *)
(*                                                                         *)
(* A task stands for one submission, its cancellation token and its        *)
(* callbacks; the code tells tasks of one request id apart by the identity *)
(* of the token, the model by the identity of the task.                    *)
(***************************************************************************)
EXTENDS Naturals, Sequences, FiniteSets

CONSTANTS
  Clients,     \* threads that call into the runtime
  Workers,     \* the fixed worker threads: max_workers is their number
  RequestIds,
  Tasks,       \* submissions that may be attempted
  RidOf,       \* the request id each submission carries
  MaxQueue,    \* max_queue
  NoTask       \* None

ASSUME SchedulerAssumption ==
  /\ RidOf \in [Tasks -> RequestIds]
  /\ NoTask \notin Tasks
  /\ MaxQueue \in Nat \ {0}

VARIABLES
  registry,   \* TaskRegistry._tokens: the owner of each request id
  queue,      \* BoundedTaskScheduler._queue
  active,     \* BoundedTaskScheduler._active, keyed by request id
  cancelled,  \* tasks whose CancellationToken is set
  started,    \* _started
  closed,     \* _closed
  wpc,        \* where each worker thread is
  wtask,      \* the task a worker holds
  cpc,        \* where each client call is
  ctask,      \* the task a client is submitting
  crid,       \* the request id a client is cancelling
  chits,      \* tokens a call has read under a lock and has yet to cancel
  cqueue,     \* tasks a call removed from the queue and has yet to notify
  after,      \* what a call does once chits and cqueue are empty
  stage,      \* history: where each task is between its caller and its end
  runs,       \* history: how often task.run was called
  notes,      \* history: how often task.on_cancel was called
  target      \* history: the accepted task a cancel call was issued for

shared     == <<registry, queue, active, cancelled, started, closed>>
workerVars == <<wpc, wtask>>
callVars   == <<cpc, ctask, crid, chits, cqueue, after, target>>
history    == <<stage, runs, notes>>
vars       == <<shared, workerVars, callVars, history>>

Stages == {"new", "pending", "queued", "held", "drained", "ended",
           "rejected", "serving", "served"}
WorkerPcs == {"absent", "lock", "wait", "took", "run", "cleanup", "pop", "exited"}
ClientPcs == {"idle", "register", "enqueue", "serve", "lookup", "sweep",
              "notify", "all", "allThenClose", "close"}
Afters == {"idle", "all", "allThenClose", "close"}

\* A task that was accepted and whose fate is open: it waits or it runs.
Live(t) == stage[t] \in {"queued", "held"}

QueuedTasks == {queue[i] : i \in DOMAIN queue}
ActiveTasks == {active[r] : r \in RequestIds} \ {NoTask}

-----------------------------------------------------------------------------
Init ==
  /\ registry = [r \in RequestIds |-> NoTask]
  /\ queue = <<>>
  /\ active = [r \in RequestIds |-> NoTask]
  /\ cancelled = {}
  /\ started = FALSE
  /\ closed = FALSE
  /\ wpc = [w \in Workers |-> "absent"]
  /\ wtask = [w \in Workers |-> NoTask]
  /\ cpc = [c \in Clients |-> "idle"]
  /\ ctask = [c \in Clients |-> NoTask]
  /\ crid = [c \in Clients |-> NoTask]
  /\ chits = [c \in Clients |-> {}]
  /\ cqueue = [c \in Clients |-> <<>>]
  /\ after = [c \in Clients |-> "idle"]
  /\ target = [c \in Clients |-> NoTask]
  /\ stage = [t \in Tasks |-> "new"]
  /\ runs = [t \in Tasks |-> 0]
  /\ notes = [t \in Tasks |-> 0]

-----------------------------------------------------------------------------
\* TaskRegistry.cleanup: gives the id up only if this token still owns it.
Released(t) ==
  [registry EXCEPT ![RidOf[t]] = IF @ = t THEN NoTask ELSE @]

\* Mutated form of NotifyOne: the wake-up is forgotten.
NotifyNobody == UNCHANGED wpc

\* Condition.notify: wakes one waiting worker, if there is one.
NotifyOne ==
  \/ /\ \A w \in Workers : wpc[w] # "wait"
     /\ UNCHANGED wpc
  \/ \E w \in Workers :
       /\ wpc[w] = "wait"
       /\ wpc' = [wpc EXCEPT ![w] = "lock"]

\* Mutated form of Woken: close forgets to wake the workers.
StillAsleep(f) == f

\* Condition.notify_all: every waiting worker of f goes back for the lock.
Woken(f) == [w \in Workers |-> IF f[w] = "wait" THEN "lock" ELSE f[w]]

\* TaskRegistry.register refuses an id that has an owner.
Duplicate(t) == registry[RidOf[t]] # NoTask

\* submit raises: the caller is told, and nothing of the task remains.
Raise(c) ==
  /\ stage' = [stage EXCEPT ![ctask[c]] = "rejected"]
  /\ cpc' = [cpc EXCEPT ![c] = "idle"]
  /\ ctask' = [ctask EXCEPT ![c] = NoTask]

-----------------------------------------------------------------------------
(* submit: _ensure_workers_started, then register, then enqueue.           *)

SubmitClosed(c, t) ==
  /\ cpc[c] = "idle" /\ stage[t] = "new"
  /\ closed
  /\ stage' = [stage EXCEPT ![t] = "rejected"]
  /\ UNCHANGED <<shared, workerVars, callVars, runs, notes>>

\* The first submit starts the workers.
Submit(c, t) ==
  /\ cpc[c] = "idle" /\ stage[t] = "new"
  /\ ~closed
  /\ started' = TRUE
  /\ wpc' = IF started THEN wpc ELSE [w \in Workers |-> "lock"]
  /\ cpc' = [cpc EXCEPT ![c] = "register"]
  /\ ctask' = [ctask EXCEPT ![c] = t]
  /\ stage' = [stage EXCEPT ![t] = "pending"]
  /\ UNCHANGED <<registry, queue, active, cancelled, closed, wtask, crid,
                 chits, cqueue, after, target, runs, notes>>

\* Starting a worker thread fails: the pool closes itself, and the workers
\* that did start are left to find that out.
SubmitStartFails(c, t) ==
  /\ cpc[c] = "idle" /\ stage[t] = "new"
  /\ ~closed /\ ~started
  /\ \E S \in SUBSET Workers :
       /\ S # Workers
       /\ wpc' = [w \in Workers |-> IF w \in S THEN "lock" ELSE "absent"]
  /\ closed' = TRUE
  /\ stage' = [stage EXCEPT ![t] = "rejected"]
  /\ UNCHANGED <<registry, queue, active, cancelled, started, wtask,
                 callVars, runs, notes>>

RegisterDuplicate(c) ==
  /\ cpc[c] = "register"
  /\ Duplicate(ctask[c])
  /\ Raise(c)
  /\ UNCHANGED <<shared, workerVars, crid, chits, cqueue, after, target, runs, notes>>

Register(c) ==
  LET t == ctask[c] IN
  /\ cpc[c] = "register"
  /\ ~Duplicate(t)
  /\ registry' = [registry EXCEPT ![RidOf[t]] = t]
  /\ cpc' = [cpc EXCEPT ![c] = "enqueue"]
  /\ UNCHANGED <<queue, active, cancelled, started, closed, workerVars, ctask,
                 crid, chits, cqueue, after, target, history>>

Full == Cardinality(ActiveTasks) + Len(queue) >= Cardinality(Workers) + MaxQueue

Refused == closed \/ Full

EnqueueRefused(c) ==
  /\ cpc[c] = "enqueue"
  /\ Refused
  /\ registry' = Released(ctask[c])
  /\ Raise(c)
  /\ UNCHANGED <<queue, active, cancelled, started, closed, workerVars, crid,
                 chits, cqueue, after, target, runs, notes>>

Enqueue(c) ==
  LET t == ctask[c] IN
  /\ cpc[c] = "enqueue"
  /\ ~Refused
  /\ queue' = Append(queue, t)
  /\ NotifyOne
  /\ stage' = [stage EXCEPT ![t] = "queued"]
  /\ cpc' = [cpc EXCEPT ![c] = "idle"]
  /\ ctask' = [ctask EXCEPT ![c] = NoTask]
  /\ UNCHANGED <<registry, active, cancelled, started, closed, wtask, crid,
                 chits, cqueue, after, target, runs, notes>>

-----------------------------------------------------------------------------
(* _handle_synchronous: the id is owned while the command is answered.     *)

ServeDuplicate(c, t) ==
  /\ cpc[c] = "idle" /\ stage[t] = "new"
  /\ Duplicate(t)
  /\ stage' = [stage EXCEPT ![t] = "rejected"]
  /\ UNCHANGED <<shared, workerVars, callVars, runs, notes>>

Serve(c, t) ==
  /\ cpc[c] = "idle" /\ stage[t] = "new"
  /\ ~Duplicate(t)
  /\ registry' = [registry EXCEPT ![RidOf[t]] = t]
  /\ stage' = [stage EXCEPT ![t] = "serving"]
  /\ cpc' = [cpc EXCEPT ![c] = "serve"]
  /\ ctask' = [ctask EXCEPT ![c] = t]
  /\ UNCHANGED <<queue, active, cancelled, started, closed, workerVars, crid,
                 chits, cqueue, after, target, runs, notes>>

Served(c) ==
  /\ cpc[c] = "serve"
  /\ registry' = Released(ctask[c])
  /\ stage' = [stage EXCEPT ![ctask[c]] = "served"]
  /\ cpc' = [cpc EXCEPT ![c] = "idle"]
  /\ ctask' = [ctask EXCEPT ![c] = NoTask]
  /\ UNCHANGED <<queue, active, cancelled, started, closed, workerVars, crid,
                 chits, cqueue, after, target, runs, notes>>

-----------------------------------------------------------------------------
(* RuntimeContext.cancel: the scheduler first, then the registry.          *)

\* The accepted task a client means when it cancels request id r.
Meant(r) ==
  IF registry[r] # NoTask /\ Live(registry[r]) THEN registry[r] ELSE NoTask

\* The queue q without its i-th task.
Without(q, i) == [j \in 1..(Len(q) - 1) |-> IF j < i THEN q[j] ELSE q[j + 1]]

CancelQueued(c, r) ==
  /\ cpc[c] = "idle"
  /\ \E i \in DOMAIN queue :
       /\ RidOf[queue[i]] = r
       /\ \A j \in 1..(i - 1) : RidOf[queue[j]] # r
       /\ cqueue' = [cqueue EXCEPT ![c] = <<queue[i]>>]
       /\ stage' = [stage EXCEPT ![queue[i]] = "drained"]
       /\ queue' = Without(queue, i)
  /\ cpc' = [cpc EXCEPT ![c] = "sweep"]
  /\ after' = [after EXCEPT ![c] = "idle"]
  /\ target' = [target EXCEPT ![c] = Meant(r)]
  /\ UNCHANGED <<registry, active, cancelled, started, closed, workerVars,
                 ctask, crid, chits, runs, notes>>

CancelActive(c, r) ==
  /\ cpc[c] = "idle"
  /\ \A t \in QueuedTasks : RidOf[t] # r
  /\ active[r] # NoTask
  /\ cancelled' = cancelled \cup {active[r]}
  /\ cpc' = [cpc EXCEPT ![c] = "sweep"]
  /\ after' = [after EXCEPT ![c] = "idle"]
  /\ target' = [target EXCEPT ![c] = Meant(r)]
  /\ UNCHANGED <<registry, queue, active, started, closed, workerVars, ctask,
                 crid, chits, cqueue, history>>

\* Mutated form of CancelUnknown: the scheduler's answer is taken as final.
CancelGivesUp(c, r) ==
  /\ cpc[c] = "idle"
  /\ \A t \in QueuedTasks : RidOf[t] # r
  /\ active[r] = NoTask
  /\ cpc' = [cpc EXCEPT ![c] = "sweep"]
  /\ target' = [target EXCEPT ![c] = Meant(r)]
  /\ UNCHANGED <<shared, workerVars, ctask, crid, chits, cqueue, after, history>>

CancelUnknown(c, r) ==
  /\ cpc[c] = "idle"
  /\ \A t \in QueuedTasks : RidOf[t] # r
  /\ active[r] = NoTask
  /\ cpc' = [cpc EXCEPT ![c] = "lookup"]
  /\ crid' = [crid EXCEPT ![c] = r]
  /\ target' = [target EXCEPT ![c] = Meant(r)]
  /\ UNCHANGED <<shared, workerVars, ctask, chits, cqueue, after, history>>

\* The tokens registered for the request ids in S.
TokensOf(S) == {registry[r] : r \in S} \ {NoTask}

\* TaskRegistry.cancel reads the token under its lock and cancels it later.
Lookup(c) ==
  /\ cpc[c] = "lookup"
  /\ chits' = [chits EXCEPT ![c] = TokensOf({crid[c]})]
  /\ crid' = [crid EXCEPT ![c] = NoTask]
  /\ cpc' = [cpc EXCEPT ![c] = "sweep"]
  /\ UNCHANGED <<shared, workerVars, ctask, cqueue, after, target, history>>

-----------------------------------------------------------------------------
(* cancel_all and close.                                                   *)

\* The critical section that both share: the queue is emptied into the call.
DrainQueue(c) ==
  /\ cqueue' = [cqueue EXCEPT ![c] = queue]
  /\ stage' = [t \in Tasks |-> IF t \in QueuedTasks THEN "drained" ELSE stage[t]]
  /\ chits' = [chits EXCEPT ![c] = ActiveTasks]
  /\ queue' = <<>>
  /\ cpc' = [cpc EXCEPT ![c] = "sweep"]

\* RuntimeContext.cancel_all, alone or as the first half of close.
CancelAll(c) ==
  /\ cpc[c] = "idle"
  /\ DrainQueue(c)
  /\ \E next \in {"all", "allThenClose"} : after' = [after EXCEPT ![c] = next]
  /\ UNCHANGED <<registry, active, cancelled, started, closed, workerVars,
                 ctask, crid, target, runs, notes>>

\* Mutated form of CancelRegistered: only the scheduler is swept.
SkipRegistered(c) ==
  /\ cpc[c] \in {"all", "allThenClose"}
  /\ after' = [after EXCEPT ![c] = IF cpc[c] = "all" THEN "idle" ELSE "close"]
  /\ cpc' = [cpc EXCEPT ![c] = "sweep"]
  /\ UNCHANGED <<shared, workerVars, ctask, crid, chits, cqueue, target, history>>

\* TaskRegistry.cancel_all: the tokens of every registered request.
CancelRegistered(c) ==
  /\ cpc[c] \in {"all", "allThenClose"}
  /\ chits' = [chits EXCEPT ![c] = TokensOf(RequestIds)]
  /\ after' = [after EXCEPT ![c] = IF cpc[c] = "all" THEN "idle" ELSE "close"]
  /\ cpc' = [cpc EXCEPT ![c] = "sweep"]
  /\ UNCHANGED <<shared, workerVars, ctask, crid, cqueue, target, history>>

\* BoundedTaskScheduler.close (the join of the workers times out, so it
\* promises nothing and is left out).
Close(c) ==
  /\ cpc[c] = "close"
  /\ closed' = TRUE
  /\ DrainQueue(c)
  /\ after' = [after EXCEPT ![c] = "idle"]
  /\ wpc' = Woken(wpc)
  /\ UNCHANGED <<registry, active, cancelled, started, wtask, ctask, crid,
                 target, runs, notes>>

-----------------------------------------------------------------------------
(* What a call does after it released the lock.                            *)

CancelToken(c) ==
  /\ cpc[c] = "sweep"
  /\ \E t \in chits[c] :
       /\ cancelled' = cancelled \cup {t}
       /\ chits' = [chits EXCEPT ![c] = @ \ {t}]
  /\ UNCHANGED <<registry, queue, active, started, closed, workerVars, cpc,
                 ctask, crid, cqueue, after, target, history>>

ReleaseDrained(c) ==
  LET t == Head(cqueue[c]) IN
  /\ cpc[c] = "sweep" /\ chits[c] = {} /\ cqueue[c] # <<>>
  /\ cancelled' = cancelled \cup {t}
  /\ registry' = Released(t)
  /\ cpc' = [cpc EXCEPT ![c] = "notify"]
  /\ UNCHANGED <<queue, active, started, closed, workerVars, ctask, crid,
                 chits, cqueue, after, target, history>>

NotifyDrained(c) ==
  LET t == Head(cqueue[c]) IN
  /\ cpc[c] = "notify"
  /\ notes' = [notes EXCEPT ![t] = @ + 1]
  /\ stage' = [stage EXCEPT ![t] = "ended"]
  /\ cqueue' = [cqueue EXCEPT ![c] = Tail(@)]
  /\ cpc' = [cpc EXCEPT ![c] = "sweep"]
  /\ UNCHANGED <<shared, workerVars, ctask, crid, chits, after, target, runs>>

SweepDone(c) ==
  /\ cpc[c] = "sweep" /\ chits[c] = {} /\ cqueue[c] = <<>>
  /\ cpc' = [cpc EXCEPT ![c] = after[c]]
  /\ after' = [after EXCEPT ![c] = "idle"]
  /\ target' = [target EXCEPT ![c] = NoTask]
  /\ UNCHANGED <<shared, workerVars, ctask, crid, chits, cqueue, history>>

-----------------------------------------------------------------------------
(* _worker.                                                                *)

WaitForTask(w) ==
  /\ wpc[w] = "lock" /\ queue = <<>>
  /\ wpc' = [wpc EXCEPT ![w] = IF closed THEN "exited" ELSE "wait"]
  /\ UNCHANGED <<shared, wtask, callVars, history>>

\* Mutated form of Take: the id is given up as soon as the task starts.
TakeReleasesId(w) ==
  LET t == Head(queue) IN
  /\ wpc[w] = "lock" /\ queue # <<>>
  /\ queue' = Tail(queue)
  /\ active' = [active EXCEPT ![RidOf[t]] = t]
  /\ registry' = Released(t)
  /\ wtask' = [wtask EXCEPT ![w] = t]
  /\ wpc' = [wpc EXCEPT ![w] = "took"]
  /\ stage' = [stage EXCEPT ![t] = "held"]
  /\ UNCHANGED <<cancelled, started, closed, callVars, runs, notes>>

Take(w) ==
  LET t == Head(queue) IN
  /\ wpc[w] = "lock" /\ queue # <<>>
  /\ queue' = Tail(queue)
  /\ active' = [active EXCEPT ![RidOf[t]] = t]
  /\ wtask' = [wtask EXCEPT ![w] = t]
  /\ wpc' = [wpc EXCEPT ![w] = "took"]
  /\ stage' = [stage EXCEPT ![t] = "held"]
  /\ UNCHANGED <<registry, cancelled, started, closed, callVars, runs, notes>>

\* A token cancelled before its task starts: the worker reports it.
ReportCancelled(w) ==
  LET t == wtask[w] IN
  /\ wpc[w] = "took"
  /\ t \in cancelled
  /\ notes' = [notes EXCEPT ![t] = @ + 1]
  /\ stage' = [stage EXCEPT ![t] = "ended"]
  /\ wpc' = [wpc EXCEPT ![w] = "cleanup"]
  /\ UNCHANGED <<shared, wtask, callVars, runs>>

Run(w) ==
  LET t == wtask[w] IN
  /\ wpc[w] = "took"
  /\ t \notin cancelled
  /\ runs' = [runs EXCEPT ![t] = @ + 1]
  /\ wpc' = [wpc EXCEPT ![w] = "run"]
  /\ UNCHANGED <<shared, wtask, callVars, notes, stage>>

\* task.run returns or raises; both end the same way.
FinishRun(w) ==
  /\ wpc[w] = "run"
  /\ wpc' = [wpc EXCEPT ![w] = "cleanup"]
  /\ stage' = [stage EXCEPT ![wtask[w]] = "ended"]
  /\ UNCHANGED <<shared, wtask, callVars, runs, notes>>

Cleanup(w) ==
  /\ wpc[w] = "cleanup"
  /\ registry' = Released(wtask[w])
  /\ wpc' = [wpc EXCEPT ![w] = "pop"]
  /\ UNCHANGED <<queue, active, cancelled, started, closed, wtask, callVars, history>>

\* _active.pop(request_id): by request id, whichever task is filed under it.
Pop(w) ==
  /\ wpc[w] = "pop"
  /\ active' = [active EXCEPT ![RidOf[wtask[w]]] = NoTask]
  /\ wtask' = [wtask EXCEPT ![w] = NoTask]
  /\ wpc' = [Woken(wpc) EXCEPT ![w] = "lock"]
  /\ UNCHANGED <<registry, queue, cancelled, started, closed, callVars, history>>

-----------------------------------------------------------------------------
StartCall(c) ==
  \/ \E t \in Tasks :
       \/ SubmitClosed(c, t) \/ Submit(c, t) \/ SubmitStartFails(c, t)
       \/ ServeDuplicate(c, t) \/ Serve(c, t)
  \/ \E r \in RequestIds : CancelQueued(c, r) \/ CancelActive(c, r) \/ CancelUnknown(c, r)
  \/ CancelAll(c)

ContinueCall(c) ==
  \/ RegisterDuplicate(c) \/ Register(c) \/ EnqueueRefused(c) \/ Enqueue(c)
  \/ Served(c) \/ Lookup(c) \/ CancelRegistered(c) \/ Close(c)
  \/ CancelToken(c) \/ ReleaseDrained(c) \/ NotifyDrained(c) \/ SweepDone(c)

WorkerStep(w) ==
  \/ WaitForTask(w) \/ Take(w) \/ ReportCancelled(w) \/ Run(w)
  \/ FinishRun(w) \/ Cleanup(w) \/ Pop(w)

Next ==
  \/ \E c \in Clients : StartCall(c) \/ ContinueCall(c)
  \/ \E w \in Workers : WorkerStep(w)

Spec == Init /\ [][Next]_vars

\* A thread inside a call or a worker keeps running; nobody has to call.
\* Weak fairness of FinishRun is the budget every task runs under: the plugin
\* deadline timer and the optimize deadline cancel the task's token.
FairSpec ==
  /\ Spec
  /\ \A c \in Clients : WF_vars(ContinueCall(c))
  /\ \A w \in Workers : WF_vars(WorkerStep(w))

-----------------------------------------------------------------------------
(* Properties.                                                             *)

TypeOK ==
  /\ registry \in [RequestIds -> Tasks \cup {NoTask}]
  /\ queue \in Seq(Tasks)
  /\ active \in [RequestIds -> Tasks \cup {NoTask}]
  /\ cancelled \subseteq Tasks
  /\ started \in BOOLEAN /\ closed \in BOOLEAN
  /\ wpc \in [Workers -> WorkerPcs]
  /\ wtask \in [Workers -> Tasks \cup {NoTask}]
  /\ cpc \in [Clients -> ClientPcs]
  /\ ctask \in [Clients -> Tasks \cup {NoTask}]
  /\ crid \in [Clients -> RequestIds \cup {NoTask}]
  /\ chits \in [Clients -> SUBSET Tasks]
  /\ cqueue \in [Clients -> Seq(Tasks)]
  /\ after \in [Clients -> Afters]
  /\ target \in [Clients -> Tasks \cup {NoTask}]
  /\ stage \in [Tasks -> Stages]
  /\ runs \in [Tasks -> Nat]
  /\ notes \in [Tasks -> Nat]

\* Whatever is queued or being run owns its request id, so that the id the
\* user cancels, or sends again, names exactly the task that is alive under it
\* (TaskRegistry.register / cleanup against the queue and the workers).
LiveTaskOwnsItsId ==
  \A t \in Tasks : Live(t) => registry[RidOf[t]] = t

\* No submission is both run and reported cancelled, run twice or reported
\* twice, however worker, cancel, cancel_all and close interleave.
AtMostOneOutcome == \A t \in Tasks : runs[t] + notes[t] <= 1

\* close and an in-flight submit are atomic towards each other: nothing is
\* ever left in the queue of a closed scheduler
\* (test_bounded_scheduler_close_atomically_rejects_inflight_submit).
ClosedQueueStaysEmpty == closed => queue = <<>>

\* A cancel that returns has reached the task it was issued for, or the task
\* has ended in the meantime (RuntimeContext.cancel).
CancelReachesItsTask ==
  [][\A c \in Clients :
       target[c] # NoTask /\ target'[c] = NoTask =>
         target[c] \in cancelled \/ ~Live(target[c])]_vars

\* RuntimeContext.close leaves no accepted task uncancelled: the calling
\* threads are back, so every task still alive has its token set.
CloseCancelsEverything ==
  closed /\ started /\ (\A c \in Clients : cpc[c] = "idle")
    => \A t \in Tasks : Live(t) => t \in cancelled

\* No wake-up is lost: every accepted task comes to an end, run or reported as
\* cancelled, and after close every worker that was started leaves its loop.
\* (Tasks are submitted once: it is enough that none is under way in the end.)
NoWakeUpIsLost ==
  <>[](/\ \A t \in Tasks : stage[t] \notin {"queued", "held", "drained"}
       /\ closed => \A w \in Workers : wpc[w] \in {"absent", "exited"})

\* The scheduler implements TaskLifecycle.  A task that cancel, cancel_all or
\* close has taken out of the queue is cancelled from then on: its on_cancel
\* follows, and nothing else can happen to it.
PhaseOf(st, ran) ==
  CASE st = "queued"   -> "accepted"
    [] st = "held"     -> IF ran = 0 THEN "accepted" ELSE "running"
    [] st = "drained"  -> "cancelled"
    [] st = "ended"    -> IF ran = 0 THEN "cancelled" ELSE "done"
    [] st = "rejected" -> "rejected"
    [] OTHER           -> "new"

phase == [t \in Tasks |-> PhaseOf(stage[t], runs[t])]

Lifecycle == INSTANCE TaskLifecycle
LifecycleSpec == Lifecycle!Spec

-----------------------------------------------------------------------------
(* The inductive invariant: which thread may move which task.              *)

\* A task inside submit or a synchronous command belongs to one client.
CallsInv ==
  /\ \A c \in Clients : cpc[c] \in {"register", "enqueue", "serve"} => ctask[c] \in Tasks
  /\ \A c \in Clients : cpc[c] \in {"register", "enqueue"} =>
       started /\ stage[ctask[c]] = "pending"
  /\ \A c \in Clients : cpc[c] = "lookup" => crid[c] \in RequestIds
  /\ \A c \in Clients : cpc[c] = "serve" => stage[ctask[c]] = "serving"
  /\ \A c \in Clients : cpc[c] = "enqueue" => registry[RidOf[ctask[c]]] = ctask[c]
  /\ \A c, d \in Clients :
       cpc[c] \in {"register", "enqueue", "serve"}
         /\ cpc[d] \in {"register", "enqueue", "serve"}
         /\ ctask[c] = ctask[d] => c = d

\* The queue holds each queued task once, and only once there are workers.
QueueInv ==
  /\ ~started => queue = <<>>
  /\ \A i \in DOMAIN queue : stage[queue[i]] = "queued"
  /\ \A i, j \in DOMAIN queue : queue[i] = queue[j] => i = j

\* A drained task waits for its notification in one place of one call.
DrainInv ==
  /\ \A c \in Clients : \A i \in DOMAIN cqueue[c] : stage[cqueue[c][i]] = "drained"
  /\ \A c, d \in Clients : \A i \in DOMAIN cqueue[c] : \A j \in DOMAIN cqueue[d] :
       cqueue[c][i] = cqueue[d][j] => c = d /\ i = j
  /\ \A c \in Clients : cpc[c] = "notify" => cqueue[c] # <<>>

\* A held task is held by one worker.
WorkersInv ==
  /\ \A w \in Workers : wpc[w] \in {"took", "run", "cleanup", "pop"} => wtask[w] \in Tasks
  /\ \A w \in Workers : wpc[w] \in {"took", "run"} => stage[wtask[w]] = "held"
  /\ \A w \in Workers : wpc[w] = "took" => runs[wtask[w]] = 0
  /\ \A w \in Workers : wpc[w] = "run" => runs[wtask[w]] = 1
  /\ \A w \in Workers : wpc[w] \in {"cleanup", "pop"} => stage[wtask[w]] = "ended"
  /\ \A v, w \in Workers :
       wpc[v] \in {"took", "run"} /\ wpc[w] \in {"took", "run"} /\ wtask[v] = wtask[w] => v = w

OutcomeInv ==
  \A t \in Tasks :
    /\ stage[t] \notin {"held", "ended"} => runs[t] = 0 /\ notes[t] = 0
    /\ stage[t] = "held" => notes[t] = 0 /\ runs[t] <= 1
    /\ stage[t] = "ended" => runs[t] + notes[t] = 1

SchedulerInv ==
  /\ TypeOK
  /\ LiveTaskOwnsItsId
  /\ CallsInv
  /\ QueueInv
  /\ DrainInv
  /\ WorkersInv
  /\ OutcomeInv
  /\ ClosedQueueStaysEmpty
==============================================================================
