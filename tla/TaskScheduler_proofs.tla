------------------------ MODULE TaskScheduler_proofs ------------------------
(***************************************************************************)
(* What holds of the scheduler for every number of clients, workers,       *)
(* submissions and request ids: the inductive invariant SchedulerInv, the  *)
(* safety properties that follow from it, that TaskScheduler implements    *)
(* TaskLifecycle, and that cancels and close reach whom they are meant for.*)
(***************************************************************************)
EXTENDS TaskScheduler, SequenceTheorems, TLAPS

\* Removing one element of a queue leaves a queue of the others, in order.
LEMMA WithoutSeq ==
  ASSUME NEW S, NEW q \in Seq(S), NEW i \in DOMAIN q
  PROVE  /\ Without(q, i) \in Seq(S)
         /\ DOMAIN Without(q, i) = 1..(Len(q) - 1)
         /\ \A j \in DOMAIN Without(q, i) :
              Without(q, i)[j] = IF j < i THEN q[j] ELSE q[j + 1]
<1>1. Len(q) \in Nat /\ DOMAIN q = 1..Len(q) /\ \A k \in 1..Len(q) : q[k] \in S
  BY LenProperties, ElementOfSeq
<1>2. Len(q) - 1 \in Nat
  BY <1>1
<1>3. Without(q, i) \in [1..(Len(q) - 1) -> S]
  BY <1>1 DEF Without
<1>4. Without(q, i) \in Seq(S)
  BY <1>2, <1>3, SeqDef
<1> QED
  BY <1>1, <1>4 DEF Without

\* What an owner gives up is its own id only.
LEMMA ReleasedOthers ==
  ASSUME TypeOK, NEW t \in Tasks
  PROVE  /\ Released(t) \in [RequestIds -> Tasks \cup {NoTask}]
         /\ \A u \in Tasks : u # t /\ registry[RidOf[u]] = u => Released(t)[RidOf[u]] = u
  BY SchedulerAssumption DEF TypeOK, Released

\* The names every step lemma needs.
LEMMA IdsOfTasks == \A t \in Tasks : RidOf[t] \in RequestIds /\ t # NoTask
  BY SchedulerAssumption

-----------------------------------------------------------------------------
(* Type correctness.                                                       *)

LEMMA InitType == Init => TypeOK
<1> SUFFICES ASSUME Init PROVE TypeOK
  OBVIOUS
<1> USE DEF Init
<1>1. queue \in Seq(Tasks) /\ cqueue \in [Clients -> Seq(Tasks)]
  BY EmptySeq
<1>2. /\ wpc \in [Workers -> WorkerPcs]
      /\ cpc \in [Clients -> ClientPcs]
      /\ after \in [Clients -> Afters]
      /\ stage \in [Tasks -> Stages]
  BY DEF WorkerPcs, ClientPcs, Afters, Stages
<1>3. runs \in [Tasks -> Nat] /\ notes \in [Tasks -> Nat]
  OBVIOUS
<1> QED
  BY <1>1, <1>2, <1>3 DEF TypeOK

LEMMA QueueType ==
  ASSUME TypeOK
  PROVE  /\ QueuedTasks \subseteq Tasks
         /\ ActiveTasks \subseteq Tasks
         /\ \A S \in SUBSET RequestIds : TokensOf(S) \subseteq Tasks
         /\ queue # <<>> => Head(queue) \in Tasks /\ Tail(queue) \in Seq(Tasks)
         /\ \A c \in Clients : cqueue[c] # <<>> =>
              Head(cqueue[c]) \in Tasks /\ Tail(cqueue[c]) \in Seq(Tasks)
         /\ \A r \in RequestIds : Meant(r) \in Tasks \cup {NoTask}
         /\ \A f \in [Workers -> WorkerPcs] : Woken(f) \in [Workers -> WorkerPcs]
  BY ElementOfSeq, LenProperties, HeadTailProperties
  DEF TypeOK, QueuedTasks, ActiveTasks, TokensOf, Meant, Woken, WorkerPcs

LEMMA NextType ==
  ASSUME SchedulerInv, [Next]_vars
  PROVE  TypeOK'
<1> USE SchedulerAssumption
<1>t. TypeOK /\ CallsInv /\ DrainInv /\ WorkersInv
  BY DEF SchedulerInv
<1> USE <1>t
<1> USE DEF WorkerPcs, ClientPcs, Afters, Stages, shared, workerVars, callVars, history
<1>1. ASSUME NEW c \in Clients, NEW t \in Tasks, SubmitClosed(c, t)
      PROVE TypeOK'
  BY <1>1 DEF TypeOK, SubmitClosed
<1>2. ASSUME NEW c \in Clients, NEW t \in Tasks, Submit(c, t)
      PROVE TypeOK'
  <2>1. wpc' \in [Workers -> WorkerPcs]
    BY <1>2 DEF TypeOK, Submit
  <2> QED
    BY <1>2, <2>1 DEF TypeOK, Submit
<1>3. ASSUME NEW c \in Clients, NEW t \in Tasks, SubmitStartFails(c, t)
      PROVE TypeOK'
  BY <1>3 DEF TypeOK, SubmitStartFails
<1>4. ASSUME NEW c \in Clients, NEW t \in Tasks, ServeDuplicate(c, t)
      PROVE TypeOK'
  BY <1>4 DEF TypeOK, ServeDuplicate
<1>5. ASSUME NEW c \in Clients, NEW t \in Tasks, Serve(c, t)
      PROVE TypeOK'
  BY <1>5 DEF TypeOK, Serve
<1>6. ASSUME NEW c \in Clients, NEW r \in RequestIds, CancelQueued(c, r)
      PROVE TypeOK'
  <2> PICK i \in DOMAIN queue :
         /\ cqueue' = [cqueue EXCEPT ![c] = <<queue[i]>>]
         /\ stage' = [stage EXCEPT ![queue[i]] = "drained"]
         /\ queue' = Without(queue, i)
    BY <1>6 DEF CancelQueued
  <2>1. queue[i] \in Tasks
    BY ElementOfSeq, LenProperties DEF TypeOK
  <2>2. queue' \in Seq(Tasks)
    BY WithoutSeq DEF TypeOK
  <2>3. <<queue[i]>> \in Seq(Tasks)
    BY <2>1
  <2> QED
    BY <1>6, <2>1, <2>2, <2>3, QueueType DEF TypeOK, CancelQueued
<1>7. ASSUME NEW c \in Clients, NEW r \in RequestIds, CancelActive(c, r)
      PROVE TypeOK'
  BY <1>7, QueueType DEF TypeOK, CancelActive
<1>8. ASSUME NEW c \in Clients, NEW r \in RequestIds, CancelUnknown(c, r)
      PROVE TypeOK'
  BY <1>8, QueueType DEF TypeOK, CancelUnknown
<1>9. ASSUME NEW c \in Clients, CancelAll(c)
      PROVE TypeOK'
  BY <1>9, QueueType, EmptySeq DEF TypeOK, CancelAll, DrainQueue
<1>10. ASSUME NEW c \in Clients, RegisterDuplicate(c)
       PROVE TypeOK'
  <2>1. ctask[c] \in Tasks
    BY <1>10 DEF CallsInv, RegisterDuplicate
  <2> QED
    BY <1>10, <2>1 DEF TypeOK, RegisterDuplicate, Raise
<1>11. ASSUME NEW c \in Clients, Register(c)
       PROVE TypeOK'
  <2>1. ctask[c] \in Tasks
    BY <1>11 DEF CallsInv, Register
  <2> QED
    BY <1>11, <2>1 DEF TypeOK, Register
<1>12. ASSUME NEW c \in Clients, EnqueueRefused(c)
       PROVE TypeOK'
  <2>1. ctask[c] \in Tasks
    BY <1>12 DEF CallsInv, EnqueueRefused
  <2> QED
    BY <1>12, <2>1, ReleasedOthers DEF TypeOK, EnqueueRefused, Raise
<1>13. ASSUME NEW c \in Clients, Enqueue(c)
       PROVE TypeOK'
  <2>1. ctask[c] \in Tasks
    BY <1>13 DEF CallsInv, Enqueue
  <2>2. queue' \in Seq(Tasks)
    BY <1>13, <2>1, AppendProperties DEF TypeOK, Enqueue
  <2>3. wpc' \in [Workers -> WorkerPcs]
    <3>1. NotifyOne
      BY <1>13 DEF Enqueue
    <3> QED
      BY <3>1 DEF TypeOK, NotifyOne
  <2> QED
    BY <1>13, <2>1, <2>2, <2>3 DEF TypeOK, Enqueue
<1>14. ASSUME NEW c \in Clients, Served(c)
       PROVE TypeOK'
  <2>1. ctask[c] \in Tasks
    BY <1>14 DEF CallsInv, Served
  <2> QED
    BY <1>14, <2>1, ReleasedOthers DEF TypeOK, Served
<1>15. ASSUME NEW c \in Clients, Lookup(c)
       PROVE TypeOK'
  <2>1. crid[c] \in RequestIds
    BY <1>15 DEF CallsInv, Lookup
  <2> QED
    BY <1>15, <2>1, QueueType DEF TypeOK, Lookup
<1>16. ASSUME NEW c \in Clients, CancelRegistered(c)
       PROVE TypeOK'
  BY <1>16, QueueType DEF TypeOK, CancelRegistered
<1>17. ASSUME NEW c \in Clients, Close(c)
       PROVE TypeOK'
  BY <1>17, QueueType, EmptySeq DEF TypeOK, Close, DrainQueue
<1>18. ASSUME NEW c \in Clients, CancelToken(c)
       PROVE TypeOK'
  BY <1>18 DEF TypeOK, CancelToken
<1>19. ASSUME NEW c \in Clients, ReleaseDrained(c)
       PROVE TypeOK'
  <2>1. Head(cqueue[c]) \in Tasks
    BY <1>19, QueueType DEF ReleaseDrained
  <2> QED
    BY <1>19, <2>1, ReleasedOthers DEF TypeOK, ReleaseDrained
<1>20. ASSUME NEW c \in Clients, NotifyDrained(c)
       PROVE TypeOK'
  <2>1. cqueue[c] # <<>>
    BY <1>20 DEF DrainInv, NotifyDrained
  <2>2. Head(cqueue[c]) \in Tasks /\ Tail(cqueue[c]) \in Seq(Tasks)
    BY <2>1, QueueType
  <2> QED
    BY <1>20, <2>2 DEF TypeOK, NotifyDrained
<1>21. ASSUME NEW c \in Clients, SweepDone(c)
       PROVE TypeOK'
  BY <1>21 DEF TypeOK, SweepDone
<1>22. ASSUME NEW w \in Workers, WaitForTask(w)
       PROVE TypeOK'
  BY <1>22 DEF TypeOK, WaitForTask
<1>23. ASSUME NEW w \in Workers, Take(w)
       PROVE TypeOK'
  BY <1>23, QueueType DEF TypeOK, Take
<1>24. ASSUME NEW w \in Workers, ReportCancelled(w)
       PROVE TypeOK'
  <2>1. wtask[w] \in Tasks
    BY <1>24 DEF WorkersInv, ReportCancelled
  <2> QED
    BY <1>24, <2>1 DEF TypeOK, ReportCancelled
<1>25. ASSUME NEW w \in Workers, Run(w)
       PROVE TypeOK'
  <2>1. wtask[w] \in Tasks
    BY <1>25 DEF WorkersInv, Run
  <2> QED
    BY <1>25, <2>1 DEF TypeOK, Run
<1>26. ASSUME NEW w \in Workers, FinishRun(w)
       PROVE TypeOK'
  <2>1. wtask[w] \in Tasks
    BY <1>26 DEF WorkersInv, FinishRun
  <2> QED
    BY <1>26, <2>1 DEF TypeOK, FinishRun
<1>27. ASSUME NEW w \in Workers, Cleanup(w)
       PROVE TypeOK'
  <2>1. wtask[w] \in Tasks
    BY <1>27 DEF WorkersInv, Cleanup
  <2> QED
    BY <1>27, <2>1, ReleasedOthers DEF TypeOK, Cleanup
<1>28. ASSUME NEW w \in Workers, Pop(w)
       PROVE TypeOK'
  <2>1. Woken(wpc) \in [Workers -> WorkerPcs]
    BY QueueType DEF TypeOK
  <2>2. wtask[w] \in Tasks
    BY <1>28 DEF WorkersInv, Pop
  <2> QED
    BY <1>28, <2>1, <2>2 DEF TypeOK, Pop
<1>29. ASSUME UNCHANGED vars
      PROVE TypeOK'
  BY <1>29 DEF TypeOK, vars
<1> QED
  BY <1>1, <1>2, <1>3, <1>4, <1>5, <1>6, <1>7, <1>8, <1>9, <1>10, <1>11, <1>12,
     <1>13, <1>14, <1>15, <1>16, <1>17, <1>18, <1>19, <1>20, <1>21, <1>22,
     <1>23, <1>24, <1>25, <1>26, <1>27, <1>28, <1>29
  DEF Next, StartCall, ContinueCall, WorkerStep

-----------------------------------------------------------------------------
(* Safety: each part of the invariant is kept by every step.               *)

\* An owner loses its id only after its fate is settled: Released is called
\* for tasks that are pending, serving, drained or ended.
LEMMA NextLive ==
  ASSUME SchedulerInv, [Next]_vars, TypeOK'
  PROVE  LiveTaskOwnsItsId'
<1> USE SchedulerAssumption
<1> USE DEF shared, workerVars, callVars, history
<1> USE DEF SchedulerInv
<1>1. ASSUME NEW c \in Clients, NEW t \in Tasks, SubmitClosed(c, t)
      PROVE LiveTaskOwnsItsId'
  BY <1>1 DEF TypeOK, LiveTaskOwnsItsId, SubmitClosed, Live
<1>2. ASSUME NEW c \in Clients, NEW t \in Tasks, Submit(c, t)
      PROVE LiveTaskOwnsItsId'
  BY <1>2 DEF TypeOK, LiveTaskOwnsItsId, Submit, Live
<1>3. ASSUME NEW c \in Clients, NEW t \in Tasks, SubmitStartFails(c, t)
      PROVE LiveTaskOwnsItsId'
  BY <1>3 DEF TypeOK, LiveTaskOwnsItsId, SubmitStartFails, Live
<1>4. ASSUME NEW c \in Clients, NEW t \in Tasks, ServeDuplicate(c, t)
      PROVE LiveTaskOwnsItsId'
  BY <1>4 DEF TypeOK, LiveTaskOwnsItsId, ServeDuplicate, Live
<1>5. ASSUME NEW c \in Clients, NEW t \in Tasks, Serve(c, t)
      PROVE LiveTaskOwnsItsId'
  BY <1>5, IdsOfTasks DEF TypeOK, LiveTaskOwnsItsId, Serve, Live, Duplicate
<1>6. ASSUME NEW c \in Clients, NEW r \in RequestIds, CancelQueued(c, r)
      PROVE LiveTaskOwnsItsId'
  BY <1>6 DEF TypeOK, LiveTaskOwnsItsId, CancelQueued, Live
<1>7. ASSUME NEW c \in Clients, NEW r \in RequestIds, CancelActive(c, r)
      PROVE LiveTaskOwnsItsId'
  BY <1>7 DEF TypeOK, LiveTaskOwnsItsId, CancelActive, Live
<1>8. ASSUME NEW c \in Clients, NEW r \in RequestIds, CancelUnknown(c, r)
      PROVE LiveTaskOwnsItsId'
  BY <1>8 DEF TypeOK, LiveTaskOwnsItsId, CancelUnknown, Live
<1>9. ASSUME NEW c \in Clients, CancelAll(c)
      PROVE LiveTaskOwnsItsId'
  BY <1>9 DEF TypeOK, LiveTaskOwnsItsId, CancelAll, Live, DrainQueue
<1>10. ASSUME NEW c \in Clients, RegisterDuplicate(c)
       PROVE LiveTaskOwnsItsId'
  BY <1>10 DEF TypeOK, LiveTaskOwnsItsId, RegisterDuplicate, Live, Raise
<1>11. ASSUME NEW c \in Clients, Register(c)
       PROVE LiveTaskOwnsItsId'
  BY <1>11, IdsOfTasks DEF TypeOK, LiveTaskOwnsItsId, Register, Live, Duplicate, CallsInv
<1>12. ASSUME NEW c \in Clients, EnqueueRefused(c)
       PROVE LiveTaskOwnsItsId'
  BY <1>12, ReleasedOthers, IdsOfTasks DEF TypeOK, LiveTaskOwnsItsId, EnqueueRefused, Live, Raise, CallsInv
<1>13. ASSUME NEW c \in Clients, Enqueue(c)
       PROVE LiveTaskOwnsItsId'
  BY <1>13 DEF TypeOK, LiveTaskOwnsItsId, Enqueue, Live, CallsInv
<1>14. ASSUME NEW c \in Clients, Served(c)
       PROVE LiveTaskOwnsItsId'
  BY <1>14, ReleasedOthers, IdsOfTasks DEF TypeOK, LiveTaskOwnsItsId, Served, Live, CallsInv
<1>15. ASSUME NEW c \in Clients, Lookup(c)
       PROVE LiveTaskOwnsItsId'
  BY <1>15 DEF TypeOK, LiveTaskOwnsItsId, Lookup, Live
<1>16. ASSUME NEW c \in Clients, CancelRegistered(c)
       PROVE LiveTaskOwnsItsId'
  BY <1>16 DEF TypeOK, LiveTaskOwnsItsId, CancelRegistered, Live
<1>17. ASSUME NEW c \in Clients, Close(c)
       PROVE LiveTaskOwnsItsId'
  BY <1>17 DEF TypeOK, LiveTaskOwnsItsId, Close, Live, DrainQueue
<1>18. ASSUME NEW c \in Clients, CancelToken(c)
       PROVE LiveTaskOwnsItsId'
  BY <1>18 DEF TypeOK, LiveTaskOwnsItsId, CancelToken, Live
<1>19. ASSUME NEW c \in Clients, ReleaseDrained(c)
       PROVE LiveTaskOwnsItsId'
  BY <1>19, QueueType, ReleasedOthers, IdsOfTasks, SMTT(30) DEF TypeOK, LiveTaskOwnsItsId, ReleaseDrained, Live, DrainInv
<1>20. ASSUME NEW c \in Clients, NotifyDrained(c)
       PROVE LiveTaskOwnsItsId'
  BY <1>20 DEF TypeOK, LiveTaskOwnsItsId, NotifyDrained, Live
<1>21. ASSUME NEW c \in Clients, SweepDone(c)
       PROVE LiveTaskOwnsItsId'
  BY <1>21 DEF TypeOK, LiveTaskOwnsItsId, SweepDone, Live
<1>22. ASSUME NEW w \in Workers, WaitForTask(w)
       PROVE LiveTaskOwnsItsId'
  BY <1>22 DEF TypeOK, LiveTaskOwnsItsId, WaitForTask, Live
<1>23. ASSUME NEW w \in Workers, Take(w)
       PROVE LiveTaskOwnsItsId'
  BY <1>23 DEF TypeOK, LiveTaskOwnsItsId, Take, Live, QueueInv
<1>24. ASSUME NEW w \in Workers, ReportCancelled(w)
       PROVE LiveTaskOwnsItsId'
  BY <1>24 DEF TypeOK, LiveTaskOwnsItsId, ReportCancelled, Live
<1>25. ASSUME NEW w \in Workers, Run(w)
       PROVE LiveTaskOwnsItsId'
  BY <1>25 DEF TypeOK, LiveTaskOwnsItsId, Run, Live
<1>26. ASSUME NEW w \in Workers, FinishRun(w)
       PROVE LiveTaskOwnsItsId'
  BY <1>26 DEF TypeOK, LiveTaskOwnsItsId, FinishRun, Live
<1>27. ASSUME NEW w \in Workers, Cleanup(w)
       PROVE LiveTaskOwnsItsId'
  BY <1>27, ReleasedOthers, IdsOfTasks DEF TypeOK, LiveTaskOwnsItsId, Cleanup, Live, WorkersInv
<1>28. ASSUME NEW w \in Workers, Pop(w)
       PROVE LiveTaskOwnsItsId'
  BY <1>28 DEF TypeOK, LiveTaskOwnsItsId, Pop, Live
<1>29. ASSUME UNCHANGED vars
      PROVE LiveTaskOwnsItsId'
  BY <1>29 DEF TypeOK, LiveTaskOwnsItsId, vars, Live
<1> QED
  BY <1>1, <1>2, <1>3, <1>4, <1>5, <1>6, <1>7, <1>8, <1>9, <1>10, <1>11, <1>12,
     <1>13, <1>14, <1>15, <1>16, <1>17, <1>18, <1>19, <1>20, <1>21, <1>22,
     <1>23, <1>24, <1>25, <1>26, <1>27, <1>28, <1>29
  DEF Next, StartCall, ContinueCall, WorkerStep

\* A submission in flight has one owner, and stays pending until that client
\* queues or rejects it.
LEMMA NextCalls ==
  ASSUME SchedulerInv, [Next]_vars, TypeOK'
  PROVE  CallsInv'
<1> USE SchedulerAssumption
<1> USE DEF shared, workerVars, callVars, history
<1> USE DEF SchedulerInv
<1>1. ASSUME NEW c \in Clients, NEW t \in Tasks, SubmitClosed(c, t)
      PROVE CallsInv'
  BY <1>1 DEF TypeOK, CallsInv, SubmitClosed
<1>2. ASSUME NEW c \in Clients, NEW t \in Tasks, Submit(c, t)
      PROVE CallsInv'
  BY <1>2 DEF TypeOK, CallsInv, Submit
<1>3. ASSUME NEW c \in Clients, NEW t \in Tasks, SubmitStartFails(c, t)
      PROVE CallsInv'
  BY <1>3 DEF TypeOK, CallsInv, SubmitStartFails
<1>4. ASSUME NEW c \in Clients, NEW t \in Tasks, ServeDuplicate(c, t)
      PROVE CallsInv'
  BY <1>4 DEF TypeOK, CallsInv, ServeDuplicate
<1>5. ASSUME NEW c \in Clients, NEW t \in Tasks, Serve(c, t)
      PROVE CallsInv'
  BY <1>5, IdsOfTasks DEF TypeOK, CallsInv, Serve, Duplicate
<1>6. ASSUME NEW c \in Clients, NEW r \in RequestIds, CancelQueued(c, r)
      PROVE CallsInv'
  BY <1>6 DEF TypeOK, CallsInv, CancelQueued, QueueInv
<1>7. ASSUME NEW c \in Clients, NEW r \in RequestIds, CancelActive(c, r)
      PROVE CallsInv'
  BY <1>7 DEF TypeOK, CallsInv, CancelActive
<1>8. ASSUME NEW c \in Clients, NEW r \in RequestIds, CancelUnknown(c, r)
      PROVE CallsInv'
  BY <1>8 DEF TypeOK, CallsInv, CancelUnknown
<1>9. ASSUME NEW c \in Clients, CancelAll(c)
      PROVE CallsInv'
  BY <1>9 DEF TypeOK, CallsInv, CancelAll, QueueInv, DrainQueue, QueuedTasks
<1>10. ASSUME NEW c \in Clients, RegisterDuplicate(c)
       PROVE CallsInv'
  BY <1>10 DEF TypeOK, CallsInv, RegisterDuplicate, Raise
<1>11. ASSUME NEW c \in Clients, Register(c)
       PROVE CallsInv'
  BY <1>11, IdsOfTasks DEF TypeOK, CallsInv, Register, Duplicate
<1>12. ASSUME NEW c \in Clients, EnqueueRefused(c)
       PROVE CallsInv'
  BY <1>12, ReleasedOthers, IdsOfTasks DEF TypeOK, CallsInv, EnqueueRefused, Raise
<1>13. ASSUME NEW c \in Clients, Enqueue(c)
       PROVE CallsInv'
  BY <1>13 DEF TypeOK, CallsInv, Enqueue
<1>14. ASSUME NEW c \in Clients, Served(c)
       PROVE CallsInv'
  BY <1>14, ReleasedOthers, IdsOfTasks DEF TypeOK, CallsInv, Served
<1>15. ASSUME NEW c \in Clients, Lookup(c)
       PROVE CallsInv'
  BY <1>15 DEF TypeOK, CallsInv, Lookup
<1>16. ASSUME NEW c \in Clients, CancelRegistered(c)
       PROVE CallsInv'
  BY <1>16 DEF TypeOK, CallsInv, CancelRegistered
<1>17. ASSUME NEW c \in Clients, Close(c)
       PROVE CallsInv'
  BY <1>17 DEF TypeOK, CallsInv, Close, QueueInv, DrainQueue, QueuedTasks
<1>18. ASSUME NEW c \in Clients, CancelToken(c)
       PROVE CallsInv'
  BY <1>18 DEF TypeOK, CallsInv, CancelToken
<1>19. ASSUME NEW c \in Clients, ReleaseDrained(c)
       PROVE CallsInv'
  <2>1. Head(cqueue[c]) \in Tasks /\ stage[Head(cqueue[c])] = "drained"
    BY <1>19, QueueType, HeadTailProperties, LenProperties, EmptySeq DEF TypeOK, DrainInv, ReleaseDrained
  <2> QED
    BY <1>19, <2>1, ReleasedOthers, IdsOfTasks DEF TypeOK, CallsInv, ReleaseDrained
<1>20. ASSUME NEW c \in Clients, NotifyDrained(c)
       PROVE CallsInv'
  BY <1>20 DEF TypeOK, CallsInv, NotifyDrained, DrainInv
<1>21. ASSUME NEW c \in Clients, SweepDone(c)
       PROVE CallsInv'
  <2>1. /\ cpc' = [cpc EXCEPT ![c] = after[c]] /\ after[c] \in Afters
        /\ UNCHANGED <<registry, started, stage, ctask, crid>>
    BY <1>21 DEF TypeOK, SweepDone, shared, history
  <2>2. cpc'[c] \in Afters /\ \A d \in Clients : d # c => cpc'[d] = cpc[d]
    BY <2>1 DEF TypeOK
  <2> QED
    BY <2>1, <2>2 DEF CallsInv, Afters
<1>22. ASSUME NEW w \in Workers, WaitForTask(w)
       PROVE CallsInv'
  BY <1>22 DEF TypeOK, CallsInv, WaitForTask
<1>23. ASSUME NEW w \in Workers, Take(w)
       PROVE CallsInv'
  BY <1>23 DEF TypeOK, CallsInv, Take, QueueInv
<1>24. ASSUME NEW w \in Workers, ReportCancelled(w)
       PROVE CallsInv'
  BY <1>24 DEF TypeOK, CallsInv, ReportCancelled, WorkersInv
<1>25. ASSUME NEW w \in Workers, Run(w)
       PROVE CallsInv'
  BY <1>25 DEF TypeOK, CallsInv, Run
<1>26. ASSUME NEW w \in Workers, FinishRun(w)
       PROVE CallsInv'
  BY <1>26 DEF TypeOK, CallsInv, FinishRun, WorkersInv
<1>27. ASSUME NEW w \in Workers, Cleanup(w)
       PROVE CallsInv'
  BY <1>27, ReleasedOthers, IdsOfTasks DEF TypeOK, CallsInv, Cleanup, WorkersInv
<1>28. ASSUME NEW w \in Workers, Pop(w)
       PROVE CallsInv'
  BY <1>28 DEF TypeOK, CallsInv, Pop
<1>29. ASSUME UNCHANGED vars
      PROVE CallsInv'
  BY <1>29 DEF TypeOK, CallsInv, vars
<1> QED
  BY <1>1, <1>2, <1>3, <1>4, <1>5, <1>6, <1>7, <1>8, <1>9, <1>10, <1>11, <1>12,
     <1>13, <1>14, <1>15, <1>16, <1>17, <1>18, <1>19, <1>20, <1>21, <1>22,
     <1>23, <1>24, <1>25, <1>26, <1>27, <1>28, <1>29
  DEF Next, StartCall, ContinueCall, WorkerStep

\* Only Enqueue adds to the queue, and what it adds was pending, so it was not
\* there before.
LEMMA NextQueue ==
  ASSUME SchedulerInv, [Next]_vars, TypeOK'
  PROVE  QueueInv'
<1> USE SchedulerAssumption
<1> USE DEF shared, workerVars, callVars, history
<1> USE DEF SchedulerInv
<1>1. ASSUME NEW c \in Clients, NEW t \in Tasks, SubmitClosed(c, t)
      PROVE QueueInv'
  BY <1>1 DEF TypeOK, QueueInv, SubmitClosed
<1>2. ASSUME NEW c \in Clients, NEW t \in Tasks, Submit(c, t)
      PROVE QueueInv'
  BY <1>2 DEF TypeOK, QueueInv, Submit
<1>3. ASSUME NEW c \in Clients, NEW t \in Tasks, SubmitStartFails(c, t)
      PROVE QueueInv'
  BY <1>3 DEF TypeOK, QueueInv, SubmitStartFails
<1>4. ASSUME NEW c \in Clients, NEW t \in Tasks, ServeDuplicate(c, t)
      PROVE QueueInv'
  BY <1>4 DEF TypeOK, QueueInv, ServeDuplicate
<1>5. ASSUME NEW c \in Clients, NEW t \in Tasks, Serve(c, t)
      PROVE QueueInv'
  BY <1>5 DEF TypeOK, QueueInv, Serve
<1>6. ASSUME NEW c \in Clients, NEW r \in RequestIds, CancelQueued(c, r)
      PROVE QueueInv'
  <2> PICK i \in DOMAIN queue :
         /\ cqueue' = [cqueue EXCEPT ![c] = <<queue[i]>>]
         /\ stage' = [stage EXCEPT ![queue[i]] = "drained"]
         /\ queue' = Without(queue, i)
    BY <1>6 DEF CancelQueued
  <2>1. /\ Len(queue) \in Nat /\ DOMAIN queue = 1..Len(queue)
        /\ \A j \in DOMAIN queue : queue[j] \in Tasks
    BY LenProperties, ElementOfSeq DEF TypeOK
  <2>2. \A j \in DOMAIN queue' : queue'[j] = IF j < i THEN queue[j] ELSE queue[j + 1]
    BY DEF Without
  <2>3. DOMAIN queue' = 1..(Len(queue) - 1)
    BY WithoutSeq DEF TypeOK
  <2>4. ~started' => queue' = <<>>
    BY <1>6, <2>1 DEF TypeOK, QueueInv, CancelQueued
  <2> DEFINE At(n) == IF n < i THEN n ELSE n + 1
  <2>5. ASSUME NEW n \in DOMAIN queue'
        PROVE  At(n) \in DOMAIN queue /\ At(n) # i /\ queue'[n] = queue[At(n)]
    <3>1. n \in 1..(Len(queue) - 1) /\ i \in 1..Len(queue) /\ Len(queue) \in Nat
      BY <2>1, <2>3
    <3>2. queue'[n] = IF n < i THEN queue[n] ELSE queue[n + 1]
      BY <2>2
    <3> QED
      BY <2>1, <3>1, <3>2
  <2>6. \A j, l \in DOMAIN queue' : At(j) = At(l) => j = l
    BY <2>1, <2>3
  <2> HIDE DEF At
  <2>7. \A j \in DOMAIN queue' : stage'[queue'[j]] = "queued"
    <3>1. \A n \in DOMAIN queue : n # i => stage'[queue[n]] = "queued"
      BY <2>1 DEF TypeOK, QueueInv
    <3> QED
      BY <2>5, <3>1
  <2>8. \A j, l \in DOMAIN queue' : queue'[j] = queue'[l] => j = l
    BY <2>5, <2>6 DEF QueueInv
  <2> QED
    BY <2>4, <2>7, <2>8 DEF QueueInv
<1>7. ASSUME NEW c \in Clients, NEW r \in RequestIds, CancelActive(c, r)
      PROVE QueueInv'
  BY <1>7 DEF TypeOK, QueueInv, CancelActive
<1>8. ASSUME NEW c \in Clients, NEW r \in RequestIds, CancelUnknown(c, r)
      PROVE QueueInv'
  BY <1>8 DEF TypeOK, QueueInv, CancelUnknown
<1>9. ASSUME NEW c \in Clients, CancelAll(c)
      PROVE QueueInv'
  BY <1>9 DEF TypeOK, QueueInv, CancelAll, DrainQueue
<1>10. ASSUME NEW c \in Clients, RegisterDuplicate(c)
       PROVE QueueInv'
  BY <1>10 DEF TypeOK, QueueInv, RegisterDuplicate, Raise, CallsInv
<1>11. ASSUME NEW c \in Clients, Register(c)
       PROVE QueueInv'
  BY <1>11 DEF TypeOK, QueueInv, Register
<1>12. ASSUME NEW c \in Clients, EnqueueRefused(c)
       PROVE QueueInv'
  BY <1>12 DEF TypeOK, QueueInv, EnqueueRefused, Raise, CallsInv
<1>13. ASSUME NEW c \in Clients, Enqueue(c)
       PROVE QueueInv'
  <2> DEFINE t == ctask[c]
  <2>1. /\ t \in Tasks /\ started /\ stage[t] = "pending" /\ started' = started
        /\ queue' = Append(queue, t) /\ stage' = [stage EXCEPT ![t] = "queued"]
    BY <1>13 DEF Enqueue, CallsInv
  <2>2. /\ Len(queue) \in Nat /\ DOMAIN queue = 1..Len(queue)
        /\ DOMAIN queue' = 1..(Len(queue) + 1) /\ queue'[Len(queue) + 1] = t
        /\ \A i \in 1..Len(queue) : queue'[i] = queue[i]
    BY <2>1, AppendProperties, LenProperties DEF TypeOK
  <2>3. \A i \in DOMAIN queue : queue[i] \in Tasks /\ stage[queue[i]] = "queued" /\ queue[i] # t
    BY <2>1, ElementOfSeq, LenProperties DEF TypeOK, QueueInv
  <2>4. ASSUME NEW i \in DOMAIN queue'
        PROVE  stage'[queue'[i]] = "queued"
    <3>1. CASE i \in 1..Len(queue)
      <4>1. queue'[i] = queue[i] /\ queue[i] \in Tasks /\ stage[queue[i]] = "queued" /\ queue[i] # t
        BY <2>2, <2>3, <3>1
      <4> QED
        BY <2>1, <4>1 DEF TypeOK
    <3>2. CASE i = Len(queue) + 1
      BY <2>1, <2>2, <3>2 DEF TypeOK
    <3> QED
      BY <2>2, <3>1, <3>2
  <2>5. ASSUME NEW i \in DOMAIN queue', NEW j \in DOMAIN queue', queue'[i] = queue'[j]
        PROVE  i = j
    <3>1. CASE i \in DOMAIN queue /\ j \in DOMAIN queue
      BY <2>2, <2>5, <3>1 DEF QueueInv
    <3>2. CASE i \notin DOMAIN queue \/ j \notin DOMAIN queue
      BY <2>2, <2>3, <2>5, <3>2
    <3> QED
      BY <3>1, <3>2
  <2>6. started'
    BY <2>1
  <2> QED
    BY <2>4, <2>5, <2>6 DEF QueueInv
<1>14. ASSUME NEW c \in Clients, Served(c)
       PROVE QueueInv'
  BY <1>14 DEF TypeOK, QueueInv, Served, CallsInv
<1>15. ASSUME NEW c \in Clients, Lookup(c)
       PROVE QueueInv'
  BY <1>15 DEF TypeOK, QueueInv, Lookup
<1>16. ASSUME NEW c \in Clients, CancelRegistered(c)
       PROVE QueueInv'
  BY <1>16 DEF TypeOK, QueueInv, CancelRegistered
<1>17. ASSUME NEW c \in Clients, Close(c)
       PROVE QueueInv'
  BY <1>17 DEF TypeOK, QueueInv, Close, DrainQueue
<1>18. ASSUME NEW c \in Clients, CancelToken(c)
       PROVE QueueInv'
  BY <1>18 DEF TypeOK, QueueInv, CancelToken
<1>19. ASSUME NEW c \in Clients, ReleaseDrained(c)
       PROVE QueueInv'
  BY <1>19 DEF TypeOK, QueueInv, ReleaseDrained
<1>20. ASSUME NEW c \in Clients, NotifyDrained(c)
       PROVE QueueInv'
  BY <1>20, SMTT(30) DEF TypeOK, QueueInv, NotifyDrained, DrainInv
<1>21. ASSUME NEW c \in Clients, SweepDone(c)
       PROVE QueueInv'
  BY <1>21 DEF TypeOK, QueueInv, SweepDone
<1>22. ASSUME NEW w \in Workers, WaitForTask(w)
       PROVE QueueInv'
  BY <1>22 DEF TypeOK, QueueInv, WaitForTask
<1>23. ASSUME NEW w \in Workers, Take(w)
       PROVE QueueInv'
  <2>1. /\ Len(queue) \in Nat /\ DOMAIN queue = 1..Len(queue)
        /\ \A j \in DOMAIN queue : queue[j] \in Tasks
    BY LenProperties, ElementOfSeq DEF TypeOK
  <2>2. queue # <<>> /\ queue' = Tail(queue) /\ Head(queue) = queue[1]
    BY <1>23, HeadTailProperties DEF TypeOK, Take
  <2>3. /\ DOMAIN queue' = 1..(Len(queue) - 1)
        /\ \A j \in DOMAIN queue' : queue'[j] = queue[j + 1]
    BY <2>1, <2>2, HeadTailProperties, LenProperties DEF TypeOK
  <2>4. ASSUME NEW j \in DOMAIN queue'
        PROVE  stage'[queue'[j]] = "queued"
    <3>1. j + 1 \in DOMAIN queue /\ 1 \in DOMAIN queue /\ j + 1 # 1
      BY <2>1, <2>3
    <3>2. queue[j + 1] # queue[1] /\ stage[queue[j + 1]] = "queued" /\ queue'[j] = queue[j + 1]
      BY <2>3, <3>1 DEF QueueInv
    <3> QED
      BY <1>23, <2>1, <2>2, <3>1, <3>2 DEF TypeOK, Take
  <2>5. ASSUME NEW j \in DOMAIN queue', NEW l \in DOMAIN queue', queue'[j] = queue'[l]
        PROVE  j = l
    BY <2>1, <2>3, <2>5 DEF QueueInv
  <2> QED
    BY <1>23, <2>2, <2>4, <2>5 DEF QueueInv, Take
<1>24. ASSUME NEW w \in Workers, ReportCancelled(w)
       PROVE QueueInv'
  BY <1>24 DEF TypeOK, QueueInv, ReportCancelled, WorkersInv
<1>25. ASSUME NEW w \in Workers, Run(w)
       PROVE QueueInv'
  BY <1>25 DEF TypeOK, QueueInv, Run
<1>26. ASSUME NEW w \in Workers, FinishRun(w)
       PROVE QueueInv'
  BY <1>26 DEF TypeOK, QueueInv, FinishRun, WorkersInv
<1>27. ASSUME NEW w \in Workers, Cleanup(w)
       PROVE QueueInv'
  BY <1>27 DEF TypeOK, QueueInv, Cleanup
<1>28. ASSUME NEW w \in Workers, Pop(w)
       PROVE QueueInv'
  BY <1>28 DEF TypeOK, QueueInv, Pop
<1>29. ASSUME UNCHANGED vars
      PROVE QueueInv'
  BY <1>29 DEF TypeOK, QueueInv, vars
<1> QED
  BY <1>1, <1>2, <1>3, <1>4, <1>5, <1>6, <1>7, <1>8, <1>9, <1>10, <1>11, <1>12,
     <1>13, <1>14, <1>15, <1>16, <1>17, <1>18, <1>19, <1>20, <1>21, <1>22,
     <1>23, <1>24, <1>25, <1>26, <1>27, <1>28, <1>29
  DEF Next, StartCall, ContinueCall, WorkerStep

\* Tasks enter a drain list from the queue only, where each appears once.
LEMMA NextDrain ==
  ASSUME SchedulerInv, [Next]_vars, TypeOK'
  PROVE  DrainInv'
<1> USE SchedulerAssumption
<1> USE DEF shared, workerVars, callVars, history
<1> USE DEF SchedulerInv
<1>1. ASSUME NEW c \in Clients, NEW t \in Tasks, SubmitClosed(c, t)
      PROVE DrainInv'
  BY <1>1 DEF TypeOK, DrainInv, SubmitClosed
<1>2. ASSUME NEW c \in Clients, NEW t \in Tasks, Submit(c, t)
      PROVE DrainInv'
  BY <1>2 DEF TypeOK, DrainInv, Submit
<1>3. ASSUME NEW c \in Clients, NEW t \in Tasks, SubmitStartFails(c, t)
      PROVE DrainInv'
  BY <1>3 DEF TypeOK, DrainInv, SubmitStartFails
<1>4. ASSUME NEW c \in Clients, NEW t \in Tasks, ServeDuplicate(c, t)
      PROVE DrainInv'
  BY <1>4 DEF TypeOK, DrainInv, ServeDuplicate
<1>5. ASSUME NEW c \in Clients, NEW t \in Tasks, Serve(c, t)
      PROVE DrainInv'
  BY <1>5 DEF TypeOK, DrainInv, Serve
<1>6. ASSUME NEW c \in Clients, NEW r \in RequestIds, CancelQueued(c, r)
      PROVE DrainInv'
  <2> PICK i \in DOMAIN queue :
         /\ cqueue' = [cqueue EXCEPT ![c] = <<queue[i]>>]
         /\ stage' = [stage EXCEPT ![queue[i]] = "drained"]
         /\ queue' = Without(queue, i)
    BY <1>6 DEF CancelQueued
  <2>1. /\ Len(queue) \in Nat /\ DOMAIN queue = 1..Len(queue)
        /\ \A j \in DOMAIN queue : queue[j] \in Tasks
    BY LenProperties, ElementOfSeq DEF TypeOK
  <2>2. stage[queue[i]] = "queued" /\ cqueue'[c] = <<queue[i]>>
    BY DEF TypeOK, QueueInv
  <2>3. \A d \in Clients : d # c => cqueue'[d] = cqueue[d]
    BY DEF TypeOK
  <2>4. DOMAIN cqueue'[c] = {1} /\ cqueue'[c][1] = queue[i]
    BY <2>2
  <2>5. cpc' = [cpc EXCEPT ![c] = "sweep"]
    BY <1>6 DEF CancelQueued
  <2>6. \A d \in Clients : \A j \in DOMAIN cqueue[d] : cqueue[d][j] # queue[i]
    BY <2>2 DEF DrainInv
  <2>7. ASSUME NEW d \in Clients, NEW j \in DOMAIN cqueue'[d]
        PROVE  stage'[cqueue'[d][j]] = "drained"
    <3>1. CASE d = c
      BY <2>1, <2>4, <3>1 DEF TypeOK
    <3>2. CASE d # c
      <4>1. cqueue'[d][j] = cqueue[d][j] /\ j \in DOMAIN cqueue[d]
        BY <2>3, <3>2
      <4>2. cqueue[d][j] \in Tasks
        BY <4>1, ElementOfSeq, LenProperties DEF TypeOK
      <4>3. stage[cqueue[d][j]] = "drained" /\ cqueue[d][j] # queue[i]
        BY <2>6, <4>1 DEF DrainInv
      <4> QED
        BY <4>1, <4>2, <4>3 DEF TypeOK
    <3> QED
      BY <3>1, <3>2
  <2>8. \A d, e \in Clients : \A j \in DOMAIN cqueue'[d] : \A k \in DOMAIN cqueue'[e] :
          cqueue'[d][j] = cqueue'[e][k] => d = e /\ j = k
    BY <2>3, <2>4, <2>6 DEF DrainInv
  <2>9. \A d \in Clients : cpc'[d] = "notify" => cqueue'[d] # <<>>
    BY <2>3, <2>5 DEF TypeOK, DrainInv
  <2> QED
    BY <2>7, <2>8, <2>9 DEF DrainInv
<1>7. ASSUME NEW c \in Clients, NEW r \in RequestIds, CancelActive(c, r)
      PROVE DrainInv'
  BY <1>7 DEF TypeOK, DrainInv, CancelActive
<1>8. ASSUME NEW c \in Clients, NEW r \in RequestIds, CancelUnknown(c, r)
      PROVE DrainInv'
  BY <1>8 DEF TypeOK, DrainInv, CancelUnknown
<1>9. ASSUME NEW c \in Clients, CancelAll(c)
      PROVE DrainInv'
  <2>1. /\ cqueue' = [cqueue EXCEPT ![c] = queue]
        /\ cpc' = [cpc EXCEPT ![c] = "sweep"]
        /\ stage' = [t \in Tasks |-> IF t \in QueuedTasks THEN "drained" ELSE stage[t]]
    BY <1>9 DEF CancelAll, DrainQueue
  <2>2. cqueue'[c] = queue /\ \A d \in Clients : d # c => cqueue'[d] = cqueue[d]
    BY <2>1 DEF TypeOK
  <2>3. ASSUME NEW i \in DOMAIN queue
        PROVE  queue[i] \in Tasks /\ stage[queue[i]] = "queued" /\ stage'[queue[i]] = "drained"
    <3>1. queue[i] \in Tasks
      BY <2>3, ElementOfSeq, LenProperties DEF TypeOK
    <3>2. queue[i] \in QueuedTasks
      BY <2>3 DEF QueuedTasks
    <3> QED
      BY <2>1, <2>3, <3>1, <3>2 DEF QueueInv
  <2>4. ASSUME NEW d \in Clients, d # c, NEW i \in DOMAIN cqueue[d]
        PROVE  stage[cqueue[d][i]] = "drained" /\ stage'[cqueue[d][i]] = "drained"
    <3>1. cqueue[d][i] \in Tasks
      BY <2>4, ElementOfSeq, LenProperties DEF TypeOK
    <3>2. stage[cqueue[d][i]] = "drained"
      BY <2>4 DEF DrainInv
    <3> QED
      BY <2>1, <3>1, <3>2
  <2>5. \A d \in Clients : \A i \in DOMAIN cqueue'[d] : stage'[cqueue'[d][i]] = "drained"
    BY <2>2, <2>3, <2>4
  <2>6. \A d, e \in Clients : \A i \in DOMAIN cqueue'[d] : \A j \in DOMAIN cqueue'[e] :
          cqueue'[d][i] = cqueue'[e][j] => d = e /\ i = j
    BY <2>2, <2>3, <2>4 DEF DrainInv, QueueInv
  <2>7. \A d \in Clients : cpc'[d] = "notify" => cqueue'[d] # <<>>
    BY <2>1, <2>2 DEF TypeOK, DrainInv
  <2> QED
    BY <2>5, <2>6, <2>7 DEF DrainInv
<1>10. ASSUME NEW c \in Clients, RegisterDuplicate(c)
       PROVE DrainInv'
  BY <1>10 DEF TypeOK, DrainInv, RegisterDuplicate, Raise, CallsInv
<1>11. ASSUME NEW c \in Clients, Register(c)
       PROVE DrainInv'
  BY <1>11 DEF TypeOK, DrainInv, Register
<1>12. ASSUME NEW c \in Clients, EnqueueRefused(c)
       PROVE DrainInv'
  BY <1>12 DEF TypeOK, DrainInv, EnqueueRefused, Raise, CallsInv
<1>13. ASSUME NEW c \in Clients, Enqueue(c)
       PROVE DrainInv'
  BY <1>13 DEF TypeOK, DrainInv, Enqueue, CallsInv
<1>14. ASSUME NEW c \in Clients, Served(c)
       PROVE DrainInv'
  BY <1>14 DEF TypeOK, DrainInv, Served, CallsInv
<1>15. ASSUME NEW c \in Clients, Lookup(c)
       PROVE DrainInv'
  BY <1>15 DEF TypeOK, DrainInv, Lookup
<1>16. ASSUME NEW c \in Clients, CancelRegistered(c)
       PROVE DrainInv'
  BY <1>16 DEF TypeOK, DrainInv, CancelRegistered
<1>17. ASSUME NEW c \in Clients, Close(c)
       PROVE DrainInv'
  <2>1. /\ cqueue' = [cqueue EXCEPT ![c] = queue]
        /\ stage' = [t \in Tasks |-> IF t \in QueuedTasks THEN "drained" ELSE stage[t]]
        /\ cpc' = [cpc EXCEPT ![c] = "sweep"]
    BY <1>17 DEF Close, DrainQueue
  <2>2. /\ \A d \in Clients : cqueue'[d] = IF d = c THEN queue ELSE cqueue[d]
        /\ \A d \in Clients : cpc'[d] = "notify" => d # c /\ cpc[d] = "notify"
    BY <2>1 DEF TypeOK
  <2>3. \A i \in DOMAIN queue : queue[i] \in Tasks /\ stage'[queue[i]] = "drained" /\ stage[queue[i]] = "queued"
    BY <2>1, ElementOfSeq, LenProperties DEF TypeOK, QueueInv, QueuedTasks
  <2>4. \A d \in Clients : \A i \in DOMAIN cqueue[d] :
          stage'[cqueue[d][i]] = "drained" /\ stage[cqueue[d][i]] = "drained"
    BY <2>1, ElementOfSeq, LenProperties DEF TypeOK, DrainInv
  <2>5. \A d, e \in Clients : \A j \in DOMAIN cqueue'[d] : \A k \in DOMAIN cqueue'[e] :
          cqueue'[d][j] = cqueue'[e][k] => d = e /\ j = k
    BY <2>2, <2>3, <2>4 DEF DrainInv, QueueInv
  <2> QED
    BY <2>2, <2>3, <2>4, <2>5 DEF DrainInv
<1>18. ASSUME NEW c \in Clients, CancelToken(c)
       PROVE DrainInv'
  BY <1>18 DEF TypeOK, DrainInv, CancelToken
<1>19. ASSUME NEW c \in Clients, ReleaseDrained(c)
       PROVE DrainInv'
  BY <1>19 DEF TypeOK, DrainInv, ReleaseDrained
<1>20. ASSUME NEW c \in Clients, NotifyDrained(c)
       PROVE DrainInv'
  <2> DEFINE q == cqueue[c]
  <2>1. q \in Seq(Tasks) /\ q # <<>> /\ cqueue' = [cqueue EXCEPT ![c] = Tail(q)]
    BY <1>20 DEF TypeOK, DrainInv, NotifyDrained
  <2>2. /\ Len(q) \in Nat /\ DOMAIN q = 1..Len(q) /\ Head(q) = q[1] /\ 1 \in DOMAIN q
        /\ DOMAIN Tail(q) = 1..(Len(q) - 1)
        /\ \A j \in DOMAIN Tail(q) : j + 1 \in DOMAIN q /\ Tail(q)[j] = q[j + 1]
    BY <2>1, HeadTailProperties, LenProperties, EmptySeq
  <2>3. stage' = [stage EXCEPT ![q[1]] = "ended"]
    BY <1>20, <2>2 DEF NotifyDrained
  <2>4. \A d \in Clients : d # c => cqueue'[d] = cqueue[d]
    BY <2>1 DEF TypeOK
  <2>5. cqueue'[c] = Tail(q)
    BY <2>1 DEF TypeOK
  <2>0. /\ \A k \in DOMAIN q : stage[q[k]] = "drained"
        /\ \A d \in Clients : \A j \in DOMAIN q : \A k \in DOMAIN cqueue[d] :
             q[j] = cqueue[d][k] => c = d /\ j = k
        /\ \A d, e \in Clients : \A j \in DOMAIN cqueue[d] : \A k \in DOMAIN cqueue[e] :
             cqueue[d][j] = cqueue[e][k] => d = e /\ j = k
    BY DEF DrainInv
  <2>6. ASSUME NEW d \in Clients, NEW j \in DOMAIN cqueue'[d]
        PROVE  stage'[cqueue'[d][j]] = "drained"
    <3>1. CASE d = c
      <4>1. q[j + 1] # q[1] /\ stage[q[j + 1]] = "drained" /\ cqueue'[d][j] = q[j + 1]
        <5>1. j \in DOMAIN Tail(q) /\ j \in Int /\ j + 1 \in DOMAIN q /\ cqueue'[d][j] = q[j + 1]
          <6>1. j \in DOMAIN Tail(q) /\ cqueue'[d][j] = Tail(q)[j]
            BY <2>5, <3>1
          <6> QED
            BY <2>2, <6>1
        <5>2. j + 1 # 1
          BY <2>2, <5>1
        <5> QED
          BY <2>0, <2>2, <5>1, <5>2
      <4> QED
        BY <2>1, <2>2, <2>3, <2>5, <2>6, <3>1, <4>1, ElementOfSeq DEF TypeOK
    <3>2. CASE d # c
      <4>1. cqueue[d][j] # q[1] /\ stage[cqueue[d][j]] = "drained"
        BY <2>2, <2>4, <2>6, <3>2 DEF DrainInv
      <4>2. cqueue[d][j] \in Tasks
        BY <2>4, <2>6, <3>2, ElementOfSeq, LenProperties DEF TypeOK
      <4> QED
        BY <2>3, <2>4, <3>2, <4>1, <4>2 DEF TypeOK
    <3> QED
      BY <3>1, <3>2
  <2>7. ASSUME NEW d \in Clients, NEW e \in Clients,
               NEW j \in DOMAIN cqueue'[d], NEW k \in DOMAIN cqueue'[e],
               cqueue'[d][j] = cqueue'[e][k]
        PROVE  d = e /\ j = k
    <3> DEFINE js == IF d = c THEN j + 1 ELSE j
               ks == IF e = c THEN k + 1 ELSE k
    <3>1. js \in DOMAIN cqueue[d] /\ cqueue'[d][j] = cqueue[d][js]
      BY <2>2, <2>4, <2>5
    <3>2. ks \in DOMAIN cqueue[e] /\ cqueue'[e][k] = cqueue[e][ks]
      BY <2>2, <2>4, <2>5
    <3>3. d = e /\ js = ks
      <4>1. cqueue[d][js] = cqueue[e][ks]
        BY <2>7, <3>1, <3>2
      <4> HIDE DEF js, ks
      <4> QED
        BY <2>0, <3>1, <3>2, <4>1
    <3>4. d = c => j \in Int /\ k \in Int
      BY <2>2, <2>5, <3>3
    <3> QED
      BY <3>3, <3>4
  <2>8. \A d \in Clients : cpc'[d] = "notify" => cqueue'[d] # <<>>
    BY <1>20, <2>4 DEF TypeOK, DrainInv, NotifyDrained
  <2> QED
    BY <2>6, <2>7, <2>8 DEF DrainInv
<1>21. ASSUME NEW c \in Clients, SweepDone(c)
       PROVE DrainInv'
  <2>1. cpc'[c] # "notify"
    BY <1>21 DEF TypeOK, Afters, SweepDone
  <2> QED
    BY <1>21, <2>1 DEF TypeOK, DrainInv, SweepDone
<1>22. ASSUME NEW w \in Workers, WaitForTask(w)
       PROVE DrainInv'
  BY <1>22 DEF TypeOK, DrainInv, WaitForTask
<1>23. ASSUME NEW w \in Workers, Take(w)
       PROVE DrainInv'
  BY <1>23, SMTT(30) DEF TypeOK, DrainInv, Take, QueueInv
<1>24. ASSUME NEW w \in Workers, ReportCancelled(w)
       PROVE DrainInv'
  BY <1>24 DEF TypeOK, DrainInv, ReportCancelled, WorkersInv
<1>25. ASSUME NEW w \in Workers, Run(w)
       PROVE DrainInv'
  BY <1>25 DEF TypeOK, DrainInv, Run
<1>26. ASSUME NEW w \in Workers, FinishRun(w)
       PROVE DrainInv'
  BY <1>26 DEF TypeOK, DrainInv, FinishRun, WorkersInv
<1>27. ASSUME NEW w \in Workers, Cleanup(w)
       PROVE DrainInv'
  BY <1>27 DEF TypeOK, DrainInv, Cleanup
<1>28. ASSUME NEW w \in Workers, Pop(w)
       PROVE DrainInv'
  BY <1>28 DEF TypeOK, DrainInv, Pop
<1>29. ASSUME UNCHANGED vars
      PROVE DrainInv'
  BY <1>29 DEF TypeOK, DrainInv, vars
<1> QED
  BY <1>1, <1>2, <1>3, <1>4, <1>5, <1>6, <1>7, <1>8, <1>9, <1>10, <1>11, <1>12,
     <1>13, <1>14, <1>15, <1>16, <1>17, <1>18, <1>19, <1>20, <1>21, <1>22,
     <1>23, <1>24, <1>25, <1>26, <1>27, <1>28, <1>29
  DEF Next, StartCall, ContinueCall, WorkerStep

\* A worker takes a task that was queued, so no other worker holds it.
LEMMA NextWorkers ==
  ASSUME SchedulerInv, [Next]_vars, TypeOK'
  PROVE  WorkersInv'
<1> USE SchedulerAssumption
<1> USE DEF shared, workerVars, callVars, history
<1> USE DEF SchedulerInv
<1>1. ASSUME NEW c \in Clients, NEW t \in Tasks, SubmitClosed(c, t)
      PROVE WorkersInv'
  BY <1>1 DEF TypeOK, WorkersInv, SubmitClosed
<1>2. ASSUME NEW c \in Clients, NEW t \in Tasks, Submit(c, t)
      PROVE WorkersInv'
  BY <1>2 DEF TypeOK, WorkersInv, Submit
<1>3. ASSUME NEW c \in Clients, NEW t \in Tasks, SubmitStartFails(c, t)
      PROVE WorkersInv'
  BY <1>3 DEF TypeOK, WorkersInv, SubmitStartFails
<1>4. ASSUME NEW c \in Clients, NEW t \in Tasks, ServeDuplicate(c, t)
      PROVE WorkersInv'
  BY <1>4 DEF TypeOK, WorkersInv, ServeDuplicate
<1>5. ASSUME NEW c \in Clients, NEW t \in Tasks, Serve(c, t)
      PROVE WorkersInv'
  BY <1>5 DEF TypeOK, WorkersInv, Serve
<1>6. ASSUME NEW c \in Clients, NEW r \in RequestIds, CancelQueued(c, r)
      PROVE WorkersInv'
  BY <1>6 DEF TypeOK, WorkersInv, CancelQueued, QueueInv
<1>7. ASSUME NEW c \in Clients, NEW r \in RequestIds, CancelActive(c, r)
      PROVE WorkersInv'
  BY <1>7 DEF TypeOK, WorkersInv, CancelActive
<1>8. ASSUME NEW c \in Clients, NEW r \in RequestIds, CancelUnknown(c, r)
      PROVE WorkersInv'
  BY <1>8 DEF TypeOK, WorkersInv, CancelUnknown
<1>9. ASSUME NEW c \in Clients, CancelAll(c)
      PROVE WorkersInv'
  BY <1>9 DEF TypeOK, WorkersInv, CancelAll, DrainQueue, QueueInv, QueuedTasks
<1>10. ASSUME NEW c \in Clients, RegisterDuplicate(c)
       PROVE WorkersInv'
  BY <1>10 DEF TypeOK, WorkersInv, RegisterDuplicate, Raise, CallsInv
<1>11. ASSUME NEW c \in Clients, Register(c)
       PROVE WorkersInv'
  BY <1>11 DEF TypeOK, WorkersInv, Register
<1>12. ASSUME NEW c \in Clients, EnqueueRefused(c)
       PROVE WorkersInv'
  BY <1>12 DEF TypeOK, WorkersInv, EnqueueRefused, Raise, CallsInv
<1>13. ASSUME NEW c \in Clients, Enqueue(c)
       PROVE WorkersInv'
  <2>1. NotifyOne /\ wpc' \in [Workers -> WorkerPcs]
    BY <1>13 DEF TypeOK, Enqueue
  <2>2. \A w \in Workers : wpc'[w] \in {"took", "run", "cleanup", "pop"} => wpc'[w] = wpc[w]
    BY <2>1 DEF TypeOK, NotifyOne
  <2>3. ctask[c] \in Tasks /\ stage[ctask[c]] = "pending"
    BY <1>13 DEF CallsInv, Enqueue
  <2>4. stage' = [stage EXCEPT ![ctask[c]] = "queued"] /\ UNCHANGED <<wtask, runs>>
    BY <1>13 DEF Enqueue
  <2> QED
    BY <2>2, <2>3, <2>4 DEF TypeOK, WorkersInv
<1>14. ASSUME NEW c \in Clients, Served(c)
       PROVE WorkersInv'
  BY <1>14 DEF TypeOK, WorkersInv, Served, CallsInv
<1>15. ASSUME NEW c \in Clients, Lookup(c)
       PROVE WorkersInv'
  BY <1>15 DEF TypeOK, WorkersInv, Lookup
<1>16. ASSUME NEW c \in Clients, CancelRegistered(c)
       PROVE WorkersInv'
  BY <1>16 DEF TypeOK, WorkersInv, CancelRegistered
<1>17. ASSUME NEW c \in Clients, Close(c)
       PROVE WorkersInv'
  BY <1>17 DEF TypeOK, WorkersInv, Close, DrainQueue, QueueInv, QueuedTasks, Woken
<1>18. ASSUME NEW c \in Clients, CancelToken(c)
       PROVE WorkersInv'
  BY <1>18 DEF TypeOK, WorkersInv, CancelToken
<1>19. ASSUME NEW c \in Clients, ReleaseDrained(c)
       PROVE WorkersInv'
  BY <1>19 DEF TypeOK, WorkersInv, ReleaseDrained
<1>20. ASSUME NEW c \in Clients, NotifyDrained(c)
       PROVE WorkersInv'
  BY <1>20 DEF TypeOK, WorkersInv, NotifyDrained, DrainInv
<1>21. ASSUME NEW c \in Clients, SweepDone(c)
       PROVE WorkersInv'
  BY <1>21 DEF TypeOK, WorkersInv, SweepDone
<1>22. ASSUME NEW w \in Workers, WaitForTask(w)
       PROVE WorkersInv'
  BY <1>22 DEF TypeOK, WorkersInv, WaitForTask
<1>23. ASSUME NEW w \in Workers, Take(w)
       PROVE WorkersInv'
  BY <1>23 DEF TypeOK, WorkersInv, Take, QueueInv, OutcomeInv
<1>24. ASSUME NEW w \in Workers, ReportCancelled(w)
       PROVE WorkersInv'
  BY <1>24 DEF TypeOK, WorkersInv, ReportCancelled
<1>25. ASSUME NEW w \in Workers, Run(w)
       PROVE WorkersInv'
  BY <1>25 DEF TypeOK, WorkersInv, Run
<1>26. ASSUME NEW w \in Workers, FinishRun(w)
       PROVE WorkersInv'
  BY <1>26 DEF TypeOK, WorkersInv, FinishRun
<1>27. ASSUME NEW w \in Workers, Cleanup(w)
       PROVE WorkersInv'
  BY <1>27 DEF TypeOK, WorkersInv, Cleanup
<1>28. ASSUME NEW w \in Workers, Pop(w)
       PROVE WorkersInv'
  BY <1>28 DEF TypeOK, WorkersInv, Pop, Woken
<1>29. ASSUME UNCHANGED vars
      PROVE WorkersInv'
  BY <1>29 DEF TypeOK, WorkersInv, vars
<1> QED
  BY <1>1, <1>2, <1>3, <1>4, <1>5, <1>6, <1>7, <1>8, <1>9, <1>10, <1>11, <1>12,
     <1>13, <1>14, <1>15, <1>16, <1>17, <1>18, <1>19, <1>20, <1>21, <1>22,
     <1>23, <1>24, <1>25, <1>26, <1>27, <1>28, <1>29
  DEF Next, StartCall, ContinueCall, WorkerStep

\* A task is run, or reported, once: by the thread that ends its stage.
LEMMA NextOutcome ==
  ASSUME SchedulerInv, [Next]_vars, TypeOK'
  PROVE  OutcomeInv'
<1> USE SchedulerAssumption
<1> USE DEF shared, workerVars, callVars, history
<1> USE DEF SchedulerInv
<1>1. ASSUME NEW c \in Clients, NEW t \in Tasks, SubmitClosed(c, t)
      PROVE OutcomeInv'
  BY <1>1 DEF TypeOK, OutcomeInv, SubmitClosed
<1>2. ASSUME NEW c \in Clients, NEW t \in Tasks, Submit(c, t)
      PROVE OutcomeInv'
  BY <1>2 DEF TypeOK, OutcomeInv, Submit
<1>3. ASSUME NEW c \in Clients, NEW t \in Tasks, SubmitStartFails(c, t)
      PROVE OutcomeInv'
  BY <1>3 DEF TypeOK, OutcomeInv, SubmitStartFails
<1>4. ASSUME NEW c \in Clients, NEW t \in Tasks, ServeDuplicate(c, t)
      PROVE OutcomeInv'
  BY <1>4 DEF TypeOK, OutcomeInv, ServeDuplicate
<1>5. ASSUME NEW c \in Clients, NEW t \in Tasks, Serve(c, t)
      PROVE OutcomeInv'
  BY <1>5 DEF TypeOK, OutcomeInv, Serve
<1>6. ASSUME NEW c \in Clients, NEW r \in RequestIds, CancelQueued(c, r)
      PROVE OutcomeInv'
  BY <1>6 DEF TypeOK, OutcomeInv, CancelQueued, QueueInv
<1>7. ASSUME NEW c \in Clients, NEW r \in RequestIds, CancelActive(c, r)
      PROVE OutcomeInv'
  BY <1>7 DEF TypeOK, OutcomeInv, CancelActive
<1>8. ASSUME NEW c \in Clients, NEW r \in RequestIds, CancelUnknown(c, r)
      PROVE OutcomeInv'
  BY <1>8 DEF TypeOK, OutcomeInv, CancelUnknown
<1>9. ASSUME NEW c \in Clients, CancelAll(c)
      PROVE OutcomeInv'
  BY <1>9 DEF TypeOK, OutcomeInv, CancelAll, DrainQueue, QueueInv, QueuedTasks
<1>10. ASSUME NEW c \in Clients, RegisterDuplicate(c)
       PROVE OutcomeInv'
  BY <1>10 DEF TypeOK, OutcomeInv, RegisterDuplicate, Raise, CallsInv
<1>11. ASSUME NEW c \in Clients, Register(c)
       PROVE OutcomeInv'
  BY <1>11 DEF TypeOK, OutcomeInv, Register
<1>12. ASSUME NEW c \in Clients, EnqueueRefused(c)
       PROVE OutcomeInv'
  BY <1>12 DEF TypeOK, OutcomeInv, EnqueueRefused, Raise, CallsInv
<1>13. ASSUME NEW c \in Clients, Enqueue(c)
       PROVE OutcomeInv'
  BY <1>13 DEF TypeOK, OutcomeInv, Enqueue, CallsInv
<1>14. ASSUME NEW c \in Clients, Served(c)
       PROVE OutcomeInv'
  BY <1>14 DEF TypeOK, OutcomeInv, Served, CallsInv
<1>15. ASSUME NEW c \in Clients, Lookup(c)
       PROVE OutcomeInv'
  BY <1>15 DEF TypeOK, OutcomeInv, Lookup
<1>16. ASSUME NEW c \in Clients, CancelRegistered(c)
       PROVE OutcomeInv'
  BY <1>16 DEF TypeOK, OutcomeInv, CancelRegistered
<1>17. ASSUME NEW c \in Clients, Close(c)
       PROVE OutcomeInv'
  BY <1>17 DEF TypeOK, OutcomeInv, Close, DrainQueue, QueueInv, QueuedTasks
<1>18. ASSUME NEW c \in Clients, CancelToken(c)
       PROVE OutcomeInv'
  BY <1>18 DEF TypeOK, OutcomeInv, CancelToken
<1>19. ASSUME NEW c \in Clients, ReleaseDrained(c)
       PROVE OutcomeInv'
  BY <1>19 DEF TypeOK, OutcomeInv, ReleaseDrained
<1>20. ASSUME NEW c \in Clients, NotifyDrained(c)
       PROVE OutcomeInv'
  BY <1>20 DEF TypeOK, OutcomeInv, NotifyDrained, DrainInv
<1>21. ASSUME NEW c \in Clients, SweepDone(c)
       PROVE OutcomeInv'
  BY <1>21 DEF TypeOK, OutcomeInv, SweepDone
<1>22. ASSUME NEW w \in Workers, WaitForTask(w)
       PROVE OutcomeInv'
  BY <1>22 DEF TypeOK, OutcomeInv, WaitForTask
<1>23. ASSUME NEW w \in Workers, Take(w)
       PROVE OutcomeInv'
  BY <1>23 DEF TypeOK, OutcomeInv, Take, QueueInv
<1>24. ASSUME NEW w \in Workers, ReportCancelled(w)
       PROVE OutcomeInv'
  BY <1>24 DEF TypeOK, OutcomeInv, ReportCancelled, WorkersInv
<1>25. ASSUME NEW w \in Workers, Run(w)
       PROVE OutcomeInv'
  BY <1>25 DEF TypeOK, OutcomeInv, Run, WorkersInv
<1>26. ASSUME NEW w \in Workers, FinishRun(w)
       PROVE OutcomeInv'
  BY <1>26 DEF TypeOK, OutcomeInv, FinishRun, WorkersInv
<1>27. ASSUME NEW w \in Workers, Cleanup(w)
       PROVE OutcomeInv'
  BY <1>27 DEF TypeOK, OutcomeInv, Cleanup
<1>28. ASSUME NEW w \in Workers, Pop(w)
       PROVE OutcomeInv'
  BY <1>28 DEF TypeOK, OutcomeInv, Pop
<1>29. ASSUME UNCHANGED vars
      PROVE OutcomeInv'
  BY <1>29 DEF TypeOK, OutcomeInv, vars
<1> QED
  BY <1>1, <1>2, <1>3, <1>4, <1>5, <1>6, <1>7, <1>8, <1>9, <1>10, <1>11, <1>12,
     <1>13, <1>14, <1>15, <1>16, <1>17, <1>18, <1>19, <1>20, <1>21, <1>22,
     <1>23, <1>24, <1>25, <1>26, <1>27, <1>28, <1>29
  DEF Next, StartCall, ContinueCall, WorkerStep

\* Enqueue looks at closed again under the lock; close empties the queue.
LEMMA NextClosed ==
  ASSUME SchedulerInv, [Next]_vars, TypeOK'
  PROVE  ClosedQueueStaysEmpty'
<1> USE SchedulerAssumption
<1> USE DEF shared, workerVars, callVars, history
<1> USE DEF SchedulerInv
<1>1. ASSUME NEW c \in Clients, NEW t \in Tasks, SubmitClosed(c, t)
      PROVE ClosedQueueStaysEmpty'
  BY <1>1 DEF TypeOK, ClosedQueueStaysEmpty, SubmitClosed
<1>2. ASSUME NEW c \in Clients, NEW t \in Tasks, Submit(c, t)
      PROVE ClosedQueueStaysEmpty'
  BY <1>2 DEF TypeOK, ClosedQueueStaysEmpty, Submit
<1>3. ASSUME NEW c \in Clients, NEW t \in Tasks, SubmitStartFails(c, t)
      PROVE ClosedQueueStaysEmpty'
  BY <1>3 DEF TypeOK, ClosedQueueStaysEmpty, SubmitStartFails, QueueInv
<1>4. ASSUME NEW c \in Clients, NEW t \in Tasks, ServeDuplicate(c, t)
      PROVE ClosedQueueStaysEmpty'
  BY <1>4 DEF TypeOK, ClosedQueueStaysEmpty, ServeDuplicate
<1>5. ASSUME NEW c \in Clients, NEW t \in Tasks, Serve(c, t)
      PROVE ClosedQueueStaysEmpty'
  BY <1>5 DEF TypeOK, ClosedQueueStaysEmpty, Serve
<1>6. ASSUME NEW c \in Clients, NEW r \in RequestIds, CancelQueued(c, r)
      PROVE ClosedQueueStaysEmpty'
  BY <1>6 DEF TypeOK, ClosedQueueStaysEmpty, CancelQueued
<1>7. ASSUME NEW c \in Clients, NEW r \in RequestIds, CancelActive(c, r)
      PROVE ClosedQueueStaysEmpty'
  BY <1>7 DEF TypeOK, ClosedQueueStaysEmpty, CancelActive
<1>8. ASSUME NEW c \in Clients, NEW r \in RequestIds, CancelUnknown(c, r)
      PROVE ClosedQueueStaysEmpty'
  BY <1>8 DEF TypeOK, ClosedQueueStaysEmpty, CancelUnknown
<1>9. ASSUME NEW c \in Clients, CancelAll(c)
      PROVE ClosedQueueStaysEmpty'
  BY <1>9 DEF TypeOK, ClosedQueueStaysEmpty, CancelAll, DrainQueue
<1>10. ASSUME NEW c \in Clients, RegisterDuplicate(c)
       PROVE ClosedQueueStaysEmpty'
  BY <1>10 DEF TypeOK, ClosedQueueStaysEmpty, RegisterDuplicate
<1>11. ASSUME NEW c \in Clients, Register(c)
       PROVE ClosedQueueStaysEmpty'
  BY <1>11 DEF TypeOK, ClosedQueueStaysEmpty, Register
<1>12. ASSUME NEW c \in Clients, EnqueueRefused(c)
       PROVE ClosedQueueStaysEmpty'
  BY <1>12 DEF TypeOK, ClosedQueueStaysEmpty, EnqueueRefused
<1>13. ASSUME NEW c \in Clients, Enqueue(c)
       PROVE ClosedQueueStaysEmpty'
  BY <1>13 DEF TypeOK, ClosedQueueStaysEmpty, Enqueue, Refused
<1>14. ASSUME NEW c \in Clients, Served(c)
       PROVE ClosedQueueStaysEmpty'
  BY <1>14 DEF TypeOK, ClosedQueueStaysEmpty, Served
<1>15. ASSUME NEW c \in Clients, Lookup(c)
       PROVE ClosedQueueStaysEmpty'
  BY <1>15 DEF TypeOK, ClosedQueueStaysEmpty, Lookup
<1>16. ASSUME NEW c \in Clients, CancelRegistered(c)
       PROVE ClosedQueueStaysEmpty'
  BY <1>16 DEF TypeOK, ClosedQueueStaysEmpty, CancelRegistered
<1>17. ASSUME NEW c \in Clients, Close(c)
       PROVE ClosedQueueStaysEmpty'
  BY <1>17 DEF TypeOK, ClosedQueueStaysEmpty, Close, DrainQueue
<1>18. ASSUME NEW c \in Clients, CancelToken(c)
       PROVE ClosedQueueStaysEmpty'
  BY <1>18 DEF TypeOK, ClosedQueueStaysEmpty, CancelToken
<1>19. ASSUME NEW c \in Clients, ReleaseDrained(c)
       PROVE ClosedQueueStaysEmpty'
  BY <1>19 DEF TypeOK, ClosedQueueStaysEmpty, ReleaseDrained
<1>20. ASSUME NEW c \in Clients, NotifyDrained(c)
       PROVE ClosedQueueStaysEmpty'
  BY <1>20 DEF TypeOK, ClosedQueueStaysEmpty, NotifyDrained
<1>21. ASSUME NEW c \in Clients, SweepDone(c)
       PROVE ClosedQueueStaysEmpty'
  BY <1>21 DEF TypeOK, ClosedQueueStaysEmpty, SweepDone
<1>22. ASSUME NEW w \in Workers, WaitForTask(w)
       PROVE ClosedQueueStaysEmpty'
  BY <1>22 DEF TypeOK, ClosedQueueStaysEmpty, WaitForTask
<1>23. ASSUME NEW w \in Workers, Take(w)
       PROVE ClosedQueueStaysEmpty'
  BY <1>23 DEF TypeOK, ClosedQueueStaysEmpty, Take
<1>24. ASSUME NEW w \in Workers, ReportCancelled(w)
       PROVE ClosedQueueStaysEmpty'
  BY <1>24 DEF TypeOK, ClosedQueueStaysEmpty, ReportCancelled
<1>25. ASSUME NEW w \in Workers, Run(w)
       PROVE ClosedQueueStaysEmpty'
  BY <1>25 DEF TypeOK, ClosedQueueStaysEmpty, Run
<1>26. ASSUME NEW w \in Workers, FinishRun(w)
       PROVE ClosedQueueStaysEmpty'
  BY <1>26 DEF TypeOK, ClosedQueueStaysEmpty, FinishRun
<1>27. ASSUME NEW w \in Workers, Cleanup(w)
       PROVE ClosedQueueStaysEmpty'
  BY <1>27 DEF TypeOK, ClosedQueueStaysEmpty, Cleanup
<1>28. ASSUME NEW w \in Workers, Pop(w)
       PROVE ClosedQueueStaysEmpty'
  BY <1>28 DEF TypeOK, ClosedQueueStaysEmpty, Pop
<1>29. ASSUME UNCHANGED vars
      PROVE ClosedQueueStaysEmpty'
  BY <1>29 DEF TypeOK, ClosedQueueStaysEmpty, vars
<1> QED
  BY <1>1, <1>2, <1>3, <1>4, <1>5, <1>6, <1>7, <1>8, <1>9, <1>10, <1>11, <1>12,
     <1>13, <1>14, <1>15, <1>16, <1>17, <1>18, <1>19, <1>20, <1>21, <1>22,
     <1>23, <1>24, <1>25, <1>26, <1>27, <1>28, <1>29
  DEF Next, StartCall, ContinueCall, WorkerStep

-----------------------------------------------------------------------------
(* The theorems.                                                           *)

LEMMA InitInv == Init => SchedulerInv
  BY InitType, SchedulerAssumption
  DEF Init, SchedulerInv, LiveTaskOwnsItsId, Live, CallsInv, QueueInv, DrainInv,
      WorkersInv, OutcomeInv, ClosedQueueStaysEmpty

LEMMA NextInv == SchedulerInv /\ [Next]_vars => SchedulerInv'
<1> SUFFICES ASSUME SchedulerInv, [Next]_vars PROVE SchedulerInv'
  OBVIOUS
<1>1. TypeOK'
  BY NextType
<1> QED
  BY <1>1, NextLive, NextCalls, NextQueue, NextDrain, NextWorkers, NextOutcome, NextClosed
  DEF SchedulerInv

\* The inductive invariant holds in every reachable state.
THEOREM SchedulerInvariant == Spec => []SchedulerInv
  BY InitInv, NextInv, PTL DEF Spec

\* Type correctness of the scheduler's state, for every instance.
THEOREM SchedulerTypeCorrect == Spec => []TypeOK
<1>1. SchedulerInv => TypeOK
  BY DEF SchedulerInv
<1> QED
  BY <1>1, SchedulerInvariant, PTL

\* A task that waits or runs is the registered owner of its request id, so a
\* second submission of the id is refused and a cancel of the id finds it.
THEOREM SchedulerOwnership == Spec => []LiveTaskOwnsItsId
<1>1. SchedulerInv => LiveTaskOwnsItsId
  BY DEF SchedulerInv
<1> QED
  BY <1>1, SchedulerInvariant, PTL

\* No submission is both run and reported cancelled, or either of them twice.
THEOREM SchedulerOneOutcome == Spec => []AtMostOneOutcome
<1>1. SchedulerInv => AtMostOneOutcome
  <2> SUFFICES ASSUME SchedulerInv, NEW t \in Tasks PROVE runs[t] + notes[t] <= 1
    BY DEF AtMostOneOutcome
  <2>1. runs[t] \in Nat /\ notes[t] \in Nat
    BY DEF SchedulerInv, TypeOK
  <2> QED
    BY <2>1 DEF SchedulerInv, OutcomeInv
<1> QED
  BY <1>1, SchedulerInvariant, PTL

\* A closed scheduler has nothing in its queue, and never will.
THEOREM SchedulerClosedEmpty == Spec => []ClosedQueueStaysEmpty
<1>1. SchedulerInv => ClosedQueueStaysEmpty
  BY DEF SchedulerInv
<1> QED
  BY <1>1, SchedulerInvariant, PTL

-----------------------------------------------------------------------------
(* Refinement: every step is a step of TaskLifecycle or changes no phase.  *)

\* The abstract phase of each stage.
LEMMA PhaseCases ==
  /\ \A n : PhaseOf("new", n) = "new" /\ PhaseOf("pending", n) = "new"
  /\ \A n : PhaseOf("serving", n) = "new" /\ PhaseOf("served", n) = "new"
  /\ \A n : PhaseOf("queued", n) = "accepted" /\ PhaseOf("drained", n) = "cancelled"
  /\ \A n : PhaseOf("rejected", n) = "rejected"
  /\ \A n : PhaseOf("held", n) = IF n = 0 THEN "accepted" ELSE "running"
  /\ \A n : PhaseOf("ended", n) = IF n = 0 THEN "cancelled" ELSE "done"
  BY DEF PhaseOf

\* A step that moves one task moves its phase and no other.
LEMMA PhaseStep ==
  ASSUME TypeOK, TypeOK', NEW t \in Tasks,
         \A u \in Tasks : u # t => stage'[u] = stage[u] /\ runs'[u] = runs[u]
  PROVE  /\ phase' = [phase EXCEPT ![t] = PhaseOf(stage'[t], runs'[t])]
         /\ phase[t] = PhaseOf(stage[t], runs[t])
  BY DEF phase

\* A step that moves no task changes no phase.
LEMMA PhaseSame ==
  ASSUME UNCHANGED <<stage, runs>>
  PROVE  phase' = phase
  BY DEF phase

\* A task that submit refuses is rejected in the abstract specification.
LEMMA RejectStep ==
  ASSUME TypeOK, TypeOK', NEW t \in Tasks, stage[t] \in {"new", "pending"},
         stage' = [stage EXCEPT ![t] = "rejected"], runs' = runs
  PROVE  Lifecycle!Next
<1>1. \A u \in Tasks : u # t => stage'[u] = stage[u] /\ runs'[u] = runs[u]
  BY DEF TypeOK
<1>2. phase[t] = "new" /\ phase' = [phase EXCEPT ![t] = "rejected"]
  BY <1>1, PhaseStep, PhaseCases DEF TypeOK
<1> QED
  BY <1>2 DEF Lifecycle!Next, Lifecycle!Reject, Lifecycle!Move

\* A task that moves inside one phase is a stuttering step.
LEMMA StutterStep ==
  ASSUME TypeOK, TypeOK', NEW t \in Tasks, NEW s \in Stages,
         PhaseOf(stage[t], runs[t]) = PhaseOf(s, runs[t]),
         stage' = [stage EXCEPT ![t] = s], runs' = runs
  PROVE  phase' = phase
  BY DEF TypeOK, phase

\* Emptying the queue cancels exactly the accepted tasks that were in it.
LEMMA DrainStep ==
  ASSUME TypeOK, QueueInv, NEW S \in SUBSET Tasks,
         \A t \in S : stage[t] = "queued",
         stage' = [t \in Tasks |-> IF t \in S THEN "drained" ELSE stage[t]],
         runs' = runs
  PROVE  Lifecycle!Next
<1>1. \A t \in S : phase[t] = "accepted"
  BY PhaseCases DEF phase
<1>2. phase' = [t \in Tasks |-> IF t \in S THEN "cancelled" ELSE phase[t]]
  BY PhaseCases DEF phase
<1> QED
  BY <1>1, <1>2 DEF Lifecycle!Next, Lifecycle!Cancel

\* A task that was not handed to a worker has not run.
LEMMA OutcomeZero ==
  ASSUME SchedulerInv
  PROVE  \A t \in Tasks : stage[t] \in {"new", "pending", "queued", "drained", "serving"} => runs[t] = 0
  BY DEF SchedulerInv, OutcomeInv

LEMMA NextRefines ==
  ASSUME SchedulerInv, [Next]_vars, TypeOK'
  PROVE  [Lifecycle!Next]_phase
<1> USE DEF SchedulerInv, shared, workerVars, callVars, history
<1>1. ASSUME NEW c \in Clients, NEW t \in Tasks, SubmitClosed(c, t)
      PROVE [Lifecycle!Next]_phase
  <2>1. /\ t \in Tasks /\ stage[t] \in {"new", "pending"}
        /\ stage' = [stage EXCEPT ![t] = "rejected"] /\ runs' = runs
    BY <1>1 DEF SubmitClosed
  <2> QED
    BY <2>1, RejectStep
<1>2. ASSUME NEW c \in Clients, NEW t \in Tasks, Submit(c, t)
      PROVE [Lifecycle!Next]_phase
  <2>1. /\ t \in Tasks /\ stage[t] = "new"
        /\ stage' = [stage EXCEPT ![t] = "pending"] /\ runs' = runs
    BY <1>2 DEF Submit
  <2>2. PhaseOf("new", runs[t]) = PhaseOf("pending", runs[t]) /\ "pending" \in Stages
    BY PhaseCases DEF Stages
  <2> QED
    BY <2>1, <2>2, StutterStep
<1>3. ASSUME NEW c \in Clients, NEW t \in Tasks, SubmitStartFails(c, t)
      PROVE [Lifecycle!Next]_phase
  <2>1. /\ t \in Tasks /\ stage[t] \in {"new", "pending"}
        /\ stage' = [stage EXCEPT ![t] = "rejected"] /\ runs' = runs
    BY <1>3 DEF SubmitStartFails
  <2> QED
    BY <2>1, RejectStep
<1>4. ASSUME NEW c \in Clients, NEW t \in Tasks, ServeDuplicate(c, t)
      PROVE [Lifecycle!Next]_phase
  <2>1. /\ t \in Tasks /\ stage[t] \in {"new", "pending"}
        /\ stage' = [stage EXCEPT ![t] = "rejected"] /\ runs' = runs
    BY <1>4 DEF ServeDuplicate
  <2> QED
    BY <2>1, RejectStep
<1>5. ASSUME NEW c \in Clients, NEW t \in Tasks, Serve(c, t)
      PROVE [Lifecycle!Next]_phase
  <2>1. /\ t \in Tasks /\ stage[t] = "new"
        /\ stage' = [stage EXCEPT ![t] = "serving"] /\ runs' = runs
    BY <1>5 DEF Serve
  <2>2. PhaseOf("new", runs[t]) = PhaseOf("serving", runs[t]) /\ "serving" \in Stages
    BY PhaseCases DEF Stages
  <2> QED
    BY <2>1, <2>2, StutterStep
<1>6. ASSUME NEW c \in Clients, NEW r \in RequestIds, CancelQueued(c, r)
      PROVE [Lifecycle!Next]_phase
  <2> PICK i \in DOMAIN queue : stage' = [stage EXCEPT ![queue[i]] = "drained"]
    BY <1>6 DEF CancelQueued
  <2>1. queue[i] \in Tasks /\ stage[queue[i]] = "queued"
    BY ElementOfSeq, LenProperties DEF TypeOK, QueueInv
  <2>2. stage' = [t \in Tasks |-> IF t \in {queue[i]} THEN "drained" ELSE stage[t]]
    BY <2>1 DEF TypeOK
  <2>3. runs' = runs
    BY <1>6 DEF CancelQueued
  <2> QED
    BY <2>1, <2>2, <2>3, DrainStep, ZenonT(40)
<1>7. ASSUME NEW c \in Clients, NEW r \in RequestIds, CancelActive(c, r)
      PROVE [Lifecycle!Next]_phase
  BY <1>7, PhaseSame DEF CancelActive
<1>8. ASSUME NEW c \in Clients, NEW r \in RequestIds, CancelUnknown(c, r)
      PROVE [Lifecycle!Next]_phase
  BY <1>8, PhaseSame DEF CancelUnknown
<1>9. ASSUME NEW c \in Clients, CancelAll(c)
      PROVE [Lifecycle!Next]_phase
  <2>1. /\ stage' = [t \in Tasks |-> IF t \in QueuedTasks THEN "drained" ELSE stage[t]]
        /\ runs' = runs
    BY <1>9 DEF CancelAll, DrainQueue
  <2>2. \A t \in QueuedTasks : stage[t] = "queued"
    BY DEF QueueInv, QueuedTasks
  <2> QED
    BY <2>1, <2>2, QueueType, DrainStep
<1>10. ASSUME NEW c \in Clients, RegisterDuplicate(c)
       PROVE [Lifecycle!Next]_phase
  <2>1. /\ ctask[c] \in Tasks /\ stage[ctask[c]] \in {"new", "pending"}
        /\ stage' = [stage EXCEPT ![ctask[c]] = "rejected"] /\ runs' = runs
    BY <1>10 DEF RegisterDuplicate, CallsInv, Raise
  <2> QED
    BY <2>1, RejectStep
<1>11. ASSUME NEW c \in Clients, Register(c)
       PROVE [Lifecycle!Next]_phase
  BY <1>11, PhaseSame DEF Register
<1>12. ASSUME NEW c \in Clients, EnqueueRefused(c)
       PROVE [Lifecycle!Next]_phase
  <2>1. /\ ctask[c] \in Tasks /\ stage[ctask[c]] \in {"new", "pending"}
        /\ stage' = [stage EXCEPT ![ctask[c]] = "rejected"] /\ runs' = runs
    BY <1>12 DEF EnqueueRefused, CallsInv, Raise
  <2> QED
    BY <2>1, RejectStep
<1>13. ASSUME NEW c \in Clients, Enqueue(c)
       PROVE [Lifecycle!Next]_phase
  <2> DEFINE t == ctask[c]
  <2>1. t \in Tasks /\ stage[t] = "pending" /\ registry[RidOf[t]] = t
    BY <1>13 DEF CallsInv, Enqueue
  <2>2. stage' = [stage EXCEPT ![t] = "queued"] /\ runs' = runs
    BY <1>13 DEF Enqueue
  <2>3. /\ \A u \in Tasks : u # t => stage'[u] = stage[u] /\ runs'[u] = runs[u]
        /\ stage'[t] = "queued"
    BY <2>1, <2>2 DEF TypeOK
  <2>4. phase[t] = "new" /\ phase' = [phase EXCEPT ![t] = "accepted"]
    BY <2>1, <2>3, PhaseStep, PhaseCases
  <2>5. ASSUME NEW u \in Tasks, RidOf[u] = RidOf[t], Lifecycle!Alive(u)
        PROVE  FALSE
    <3>1. phase[u] = PhaseOf(stage[u], runs[u]) /\ phase[u] \in {"accepted", "running"}
      BY <2>5 DEF Lifecycle!Alive, phase
    <3>2. Live(u)
      <4>1. stage[u] \in Stages
        BY DEF TypeOK
      <4> QED
        BY <3>1, <4>1, PhaseCases DEF Stages, Live
    <3>3. u = t
      BY <2>1, <2>5, <3>2 DEF LiveTaskOwnsItsId
    <3> QED
      BY <2>1, <3>2, <3>3 DEF Live
  <2> QED
    BY <2>1, <2>4, <2>5 DEF Lifecycle!Next, Lifecycle!Accept, Lifecycle!Move
<1>14. ASSUME NEW c \in Clients, Served(c)
       PROVE [Lifecycle!Next]_phase
  <2>1. /\ ctask[c] \in Tasks /\ stage[ctask[c]] = "serving"
        /\ stage' = [stage EXCEPT ![ctask[c]] = "served"] /\ runs' = runs
    BY <1>14 DEF Served, CallsInv
  <2>2. PhaseOf("serving", runs[ctask[c]]) = PhaseOf("served", runs[ctask[c]]) /\ "served" \in Stages
    BY PhaseCases DEF Stages
  <2> QED
    BY <2>1, <2>2, StutterStep
<1>15. ASSUME NEW c \in Clients, Lookup(c)
       PROVE [Lifecycle!Next]_phase
  BY <1>15, PhaseSame DEF Lookup
<1>16. ASSUME NEW c \in Clients, CancelRegistered(c)
       PROVE [Lifecycle!Next]_phase
  BY <1>16, PhaseSame DEF CancelRegistered
<1>17. ASSUME NEW c \in Clients, Close(c)
       PROVE [Lifecycle!Next]_phase
  <2>1. /\ stage' = [t \in Tasks |-> IF t \in QueuedTasks THEN "drained" ELSE stage[t]]
        /\ runs' = runs
    BY <1>17 DEF Close, DrainQueue
  <2>2. \A t \in QueuedTasks : stage[t] = "queued"
    BY DEF QueueInv, QueuedTasks
  <2> QED
    BY <2>1, <2>2, QueueType, DrainStep
<1>18. ASSUME NEW c \in Clients, CancelToken(c)
       PROVE [Lifecycle!Next]_phase
  BY <1>18, PhaseSame DEF CancelToken
<1>19. ASSUME NEW c \in Clients, ReleaseDrained(c)
       PROVE [Lifecycle!Next]_phase
  BY <1>19, PhaseSame DEF ReleaseDrained
<1>20. ASSUME NEW c \in Clients, NotifyDrained(c)
       PROVE [Lifecycle!Next]_phase
  <2>1. Head(cqueue[c]) \in Tasks /\ stage[Head(cqueue[c])] = "drained"
    BY <1>20, QueueType, HeadTailProperties, LenProperties, EmptySeq DEF TypeOK, DrainInv, NotifyDrained
  <2>2. stage' = [stage EXCEPT ![Head(cqueue[c])] = "ended"] /\ runs' = runs
    BY <1>20 DEF NotifyDrained
  <2> QED
    BY <2>1, <2>2, StutterStep, PhaseCases, OutcomeZero, ZenonT(40) DEF Stages
<1>21. ASSUME NEW c \in Clients, SweepDone(c)
       PROVE [Lifecycle!Next]_phase
  BY <1>21, PhaseSame DEF SweepDone
<1>22. ASSUME NEW w \in Workers, WaitForTask(w)
       PROVE [Lifecycle!Next]_phase
  BY <1>22, PhaseSame DEF WaitForTask
<1>23. ASSUME NEW w \in Workers, Take(w)
       PROVE [Lifecycle!Next]_phase
  <2>1. Head(queue) \in Tasks /\ stage[Head(queue)] = "queued"
    BY <1>23, QueueType, HeadTailProperties, LenProperties, EmptySeq DEF TypeOK, QueueInv, Take
  <2>2. stage' = [stage EXCEPT ![Head(queue)] = "held"] /\ runs' = runs
    BY <1>23 DEF Take
  <2> QED
    BY <2>1, <2>2, StutterStep, PhaseCases, OutcomeZero, ZenonT(40) DEF Stages
<1>24. ASSUME NEW w \in Workers, ReportCancelled(w)
       PROVE [Lifecycle!Next]_phase
  <2> DEFINE t == wtask[w]
  <2>1. t \in Tasks /\ stage[t] = "held" /\ runs[t] = 0
    BY <1>24 DEF WorkersInv, ReportCancelled
  <2>2. stage' = [stage EXCEPT ![t] = "ended"] /\ runs' = runs
    BY <1>24 DEF ReportCancelled
  <2>3. /\ \A u \in Tasks : u # t => stage'[u] = stage[u] /\ runs'[u] = runs[u]
        /\ stage'[t] = "ended" /\ runs'[t] = 0
    BY <2>1, <2>2 DEF TypeOK
  <2>4. phase[t] = "accepted" /\ phase' = [phase EXCEPT ![t] = "cancelled"]
    BY <2>1, <2>3, PhaseStep, PhaseCases
  <2>5. phase' = [u \in Tasks |-> IF u \in {t} THEN "cancelled" ELSE phase[u]]
    BY <2>1, <2>4 DEF phase
  <2> QED
    BY <2>1, <2>4, <2>5, ZenonT(40) DEF Lifecycle!Next, Lifecycle!Cancel
<1>25. ASSUME NEW w \in Workers, Run(w)
       PROVE [Lifecycle!Next]_phase
  <2> DEFINE t == wtask[w]
  <2>1. t \in Tasks /\ stage[t] = "held" /\ runs[t] = 0
    BY <1>25 DEF WorkersInv, Run
  <2>2. \A u \in Tasks : u # t => stage'[u] = stage[u] /\ runs'[u] = runs[u]
    BY <1>25, <2>1 DEF TypeOK, Run
  <2>3. stage'[t] = "held" /\ runs'[t] = 1
    BY <1>25, <2>1 DEF TypeOK, Run
  <2>4. phase[t] = "accepted" /\ phase' = [phase EXCEPT ![t] = "running"]
    BY <2>1, <2>2, <2>3, PhaseStep, PhaseCases
  <2> QED
    BY <2>1, <2>4 DEF Lifecycle!Next, Lifecycle!Start, Lifecycle!Move
<1>26. ASSUME NEW w \in Workers, FinishRun(w)
       PROVE [Lifecycle!Next]_phase
  <2> DEFINE t == wtask[w]
  <2>1. t \in Tasks /\ stage[t] = "held" /\ runs[t] = 1
    BY <1>26 DEF WorkersInv, FinishRun
  <2>2. \A u \in Tasks : u # t => stage'[u] = stage[u] /\ runs'[u] = runs[u]
    BY <1>26, <2>1 DEF TypeOK, FinishRun
  <2>3. stage'[t] = "ended" /\ runs'[t] = 1
    BY <1>26, <2>1 DEF TypeOK, FinishRun
  <2>4. phase[t] = "running" /\ phase' = [phase EXCEPT ![t] = "done"]
    BY <2>1, <2>2, <2>3, PhaseStep, PhaseCases
  <2> QED
    BY <2>1, <2>4 DEF Lifecycle!Next, Lifecycle!Finish, Lifecycle!Move
<1>27. ASSUME NEW w \in Workers, Cleanup(w)
       PROVE [Lifecycle!Next]_phase
  BY <1>27, PhaseSame DEF Cleanup
<1>28. ASSUME NEW w \in Workers, Pop(w)
       PROVE [Lifecycle!Next]_phase
  BY <1>28, PhaseSame DEF Pop
<1>29. ASSUME UNCHANGED vars
       PROVE [Lifecycle!Next]_phase
  BY <1>29, PhaseSame DEF vars
<1> QED
  BY <1>1, <1>2, <1>3, <1>4, <1>5, <1>6, <1>7, <1>8, <1>9, <1>10, <1>11, <1>12,
     <1>13, <1>14, <1>15, <1>16, <1>17, <1>18, <1>19, <1>20, <1>21, <1>22,
     <1>23, <1>24, <1>25, <1>26, <1>27, <1>28, <1>29
  DEF Next, StartCall, ContinueCall, WorkerStep

\* The scheduler implements TaskLifecycle: an accepted task is run once or
\* cancelled once, and one request id has one task alive.
THEOREM SchedulerImplementsLifecycle == Spec => LifecycleSpec
<1>1. Init => Lifecycle!Init
  BY PhaseCases DEF Init, Lifecycle!Init, phase
<1>2. SchedulerInv /\ SchedulerInv' /\ [Next]_vars => [Lifecycle!Next]_phase
  BY NextRefines DEF SchedulerInv
<1> QED
  BY <1>1, <1>2, SchedulerInvariant, PTL DEF Spec, LifecycleSpec, Lifecycle!Spec

\* What the lifecycle promises its clients, on the scheduler itself: of the
\* submissions of one request id only one is waiting or running, so an event with
\* that id can only be of that one.
THEOREM OneSubmissionAlive == Spec => []Lifecycle!OneAlivePerRequest
<1>1. SchedulerInv => Lifecycle!OneAlivePerRequest
  <2> SUFFICES ASSUME SchedulerInv, NEW t \in Tasks, NEW u \in Tasks,
                      Lifecycle!Alive(t), Lifecycle!Alive(u), RidOf[t] = RidOf[u]
               PROVE  t = u
    BY DEF Lifecycle!OneAlivePerRequest
  <2>1. ASSUME NEW v \in Tasks, Lifecycle!Alive(v)
        PROVE  Live(v)
    <3>1. /\ PhaseOf(stage[v], runs[v]) \in {"accepted", "running"}
          /\ stage[v] \in Stages
      BY <2>1 DEF Lifecycle!Alive, phase, SchedulerInv, TypeOK
    <3> QED
      BY <3>1 DEF PhaseOf, Stages, Live
  <2>2. registry[RidOf[t]] = t /\ registry[RidOf[u]] = u
    BY <2>1 DEF SchedulerInv, LiveTaskOwnsItsId
  <2> QED
    BY <2>2
<1> QED
  BY <1>1, SchedulerInvariant, PTL
-----------------------------------------------------------------------------
(* What a cancel and a close reach.                                        *)

\* A task that waits is in the queue, and nobody else is filed under the id of a task that is held:
\* Pop may have taken its entry away, for it goes by the id.  A task is registered under its own id.
FilesInv ==
  /\ \A t \in Tasks : stage[t] = "queued" => t \in QueuedTasks
  /\ \A t \in Tasks : stage[t] = "held" => active[RidOf[t]] \in {t, NoTask}
  /\ \A r \in RequestIds : registry[r] # NoTask => RidOf[registry[r]] = r

\* Only a sweep is followed by another part of a call.
AfterInv ==
  \A c \in Clients :
    cpc[c] \in {"idle", "register", "enqueue", "serve", "lookup"} => after[c] = "idle"

\* What a cancel was issued for is cancelled, on the call's list, over, or under the id that the
\* call has yet to look up.
AimInv ==
  \A c \in Clients : target[c] # NoTask =>
    /\ cpc[c] \in {"lookup", "sweep", "notify"} /\ after[c] = "idle"
    /\ stage[target[c]] \in {"queued", "held", "drained", "ended"}
    /\ cpc[c] = "lookup" => crid[c] = RidOf[target[c]]
    /\ cpc[c] # "lookup" /\ Live(target[c]) => target[c] \in cancelled \cup chits[c]

\* The call of close that has read the registered tokens.
Sweeping(c) == \/ cpc[c] = "close"
               \/ (cpc[c] \in {"sweep", "notify"} /\ after[c] = "close")

\* From then on it has cancelled whoever is alive, or will.
CloseInv ==
  /\ \A c \in Clients : Sweeping(c) => \A t \in Tasks : Live(t) => t \in cancelled \cup chits[c]
  /\ \A c \in Clients : cpc[c] = "close" => chits[c] = {}
  /\ closed /\ started => \A t \in Tasks : Live(t) => t \in cancelled

\* The queue after a task is taken out of it still has all others.
LEMMA OthersStayQueued ==
  ASSUME TypeOK, NEW i \in DOMAIN queue, NEW t \in QueuedTasks, t # queue[i]
  PROVE  \E k \in DOMAIN Without(queue, i) : Without(queue, i)[k] = t
<1>1. /\ Len(queue) \in Nat /\ DOMAIN queue = 1..Len(queue)
      /\ DOMAIN Without(queue, i) = 1..(Len(queue) - 1)
      /\ \A j \in DOMAIN Without(queue, i) :
           Without(queue, i)[j] = IF j < i THEN queue[j] ELSE queue[j + 1]
  BY WithoutSeq, LenProperties DEF TypeOK
<1>2. PICK j \in DOMAIN queue : queue[j] = t
  BY DEF QueuedTasks
<1>3. j \in 1..Len(queue) /\ i \in 1..Len(queue) /\ j # i
  BY <1>1, <1>2
<1>4. CASE j < i
  <2>1. j \in 1..(Len(queue) - 1)
    BY <1>1, <1>3, <1>4
  <2> QED
    BY <1>1, <1>2, <1>4, <2>1
<1>5. CASE i < j
  <2>1. j - 1 \in 1..(Len(queue) - 1) /\ ~(j - 1 < i) /\ (j - 1) + 1 = j
    BY <1>1, <1>3, <1>5
  <2> QED
    BY <1>1, <1>2, <2>1
<1> QED
  BY <1>1, <1>3, <1>4, <1>5

\* The same of the worker that takes the head, and of the client that appends.
LEMMA QueueMoves ==
  ASSUME TypeOK
  PROVE  /\ queue # <<>> => /\ Head(queue) \in QueuedTasks
                            /\ \A t \in QueuedTasks : t # Head(queue) =>
                                 \E k \in DOMAIN Tail(queue) : Tail(queue)[k] = t
         /\ \A u \in Tasks : \A t \in QueuedTasks \cup {u} :
              \E k \in DOMAIN Append(queue, u) : Append(queue, u)[k] = t
<1>1. Len(queue) \in Nat /\ DOMAIN queue = 1..Len(queue)
  BY LenProperties DEF TypeOK
<1>2. ASSUME queue # <<>>
      PROVE  /\ Head(queue) \in QueuedTasks
             /\ \A t \in QueuedTasks : t # Head(queue) =>
                  \E k \in DOMAIN Tail(queue) : Tail(queue)[k] = t
  <2>1. /\ Head(queue) = queue[1] /\ 1 \in DOMAIN queue
        /\ Tail(queue) \in Seq(Tasks) /\ Len(Tail(queue)) = Len(queue) - 1
        /\ \A k \in 1..Len(Tail(queue)) : Tail(queue)[k] = queue[k + 1]
    BY <1>1, <1>2, HeadTailProperties, EmptySeq DEF TypeOK
  <2>2. DOMAIN Tail(queue) = 1..(Len(queue) - 1)
    BY <2>1, LenProperties
  <2>3. ASSUME NEW t \in QueuedTasks, t # Head(queue)
        PROVE  \E k \in DOMAIN Tail(queue) : Tail(queue)[k] = t
    <3>1. PICK j \in DOMAIN queue : queue[j] = t
      BY DEF QueuedTasks
    <3>2. j - 1 \in DOMAIN Tail(queue) /\ (j - 1) + 1 = j
      BY <1>1, <2>1, <2>2, <2>3, <3>1
    <3> QED
      BY <2>1, <2>2, <3>1, <3>2
  <2> QED
    BY <2>1, <2>3 DEF QueuedTasks
<1>3. ASSUME NEW u \in Tasks, NEW t \in QueuedTasks \cup {u}
      PROVE  \E k \in DOMAIN Append(queue, u) : Append(queue, u)[k] = t
  <2>1. /\ DOMAIN Append(queue, u) = 1..(Len(queue) + 1) /\ Append(queue, u)[Len(queue) + 1] = u
        /\ \A i \in 1..Len(queue) : Append(queue, u)[i] = queue[i]
    BY AppendProperties, LenProperties DEF TypeOK
  <2>2. CASE t = u
    BY <1>1, <2>1, <2>2
  <2>3. CASE t # u
    <3>1. PICK j \in DOMAIN queue : queue[j] = t
      BY <2>3 DEF QueuedTasks
    <3>2. j \in 1..Len(queue) /\ j \in 1..(Len(queue) + 1)
      BY <1>1, <3>1
    <3> QED
      BY <2>1, <3>1, <3>2
  <2> QED
    BY <2>2, <2>3
<1> QED
  BY <1>2, <1>3

\* Of the tasks of an id only the one that owns it is held.
LEMMA NextFiles ==
  ASSUME SchedulerInv, FilesInv, [Next]_vars, TypeOK'
  PROVE  FilesInv'
<1> USE SchedulerAssumption, IdsOfTasks
<1> USE DEF shared, workerVars, callVars, history
<1> USE DEF SchedulerInv
<1>1. ASSUME NEW c \in Clients, NEW t \in Tasks, SubmitClosed(c, t)
      PROVE  FilesInv'
  BY <1>1 DEF TypeOK, FilesInv, QueuedTasks, Released, SubmitClosed
<1>2. ASSUME NEW c \in Clients, NEW t \in Tasks, Submit(c, t)
      PROVE  FilesInv'
  BY <1>2 DEF TypeOK, FilesInv, QueuedTasks, Released, Submit
<1>3. ASSUME NEW c \in Clients, NEW t \in Tasks, SubmitStartFails(c, t)
      PROVE  FilesInv'
  BY <1>3 DEF TypeOK, FilesInv, QueuedTasks, Released, SubmitStartFails
<1>4. ASSUME NEW c \in Clients, NEW t \in Tasks, ServeDuplicate(c, t)
      PROVE  FilesInv'
  BY <1>4 DEF TypeOK, FilesInv, QueuedTasks, Released, ServeDuplicate
<1>5. ASSUME NEW c \in Clients, NEW t \in Tasks, Serve(c, t)
      PROVE  FilesInv'
  BY <1>5 DEF TypeOK, FilesInv, QueuedTasks, Released, Serve
<1>6. ASSUME NEW c \in Clients, NEW r \in RequestIds, CancelQueued(c, r)
      PROVE  FilesInv'
  <2>1. PICK i \in DOMAIN queue : /\ stage' = [stage EXCEPT ![queue[i]] = "drained"]
                                  /\ queue' = Without(queue, i)
                                  /\ UNCHANGED <<registry, active>>
    BY <1>6 DEF CancelQueued
  <2>2. ASSUME NEW t \in Tasks, stage'[t] = "queued"
        PROVE  t \in QueuedTasks'
    <3>1. t # queue[i] /\ stage[t] = "queued"
      BY <2>1, <2>2 DEF TypeOK
    <3>2. \E k \in DOMAIN queue' : queue'[k] = t
      BY <2>1, <3>1, OthersStayQueued DEF FilesInv
    <3> QED
      BY <3>2 DEF QueuedTasks
  <2> QED
    BY <2>1, <2>2 DEF TypeOK, FilesInv
<1>7. ASSUME NEW c \in Clients, NEW r \in RequestIds, CancelActive(c, r)
      PROVE  FilesInv'
  BY <1>7 DEF TypeOK, FilesInv, QueuedTasks, Released, CancelActive
<1>8. ASSUME NEW c \in Clients, NEW r \in RequestIds, CancelUnknown(c, r)
      PROVE  FilesInv'
  BY <1>8 DEF TypeOK, FilesInv, QueuedTasks, Released, CancelUnknown
<1>9. ASSUME NEW c \in Clients, CancelAll(c)
      PROVE  FilesInv'
  BY <1>9 DEF TypeOK, FilesInv, QueuedTasks, Released, CancelAll, DrainQueue
<1>10. ASSUME NEW c \in Clients, RegisterDuplicate(c)
       PROVE  FilesInv'
  BY <1>10 DEF TypeOK, FilesInv, QueuedTasks, Released, RegisterDuplicate, Raise, CallsInv
<1>11. ASSUME NEW c \in Clients, Register(c)
       PROVE  FilesInv'
  BY <1>11 DEF TypeOK, FilesInv, QueuedTasks, Released, Register
<1>12. ASSUME NEW c \in Clients, EnqueueRefused(c)
       PROVE  FilesInv'
  BY <1>12 DEF TypeOK, FilesInv, QueuedTasks, Released, EnqueueRefused, Raise, CallsInv
<1>13. ASSUME NEW c \in Clients, Enqueue(c)
       PROVE  FilesInv'
  <2>1. /\ ctask[c] \in Tasks /\ queue' = Append(queue, ctask[c])
        /\ UNCHANGED <<registry, active>>
        /\ stage' = [stage EXCEPT ![ctask[c]] = "queued"]
    BY <1>13 DEF Enqueue, CallsInv
  <2>2. ASSUME NEW t \in Tasks, stage'[t] = "queued"
        PROVE  t \in QueuedTasks'
    <3>1. t \in QueuedTasks \cup {ctask[c]}
      BY <2>1, <2>2 DEF TypeOK, FilesInv
    <3>2. \E k \in DOMAIN queue' : queue'[k] = t
      BY <2>1, <3>1, QueueMoves
    <3> QED
      BY <3>2 DEF QueuedTasks
  <2> QED
    BY <2>1, <2>2 DEF TypeOK, FilesInv
<1>14. ASSUME NEW c \in Clients, Served(c)
       PROVE  FilesInv'
  BY <1>14 DEF TypeOK, FilesInv, QueuedTasks, Released, Served, CallsInv
<1>15. ASSUME NEW c \in Clients, Lookup(c)
       PROVE  FilesInv'
  BY <1>15 DEF TypeOK, FilesInv, QueuedTasks, Released, Lookup
<1>16. ASSUME NEW c \in Clients, CancelRegistered(c)
       PROVE  FilesInv'
  BY <1>16 DEF TypeOK, FilesInv, QueuedTasks, Released, CancelRegistered
<1>17. ASSUME NEW c \in Clients, Close(c)
       PROVE  FilesInv'
  BY <1>17 DEF TypeOK, FilesInv, QueuedTasks, Released, Close, DrainQueue
<1>18. ASSUME NEW c \in Clients, CancelToken(c)
       PROVE  FilesInv'
  BY <1>18 DEF TypeOK, FilesInv, QueuedTasks, Released, CancelToken
<1>19. ASSUME NEW c \in Clients, ReleaseDrained(c)
       PROVE  FilesInv'
  BY <1>19 DEF TypeOK, FilesInv, QueuedTasks, Released, ReleaseDrained
<1>20. ASSUME NEW c \in Clients, NotifyDrained(c)
       PROVE  FilesInv'
  BY <1>20 DEF TypeOK, FilesInv, QueuedTasks, Released, NotifyDrained, DrainInv
<1>21. ASSUME NEW c \in Clients, SweepDone(c)
       PROVE  FilesInv'
  BY <1>21 DEF TypeOK, FilesInv, QueuedTasks, Released, SweepDone
<1>22. ASSUME NEW w \in Workers, WaitForTask(w)
       PROVE  FilesInv'
  BY <1>22 DEF TypeOK, FilesInv, QueuedTasks, Released, WaitForTask
<1>23. ASSUME NEW w \in Workers, Take(w)
       PROVE  FilesInv'
  <2> DEFINE u == Head(queue)
  <2>1. /\ u \in Tasks /\ u \in QueuedTasks /\ stage[u] = "queued" /\ queue' = Tail(queue)
        /\ stage' = [stage EXCEPT ![u] = "held"] /\ active' = [active EXCEPT ![RidOf[u]] = u]
        /\ registry' = registry
    BY <1>23, QueueMoves, QueueType DEF Take, QueueInv, QueuedTasks
  <2>2. ASSUME NEW t \in Tasks, stage'[t] = "queued"
        PROVE  t \in QueuedTasks'
    <3>1. t # u /\ t \in QueuedTasks
      BY <2>1, <2>2 DEF TypeOK, FilesInv
    <3>2. \E k \in DOMAIN queue' : queue'[k] = t
      BY <1>23, <2>1, <3>1, QueueMoves DEF Take
    <3> QED
      BY <3>2 DEF QueuedTasks
  <2>3. ASSUME NEW t \in Tasks, stage'[t] = "held"
        PROVE  active'[RidOf[t]] \in {t, NoTask}
    <3>1. t # u => RidOf[t] # RidOf[u]
      BY <2>1, <2>3 DEF TypeOK, LiveTaskOwnsItsId, Live
    <3> QED
      BY <2>1, <2>3, <3>1 DEF TypeOK, FilesInv
  <2> QED
    BY <2>1, <2>2, <2>3 DEF FilesInv
<1>24. ASSUME NEW w \in Workers, ReportCancelled(w)
       PROVE  FilesInv'
  BY <1>24 DEF TypeOK, FilesInv, QueuedTasks, Released, ReportCancelled, WorkersInv
<1>25. ASSUME NEW w \in Workers, Run(w)
       PROVE  FilesInv'
  BY <1>25 DEF TypeOK, FilesInv, QueuedTasks, Released, Run
<1>26. ASSUME NEW w \in Workers, FinishRun(w)
       PROVE  FilesInv'
  BY <1>26 DEF TypeOK, FilesInv, QueuedTasks, Released, FinishRun, WorkersInv
<1>27. ASSUME NEW w \in Workers, Cleanup(w)
       PROVE  FilesInv'
  BY <1>27 DEF TypeOK, FilesInv, QueuedTasks, Released, Cleanup
<1>28. ASSUME NEW w \in Workers, Pop(w)
       PROVE  FilesInv'
  BY <1>28 DEF TypeOK, FilesInv, QueuedTasks, Released, Pop, WorkersInv
<1>29. CASE UNCHANGED vars
  BY <1>29 DEF TypeOK, FilesInv, QueuedTasks, Released, vars
<1> QED
  BY <1>1, <1>2, <1>3, <1>4, <1>5, <1>6, <1>7, <1>8, <1>9, <1>10, <1>11, <1>12,
     <1>13, <1>14, <1>15, <1>16, <1>17, <1>18, <1>19, <1>20, <1>21, <1>22,
     <1>23, <1>24, <1>25, <1>26, <1>27, <1>28, <1>29
  DEF Next, StartCall, ContinueCall, WorkerStep

\* Every call that has no second part says so.
LEMMA NextAfter ==
  ASSUME SchedulerInv, AfterInv, [Next]_vars, TypeOK'
  PROVE  AfterInv'
<1> USE SchedulerAssumption, IdsOfTasks
<1> USE DEF shared, workerVars, callVars, history
<1> USE DEF SchedulerInv
<1>1. ASSUME NEW c \in Clients, NEW t \in Tasks, SubmitClosed(c, t)
      PROVE  AfterInv'
  BY <1>1 DEF TypeOK, AfterInv, SubmitClosed
<1>2. ASSUME NEW c \in Clients, NEW t \in Tasks, Submit(c, t)
      PROVE  AfterInv'
  BY <1>2 DEF TypeOK, AfterInv, Submit
<1>3. ASSUME NEW c \in Clients, NEW t \in Tasks, SubmitStartFails(c, t)
      PROVE  AfterInv'
  BY <1>3 DEF TypeOK, AfterInv, SubmitStartFails
<1>4. ASSUME NEW c \in Clients, NEW t \in Tasks, ServeDuplicate(c, t)
      PROVE  AfterInv'
  BY <1>4 DEF TypeOK, AfterInv, ServeDuplicate
<1>5. ASSUME NEW c \in Clients, NEW t \in Tasks, Serve(c, t)
      PROVE  AfterInv'
  BY <1>5 DEF TypeOK, AfterInv, Serve
<1>6. ASSUME NEW c \in Clients, NEW r \in RequestIds, CancelQueued(c, r)
      PROVE  AfterInv'
  BY <1>6 DEF TypeOK, AfterInv, CancelQueued
<1>7. ASSUME NEW c \in Clients, NEW r \in RequestIds, CancelActive(c, r)
      PROVE  AfterInv'
  BY <1>7 DEF TypeOK, AfterInv, CancelActive
<1>8. ASSUME NEW c \in Clients, NEW r \in RequestIds, CancelUnknown(c, r)
      PROVE  AfterInv'
  BY <1>8 DEF TypeOK, AfterInv, CancelUnknown
<1>9. ASSUME NEW c \in Clients, CancelAll(c)
      PROVE  AfterInv'
  BY <1>9 DEF TypeOK, AfterInv, CancelAll, DrainQueue
<1>10. ASSUME NEW c \in Clients, RegisterDuplicate(c)
       PROVE  AfterInv'
  BY <1>10 DEF TypeOK, AfterInv, RegisterDuplicate, Raise
<1>11. ASSUME NEW c \in Clients, Register(c)
       PROVE  AfterInv'
  BY <1>11 DEF TypeOK, AfterInv, Register
<1>12. ASSUME NEW c \in Clients, EnqueueRefused(c)
       PROVE  AfterInv'
  BY <1>12 DEF TypeOK, AfterInv, EnqueueRefused, Raise
<1>13. ASSUME NEW c \in Clients, Enqueue(c)
       PROVE  AfterInv'
  BY <1>13 DEF TypeOK, AfterInv, Enqueue
<1>14. ASSUME NEW c \in Clients, Served(c)
       PROVE  AfterInv'
  BY <1>14 DEF TypeOK, AfterInv, Served
<1>15. ASSUME NEW c \in Clients, Lookup(c)
       PROVE  AfterInv'
  BY <1>15 DEF TypeOK, AfterInv, Lookup
<1>16. ASSUME NEW c \in Clients, CancelRegistered(c)
       PROVE  AfterInv'
  BY <1>16 DEF TypeOK, AfterInv, CancelRegistered
<1>17. ASSUME NEW c \in Clients, Close(c)
       PROVE  AfterInv'
  BY <1>17 DEF TypeOK, AfterInv, Close, DrainQueue
<1>18. ASSUME NEW c \in Clients, CancelToken(c)
       PROVE  AfterInv'
  BY <1>18 DEF TypeOK, AfterInv, CancelToken
<1>19. ASSUME NEW c \in Clients, ReleaseDrained(c)
       PROVE  AfterInv'
  BY <1>19 DEF TypeOK, AfterInv, ReleaseDrained
<1>20. ASSUME NEW c \in Clients, NotifyDrained(c)
       PROVE  AfterInv'
  BY <1>20 DEF TypeOK, AfterInv, NotifyDrained
<1>21. ASSUME NEW c \in Clients, SweepDone(c)
       PROVE  AfterInv'
  BY <1>21 DEF TypeOK, AfterInv, SweepDone
<1>22. ASSUME NEW w \in Workers, WaitForTask(w)
       PROVE  AfterInv'
  BY <1>22 DEF TypeOK, AfterInv, WaitForTask
<1>23. ASSUME NEW w \in Workers, Take(w)
       PROVE  AfterInv'
  BY <1>23 DEF TypeOK, AfterInv, Take
<1>24. ASSUME NEW w \in Workers, ReportCancelled(w)
       PROVE  AfterInv'
  BY <1>24 DEF TypeOK, AfterInv, ReportCancelled
<1>25. ASSUME NEW w \in Workers, Run(w)
       PROVE  AfterInv'
  BY <1>25 DEF TypeOK, AfterInv, Run
<1>26. ASSUME NEW w \in Workers, FinishRun(w)
       PROVE  AfterInv'
  BY <1>26 DEF TypeOK, AfterInv, FinishRun
<1>27. ASSUME NEW w \in Workers, Cleanup(w)
       PROVE  AfterInv'
  BY <1>27 DEF TypeOK, AfterInv, Cleanup
<1>28. ASSUME NEW w \in Workers, Pop(w)
       PROVE  AfterInv'
  BY <1>28 DEF TypeOK, AfterInv, Pop
<1>29. CASE UNCHANGED vars
  BY <1>29 DEF TypeOK, AfterInv, vars
<1> QED
  BY <1>1, <1>2, <1>3, <1>4, <1>5, <1>6, <1>7, <1>8, <1>9, <1>10, <1>11, <1>12,
     <1>13, <1>14, <1>15, <1>16, <1>17, <1>18, <1>19, <1>20, <1>21, <1>22,
     <1>23, <1>24, <1>25, <1>26, <1>27, <1>28, <1>29
  DEF Next, StartCall, ContinueCall, WorkerStep

\* A cancel is issued only for the owner of its id, and every step leaves it on a list or ends it.
LEMMA NextAim ==
  ASSUME SchedulerInv, FilesInv, AfterInv, AimInv, [Next]_vars, TypeOK'
  PROVE  AimInv'
<1> USE SchedulerAssumption, IdsOfTasks
<1> USE DEF shared, workerVars, callVars, history
<1> USE DEF SchedulerInv
<1>1. ASSUME NEW c \in Clients, NEW t \in Tasks, SubmitClosed(c, t)
      PROVE  AimInv'
  BY <1>1 DEF TypeOK, AimInv, AfterInv, Live, SubmitClosed
<1>2. ASSUME NEW c \in Clients, NEW t \in Tasks, Submit(c, t)
      PROVE  AimInv'
  BY <1>2 DEF TypeOK, AimInv, AfterInv, Live, Submit
<1>3. ASSUME NEW c \in Clients, NEW t \in Tasks, SubmitStartFails(c, t)
      PROVE  AimInv'
  BY <1>3 DEF TypeOK, AimInv, AfterInv, Live, SubmitStartFails
<1>4. ASSUME NEW c \in Clients, NEW t \in Tasks, ServeDuplicate(c, t)
      PROVE  AimInv'
  BY <1>4 DEF TypeOK, AimInv, AfterInv, Live, ServeDuplicate
<1>5. ASSUME NEW c \in Clients, NEW t \in Tasks, Serve(c, t)
      PROVE  AimInv'
  BY <1>5 DEF TypeOK, AimInv, AfterInv, Live, Serve
<1>6. ASSUME NEW c \in Clients, NEW r \in RequestIds, CancelQueued(c, r)
      PROVE  AimInv'
  <2>1. PICK i \in DOMAIN queue : /\ RidOf[queue[i]] = r
                                  /\ stage' = [stage EXCEPT ![queue[i]] = "drained"]
    BY <1>6 DEF CancelQueued
  <2>2. queue[i] \in Tasks /\ stage[queue[i]] = "queued" /\ Meant(r) = queue[i]
    BY <2>1, ElementOfSeq, LenProperties DEF TypeOK, QueueInv, LiveTaskOwnsItsId, Live, Meant
  <2>3. /\ target' = [target EXCEPT ![c] = queue[i]] /\ cpc' = [cpc EXCEPT ![c] = "sweep"]
        /\ after' = [after EXCEPT ![c] = "idle"] /\ UNCHANGED <<crid, chits, cancelled>>
    BY <1>6, <2>2 DEF CancelQueued
  <2>4. stage' \in [Tasks -> Stages] /\ stage'[queue[i]] = "drained"
    BY <2>1, <2>2 DEF TypeOK, Stages
  <2>5. ASSUME NEW d \in Clients, d # c, target[d] # NoTask
        PROVE  /\ cpc'[d] = cpc[d] /\ after'[d] = after[d] /\ target'[d] = target[d]
               /\ stage'[target[d]] \in {stage[target[d]], "drained"}
    BY <2>1, <2>3, <2>5 DEF TypeOK
  <2>6. \A d \in Clients : target'[d] # NoTask => d = c \/ target[d] # NoTask
    BY <2>3 DEF TypeOK
  <2>7. /\ cpc'[c] = "sweep" /\ after'[c] = "idle" /\ target'[c] = queue[i]
    BY <2>3 DEF TypeOK
  <2>8. ASSUME NEW d \in Clients, target'[d] # NoTask, d # c
        PROVE  /\ cpc'[d] \in {"lookup", "sweep", "notify"} /\ after'[d] = "idle"
               /\ stage'[target'[d]] \in {"queued", "held", "drained", "ended"}
               /\ cpc'[d] = "lookup" => crid'[d] = RidOf[target'[d]]
               /\ cpc'[d] # "lookup" /\ stage'[target'[d]] \in {"queued", "held"}
                    => target'[d] \in cancelled' \cup chits'[d]
    <3>1. target[d] # NoTask /\ crid'[d] = crid[d] /\ chits'[d] = chits[d] /\ cancelled' = cancelled
      BY <2>3, <2>6, <2>8
    <3> QED
      BY <2>5, <2>8, <3>1 DEF AimInv, Live
  <2>9. stage'[target'[c]] \notin {"queued", "held"} /\ stage'[target'[c]] = "drained"
    BY <2>4, <2>7
  <2> QED
    BY <2>7, <2>8, <2>9 DEF AimInv, Live
<1>7. ASSUME NEW c \in Clients, NEW r \in RequestIds, CancelActive(c, r)
      PROVE  AimInv'
  <2>1. ASSUME Meant(r) # NoTask
        PROVE  /\ Meant(r) \in Tasks /\ Meant(r) = active[r] /\ stage[Meant(r)] = "held"
    <3>1. Meant(r) = registry[r] /\ Meant(r) \in Tasks /\ Live(Meant(r))
      BY <2>1 DEF TypeOK, Meant
    <3>2. RidOf[Meant(r)] = r
      BY <3>1 DEF FilesInv
    <3>3. stage[Meant(r)] # "queued"
      BY <1>7, <3>1, <3>2 DEF CancelActive, FilesInv
    <3> QED
      BY <1>7, <3>1, <3>2, <3>3 DEF CancelActive, FilesInv, Live
  <2> QED
    BY <1>7, <2>1 DEF TypeOK, AimInv, Live, CancelActive
<1>8. ASSUME NEW c \in Clients, NEW r \in RequestIds, CancelUnknown(c, r)
      PROVE  AimInv'
  <2>1. Meant(r) # NoTask => /\ Meant(r) \in Tasks /\ RidOf[Meant(r)] = r
                             /\ stage[Meant(r)] \in {"queued", "held"}
    BY DEF TypeOK, Meant, FilesInv, Live
  <2> QED
    BY <1>8, <2>1 DEF TypeOK, AimInv, AfterInv, Live, CancelUnknown
<1>9. ASSUME NEW c \in Clients, CancelAll(c)
      PROVE  AimInv'
  BY <1>9 DEF TypeOK, AimInv, AfterInv, Live, CancelAll, DrainQueue
<1>10. ASSUME NEW c \in Clients, RegisterDuplicate(c)
       PROVE  AimInv'
  BY <1>10 DEF TypeOK, AimInv, AfterInv, Live, RegisterDuplicate, Raise, CallsInv
<1>11. ASSUME NEW c \in Clients, Register(c)
       PROVE  AimInv'
  BY <1>11 DEF TypeOK, AimInv, AfterInv, Live, Register
<1>12. ASSUME NEW c \in Clients, EnqueueRefused(c)
       PROVE  AimInv'
  BY <1>12 DEF TypeOK, AimInv, AfterInv, Live, EnqueueRefused, Raise, CallsInv
<1>13. ASSUME NEW c \in Clients, Enqueue(c)
       PROVE  AimInv'
  <2>1. /\ stage[ctask[c]] = "pending" /\ stage' = [stage EXCEPT ![ctask[c]] = "queued"]
        /\ cpc' = [cpc EXCEPT ![c] = "idle"] /\ cpc[c] = "enqueue"
        /\ UNCHANGED <<crid, chits, after, target, cancelled>>
    BY <1>13 DEF Enqueue, CallsInv
  <2>2. \A d \in Clients : target[d] # NoTask =>
          /\ d # c /\ target[d] \in Tasks /\ target[d] # ctask[c]
          /\ stage'[target[d]] = stage[target[d]] /\ cpc'[d] = cpc[d]
    <3> SUFFICES ASSUME NEW d \in Clients, target[d] # NoTask
                 PROVE  /\ d # c /\ target[d] \in Tasks /\ target[d] # ctask[c]
                        /\ stage'[target[d]] = stage[target[d]] /\ cpc'[d] = cpc[d]
      OBVIOUS
    <3>1. d # c /\ target[d] \in Tasks /\ target[d] # ctask[c]
      BY <2>1, ZenonT(40) DEF TypeOK, AimInv
    <3> QED
      BY <2>1, <3>1 DEF TypeOK
  <2> QED
    BY <2>1, <2>2 DEF AimInv, Live
<1>14. ASSUME NEW c \in Clients, Served(c)
       PROVE  AimInv'
  BY <1>14 DEF TypeOK, AimInv, AfterInv, Live, Served, CallsInv
<1>15. ASSUME NEW c \in Clients, Lookup(c)
       PROVE  AimInv'
  BY <1>15 DEF TypeOK, AimInv, AfterInv, Live, Lookup, TokensOf, LiveTaskOwnsItsId
<1>16. ASSUME NEW c \in Clients, CancelRegistered(c)
       PROVE  AimInv'
  BY <1>16 DEF TypeOK, AimInv, AfterInv, Live, CancelRegistered
<1>17. ASSUME NEW c \in Clients, Close(c)
       PROVE  AimInv'
  BY <1>17 DEF TypeOK, AimInv, AfterInv, Live, Close, DrainQueue
<1>18. ASSUME NEW c \in Clients, CancelToken(c)
       PROVE  AimInv'
  BY <1>18 DEF TypeOK, AimInv, AfterInv, Live, CancelToken
<1>19. ASSUME NEW c \in Clients, ReleaseDrained(c)
       PROVE  AimInv'
  BY <1>19 DEF TypeOK, AimInv, AfterInv, Live, ReleaseDrained
<1>20. ASSUME NEW c \in Clients, NotifyDrained(c)
       PROVE  AimInv'
  BY <1>20 DEF TypeOK, AimInv, AfterInv, Live, NotifyDrained, DrainInv
<1>21. ASSUME NEW c \in Clients, SweepDone(c)
       PROVE  AimInv'
  BY <1>21 DEF TypeOK, AimInv, AfterInv, Live, SweepDone
<1>22. ASSUME NEW w \in Workers, WaitForTask(w)
       PROVE  AimInv'
  BY <1>22 DEF TypeOK, AimInv, AfterInv, Live, WaitForTask
<1>23. ASSUME NEW w \in Workers, Take(w)
       PROVE  AimInv'
  <2> DEFINE u == Head(queue)
  <2>1. /\ u \in Tasks /\ stage[u] = "queued" /\ stage' = [stage EXCEPT ![u] = "held"]
        /\ UNCHANGED <<cpc, crid, chits, after, target, cancelled>>
    BY <1>23, QueueMoves, QueueType DEF Take, QueueInv, QueuedTasks
  <2>2. \A t \in Tasks : stage'[t] = stage[t] \/ (stage[t] = "queued" /\ stage'[t] = "held")
    BY <2>1 DEF TypeOK
  <2> QED
    BY <2>1, <2>2 DEF TypeOK, AimInv, Live
<1>24. ASSUME NEW w \in Workers, ReportCancelled(w)
       PROVE  AimInv'
  BY <1>24 DEF TypeOK, AimInv, AfterInv, Live, ReportCancelled, WorkersInv
<1>25. ASSUME NEW w \in Workers, Run(w)
       PROVE  AimInv'
  BY <1>25 DEF TypeOK, AimInv, AfterInv, Live, Run
<1>26. ASSUME NEW w \in Workers, FinishRun(w)
       PROVE  AimInv'
  BY <1>26 DEF TypeOK, AimInv, AfterInv, Live, FinishRun, WorkersInv
<1>27. ASSUME NEW w \in Workers, Cleanup(w)
       PROVE  AimInv'
  BY <1>27 DEF TypeOK, AimInv, AfterInv, Live, Cleanup
<1>28. ASSUME NEW w \in Workers, Pop(w)
       PROVE  AimInv'
  BY <1>28 DEF TypeOK, AimInv, AfterInv, Live, Pop
<1>29. CASE UNCHANGED vars
  BY <1>29 DEF TypeOK, AimInv, AfterInv, Live, vars
<1> QED
  BY <1>1, <1>2, <1>3, <1>4, <1>5, <1>6, <1>7, <1>8, <1>9, <1>10, <1>11, <1>12,
     <1>13, <1>14, <1>15, <1>16, <1>17, <1>18, <1>19, <1>20, <1>21, <1>22,
     <1>23, <1>24, <1>25, <1>26, <1>27, <1>28, <1>29
  DEF Next, StartCall, ContinueCall, WorkerStep

\* The thread that closes does not submit, so nobody comes alive behind its back.
LEMMA NextClose ==
  ASSUME SchedulerInv, AfterInv, CloseInv, \A c, d \in Clients : c = d, [Next]_vars, TypeOK'
  PROVE  CloseInv'
<1> USE SchedulerAssumption, IdsOfTasks
<1> USE DEF shared, workerVars, callVars, history
<1> USE DEF SchedulerInv
<1>1. ASSUME NEW c \in Clients, NEW t \in Tasks, SubmitClosed(c, t)
      PROVE  CloseInv'
  BY <1>1 DEF TypeOK, CloseInv, AfterInv, Sweeping, Live, SubmitClosed
<1>2. ASSUME NEW c \in Clients, NEW t \in Tasks, Submit(c, t)
      PROVE  CloseInv'
  BY <1>2 DEF TypeOK, CloseInv, AfterInv, Sweeping, Live, Submit
<1>3. ASSUME NEW c \in Clients, NEW t \in Tasks, SubmitStartFails(c, t)
      PROVE  CloseInv'
  BY <1>3 DEF TypeOK, CloseInv, AfterInv, Sweeping, Live, SubmitStartFails
<1>4. ASSUME NEW c \in Clients, NEW t \in Tasks, ServeDuplicate(c, t)
      PROVE  CloseInv'
  BY <1>4 DEF TypeOK, CloseInv, AfterInv, Sweeping, Live, ServeDuplicate
<1>5. ASSUME NEW c \in Clients, NEW t \in Tasks, Serve(c, t)
      PROVE  CloseInv'
  BY <1>5 DEF TypeOK, CloseInv, AfterInv, Sweeping, Live, Serve
<1>6. ASSUME NEW c \in Clients, NEW r \in RequestIds, CancelQueued(c, r)
      PROVE  CloseInv'
  BY <1>6 DEF TypeOK, CloseInv, AfterInv, Sweeping, Live, CancelQueued
<1>7. ASSUME NEW c \in Clients, NEW r \in RequestIds, CancelActive(c, r)
      PROVE  CloseInv'
  BY <1>7 DEF TypeOK, CloseInv, AfterInv, Sweeping, Live, CancelActive
<1>8. ASSUME NEW c \in Clients, NEW r \in RequestIds, CancelUnknown(c, r)
      PROVE  CloseInv'
  BY <1>8 DEF TypeOK, CloseInv, AfterInv, Sweeping, Live, CancelUnknown
<1>9. ASSUME NEW c \in Clients, CancelAll(c)
      PROVE  CloseInv'
  BY <1>9 DEF TypeOK, CloseInv, AfterInv, Sweeping, Live, CancelAll, DrainQueue, QueuedTasks
<1>10. ASSUME NEW c \in Clients, RegisterDuplicate(c)
       PROVE  CloseInv'
  BY <1>10 DEF TypeOK, CloseInv, AfterInv, Sweeping, Live, RegisterDuplicate, Raise, CallsInv
<1>11. ASSUME NEW c \in Clients, Register(c)
       PROVE  CloseInv'
  BY <1>11 DEF TypeOK, CloseInv, AfterInv, Sweeping, Live, Register
<1>12. ASSUME NEW c \in Clients, EnqueueRefused(c)
       PROVE  CloseInv'
  BY <1>12 DEF TypeOK, CloseInv, AfterInv, Sweeping, Live, EnqueueRefused, Raise, CallsInv
<1>13. ASSUME NEW c \in Clients, Enqueue(c)
       PROVE  CloseInv'
  BY <1>13 DEF TypeOK, CloseInv, AfterInv, Sweeping, Live, Enqueue, CallsInv, Refused
<1>14. ASSUME NEW c \in Clients, Served(c)
       PROVE  CloseInv'
  BY <1>14 DEF TypeOK, CloseInv, AfterInv, Sweeping, Live, Served, CallsInv
<1>15. ASSUME NEW c \in Clients, Lookup(c)
       PROVE  CloseInv'
  BY <1>15 DEF TypeOK, CloseInv, AfterInv, Sweeping, Live, Lookup
<1>16. ASSUME NEW c \in Clients, CancelRegistered(c)
       PROVE  CloseInv'
  BY <1>16 DEF TypeOK, CloseInv, AfterInv, Sweeping, Live, CancelRegistered, TokensOf, LiveTaskOwnsItsId
<1>17. ASSUME NEW c \in Clients, Close(c)
       PROVE  CloseInv'
  BY <1>17 DEF TypeOK, CloseInv, AfterInv, Sweeping, Live, Close, DrainQueue, QueuedTasks
<1>18. ASSUME NEW c \in Clients, CancelToken(c)
       PROVE  CloseInv'
  BY <1>18 DEF TypeOK, CloseInv, AfterInv, Sweeping, Live, CancelToken
<1>19. ASSUME NEW c \in Clients, ReleaseDrained(c)
       PROVE  CloseInv'
  BY <1>19 DEF TypeOK, CloseInv, AfterInv, Sweeping, Live, ReleaseDrained
<1>20. ASSUME NEW c \in Clients, NotifyDrained(c)
       PROVE  CloseInv'
  BY <1>20 DEF TypeOK, CloseInv, AfterInv, Sweeping, Live, NotifyDrained, DrainInv
<1>21. ASSUME NEW c \in Clients, SweepDone(c)
       PROVE  CloseInv'
  BY <1>21 DEF TypeOK, CloseInv, AfterInv, Sweeping, Live, SweepDone
<1>22. ASSUME NEW w \in Workers, WaitForTask(w)
       PROVE  CloseInv'
  BY <1>22 DEF TypeOK, CloseInv, AfterInv, Sweeping, Live, WaitForTask
<1>23. ASSUME NEW w \in Workers, Take(w)
       PROVE  CloseInv'
  BY <1>23, QueueMoves, QueueType DEF TypeOK, CloseInv, AfterInv, Sweeping, Live, Take, QueueInv, QueuedTasks
<1>24. ASSUME NEW w \in Workers, ReportCancelled(w)
       PROVE  CloseInv'
  BY <1>24 DEF TypeOK, CloseInv, AfterInv, Sweeping, Live, ReportCancelled, WorkersInv
<1>25. ASSUME NEW w \in Workers, Run(w)
       PROVE  CloseInv'
  BY <1>25 DEF TypeOK, CloseInv, AfterInv, Sweeping, Live, Run
<1>26. ASSUME NEW w \in Workers, FinishRun(w)
       PROVE  CloseInv'
  BY <1>26 DEF TypeOK, CloseInv, AfterInv, Sweeping, Live, FinishRun, WorkersInv
<1>27. ASSUME NEW w \in Workers, Cleanup(w)
       PROVE  CloseInv'
  BY <1>27 DEF TypeOK, CloseInv, AfterInv, Sweeping, Live, Cleanup
<1>28. ASSUME NEW w \in Workers, Pop(w)
       PROVE  CloseInv'
  BY <1>28 DEF TypeOK, CloseInv, AfterInv, Sweeping, Live, Pop
<1>29. CASE UNCHANGED vars
  BY <1>29 DEF TypeOK, CloseInv, AfterInv, Sweeping, Live, vars
<1> QED
  BY <1>1, <1>2, <1>3, <1>4, <1>5, <1>6, <1>7, <1>8, <1>9, <1>10, <1>11, <1>12,
     <1>13, <1>14, <1>15, <1>16, <1>17, <1>18, <1>19, <1>20, <1>21, <1>22,
     <1>23, <1>24, <1>25, <1>26, <1>27, <1>28, <1>29
  DEF Next, StartCall, ContinueCall, WorkerStep

\* A cancel that returns has reached the task it was issued for, or that task has ended: whatever
\* workers, other cancels and close do between its reads (RuntimeContext.cancel).
THEOREM CancelsReachTheirTask == Spec => CancelReachesItsTask
<1>1. Init => SchedulerInv /\ FilesInv /\ AfterInv /\ AimInv
  BY InitInv, SchedulerAssumption DEF Init, FilesInv, AfterInv, AimInv
<1>2. SchedulerInv /\ FilesInv /\ AfterInv /\ AimInv /\ [Next]_vars => (SchedulerInv /\ FilesInv /\ AfterInv /\ AimInv)'
  <2> SUFFICES ASSUME SchedulerInv, FilesInv, AfterInv, AimInv, [Next]_vars
               PROVE  (SchedulerInv /\ FilesInv /\ AfterInv /\ AimInv)'
    OBVIOUS
  <2> QED
    BY NextInv, NextType, NextFiles, NextAfter, NextAim
<1>3. SchedulerInv /\ AimInv /\ [Next]_vars =>
        [\A c \in Clients : target[c] # NoTask /\ target'[c] = NoTask =>
           target[c] \in cancelled \/ ~Live(target[c])]_vars
  <2> SUFFICES ASSUME SchedulerInv, AimInv, [Next]_vars, NEW c \in Clients,
                      target[c] # NoTask, target'[c] = NoTask
               PROVE  target[c] \in cancelled \/ ~Live(target[c])
    OBVIOUS
  <2>1. \/ target' = target
        \/ \E d \in Clients, r \in RequestIds :
             CancelQueued(d, r) \/ CancelActive(d, r) \/ CancelUnknown(d, r)
        \/ \E d \in Clients : SweepDone(d)
    BY ZenonT(40) DEF Next, StartCall, ContinueCall, WorkerStep, vars, callVars, SubmitClosed, Submit,
           SubmitStartFails, ServeDuplicate, Serve, CancelAll, RegisterDuplicate, Register,
           EnqueueRefused, Enqueue, Served, Lookup, CancelRegistered, Close, CancelToken,
           ReleaseDrained, NotifyDrained, WaitForTask, Take, ReportCancelled, Run, FinishRun,
           Cleanup, Pop
  <2>2. ASSUME NEW d \in Clients, NEW r \in RequestIds,
               CancelQueued(d, r) \/ CancelActive(d, r) \/ CancelUnknown(d, r)
        PROVE  FALSE
    <3>1. cpc[d] = "idle" /\ target' = [target EXCEPT ![d] = Meant(r)]
      BY <2>2 DEF CancelQueued, CancelActive, CancelUnknown
    <3>2. d # c
      BY <3>1 DEF AimInv
    <3> QED
      BY <3>1, <3>2 DEF SchedulerInv, TypeOK
  <2>3. ASSUME NEW d \in Clients, SweepDone(d)
        PROVE  target[c] \in cancelled \/ ~Live(target[c])
    <3>1. d = c
      BY <2>3 DEF SweepDone, SchedulerInv, TypeOK
    <3> QED
      BY <2>3, <3>1 DEF SweepDone, AimInv
  <2> QED
    BY <2>1, <2>2, <2>3
<1> QED
  BY <1>1, <1>2, <1>3, PTL DEF Spec, CancelReachesItsTask

\* Once close is back and no other call is under way, every submission that is still alive is
\* cancelled.  The runtime has one calling thread, its command loop, and this needs it: a second
\* thread could submit under a used id between the two sweeps of close, and Pop of the id's former
\* task would hide the new one from the last sweep.
THEOREM CloseReachesEverybody ==
  ASSUME \A c, d \in Clients : c = d
  PROVE  Spec => []CloseCancelsEverything
<1>1. Init => SchedulerInv /\ AfterInv /\ CloseInv
  BY InitInv, SchedulerAssumption DEF Init, AfterInv, CloseInv, Sweeping
<1>2. SchedulerInv /\ AfterInv /\ CloseInv /\ [Next]_vars => (SchedulerInv /\ AfterInv /\ CloseInv)'
  <2> SUFFICES ASSUME SchedulerInv, AfterInv, CloseInv, [Next]_vars
               PROVE  (SchedulerInv /\ AfterInv /\ CloseInv)'
    OBVIOUS
  <2> QED
    BY NextInv, NextType, NextAfter, NextClose
<1>3. CloseInv => CloseCancelsEverything
  BY DEF CloseInv, CloseCancelsEverything
<1> QED
  BY <1>1, <1>2, <1>3, PTL DEF Spec
=============================================================================
