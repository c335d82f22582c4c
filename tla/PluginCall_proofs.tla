--------------------------- MODULE PluginCall_proofs ---------------------------
(***************************************************************************)
(* Proofs about PluginCall, for every set of calls, pool size, buffer and  *)
(* budget: no slot of the executor is lost or given back twice, and a      *)
(* cancel lets at most one more event out.                                 *)
(***************************************************************************)
EXTENDS PluginCall, FiniteSetTheorems, TLAPS

\* What the arithmetic of the slots needs of the types.
SlotTypes ==
  /\ caller \in [Calls -> CallerPcs] /\ plugin \in [Calls -> PluginPcs]
  /\ slots \in Nat

\* The isolated thread exists only once its caller has started it.
NotStarted ==
  \A c \in Calls :
    caller[c] \in {"idle", "acquire", "add", "start"} => plugin[c] = "none"

SlotInv == SlotTypes /\ NotStarted /\ SlotsAccounted

\* The holders are a finite set, whose size changes with its members.
LEMMA HoldersAreFinite == IsFiniteSet(Holders)
  BY PluginAssumption, FS_Subset DEF Holders

\* A call that takes a free slot keeps the sum.
LEMMA HolderEnters ==
  ASSUME SlotInv, NEW c \in Calls, c \notin Holders, slots # 0,
         slots' = slots - 1, Holders' = Holders \cup {c}
  PROVE  slots' \in Nat /\ SlotsAccounted'
<1>1. Cardinality(Holders') = Cardinality(Holders) + 1
  BY HoldersAreFinite, FS_AddElement
<1>2. Cardinality(Holders) \in Nat
  BY HoldersAreFinite, FS_CardinalityType
<1> QED
  BY <1>1, <1>2, PluginAssumption DEF SlotInv, SlotTypes, SlotsAccounted

\* A call that gives its slot back keeps the sum.
LEMMA HolderLeaves ==
  ASSUME SlotInv, NEW c \in Calls, c \in Holders,
         slots' = slots + 1, Holders' = Holders \ {c}
  PROVE  slots' \in Nat /\ SlotsAccounted'
<1>1. Cardinality(Holders') = Cardinality(Holders) - 1
  BY HoldersAreFinite, FS_RemoveElement
<1>2. Cardinality(Holders) \in Nat
  BY HoldersAreFinite, FS_CardinalityType
<1> QED
  BY <1>1, <1>2, PluginAssumption DEF SlotInv, SlotTypes, SlotsAccounted

\* So does a step that moves no slot.
LEMMA HoldersStay ==
  ASSUME SlotInv, slots' = slots, Holders' = Holders
  PROVE  slots' \in Nat /\ SlotsAccounted'
  BY DEF SlotInv, SlotTypes, SlotsAccounted

\* A caller that holds no slot moves on, or leaves.
LEMMA CallerMoves ==
  ASSUME SlotInv, NEW c \in Calls, NEW p \in CallerPcs \ {"idle", "add", "start"},
         caller[c] \notin {"add", "start"}, p = "acquire" => caller[c] = "idle",
         caller' = [caller EXCEPT ![c] = p], plugin' = plugin, slots' = slots
  PROVE  SlotInv'
<1>1. Holders' = Holders
  BY DEF SlotInv, SlotTypes, Holders
<1>2. NotStarted'
  BY DEF SlotInv, SlotTypes, NotStarted
<1> QED
  BY <1>1, <1>2, HoldersStay DEF SlotInv, SlotTypes

\* The isolated thread moves on and keeps its slot.
LEMMA PluginMoves ==
  ASSUME SlotInv, NEW c \in Calls, NEW p \in PluginPcs \ {"none", "over"},
         plugin[c] \notin {"none", "over"},
         plugin' = [plugin EXCEPT ![c] = p], caller' = caller, slots' = slots
  PROVE  SlotInv'
<1>1. Holders' = Holders
  BY DEF SlotInv, SlotTypes, Holders
<1>2. NotStarted'
  BY DEF SlotInv, SlotTypes, NotStarted
<1> QED
  BY <1>1, <1>2, HoldersStay DEF SlotInv, SlotTypes

\* Neither thread moves.
LEMMA NobodyMoves ==
  ASSUME SlotInv, caller' = caller, plugin' = plugin, slots' = slots
  PROVE  SlotInv'
  BY HoldersStay DEF SlotInv, SlotTypes, NotStarted, Holders

\* The semaphore is taken without blocking.
LEMMA AcquireStep ==
  ASSUME SlotInv, NEW c \in Calls, Acquire(c)
  PROVE  SlotInv'
<1> USE DEF Acquire, NoSlot, CallerAt, pluginVars, SlotInv, SlotTypes
<1>1. c \notin Holders /\ slots # 0 /\ slots' = slots - 1
  BY DEF NotStarted, Holders
<1>2. Holders' = Holders \cup {c}
  BY DEF Holders
<1>3. NotStarted' /\ caller' \in [Calls -> CallerPcs] /\ plugin' = plugin
  BY DEF NotStarted, CallerPcs
<1> QED
  BY <1>1, <1>2, <1>3, HolderEnters

\* submit fails after the slot was taken: in the thread factory, because the
\* executor was closed, or in start.
LEMMA SubmitFailsStep ==
  ASSUME SlotInv, NEW c \in Calls, CreateFails(c) \/ AddBusy(c) \/ StartFails(c)
  PROVE  SlotInv'
<1>1. /\ caller[c] \in {"add", "start"} /\ slots' = slots + 1
      /\ caller' = [caller EXCEPT ![c] = "over"] /\ plugin' = plugin
  BY DEF CreateFails, AddBusy, StartFails, Answer, pluginVars
<1> USE DEF SlotInv, SlotTypes
<1>2. c \in Holders
  BY <1>1 DEF Holders
<1>3. Holders' = Holders \ {c}
  BY <1>1 DEF Holders, NotStarted
<1>4. NotStarted' /\ caller' \in [Calls -> CallerPcs]
  BY <1>1 DEF NotStarted, CallerPcs
<1> QED
  BY <1>1, <1>2, <1>3, <1>4, HolderLeaves

\* The thread is filed; the caller still holds the slot.
LEMMA AddStep ==
  ASSUME SlotInv, NEW c \in Calls, Add(c)
  PROVE  SlotInv'
<1>1. /\ caller[c] = "add" /\ slots' = slots
      /\ caller' = [caller EXCEPT ![c] = "start"] /\ plugin' = plugin
  BY DEF Add, CallerAt, pluginVars
<1> USE DEF SlotInv, SlotTypes
<1>2. Holders' = Holders
  BY <1>1 DEF Holders
<1>3. NotStarted' /\ caller' \in [Calls -> CallerPcs]
  BY <1>1 DEF NotStarted, CallerPcs
<1> QED
  BY <1>1, <1>2, <1>3, HoldersStay

\* The slot passes from the caller to the thread it starts.
LEMMA StartStep ==
  ASSUME SlotInv, NEW c \in Calls, Start(c)
  PROVE  SlotInv'
<1>1. /\ caller[c] = "start" /\ slots' = slots
      /\ caller' = [caller EXCEPT ![c] = "budget"]
      /\ plugin' = [plugin EXCEPT ![c] = "invoke"]
  BY DEF Start, CallerAt, executorVars
<1> USE DEF SlotInv, SlotTypes
<1>2. Holders' = Holders
  BY <1>1 DEF Holders
<1>3. /\ NotStarted'
      /\ caller' \in [Calls -> CallerPcs] /\ plugin' \in [Calls -> PluginPcs]
  BY <1>1 DEF NotStarted, CallerPcs, PluginPcs
<1> QED
  BY <1>1, <1>2, <1>3, HoldersStay

\* The thread of a plugin gives its slot back, whether its caller is there or
\* not.
LEMMA ReleaseStep ==
  ASSUME SlotInv, NEW c \in Calls, Release(c)
  PROVE  SlotInv'
<1>1. /\ plugin[c] = "release" /\ slots' = slots + 1
      /\ plugin' = [plugin EXCEPT ![c] = "over"] /\ caller' = caller
  BY DEF Release, PluginAt, callerVars
<1> USE DEF SlotInv, SlotTypes
<1>2. c \in Holders /\ Holders' = Holders \ {c}
  BY <1>1 DEF Holders, NotStarted
<1>3. NotStarted' /\ plugin' \in [Calls -> PluginPcs]
  BY <1>1 DEF NotStarted, PluginPcs
<1> QED
  BY <1>1, <1>2, <1>3, HolderLeaves

\* Every step of a runtime worker keeps the slots accounted.
LEMMA CallerStep ==
  ASSUME SlotInv, NEW c \in Calls, Begin(c) \/ Caller(c)
  PROVE  SlotInv'
<1> USE DEF CallerAt, Answer, CallerPcs, pluginVars, executorVars
<1>1. CASE Begin(c) BY <1>1, CallerMoves DEF Begin
<1>2. CASE AcquireBusy(c) BY <1>2, CallerMoves DEF AcquireBusy
<1>3. CASE CheckBudget(c) BY <1>3, CallerMoves DEF CheckBudget
<1>4. CASE BudgetExpired(c) BY <1>4, CallerMoves DEF BudgetExpired
<1>5. CASE CheckToken(c) BY <1>5, CallerMoves DEF CheckToken
<1>6. CASE Cancelled(c) BY <1>6, CallerMoves DEF Cancelled
<1>7. CASE Receive(c) BY <1>7, CallerMoves DEF Receive
<1>8. CASE ReceiveNothing(c) BY <1>8, CallerMoves DEF ReceiveNothing
<1>9. CASE KeepWaiting(c) BY <1>9, CallerMoves DEF KeepWaiting
<1>10. CASE PluginFailed(c) BY <1>10, CallerMoves DEF PluginFailed
<1>11. CASE Emit(c) BY <1>11, CallerMoves DEF Emit
<1>12. CASE EmitLast(c)
  <2>1. /\ caller[c] = "emit" /\ caller' = [caller EXCEPT ![c] = "over"]
        /\ plugin' = plugin /\ slots' = slots
    BY <1>12 DEF EmitLast
  <2> QED
    BY <2>1, CallerMoves
<1> QED
  BY <1>1, <1>2, <1>3, <1>4, <1>5, <1>6, <1>7, <1>8, <1>9, <1>10, <1>11, <1>12,
     AcquireStep, SubmitFailsStep, AddStep, StartStep DEF Caller

\* So does every step of an isolated thread.
LEMMA PluginStep ==
  ASSUME SlotInv, NEW c \in Calls, PluginCode(c) \/ PluginThread(c)
  PROVE  SlotInv'
<1> USE DEF PluginAt, Hold, PluginPcs, callerVars, executorVars
<1>1. CASE Invoke(c) BY <1>1, PluginMoves DEF Invoke
<1>2. CASE Yield(c) BY <1>2, PluginMoves DEF Yield
<1>3. CASE Exhausted(c) BY <1>3, PluginMoves DEF Exhausted
<1>4. CASE Raises(c) BY <1>4, PluginMoves DEF Raises
<1>5. CASE PluginOnTime(c) BY <1>5, PluginMoves DEF PluginOnTime
<1>6. CASE PluginLate(c) BY <1>6, PluginMoves DEF PluginLate
<1>7. CASE PluginStops(c) BY <1>7, PluginMoves DEF PluginStops
<1>8. CASE PluginGoesOn(c)
  <2>1. CASE item[c] = "stream" BY <1>8, <2>1, PluginMoves DEF PluginGoesOn
  <2>2. CASE item[c] # "stream" BY <1>8, <2>2, PluginMoves DEF PluginGoesOn
  <2> QED
    BY <2>1, <2>2
<1>9. CASE AccountFails(c) BY <1>9, PluginMoves DEF AccountFails
<1>10. CASE Account(c) BY <1>10, PluginMoves DEF Account
<1>11. CASE TrySend(c) BY <1>11, PluginMoves DEF TrySend
<1>12. CASE GiveUpSend(c) BY <1>12, PluginMoves DEF GiveUpSend
<1>13. CASE Put(c)
  <2>1. CASE item[c] = "event" BY <1>13, <2>1, PluginMoves DEF Put, AfterSend
  <2>2. CASE item[c] # "event" BY <1>13, <2>2, PluginMoves DEF Put, AfterSend
  <2> QED
    BY <2>1, <2>2
<1>14. CASE PutFull(c) BY <1>14, PluginMoves DEF PutFull
<1>15. CASE MarkCompleted(c) BY <1>15, PluginMoves DEF MarkCompleted
<1> QED
  BY <1>1, <1>2, <1>3, <1>4, <1>5, <1>6, <1>7, <1>8, <1>9, <1>10, <1>11, <1>12,
     <1>13, <1>14, <1>15, ReleaseStep DEF PluginCode, PluginThread

\* And so every step of the system.
LEMMA SlotStep == SlotInv /\ [Next]_vars => SlotInv'
<1> SUFFICES ASSUME SlotInv, [Next]_vars PROVE SlotInv'
  OBVIOUS
<1>1. ASSUME NEW c \in Calls, Tick(c) \/ Expire(c) \/ UserCancels(c)
      PROVE  SlotInv'
  BY <1>1, NobodyMoves
     DEF Tick, Expire, UserCancels, callerVars, pluginVars, executorVars
<1>2. CASE CloseExecutor
  BY <1>2, NobodyMoves DEF CloseExecutor, callerVars, pluginVars
<1>3. CASE UNCHANGED vars
  BY <1>3, NobodyMoves DEF vars, callerVars, pluginVars, executorVars
<1> QED
  BY <1>1, <1>2, <1>3, CallerStep, PluginStep DEF Next

\* At the start all slots are free.
LEMMA SlotStart == Init => SlotInv
<1> SUFFICES ASSUME Init PROVE SlotInv
  OBVIOUS
<1>1. Holders = {}
  BY DEF Init, Holders
<1>2. Cardinality(Holders) = 0
  BY <1>1, FS_EmptySet
<1>3. slots + 0 = MaxWorkers /\ slots \in Nat
  BY PluginAssumption DEF Init
<1> QED
  BY <1>2, <1>3 DEF Init, SlotInv, SlotTypes, NotStarted, SlotsAccounted,
     CallerPcs, PluginPcs

-----------------------------------------------------------------------------
\* Free slots and slots in use always add up to max_workers, through every way
\* out of submit (busy, no thread, closed meanwhile, no start) and out of _run.
THEOREM SlotsAreAccounted == Spec => []SlotsAccounted
<1>1. SlotInv => SlotsAccounted
  BY DEF SlotInv
<1> QED
  BY <1>1, SlotStart, SlotStep, PTL DEF Spec

\* So a plugin that ignores its token and its deadline costs one of max_workers
\* threads and no more, however many calls are made.
THEOREM PluginThreadsAreBounded ==
  Spec => [](Cardinality({c \in Calls : plugin[c] \notin {"none", "over"}}) <= MaxWorkers)
<1> DEFINE Running == {c \in Calls : plugin[c] \notin {"none", "over"}}
<1>1. SlotInv => Cardinality(Running) <= MaxWorkers
  <2> SUFFICES ASSUME SlotInv PROVE Cardinality(Running) <= MaxWorkers
    OBVIOUS
  <2>1. Running \subseteq Holders
    BY DEF Holders
  <2>2. Cardinality(Running) <= Cardinality(Holders) /\ Cardinality(Running) \in Nat
    BY <2>1, HoldersAreFinite, FS_Subset, FS_CardinalityType
  <2>3. Cardinality(Holders) \in Nat
    BY HoldersAreFinite, FS_CardinalityType
  <2> HIDE DEF Running
  <2> QED
    BY <2>2, <2>3, PluginAssumption DEF SlotInv, SlotTypes, SlotsAccounted
<1> QED
  BY <1>1, SlotStart, SlotStep, PTL DEF Spec

-----------------------------------------------------------------------------
\* Between the check of the token and the next event nothing is overdue.
EventInv ==
  /\ caller \in [Calls -> CallerPcs] /\ token \in [Calls -> BOOLEAN]
  /\ extra \in [Calls -> Nat]
  /\ \A c \in Calls :
       /\ ~token[c] \/ caller[c] \in {"receive", "empty", "emit"} => extra[c] = 0
       /\ extra[c] <= 1

\* Every step keeps it so.
LEMMA EventStep == EventInv /\ [Next]_vars => EventInv'
<1> SUFFICES ASSUME EventInv, [Next]_vars PROVE EventInv'
  OBVIOUS
<1> USE DEF EventInv, CallerPcs, CallerAt, callerVars, pluginVars, budgetVars
\* The token may be set and the caller may leave, or move to where an event has
\* already been followed by a check.
<1>1. ASSUME NEW c \in Calls, NEW p \in CallerPcs \ {"receive", "empty", "emit"},
             caller' = [caller EXCEPT ![c] = p], token' = token \/ token' = [token EXCEPT ![c] = TRUE],
             extra' = extra
      PROVE  EventInv'
  BY <1>1
<1>2. ASSUME token' = token \/ \E c \in Calls : token' = [token EXCEPT ![c] = TRUE],
             caller' = caller, extra' = extra
      PROVE  EventInv'
  BY <1>2
<1>3. ASSUME NEW c \in Calls, Begin(c) \/ Caller(c)
      PROVE  EventInv'
  <2>1. CASE Begin(c) BY <2>1, <1>1 DEF Begin
  <2>2. CASE AcquireBusy(c) BY <2>2, <1>1 DEF AcquireBusy, Answer
  <2>3. CASE Acquire(c) BY <2>3, <1>1 DEF Acquire
  <2>4. CASE CreateFails(c) BY <2>4, <1>1 DEF CreateFails, Answer
  <2>5. CASE AddBusy(c) BY <2>5, <1>1 DEF AddBusy, Answer
  <2>6. CASE Add(c) BY <2>6, <1>1 DEF Add
  <2>7. CASE StartFails(c) BY <2>7, <1>1 DEF StartFails, Answer
  <2>8. CASE Start(c) BY <2>8, <1>1 DEF Start
  <2>9. CASE CheckBudget(c) BY <2>9, <1>1 DEF CheckBudget
  <2>10. CASE BudgetExpired(c) BY <2>10, <1>1 DEF BudgetExpired, Answer
  <2>11. CASE CheckToken(c) BY <2>11 DEF CheckToken
  <2>12. CASE Cancelled(c) BY <2>12, <1>1 DEF Cancelled, Answer
  <2>13. CASE Receive(c) BY <2>13 DEF Receive
  <2>14. CASE ReceiveNothing(c) BY <2>14 DEF ReceiveNothing
  <2>15. CASE KeepWaiting(c) BY <2>15, <1>1 DEF KeepWaiting
  <2>16. CASE PluginFailed(c) BY <2>16, <1>1 DEF PluginFailed, Answer
  <2>17. CASE Emit(c)
    <3>1. CASE token[c] BY <2>17, <3>1 DEF Emit
    <3>2. CASE ~token[c] BY <2>17, <3>2 DEF Emit
    <3> QED
      BY <3>1, <3>2
  <2>18. CASE EmitLast(c)
    <3>1. caller' = [caller EXCEPT ![c] = "over"] /\ token' = token /\ extra' = extra
      BY <2>18 DEF EmitLast, Answer
    <3> QED
      BY <3>1, <1>1
  <2> QED
    BY <1>3, <2>1, <2>2, <2>3, <2>4, <2>5, <2>6, <2>7, <2>8, <2>9, <2>10, <2>11,
       <2>12, <2>13, <2>14, <2>15, <2>16, <2>17, <2>18 DEF Caller
<1>4. ASSUME NEW c \in Calls, PluginCode(c) \/ PluginThread(c)
      PROVE  EventInv'
  <2>1. caller' = caller /\ extra' = extra
    BY <1>4 DEF PluginCode, PluginThread, Invoke, Yield, Exhausted, Raises,
       PluginOnTime, PluginLate, PluginStops, PluginGoesOn, AccountFails, Account,
       TrySend, GiveUpSend, Put, PutFull, MarkCompleted, Release
  <2>2. token' = token \/ token' = [token EXCEPT ![c] = TRUE]
    BY <1>4 DEF PluginCode, PluginThread, Invoke, Yield, Exhausted, Raises,
       PluginOnTime, PluginLate, PluginStops, PluginGoesOn, AccountFails, Account,
       TrySend, GiveUpSend, Put, PutFull, MarkCompleted, Release
  <2> QED
    BY <1>2, <2>1, <2>2
<1>5. ASSUME NEW c \in Calls, Tick(c) \/ Expire(c) \/ UserCancels(c)
      PROVE  EventInv'
  BY <1>2, <1>5 DEF Tick, Expire, UserCancels
<1>6. CASE CloseExecutor
  BY <1>2, <1>6 DEF CloseExecutor
<1>7. CASE UNCHANGED vars
  BY <1>2, <1>7 DEF vars
<1> QED
  BY <1>3, <1>4, <1>5, <1>6, <1>7 DEF Next

\* After a cancel, by the user or by the deadline, at most one more event of
\* the plugin reaches the client.
THEOREM EventsStop == Spec => []CancelStopsEvents
<1>1. Init => EventInv
  BY DEF Init, EventInv, CallerPcs
<1>2. EventInv => CancelStopsEvents
  BY DEF EventInv, CancelStopsEvents
<1> QED
  BY <1>1, <1>2, EventStep, PTL DEF Spec

\* A closed executor files no thread, also for a call that has its slot.
THEOREM ClosedStaysClosed == Spec => ClosedStartsNothing
<1>1. [Next]_vars => [closed => threads' \subseteq threads]_vars
  <2> SUFFICES ASSUME Next, closed PROVE threads' \subseteq threads
    OBVIOUS
  <2> USE DEF executorVars
  <2>1. ASSUME NEW c \in Calls, Begin(c) \/ Caller(c)
        PROVE  threads' \subseteq threads
    BY <2>1 DEF Begin, Caller, AcquireBusy, Acquire, CreateFails, AddBusy, Add,
       StartFails, Start, CheckBudget, BudgetExpired, CheckToken, Cancelled, Receive,
       ReceiveNothing, KeepWaiting, PluginFailed, Emit, EmitLast
  <2>2. ASSUME NEW c \in Calls, PluginCode(c) \/ PluginThread(c)
        PROVE  threads' \subseteq threads
    BY <2>2 DEF PluginCode, PluginThread, Invoke, Yield, Exhausted, Raises,
       PluginOnTime, PluginLate, PluginStops, PluginGoesOn, AccountFails, Account,
       TrySend, GiveUpSend, Put, PutFull, MarkCompleted, Release
  <2> QED
    BY <2>1, <2>2 DEF Next, Tick, Expire, UserCancels, CloseExecutor
<1> QED
  BY <1>1, PTL DEF Spec, ClosedStartsNothing
================================================================================
