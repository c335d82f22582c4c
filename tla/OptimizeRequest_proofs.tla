------------------------ MODULE OptimizeRequest_proofs ------------------------
(***************************************************************************)
(* Proofs about OptimizeRequest, for every output limit.  The invariant    *)
(* OptimizeInv is the conjunction of what each pair of threads relies on:  *)
(* the worker and the watchdog (DeadlineInv), the canceller and the store  *)
(* (CancelInv), the canceller and the stream (ProgressInv).                *)
(***************************************************************************)
EXTENDS OptimizeRequest, TLAPS

-----------------------------------------------------------------------------
(* The inductive invariant.                                                *)

\* Closing and expiring exclude each other until the request has ended.
DeadlineInv ==
  /\ closed => pc \in {"save", "metric", "fail", "close", "over"}
  /\ pc = "resolve" => timer = "off" /\ ~expired
  /\ pc \in {"save", "metric"} => closed /\ ~expired /\ last = "done"
  /\ last \in {"done", "metric"} => closed /\ ~expired
  /\ pc = "expired" => expired
  /\ timer = "firing" => expired
  /\ pc \in {"close", "over"} =>
       \/ expired /\ last = "timeout"
       \/ ~expired /\ (closed \/ (pc = "over" /\ timer = "off"))

\* Who set the token, and who made the store give up.
CancelInv ==
  /\ token => asked \/ expired
  /\ stored = "cancelled" => asked

\* Between a check of the token and the next write nothing is overdue.
ProgressInv ==
  /\ ~token => extra = 0
  /\ pc \in {"resolve", "validate", "clock", "scene", "render", "request", "handle"}
       => extra = 0
  /\ extra <= 1

OptimizeInv == TypeOK /\ DeadlineInv /\ CancelInv /\ ProgressInv

-----------------------------------------------------------------------------
\* Every variable keeps its type: in particular no more than MaxChunks chunks
\* are ever written (the limit check of optimize.py:291).
THEOREM OptimizeTypes == Spec => []TypeOK
<1>1. Init => TypeOK
  <2> SUFFICES ASSUME Init PROVE TypeOK
    OBVIOUS
  <2>1. pc \in Pcs /\ then \in Thens /\ event \in EventKinds
    BY DEF Init, Pcs, Thens, EventKinds
  <2>2. chunks \in 0..MaxChunks /\ time \in 0..2 /\ extra \in Nat
    BY OptimizeAssumption DEF Init
  <2> QED
    BY <2>1, <2>2 DEF Init, TypeOK
<1>2. TypeOK /\ [Next]_vars => TypeOK'
  <2> SUFFICES ASSUME TypeOK, [Next]_vars PROVE TypeOK'
    OBVIOUS
  <2> USE OptimizeAssumption DEF TypeOK, Pcs, Thens, EventKinds, deadlineVars, clientVars
  <2>1. CASE ResolveFails BY <2>1 DEF ResolveFails, Report
  <2>2. CASE Resolve BY <2>2 DEF Resolve
  <2>3. CASE InvalidInput BY <2>3 DEF InvalidInput
  <2>4. CASE Analyze BY <2>4 DEF Analyze, CheckThen, Write
  <2>5. CASE Check BY <2>5 DEF Check
  <2>6. CASE CheckClock BY <2>6 DEF CheckClock
  <2>7. CASE DetectScene BY <2>7 DEF DetectScene, CheckThen, Write
  <2>8. CASE Render BY <2>8 DEF Render
  <2>9. CASE Request BY <2>9 DEF Request, Write
  <2>10. CASE HandleFailure BY <2>10 DEF HandleFailure
  <2>11. CASE HandleText BY <2>11 DEF HandleText, TooLarge, Write
  <2>12. CASE HandleOther
    <3>1. provider' \in {"silent", "started", "completed"}
      BY <2>12 DEF HandleOther
    <3>2. clash' \in BOOLEAN
      <4>1. clash' \in {clash, TRUE}
        BY <2>12, Zenon DEF HandleOther
      <4> QED
        BY <4>1
    <3> QED
      BY <2>12, <3>1, <3>2 DEF HandleOther
  <2>13. CASE Finish BY <2>13 DEF Finish
  <2>14. CASE Complete BY <2>14 DEF Complete, Settle, Report
  <2>15. CASE Save BY <2>15 DEF Save
  <2>16. CASE Metric BY <2>16 DEF Metric, Report
  <2>17. CASE Stop BY <2>17 DEF Stop, Settle, Report
  <2>18. CASE Fail BY <2>18 DEF Fail, Settle, Report
  <2>19. CASE Expire BY <2>19 DEF Expire
  <2>20. CASE ReportExpired BY <2>20 DEF ReportExpired, Report
  <2>21. CASE CloseDeadline BY <2>21 DEF CloseDeadline
  <2>22. CASE ProviderSends BY <2>22 DEF ProviderSends, CheckThen
  <2>23. CASE ProviderStops BY <2>23 DEF ProviderStops, CheckThen
  <2>24. CASE Tick BY <2>24 DEF Tick, workerVars
  <2>25. CASE WatchdogFires BY <2>25 DEF WatchdogFires, workerVars
  <2>26. CASE WatchdogCancels BY <2>26 DEF WatchdogCancels, workerVars
  <2>27. CASE UserCancels BY <2>27 DEF UserCancels, workerVars
  <2>28. CASE UNCHANGED vars BY <2>28 DEF vars, workerVars
  <2> QED
    BY <2>1, <2>2, <2>3, <2>4, <2>5, <2>6, <2>7, <2>8, <2>9, <2>10, <2>11,
       <2>12, <2>13, <2>14, <2>15, <2>16, <2>17, <2>18, <2>19, <2>20, <2>21,
       <2>22, <2>23, <2>24, <2>25, <2>26, <2>27, <2>28
       DEF Next, Work, Await, Watchdog
<1> QED
  BY <1>1, <1>2, PTL DEF Spec

-----------------------------------------------------------------------------
\* The deadline part: a result, a timeout and the watchdog agree.
LEMMA DeadlineStep == TypeOK /\ DeadlineInv /\ [Next]_vars => DeadlineInv'
  <1> SUFFICES ASSUME TypeOK, DeadlineInv, [Next]_vars PROVE DeadlineInv'
    OBVIOUS
  <1> USE DEF TypeOK, Pcs, Thens, DeadlineInv, deadlineVars, clientVars
  <1>1. CASE ResolveFails BY <1>1 DEF ResolveFails, Report
  <1>2. CASE Resolve BY <1>2 DEF Resolve
  <1>3. CASE InvalidInput BY <1>3 DEF InvalidInput
  <1>4. CASE Analyze BY <1>4 DEF Analyze, CheckThen, Write
  <1>5. CASE Check BY <1>5 DEF Check
  <1>6. CASE CheckClock BY <1>6 DEF CheckClock
  <1>7. CASE DetectScene BY <1>7 DEF DetectScene, CheckThen, Write
  <1>8. CASE Render BY <1>8 DEF Render
  <1>9. CASE Request BY <1>9 DEF Request, Write
  <1>10. CASE HandleFailure BY <1>10 DEF HandleFailure
  <1>11. CASE HandleText BY <1>11 DEF HandleText, Write
  <1>12. CASE HandleOther BY <1>12 DEF HandleOther
  <1>13. CASE Finish BY <1>13 DEF Finish
  <1>14. CASE Complete BY <1>14 DEF Complete, Settle, Report
  <1>15. CASE Save BY <1>15 DEF Save
  <1>16. CASE Metric BY <1>16 DEF Metric, Report
  <1>17. CASE Stop BY <1>17 DEF Stop, Settle, Report
  <1>18. CASE Fail BY <1>18 DEF Fail, Settle, Report
  <1>19. CASE Expire BY <1>19 DEF Expire
  <1>20. CASE ReportExpired BY <1>20 DEF ReportExpired, Report
  <1>21. CASE CloseDeadline BY <1>21 DEF CloseDeadline
  <1>22. CASE ProviderSends BY <1>22 DEF ProviderSends, CheckThen
  <1>23. CASE ProviderStops BY <1>23 DEF ProviderStops, CheckThen
  <1>24. CASE Tick BY <1>24 DEF Tick, workerVars
  <1>25. CASE WatchdogFires BY <1>25 DEF WatchdogFires, workerVars
  <1>26. CASE WatchdogCancels BY <1>26 DEF WatchdogCancels, workerVars
  <1>27. CASE UserCancels BY <1>27 DEF UserCancels, workerVars
  <1>28. CASE UNCHANGED vars BY <1>28 DEF vars, workerVars
  <1> QED
    BY <1>1, <1>2, <1>3, <1>4, <1>5, <1>6, <1>7, <1>8, <1>9, <1>10, <1>11,
       <1>12, <1>13, <1>14, <1>15, <1>16, <1>17, <1>18, <1>19, <1>20, <1>21, <1>22,
       <1>23, <1>24, <1>25, <1>26, <1>27, <1>28
       DEF Next, Work, Await, Watchdog

\* The token part: a token that is set was set by the user or by the deadline,
\* and the store runs only while the deadline is closed and not expired.
LEMMA CancelStep == TypeOK /\ DeadlineInv /\ CancelInv /\ [Next]_vars => CancelInv'
  <1> SUFFICES ASSUME TypeOK, DeadlineInv, CancelInv, [Next]_vars PROVE CancelInv'
    OBVIOUS
  <1> USE DEF TypeOK, DeadlineInv, CancelInv, deadlineVars, clientVars
  <1>1. CASE ResolveFails BY <1>1 DEF ResolveFails, Report
  <1>2. CASE Resolve BY <1>2 DEF Resolve
  <1>3. CASE InvalidInput BY <1>3 DEF InvalidInput
  <1>4. CASE Analyze BY <1>4 DEF Analyze, CheckThen, Write
  <1>5. CASE Check BY <1>5 DEF Check
  <1>6. CASE CheckClock BY <1>6 DEF CheckClock
  <1>7. CASE DetectScene BY <1>7 DEF DetectScene, CheckThen, Write
  <1>8. CASE Render BY <1>8 DEF Render
  <1>9. CASE Request BY <1>9 DEF Request, Write
  <1>10. CASE HandleFailure BY <1>10 DEF HandleFailure
  <1>11. CASE HandleText BY <1>11 DEF HandleText, Write
  <1>12. CASE HandleOther BY <1>12 DEF HandleOther
  <1>13. CASE Finish BY <1>13 DEF Finish
  <1>14. CASE Complete BY <1>14 DEF Complete, Settle, Report
  <1>15. CASE Save BY <1>15 DEF Save
  <1>16. CASE Metric BY <1>16 DEF Metric, Report
  <1>17. CASE Stop BY <1>17 DEF Stop, Settle, Report
  <1>18. CASE Fail BY <1>18 DEF Fail, Settle, Report
  <1>19. CASE Expire BY <1>19 DEF Expire
  <1>20. CASE ReportExpired BY <1>20 DEF ReportExpired, Report
  <1>21. CASE CloseDeadline BY <1>21 DEF CloseDeadline
  <1>22. CASE ProviderSends BY <1>22 DEF ProviderSends, CheckThen
  <1>23. CASE ProviderStops BY <1>23 DEF ProviderStops, CheckThen
  <1>24. CASE Tick BY <1>24 DEF Tick, workerVars
  <1>25. CASE WatchdogFires BY <1>25 DEF WatchdogFires, workerVars
  <1>26. CASE WatchdogCancels BY <1>26 DEF WatchdogCancels, workerVars
  <1>27. CASE UserCancels BY <1>27 DEF UserCancels, workerVars
  <1>28. CASE UNCHANGED vars BY <1>28 DEF vars, workerVars
  <1> QED
    BY <1>1, <1>2, <1>3, <1>4, <1>5, <1>6, <1>7, <1>8, <1>9, <1>10, <1>11,
       <1>12, <1>13, <1>14, <1>15, <1>16, <1>17, <1>18, <1>19, <1>20, <1>21, <1>22,
       <1>23, <1>24, <1>25, <1>26, <1>27, <1>28
       DEF Next, Work, Await, Watchdog

\* The progress part: each write is followed by a look at the token.
LEMMA ProgressStep == TypeOK /\ ProgressInv /\ [Next]_vars => ProgressInv'
  <1> SUFFICES ASSUME TypeOK, ProgressInv, [Next]_vars PROVE ProgressInv'
    OBVIOUS
  <1> USE DEF TypeOK, Pcs, Thens, ProgressInv, deadlineVars, clientVars
  <1>1. CASE ResolveFails BY <1>1 DEF ResolveFails, Report
  <1>2. CASE Resolve BY <1>2 DEF Resolve
  <1>3. CASE InvalidInput BY <1>3 DEF InvalidInput
  <1>4. CASE Analyze BY <1>4 DEF Analyze, CheckThen, Write
  <1>5. CASE Check BY <1>5 DEF Check
  <1>6. CASE CheckClock BY <1>6 DEF CheckClock
  <1>7. CASE DetectScene BY <1>7 DEF DetectScene, CheckThen, Write
  <1>8. CASE Render BY <1>8 DEF Render
  <1>9. CASE Request BY <1>9 DEF Request, Write
  <1>10. CASE HandleFailure BY <1>10 DEF HandleFailure
  <1>11. CASE HandleText BY <1>11 DEF HandleText, Write
  <1>12. CASE HandleOther BY <1>12 DEF HandleOther
  <1>13. CASE Finish BY <1>13 DEF Finish
  <1>14. CASE Complete BY <1>14 DEF Complete, Settle, Report
  <1>15. CASE Save BY <1>15 DEF Save
  <1>16. CASE Metric BY <1>16 DEF Metric, Report
  <1>17. CASE Stop BY <1>17 DEF Stop, Settle, Report
  <1>18. CASE Fail BY <1>18 DEF Fail, Settle, Report
  <1>19. CASE Expire BY <1>19 DEF Expire
  <1>20. CASE ReportExpired BY <1>20 DEF ReportExpired, Report
  <1>21. CASE CloseDeadline BY <1>21 DEF CloseDeadline
  <1>22. CASE ProviderSends BY <1>22 DEF ProviderSends, CheckThen
  <1>23. CASE ProviderStops BY <1>23 DEF ProviderStops, CheckThen
  <1>24. CASE Tick BY <1>24 DEF Tick, workerVars
  <1>25. CASE WatchdogFires BY <1>25 DEF WatchdogFires, workerVars
  <1>26. CASE WatchdogCancels BY <1>26 DEF WatchdogCancels, workerVars
  <1>27. CASE UserCancels BY <1>27 DEF UserCancels, workerVars
  <1>28. CASE UNCHANGED vars BY <1>28 DEF vars, workerVars
  <1> QED
    BY <1>1, <1>2, <1>3, <1>4, <1>5, <1>6, <1>7, <1>8, <1>9, <1>10, <1>11,
       <1>12, <1>13, <1>14, <1>15, <1>16, <1>17, <1>18, <1>19, <1>20, <1>21, <1>22,
       <1>23, <1>24, <1>25, <1>26, <1>27, <1>28
       DEF Next, Work, Await, Watchdog

\* The three parts together are inductive.
THEOREM OptimizeInvariant == Spec => [](DeadlineInv /\ CancelInv /\ ProgressInv)
<1>1. Init => DeadlineInv /\ CancelInv /\ ProgressInv
  BY DEF Init, DeadlineInv, CancelInv, ProgressInv
<1>2. /\ TypeOK /\ DeadlineInv /\ CancelInv /\ ProgressInv /\ [Next]_vars
      => DeadlineInv' /\ CancelInv' /\ ProgressInv'
  BY DeadlineStep, CancelStep, ProgressStep
<1> QED
  BY <1>1, <1>2, OptimizeTypes, PTL DEF Spec

-----------------------------------------------------------------------------
\* try_complete and the watchdog's expire exclude each other: a request whose
\* result was written never expires, and one that expired has no result.
THEOREM ResultsAreInTime == Spec => []ResultInTime
<1>1. DeadlineInv => ResultInTime
  BY DEF DeadlineInv, ResultInTime
<1> QED
  BY <1>1, OptimizeInvariant, PTL

\* A request whose deadline passed is reported as a timeout, whichever of the
\* returns of _run_optimize it leaves by.
THEOREM ExpiryReported == Spec => []ExpiryIsReported
<1>1. DeadlineInv => ExpiryIsReported
  BY DEF DeadlineInv, ExpiryIsReported
<1> QED
  BY <1>1, OptimizeInvariant, PTL

\* Together: a request ends with a result and no timeout, or with a timeout and no result, in every
\* interleaving of the worker, the watchdog and a cancel.
THEOREM DeadlineAlwaysDecides == Spec => []DeadlineDecides
<1>1. ResultInTime /\ ExpiryIsReported => DeadlineDecides
  BY DEF DeadlineDecides
<1> QED
  BY <1>1, ResultsAreInTime, ExpiryReported, PTL

\* The deadline cannot make the store give up a result that was written.
THEOREM SaveStopsForUserOnly == Spec => []OnlyUserStopsSave
<1>1. CancelInv => OnlyUserStopsSave
  BY DEF CancelInv, OnlyUserStopsSave
<1> QED
  BY <1>1, OptimizeInvariant, PTL

\* A cancel lets at most one more progress event out.
THEOREM ProgressStops == Spec => []CancelStopsProgress
<1>1. ProgressInv => CancelStopsProgress
  BY DEF ProgressInv, CancelStopsProgress
<1> QED
  BY <1>1, OptimizeInvariant, PTL

-----------------------------------------------------------------------------
(* The event stream.                                                       *)

\* The worker is at p, or on its way there through the two checks.
At(p) == pc = p \/ (pc \in {"check", "clock"} /\ then = p)

\* What the client has seen when the worker is somewhere.
StreamInv ==
  /\ ~clash
  /\ pc \in {"resolve", "validate"} => last = "nothing" /\ ~visible
  /\ At("scene") => last = "analyzing" /\ ~visible
  /\ At("render") \/ At("request") => last = "scene" /\ ~visible
  /\ At("handle") \/ At("finish") \/ pc = "await" =>
       last \in {"request", "chunk"} /\ (visible => last = "chunk")
  /\ pc = "complete" => last = "chunk"
  /\ pc \in {"stop", "expire", "expired", "fail"} => last \in Stream!Progress
  /\ pc \in {"save", "metric"} => last = "done"

\* One step of the request is one step of the stream, or none.
LEMMA StreamStep ==
  ASSUME ~UsageMayClash, TypeOK, StreamInv, [Next]_vars
  PROVE  StreamInv' /\ [Stream!Next]_last
  <1> USE DEF TypeOK, Pcs, Thens, StreamInv, At, deadlineVars, clientVars,
              Stream!Progress, Stream!Failures, Stream!Next, Stream!Advance,
              Stream!Fail, Stream!Succeed
  <1>1. CASE ResolveFails BY <1>1 DEF ResolveFails, Report
  <1>2. CASE Resolve BY <1>2 DEF Resolve
  <1>3. CASE InvalidInput BY <1>3 DEF InvalidInput
  <1>4. CASE Analyze BY <1>4 DEF Analyze, CheckThen, Write
  <1>5. CASE Check BY <1>5 DEF Check
  <1>6. CASE CheckClock BY <1>6 DEF CheckClock
  <1>7. CASE DetectScene BY <1>7 DEF DetectScene, CheckThen, Write
  <1>8. CASE Render BY <1>8 DEF Render
  <1>9. CASE Request BY <1>9 DEF Request, Write
  <1>10. CASE HandleFailure BY <1>10 DEF HandleFailure
  <1>11. CASE HandleText BY <1>11 DEF HandleText, Write
  <1>12. CASE HandleOther BY <1>12 DEF HandleOther
  <1>13. CASE Finish BY <1>13 DEF Finish
  <1>14. CASE Complete BY <1>14 DEF Complete, Settle, Report
  <1>15. CASE Save BY <1>15 DEF Save
  <1>16. CASE Metric BY <1>16 DEF Metric, Report
  <1>17. CASE Stop BY <1>17 DEF Stop, Settle, Report
  <1>18. CASE Fail BY <1>18 DEF Fail, Settle, Report
  <1>19. CASE Expire BY <1>19 DEF Expire
  <1>20. CASE ReportExpired BY <1>20 DEF ReportExpired, Report
  <1>21. CASE CloseDeadline BY <1>21 DEF CloseDeadline
  <1>22. CASE ProviderSends BY <1>22 DEF ProviderSends, CheckThen
  <1>23. CASE ProviderStops BY <1>23 DEF ProviderStops, CheckThen
  <1>24. CASE Tick BY <1>24 DEF Tick, workerVars
  <1>25. CASE WatchdogFires BY <1>25 DEF WatchdogFires, workerVars
  <1>26. CASE WatchdogCancels BY <1>26 DEF WatchdogCancels, workerVars
  <1>27. CASE UserCancels BY <1>27 DEF UserCancels, workerVars
  <1>28. CASE UNCHANGED vars BY <1>28 DEF vars, workerVars
  <1> QED
    BY <1>1, <1>2, <1>3, <1>4, <1>5, <1>6, <1>7, <1>8, <1>9, <1>10, <1>11,
       <1>12, <1>13, <1>14, <1>15, <1>16, <1>17, <1>18, <1>19, <1>20, <1>21, <1>22,
       <1>23, <1>24, <1>25, <1>26, <1>27, <1>28
       DEF Next, Work, Await, Watchdog

\* What the client reads of any request is a stream of EventStream, provided
\* no usage key repeats a key of the metadata.
THEOREM StreamImplemented ==
  ASSUME ~UsageMayClash
  PROVE  Spec => StreamSpec
<1>1. Init => StreamInv /\ Stream!Init
  BY DEF Init, StreamInv, At, Stream!Init
<1>2. TypeOK /\ StreamInv /\ [Next]_vars => StreamInv' /\ [Stream!Next]_last
  BY StreamStep
<1> QED
  BY <1>1, <1>2, OptimizeTypes, PTL DEF Spec, StreamSpec, Stream!Spec
==============================================================================
