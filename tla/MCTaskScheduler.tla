--------------------------- MODULE MCTaskScheduler ---------------------------
(***************************************************************************)
(* A small instance of TaskScheduler: t1 and t2 share the request id r1,   *)
(* so that the id is used again while its first task is still winding      *)
(* down, which needs a second worker.  t4 comes to a pool that is full.          *)
(***************************************************************************)
EXTENDS TaskScheduler

CONSTANTS r1, r2, t1, t2, t3, t4

RidReused == [t \in Tasks |-> IF t \in {t1, t2} THEN r1 ELSE r2]

\* Action constraint: t4 is only submitted when every place is taken, the workers do not move
\* meanwhile, and the behaviour ends there.
LastIsRefused ==
  /\ stage[t4] = "new" /\ stage'[t4] # "new" => Full /\ stage'[t4] = "pending"
  /\ stage[t4] = "pending" => wpc' = wpc
  /\ stage[t4] # "rejected"
==============================================================================
