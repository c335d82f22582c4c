SPECIFICATION FairSpec
CONSTANTS
  r1 = r1
  r2 = r2
  t1 = t1
  t2 = t2
  t3 = t3
  t4 = t4
  Clients = {main}
  Workers = {w1, w2}
  RequestIds = {r1, r2}
  Tasks = {t1, t2, t3, t4}
  RidOf <- RidReused
  MaxQueue = 1
  NoTask = NoTask
ACTION_CONSTRAINT LastIsRefused
CHECK_DEADLOCK FALSE
INVARIANT SchedulerInv
INVARIANT CloseCancelsEverything
PROPERTY CancelReachesItsTask
PROPERTY LifecycleSpec
PROPERTY NoWakeUpIsLost
