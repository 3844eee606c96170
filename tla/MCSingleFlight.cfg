\* Three threads, two keys; fn returns the one value or raises.
CONSTANTS
  Threads = {t1, t2, t3}
  Keys = {k1, k2}
  Calls = {o1, o2, o3}
  Values = {v1}
  NoCall = nocall
  Raised = raised
  Unset = unset
SPECIFICATION FairSpec
INVARIANTS
  TypeOK
  OneFnPerKey
  NoOrphanWaiter
  SharedResult
PROPERTIES
  EveryCallerReturns
CHECK_DEADLOCK TRUE
