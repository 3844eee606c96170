\* Three threads, a dict that is flushed at two keys or after one tick.
CONSTANTS
  Threads = {t1, t2, t3}
  Hits <- FourHits
  Codes = {"odd", "even"}
  CodeOf <- OddAndEven
  MaxPending = 2
  Interval = 1
  MaxCrashes = 1
  MaxUnanswered = 1
SPECIFICATION Spec
SYMMETRY Symmetry
INVARIANTS
  TypeOK
  EveryHitCountedOnce
CHECK_DEADLOCK TRUE
