\* Two requests suffice for a late failure to let a second probe through.
CONSTANTS
  Threads = {t1, t2}
  Threshold = 1
  Cooldown = 1
SPECIFICATION Spec
INVARIANTS
  ExactlyOneProbe
CHECK_DEADLOCK TRUE
