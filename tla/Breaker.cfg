\* Three requests at a time, two failures open the circuit.
CONSTANTS
  Threads = {t1, t2, t3}
  Threshold = 2
  Cooldown = 2
SPECIFICATION FairSpec
INVARIANTS
  TypeOK
  HalfOpenHasItsProbe
PROPERTIES
  ProbesAreACooldownApart
  FollowsTheStore
CHECK_DEADLOCK TRUE
