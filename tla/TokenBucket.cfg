\* Two requests at a time on a bucket of two and a bit.  What one costs is refilled
\* in six ticks and a fifth, which are more than three seconds; the header is cut at
\* two.
CONSTANTS
  Threads = {t1, t2}
  Capacity = 64
  Rate = 5
  Cost = 31
  Slack = 1
  HardTtl = 3
  Second = 2
  HeaderCap = 2
  MaxDelay = 1
  MaxTime = 16
SPECIFICATION Spec
INVARIANTS
  TypeOK
  SpendingIsBounded
  StoresAgree
  RetryAfterIsEnough
  HeaderLacksASecondAtMost
\* The clock stops at its bound.
CHECK_DEADLOCK FALSE
