\* Two processes with a thread and a connection each: three ids, one reboot.
CONSTANTS
  p1 = p1
  p2 = p2
  t1 = t1
  t2 = t2
  Threads = {t1, t2}
  Codes <- AllCodes
  MaxAttempts = 2
  Generators = {p1, p2}
  Deployments <- Deployed
  MaxInstance = 1
  MaxSequence = 1
  MaxDrift = 1
  Base = 3
  MaxTime <- Times
  MaxIssued <- Ids
  MaxReboots <- Reboots
  GeneratorOf <- TwoThreads
  NoCode = nocode
  Spinning = spinning
SPECIFICATION CreateSpec
INVARIANTS
  TypeOK
  CodeHasOneOwner
  BlindOnlyAfterLocked
  LockLeftOnlyByGivingUp
  GenTypeOK
  IdsIncreaseInALife
  RepeatHasItsCause
  CodeTellsItsOrigin
  CollisionHasItsCause
PROPERTIES
  ImplementsLinkTable
\* The generators stop at their bound.
CHECK_DEADLOCK FALSE
