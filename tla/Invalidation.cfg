\* One instance whose poller races two takedown handlers; polls fail, the
\* process restarts.  Instances meet only in the log, so one that publishes,
\* restarts and polls meets every case another instance's rows would bring;
\* what is proved is for any number of them.
CONSTANTS
  Instances = {i1}
  Admins = {a1, a2}
  Poller = poller
  Codes = {c1, c2}
  NoCode = none
  MaxSeq = 2
  MaxRestarts = 1
SPECIFICATION FairSpec
INVARIANTS
  TypeOK
  NoStaleCopyBehindCursor
  OwnRowSettledOnReply
PROPERTIES
  EveryRowReachesEveryInstance
CHECK_DEADLOCK TRUE
