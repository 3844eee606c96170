\* One instance: a low-trust link that expires, under two requests whose load may
\* raise.  A link whose create reads time 1 outlives the clock and never expires.
CONSTANTS
  Instances = {i1}
  Admins = {}
  Poller = poller
  Codes = {c1}
  NoCode = none
  MaxSeq = 0
  MaxRestarts = 0
  Calls = {o1, o2}
  NoCall = nocall
  Raised = raised
  Unset = unset
  Reqs = {r1, r2}
  Hosts <- Trusted
  Blocklist <- Blocked
  Shorteners <- Chained
  LowTrust <- Cheap
  LocalNames <- Local
  LocalPrefixes <- Networks
  LocalSuffixes <- Internal
  AllowPrivate = FALSE
  Capacity = 1
  Lifetimes <- ShortLived
  MaxTime = 1
  MaxRows = 2
SPECIFICATION FairSpec
INVARIANTS
  CachedEntryIsCurrent
  AnswerFitsItsLoad
PROPERTIES
  EveryRequestAnswered
CHECK_DEADLOCK TRUE
