\* One instance with a cache of one entry for two codes.
CONSTANTS
  Instances = {i1}
  Admins = {a1}
  Poller = poller
  Codes = {c1, c2}
  NoCode = none
  MaxSeq = 1
  MaxRestarts = 1
  Calls = {o1}
  NoCall = nocall
  Raised = raised
  Unset = unset
  Reqs = {r1}
  Hosts <- Suspect
  Blocklist <- Blocked
  Shorteners <- Chained
  LowTrust <- Cheap
  LocalNames <- Local
  LocalPrefixes <- Networks
  LocalSuffixes <- Internal
  AllowPrivate = FALSE
  Capacity = 1
  Lifetimes <- Forever
  MaxTime = 0
  MaxRows = 1
SPECIFICATION Spec
INVARIANTS
  TypeOK
PROPERTIES
  ImplementsInvalidation
CHECK_DEADLOCK TRUE
