\* A takedown on one instance, then a request to another.
CONSTANTS
  Instances = {i1, i2}
  Admins = {a1}
  Poller = poller
  Codes = {c1}
  NoCode = none
  MaxSeq = 1
  MaxRestarts = 0
  Calls = {o1}
  NoCall = nocall
  Raised = raised
  Unset = unset
  Reqs = {r1}
  Hosts <- Trusted
  Blocklist <- Blocked
  Shorteners <- Chained
  LowTrust <- Cheap
  LocalNames <- Local
  LocalPrefixes <- Networks
  LocalSuffixes <- Internal
  AllowPrivate = FALSE
  Capacity = 1
  Lifetimes <- Forever
  MaxTime = 0
  MaxRows = 1
SPECIFICATION Spec
INVARIANTS
  AppliedIsNotServed
CHECK_DEADLOCK TRUE
