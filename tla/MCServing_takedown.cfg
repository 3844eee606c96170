\* One instance: two requests for a low-trust code race its takedown.
CONSTANTS
  Instances = {i1}
  Admins = {a1}
  Poller = poller
  Codes = {c1}
  NoCode = none
  MaxSeq = 1
  MaxRestarts = 0
  Calls = {o1, o2}
  NoCall = nocall
  Raised = raised
  Unset = unset
  Reqs = {r1, r2}
  Hosts <- Several
  Blocklist <- Blocked
  Shorteners <- Chained
  LowTrust <- Cheap
  LocalNames <- Local
  LocalPrefixes <- Networks
  LocalSuffixes <- Internal
  AllowPrivate = FALSE
  Capacity = 1
  Lifetimes <- Forever
  MaxTime = 0
  MaxRows = 1
SPECIFICATION Spec
SYMMETRY Symmetry
INVARIANTS
  WithdrawnIsNotServed
  OnlyTakedownSkipsInterstitial
CHECK_DEADLOCK TRUE
