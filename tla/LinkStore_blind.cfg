\* Two connections to one file.
CONSTANTS
  Threads = {t1, t2}
  Codes = {c1, c2}
  MaxAttempts = 2
SPECIFICATION Spec
INVARIANTS
  CreatedLinkReadsBack
CHECK_DEADLOCK TRUE
