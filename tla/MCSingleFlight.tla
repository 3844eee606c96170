--------------------------- MODULE MCSingleFlight ---------------------------
(* Small instances of SingleFlight for TLC. *)
EXTENDS SingleFlight, TLC

Symmetry ==
  Permutations(Threads) \cup Permutations(Calls) \cup Permutations(Values)
=============================================================================
