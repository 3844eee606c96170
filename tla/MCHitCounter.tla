---------------------------- MODULE MCHitCounter ----------------------------
(* A small instance of HitCounter for TLC: four hits on two codes. *)
EXTENDS HitCounter, TLC

FourHits == 1..4
OddAndEven == [h \in FourHits |-> IF h % 2 = 0 THEN "even" ELSE "odd"]
Symmetry == Permutations(Threads)
=============================================================================
