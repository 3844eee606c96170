----------------------------- MODULE MCCreation -----------------------------
(* Small instances of Creation for TLC. *)
EXTENDS Creation

CONSTANTS p1, p2, t1, t2

TwoThreads == [t \in {t1, t2} |-> IF t = t1 THEN p1 ELSE p2]

Each(first, second) == [g \in {p1, p2} |-> IF g = p1 THEN first ELSE second]

(* INSTANCE_IDs that differ, and one that is given twice. *)
Deployed == {Each(0, 1), Each(0, 0)}

(* The first process has the eventful life. *)
Times == Each(2, 0)
Ids == Each(3, 1)
Reboots == Each(1, 0)

AllCodes ==
  {CodeOf(Pack(ms, 0, seq)) : ms \in 0..2, seq \in 0..MaxSequence} \cup {CodeOf(Pack(0, 1, 0))}
=============================================================================
