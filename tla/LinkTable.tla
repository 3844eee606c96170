----------------------------- MODULE LinkTable -----------------------------
(***************************************************************************)
(* What LinkStore promises those who call create and get, without its      *)
(* connections, transactions and locks: a create that returns has added    *)
(* one row, whole, of a code that had none, and its caller finds it; a     *)
(* reader finds the table as it is or as it once was, and never loses a    *)
(* row that it has found.  How far behind a reader may be is not promised. *)
(***************************************************************************)
CONSTANTS Threads, Codes

VARIABLES table,      \* codes that have a row
          returned,   \* how many creates returned each code
          found       \* what each thread would find

tableVars == <<table, returned, found>>

Init ==
  /\ table = {}
  /\ returned = [c \in Codes |-> 0]
  /\ found = [t \in Threads |-> {}]

(* Some threads find the table as it is now, the others what they did. *)
SomeCatchUp ==
  \E ts \in SUBSET Threads : found' = [t \in Threads |-> IF t \in ts THEN table' ELSE found[t]]

(* create returns the link of code c to t. *)
Create(t, c) ==
  /\ c \notin table
  /\ table' = table \cup {c}
  /\ returned' = [d \in Codes |-> IF d = c THEN 1 ELSE returned[d]]
  /\ SomeCatchUp
  /\ found'[t] = table'

(* A thread that was behind reads the table anew. *)
CatchUp ==
  /\ UNCHANGED <<table, returned>>
  /\ SomeCatchUp

Next == CatchUp \/ \E t \in Threads, c \in Codes : Create(t, c)

Spec == Init /\ [][Next]_tableVars
=============================================================================
