----------------------------- MODULE HitCounter -----------------------------
(***************************************************************************)
(* counters.py: HitCounter, and the bulk write of the link stores it       *)
(* flushes to (store.py, pgstore.py: record_hits_bulk).                    *)
(*                                                                         *)
(* Request threads record and flush; the lock covers the dict, not the     *)
(* write.  A count is a set of hits here, each with an identity, so that a *)
(* hit that is counted twice or not at all can be told apart; the dict's   *)
(* keys are the codes of the hits it counts.                               *)
(***************************************************************************)
EXTENDS Integers, FiniteSets

CONSTANTS Threads,      \* threads that serve requests
          Hits,         \* bound: the hits that may happen
          Codes,
          CodeOf,       \* the code each hit is for
          MaxPending,   \* max_pending
          Interval,     \* flush_interval, in ticks
          MaxCrashes,   \* bound: crashes of the process
          MaxUnanswered \* bound: commits whose answer is lost

ASSUME CodesAssumption == IsFiniteSet(Codes) /\ CodeOf \in [Hits -> Codes]
ASSUME BoundsAssumption ==
  MaxPending \in Nat /\ Interval \in Nat /\ MaxCrashes \in Nat /\ MaxUnanswered \in Nat

VARIABLES counts,     \* _counts
          age,        \* time since _last_flush, up to Interval
          thread,     \* where each thread is in record or flush
          table,      \* link_hits: how often each hit was added
          doubled,    \* history: how often each was added by a commit without an answer
          recorded,   \* history: hits that were recorded
          lost,       \* history: hits that died with the process
          crashes,    \* crashes so far
          unanswered  \* commits without an answer so far

vars == <<counts, age, thread, table, doubled, recorded, lost, crashes, unanswered>>

(* Program counters: outside; after the first block of record; about to    *)
(* take the batch; about to write it; about to put it back.                *)
PCs == {"out", "decide", "take", "write", "putback"}

Out == [pc |-> "out", pending |-> 0, batch |-> {}]

Pending(hits) == Cardinality({CodeOf[h] : h \in hits})

(* Added to the table by a write that said so. *)
Stored == {h \in Hits : table[h] > doubled[h]}

InBatch(h) == \E t \in Threads : h \in thread[t].batch

Goto(t, pc) == thread' = [thread EXCEPT ![t].pc = pc]

Leave(t) == thread' = [thread EXCEPT ![t] = Out]

Init ==
  /\ counts = {}
  /\ age = 0
  /\ thread = [t \in Threads |-> Out]
  /\ table = [h \in Hits |-> 0]
  /\ doubled = [h \in Hits |-> 0]
  /\ recorded = {}
  /\ lost = {}
  /\ crashes = 0
  /\ unanswered = 0

-----------------------------------------------------------------------------
(* record, under the lock: count the hit, remember how many keys there are. *)
Record(t, h) ==
  /\ thread[t].pc = "out"
  /\ h \notin recorded
  /\ counts' = counts \cup {h}
  /\ recorded' = recorded \cup {h}
  /\ thread' = [thread EXCEPT ![t] = [Out EXCEPT !.pc = "decide", !.pending = Pending(counts')]]
  /\ UNCHANGED <<age, table, doubled, lost, crashes, unanswered>>

(* record, outside the lock: the size that was remembered, or the time.    *)
Decide(t) ==
  /\ thread[t].pc = "decide"
  /\ IF thread[t].pending >= MaxPending \/ age >= Interval THEN Goto(t, "take") ELSE Leave(t)
  /\ UNCHANGED <<counts, age, table, doubled, recorded, lost, crashes, unanswered>>

(* The shutdown handler flushes whatever there is. *)
Shutdown(t) ==
  /\ thread[t].pc = "out"
  /\ Goto(t, "take")
  /\ UNCHANGED <<counts, age, table, doubled, recorded, lost, crashes, unanswered>>

(* Mutation: the dict is emptied only once the batch is written. *)
Take_NotCleared(t) ==
  /\ thread[t].pc = "take"
  /\ age' = 0
  /\ IF counts = {} THEN Leave(t)
     ELSE thread' = [thread EXCEPT ![t] = [pc |-> "write", pending |-> 0, batch |-> counts]]
  /\ UNCHANGED <<counts, table, doubled, recorded, lost, crashes, unanswered>>

(* flush, under the lock: swap the dict for an empty one. *)
Take(t) ==
  /\ thread[t].pc = "take"
  /\ age' = 0
  /\ IF counts = {} THEN Leave(t)
     ELSE thread' = [thread EXCEPT ![t] = [pc |-> "write", pending |-> 0, batch |-> counts]]
  /\ counts' = {}
  /\ UNCHANGED <<table, doubled, recorded, lost, crashes, unanswered>>

(* One more of every hit of the batch. *)
Plus(count, batch) == [h \in Hits |-> IF h \in batch THEN count[h] + 1 ELSE count[h]]

(* record_hits_bulk: one transaction adds the whole batch. *)
Write(t) ==
  /\ thread[t].pc = "write"
  /\ table' = Plus(table, thread[t].batch)
  /\ Leave(t)
  /\ UNCHANGED <<counts, age, doubled, recorded, lost, crashes, unanswered>>

(* record_hits_bulk raises and nothing of it is committed. *)
WriteFails(t) ==
  /\ thread[t].pc = "write"
  /\ Goto(t, "putback")
  /\ UNCHANGED <<counts, age, table, doubled, recorded, lost, crashes, unanswered>>

(* The transaction is committed, but the connection breaks before it says  *)
(* so: record_hits_bulk raises all the same.                               *)
WriteUnanswered(t) ==
  /\ thread[t].pc = "write"
  /\ unanswered < MaxUnanswered
  /\ unanswered' = unanswered + 1
  /\ table' = Plus(table, thread[t].batch)
  /\ doubled' = Plus(doubled, thread[t].batch)
  /\ Goto(t, "putback")
  /\ UNCHANGED <<counts, age, recorded, lost, crashes>>

(* Mutation: the batch is put back and kept for another attempt. *)
PutBack_Kept(t) ==
  /\ thread[t].pc = "putback"
  /\ counts' = counts \cup thread[t].batch
  /\ Goto(t, "out")
  /\ UNCHANGED <<age, table, doubled, recorded, lost, crashes, unanswered>>

(* flush, under the lock again: the batch joins what was counted meanwhile. *)
PutBack(t) ==
  /\ thread[t].pc = "putback"
  /\ counts' = counts \cup thread[t].batch
  /\ Leave(t)
  /\ UNCHANGED <<age, table, doubled, recorded, lost, crashes, unanswered>>

-----------------------------------------------------------------------------
(* The process dies with everything in its memory. *)
Crash ==
  /\ crashes < MaxCrashes
  /\ crashes' = crashes + 1
  /\ lost' = lost \cup counts \cup {h \in Hits : InBatch(h)}
  /\ counts' = {}
  /\ age' = 0
  /\ thread' = [t \in Threads |-> Out]
  /\ UNCHANGED <<table, doubled, recorded, unanswered>>

Tick ==
  /\ age < Interval
  /\ age' = age + 1
  /\ UNCHANGED <<counts, thread, table, doubled, recorded, lost, crashes, unanswered>>

Step(t) ==
  \/ \E h \in Hits : Record(t, h)
  \/ Decide(t)
  \/ Shutdown(t)
  \/ Take(t)
  \/ Write(t)
  \/ WriteFails(t)
  \/ WriteUnanswered(t)
  \/ PutBack(t)

Next == (\E t \in Threads : Step(t)) \/ Crash \/ Tick

Spec == Init /\ [][Next]_vars

-----------------------------------------------------------------------------
(* Every variable has its type, and a thread that is not in flush holds no *)
(* batch.                                                                  *)
TypeOK ==
  /\ counts \subseteq Hits
  /\ age \in 0..Interval
  /\ thread \in [Threads -> [pc : PCs, pending : Nat, batch : SUBSET Hits]]
  /\ \A t \in Threads : thread[t].pc \notin {"write", "putback"} => thread[t].batch = {}
  /\ table \in [Hits -> Nat]
  /\ doubled \in [Hits -> Nat]
  /\ recorded \subseteq Hits
  /\ lost \subseteq Hits
  /\ crashes \in Nat /\ unanswered \in Nat

(* However many threads flush at once, and whichever of their writes fail: *)
(* a hit that was recorded is counted once, in the table, in the dict or   *)
(* in the batch of one thread, unless a crash lost it ("costs latency in   *)
(* the next flush and not accuracy").  The table has it once more for      *)
(* every commit whose answer was lost, and for nothing else.               *)
EveryHitCountedOnce ==
  /\ recorded = counts \cup {h \in Hits : InBatch(h)} \cup Stored \cup lost
  /\ \A h \in Hits : table[h] \in {doubled[h], doubled[h] + 1}
  /\ counts \cap Stored = {} /\ counts \cap lost = {} /\ lost \cap Stored = {}
  /\ \A h \in Hits : InBatch(h) => h \notin counts \cup Stored \cup lost
  /\ \A t, u \in Threads : t # u => thread[t].batch \cap thread[u].batch = {}
=============================================================================
