------------------------- MODULE HitCounter_proofs -------------------------
(***************************************************************************)
(* Theorems about HitCounter, for any number of threads, hits and crashes  *)
(* and any thresholds.  EveryHitCountedOnce is inductive together with the *)
(* types: the dict is swapped under the lock, so a batch is one thread's.  *)
(***************************************************************************)
EXTENDS HitCounter, FiniteSetTheorems, TLAPS

USE CodesAssumption, BoundsAssumption

(* What record remembers is a number: the dict has finitely many keys. *)
LEMMA PendingIsNat ==
  ASSUME NEW hits \in SUBSET Hits
  PROVE  Pending(hits) \in Nat
<1>1. {CodeOf[h] : h \in hits} \subseteq Codes
  OBVIOUS
<1>2. IsFiniteSet({CodeOf[h] : h \in hits})
  BY <1>1, FS_Subset
<1> QED BY <1>2, FS_CardinalityType DEF Pending

(* A thread that leaves outside of a flush's write takes no batch with it. *)
LEMMA LeavesNothing ==
  ASSUME TypeOK, NEW t \in Threads, Leave(t),
         thread[t].pc \notin {"write", "putback"}
  PROVE  \A u \in Threads : thread'[u].batch = thread[u].batch
<1>1. thread[t].batch = {} /\ thread' = [thread EXCEPT ![t] = Out]
  BY DEF TypeOK, Leave
<1>2. thread'[t].batch = {}
  BY <1>1 DEF TypeOK, Out
<1>3. \A u \in Threads \ {t} : thread'[u] = thread[u]
  BY <1>1 DEF TypeOK
<1> QED BY <1>1, <1>2, <1>3

(* Every reachable state is well typed, and a thread outside of flush      *)
(* holds no batch (record, flush).                                         *)
THEOREM TypeCorrect == Spec => []TypeOK
<1>1. Init => TypeOK
  BY DEF Init, TypeOK, Out, PCs
<1>2. TypeOK /\ [Next]_vars => TypeOK'
  <2> SUFFICES ASSUME TypeOK, [Next]_vars
               PROVE  TypeOK'
    OBVIOUS
  <2> USE DEF TypeOK, PCs, Out, Goto, Leave
  <2>1. ASSUME NEW t \in Threads, NEW h \in Hits, Record(t, h)
        PROVE  TypeOK'
    <3>1. Pending(counts') \in Nat
      BY <2>1, PendingIsNat DEF Record
    <3> QED BY <2>1, <3>1 DEF Record
  <2>2. ASSUME NEW t \in Threads, Decide(t)
        PROVE  TypeOK'
    BY <2>2 DEF Decide
  <2>3. ASSUME NEW t \in Threads, Shutdown(t)
        PROVE  TypeOK'
    BY <2>3 DEF Shutdown
  <2>4. ASSUME NEW t \in Threads, Take(t)
        PROVE  TypeOK'
    <3>1. CASE counts = {}
      BY <2>4, <3>1 DEF Take
    <3>2. CASE counts # {}
      <4>1. thread' = [thread EXCEPT ![t] = [pc |-> "write", pending |-> 0, batch |-> counts]]
        BY <2>4, <3>2 DEF Take
      <4> QED BY <2>4, <4>1 DEF Take
    <3> QED BY <3>1, <3>2
  <2>5. ASSUME NEW t \in Threads, Write(t)
        PROVE  TypeOK'
    BY <2>5 DEF Write, Plus
  <2>6. ASSUME NEW t \in Threads, WriteFails(t)
        PROVE  TypeOK'
    BY <2>6 DEF WriteFails
  <2>7. ASSUME NEW t \in Threads, PutBack(t)
        PROVE  TypeOK'
    BY <2>7 DEF PutBack
  <2>8. CASE Crash
    BY <2>8 DEF Crash
  <2>11. ASSUME NEW t \in Threads, WriteUnanswered(t)
         PROVE  TypeOK'
    BY <2>11 DEF WriteUnanswered, Plus
  <2>9. CASE Tick
    BY <2>9 DEF Tick
  <2>10. CASE UNCHANGED vars
    BY <2>10 DEF vars
  <2> QED BY <2>1, <2>2, <2>3, <2>4, <2>5, <2>6, <2>7, <2>8, <2>9, <2>10, <2>11 DEF Next, Step
<1> QED BY <1>1, <1>2, PTL DEF Spec

-----------------------------------------------------------------------------
(* A hit that was recorded is counted exactly once, in the dict, in the    *)
(* batch of one thread or in the table, unless a crash lost it, whatever   *)
(* threads flush at once and whichever of their writes fail (flush).       *)
THEOREM CountedOnce == Spec => []EveryHitCountedOnce
<1>1. Init => EveryHitCountedOnce
  BY DEF Init, EveryHitCountedOnce, Out, Stored, InBatch
<1>2. TypeOK /\ TypeOK' /\ EveryHitCountedOnce /\ [Next]_vars => EveryHitCountedOnce'
  <2> SUFFICES ASSUME TypeOK, TypeOK', EveryHitCountedOnce, [Next]_vars
               PROVE  EveryHitCountedOnce'
    OBVIOUS
  <2> USE DEF EveryHitCountedOnce, TypeOK, PCs, Out, Goto, Leave, Stored, InBatch
  <2>0. ASSUME UNCHANGED <<counts, table, doubled, recorded, lost>>,
               \A t \in Threads : thread'[t].batch = thread[t].batch
        PROVE  EveryHitCountedOnce'
    BY <2>0
  <2>1. ASSUME NEW t \in Threads, NEW h \in Hits, Record(t, h)
        PROVE  EveryHitCountedOnce'
    <3>1. \A u \in Threads : thread'[u].batch = thread[u].batch
      BY <2>1 DEF Record
    <3>2. counts' = counts \cup {h} /\ recorded' = recorded \cup {h} /\ h \notin recorded
      BY <2>1 DEF Record
    <3>3. UNCHANGED <<table, doubled, lost>>
      BY <2>1 DEF Record
    <3> QED BY <3>1, <3>2, <3>3
  <2>2. ASSUME NEW t \in Threads, Decide(t)
        PROVE  EveryHitCountedOnce'
    <3>1. CASE Goto(t, "take")
      BY <2>0, <2>2, <3>1 DEF Decide
    <3>2. CASE Leave(t)
      <4>1. thread[t].pc = "decide" /\ UNCHANGED <<counts, table, doubled, recorded, lost>>
        BY <2>2 DEF Decide
      <4> QED BY <2>0, <3>2, <4>1, LeavesNothing
    <3>3. Goto(t, "take") \/ Leave(t)
      BY <2>2 DEF Decide
    <3> QED BY <3>1, <3>2, <3>3
  <2>3. ASSUME NEW t \in Threads, Shutdown(t)
        PROVE  EveryHitCountedOnce'
    BY <2>0, <2>3 DEF Shutdown
  <2>4. ASSUME NEW t \in Threads, Take(t)
        PROVE  EveryHitCountedOnce'
    <3>1. CASE counts = {}
      <4>1. Leave(t) /\ thread[t].pc = "take" /\ UNCHANGED <<counts, table, doubled, recorded, lost>>
        BY <2>4, <3>1 DEF Take
      <4> QED BY <2>0, <4>1, LeavesNothing
    <3>2. CASE counts # {}
      <4>0. thread' = [thread EXCEPT ![t] = [pc |-> "write", pending |-> 0, batch |-> counts]]
        BY <2>4, <3>2 DEF Take
      <4>1. thread'[t].batch = counts /\ thread[t].batch = {} /\ counts' = {}
        <5>1. thread[t].pc = "take" /\ counts' = {}
          BY <2>4 DEF Take
        <5>2. thread'[t] = [pc |-> "write", pending |-> 0, batch |-> counts]
          BY <4>0
        <5> QED BY <5>1, <5>2, SMTT(30)
      <4>2. \A u \in Threads \ {t} : thread'[u].batch = thread[u].batch
        BY <4>0
      <4>3. UNCHANGED <<table, doubled, recorded, lost>>
        BY <2>4 DEF Take
      <4>4. Stored' = Stored
        BY <4>3
      <4>5. \A h \in Hits : InBatch(h)' <=> InBatch(h) \/ h \in counts
        BY <4>1, <4>2
      <4>6. \A u, v \in Threads : u # v => thread'[u].batch \cap thread'[v].batch = {}
        BY <4>1, <4>2
      <4> QED BY <4>1, <4>3, <4>4, <4>5, <4>6
    <3> QED BY <3>1, <3>2
  <2>5. ASSUME NEW t \in Threads, Write(t)
        PROVE  EveryHitCountedOnce'
    <3>1. thread'[t].batch = {} /\ \A u \in Threads \ {t} : thread'[u].batch = thread[u].batch
      BY <2>5 DEF Write
    <3>4. UNCHANGED <<counts, doubled, recorded, lost>>
      BY <2>5 DEF Write
    <3>2. \A h \in Hits : table'[h] = IF h \in thread[t].batch THEN table[h] + 1 ELSE table[h]
      BY <2>5 DEF Write, Plus
    <3>7. \A h \in thread[t].batch : table[h] = doubled[h]
      OBVIOUS
    <3>3. Stored' = Stored \cup thread[t].batch
      BY <3>2, <3>4, <3>7
    <3>5. \A h \in Hits : table'[h] \in {doubled'[h], doubled'[h] + 1}
      BY <3>2, <3>4, <3>7
    <3>6. \A h \in Hits : InBatch(h)' => InBatch(h) /\ h \notin thread[t].batch
      BY <3>1
    <3> QED BY <3>1, <3>3, <3>4, <3>5, <3>6
  <2>6. ASSUME NEW t \in Threads, WriteFails(t)
        PROVE  EveryHitCountedOnce'
    BY <2>0, <2>6 DEF WriteFails
  <2>7. ASSUME NEW t \in Threads, PutBack(t)
        PROVE  EveryHitCountedOnce'
    <3>1. thread'[t].batch = {} /\ counts' = counts \cup thread[t].batch
      BY <2>7 DEF PutBack
    <3>2. \A u \in Threads \ {t} : thread'[u].batch = thread[u].batch
      BY <2>7 DEF PutBack
    <3>3. UNCHANGED <<table, doubled, recorded, lost>>
      BY <2>7 DEF PutBack
    <3> QED BY <3>1, <3>2, <3>3
  <2>8. CASE Crash
    <3>1. counts' = {} /\ \A t \in Threads : thread'[t].batch = {}
      BY <2>8 DEF Crash
    <3>2. lost' = lost \cup counts \cup {h \in Hits : InBatch(h)}
      BY <2>8 DEF Crash
    <3>3. UNCHANGED <<table, doubled, recorded>>
      BY <2>8 DEF Crash
    <3> QED BY <3>1, <3>2, <3>3
  <2>9. CASE Tick
    BY <2>0, <2>9 DEF Tick
  <2>11. ASSUME NEW t \in Threads, WriteUnanswered(t)
         PROVE  EveryHitCountedOnce'
    <3>1. \A u \in Threads : thread'[u].batch = thread[u].batch
      BY <2>11 DEF WriteUnanswered
    <3>2. UNCHANGED <<counts, recorded, lost>>
      BY <2>11 DEF WriteUnanswered
    <3>3. \A h \in Hits : \/ table'[h] = table[h] + 1 /\ doubled'[h] = doubled[h] + 1
                          \/ table'[h] = table[h] /\ doubled'[h] = doubled[h]
      BY <2>11 DEF WriteUnanswered, Plus
    <3>4. Stored' = Stored
      BY <3>3, SMTT(30)
    <3>5. \A h \in Hits : table'[h] \in {doubled'[h], doubled'[h] + 1}
      BY <3>3
    <3> QED BY <3>1, <3>2, <3>4, <3>5
  <2>10. CASE UNCHANGED vars
    BY <2>0, <2>10 DEF vars
  <2> QED BY <2>1, <2>2, <2>3, <2>4, <2>5, <2>6, <2>7, <2>8, <2>9, <2>10, <2>11 DEF Next, Step
<1> QED BY <1>1, <1>2, TypeCorrect, PTL DEF Spec
=============================================================================
