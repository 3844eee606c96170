------------------------ MODULE Invalidation_proofs ------------------------
(***************************************************************************)
(* Proofs about Invalidation, for every set of instances, threads and      *)
(* codes and every bound.                                                  *)
(*                                                                         *)
(* NoStaleCopyBehindCursor is not inductive: Advance raises the cursor to  *)
(* a number that another step read long ago.  What makes it true is that   *)
(* every thread inside bus.poll has already settled the rows it is about   *)
(* to account for (PollInv), and that a settled row stays settled          *)
(* (SettledStays): rows are never changed, and a later put carries a later *)
(* stamp.                                                                  *)
(***************************************************************************)
EXTENDS Invalidation, TLAPS

(* The first n rows exist and are settled on i. *)
SettledUpTo(i, n) ==
  /\ n \in 0..Len(log)
  /\ \A k \in 1..n : Settled(i, k)

CursorInv == \A i \in Instances : SettledUpTo(i, cursor[i])

(* What thread w of i may be sure of in the middle of its work p. *)
ThreadInv(i, w, p) ==
  /\ p.pc = "select"  => SettledUpTo(i, p.from)
  /\ p.pc = "apply"   => /\ SettledUpTo(i, p.next - 1)
                         /\ p.next <= p.last /\ p.last <= Len(log)
  /\ p.pc = "advance" => SettledUpTo(i, p.last)
  /\ (w # Poller /\ p.pc \in {"cursor", "select", "apply", "advance", "reply"})
        => p.seq \in 1..Len(log)
  /\ (w # Poller /\ p.pc \in {"apply", "advance"}) => p.seq <= p.last
  /\ (w # Poller /\ p.pc = "reply") => Settled(i, p.seq)

PollInv == \A i \in Instances : \A w \in Workers : ThreadInv(i, w, poll[i][w])

(* A withdrawal in progress names a code. *)
CodeInv ==
  \A i \in Instances : \A w \in Workers :
    poll[i][w].pc \in {"purge", "publish"} => poll[i][w].code \in Codes

IInv == TypeOK /\ CodeInv /\ CursorInv /\ PollInv

-----------------------------------------------------------------------------
(* The states a thread can be set to are thread states. *)
LEMMA IdleType ==
  /\ Idle \in PollState
  /\ \A pc \in {"idle", "purge", "publish", "cursor", "select", "apply", "advance", "reply"},
        c \in Codes \cup {NoCode}, n \in Nat :
       [Idle EXCEPT !.pc = pc, !.code = c, !.seq = n] \in PollState
  BY DEF Idle, PollState

LEMMA PollStateType ==
  ASSUME NEW p \in PollState, NEW n \in Nat, NEW m \in Nat,
         NEW pc \in {"idle", "purge", "publish", "cursor", "select", "apply", "advance", "reply"}
  PROVE  /\ [p EXCEPT !.pc = pc] \in PollState
         /\ [p EXCEPT !.pc = pc, !.from = n] \in PollState
         /\ [p EXCEPT !.pc = pc, !.seq = n] \in PollState
         /\ [p EXCEPT !.pc = pc, !.next = n, !.last = m] \in PollState
         /\ [p EXCEPT !.next = n, !.pc = pc] \in PollState
  BY DEF PollState

LEMMA PollFieldTypes ==
  ASSUME NEW p \in PollState
  PROVE  /\ p.from \in Nat /\ p.next \in Nat /\ p.last \in Nat /\ p.seq \in Nat
         /\ p.code \in Codes \cup {NoCode}
  BY DEF PollState

LEMMA FinishedType ==
  ASSUME TypeOK, NEW i \in Instances, NEW w \in Workers
  PROVE  Finished(i, w) \in PollState
<1>1. poll[i][w] \in PollState
  BY DEF TypeOK
<1>2. poll[i][w].code \in Codes \cup {NoCode} /\ poll[i][w].seq \in Nat
  BY <1>1 DEF PollState
<1> QED
  BY <1>2, IdleType DEF Finished, Idle

(* One thread moves, all others stay where they are. *)
LEMMA SetType ==
  ASSUME TypeOK, NEW i \in Instances, NEW w \in Workers, NEW s \in PollState,
         Set(i, w, s)
  PROVE  /\ poll' \in [Instances -> [Workers -> PollState]]
         /\ poll'[i][w] = s
         /\ \A j \in Instances : \A v \in Workers :
              (j # i \/ v # w) => poll'[j][v] = poll[j][v]
  BY DEF Set, TypeOK

LEMMA GotoIsSet ==
  ASSUME NEW i, NEW w, NEW pc, Goto(i, w, pc)
  PROVE  Set(i, w, [poll[i][w] EXCEPT !.pc = pc])
  BY DEF Goto, Set

-----------------------------------------------------------------------------
LEMMA TypeInit == Init => TypeOK
<1> SUFFICES ASSUME Init PROVE TypeOK
  OBVIOUS
<1>1. cache \in [Instances -> [Codes -> Nat \cup {Absent}]]
  BY DEF Init
<1>2. poll \in [Instances -> [Workers -> PollState]]
  BY IdleType DEF Init
<1>3. log \in Seq(Codes) /\ cursor \in [Instances -> Nat] /\ restarts \in Nat
  BY DEF Init
<1> QED
  BY <1>1, <1>2, <1>3 DEF TypeOK

LEMMA EvictType ==
  ASSUME TypeOK, NEW i \in Instances, NEW c, Evict(i, c)
  PROVE  cache' \in [Instances -> [Codes -> Nat \cup {Absent}]]
  BY DEF TypeOK, Evict

LEMMA TypeNext == TypeOK /\ CodeInv /\ [Next]_vars => TypeOK'
<1> SUFFICES ASSUME TypeOK, CodeInv, [Next]_vars PROVE TypeOK'
  OBVIOUS
<1>1. ASSUME NEW i \in Instances, NEW w \in Workers, ReadCursor(i, w) PROVE TypeOK'
  <2>1. poll[i][w] \in PollState /\ cursor[i] \in Nat
    BY DEF TypeOK
  <2>2. poll' \in [Instances -> [Workers -> PollState]]
    BY <1>1, <2>1, SetType, PollStateType DEF ReadCursor
  <2> QED BY <1>1, <2>2 DEF ReadCursor, TypeOK
<1>2. ASSUME NEW i \in Instances, NEW w \in Workers, SelectRows(i, w) PROVE TypeOK'
  <2>0. poll[i][w] \in PollState /\ Len(log) \in Nat
    BY DEF TypeOK
  <2>1. poll[i][w].from \in Nat /\ poll[i][w].from + 1 \in Nat
    BY <2>0, PollFieldTypes
  <2> DEFINE s == IF poll[i][w].from < Len(log)
                   THEN [poll[i][w] EXCEPT !.pc = "apply", !.next = poll[i][w].from + 1,
                                           !.last = Len(log)]
                   ELSE Finished(i, w)
  <2>2. s \in PollState
    <3>1. [poll[i][w] EXCEPT !.pc = "apply", !.next = poll[i][w].from + 1,
                             !.last = Len(log)] \in PollState
      BY <2>0, <2>1, PollStateType
    <3> QED BY <3>1, FinishedType
  <2>3. Set(i, w, s)
    BY <1>2 DEF SelectRows
  <2>4. poll' \in [Instances -> [Workers -> PollState]]
    <3> HIDE DEF s
    <3> QED BY <2>2, <2>3, SetType
  <2> QED BY <1>2, <2>4 DEF SelectRows, TypeOK
<1>3. ASSUME NEW i \in Instances, NEW w \in Workers, SelectFails(i, w) PROVE TypeOK'
  BY <1>3, SetType, IdleType DEF SelectFails, TypeOK
<1>4. ASSUME NEW i \in Instances, NEW w \in Workers, ApplyRow(i, w) PROVE TypeOK'
  <2>1. poll[i][w] \in PollState
    BY DEF TypeOK
  <2> DEFINE s == [poll[i][w] EXCEPT
                     !.next = poll[i][w].next + 1,
                     !.pc = IF poll[i][w].next = poll[i][w].last THEN "advance" ELSE "apply"]
  <2>2. poll' \in [Instances -> [Workers -> PollState]]
    <3>1. poll[i][w].next + 1 \in Nat
      BY <2>1, PollFieldTypes
    <3>2. s \in PollState
      BY <2>1, <3>1, PollStateType
    <3>3. Set(i, w, s)
      BY <1>4 DEF ApplyRow, NextRow
    <3> HIDE DEF s
    <3> QED BY <3>2, <3>3, SetType
  <2>3. cache' \in [Instances -> [Codes -> Nat \cup {Absent}]]
    BY <1>4, EvictType DEF ApplyRow
  <2> QED BY <1>4, <2>2, <2>3 DEF ApplyRow, TypeOK
<1>5. ASSUME NEW i \in Instances, NEW w \in Workers, Advance(i, w) PROVE TypeOK'
  <2>0. poll[i][w] \in PollState
    BY DEF TypeOK
  <2>1. poll[i][w].last \in Nat
    BY <2>0, PollFieldTypes
  <2>2. poll' \in [Instances -> [Workers -> PollState]]
    BY <1>5, SetType, FinishedType DEF Advance
  <2> QED BY <1>5, <2>1, <2>2 DEF Advance, TypeOK
<1>6. ASSUME NEW i \in Instances, NEW w \in Workers, TakedownStep(i, w) PROVE TypeOK'
  <2>0. poll[i][w] \in PollState
    BY DEF TypeOK
  <2>1. ASSUME NEW c \in Codes, StartTakedown(i, w, c) PROVE TypeOK'
    <3>1. [Idle EXCEPT !.pc = "purge", !.code = c] \in PollState
      BY DEF Idle, PollState
    <3> QED BY <2>1, <3>1, SetType DEF StartTakedown, TypeOK
  <2>2. CASE Purge(i, w)
    <3>1. poll' \in [Instances -> [Workers -> PollState]]
      <4>1. Set(i, w, [poll[i][w] EXCEPT !.pc = "publish"])
        BY <2>2, GotoIsSet DEF Purge
      <4>2. [poll[i][w] EXCEPT !.pc = "publish"] \in PollState
        BY <2>0 DEF PollState
      <4> QED BY <4>1, <4>2, SetType
    <3>2. cache' \in [Instances -> [Codes -> Nat \cup {Absent}]]
      BY <2>2, EvictType DEF Purge
    <3> QED BY <2>2, <3>1, <3>2 DEF Purge, TypeOK
  <2>3. CASE Publish(i, w)
    <3>1. poll[i][w].code \in Codes
      BY <2>3 DEF Publish, At, CodeInv
    <3>2. log' \in Seq(Codes) /\ Len(log') \in Nat
      BY <2>3, <3>1 DEF Publish, TypeOK
    <3>3. poll' \in [Instances -> [Workers -> PollState]]
      BY <2>0, <2>3, <3>2, SetType, PollStateType DEF Publish
    <3> QED BY <2>3, <3>2, <3>3 DEF Publish, TypeOK
  <2>4. CASE PublishFails(i, w)
    BY <2>4, SetType, IdleType DEF PublishFails, TypeOK
  <2>5. CASE Reply(i, w)
    BY <2>5, SetType, IdleType DEF Reply, TypeOK
  <2> QED BY <1>6, <2>1, <2>2, <2>3, <2>4, <2>5 DEF TakedownStep
<1>7. ASSUME NEW i \in Instances, NEW c \in Codes, NEW E \in SUBSET Codes, Put(i, c, E)
      PROVE  TypeOK'
  <2>1. Len(log) \in Nat
    BY DEF TypeOK
  <2>2. cache' \in [Instances -> [Codes -> Nat \cup {Absent}]]
    BY <1>7, <2>1 DEF Put, TypeOK
  <2> QED BY <1>7, <2>2 DEF Put, TypeOK
<1>8. ASSUME NEW i \in Instances, NEW D \in SUBSET Codes, Drop(i, D) PROVE TypeOK'
  BY <1>8 DEF Drop, TypeOK
<1>9. ASSUME NEW i \in Instances, Restart(i) PROVE TypeOK'
  <2>1. poll' \in [Instances -> [Workers -> PollState]]
    BY <1>9, IdleType DEF Restart, Reborn, TypeOK
  <2>2. [c \in Codes |-> Absent] \in [Codes -> Nat \cup {Absent}]
    OBVIOUS
  <2>3. cache' \in [Instances -> [Codes -> Nat \cup {Absent}]]
    BY <1>9, <2>2 DEF Restart, Reborn, TypeOK
  <2> QED BY <1>9, <2>1, <2>3 DEF Restart, Reborn, TypeOK
<1>10. CASE UNCHANGED vars
  BY <1>10 DEF vars, TypeOK
<1> QED
  BY <1>1, <1>2, <1>3, <1>4, <1>5, <1>6, <1>7, <1>8, <1>9, <1>10 DEF Next, PollStep

-----------------------------------------------------------------------------
LEMMA CodeSet ==
  ASSUME TypeOK, CodeInv, NEW i \in Instances, NEW w \in Workers, NEW s, Set(i, w, s),
         s.pc \in {"purge", "publish"} => s.code \in Codes
  PROVE  CodeInv'
<1> SUFFICES ASSUME NEW j \in Instances, NEW v \in Workers,
                    poll'[j][v].pc \in {"purge", "publish"}
             PROVE  poll'[j][v].code \in Codes
  BY DEF CodeInv
<1>1. CASE j = i /\ v = w
  BY <1>1 DEF Set, TypeOK
<1>2. CASE ~(j = i /\ v = w)
  BY <1>2 DEF Set, TypeOK, CodeInv
<1> QED
  BY <1>1, <1>2

LEMMA CodeNext == TypeOK /\ CodeInv /\ [Next]_vars => CodeInv'
<1> SUFFICES ASSUME TypeOK, CodeInv, [Next]_vars PROVE CodeInv'
  OBVIOUS
<1>1. ASSUME NEW i \in Instances, NEW w \in Workers, PollStep(i, w) PROVE CodeInv'
  <2> DEFINE p == poll[i][w]
  <2>0. p \in PollState
    BY DEF TypeOK
  <2>1. CASE ReadCursor(i, w)
    <3>1. Set(i, w, [p EXCEPT !.pc = "select", !.from = cursor[i]])
      BY <2>1 DEF ReadCursor
    <3> QED BY <2>0, <3>1, CodeSet DEF PollState
  <2>2. CASE SelectRows(i, w)
    <3> DEFINE s == IF p.from < Len(log)
                     THEN [p EXCEPT !.pc = "apply", !.next = p.from + 1, !.last = Len(log)]
                     ELSE Finished(i, w)
    <3>1. Set(i, w, s)
      BY <2>2 DEF SelectRows
    <3>2. s.pc \notin {"purge", "publish"}
      BY <2>0 DEF PollState, Finished, Idle
    <3> QED BY <3>1, <3>2, CodeSet
  <2>3. CASE SelectFails(i, w)
    BY <2>3, CodeSet DEF SelectFails, Idle
  <2>4. CASE ApplyRow(i, w)
    <3> DEFINE s == [p EXCEPT !.next = p.next + 1,
                              !.pc = IF p.next = p.last THEN "advance" ELSE "apply"]
    <3>1. Set(i, w, s)
      BY <2>4 DEF ApplyRow, NextRow
    <3>2. s.pc \notin {"purge", "publish"}
      BY <2>0 DEF PollState
    <3> QED BY <3>1, <3>2, CodeSet
  <2>5. CASE Advance(i, w)
    <3>1. Finished(i, w).pc \notin {"purge", "publish"}
      BY DEF Finished, Idle
    <3> QED BY <2>5, <3>1, CodeSet DEF Advance
  <2> QED BY <1>1, <2>1, <2>2, <2>3, <2>4, <2>5 DEF PollStep
<1>2. ASSUME NEW i \in Instances, NEW w \in Workers, TakedownStep(i, w) PROVE CodeInv'
  <2> DEFINE p == poll[i][w]
  <2>0. p \in PollState
    BY DEF TypeOK
  <2>1. ASSUME NEW c \in Codes, StartTakedown(i, w, c) PROVE CodeInv'
    BY <2>1, CodeSet DEF StartTakedown, Idle
  <2>2. CASE Purge(i, w)
    <3>1. Set(i, w, [p EXCEPT !.pc = "publish"])
      BY <2>2, GotoIsSet DEF Purge
    <3>2. p.code \in Codes
      BY <2>2 DEF Purge, At, CodeInv
    <3>3. [p EXCEPT !.pc = "publish"].code = p.code
      BY <2>0 DEF PollState
    <3> QED BY <3>1, <3>2, <3>3, CodeSet
  <2>3. CASE Publish(i, w)
    <3>1. Set(i, w, [p EXCEPT !.pc = "cursor", !.seq = Len(log')])
      BY <2>3 DEF Publish
    <3>2. [p EXCEPT !.pc = "cursor", !.seq = Len(log')].pc = "cursor"
      BY <2>0 DEF PollState
    <3> QED BY <3>1, <3>2, CodeSet
  <2>4. CASE PublishFails(i, w)
    BY <2>4, CodeSet DEF PublishFails, Idle
  <2>5. CASE Reply(i, w)
    BY <2>5, CodeSet DEF Reply, Idle
  <2> QED BY <1>2, <2>1, <2>2, <2>3, <2>4, <2>5 DEF TakedownStep
<1>3. ASSUME NEW i \in Instances, NEW E, (\E c \in Codes : Put(i, c, E)) \/ Drop(i, E)
      PROVE  CodeInv'
  BY <1>3 DEF Put, Drop, CodeInv
<1>4. ASSUME NEW i \in Instances, Restart(i) PROVE CodeInv'
  BY <1>4 DEF Restart, Reborn, CodeInv, TypeOK, Idle
<1>5. CASE UNCHANGED vars
  BY <1>5 DEF vars, CodeInv
<1> QED
  BY <1>1, <1>2, <1>3, <1>4, <1>5 DEF Next

-----------------------------------------------------------------------------
(* Rows are never changed or removed. *)
LogGrows ==
  /\ Len(log) <= Len(log')
  /\ \A k \in 1..Len(log) : log'[k] = log[k]

(* What a step may do to a cached copy: nothing, remove it, or replace it  *)
(* with one stamped with the length the log has now.                       *)
CopyStep(i, c) ==
  \/ cache'[i][c] = cache[i][c]
  \/ cache'[i][c] = Absent
  \/ cache'[i][c] = Len(log)

LEMMA LogStep == TypeOK /\ CodeInv /\ [Next]_vars => LogGrows
<1> SUFFICES ASSUME TypeOK, CodeInv, [Next]_vars PROVE LogGrows
  OBVIOUS
<1>1. CASE log' = log
  <2>1. Len(log) \in Nat
    BY DEF TypeOK
  <2> QED BY <1>1, <2>1 DEF LogGrows
<1>2. ASSUME NEW i \in Instances, NEW w \in Workers, Publish(i, w) PROVE LogGrows
  <2>1. log \in Seq(Codes) /\ poll[i][w].code \in Codes
    BY <1>2 DEF Publish, At, CodeInv, TypeOK
  <2>2. log' = Append(log, poll[i][w].code)
    BY <1>2 DEF Publish
  <2> QED BY <2>1, <2>2 DEF LogGrows
<1>3. log' = log \/ \E i \in Instances : \E w \in Workers : Publish(i, w)
  BY ZenonT(60) DEF Next, PollStep, TakedownStep, ReadCursor, SelectRows, SelectFails, ApplyRow, Advance,
         StartTakedown, Purge, PublishFails, Reply, Put, Drop, Restart, Reborn, vars
<1> QED
  BY <1>1, <1>2, <1>3

LEMMA CacheStep ==
  ASSUME TypeOK, CodeInv, [Next]_vars
  PROVE  \A i \in Instances : \A c \in Codes : CopyStep(i, c)
<1>1. CASE cache' = cache
  BY <1>1 DEF CopyStep
<1>2. ASSUME NEW i \in Instances, NEW d, Evict(i, d)
      PROVE  \A j \in Instances : \A c \in Codes : CopyStep(j, c)
  BY <1>2 DEF Evict, CopyStep, TypeOK
<1>3. ASSUME NEW i \in Instances, NEW d \in Codes, NEW E, Put(i, d, E)
      PROVE  \A j \in Instances : \A c \in Codes : CopyStep(j, c)
  BY <1>3 DEF Put, CopyStep, TypeOK
<1>4. ASSUME NEW i \in Instances, Restart(i)
      PROVE  \A j \in Instances : \A c \in Codes : CopyStep(j, c)
  BY <1>4 DEF Restart, Reborn, CopyStep, TypeOK
<1>5. \/ cache' = cache
      \/ \E i \in Instances : Restart(i) \/ \E d \in Codes : \E E \in SUBSET Codes : Put(i, d, E)
      \/ \E i \in Instances : \E w \in Workers : ApplyRow(i, w) \/ Purge(i, w)
      \/ \E i \in Instances : \E D \in SUBSET Codes : Drop(i, D)
  BY DEF Next, PollStep, TakedownStep, ReadCursor, SelectRows, SelectFails, Advance,
         StartTakedown, Publish, PublishFails, Reply, vars
<1>6. ASSUME NEW i \in Instances, NEW w \in Workers, ApplyRow(i, w) \/ Purge(i, w)
      PROVE  \A j \in Instances : \A c \in Codes : CopyStep(j, c)
  BY <1>2, <1>6 DEF ApplyRow, Purge
<1>7. ASSUME NEW i \in Instances, NEW D, Drop(i, D)
      PROVE  \A j \in Instances : \A c \in Codes : CopyStep(j, c)
  BY <1>7 DEF Drop, CopyStep, TypeOK
<1> QED
  BY <1>1, <1>3, <1>4, <1>5, <1>6, <1>7

(* A settled row stays settled. *)
LEMMA SettledStays ==
  ASSUME TypeOK, CodeInv, [Next]_vars,
         NEW i \in Instances, NEW k \in 1..Len(log), Settled(i, k)
  PROVE  Settled(i, k)' /\ k \in 1..Len(log')
<1>1. log[k] \in Codes /\ log'[k] = log[k] /\ Len(log) <= Len(log')
  BY LogStep DEF LogGrows, TypeOK
<1>2. CopyStep(i, log[k])
  BY <1>1, CacheStep
<1>3. Len(log) \in Nat /\ Len(log') \in Nat
  BY TypeNext DEF TypeOK
<1> QED
  BY <1>1, <1>2, <1>3 DEF Settled, CopyStep, Absent

LEMMA SettledUpToStays ==
  ASSUME TypeOK, CodeInv, [Next]_vars,
         NEW i \in Instances, NEW n, SettledUpTo(i, n)
  PROVE  SettledUpTo(i, n)'
<1>1. Len(log) \in Nat /\ Len(log') \in Nat /\ Len(log) <= Len(log')
  BY LogStep, TypeNext DEF LogGrows, TypeOK
<1>2. n \in 0..Len(log')
  BY <1>1 DEF SettledUpTo
<1>3. ASSUME NEW k \in 1..n PROVE Settled(i, k)'
  <2>1. k \in 1..Len(log) /\ Settled(i, k)
    BY <1>1 DEF SettledUpTo
  <2> QED BY <2>1, SettledStays
<1> QED
  BY <1>2, <1>3 DEF SettledUpTo

-----------------------------------------------------------------------------
(* What a thread is sure of, every step of the system leaves true. *)
LEMMA ThreadInvStays ==
  ASSUME TypeOK, CodeInv, [Next]_vars,
         NEW j \in Instances, NEW v \in Workers, NEW p \in PollState, ThreadInv(j, v, p)
  PROVE  ThreadInv(j, v, p)'
<1>1. Len(log) \in Nat /\ Len(log') \in Nat /\ Len(log) <= Len(log')
  BY LogStep, TypeNext DEF LogGrows, TypeOK
<1>2. p.from \in Nat /\ p.next \in Nat /\ p.last \in Nat /\ p.seq \in Nat
  BY PollFieldTypes
<1>3. p.pc = "select" => SettledUpTo(j, p.from)'
  BY SettledUpToStays DEF ThreadInv
<1>4. p.pc = "apply" => SettledUpTo(j, p.next - 1)'
  BY SettledUpToStays DEF ThreadInv
<1>5. p.pc = "advance" => SettledUpTo(j, p.last)'
  BY SettledUpToStays DEF ThreadInv
<1>6. (v # Poller /\ p.pc = "reply") => Settled(j, p.seq)'
  BY SettledStays DEF ThreadInv
<1>7. p.seq \in 1..Len(log) => p.seq \in 1..Len(log')
  BY <1>1, <1>2
<1>8. p.last <= Len(log) => p.last <= Len(log')
  BY <1>1, <1>2
<1> QED
  BY <1>3, <1>4, <1>5, <1>6, <1>7, <1>8 DEF ThreadInv

(* One thread moves to s: it owes its own clause, the others keep theirs. *)
LEMMA ThreadMoves ==
  ASSUME TypeOK, CodeInv, PollInv, [Next]_vars,
         NEW i \in Instances, NEW w \in Workers, NEW s \in PollState, Set(i, w, s),
         ThreadInv(i, w, s)'
  PROVE  PollInv'
<1> SUFFICES ASSUME NEW j \in Instances, NEW v \in Workers
             PROVE  ThreadInv(j, v, poll[j][v])'
  BY DEF PollInv
<1>1. CASE j = i /\ v = w
  <2>1. poll'[j][v] = s
    BY <1>1, SetType
  <2> QED BY <1>1, <2>1 DEF ThreadInv, SettledUpTo, Settled
<1>2. CASE ~(j = i /\ v = w)
  <2>1. poll'[j][v] = poll[j][v]
    BY <1>2, SetType
  <2>2. poll[j][v] \in PollState /\ ThreadInv(j, v, poll[j][v])
    BY DEF TypeOK, PollInv
  <2> DEFINE p == poll[j][v]
  <2>3. ASSUME NEW q, q = p PROVE ThreadInv(j, v, q)'
    BY <2>2, <2>3, ThreadInvStays
  <2> QED BY <2>1, <2>3 DEF ThreadInv, SettledUpTo, Settled
<1> QED
  BY <1>1, <1>2

LEMMA NoThreadMoves ==
  ASSUME TypeOK, CodeInv, PollInv, [Next]_vars, UNCHANGED poll
  PROVE  PollInv'
<1> SUFFICES ASSUME NEW j \in Instances, NEW v \in Workers
             PROVE  ThreadInv(j, v, poll[j][v])'
  BY DEF PollInv
<1>1. poll[j][v] \in PollState /\ ThreadInv(j, v, poll[j][v])
  BY DEF TypeOK, PollInv
<1>2. ASSUME NEW q, q = poll[j][v] PROVE ThreadInv(j, v, q)'
  BY <1>1, <1>2, ThreadInvStays
<1> QED
  BY <1>2 DEF ThreadInv, SettledUpTo, Settled

-----------------------------------------------------------------------------
LEMMA InitIInv == Init => IInv
<1> SUFFICES ASSUME Init PROVE IInv
  OBVIOUS
<1>1. TypeOK
  BY TypeInit
<1>2. CodeInv
  BY DEF Init, CodeInv, Idle
<1>3. CursorInv
  <2>1. \A i \in Instances : SettledUpTo(i, 0)
    <3>1. Len(log) \in Nat
      BY <1>1 DEF TypeOK
    <3>2. 0 \in 0..Len(log) /\ 1..0 = {}
      BY <3>1
    <3> QED BY <3>2 DEF SettledUpTo
  <2> QED BY <2>1 DEF Init, CursorInv
<1>4. PollInv
  BY DEF Init, PollInv, ThreadInv, Idle
<1> QED
  BY <1>1, <1>2, <1>3, <1>4 DEF IInv

LEMMA CursorNext == IInv /\ [Next]_vars => CursorInv'
<1> SUFFICES ASSUME IInv, [Next]_vars, NEW j \in Instances
             PROVE  SettledUpTo(j, cursor[j])'
  BY DEF CursorInv
<1> USE DEF IInv
<1>1. ASSUME NEW n, cursor'[j] = n, SettledUpTo(j, n) PROVE SettledUpTo(j, cursor[j])'
  <2>1. SettledUpTo(j, n)'
    BY <1>1, SettledUpToStays
  <2> QED BY <1>1, <2>1 DEF SettledUpTo, Settled
<1>2. CASE cursor'[j] = cursor[j]
  BY <1>1, <1>2 DEF CursorInv
<1>3. ASSUME NEW w \in Workers, Advance(j, w) PROVE SettledUpTo(j, cursor[j])'
  <2>1. SettledUpTo(j, poll[j][w].last)
    BY <1>3 DEF Advance, At, PollInv, ThreadInv
  <2>2. cursor'[j] = poll[j][w].last
    BY <1>3 DEF Advance, TypeOK
  <2> QED BY <1>1, <2>1, <2>2
<1>4. CASE Restart(j)
  <2>1. cursor'[j] = 0
    BY <1>4 DEF Restart, Reborn, TypeOK
  <2>2. SettledUpTo(j, 0)
    BY DEF SettledUpTo, TypeOK
  <2> QED BY <1>1, <2>1, <2>2
<1>5. \/ cursor'[j] = cursor[j]
      \/ \E w \in Workers : Advance(j, w)
      \/ Restart(j)
  <2>1. ASSUME NEW i \in Instances, i # j, NEW w \in Workers, Advance(i, w)
        PROVE  cursor'[j] = cursor[j]
    BY <2>1 DEF Advance, TypeOK
  <2>2. ASSUME NEW i \in Instances, i # j, Restart(i) PROVE cursor'[j] = cursor[j]
    BY <2>2 DEF Restart, Reborn, TypeOK
  <2>3. \/ cursor' = cursor
        \/ \E i \in Instances : Restart(i) \/ \E w \in Workers : Advance(i, w)
    BY DEF Next, PollStep, TakedownStep, ReadCursor, SelectRows, SelectFails, ApplyRow,
           StartTakedown, Purge, Publish, PublishFails, Reply, Put, Drop, vars
  <2> QED BY <2>1, <2>2, <2>3
<1> QED
  BY <1>2, <1>3, <1>4, <1>5

LEMMA PollStepInv ==
  ASSUME IInv, [Next]_vars, NEW i \in Instances, NEW w \in Workers, PollStep(i, w)
  PROVE  PollInv'
<1> USE DEF IInv
<1> DEFINE p == poll[i][w]
<1>0. p \in PollState /\ ThreadInv(i, w, p) /\ Len(log) \in Nat /\ cursor[i] \in Nat
  BY DEF TypeOK, PollInv
<1>f. p.from \in Nat /\ p.next \in Nat /\ p.last \in Nat /\ p.seq \in Nat
  BY <1>0, PollFieldTypes
<1>1. CASE ReadCursor(i, w)
  <2> DEFINE s == [p EXCEPT !.pc = "select", !.from = cursor[i]]
  <2>1. Set(i, w, s)
    BY <1>1 DEF ReadCursor
  <2>2. s \in PollState
    BY <1>0, PollStateType
  <2>3. ThreadInv(i, w, s)
    <3>1. s.pc = "select" /\ s.from = cursor[i] /\ s.seq = p.seq
      BY <1>0 DEF PollState
    <3>2. w # Poller => p.seq \in 1..Len(log)
      BY <1>0, <1>1 DEF ReadCursor, At, ThreadInv
    <3> HIDE DEF s
    <3> QED BY <3>1, <3>2 DEF ThreadInv, CursorInv
  <2> HIDE DEF s
  <2> QED BY <2>1, <2>2, <2>3, ThreadInvStays, ThreadMoves
<1>2. CASE SelectRows(i, w) /\ p.from < Len(log)
  <2> DEFINE s == [p EXCEPT !.pc = "apply", !.next = p.from + 1, !.last = Len(log)]
  <2>1. Set(i, w, s)
    BY <1>2 DEF SelectRows
  <2>2. s \in PollState
    <3>1. p.from + 1 \in Nat
      BY <1>f
    <3> HIDE DEF p
    <3> QED BY <1>0, <3>1, PollStateType
  <2>3. ThreadInv(i, w, s)
    <3>1. s.pc = "apply" /\ s.next = p.from + 1 /\ s.last = Len(log) /\ s.seq = p.seq
      BY <1>0 DEF PollState
    <3>2. p.pc = "select"
      BY <1>2 DEF SelectRows, At
    <3>3. SettledUpTo(i, p.from) /\ (w # Poller => p.seq \in 1..Len(log))
      BY <1>0, <3>2 DEF ThreadInv
    <3>4. s.next - 1 = p.from
      BY <1>f, <3>1
    <3> HIDE DEF s
    <3> QED BY <1>0, <1>2, <1>f, <3>1, <3>3, <3>4 DEF ThreadInv
  <2> HIDE DEF s
  <2> QED BY <2>1, <2>2, <2>3, ThreadInvStays, ThreadMoves
<1>3. CASE SelectRows(i, w) /\ ~(p.from < Len(log))
  <2>1. Set(i, w, Finished(i, w))
    BY <1>3 DEF SelectRows
  <2>2. Finished(i, w) \in PollState
    BY FinishedType
  <2>3. p.pc = "select"
    BY <1>3 DEF SelectRows, At
  <2>4. ThreadInv(i, w, Finished(i, w))
    <3>1. SettledUpTo(i, p.from) /\ (w # Poller => p.seq \in 1..Len(log))
      BY <1>0, <2>3 DEF ThreadInv
    <3>2. w # Poller => Settled(i, p.seq)
      BY <1>0, <1>3, <1>f, <3>1 DEF SettledUpTo
    <3> QED BY <3>1, <3>2 DEF ThreadInv, Finished, Idle
  <2> QED BY <2>1, <2>2, <2>4, ThreadInvStays, ThreadMoves
<1>4. CASE SelectFails(i, w)
  <2>1. Set(i, w, Idle) /\ Idle \in PollState /\ ThreadInv(i, w, Idle)
    BY <1>4, IdleType DEF SelectFails, ThreadInv, Idle
  <2> QED BY <2>1, ThreadInvStays, ThreadMoves
<1>5. CASE ApplyRow(i, w)
  <2> DEFINE s == [p EXCEPT !.next = p.next + 1,
                            !.pc = IF p.next = p.last THEN "advance" ELSE "apply"]
  <2>1. Set(i, w, s)
    BY <1>5 DEF ApplyRow, NextRow
  <2>2. s \in PollState
    <3>1. p.next + 1 \in Nat
      BY <1>f
    <3> HIDE DEF p
    <3> QED BY <1>0, <3>1, PollStateType
  <2>3. s.pc = (IF p.next = p.last THEN "advance" ELSE "apply")
        /\ s.next = p.next + 1 /\ s.last = p.last /\ s.seq = p.seq
    BY <1>0 DEF PollState
  <2>4. /\ SettledUpTo(i, p.next - 1) /\ p.next <= p.last /\ p.last <= Len(log)
        /\ w # Poller => p.seq \in 1..Len(log) /\ p.seq <= p.last
    BY <1>0, <1>5 DEF ApplyRow, NextRow, At, ThreadInv
  <2>5. p.next \in 1..Len(log)
    BY <1>0, <1>f, <2>4 DEF SettledUpTo
  <2>6. log' = log /\ log[p.next] \in Codes /\ cache'[i][log[p.next]] = Absent
    BY <1>5, <2>5 DEF ApplyRow, Evict, TypeOK
  <2>7. ASSUME NEW n, n = p.next PROVE SettledUpTo(i, n)'
    <3>1. SettledUpTo(i, n - 1)'
      BY <2>4, <2>7, SettledUpToStays
    <3>2. Settled(i, n)'
      BY <2>6, <2>7 DEF Settled
    <3>3. n \in 0..Len(log')
      BY <1>0, <2>5, <2>6, <2>7
    <3>4. \A k \in 1..n : k \in 1..(n - 1) \/ k = n
      BY <1>f, <2>7
    <3> QED BY <3>1, <3>2, <3>3, <3>4 DEF SettledUpTo
  <2>8. ASSUME NEW q \in PollState, q = s PROVE ThreadInv(i, w, q)'
    <3>1. /\ q.pc = (IF p.next = p.last THEN "advance" ELSE "apply")
          /\ q.next - 1 = p.next /\ q.last = p.last /\ q.seq = p.seq
      BY <1>f, <2>3, <2>8
    <3>2. SettledUpTo(i, q.next - 1)'
      BY <2>7, <3>1
    <3>3. q.pc = "advance" => SettledUpTo(i, q.last)'
      BY <2>7, <3>1
    <3>4. q.pc = "apply" => q.next <= q.last /\ q.last <= Len(log')
      BY <1>f, <2>3, <2>4, <2>6, <2>8, <3>1
    <3>5. w # Poller => q.seq \in 1..Len(log') /\ q.seq <= q.last
      BY <2>4, <2>6, <3>1
    <3>6. q.pc \in {"advance", "apply"}
      BY <3>1
    <3> QED BY <3>2, <3>3, <3>4, <3>5, <3>6 DEF ThreadInv
  <2> HIDE DEF s
  <2> QED BY <2>1, <2>2, <2>8, ThreadMoves
<1>6. CASE Advance(i, w)
  <2>1. Set(i, w, Finished(i, w))
    BY <1>6 DEF Advance
  <2>2. Finished(i, w) \in PollState
    BY FinishedType
  <2>3. ThreadInv(i, w, Finished(i, w))
    <3>1. /\ SettledUpTo(i, p.last)
          /\ w # Poller => p.seq \in 1..Len(log) /\ p.seq <= p.last
      BY <1>0, <1>6 DEF Advance, At, ThreadInv
    <3>2. w # Poller => Settled(i, p.seq)
      BY <1>0, <1>f, <3>1 DEF SettledUpTo
    <3> QED BY <3>1, <3>2 DEF ThreadInv, Finished, Idle
  <2> QED BY <2>1, <2>2, <2>3, ThreadInvStays, ThreadMoves
<1> QED
  BY <1>1, <1>2, <1>3, <1>4, <1>5, <1>6 DEF PollStep

LEMMA TakedownStepInv ==
  ASSUME IInv, [Next]_vars, NEW i \in Instances, NEW w \in Workers, TakedownStep(i, w)
  PROVE  PollInv'
<1> USE DEF IInv
<1> DEFINE p == poll[i][w]
<1>0. p \in PollState /\ ThreadInv(i, w, p) /\ Len(log) \in Nat
  BY DEF TypeOK, PollInv
<1>1. ASSUME NEW c \in Codes, StartTakedown(i, w, c) PROVE PollInv'
  <2> DEFINE s == [Idle EXCEPT !.pc = "purge", !.code = c]
  <2>1. Set(i, w, s) /\ s \in PollState /\ ThreadInv(i, w, s)
    BY <1>1 DEF StartTakedown, ThreadInv, Idle, PollState
  <2> HIDE DEF s
  <2> QED BY <2>1, ThreadInvStays, ThreadMoves
<1>2. CASE Purge(i, w)
  <2> DEFINE s == [p EXCEPT !.pc = "publish"]
  <2>1. Set(i, w, s)
    BY <1>2, GotoIsSet DEF Purge
  <2>2. s \in PollState /\ ThreadInv(i, w, s)
    BY <1>0 DEF PollState, ThreadInv
  <2> HIDE DEF s
  <2> QED BY <2>1, <2>2, ThreadInvStays, ThreadMoves
<1>3. CASE Publish(i, w)
  <2> DEFINE s == [p EXCEPT !.pc = "cursor", !.seq = Len(log')]
  <2>1. Set(i, w, s)
    BY <1>3 DEF Publish
  <2>2. Len(log') \in Nat /\ Len(log') = Len(log) + 1
    <3>1. p.code \in Codes /\ log \in Seq(Codes)
      BY <1>3 DEF Publish, At, CodeInv, TypeOK
    <3> QED BY <1>3, <3>1 DEF Publish
  <2>3. s \in PollState /\ s.pc = "cursor" /\ s.seq = Len(log')
    BY <1>0, <2>2 DEF PollState
  <2>4. ASSUME NEW q \in PollState, q = s PROVE ThreadInv(i, w, q)'
    <3>1. q.pc = "cursor" /\ q.seq \in 1..Len(log')
      BY <1>0, <2>2, <2>3, <2>4
    <3> QED BY <3>1 DEF ThreadInv
  <2> HIDE DEF s
  <2> QED BY <2>1, <2>3, <2>4, ThreadMoves
<1>4. CASE PublishFails(i, w) \/ Reply(i, w)
  <2>1. Set(i, w, Idle) /\ Idle \in PollState /\ ThreadInv(i, w, Idle)
    BY <1>4, IdleType DEF PublishFails, Reply, ThreadInv, Idle
  <2> QED BY <2>1, ThreadInvStays, ThreadMoves
<1> QED
  BY <1>1, <1>2, <1>3, <1>4 DEF TakedownStep

LEMMA RestartInv ==
  ASSUME IInv, [Next]_vars, NEW i \in Instances, Restart(i)
  PROVE  PollInv'
<1> SUFFICES ASSUME NEW j \in Instances, NEW v \in Workers
             PROVE  ThreadInv(j, v, poll[j][v])'
  BY DEF PollInv
<1> USE DEF IInv
<1>1. CASE j = i
  <2>1. poll'[j][v] = Idle
    BY <1>1 DEF Restart, Reborn, TypeOK
  <2> QED BY <2>1 DEF ThreadInv, Idle
<1>2. CASE j # i
  <2>1. poll'[j][v] = poll[j][v]
    BY <1>2 DEF Restart, Reborn, TypeOK
  <2>2. poll[j][v] \in PollState /\ ThreadInv(j, v, poll[j][v])
    BY DEF TypeOK, PollInv
  <2>3. ASSUME NEW q, q = poll[j][v] PROVE ThreadInv(j, v, q)'
    BY <2>2, <2>3, ThreadInvStays
  <2> QED BY <2>1, <2>3 DEF ThreadInv, SettledUpTo, Settled
<1> QED
  BY <1>1, <1>2

LEMMA NextIInv == IInv /\ [Next]_vars => IInv'
<1> SUFFICES ASSUME IInv, [Next]_vars PROVE IInv'
  OBVIOUS
<1>1. TypeOK' /\ CodeInv' /\ CursorInv'
  BY TypeNext, CodeNext, CursorNext DEF IInv
<1>2. ASSUME NEW i \in Instances, NEW w \in Workers, PollStep(i, w) \/ TakedownStep(i, w)
      PROVE  PollInv'
  BY <1>2, PollStepInv, TakedownStepInv
<1>3. ASSUME NEW i \in Instances, NEW E, (\E c \in Codes : Put(i, c, E)) \/ Drop(i, E)
      PROVE  PollInv'
  BY <1>3, NoThreadMoves DEF IInv, Put, Drop
<1>4. ASSUME NEW i \in Instances, Restart(i) PROVE PollInv'
  BY <1>4, RestartInv
<1>5. ASSUME UNCHANGED vars PROVE PollInv'
  BY <1>5, NoThreadMoves DEF IInv, vars
<1>6. PollInv'
  BY <1>2, <1>3, <1>4, <1>5 DEF Next
<1> QED
  BY <1>1, <1>6 DEF IInv

LEMMA Invariance == Spec => []IInv
  BY InitIInv, NextIInv, PTL DEF Spec

-----------------------------------------------------------------------------
(* Every reachable state is well typed, for every set of instances, threads*)
(* and codes and every bound.                                              *)
THEOREM TypeCorrect == Spec => []TypeOK
<1>1. IInv => TypeOK
  BY DEF IInv
<1> QED
  BY <1>1, Invariance, PTL

(* However many instances, pollers and takedown handlers run at once: an   *)
(* instance whose cursor has passed a row holds no copy of that code that  *)
(* it cached before the row was published (SqliteInvalidationBus.poll).    *)
THEOREM CursorKeepsItsPromise == Spec => []NoStaleCopyBehindCursor
<1>1. IInv => NoStaleCopyBehindCursor
  BY DEF IInv, TypeOK, CursorInv, SettledUpTo, NoStaleCopyBehindCursor
<1> QED
  BY <1>1, Invariance, PTL

(* A takedown handler that answers has settled its own row on its own      *)
(* instance, even when the poller thread took the row before it did        *)
(* (InvalidationPoller.drain_now).                                         *)
THEOREM DrainSettlesOwnRow == Spec => []OwnRowSettledOnReply
<1>1. IInv => OwnRowSettledOnReply
  <2> SUFFICES ASSUME IInv, NEW i \in Instances, NEW w \in Admins, At(i, w, "reply")
               PROVE  poll[i][w].seq \in DOMAIN log /\ Settled(i, poll[i][w].seq)
    BY DEF OwnRowSettledOnReply
  <2>1. w \in Workers /\ w # Poller
    BY PollerAssumption DEF Workers
  <2>2. ThreadInv(i, w, poll[i][w]) /\ DOMAIN log = 1..Len(log)
    BY <2>1 DEF IInv, PollInv, TypeOK
  <2> QED BY <2>1, <2>2 DEF ThreadInv, At
<1> QED
  BY <1>1, Invariance, PTL
=============================================================================
