--------------------------- MODULE Creation_proofs ---------------------------
(***************************************************************************)
(* Theorems about LinkStore and about Creation, which extends it, for any  *)
(* number of connections, codes, attempts, processes and clocks.           *)
(*                                                                         *)
(* What those about the store rest on is in Transactions: a transaction    *)
(* that has added a row has the lock and adds no row that is committed,    *)
(* and one that is open without the lock began with a failed write.  They  *)
(* hold of Creation because each of its steps is one of the store, and one *)
(* of the generators (CreateIsALinkStore, CreateIsGenerators).  What is    *)
(* true of both together is in FreshCodes: as long as no code may come     *)
(* twice, one in hand is nowhere else.                                     *)
(***************************************************************************)
EXTENDS Creation, Snowflake_proofs, TLAPS

USE AttemptsAssumption

(* TypeOK, in two parts. *)
Types ==
  /\ links \subseteq Codes
  /\ conn \in [Threads -> Connections]
  /\ pc \in [Threads -> PCs]
  /\ attempts \in [Threads -> 0..MaxAttempts]
  /\ returned \in [Codes -> Nat]
  /\ last \in [Threads -> {"ok", "locked", "gave up"}]

AttemptsLeft == \A t \in Threads : pc[t] = "create" => attempts[t] < MaxAttempts

LockIsExclusive ==
  \A t, u \in Threads : conn[t].tx = "writing" /\ conn[u].tx = "writing" => t = u

Transactions ==
  \A t \in Threads :
    /\ pc[t] = "commit" => conn[t].tx = "writing"
    /\ conn[t].tx # "writing" => conn[t].added = {}
    /\ conn[t].added \cap links = {}
    /\ conn[t].tx \in {"begun", "newest", "old"} => last[t] = "locked"

IInv ==
  /\ Types
  /\ AttemptsLeft
  /\ LockIsExclusive
  /\ Transactions
  /\ CodeHasOneOwner
  /\ LockLeftOnlyByGivingUp

-----------------------------------------------------------------------------
LEMMA InitIInv == Init => IInv
BY DEF Init, IInv, Types, AttemptsLeft, LockIsExclusive, Transactions,
       CodeHasOneOwner, LockLeftOnlyByGivingUp, Closed, Connections, Stages, PCs

LEMMA NextTypes == IInv /\ [Next]_vars => Types'
<1> SUFFICES ASSUME IInv, [Next]_vars
             PROVE  Types'
  OBVIOUS
<1>0. /\ links \subseteq Codes /\ returned \in [Codes -> Nat]
      /\ conn \in [Threads -> Connections]
      /\ pc \in [Threads -> PCs]
      /\ attempts \in [Threads -> 0..MaxAttempts]
      /\ last \in [Threads -> {"ok", "locked", "gave up"}]
  BY DEF IInv, Types
<1>1. ASSUME NEW t \in Threads, StartCreate(t)
      PROVE  Types'
  <2>1. attempts' \in [Threads -> 0..MaxAttempts]
    <3>1. 0 \in 0..MaxAttempts
      OBVIOUS
    <3>2. attempts' = [attempts EXCEPT ![t] = 0]
      BY <1>1 DEF StartCreate
    <3> QED BY <1>0, <3>1, <3>2
  <2>2. pc' \in [Threads -> PCs]
    BY <1>0, <1>1 DEF StartCreate, PCs
  <2> QED BY <1>0, <1>1, <2>1, <2>2 DEF StartCreate, Types
<1>2. ASSUME NEW t \in Threads, NEW c \in Codes, Insert(t, c)
      PROVE  Types'
  <2>1. conn' \in [Threads -> Connections]
    BY <1>0, <1>2 DEF Insert, Writing, Connections, Stages
  <2>2. pc' \in [Threads -> PCs]
    BY <1>0, <1>2 DEF Insert, PCs
  <2> QED BY <1>0, <1>2, <2>1, <2>2 DEF Insert, Types
<1>3. ASSUME NEW t \in Threads, NEW c \in Codes, InsertTaken(t, c)
      PROVE  Types'
  <2>1. attempts[t] < MaxAttempts
    BY <1>3 DEF InsertTaken, IInv, AttemptsLeft
  <2>2. attempts[t] + 1 \in 0..MaxAttempts
    <3>1. attempts[t] \in 0..MaxAttempts
      BY <1>0
    <3> QED BY <2>1, <3>1
  <2>3. attempts' \in [Threads -> 0..MaxAttempts]
    BY <1>0, <1>3, <2>2 DEF InsertTaken
  <2>4. conn' \in [Threads -> Connections]
    BY <1>0, <1>3 DEF InsertTaken, Writing, Connections, Stages
  <2>5. pc' \in [Threads -> PCs]
    BY <1>0, <1>3 DEF InsertTaken, PCs
  <2>6. last' \in [Threads -> {"ok", "locked", "gave up"}]
    BY <1>0, <1>3 DEF InsertTaken
  <2> QED BY <1>0, <1>3, <2>3, <2>4, <2>5, <2>6 DEF InsertTaken, Types
<1>4. ASSUME NEW t \in Threads, StartFlush(t)
      PROVE  Types'
  BY <1>0, <1>4 DEF StartFlush, Types, PCs
<1>5. ASSUME NEW t \in Threads, Upsert(t)
      PROVE  Types'
  <2>1. conn' \in [Threads -> Connections]
    BY <1>0, <1>5 DEF Upsert, Writing, Connections, Stages
  <2>2. pc' \in [Threads -> PCs]
    BY <1>0, <1>5 DEF Upsert, PCs
  <2> QED BY <1>0, <1>5, <2>1, <2>2 DEF Upsert, Types
<1>6. ASSUME NEW t \in Threads, Locked(t)
      PROVE  Types'
  <2>1. conn' \in [Threads -> Connections]
    BY <1>0, <1>6, ZenonT(60) DEF Locked, Connections, Stages
  <2>2. pc' \in [Threads -> PCs]
    BY <1>0, <1>6 DEF Locked, PCs
  <2>3. last' \in [Threads -> {"ok", "locked", "gave up"}]
    BY <1>0, <1>6 DEF Locked
  <2> QED BY <1>0, <1>6, <2>1, <2>2, <2>3 DEF Locked, Types
<1>7. ASSUME NEW t \in Threads, Commit(t)
      PROVE  Types'
  <2>1. \A u \in Threads : conn[u] \in Connections
    BY <1>0
  <2>2. conn' \in [Threads -> Connections]
    BY <1>0, <1>7, <2>1 DEF Commit, Closed, Connections, Stages
  <2>3. conn[t].added \subseteq Codes
    BY <2>1 DEF Connections
  <2>4. links' \subseteq Codes
    BY <1>0, <1>7, <2>3 DEF Commit
  <2>5. returned' \in [Codes -> Nat]
    <3>1. returned \in [Codes -> Nat]
      BY <1>0
    <3>2. returned' = [c \in Codes |->
            IF c \in conn[t].added THEN returned[c] + 1 ELSE returned[c]]
      BY <1>7 DEF Commit
    <3>3. \A c \in Codes : returned[c] + 1 \in Nat
      BY <3>1
    <3> QED BY <3>1, <3>2, <3>3
  <2>6. pc' \in [Threads -> PCs]
    BY <1>0, <1>7 DEF Commit, PCs
  <2>7. last' \in [Threads -> {"ok", "locked", "gave up"}]
    BY <1>0, <1>7 DEF Commit
  <2> QED BY <1>0, <1>7, <2>2, <2>4, <2>5, <2>6, <2>7 DEF Commit, Types
<1>8. ASSUME NEW t \in Threads, Get(t)
      PROVE  Types'
  BY <1>0, <1>8 DEF Get, Types, Connections, Stages
<1>9. ASSUME NEW ts \in SUBSET Threads, Close(ts)
      PROVE  Types'
  <2>1. conn' \in [Threads -> Connections]
    BY <1>0, <1>9 DEF Close, Closed, Connections, Stages
  <2>2. pc' \in [Threads -> PCs]
    BY <1>0, <1>9 DEF Close, PCs
  <2>3. last' \in [Threads -> {"ok", "locked", "gave up"}]
    BY <1>0, <1>9 DEF Close
  <2> QED BY <1>0, <1>9, <2>1, <2>2, <2>3 DEF Close, Types
<1>10. ASSUME NEW t \in Threads, NextCodeFails(t)
       PROVE  Types'
  <2>1. pc' \in [Threads -> PCs]
    BY <1>0, <1>10 DEF NextCodeFails, PCs
  <2>2. last' \in [Threads -> {"ok", "locked", "gave up"}]
    BY <1>0, <1>10 DEF NextCodeFails
  <2> QED BY <1>0, <1>10, <2>1, <2>2 DEF NextCodeFails, Types
<1>11. CASE UNCHANGED vars
  BY <1>0, <1>11 DEF vars, Types
<1> QED BY <1>1, <1>2, <1>3, <1>4, <1>5, <1>6, <1>7, <1>8, <1>9, <1>10, <1>11 DEF Next, NextCodes

LEMMA NextLock == IInv /\ [Next]_vars => LockIsExclusive'
<1> SUFFICES ASSUME IInv, [Next]_vars
             PROVE  LockIsExclusive'
  OBVIOUS
<1> USE DEF IInv, LockIsExclusive
<1>1. ASSUME NEW t \in Threads, MayWrite(t), \A u \in Threads \ {t} : conn'[u] = conn[u]
      PROVE  LockIsExclusive'
  BY <1>1 DEF MayWrite
<1>2. ASSUME \A u \in Threads : conn'[u].tx = "writing" => conn[u].tx = "writing"
      PROVE  LockIsExclusive'
  BY <1>2
<1>3. ASSUME NEW t \in Threads, NEW c \in Codes, Insert(t, c) \/ InsertTaken(t, c)
      PROVE  LockIsExclusive'
  BY <1>1, <1>3 DEF Insert, InsertTaken, Types
<1>4. ASSUME NEW t \in Threads, Upsert(t)
      PROVE  LockIsExclusive'
  BY <1>1, <1>4 DEF Upsert, Types
<1>5. ASSUME NEW t \in Threads, Locked(t) \/ Commit(t) \/ Get(t)
      PROVE  LockIsExclusive'
  <2>1. \A u \in Threads : conn'[u].tx = "writing" => conn[u].tx = "writing"
    <3>1. CASE Locked(t)
      BY <3>1 DEF Locked, Types, Connections
    <3>2. CASE Commit(t)
      BY <3>2 DEF Commit, Closed
    <3>3. CASE Get(t)
      BY <3>3 DEF Get, Types, Connections
    <3> QED BY <1>5, <3>1, <3>2, <3>3
  <2> QED BY <1>2, <2>1
<1>6. ASSUME NEW ts \in SUBSET Threads, Close(ts)
      PROVE  LockIsExclusive'
  BY <1>2, <1>6 DEF Close, Closed
<1>7. CASE UNCHANGED conn
  BY <1>7
<1> QED BY <1>3, <1>4, <1>5, <1>6, <1>7 DEF Next, NextCodes, vars, StartCreate, StartFlush, NextCodeFails

LEMMA NextAttempts == IInv /\ [Next]_vars => AttemptsLeft'
<1> SUFFICES ASSUME IInv, [Next]_vars, NEW u \in Threads, pc'[u] = "create"
             PROVE  attempts'[u] < MaxAttempts
  BY DEF AttemptsLeft
<1>0. pc \in [Threads -> PCs] /\ attempts \in [Threads -> 0..MaxAttempts]
  BY DEF IInv, Types
<1>1. CASE pc[u] = "create" /\ attempts'[u] = attempts[u]
  BY <1>1 DEF IInv, AttemptsLeft
<1>2. ASSUME NEW t \in Threads, StartCreate(t)
      PROVE  attempts'[u] < MaxAttempts
  <2>1. CASE t = u
    BY <1>0, <1>2, <2>1 DEF StartCreate
  <2>2. CASE t # u
    BY <1>0, <1>1, <1>2, <2>2 DEF StartCreate
  <2> QED BY <2>1, <2>2
<1>3. ASSUME NEW t \in Threads, NEW c \in Codes, InsertTaken(t, c)
      PROVE  attempts'[u] < MaxAttempts
  <2>1. CASE t = u
    BY <1>0, <1>3, <2>1 DEF InsertTaken
  <2>2. CASE t # u
    BY <1>0, <1>1, <1>3, <2>2 DEF InsertTaken
  <2> QED BY <2>1, <2>2
<1>4. ASSUME UNCHANGED attempts, \A t \in Threads : pc'[t] # "create" \/ pc'[t] = pc[t]
      PROVE  attempts'[u] < MaxAttempts
  BY <1>1, <1>4
<1>5. ASSUME NEW t \in Threads, NEW s \in PCs \ {"create"},
             pc' = [pc EXCEPT ![t] = s], UNCHANGED attempts
      PROVE  attempts'[u] < MaxAttempts
  BY <1>0, <1>4, <1>5
<1>6. ASSUME NEW ts \in SUBSET Threads, Close(ts)
      PROVE  attempts'[u] < MaxAttempts
  BY <1>4, <1>6 DEF Close
<1> QED
  BY <1>2, <1>3, <1>4, <1>5, <1>6
  DEF Next, NextCodes, vars, Insert, StartFlush, Upsert, Locked, Commit, Get, NextCodeFails, PCs

LEMMA NextTransactions == IInv /\ [Next]_vars => Transactions'
<1> SUFFICES ASSUME IInv, [Next]_vars
             PROVE  Transactions'
  OBVIOUS
<1>0. /\ conn \in [Threads -> Connections]
      /\ pc \in [Threads -> PCs]
      /\ last \in [Threads -> {"ok", "locked", "gave up"}]
  BY DEF IInv, Types
<1>1. Transactions
  BY DEF IInv
<1>2. ASSUME NEW t \in Threads, NEW rows \in SUBSET Codes, rows \cap links = {},
             conn' = [conn EXCEPT ![t] = Writing(rows)], UNCHANGED links,
             \A u \in Threads \ {t} : pc'[u] = pc[u] /\ last'[u] = last[u]
      PROVE  Transactions'
  <2>1. conn'[t] = Writing(rows) /\ \A u \in Threads \ {t} : conn'[u] = conn[u]
    BY <1>0, <1>2
  <2> QED BY <1>1, <1>2, <2>1 DEF Transactions, Writing
<1>3. ASSUME UNCHANGED <<links, conn, last>>,
             \A u \in Threads : pc'[u] # "commit" \/ pc'[u] = pc[u]
      PROVE  Transactions'
  BY <1>1, <1>3 DEF Transactions
<1>4. ASSUME NEW t \in Threads, StartCreate(t) \/ StartFlush(t)
      PROVE  Transactions'
  <2>1. \A u \in Threads : pc'[u] # "commit" \/ pc'[u] = pc[u]
    BY <1>0, <1>4 DEF StartCreate, StartFlush
  <2> QED BY <1>3, <1>4, <2>1 DEF StartCreate, StartFlush
<1>5. ASSUME NEW t \in Threads, NEW c \in Codes, Insert(t, c)
      PROVE  Transactions'
  <2>1. {c} \cap links = {}
    BY <1>5 DEF Insert, View, MayWrite
  <2>2. \A u \in Threads \ {t} : pc'[u] = pc[u] /\ last'[u] = last[u]
    BY <1>0, <1>5 DEF Insert
  <2>3. {c} \in SUBSET Codes
    OBVIOUS
  <2> QED BY <1>2, <1>5, <2>1, <2>2, <2>3 DEF Insert
<1>6. ASSUME NEW t \in Threads, NEW c \in Codes, InsertTaken(t, c)
      PROVE  Transactions'
  <2>1. \A u \in Threads \ {t} : pc'[u] = pc[u] /\ last'[u] = last[u]
    BY <1>0, <1>6 DEF InsertTaken
  <2>2. conn' = [conn EXCEPT ![t] = Writing({})] /\ UNCHANGED links
    BY <1>6 DEF InsertTaken
  <2>3. {} \in SUBSET Codes /\ {} \cap links = {}
    OBVIOUS
  <2> QED BY <1>2, <2>1, <2>2, <2>3
<1>7. ASSUME NEW t \in Threads, Upsert(t)
      PROVE  Transactions'
  <2>1. \A u \in Threads \ {t} : pc'[u] = pc[u] /\ last'[u] = last[u]
    BY <1>0, <1>7 DEF Upsert
  <2>2. conn' = [conn EXCEPT ![t] = Writing({})] /\ UNCHANGED links
    BY <1>7 DEF Upsert
  <2>3. {} \in SUBSET Codes /\ {} \cap links = {}
    OBVIOUS
  <2> QED BY <1>2, <2>1, <2>2, <2>3
<1>8. ASSUME NEW t \in Threads, Locked(t)
      PROVE  Transactions'
  <2>1. conn[t].tx # "writing" /\ conn[t].added = {}
    BY <1>1, <1>8 DEF Locked, MayWrite, Transactions
  <2>2. conn'[t].tx # "writing" /\ conn'[t].added = {}
    BY <1>0, <1>8, <2>1 DEF Locked, Connections
  <2>3. \A u \in Threads \ {t} : conn'[u] = conn[u] /\ pc'[u] = pc[u] /\ last'[u] = last[u]
    BY <1>0, <1>8 DEF Locked
  <2>4. pc'[t] = "idle" /\ last'[t] = "locked" /\ UNCHANGED links
    BY <1>0, <1>8 DEF Locked
  <2> QED BY <1>1, <2>2, <2>3, <2>4 DEF Transactions
<1>9. ASSUME NEW t \in Threads, Commit(t)
      PROVE  Transactions'
  <2>1. conn[t].tx = "writing"
    BY <1>1, <1>9 DEF Commit, Transactions
  <2>2. \A u \in Threads \ {t} : conn[u].tx # "writing" /\ conn[u].added = {}
    BY <1>1, <2>1 DEF Transactions, IInv, LockIsExclusive
  <2>3. conn'[t].tx = "none" /\ conn'[t].added = {}
    BY <1>9 DEF Commit, Closed
  <2>4. \A u \in Threads \ {t} :
          /\ conn'[u].added = {} /\ conn'[u].tx # "writing"
          /\ conn'[u].tx \in {"begun", "newest", "old"} => conn[u].tx \in {"begun", "newest", "old"}
    BY <1>9, <2>2 DEF Commit
  <2>5. pc'[t] = "idle" /\ \A u \in Threads \ {t} : pc'[u] = pc[u] /\ last'[u] = last[u]
    BY <1>0, <1>9 DEF Commit
  <2> QED BY <1>1, <2>2, <2>3, <2>4, <2>5 DEF Transactions
<1>10. ASSUME NEW t \in Threads, Get(t)
       PROVE  Transactions'
  <2>1. conn[t].tx = "begun" /\ conn'[t].tx = "newest" /\ conn'[t].added = conn[t].added
    BY <1>0, <1>10 DEF Get, Connections
  <2>2. \A u \in Threads \ {t} : conn'[u] = conn[u]
    BY <1>0, <1>10 DEF Get
  <2>3. pc[t] = "idle" /\ UNCHANGED <<links, pc, last>>
    BY <1>10 DEF Get
  <2> QED BY <1>1, <2>1, <2>2, <2>3 DEF Transactions
<1>11. ASSUME NEW ts \in SUBSET Threads, Close(ts)
       PROVE  Transactions'
  <2>1. \A u \in Threads : IF u \in ts THEN conn'[u] = Closed /\ pc'[u] = "idle"
                            ELSE conn'[u] = conn[u] /\ pc'[u] = pc[u] /\ last'[u] = last[u]
    BY <1>11 DEF Close
  <2>2. UNCHANGED links
    BY <1>11 DEF Close
  <2> QED BY <1>1, <2>1, <2>2 DEF Transactions, Closed
<1>12. ASSUME NEW t \in Threads, NextCodeFails(t)
       PROVE  Transactions'
  <2>1. pc'[t] = "idle" /\ \A u \in Threads \ {t} : pc'[u] = pc[u] /\ last'[u] = last[u]
    BY <1>0, <1>12 DEF NextCodeFails
  <2>2. conn[t].tx # "writing" => last'[t] = last[t]
    BY <1>0, <1>12 DEF NextCodeFails
  <2>3. UNCHANGED <<links, conn>>
    BY <1>12 DEF NextCodeFails
  <2> QED BY <1>1, <2>1, <2>2, <2>3 DEF Transactions
<1>13. CASE UNCHANGED vars
  BY <1>1, <1>13 DEF vars, Transactions
<1> QED
  BY <1>4, <1>5, <1>6, <1>7, <1>8, <1>9, <1>10, <1>11, <1>12, <1>13 DEF Next, NextCodes

LEMMA NextOwners == IInv /\ [Next]_vars => CodeHasOneOwner'
<1> SUFFICES ASSUME IInv, [Next]_vars
             PROVE  CodeHasOneOwner'
  OBVIOUS
<1>0. returned \in [Codes -> Nat] /\ CodeHasOneOwner
  BY DEF IInv, Types
<1>1. ASSUME NEW t \in Threads, Commit(t)
      PROVE  CodeHasOneOwner'
  <2> SUFFICES ASSUME NEW c \in Codes
               PROVE  returned'[c] <= 1 /\ (returned'[c] = 1 => c \in links')
    BY DEF CodeHasOneOwner
  <2>1. CASE c \in conn[t].added
    <3>1. c \notin links
      BY <2>1 DEF IInv, Transactions
    <3>2. returned[c] \in Nat /\ returned[c] <= 1 /\ returned[c] # 1
      BY <1>0, <3>1 DEF CodeHasOneOwner
    <3>3. returned[c] = 0
      BY <3>2
    <3> QED BY <1>1, <2>1, <3>3 DEF Commit
  <2>2. CASE c \notin conn[t].added
    BY <1>0, <1>1, <2>2 DEF Commit, CodeHasOneOwner
  <2> QED BY <2>1, <2>2
<1>2. CASE UNCHANGED <<links, returned>>
  BY <1>0, <1>2 DEF CodeHasOneOwner
<1> QED BY <1>1, <1>2 DEF Next, NextCodes, vars, StartCreate, Insert, InsertTaken, StartFlush, Upsert,
                          Locked, Get, Close, NextCodeFails

LEMMA NextLockLeft == IInv /\ [Next]_vars => LockLeftOnlyByGivingUp'
<1> SUFFICES ASSUME IInv, [Next]_vars, NEW u \in Threads, pc'[u] = "idle", conn'[u].tx = "writing"
             PROVE  last'[u] = "gave up"
  BY DEF LockLeftOnlyByGivingUp
<1>0. /\ conn \in [Threads -> Connections]
      /\ pc \in [Threads -> PCs]
      /\ last \in [Threads -> {"ok", "locked", "gave up"}]
  BY DEF IInv, Types
<1>1. CASE pc[u] = "idle" /\ conn[u].tx = "writing" /\ last'[u] = last[u]
  BY <1>1 DEF IInv, LockLeftOnlyByGivingUp
<1>2. ASSUME NEW t \in Threads, StartCreate(t) \/ StartFlush(t)
      PROVE  last'[u] = "gave up"
  BY <1>0, <1>1, <1>2 DEF StartCreate, StartFlush
<1>3. ASSUME NEW t \in Threads, NEW c \in Codes, Insert(t, c)
      PROVE  last'[u] = "gave up"
  BY <1>0, <1>1, <1>3 DEF Insert
<1>4. ASSUME NEW t \in Threads, NEW c \in Codes, InsertTaken(t, c)
      PROVE  last'[u] = "gave up"
  BY <1>0, <1>1, <1>4 DEF InsertTaken
<1>5. ASSUME NEW t \in Threads, Upsert(t)
      PROVE  last'[u] = "gave up"
  BY <1>0, <1>1, <1>5 DEF Upsert
<1>6. ASSUME NEW t \in Threads, Locked(t)
      PROVE  last'[u] = "gave up"
  <2>1. CASE t = u
    <3>1. conn[t].tx # "writing"
      BY <1>6 DEF Locked, MayWrite
    <3>2. conn'[t].tx # "writing"
      BY <1>0, <1>6, <3>1 DEF Locked, Connections
    <3> QED BY <2>1, <3>2
  <2>2. CASE t # u
    BY <1>0, <1>1, <1>6, <2>2 DEF Locked
  <2> QED BY <2>1, <2>2
<1>7. ASSUME NEW t \in Threads, Commit(t)
      PROVE  last'[u] = "gave up"
  <2>1. CASE t = u
    BY <1>7, <2>1 DEF Commit, Closed
  <2>2. CASE t # u
    <3>1. conn[u].tx = "writing"
      BY <1>7, <2>2 DEF Commit
    <3>2. pc[u] = "idle" /\ last'[u] = last[u]
      BY <1>0, <1>7, <2>2 DEF Commit
    <3> QED BY <1>1, <3>1, <3>2
  <2> QED BY <2>1, <2>2
<1>8. ASSUME NEW t \in Threads, Get(t)
      PROVE  last'[u] = "gave up"
  BY <1>0, <1>1, <1>8 DEF Get, Connections
<1>9. ASSUME NEW ts \in SUBSET Threads, Close(ts)
      PROVE  last'[u] = "gave up"
  <2>1. CASE u \in ts
    BY <1>9, <2>1 DEF Close, Closed
  <2>2. CASE u \notin ts
    BY <1>1, <1>9, <2>2 DEF Close
  <2> QED BY <2>1, <2>2
<1>10. ASSUME NEW t \in Threads, NextCodeFails(t)
       PROVE  last'[u] = "gave up"
  <2>1. CASE t = u
    BY <1>0, <1>10, <2>1 DEF NextCodeFails
  <2>2. CASE t # u
    BY <1>0, <1>1, <1>10, <2>2 DEF NextCodeFails
  <2> QED BY <2>1, <2>2
<1>11. CASE UNCHANGED vars
  BY <1>1, <1>11 DEF vars
<1> QED BY <1>2, <1>3, <1>4, <1>5, <1>6, <1>7, <1>8, <1>9, <1>10, <1>11 DEF Next, NextCodes

LEMMA NextIInv == IInv /\ [Next]_vars => IInv'
BY NextTypes, NextAttempts, NextLock, NextTransactions, NextOwners, NextLockLeft DEF IInv

-----------------------------------------------------------------------------
THEOREM Invariance == Spec => []IInv
BY InitIInv, NextIInv, PTL DEF Spec

(* Every reachable state is well typed; one connection has the lock.       *)
THEOREM TypeCorrect == Spec => []TypeOK
<1>1. IInv => TypeOK
  BY DEF IInv, Types, AttemptsLeft, TypeOK
<1> QED BY <1>1, Invariance, PTL

(* No code is returned by two creates, on whatever instances, and a code   *)
(* that was returned has its committed row (create, allocate).             *)
THEOREM OneOwner == Spec => []CodeHasOneOwner
<1>1. IInv => CodeHasOneOwner
  BY DEF IInv
<1> QED BY <1>1, Invariance, PTL

(* Only a connection whose last write failed for the lock can miss a link  *)
(* that was created (get).                                                 *)
THEOREM BlindOnlyThen == Spec => []BlindOnlyAfterLocked
<1>1. IInv => BlindOnlyAfterLocked
  <2> SUFFICES ASSUME IInv, NEW t \in Threads, NEW c \in Codes,
                      returned[c] = 1, c \notin View(t)
               PROVE  last[t] = "locked"
    BY DEF BlindOnlyAfterLocked
  <2>1. c \in links
    BY DEF IInv, CodeHasOneOwner
  <2>2. conn[t].tx = "old"
    BY <2>1 DEF View
  <2> QED BY <2>2 DEF IInv, Transactions, Types
<1> QED BY <1>1, Invariance, PTL

(* While no write has failed for the lock, what test_pgstore.py states of  *)
(* every link holds of this store, too: it is found by every get as soon   *)
(* as it is created, on every thread.  So the failed write is all that is  *)
(* behind the links that are not found, and Serving may take create and    *)
(* get for atomic on healthy connections.                                  *)
THEOREM HealthyStoreReadsBack ==
  Spec /\ [][\A t \in Threads : ~Locked(t)]_vars => []CreatedLinkReadsBack
<1> DEFINE NeverLocked == \A t \in Threads : last[t] # "locked"
           Healthy == \A t \in Threads : ~Locked(t)
<1>1. Init => NeverLocked
  BY DEF Init
<1>2. IInv /\ NeverLocked /\ [Next]_vars /\ [Healthy]_vars => NeverLocked'
  <2> SUFFICES ASSUME IInv, NeverLocked, [Next]_vars, [Healthy]_vars, NEW u \in Threads
               PROVE  last'[u] # "locked"
    OBVIOUS
  <2>1. last \in [Threads -> {"ok", "locked", "gave up"}] /\ last[u] # "locked"
    BY DEF IInv, Types
  <2>2. CASE UNCHANGED last
    BY <2>1, <2>2
  <2>3. ASSUME NEW t \in Threads, NEW c \in Codes, InsertTaken(t, c)
        PROVE  last'[u] # "locked"
    BY <2>1, <2>3 DEF InsertTaken
  <2>4. ASSUME NEW t \in Threads, NextCodeFails(t)
        PROVE  last'[u] # "locked"
    BY <2>1, <2>4 DEF NextCodeFails
  <2>5. ASSUME NEW t \in Threads, Commit(t)
        PROVE  last'[u] # "locked"
    BY <2>1, <2>5 DEF Commit
  <2>6. ASSUME NEW ts \in SUBSET Threads, Close(ts)
        PROVE  last'[u] # "locked"
    BY <2>1, <2>6 DEF Close
  <2>7. CASE UNCHANGED vars
    BY <2>2, <2>7 DEF vars
  <2>8. ASSUME Next, Healthy
        PROVE  last'[u] # "locked"
    BY <2>2, <2>3, <2>4, <2>5, <2>6, <2>8
    DEF Next, NextCodes, StartCreate, Insert, StartFlush, Upsert, Get
  <2> QED BY <2>7, <2>8
<1>3. BlindOnlyAfterLocked /\ NeverLocked => CreatedLinkReadsBack
  BY DEF BlindOnlyAfterLocked, CreatedLinkReadsBack
<1> HIDE DEF NeverLocked, Healthy
<1>4. Spec /\ [][Healthy]_vars => []CreatedLinkReadsBack
  BY <1>1, <1>2, <1>3, BlindOnlyThen, Invariance, PTL DEF Spec
<1> QED BY <1>4 DEF Healthy

(* Only an allocation that gave up leaves the write lock of the file       *)
(* behind (create: the KeyError ends no transaction).                      *)
THEOREM LockLeftOnlyThen == Spec => []LockLeftOnlyByGivingUp
<1>1. IInv => LockLeftOnlyByGivingUp
  BY DEF IInv
<1> QED BY <1>1, Invariance, PTL

-----------------------------------------------------------------------------
(* A transaction adds one row at most, and a snapshot has only rows that   *)
(* are committed.                                                          *)
Snapshots ==
  \A t \in Threads :
    /\ \A c, d \in conn[t].added : c = d
    /\ conn[t].sees \subseteq links

LEMMA NextSnapshots ==
  ASSUME IInv, Snapshots, [Next]_vars
  PROVE  Snapshots'
<1>0. conn \in [Threads -> Connections]
  BY DEF IInv, Types
<1>1. ASSUME NEW t \in Threads, NEW rows, conn' = [conn EXCEPT ![t] = Writing(rows)],
             \A c, d \in rows : c = d, UNCHANGED links
      PROVE  Snapshots'
  BY <1>0, <1>1 DEF Snapshots, Writing
<1>2. ASSUME NEW t \in Threads, NEW c \in Codes, Insert(t, c)
      PROVE  Snapshots'
  <2>1. \A d, e \in {c} : d = e
    OBVIOUS
  <2> QED BY <1>1, <1>2, <2>1 DEF Insert
<1>3. ASSUME NEW t \in Threads, NEW c \in Codes, InsertTaken(t, c)
      PROVE  Snapshots'
  <2>1. conn' = [conn EXCEPT ![t] = Writing({})] /\ UNCHANGED links
    BY <1>3 DEF InsertTaken
  <2> QED BY <1>0, <2>1 DEF Snapshots, Writing
<1>4. ASSUME NEW t \in Threads, Upsert(t)
      PROVE  Snapshots'
  <2>1. conn' = [conn EXCEPT ![t] = Writing({})] /\ UNCHANGED links
    BY <1>4 DEF Upsert
  <2> QED BY <1>0, <2>1 DEF Snapshots, Writing
<1>5. ASSUME NEW t \in Threads, Locked(t) \/ Get(t)
      PROVE  Snapshots'
  <2>1. \A u \in Threads : conn'[u].added = conn[u].added /\ conn'[u].sees = conn[u].sees
    BY <1>0, <1>5 DEF Locked, Get, Connections
  <2> QED BY <1>5, <2>1 DEF Snapshots, Locked, Get
<1>6. ASSUME NEW t \in Threads, Commit(t)
      PROVE  Snapshots'
  BY <1>6 DEF Snapshots, Commit, Closed
<1>7. ASSUME NEW ts \in SUBSET Threads, Close(ts)
      PROVE  Snapshots'
  BY <1>7 DEF Snapshots, Close, Closed
<1>8. CASE UNCHANGED <<links, conn>>
  BY <1>8 DEF Snapshots
<1> QED BY <1>2, <1>3, <1>4, <1>5, <1>6, <1>7, <1>8
        DEF Next, NextCodes, vars, StartCreate, StartFlush, NextCodeFails

(* What t finds of the table. *)
Found(t) == View(t) \cap links

(* A thread that is in an old snapshot after a step finds what it found.   *)
LEMMA BehindStays ==
  ASSUME IInv, Snapshots, [Next]_vars, NEW t \in Threads, conn'[t].tx = "old"
  PROVE  Found(t)' = Found(t)
<1>0. conn \in [Threads -> Connections]
  BY DEF IInv, Types
<1>1. ASSUME NEW u \in Threads, Commit(u)
      PROVE  Found(t)' = Found(t)
  <2>1. t # u /\ conn[t].tx \in {"newest", "old"}
    BY <1>1 DEF Commit, Closed
  <2>2. CASE conn[t].tx = "newest"
    BY <1>1, <2>1, <2>2 DEF Commit, Found, View
  <2>3. CASE conn[t].tx = "old"
    <3>1. conn[t].sees \subseteq links /\ links \subseteq links'
      BY <1>1 DEF Snapshots, Commit
    <3>2. conn'[t] = conn[t]
      BY <1>1, <2>1, <2>3 DEF Commit
    <3> QED BY <2>3, <3>1, <3>2 DEF Found, View
  <2> QED BY <2>1, <2>2, <2>3
<1>2. ASSUME NEW u \in Threads, Locked(u)
      PROVE  Found(t)' = Found(t)
  <2>1. conn[t].tx = "old" /\ conn'[t].sees = conn[t].sees
    BY <1>0, <1>2 DEF Locked, Connections
  <2> QED BY <1>2, <2>1 DEF Found, View, Locked
<1>3. ASSUME UNCHANGED links, conn'[t] = conn[t]
      PROVE  Found(t)' = Found(t)
  BY <1>3 DEF Found, View
<1>4. ASSUME NEW u \in Threads, NEW rows, conn' = [conn EXCEPT ![u] = Writing(rows)]
      PROVE  conn'[t] = conn[t]
  BY <1>0, <1>4 DEF Writing
<1>5. ASSUME NEW u \in Threads, NEW d \in Codes, Insert(u, d) \/ InsertTaken(u, d)
      PROVE  Found(t)' = Found(t)
  BY <1>3, <1>4, <1>5 DEF Insert, InsertTaken
<1>6. ASSUME NEW u \in Threads, Upsert(u)
      PROVE  Found(t)' = Found(t)
  BY <1>3, <1>4, <1>6 DEF Upsert
<1>7. ASSUME NEW u \in Threads, Get(u)
      PROVE  Found(t)' = Found(t)
  <2>1. conn'[t] = conn[t]
    BY <1>0, <1>7 DEF Get
  <2> QED BY <1>3, <1>7, <2>1 DEF Get
<1>8. ASSUME NEW ts \in SUBSET Threads, Close(ts)
      PROVE  Found(t)' = Found(t)
  <2>1. conn'[t] = conn[t]
    BY <1>8 DEF Close, Closed
  <2> QED BY <1>3, <1>8, <2>1 DEF Close
<1>9. CASE UNCHANGED <<links, conn>>
  BY <1>3, <1>9
<1> QED BY <1>1, <1>2, <1>5, <1>6, <1>7, <1>8, <1>9
        DEF Next, NextCodes, vars, StartCreate, StartFlush, NextCodeFails

(* A step changes the table in its commit, which is a Create of LinkTable; *)
(* in every other step threads catch up or nothing happens.                *)
LEMMA StepOfTable ==
  ASSUME IInv, Snapshots, [Next]_vars
  PROVE  Table!Next
<1> DEFINE ts == {t \in Threads : conn'[t].tx # "old"}
<1>1. \A t \in Threads : Found(t)' = IF t \in ts THEN links' ELSE Found(t)
  <2>1. ASSUME NEW t \in ts
        PROVE  Found(t)' = links'
    BY <2>1 DEF Found, View
  <2> QED BY <2>1, BehindStays
<1>2. Table!SomeCatchUp
  <2>1. ts \in SUBSET Threads
    OBVIOUS
  <2>2. \A t \in Threads : Found(t)' = IF t \in ts THEN links' ELSE [u \in Threads |-> Found(u)][t]
    BY <1>1
  <2>3. [t \in Threads |-> Found(t)'] =
          [t \in Threads |-> IF t \in ts THEN links' ELSE [u \in Threads |-> Found(u)][t]]
    BY <2>2
  <2> QED BY <2>1, <2>3 DEF Table!SomeCatchUp, Found
<1>3. ASSUME NEW u \in Threads, Commit(u)
      PROVE  Table!Next
  <2>1. CASE conn[u].added = {}
    <3>1. links' = links /\ returned' = returned
      BY <1>3, <2>1 DEF Commit, IInv, Types
    <3> QED BY <1>2, <3>1 DEF Table!Next, Table!CatchUp
  <2>2. ASSUME NEW c, c \in conn[u].added
        PROVE  Table!Next
    <3>1. conn[u].added = {c} /\ c \in Codes /\ c \notin links
      <4>1. conn[u].added \subseteq Codes
        BY DEF IInv, Types, Connections
      <4>2. conn[u].added \cap links = {}
        BY DEF IInv, Transactions
      <4>3. \A d \in conn[u].added : d = c
        BY <2>2 DEF Snapshots
      <4> QED BY <2>2, <4>1, <4>2, <4>3
    <3>2. returned[c] = 0
      <4>1. returned[c] \in Nat /\ returned[c] <= 1 /\ returned[c] # 1
        BY <3>1 DEF IInv, Types, CodeHasOneOwner
      <4> QED BY <4>1
    <3>3. returned' = [d \in Codes |-> IF d = c THEN 1 ELSE returned[d]]
      BY <1>3, <3>1, <3>2 DEF Commit
    <3>4. links' = links \cup {c}
      BY <1>3, <3>1 DEF Commit
    <3>5. Found(u)' = links'
      BY <1>3 DEF Commit, Closed, Found, View
    <3>6. [t \in Threads |-> Found(t)'][u] = links'
      BY <3>5
    <3>7. Table!Create(u, c)
      BY <1>2, <3>1, <3>3, <3>4, <3>6 DEF Table!Create, Found
    <3> QED BY <3>1, <3>7 DEF Table!Next
  <2> QED BY <2>1, <2>2
<1>4. CASE UNCHANGED <<links, returned>>
  BY <1>2, <1>4 DEF Table!Next, Table!CatchUp
<1> QED BY <1>3, <1>4 DEF Next, NextCodes, vars, StartCreate, Insert, InsertTaken, StartFlush, Upsert,
                          Locked, Get, Close, NextCodeFails

(* Whatever fails, the store implements LinkTable (create, get): a create  *)
(* takes effect once and whole, and no reader goes back.                   *)
THEOREM StoreIsATable == Spec => ImplementsLinkTable
<1>1. Init => Snapshots
  <2> SUFFICES ASSUME Init, NEW t \in Threads
               PROVE  conn[t].added = {} /\ conn[t].sees = {}
    BY DEF Snapshots
  <2> QED BY DEF Init, Closed
<1>2. IInv /\ Snapshots /\ [Next]_vars => Snapshots'
  BY NextSnapshots
<1>3. IInv /\ Snapshots /\ [Next]_vars => Table!Next
  BY StepOfTable
<1>4. Init => Table!Init
  BY DEF Init, Table!Init, View, Closed
<1> QED BY <1>1, <1>2, <1>3, <1>4, Invariance, PTL DEF Spec, ImplementsLinkTable, Table!Spec

-----------------------------------------------------------------------------
(* Every step of a create is one of the connections, or none. *)
LEMMA StepOfStore == [CreateNext]_createVars => [Next]_vars
<1> SUFFICES ASSUME [CreateNext]_createVars
             PROVE  [Next]_vars
  OBVIOUS
<1>1. ASSUME NEW t \in Threads, NextCode(t) \/ AwaitClock(t)
      PROVE  UNCHANGED vars
  BY <1>1 DEF NextCode, AwaitClock
<1>2. ASSUME NEW t \in Threads, ClockRefused(t)
      PROVE  Next
  BY <1>2 DEF ClockRefused, Next
<1>3. ASSUME NEW t \in Threads, StoreCode(t)
      PROVE  Next
  BY <1>3 DEF StoreCode, Next, NextCodes
<1>4. ASSUME NEW t \in Threads, OtherStep(t)
      PROVE  Next
  <2>1. {t} \in SUBSET Threads
    OBVIOUS
  <2> QED BY <1>4, <2>1 DEF OtherStep, Next
<1>5. ASSUME NEW g \in Generators, RebootProcess(g)
      PROVE  Next
  <2>1. {t \in Threads : GeneratorOf[t] = g} \in SUBSET Threads
    OBVIOUS
  <2> QED BY <1>5, <2>1 DEF RebootProcess, Next
<1>6. CASE UNCHANGED createVars
  BY <1>6 DEF createVars, vars
<1> QED BY <1>1, <1>2, <1>3, <1>4, <1>5, <1>6 DEF CreateNext

(* Every step of a create is one of the generators, or none. *)
LEMMA StepOfGenerator == [CreateNext]_createVars => [GenNext]_genVars
<1> SUFFICES ASSUME [CreateNext]_createVars
             PROVE  [GenNext]_genVars
  OBVIOUS
<1> USE GeneratorsAssumption
<1>1. ASSUME NEW t \in Threads, NextCode(t) \/ AwaitClock(t) \/ ClockRefused(t)
      PROVE  GenNext
  <2>1. GeneratorOf[t] \in Generators
    OBVIOUS
  <2> QED BY <1>1, <2>1 DEF NextCode, AwaitClock, ClockRefused, GenNext, GenStep
<1>2. ASSUME NEW t \in Threads, StoreCode(t) \/ OtherStep(t)
      PROVE  UNCHANGED genVars
  BY <1>2 DEF StoreCode, OtherStep, genVars
<1>3. ASSUME NEW g \in Generators, RebootProcess(g)
      PROVE  GenNext
  BY <1>3 DEF RebootProcess, GenNext, GenStep
<1>4. CASE UNCHANGED createVars
  BY <1>4 DEF createVars, genVars
<1> QED BY <1>1, <1>2, <1>3, <1>4 DEF CreateNext

(* With the generators of ids.py the store is still a LinkStore, and with  *)
(* the store the generators are still those of Snowflake: what holds of    *)
(* each holds of the service that creates links (create_link).             *)
THEOREM CreateIsALinkStore == CreateSpec => Spec
<1>1. CreateInit => Init
  BY DEF CreateInit
<1> QED BY <1>1, StepOfStore, PTL DEF CreateSpec, Spec

THEOREM CreateIsGenerators == CreateSpec => GenSpec
<1>1. CreateInit => GenInit
  BY DEF CreateInit
<1> QED BY <1>1, StepOfGenerator, PTL DEF CreateSpec, GenSpec

-----------------------------------------------------------------------------
(* What may make a code come twice: CollisionHasItsCause names it.         *)
Cause ==
  \/ \E g, h \in Generators : g # h /\ instance[g] = instance[h]
  \/ \E g \in Generators : setBack[g] # {}

IssuedBy(g) == {CodeOf(IdOf(issued[g][n])) : n \in DOMAIN issued[g]}

(* The codes in the table, in a snapshot or in a transaction.              *)
Stored == links \cup UNION {conn[t].added \cup conn[t].sees : t \in Threads}

(* Without a cause no attempt was in vain: a code in hand was issued, is   *)
(* in no other hand and nowhere in the store, whose codes were issued.     *)
FreshCodes ==
  /\ \A t \in Threads : attempts[t] = 0
  /\ \A t \in Threads : code[t] \in Codes => code[t] \in IssuedBy(GeneratorOf[t]) /\ code[t] \notin Stored
  /\ \A t, u \in Threads : code[t] \in Codes /\ code[t] = code[u] => t = u
  /\ Stored \subseteq UNION {IssuedBy(g) : g \in Generators}

CodeValues == {NoCode, Spinning} \cup {CodeOf(id) : id \in Nat}

CreateInv ==
  /\ code \in [Threads -> CodeValues]
  /\ Cause \/ FreshCodes

LEMMA InitCreateInv == CreateInit => CreateInv
<1> SUFFICES ASSUME CreateInit
             PROVE  CreateInv
  OBVIOUS
<1>1. code \in [Threads -> CodeValues]
  BY DEF CreateInit, CodeValues
<1>2. Stored = {}
  BY DEF CreateInit, Init, Stored, Closed
<1>3. \A t \in Threads : code[t] \notin Codes /\ attempts[t] = 0
  BY NoCodeAssumption DEF CreateInit, Init
<1> QED BY <1>1, <1>2, <1>3 DEF CreateInv, FreshCodes

LEMMA CodeIsCodeOfOne ==
  ASSUME NEW m \in Nat, NEW n \in Nat, CodeOf(m) = CodeOf(n)
  PROVE  m = n
BY DecodeUndoesEncode DEF CodeOf

(* Without a cause no two ids have the same code. *)
CodesDiffer ==
  \A g, h \in Generators : \A m \in DOMAIN issued[g], n \in DOMAIN issued[h] :
    CodeOf(IdOf(issued[g][m])) = CodeOf(IdOf(issued[h][n])) => g = h /\ m = n

LEMMA CodesDifferWithoutCause == GenInv /\ ~Cause => CodesDiffer
<1> SUFFICES ASSUME GenInv, ~Cause, NEW g \in Generators, NEW h \in Generators,
                    NEW m \in DOMAIN issued[g], NEW n \in DOMAIN issued[h],
                    CodeOf(IdOf(issued[g][m])) = CodeOf(IdOf(issued[h][n]))
             PROVE  g = h /\ m = n
  BY DEF CodesDiffer
<1>1. IdOf(issued[g][m]) \in Nat /\ IdOf(issued[h][n]) \in Nat
  BY IdsAreNumbers
<1>2. IdOf(issued[g][m]) = IdOf(issued[h][n])
  BY <1>1, CodeIsCodeOfOne
<1>3. RepeatHasItsCause
  BY RepeatsInv
<1>4. <<g, m>> = <<h, n>>
  <2> SUFFICES ASSUME <<g, m>> # <<h, n>> PROVE FALSE
    OBVIOUS
  <2>1. IF g # h THEN instance[g] = instance[h]
        ELSE \/ CameUpBehind(g, issued[g][m].life, issued[g][n].life)
             \/ CameUpBehind(g, issued[g][n].life, issued[g][m].life)
    BY <1>2, <1>3 DEF RepeatHasItsCause
  <2> QED BY <2>1 DEF CameUpBehind, Cause
<1> QED BY <1>4

(* A cause does not go away. *)
LEMMA CauseStays ==
  ASSUME GenTypeOK, [GenNext]_genVars, Cause
  PROVE  Cause'
<1>1. instance' = instance
  BY DEF GenNext, GenStep, NextId, Issue, SpinBehind, SpinExhausted, RefuseId, Reboot, genVars
<1>2. \A g \in Generators : setBack[g] \subseteq setBack'[g]
  <2>1. ASSUME NEW h \in Generators, NEW now, Issue(h, now), NEW g \in Generators
        PROVE  setBack[g] \subseteq setBack'[g]
    BY <2>1 DEF Issue, GenTypeOK
  <2>2. ASSUME NEW h \in Generators, SpinBehind(h) \/ SpinExhausted(h) \/ RefuseId(h) \/ Reboot(h)
        PROVE  setBack' = setBack
    BY <2>2 DEF SpinBehind, SpinExhausted, RefuseId, Reboot, genVars
  <2> QED BY <2>1, <2>2 DEF GenNext, GenStep, NextId, genVars
<1> QED BY <1>1, <1>2 DEF Cause

-----------------------------------------------------------------------------
(* What a step of a connection may put into the store. *)
LEMMA StoredAfterInsert ==
  ASSUME Types, NEW t \in Threads, NEW d \in Codes, Insert(t, d), NEW c \in Stored'
  PROVE  c \in Stored \/ c = d
<1>1. links' = links /\ conn' = [conn EXCEPT ![t] = Writing({d})]
  BY DEF Insert
<1>2. \A u \in Threads : conn'[u] = IF u = t THEN Writing({d}) ELSE conn[u]
  BY <1>1 DEF Types
<1>3. CASE c \in links'
  BY <1>1, <1>3 DEF Stored
<1>4. ASSUME NEW u \in Threads, c \in conn'[u].added \cup conn'[u].sees
      PROVE  c \in Stored \/ c = d
  <2>1. CASE u = t
    BY <1>2, <1>4, <2>1 DEF Writing
  <2>2. CASE u # t
    BY <1>2, <1>4, <2>2 DEF Stored
  <2> QED BY <2>1, <2>2
<1> QED BY <1>3, <1>4 DEF Stored

LEMMA StoredAfter ==
  ASSUME Types, NEW t \in Threads,
         \/ StartCreate(t) \/ NextCodeFails(t) \/ StartFlush(t) \/ Upsert(t)
         \/ Locked(t) \/ Commit(t) \/ Get(t) \/ (\E ts \in SUBSET Threads : Close(ts))
  PROVE  Stored' \subseteq Stored
<1> SUFFICES ASSUME NEW c \in Stored'
             PROVE  c \in Stored
  OBVIOUS
<1>0. conn \in [Threads -> Connections]
  BY DEF Types
<1>1. ASSUME links' \subseteq Stored,
             \A u \in Threads : conn'[u].added \subseteq Stored /\ conn'[u].sees \subseteq Stored
      PROVE  c \in Stored
  BY <1>1 DEF Stored
<1>2. links \subseteq Stored
      /\ \A u \in Threads : conn[u].added \subseteq Stored /\ conn[u].sees \subseteq Stored
  BY DEF Stored
<1> HIDE DEF Stored
<1>3. CASE StartCreate(t) \/ NextCodeFails(t) \/ StartFlush(t)
  BY <1>1, <1>2, <1>3 DEF StartCreate, NextCodeFails, StartFlush
<1>4. CASE Upsert(t)
  BY <1>0, <1>1, <1>2, <1>4 DEF Upsert, Writing
<1>5. CASE Locked(t) \/ Get(t)
  <2>1. links' = links /\ \A u \in Threads : conn'[u].added = conn[u].added /\ conn'[u].sees = conn[u].sees
    BY <1>0, <1>5 DEF Locked, Get, Connections
  <2> QED BY <1>1, <1>2, <2>1
<1>6. CASE Commit(t)
  <2>1. links' \subseteq Stored
    BY <1>2, <1>6 DEF Commit
  <2>2. \A u \in Threads : conn'[u].added \subseteq Stored /\ conn'[u].sees \subseteq Stored
    BY <1>2, <1>6 DEF Commit, Closed
  <2> QED BY <1>1, <2>1, <2>2
<1>7. CASE \E ts \in SUBSET Threads : Close(ts)
  BY <1>1, <1>2, <1>7 DEF Close, Closed
<1> QED BY <1>3, <1>4, <1>5, <1>6, <1>7

-----------------------------------------------------------------------------
(* The same about the next state. *)
LEMMA NextCodesDiffer == (GenInv /\ ~Cause => CodesDiffer)'
BY CodesDifferWithoutCause, PTL

LEMMA NextIdsAreNumbers ==
  (GenInv => \A g \in Generators : \A n \in DOMAIN issued[g] : IdOf(issued[g][n]) \in Nat)'
BY IdsAreNumbers, PTL

LEMMA IssuedByGrows ==
  ASSUME GenTypeOK, [GenNext]_genVars, NEW g \in Generators
  PROVE  IssuedBy(g) \subseteq IssuedBy(g)'
<1>1. \A n \in DOMAIN issued[g] : n \in DOMAIN issued'[g] /\ issued'[g][n] = issued[g][n]
  <2>1. ASSUME NEW h \in Generators, NEW now, Issue(h, now)
        PROVE  \A n \in DOMAIN issued[g] : n \in DOMAIN issued'[g] /\ issued'[g][n] = issued[g][n]
    <3>1. issued[g] \in Seq(Entries) /\ issued[h] \in Seq(Entries)
      BY DEF GenTypeOK
    <3>2. issued'[g] = IF g = h THEN Append(issued[g], Entry(h, now)) ELSE issued[g]
      BY <2>1 DEF Issue, GenTypeOK
    <3> QED BY <3>1, <3>2
  <2>2. ASSUME NEW h \in Generators, SpinBehind(h) \/ SpinExhausted(h) \/ RefuseId(h) \/ Reboot(h)
        PROVE  issued' = issued
    BY <2>2 DEF SpinBehind, SpinExhausted, RefuseId, Reboot, genVars
  <2> QED BY <2>1, <2>2 DEF GenNext, GenStep, NextId, genVars
<1> QED BY <1>1 DEF IssuedBy

(* A step that takes codes D from hands into the store, or none, keeps the *)
(* others fresh.                                                           *)
LEMMA FreshCodesKept ==
  ASSUME FreshCodes, NEW D,
         \A g \in Generators : IssuedBy(g) \subseteq IssuedBy(g)',
         \A t \in Threads : attempts'[t] = 0,
         \A t \in Threads : code'[t] \in Codes => code'[t] = code[t] /\ code'[t] \notin D,
         Stored' \subseteq Stored \cup D,
         D \subseteq UNION {IssuedBy(g) : g \in Generators}
  PROVE  FreshCodes'
<1>1. \A t \in Threads : GeneratorOf[t] \in Generators
  BY GeneratorsAssumption
<1>2. \A t \in Threads :
        code'[t] \in Codes => code'[t] \in IssuedBy(GeneratorOf[t])' /\ code'[t] \notin Stored'
  BY <1>1 DEF FreshCodes
<1>3. \A t, u \in Threads : code'[t] \in Codes /\ code'[t] = code'[u] => t = u
  BY DEF FreshCodes
<1>4. Stored' \subseteq UNION {IssuedBy(g)' : g \in Generators}
  <2> SUFFICES ASSUME NEW c \in Stored'
               PROVE  \E g \in Generators : c \in IssuedBy(g)'
    OBVIOUS
  <2>1. \E g \in Generators : c \in IssuedBy(g)
    BY DEF FreshCodes
  <2> QED BY <2>1
<1>5. (UNION {IssuedBy(g) : g \in Generators})' = UNION {IssuedBy(g)' : g \in Generators}
  OBVIOUS
<1> QED BY <1>2, <1>3, <1>4, <1>5 DEF FreshCodes

LEMMA FreshCodesNext ==
  ASSUME IInv, GenInv, GenInv', CreateInv, [CreateNext]_createVars, ~Cause'
  PROVE  FreshCodes'
<1>0. GenTypeOK /\ Types /\ [GenNext]_genVars
  BY StepOfGenerator DEF GenInv, IInv
<1>1. FreshCodes /\ code \in [Threads -> CodeValues]
  BY <1>0, CauseStays DEF CreateInv
<1>2. CodesDiffer'
  BY NextCodesDiffer
<1>3. \A g \in Generators : IssuedBy(g) \subseteq IssuedBy(g)'
  BY <1>0, IssuedByGrows
<1>4. \A t \in Threads : attempts[t] = 0
  BY <1>1 DEF FreshCodes
<1>5. \A t \in Threads : code[t] \in Codes => code[t] \in IssuedBy(GeneratorOf[t]) /\ code[t] \notin Stored
  BY <1>1 DEF FreshCodes
<1>6. NoCode \notin Codes /\ Spinning \notin Codes
  BY NoCodeAssumption
<1>7. ASSUME \A t \in Threads : attempts'[t] = 0,
             \A t \in Threads : code'[t] \in Codes => code'[t] = code[t],
             Stored' \subseteq Stored
      PROVE  FreshCodes'
  <2> DEFINE D == {}
  <2>1. /\ \A t \in Threads : code'[t] \in Codes => code'[t] = code[t] /\ code'[t] \notin D
        /\ Stored' \subseteq Stored \cup D /\ D \subseteq UNION {IssuedBy(g) : g \in Generators}
    BY <1>7
  <2> HIDE DEF D
  <2> QED BY <1>1, <1>3, <1>7, <2>1, FreshCodesKept
<1>8. ASSUME NEW t \in Threads, NextCode(t)
      PROVE  FreshCodes'
  <2> DEFINE g == GeneratorOf[t]
  <2>1. g \in Generators /\ UNCHANGED vars
    BY <1>8, GeneratorsAssumption DEF NextCode
  <2>2. PICK now \in Readings(g) : Issue(g, now)
    BY <1>8 DEF NextCode, NextId
  <2>3. PICK k \in Nat : k = Len(issued[g]) + 1
    BY <1>0, <2>1 DEF GenTypeOK
  <2>4. /\ issued[g] \in Seq(Entries) /\ issued'[g] = Append(issued[g], Entry(g, now))
        /\ \A h \in Generators \ {g} : issued'[h] = issued[h]
    BY <1>0, <2>1, <2>2 DEF GenTypeOK, Issue
  <2>5. /\ k \in DOMAIN issued'[g] /\ Last(issued'[g]) = issued'[g][k]
        /\ \A h \in Generators : \A n \in DOMAIN issued[h] :
             n \in DOMAIN issued'[h] /\ issued'[h][n] = issued[h][n] /\ (h = g => n # k)
    BY <2>3, <2>4 DEF Last
  <2> DEFINE new == CodeOf(IdOf(issued'[g][k]))
  <2>6. \A u \in Threads : code'[u] = IF u = t THEN new ELSE code[u]
    BY <1>1, <1>8, <2>5 DEF NextCode
  <2>7. new \in IssuedBy(g)'
    BY <2>5 DEF IssuedBy
  <2>8. \A h \in Generators : new \notin IssuedBy(h)
    BY <1>2, <2>1, <2>5 DEF CodesDiffer, IssuedBy
  <2> HIDE DEF new
  <2>9. Stored' = Stored /\ attempts' = attempts
    BY <2>1 DEF Stored, vars
  <2>10. \A u \in Threads : code'[u] \in Codes =>
           code'[u] \in IssuedBy(GeneratorOf[u])' /\ code'[u] \notin Stored'
    <3>1. new \notin Stored
      BY <1>1, <2>8 DEF FreshCodes
    <3> QED BY <1>3, <1>5, <2>6, <2>7, <2>9, <3>1, GeneratorsAssumption
  <2>11. \A u, w \in Threads : code'[u] \in Codes /\ code'[u] = code'[w] => u = w
    <3>1. \A u \in Threads : code[u] \in Codes => code[u] # new
      BY <1>5, <2>8, GeneratorsAssumption
    <3> QED BY <1>1, <2>6, <3>1 DEF FreshCodes
  <2>12. Stored' \subseteq UNION {IssuedBy(h)' : h \in Generators}
    BY <1>1, <1>3, <2>9 DEF FreshCodes
  <2> QED BY <1>4, <2>9, <2>10, <2>11, <2>12 DEF FreshCodes
<1>9. ASSUME NEW t \in Threads, AwaitClock(t)
      PROVE  FreshCodes'
  <2>1. Stored' = Stored /\ attempts' = attempts /\ \A u \in Threads : code'[u] \in Codes => code'[u] = code[u]
    BY <1>1, <1>6, <1>9 DEF AwaitClock, vars, Stored
  <2> QED BY <1>4, <1>7, <2>1
<1>10. ASSUME NEW t \in Threads, ClockRefused(t)
       PROVE  FreshCodes'
  <2>1. Stored' \subseteq Stored
    BY <1>0, <1>10, StoredAfter DEF ClockRefused
  <2>2. attempts' = attempts /\ code' = code
    BY <1>10 DEF ClockRefused, NextCodeFails
  <2> QED BY <1>4, <1>7, <2>1, <2>2
<1>11. ASSUME NEW t \in Threads, StoreCode(t)
       PROVE  FreshCodes'
  <2>1. \A u \in Threads : code'[u] \in Codes => u # t /\ code'[u] = code[u]
    BY <1>1, <1>6, <1>11 DEF StoreCode
  <2>2. code[t] \in Codes /\ code[t] \notin View(t)
    <3>1. code[t] \in Codes /\ code[t] \notin Stored
      BY <1>5, <1>11 DEF StoreCode
    <3>2. View(t) \subseteq Stored
      BY DEF View, Stored
    <3> QED BY <3>1, <3>2
  <2>3. CASE Insert(t, code[t])
    <3>1. Stored' \subseteq Stored \cup {code[t]}
      BY <1>0, <2>2, <2>3, StoredAfterInsert
    <3>2. attempts' = attempts
      BY <2>3 DEF Insert
    <3>3. \A u \in Threads : code'[u] \in Codes => code'[u] = code[u] /\ code'[u] \notin {code[t]}
      BY <1>1, <2>1 DEF FreshCodes
    <3>4. {code[t]} \subseteq UNION {IssuedBy(g) : g \in Generators}
      BY <1>5, <2>2, GeneratorsAssumption
    <3> QED BY <1>1, <1>3, <1>4, <3>1, <3>2, <3>3, <3>4, FreshCodesKept
  <2>4. CASE Locked(t)
    <3>1. Stored' \subseteq Stored
      BY <1>0, <2>4, StoredAfter
    <3>2. attempts' = attempts
      BY <2>4 DEF Locked
    <3> QED BY <1>4, <1>7, <2>1, <3>1, <3>2
  <2> QED BY <1>11, <2>2, <2>3, <2>4 DEF StoreCode, InsertTaken
<1>12. ASSUME NEW t \in Threads, OtherStep(t)
       PROVE  FreshCodes'
  <2>1. {t} \in SUBSET Threads
    OBVIOUS
  <2>2. Stored' \subseteq Stored
    BY <1>0, <1>12, <2>1, StoredAfter DEF OtherStep
  <2>3. code' = code
    BY <1>12 DEF OtherStep
  <2>4. \A u \in Threads : attempts'[u] = 0
    <3>1. attempts \in [Threads -> 0..MaxAttempts]
      BY <1>0 DEF Types
    <3>2. attempts' = attempts \/ attempts' = [attempts EXCEPT ![t] = 0]
      BY <1>12 DEF OtherStep, StartCreate, Commit, StartFlush, Upsert, Locked, Get, Close
    <3> QED BY <1>4, <3>1, <3>2
  <2> QED BY <1>7, <2>2, <2>3, <2>4
<1>13. ASSUME NEW g \in Generators, RebootProcess(g)
       PROVE  FreshCodes'
  <2> DEFINE ts == {t \in Threads : GeneratorOf[t] = g}
  <2>1. ts \in SUBSET Threads /\ Close(ts)
    BY <1>13 DEF RebootProcess
  <2>2. attempts' = attempts
    BY <2>1 DEF Close
  <2>3. \A u \in Threads : code'[u] \in Codes => code'[u] = code[u]
    BY <1>6, <1>13 DEF RebootProcess
  <2>4. Stored' \subseteq Stored
    BY <2>1 DEF Close, Closed, Stored
  <2> QED BY <1>4, <1>7, <2>2, <2>3, <2>4
<1>14. CASE UNCHANGED createVars
  <2>1. Stored' = Stored /\ attempts' = attempts /\ code' = code
    BY <1>14 DEF createVars, vars, Stored
  <2> QED BY <1>4, <1>7, <2>1
<1> QED BY <1>8, <1>9, <1>10, <1>11, <1>12, <1>13, <1>14 DEF CreateNext

LEMMA NextCreateInv ==
  IInv /\ GenInv /\ GenInv' /\ CreateInv /\ [CreateNext]_createVars => CreateInv'
<1> SUFFICES ASSUME IInv, GenInv, GenInv', CreateInv, [CreateNext]_createVars
             PROVE  CreateInv'
  OBVIOUS
<1>1. Cause' \/ FreshCodes'
  BY FreshCodesNext
<1>2. code' \in [Threads -> CodeValues]
  <2>0. code \in [Threads -> CodeValues] /\ NoCode \in CodeValues /\ Spinning \in CodeValues
    BY DEF CreateInv, CodeValues
  <2>1. ASSUME NEW t \in Threads, NextCode(t)
        PROVE  code' \in [Threads -> CodeValues]
    <3> DEFINE g == GeneratorOf[t]
    <3>1. g \in Generators
      BY GeneratorsAssumption
    <3>2. issued'[g] \in Seq(Entries) /\ issued'[g] # <<>>
      <4>1. issued[g] \in Seq(Entries)
        BY <3>1 DEF GenInv, GenTypeOK
      <4>2. PICK now \in Readings(g) : Issue(g, now)
        BY <2>1 DEF NextCode, NextId
      <4>3. issued'[g] # <<>>
        <5>1. issued'[g] = Append(issued[g], Entry(g, now))
          BY <3>1, <4>2 DEF Issue, GenInv, GenTypeOK
        <5> QED BY <4>1, <5>1
      <4>4. issued'[g] \in Seq(Entries)
        BY <3>1 DEF GenInv, GenTypeOK
      <4> QED BY <4>3, <4>4
    <3>3. Len(issued'[g]) \in DOMAIN issued'[g]
      BY <3>2
    <3>4. IdOf(Last(issued'[g])) \in Nat
      BY <3>1, <3>3, NextIdsAreNumbers DEF Last
    <3>5. CodeOf(IdOf(Last(issued'[g]))) \in CodeValues
      BY <3>4 DEF CodeValues
    <3> QED BY <2>0, <2>1, <3>5 DEF NextCode
  <2>2. ASSUME NEW t \in Threads, AwaitClock(t) \/ ClockRefused(t) \/ StoreCode(t) \/ OtherStep(t)
        PROVE  code' \in [Threads -> CodeValues]
    BY <2>0, <2>2 DEF AwaitClock, ClockRefused, StoreCode, OtherStep
  <2>3. ASSUME NEW g \in Generators, RebootProcess(g)
        PROVE  code' \in [Threads -> CodeValues]
    BY <2>0, <2>3 DEF RebootProcess
  <2> QED BY <2>0, <2>1, <2>2, <2>3 DEF CreateNext, createVars
<1> QED BY <1>1, <1>2 DEF CreateInv

THEOREM CreateInvariance == CreateSpec => [](IInv /\ GenInv /\ CreateInv)
<1>1. CreateSpec => []IInv
  BY CreateIsALinkStore, Invariance, PTL
<1>2. CreateSpec => []GenInv
  BY CreateIsGenerators, GenInvariance, PTL
<1> QED BY <1>1, <1>2, InitCreateInv, NextCreateInv, PTL DEF CreateSpec

(* A create meets a code that is taken only when two processes share an    *)
(* INSTANCE_ID or one came up behind its own past: whatever fails, waits,  *)
(* retries or dies besides, no code comes twice (create_link).             *)
THEOREM CollisionsHaveTheirCause == CreateSpec => []CollisionHasItsCause
<1>1. CreateInv => CollisionHasItsCause
  <2> SUFFICES ASSUME CreateInv, NEW t \in Threads, attempts[t] > 0, ~Cause
               PROVE  FALSE
    BY DEF CollisionHasItsCause, Cause
  <2>1. attempts[t] = 0
    BY DEF CreateInv, FreshCodes
  <2> QED BY <2>1
<1> QED BY <1>1, CreateInvariance, PTL

(* What holds of the store and of the generators holds of the service that *)
(* creates links with them (create_link).                                  *)
THEOREM CreateKeepsTheStore ==
  CreateSpec => /\ [](TypeOK /\ CodeHasOneOwner /\ BlindOnlyAfterLocked /\ LockLeftOnlyByGivingUp)
                /\ ImplementsLinkTable
BY CreateIsALinkStore, TypeCorrect, OneOwner, BlindOnlyThen, LockLeftOnlyThen, StoreIsATable, PTL

THEOREM CreateKeepsTheGenerators ==
  CreateSpec => [](GenTypeOK /\ IdsIncreaseInALife /\ RepeatHasItsCause /\ CodeTellsItsOrigin)
BY CreateIsGenerators, GenTypeCorrect, IdsIncrease, RepeatsHaveTheirCause, CodesTellTheirOrigin, PTL
=============================================================================
