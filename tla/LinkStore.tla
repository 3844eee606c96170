----------------------------- MODULE LinkStore -----------------------------
(***************************************************************************)
(* store.py: LinkStore, with the allocator that calls its create (ids.py). *)
(*                                                                         *)
(* Every thread of every instance keeps one connection to the SQLite file. *)
(* Python opens a transaction (BEGIN, deferred) before the first INSERT    *)
(* and ends it in commit(); a statement that raises ends nothing, and no   *)
(* code here rolls back.  SQLite, in WAL mode: one connection at a time    *)
(* has the write lock, from its INSERT to the end of its transaction; a    *)
(* SELECT outside of a transaction reads what is committed, one inside     *)
(* pins a snapshot; a connection whose snapshot is no longer the newest    *)
(* cannot write.                                                           *)
(***************************************************************************)
EXTENDS Integers

CONSTANTS Threads,      \* threads, of any instance, with a connection each
          Codes,        \* codes the generators may come up with
          MaxAttempts   \* max_attempts of the allocator

ASSUME AttemptsAssumption == MaxAttempts \in Nat /\ MaxAttempts > 0

VARIABLES links,      \* committed rows of the table links
          conn,       \* the connection of each thread
          pc,         \* what each thread is doing
          attempts,   \* attempts of allocate so far
          returned,   \* history: how many creates returned each code
          last        \* history: how the last write of a connection ended

vars == <<links, conn, pc, attempts, returned, last>>

(* How far the transaction of a connection is: there is none; BEGIN was     *)
(* executed and nothing else; a SELECT has pinned a snapshot, which is the *)
(* newest or an old one; an INSERT has got the write lock.                 *)
Stages == {"none", "begun", "newest", "old", "writing"}

(* `sees` is the table in an old snapshot, `added` what was inserted and is *)
(* not committed.                                                          *)
Connections == [tx : Stages, sees : SUBSET Codes, added : SUBSET Codes]

PCs == {"idle", "create", "flush", "commit"}

Closed == [tx |-> "none", sees |-> {}, added |-> {}]

Writing(rows) == [tx |-> "writing", sees |-> {}, added |-> rows]

(* next_code of a random generator, and what a snowflake generator can do *)
(* when INSTANCE_ID is not unique: any code, whatever came before.         *)
NextCodes == Codes

(* What a SELECT on the connection of t finds. *)
View(t) == IF conn[t].tx = "old" THEN conn[t].sees ELSE links \cup conn[t].added

(* Whether an INSERT of t has the write lock, or gets it. *)
MayWrite(t) ==
  \/ conn[t].tx = "writing"
  \/ conn[t].tx # "old" /\ \A u \in Threads : conn[u].tx # "writing"

Init ==
  /\ links = {}
  /\ conn = [t \in Threads |-> Closed]
  /\ pc = [t \in Threads |-> "idle"]
  /\ attempts = [t \in Threads |-> 0]
  /\ returned = [c \in Codes |-> 0]
  /\ last = [t \in Threads |-> "ok"]

-----------------------------------------------------------------------------
(* allocate is called. *)
StartCreate(t) ==
  /\ pc[t] = "idle"
  /\ pc' = [pc EXCEPT ![t] = "create"]
  /\ attempts' = [attempts EXCEPT ![t] = 0]
  /\ UNCHANGED <<links, conn, returned, last>>

(* Mutation: INSERT OR IGNORE. *)
Insert_OrIgnore(t, c) ==
  /\ pc[t] = "create"
  /\ MayWrite(t)
  /\ conn' = [conn EXCEPT ![t] = Writing({c})]
  /\ pc' = [pc EXCEPT ![t] = "commit"]
  /\ UNCHANGED <<links, attempts, returned, last>>

(* Mutation: create returns before commit(). *)
Insert_NoCommit(t, c) ==
  /\ pc[t] = "create"
  /\ MayWrite(t)
  /\ c \notin View(t)
  /\ conn' = [conn EXCEPT ![t] = Writing({c})]
  /\ pc' = [pc EXCEPT ![t] = "idle"]
  /\ returned' = [returned EXCEPT ![c] = @ + 1]
  /\ UNCHANGED <<links, attempts, last>>

(* create: the INSERT of a code that has no row. *)
Insert(t, c) ==
  /\ pc[t] = "create"
  /\ MayWrite(t)
  /\ c \notin View(t)
  /\ conn' = [conn EXCEPT ![t] = Writing({c})]
  /\ pc' = [pc EXCEPT ![t] = "commit"]
  /\ UNCHANGED <<links, attempts, returned, last>>

(* Mutation: one attempt too many. *)
InsertTaken_OneMore(t, c) ==
  /\ pc[t] = "create"
  /\ MayWrite(t)
  /\ c \in View(t)
  /\ conn' = [conn EXCEPT ![t] = Writing({})]
  /\ attempts' = [attempts EXCEPT ![t] = @ + 1]
  /\ IF attempts[t] <= MaxAttempts
     THEN UNCHANGED <<pc, last>>
     ELSE /\ pc' = [pc EXCEPT ![t] = "idle"]
          /\ last' = [last EXCEPT ![t] = "gave up"]
  /\ UNCHANGED <<links, returned>>

(* create: IntegrityError becomes KeyError, and the transaction stays open *)
(* with its lock.  allocate tries the next code, or gives up.              *)
InsertTaken(t, c) ==
  /\ pc[t] = "create"
  /\ MayWrite(t)
  /\ c \in View(t)
  /\ conn' = [conn EXCEPT ![t] = Writing({})]
  /\ attempts' = [attempts EXCEPT ![t] = @ + 1]
  /\ IF attempts'[t] < MaxAttempts
     THEN UNCHANGED <<pc, last>>
     ELSE /\ pc' = [pc EXCEPT ![t] = "idle"]
          /\ last' = [last EXCEPT ![t] = "gave up"]
  /\ UNCHANGED <<links, returned>>

(* next_code raises, and so does allocate: what an earlier collision left  *)
(* open stays open.                                                        *)
NextCodeFails(t) ==
  /\ pc[t] = "create"
  /\ pc' = [pc EXCEPT ![t] = "idle"]
  /\ last' = [last EXCEPT ![t] = IF conn[t].tx = "writing" THEN "gave up" ELSE @]
  /\ UNCHANGED <<links, conn, attempts, returned>>

(* record_hits_bulk is called. *)
StartFlush(t) ==
  /\ pc[t] = "idle"
  /\ pc' = [pc EXCEPT ![t] = "flush"]
  /\ UNCHANGED <<links, conn, attempts, returned, last>>

(* record_hits_bulk: the upserts, which never conflict. *)
Upsert(t) ==
  /\ pc[t] = "flush"
  /\ MayWrite(t)
  /\ conn' = [conn EXCEPT ![t] = Writing({})]
  /\ pc' = [pc EXCEPT ![t] = "commit"]
  /\ UNCHANGED <<links, attempts, returned, last>>

(* "database is locked": the lock was held whenever it was tried until the *)
(* busy timeout, or the snapshot is too old to write on.  BEGIN has been   *)
(* executed, and the exception leaves the transaction open.                *)
Locked(t) ==
  /\ pc[t] \in {"create", "flush"}
  /\ ~MayWrite(t)
  /\ conn' = [conn EXCEPT ![t].tx = IF @ = "none" THEN "begun" ELSE @]
  /\ pc' = [pc EXCEPT ![t] = "idle"]
  /\ last' = [last EXCEPT ![t] = "locked"]
  /\ UNCHANGED <<links, attempts, returned>>

(* commit(): what the transaction added is in the table, every snapshot is *)
(* an old one now, and create returns the link.                            *)
Commit(t) ==
  /\ pc[t] = "commit"
  /\ links' = links \cup conn[t].added
  /\ conn' = [u \in Threads |->
       IF u = t THEN Closed
       ELSE IF conn[u].tx = "newest" THEN [tx |-> "old", sees |-> links, added |-> {}]
       ELSE conn[u]]
  /\ returned' = [c \in Codes |-> IF c \in conn[t].added THEN returned[c] + 1 ELSE returned[c]]
  /\ pc' = [pc EXCEPT ![t] = "idle"]
  /\ last' = [last EXCEPT ![t] = "ok"]
  /\ UNCHANGED attempts

(* Mutation: the connection was not opened for autocommit: a SELECT begins *)
(* a transaction, too.                                                     *)
Get_Begins(t) ==
  /\ pc[t] = "idle"
  /\ conn[t].tx \in {"none", "begun"}
  /\ conn' = [conn EXCEPT ![t].tx = "newest"]
  /\ UNCHANGED <<links, pc, attempts, returned, last>>

(* get (or hits, or count): a SELECT inside of an open transaction pins    *)
(* its snapshot; any other changes nothing.                                *)
Get(t) ==
  /\ pc[t] = "idle"
  /\ conn[t].tx = "begun"
  /\ conn' = [conn EXCEPT ![t].tx = "newest"]
  /\ UNCHANGED <<links, pc, attempts, returned, last>>

(* Threads end, or all those of a process die: SQLite rolls their          *)
(* transactions back.  So it does with the one of a commit() that raises   *)
(* because the disk is full or fails.                                      *)
Close(ts) ==
  /\ conn' = [t \in Threads |-> IF t \in ts THEN Closed ELSE conn[t]]
  /\ pc' = [t \in Threads |-> IF t \in ts THEN "idle" ELSE pc[t]]
  /\ last' = [t \in Threads |-> IF t \in ts THEN "ok" ELSE last[t]]
  /\ UNCHANGED <<links, attempts, returned>>

Next ==
  \/ \E t \in Threads :
       \/ StartCreate(t)
       \/ NextCodeFails(t)
       \/ \E c \in NextCodes : Insert(t, c) \/ InsertTaken(t, c)
       \/ StartFlush(t)
       \/ Upsert(t)
       \/ Locked(t)
       \/ Commit(t)
       \/ Get(t)
  \/ \E ts \in SUBSET Threads : Close(ts)

Spec == Init /\ [][Next]_vars

-----------------------------------------------------------------------------
(* Every variable has its type, and an allocation that goes on has an      *)
(* attempt left.                                                           *)
TypeOK ==
  /\ links \subseteq Codes
  /\ conn \in [Threads -> Connections]
  /\ pc \in [Threads -> PCs]
  /\ attempts \in [Threads -> 0..MaxAttempts]
  /\ returned \in [Codes -> Nat]
  /\ last \in [Threads -> {"ok", "locked", "gave up"}]
  /\ \A t \in Threads : pc[t] = "create" => attempts[t] < MaxAttempts

(* A code is returned by one create at most, on whatever instance, and its *)
(* row is committed by then ("`code` is the primary key, so the INSERT     *)
(* already reports the conflict").                                         *)
CodeHasOneOwner ==
  \A c \in Codes : returned[c] <= 1 /\ (returned[c] = 1 => c \in links)

(* A connection that would not find a link that was created has failed to  *)
(* write before: nothing else leaves a thread in an old snapshot.          *)
BlindOnlyAfterLocked ==
  \A t \in Threads, c \in Codes : returned[c] = 1 /\ c \notin View(t) => last[t] = "locked"

(* The write lock of the file is left behind by an allocation that raised  *)
(* after a collision, for want of attempts or of a code, and by nothing    *)
(* else: collisions that are retried with success, flushes and failures to *)
(* get the lock do not leave it.                                           *)
LockLeftOnlyByGivingUp ==
  \A t \in Threads : pc[t] = "idle" /\ conn[t].tx = "writing" => last[t] = "gave up"

(* Whatever fails, the store is the table of LinkTable: a create is one     *)
(* step, at its commit, and no failure undoes or repeats it.               *)
Table == INSTANCE LinkTable WITH
           table <- links, found <- [t \in Threads |-> View(t) \cap links]
ImplementsLinkTable == Table!Spec

-----------------------------------------------------------------------------
(* test_a_created_link_reads_back, on any thread: a link that create       *)
(* returned is found by every get from then on.                            *)
CreatedLinkReadsBack ==
  \A t \in Threads, c \in Codes : pc[t] = "idle" /\ returned[c] = 1 => c \in View(t)
=============================================================================
