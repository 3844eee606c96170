---------------------------- MODULE Invalidation ----------------------------
(***************************************************************************)
(* The cross-instance cache invalidation log of the URL shortener          *)
(* (invalidation.py: SqliteInvalidationBus, InvalidationPoller) and the    *)
(* takedown path that publishes to it (abuse.py: TakedownList.add; app.py: *)
(* takedown).                                                              *)
(*                                                                         *)
(* The log is a table with an AUTOINCREMENT key shared by all instances.   *)
(* Every instance keeps a cursor into it in its own memory.  Two kinds of  *)
(* threads of one instance run bus.poll on that one cursor: the background *)
(* poller, and every takedown handler, which drains the log before it      *)
(* answers.  bus.poll takes its lock only to read and to write the cursor, *)
(* so its four parts are separate steps here.                              *)
(*                                                                         *)
(* A cached copy is represented by its stamp: the length of the log at the *)
(* moment the copy was put into the cache.                                 *)
(***************************************************************************)
EXTENDS Integers, Sequences

CONSTANTS Instances,    \* processes that share the data directory
          Admins,       \* threads of one instance that serve /admin/takedown
          Poller,       \* the background poller thread of one instance
          Codes,        \* short codes
          NoCode,       \* no takedown in progress
          MaxSeq,       \* bound: rows in the log
          MaxRestarts   \* bound: restarts over all instances

ASSUME PollerAssumption == Poller \notin Admins
ASSUME BoundsAssumption == MaxSeq \in Nat /\ MaxRestarts \in Nat

VARIABLES log,       \* table invalidations: log[seq] is the code of row seq
          cursor,    \* _cursors, per instance, in that instance's memory
          cache,     \* cache[i][c]: stamp of i's cached copy of c, or Absent
          poll,      \* the call each thread of an instance is executing
          restarts   \* restarts so far

vars == <<log, cursor, cache, poll, restarts>>

Absent == -1

Workers == Admins \cup {Poller}

(* A thread outside bus.poll and outside the takedown handler. *)
Idle == [pc |-> "idle", from |-> 0, next |-> 0, last |-> 0, code |-> NoCode, seq |-> 0]

PollState ==
  [pc   : {"idle", "purge", "publish", "cursor", "select", "apply", "advance", "reply"},
   from : Nat,                   \* local `cursor` of bus.poll
   next : Nat, last : Nat,       \* rows still to apply: next..last
   code : Codes \cup {NoCode},    \* takedown: the code being withdrawn
   seq  : Nat]                   \* takedown: what publish returned

Init ==
  /\ log = <<>>
  /\ cursor = [i \in Instances |-> 0]
  /\ cache = [i \in Instances |-> [c \in Codes |-> Absent]]
  /\ poll = [i \in Instances |-> [w \in Workers |-> Idle]]
  /\ restarts = 0

At(i, w, pc) == poll[i][w].pc = pc

Set(i, w, state) == poll' = [poll EXCEPT ![i][w] = state]

Goto(i, w, pc) == poll' = [poll EXCEPT ![i][w].pc = pc]

Evict(i, c) == cache' = [cache EXCEPT ![i][c] = Absent]

(* The thread once its call of bus.poll is over: the poller waits for its  *)
(* next round, a takedown handler goes on to write its response.           *)
Finished(i, w) ==
  IF w = Poller THEN Idle
  ELSE [Idle EXCEPT !.pc = "reply", !.code = poll[i][w].code, !.seq = poll[i][w].seq]

-----------------------------------------------------------------------------
(* bus.poll: read the cursor under the lock.  Any round of the poller      *)
(* thread, and drain_now of a takedown handler, begins here.               *)
ReadCursor(i, w) ==
  /\ At(i, w, IF w = Poller THEN "idle" ELSE "cursor")
  /\ Set(i, w, [poll[i][w] EXCEPT !.pc = "select", !.from = cursor[i]])
  /\ UNCHANGED <<log, cursor, cache, restarts>>

(* Mutation: rows are claimed when they are read, at-most-once delivery. *)
SelectRows_ClaimFirst(i, w) ==
  /\ At(i, w, "select")
  /\ LET from == poll[i][w].from
     IN  Set(i, w, IF from < Len(log)
                   THEN [poll[i][w] EXCEPT !.pc = "apply", !.next = from + 1,
                                           !.last = Len(log)]
                   ELSE Finished(i, w))
  /\ cursor' = [cursor EXCEPT ![i] = Len(log)]
  /\ UNCHANGED <<log, cache, restarts>>

(* SELECT ... WHERE seq > cursor ORDER BY seq, then the early return when  *)
(* there is no row.                                                        *)
SelectRows(i, w) ==
  /\ At(i, w, "select")
  /\ LET from == poll[i][w].from
     IN  Set(i, w, IF from < Len(log)
                   THEN [poll[i][w] EXCEPT !.pc = "apply", !.next = from + 1,
                                           !.last = Len(log)]
                   ELSE Finished(i, w))
  /\ UNCHANGED <<log, cursor, cache, restarts>>

(* Mutation: an exception ends the poller thread. *)
SelectFails_ThreadDies(i, w) ==
  /\ At(i, w, "select")
  /\ Set(i, w, [Idle EXCEPT !.pc = "dead"])
  /\ UNCHANGED <<log, cursor, cache, restarts>>

(* The SELECT raises.  The poller swallows it and tries again next round;  *)
(* in drain_now it ends the takedown handler with a 500.                   *)
SelectFails(i, w) ==
  /\ At(i, w, "select")
  /\ Set(i, w, Idle)
  /\ UNCHANGED <<log, cursor, cache, restarts>>

(* One iteration of the loop over the rows, without the eviction: the part *)
(* that a composition with a detailed cache shares.                        *)
NextRow(i, w) ==
  /\ At(i, w, "apply")
  /\ LET p == poll[i][w]
     IN  Set(i, w, [p EXCEPT !.next = p.next + 1,
                             !.pc = IF p.next = p.last THEN "advance" ELSE "apply"])

(* apply_fn(code) is cache.invalidate. *)
ApplyRow(i, w) ==
  /\ NextRow(i, w)
  /\ Evict(i, log[poll[i][w].next])
  /\ UNCHANGED <<log, cursor, restarts>>

(* Write the cursor under the lock.  Nothing compares it with its value    *)
(* now: another thread of the instance may have advanced it meanwhile.     *)
Advance(i, w) ==
  /\ At(i, w, "advance")
  /\ cursor' = [cursor EXCEPT ![i] = poll[i][w].last]
  /\ Set(i, w, Finished(i, w))
  /\ UNCHANGED <<log, cache, restarts>>

-----------------------------------------------------------------------------
(* POST /admin/takedown/{code}: the handler starts. *)
StartTakedown(i, w, c) ==
  /\ w \in Admins
  /\ At(i, w, "idle")
  /\ Set(i, w, [Idle EXCEPT !.pc = "purge", !.code = c])
  /\ UNCHANGED <<log, cursor, cache, restarts>>

(* TakedownList.add: purge(code) on the local cache comes first. *)
Purge(i, w) ==
  /\ At(i, w, "purge")
  /\ Evict(i, poll[i][w].code)
  /\ Goto(i, w, "publish")
  /\ UNCHANGED <<log, cursor, restarts>>

(* bus.publish: one committed INSERT. *)
Publish(i, w) ==
  /\ At(i, w, "publish")
  /\ Len(log) < MaxSeq
  /\ log' = Append(log, poll[i][w].code)
  /\ Set(i, w, [poll[i][w] EXCEPT !.pc = "cursor", !.seq = Len(log')])
  /\ UNCHANGED <<cursor, cache, restarts>>

(* bus.publish raises: the handler ends with a 500 after its local purge. *)
PublishFails(i, w) ==
  /\ At(i, w, "publish")
  /\ Set(i, w, Idle)
  /\ UNCHANGED <<log, cursor, cache, restarts>>

(* The response is written. *)
Reply(i, w) ==
  /\ At(i, w, "reply")
  /\ Set(i, w, Idle)
  /\ UNCHANGED <<log, cursor, cache, restarts>>

-----------------------------------------------------------------------------
(* cache.put by a resolve that missed: copies of other codes may have to   *)
(* leave to make room.                                                     *)
Put(i, c, evicted) ==
  /\ cache' = [cache EXCEPT ![i] = [d \in Codes |->
                 IF d = c THEN Len(log) ELSE IF d \in evicted THEN Absent ELSE @[d]]]
  /\ UNCHANGED <<log, cursor, poll, restarts>>

(* Copies that expired are deleted by get, all of them by flush-cache. *)
Drop(i, dropped) ==
  /\ cache' = [cache EXCEPT ![i] = [d \in Codes |->
                 IF d \in dropped THEN Absent ELSE @[d]]]
  /\ UNCHANGED <<log, cursor, poll, restarts>>

(* Mutation: register stores from_seq itself when it is None. *)
Reborn_NoDefault(i) ==
  /\ restarts < MaxRestarts
  /\ restarts' = restarts + 1
  /\ cursor' = [cursor EXCEPT ![i] = Absent]
  /\ poll' = [poll EXCEPT ![i] = [w \in Workers |-> Idle]]
  /\ UNCHANGED log

(* The process of i dies, for whatever reason, and a new one registers     *)
(* from sequence zero.  Only the log survives.                             *)
Reborn(i) ==
  /\ restarts < MaxRestarts
  /\ restarts' = restarts + 1
  /\ cursor' = [cursor EXCEPT ![i] = 0]
  /\ poll' = [poll EXCEPT ![i] = [w \in Workers |-> Idle]]
  /\ UNCHANGED log

(* The cache of the new process is empty. *)
Restart(i) ==
  /\ Reborn(i)
  /\ cache' = [cache EXCEPT ![i] = [c \in Codes |-> Absent]]

PollStep(i, w) ==
  \/ ReadCursor(i, w)
  \/ SelectRows(i, w)
  \/ SelectFails(i, w)
  \/ ApplyRow(i, w)
  \/ Advance(i, w)

TakedownStep(i, w) ==
  \/ \E c \in Codes : StartTakedown(i, w, c)
  \/ Purge(i, w)
  \/ Publish(i, w)
  \/ PublishFails(i, w)
  \/ Reply(i, w)

Next ==
  \E i \in Instances :
    \/ \E w \in Workers : PollStep(i, w) \/ TakedownStep(i, w)
    \/ \E c \in Codes, evicted \in SUBSET Codes : Put(i, c, evicted)
    \/ \E dropped \in SUBSET Codes : Drop(i, dropped)
    \/ Restart(i)

Spec == Init /\ [][Next]_vars

(* The poller thread of every running instance keeps running (its loop     *)
(* survives any exception), and a database that fails does not fail for    *)
(* ever: every round that could read the log often enough reads it.        *)
PollerFairness ==
  \A i \in Instances :
    /\ WF_vars(ReadCursor(i, Poller))
    /\ SF_vars(SelectRows(i, Poller))
    /\ WF_vars(ApplyRow(i, Poller))
    /\ WF_vars(Advance(i, Poller))

FairSpec == Spec /\ PollerFairness

-----------------------------------------------------------------------------
(* Every variable has its type. *)
TypeOK ==
  /\ log \in Seq(Codes)
  /\ cursor \in [Instances -> Nat]
  /\ cache \in [Instances -> [Codes -> Nat \cup {Absent}]]
  /\ poll \in [Instances -> [Workers -> PollState]]
  /\ restarts \in Nat

(* Row k is settled on instance i: the copy i has of that code, if any,    *)
(* was cached after row k was published.                                   *)
Settled(i, k) == cache[i][log[k]] # Absent => cache[i][log[k]] >= k

(* What the cursor promises: no copy that was cached before row k was      *)
(* published is left on an instance whose cursor has passed k, whatever    *)
(* the poller and the takedown handlers of that instance do at once, and   *)
(* across failed polls and restarts (invalidation.py, SqliteInvalidationBus*)
(* .poll: "a crash mid-poll replays rather than skips").                   *)
NoStaleCopyBehindCursor ==
  \A i \in Instances : \A k \in 1..cursor[i] : k \in DOMAIN log /\ Settled(i, k)

(* A takedown handler that is about to answer has settled its own row on   *)
(* its instance (drain_now: "its own cache is correct before the response  *)
(* is written").                                                           *)
OwnRowSettledOnReply ==
  \A i \in Instances : \A w \in Admins :
    At(i, w, "reply") => /\ poll[i][w].seq \in DOMAIN log
                         /\ Settled(i, poll[i][w].seq)

(* Every published row is passed by the cursor of every instance in the    *)
(* end, restarts and failed polls included.                                *)
EveryRowReachesEveryInstance ==
  \A i \in Instances : \A k \in 1..MaxSeq : (Len(log) >= k) ~> (cursor[i] >= k)
=============================================================================
