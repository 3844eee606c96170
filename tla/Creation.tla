------------------------------ MODULE Creation ------------------------------
(***************************************************************************)
(* POST /links on instances with snowflake codes (app.py: create_link):    *)
(* CodeAllocator.allocate takes codes from the Snowflake generator of its  *)
(* process and inserts them through the connection that LinkStore gives    *)
(* its thread.  Processes die and come back; clocks move.                  *)
(***************************************************************************)
EXTENDS LinkStore, Snowflake

CONSTANTS GeneratorOf,   \* the process of each thread
          NoCode,        \* no code in hand
          Spinning       \* in next_id, with its lock, waiting for the clock

ASSUME GeneratorsAssumption == GeneratorOf \in [Threads -> Generators]
ASSUME NoCodeAssumption == NoCode \notin Codes /\ Spinning \notin Codes

VARIABLE code            \* local variable of allocate, per thread

createVars == <<vars, genVars, code>>

CodeOf(id) == EncodeBase62(id)

CreateInit ==
  /\ Init
  /\ GenInit
  /\ code = [t \in Threads |-> NoCode]

(* t executes next_id: it has the generator's lock, or gets it. *)
InNextId(t) ==
  /\ pc[t] = "create"
  /\ \/ code[t] = Spinning
     \/ code[t] = NoCode /\ \A u \in Threads : GeneratorOf[u] = GeneratorOf[t] => code[u] # Spinning

(* allocate: next_code returns. *)
NextCode(t) ==
  /\ InNextId(t)
  /\ NextId(GeneratorOf[t])
  /\ code' = [code EXCEPT ![t] = CodeOf(IdOf(Last(issued'[GeneratorOf[t]])))]
  /\ UNCHANGED vars

(* allocate: next_code spins. *)
AwaitClock(t) ==
  /\ InNextId(t)
  /\ SpinBehind(GeneratorOf[t]) \/ SpinExhausted(GeneratorOf[t])
  /\ code' = [code EXCEPT ![t] = Spinning]
  /\ UNCHANGED vars

(* allocate: next_code raises, and create_link answers 500. *)
ClockRefused(t) ==
  /\ InNextId(t)
  /\ RefuseId(GeneratorOf[t])
  /\ NextCodeFails(t)
  /\ UNCHANGED code

(* allocate: store.create with the code, which has a row or has none, or   *)
(* does not get the lock.                                                  *)
StoreCode(t) ==
  /\ pc[t] = "create"
  /\ code[t] \in Codes
  /\ Insert(t, code[t]) \/ InsertTaken(t, code[t]) \/ Locked(t)
  /\ code' = [code EXCEPT ![t] = NoCode]
  /\ UNCHANGED genVars

(* What the thread does besides; it may end while it is idle, and a commit *)
(* may fail.                                                               *)
OtherStep(t) ==
  /\ \/ StartCreate(t) \/ Commit(t)
     \/ StartFlush(t) \/ Upsert(t) \/ (pc[t] = "flush" /\ Locked(t))
     \/ Get(t)
     \/ pc[t] \in {"idle", "commit"} /\ Close({t})
  /\ UNCHANGED <<genVars, code>>

(* The process of g dies and starts again. *)
RebootProcess(g) ==
  /\ Reboot(g)
  /\ Close({t \in Threads : GeneratorOf[t] = g})
  /\ code' = [t \in Threads |-> IF GeneratorOf[t] = g THEN NoCode ELSE code[t]]

CreateNext ==
  \/ \E t \in Threads :
       NextCode(t) \/ AwaitClock(t) \/ ClockRefused(t) \/ StoreCode(t) \/ OtherStep(t)
  \/ \E g \in Generators : RebootProcess(g)

CreateSpec == CreateInit /\ [][CreateNext]_createVars

-----------------------------------------------------------------------------
(* A create meets a code that is taken only if two processes share an      *)
(* INSTANCE_ID ("an ops bug", create_link) or one came up behind its own   *)
(* past, which the comment there does not know; failures to get the lock,  *)
(* retries and clocks that move otherwise make no code come twice.         *)
CollisionHasItsCause ==
  (\E t \in Threads : attempts[t] > 0) =>
    \/ \E g, h \in Generators : g # h /\ instance[g] = instance[h]
    \/ \E g \in Generators : setBack[g] # {}
=============================================================================
