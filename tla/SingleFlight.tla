---------------------------- MODULE SingleFlight ----------------------------
(***************************************************************************)
(* store.py: SingleFlight.do, which collapses concurrent calls for one key *)
(* into one run of fn.                                                     *)
(*                                                                         *)
(* A call object outlives the leader's do(): waiters that have not woken   *)
(* up yet still read it.  Calls is the set of objects; Python allocates a  *)
(* new one, so a leader takes one that no thread and no key refers to.     *)
(***************************************************************************)
EXTENDS FiniteSets

CONSTANTS Threads,    \* threads of the process that call do()
          Keys,
          Calls,      \* identities of _Call objects
          Values,     \* what fn may return
          NoCall,     \* _calls has no entry for the key
          Raised,     \* fn raised: the error travels instead of a value
          Unset       \* neither value nor error is set yet

ASSUME KeysAssumption == Keys # {}
ASSUME CallsAssumption == NoCall \notin Calls
ASSUME ResultsAssumption == Raised \notin Values /\ Unset \notin Values \cup {Raised}

VARIABLES calls,      \* _calls: key -> call object
          call,       \* the call objects: what fn produced, and the event done
          thread      \* where each thread is inside do()

vars == <<calls, call, thread>>

Results == Values \cup {Raised}

NewCall == [result |-> Unset, done |-> FALSE]

(* Program counters: outside do(); in call.done.wait(); the leader inside  *)
(* fn, before its pop, before its done.set(); about to return.             *)
PCs == {"out", "wait", "run", "pop", "set", "return"}

Outside(t) == thread[t].pc = "out"

(* Thread t will still set the event of its call. *)
Leads(t) == thread[t].pc \in {"run", "pop", "set"}

Holds(t, c) == ~Outside(t) /\ thread[t].call = c

Fresh(c) == (\A k \in Keys : calls[k] # c) /\ (\A t \in Threads : ~Holds(t, c))

InitThread == [t \in Threads |-> [pc |-> "out", key |-> CHOOSE k \in Keys : TRUE,
                                  call |-> NoCall, result |-> Unset]]

Init ==
  /\ calls = [k \in Keys |-> NoCall]
  /\ call = [c \in Calls |-> NewCall]
  /\ thread = InitThread

(* Mutation: one reusable call object per process instead of a new one. *)
Lead_NotFresh(t, k) ==
  /\ Outside(t)
  /\ calls[k] = NoCall
  /\ \E c \in Calls :
       /\ \A j \in Keys : calls[j] # c
       /\ calls' = [calls EXCEPT ![k] = c]
       /\ call' = [call EXCEPT ![c] = NewCall]
       /\ thread' = [thread EXCEPT ![t] = [pc |-> "run", key |-> k, call |-> c,
                                           result |-> Unset]]

(* do(), under _guard: no call in flight, this thread becomes the leader. *)
Lead(t, k) ==
  /\ Outside(t)
  /\ calls[k] = NoCall
  /\ \E c \in Calls :
       /\ Fresh(c)
       /\ calls' = [calls EXCEPT ![k] = c]
       /\ call' = [call EXCEPT ![c] = NewCall]
       /\ thread' = [thread EXCEPT ![t] = [pc |-> "run", key |-> k, call |-> c,
                                           result |-> Unset]]

(* Mutation: the entry is read again after the check, outside the lock. *)
Join_Unlocked(t, k) ==
  /\ Outside(t)
  /\ thread' = [thread EXCEPT ![t] = [pc |-> "wait", key |-> k, call |-> calls[k],
                                      result |-> Unset]]
  /\ UNCHANGED <<calls, call>>

(* do(), under _guard: a call is in flight, this thread waits for it. *)
Join(t, k) ==
  /\ Outside(t)
  /\ calls[k] # NoCall
  /\ thread' = [thread EXCEPT ![t] = [pc |-> "wait", key |-> k, call |-> calls[k],
                                      result |-> Unset]]
  /\ UNCHANGED <<calls, call>>

(* Mutation: no finally, an exception leaves the entry and the event alone. *)
FnEnds_NoFinally(t, r) ==
  /\ thread[t].pc = "run"
  /\ call' = [call EXCEPT ![thread[t].call].result = r]
  /\ thread' = [thread EXCEPT ![t] = [@ EXCEPT !.pc = IF r = Raised THEN "return" ELSE "pop",
                                              !.result = r]]
  /\ UNCHANGED calls

(* fn() returns a value or raises; the call object has it. *)
FnEnds(t, r) ==
  /\ thread[t].pc = "run"
  /\ call' = [call EXCEPT ![thread[t].call].result = r]
  /\ thread' = [thread EXCEPT ![t] = [@ EXCEPT !.pc = "pop", !.result = r]]
  /\ UNCHANGED calls

(* finally, under _guard: the next caller starts a new call. *)
Pop(t) ==
  /\ thread[t].pc = "pop"
  /\ calls' = [calls EXCEPT ![thread[t].key] = NoCall]
  /\ thread' = [thread EXCEPT ![t].pc = "set"]
  /\ UNCHANGED call

(* finally: call.done.set(), outside the lock. *)
SetDone(t) ==
  /\ thread[t].pc = "set"
  /\ call' = [call EXCEPT ![thread[t].call].done = TRUE]
  /\ thread' = [thread EXCEPT ![t].pc = "return"]
  /\ UNCHANGED calls

(* Mutation: the waiter runs fn itself once the leader is done. *)
Wake_RunsFn(t) ==
  /\ thread[t].pc = "wait"
  /\ call[thread[t].call].done
  /\ thread' = [thread EXCEPT ![t].pc = "run"]
  /\ UNCHANGED <<calls, call>>

(* call.done.wait() returns, the waiter takes the error or the value. *)
Wake(t) ==
  /\ thread[t].pc = "wait"
  /\ call[thread[t].call].done
  /\ thread' = [thread EXCEPT ![t] = [@ EXCEPT !.pc = "return",
                                              !.result = call[thread[t].call].result]]
  /\ UNCHANGED <<calls, call>>

(* do() returns, or raises, to its caller. *)
Leave(t) ==
  /\ thread[t].pc = "return"
  /\ thread' = [thread EXCEPT ![t] = InitThread[t]]
  /\ UNCHANGED <<calls, call>>

Step(t) ==
  \/ \E k \in Keys : Lead(t, k) \/ Join(t, k)
  \/ \E r \in Results : FnEnds(t, r)
  \/ Pop(t)
  \/ SetDone(t)
  \/ Wake(t)
  \/ Leave(t)

Next == \E t \in Threads : Step(t)

Spec == Init /\ [][Next]_vars

(* Threads are scheduled, and fn ends: it is one SELECT with a timeout. *)
Fairness ==
  \A t \in Threads :
    /\ WF_vars(\E r \in Results : FnEnds(t, r))
    /\ WF_vars(Pop(t))
    /\ WF_vars(SetDone(t))
    /\ WF_vars(Wake(t))

FairSpec == Spec /\ Fairness

-----------------------------------------------------------------------------
(* Every variable has its type. *)
TypeOK ==
  /\ calls \in [Keys -> Calls \cup {NoCall}]
  /\ call \in [Calls -> [result : Results \cup {Unset}, done : BOOLEAN]]
  /\ thread \in [Threads -> [pc : PCs, key : Keys, call : Calls \cup {NoCall},
                             result : Results \cup {Unset}]]
  /\ \A t \in Threads : ~Outside(t) => thread[t].call \in Calls

(* "Exactly one caller runs fn": no two threads are inside fn for one key. *)
OneFnPerKey ==
  \A t, u \in Threads :
    (thread[t].pc = "run" /\ thread[u].pc = "run" /\ thread[t].key = thread[u].key) => t = u

(* A thread that waits has someone who will set its event, or it is set:   *)
(* nobody waits on a call that was abandoned (do: the finally clause).     *)
NoOrphanWaiter ==
  \A t \in Threads :
    thread[t].pc = "wait" =>
      \/ call[thread[t].call].done
      \/ \E u \in Threads : Leads(u) /\ thread[u].call = thread[t].call

(* "The rest wait and share its result": threads that return from one call *)
(* return the same thing, and it is something fn produced.                 *)
SharedResult ==
  \A t, u \in Threads :
    (thread[t].pc = "return" /\ thread[u].pc = "return" /\ thread[t].call = thread[u].call)
      => thread[t].result = thread[u].result /\ thread[t].result \in Results

(* Every thread that enters do() leaves it. *)
EveryCallerReturns ==
  \A t \in Threads : (~Outside(t)) ~> (thread[t].pc = "return")
=============================================================================
