------------------------------ MODULE Breaker ------------------------------
(***************************************************************************)
(* breaker.py: CircuitBreaker and the limiter it guards                    *)
(* (BreakerGuardedLimiter.check).                                          *)
(*                                                                         *)
(* allow, record_success and record_failure each run under the breaker's   *)
(* lock; the call of the store between them does not, and may take longer  *)
(* than the cooldown, so a result may be recorded in a state that has      *)
(* nothing to do with the one the call was admitted in.                    *)
(*                                                                         *)
(* The code compares now - opened_at with the cooldown and                 *)
(* consecutive_failures with the threshold, and nothing else: both are     *)
(* counted up to that value here and stay there.  The counters that only   *)
(* stats() reads are left out.                                             *)
(***************************************************************************)
EXTENDS Integers

CONSTANTS Threads,      \* threads that serve limited requests
          Threshold,    \* failure_threshold
          Cooldown      \* cooldown_s, in ticks of the clock

ASSUME ThresholdAssumption == Threshold \in Nat \ {0}
ASSUME CooldownAssumption == Cooldown \in Nat

VARIABLES state,       \* state
          failures,    \* consecutive_failures, up to Threshold
          opened,      \* time since opened_at, up to Cooldown; Never if None
          storeUp,     \* environment: the limiter's store answers
          request,     \* where the request of each thread is
          rested       \* history: time since a probe began, up to Cooldown

vars == <<state, failures, opened, storeUp, request, rested>>

Never == -1

UpTo(n, bound) == IF n < bound THEN n ELSE bound

(* Program counters: no request; inside limiter.check; the store answered, *)
(* or raised, and that is not recorded yet; allow() said no.               *)
InFlight == {"store", "good", "bad"}

NoRequest == [pc |-> "idle", probe |-> FALSE]

Probing(t) == request[t].probe /\ request[t].pc \in InFlight

Goto(t, pc) == request' = [request EXCEPT ![t].pc = pc]

Init ==
  /\ state = "closed"
  /\ failures = 0
  /\ opened = Never
  /\ storeUp \in BOOLEAN
  /\ request = [t \in Threads |-> NoRequest]
  /\ rested = Cooldown

-----------------------------------------------------------------------------
(* allow: the circuit is closed. *)
Admit(t) ==
  /\ request[t].pc = "idle"
  /\ state = "closed"
  /\ request' = [request EXCEPT ![t] = [pc |-> "store", probe |-> FALSE]]
  /\ UNCHANGED <<state, failures, opened, storeUp, rested>>

(* allow: the cooldown is over, this request is the probe. *)
AdmitProbe(t) ==
  /\ request[t].pc = "idle"
  /\ state = "open"
  /\ opened >= Cooldown
  /\ state' = "half_open"
  /\ request' = [request EXCEPT ![t] = [pc |-> "store", probe |-> TRUE]]
  /\ rested' = 0
  /\ UNCHANGED <<failures, opened, storeUp>>

(* Mutation: every refused request restarts the cooldown. *)
ShortCircuit_Extends(t) ==
  /\ request[t].pc = "idle"
  /\ \/ state = "open" /\ opened < Cooldown
     \/ state = "half_open"
  /\ opened' = 0
  /\ Goto(t, "open")
  /\ UNCHANGED <<state, failures, storeUp, rested>>

(* allow: no.  The request is decided without the store. *)
ShortCircuit(t) ==
  /\ request[t].pc = "idle"
  /\ \/ state = "open" /\ opened < Cooldown
     \/ state = "half_open"
  /\ Goto(t, "open")
  /\ UNCHANGED <<state, failures, opened, storeUp, rested>>

(* limiter.check comes to an end: the store answers, or it raises. *)
Answer(t) ==
  /\ request[t].pc = "store"
  /\ Goto(t, IF storeUp THEN "good" ELSE "bad")
  /\ UNCHANGED <<state, failures, opened, storeUp, rested>>

(* Mutation: opened_at is cleared, the state is left for allow to see. *)
RecordSuccess_StaysOpen(t) ==
  /\ request[t].pc = "good"
  /\ failures' = 0
  /\ state' = IF state = "half_open" THEN "closed" ELSE state
  /\ opened' = Never
  /\ request' = [request EXCEPT ![t] = NoRequest]
  /\ UNCHANGED <<storeUp, rested>>

(* record_success, whatever the state is by now. *)
RecordSuccess(t) ==
  /\ request[t].pc = "good"
  /\ failures' = 0
  /\ state' = "closed"
  /\ opened' = Never
  /\ request' = [request EXCEPT ![t] = NoRequest]
  /\ UNCHANGED <<storeUp, rested>>

Failures == UpTo(failures + 1, Threshold)

(* Mutation: failures count only while the circuit is closed. *)
RecordFailure_OnlyClosed(t) ==
  /\ request[t].pc = "bad"
  /\ failures' = IF state = "closed" THEN Failures ELSE failures
  /\ IF state = "closed" /\ Failures >= Threshold
     THEN state' = "open" /\ opened' = 0
     ELSE UNCHANGED <<state, opened>>
  /\ request' = [request EXCEPT ![t] = NoRequest]
  /\ UNCHANGED <<storeUp, rested>>

(* Mutation: a failed probe re-opens the circuit without a new opened_at. *)
RecordFailure_OldCooldown(t) ==
  /\ request[t].pc = "bad"
  /\ failures' = Failures
  /\ IF state = "half_open" \/ Failures >= Threshold
     THEN /\ state' = "open"
          /\ opened' = IF state = "half_open" THEN opened ELSE 0
     ELSE UNCHANGED <<state, opened>>
  /\ request' = [request EXCEPT ![t] = NoRequest]
  /\ UNCHANGED <<storeUp, rested>>

(* record_failure: half-open goes back to open, and so does any state once *)
(* there are failures enough; both start a cooldown.                       *)
RecordFailure(t) ==
  /\ request[t].pc = "bad"
  /\ failures' = Failures
  /\ IF state = "half_open" \/ Failures >= Threshold
     THEN state' = "open" /\ opened' = 0
     ELSE UNCHANGED <<state, opened>>
  /\ request' = [request EXCEPT ![t] = NoRequest]
  /\ UNCHANGED <<storeUp, rested>>

(* check returns the fail-open decision of a refused request. *)
Return(t) ==
  /\ request[t].pc = "open"
  /\ request' = [request EXCEPT ![t] = NoRequest]
  /\ UNCHANGED <<state, failures, opened, storeUp, rested>>

-----------------------------------------------------------------------------
Tick ==
  /\ opened' = IF opened = Never THEN Never ELSE UpTo(opened + 1, Cooldown)
  /\ rested' = UpTo(rested + 1, Cooldown)
  /\ UNCHANGED <<state, failures, storeUp, request>>

StoreChanges ==
  /\ storeUp' = ~storeUp
  /\ UNCHANGED <<state, failures, opened, request, rested>>

(* A request arrives: allow() decides. *)
Allow(t) == Admit(t) \/ AdmitProbe(t) \/ ShortCircuit(t)

(* A request goes on. *)
Proceed(t) == Answer(t) \/ RecordSuccess(t) \/ RecordFailure(t) \/ Return(t)

Next ==
  \/ \E t \in Threads : Allow(t) \/ Proceed(t)
  \/ Tick
  \/ StoreChanges

Spec == Init /\ [][Next]_vars

(* Calls of the store end (SQLite gives up after its busy timeout; a Redis *)
(* that accepts a call and never answers is outside of this), the clock    *)
(* advances, and requests keep coming: only they move the breaker.         *)
Fairness ==
  /\ \A t \in Threads : WF_vars(Proceed(t))
  /\ WF_vars(\E t \in Threads : Allow(t))
  /\ WF_vars(Tick)

FairSpec == Spec /\ Fairness

-----------------------------------------------------------------------------
(* Every variable has its type, and an open circuit has an opened_at.      *)
TypeOK ==
  /\ state \in {"closed", "open", "half_open"}
  /\ failures \in 0..Threshold
  /\ opened \in Never..Cooldown
  /\ state = "open" => opened # Never
  /\ storeUp \in BOOLEAN
  /\ request \in [Threads -> [pc : InFlight \cup {"idle", "open"}, probe : BOOLEAN]]
  /\ rested \in 0..Cooldown

(* A half-open circuit waits for a probe that is really in flight, however *)
(* many late answers of other calls were recorded meanwhile: it cannot be  *)
(* stuck refusing everyone (allow: "a probe is already in flight, everyone *)
(* else waits").                                                           *)
HalfOpenHasItsProbe == state = "half_open" => \E t \in Threads : Probing(t)

(* Two probes begin at least a cooldown apart ("a failed probe restarts    *)
(* the cooldown"), also when late failures move the state between them.    *)
ProbesAreACooldownApart ==
  [][state = "open" /\ state' = "half_open" => rested >= Cooldown]_vars

(* The circuit ends up where the store is: closed for good once the store  *)
(* stays up, and not closed once it stays down.                            *)
FollowsTheStore ==
  /\ <>[]storeUp => <>[](state = "closed")
  /\ <>[]~storeUp => <>[](state # "closed")

(* "Half-open admits exactly one probe": no two probes are in flight. *)
ExactlyOneProbe == \A t, u \in Threads : Probing(t) /\ Probing(u) => t = u
=============================================================================
