--------------------------- MODULE Breaker_proofs ---------------------------
(* What holds of the circuit breaker for any number of threads, any        *)
(* threshold and any cooldown.                                             *)
EXTENDS Breaker, TLAPS

(* A counter that is capped stays within its bound. *)
LEMMA UpToBound ==
  ASSUME NEW n \in Nat, NEW bound \in Nat
  PROVE  /\ UpTo(n, bound) \in 0..bound
         /\ UpTo(n, bound) <= n
         /\ n <= bound => UpTo(n, bound) = n
BY DEF UpTo

LEMMA FailuresBound ==
  ASSUME failures \in 0..Threshold
  PROVE  Failures \in 0..Threshold
BY ThresholdAssumption, UpToBound DEF Failures

LEMMA TypeInit == Init => TypeOK
BY ThresholdAssumption, CooldownAssumption DEF Init, TypeOK, NoRequest, InFlight, Never

LEMMA TypeStep == TypeOK /\ [Next]_vars => TypeOK'
<1> SUFFICES ASSUME TypeOK, [Next]_vars
             PROVE  TypeOK'
  OBVIOUS
<1> USE ThresholdAssumption, CooldownAssumption DEF TypeOK, InFlight, NoRequest, Goto, Never
<1>1. ASSUME NEW t \in Threads, Admit(t) PROVE TypeOK'
  BY <1>1 DEF Admit
<1>2. ASSUME NEW t \in Threads, AdmitProbe(t) PROVE TypeOK'
  BY <1>2 DEF AdmitProbe
<1>3. ASSUME NEW t \in Threads, ShortCircuit(t) PROVE TypeOK'
  BY <1>3 DEF ShortCircuit
<1>4. ASSUME NEW t \in Threads, Answer(t) PROVE TypeOK'
  BY <1>4 DEF Answer
<1>5. ASSUME NEW t \in Threads, RecordSuccess(t) PROVE TypeOK'
  BY <1>5 DEF RecordSuccess
<1>6. ASSUME NEW t \in Threads, RecordFailure(t) PROVE TypeOK'
  BY <1>6, FailuresBound DEF RecordFailure
<1>7. ASSUME NEW t \in Threads, Return(t) PROVE TypeOK'
  BY <1>7 DEF Return
<1>8. CASE Tick
  <2>1. rested' \in 0..Cooldown
    BY <1>8, UpToBound DEF Tick
  <2>2. opened # Never => opened + 1 \in Nat /\ opened' \in 0..Cooldown
    BY <1>8, UpToBound DEF Tick
  <2>. QED
    BY <1>8, <2>1, <2>2 DEF Tick
<1>9. CASE StoreChanges
  BY <1>9 DEF StoreChanges
<1>10. CASE UNCHANGED vars
  BY <1>10 DEF vars
<1>. QED
  BY <1>1, <1>2, <1>3, <1>4, <1>5, <1>6, <1>7, <1>8, <1>9, <1>10 DEF Next, Allow, Proceed

(* Type correctness of the breaker: in particular allow() never subtracts  *)
(* an opened_at that is None.                                              *)
THEOREM TypeCorrect == Spec => []TypeOK
<1>. QED
  BY TypeInit, TypeStep, PTL DEF Spec

-----------------------------------------------------------------------------
LEMMA ProbeInit == Init => HalfOpenHasItsProbe
BY DEF Init, HalfOpenHasItsProbe

(* Only a recorded result takes a probe out of flight, and recording one   *)
(* leaves the circuit closed or open.                                      *)
LEMMA ProbeStep == TypeOK /\ HalfOpenHasItsProbe /\ [Next]_vars => HalfOpenHasItsProbe'
<1> SUFFICES ASSUME TypeOK, HalfOpenHasItsProbe, [Next]_vars
             PROVE  HalfOpenHasItsProbe'
  OBVIOUS
<1> USE DEF TypeOK, HalfOpenHasItsProbe, Probing, InFlight, Goto
<1>1. ASSUME NEW t \in Threads, Admit(t) PROVE HalfOpenHasItsProbe'
  BY <1>1 DEF Admit
<1>2. ASSUME NEW t \in Threads, AdmitProbe(t) PROVE HalfOpenHasItsProbe'
  <2>1. Probing(t)'
    BY <1>2 DEF AdmitProbe
  <2>. QED
    BY <2>1
<1>3. ASSUME NEW t \in Threads, ShortCircuit(t) PROVE HalfOpenHasItsProbe'
  <2>1. \A u \in Threads : Probing(u) => Probing(u)'
    BY <1>3 DEF ShortCircuit
  <2>. QED
    BY <1>3, <2>1 DEF ShortCircuit
<1>4. ASSUME NEW t \in Threads, Answer(t) PROVE HalfOpenHasItsProbe'
  <2>1. \A u \in Threads : Probing(u) => Probing(u)'
    BY <1>4 DEF Answer
  <2>. QED
    BY <1>4, <2>1 DEF Answer
<1>5. ASSUME NEW t \in Threads, RecordSuccess(t) PROVE HalfOpenHasItsProbe'
  BY <1>5 DEF RecordSuccess
<1>6. ASSUME NEW t \in Threads, RecordFailure(t) PROVE HalfOpenHasItsProbe'
  <2>1. state' # "half_open"
    BY <1>6 DEF RecordFailure
  <2>. QED
    BY <2>1
<1>7. ASSUME NEW t \in Threads, Return(t) PROVE HalfOpenHasItsProbe'
  <2>1. \A u \in Threads : Probing(u) => Probing(u)'
    BY <1>7 DEF Return
  <2>. QED
    BY <1>7, <2>1 DEF Return
<1>8. CASE Tick
  BY <1>8 DEF Tick
<1>9. CASE StoreChanges
  BY <1>9 DEF StoreChanges
<1>10. CASE UNCHANGED vars
  BY <1>10 DEF vars
<1>. QED
  BY <1>1, <1>2, <1>3, <1>4, <1>5, <1>6, <1>7, <1>8, <1>9, <1>10 DEF Next, Allow, Proceed

(* A half-open circuit is never left without a probe in flight, for any    *)
(* number of calls that end late.                                          *)
THEOREM HalfOpenIsNotStuck == Spec => []HalfOpenHasItsProbe
<1>. QED
  BY TypeInit, TypeStep, ProbeInit, ProbeStep, PTL DEF Spec

-----------------------------------------------------------------------------
(* While the circuit is open, its cooldown began no earlier than the last  *)
(* probe did.                                                              *)
CooldownSinceProbe == state = "open" => opened <= rested

LEMMA CooldownInit == Init => CooldownSinceProbe
BY DEF Init, CooldownSinceProbe

LEMMA CooldownStep == TypeOK /\ CooldownSinceProbe /\ [Next]_vars => CooldownSinceProbe'
<1> SUFFICES ASSUME TypeOK, CooldownSinceProbe, [Next]_vars
             PROVE  CooldownSinceProbe'
  OBVIOUS
<1> USE CooldownAssumption DEF TypeOK, CooldownSinceProbe, Never
<1>1. ASSUME NEW t \in Threads, RecordFailure(t) PROVE CooldownSinceProbe'
  BY <1>1 DEF RecordFailure
<1>2. CASE Tick
  BY <1>2 DEF Tick, UpTo
<1>3. ASSUME NEW t \in Threads, Allow(t) PROVE CooldownSinceProbe'
  BY <1>3 DEF Allow, Admit, AdmitProbe, ShortCircuit
<1>4. ASSUME NEW t \in Threads, Answer(t) \/ RecordSuccess(t) \/ Return(t)
      PROVE  CooldownSinceProbe'
  BY <1>4 DEF Answer, RecordSuccess, Return
<1>5. CASE StoreChanges \/ UNCHANGED vars
  BY <1>5 DEF StoreChanges, vars
<1>. QED
  BY <1>1, <1>2, <1>3, <1>4, <1>5 DEF Next, Proceed

(* Every step that starts a probe finds the previous one a cooldown old. *)
LEMMA ProbePaced ==
  ASSUME TypeOK, CooldownSinceProbe, [Next]_vars, state = "open", state' = "half_open"
  PROVE  rested >= Cooldown
<1> USE CooldownAssumption DEF TypeOK, CooldownSinceProbe, Never
<1>1. PICK t \in Threads : AdmitProbe(t)
  BY DEF Next, Allow, Proceed, Admit, ShortCircuit, Answer, RecordSuccess, RecordFailure,
         Return, Tick, StoreChanges, vars
<1>. QED
  BY <1>1 DEF AdmitProbe

(* Probes are a cooldown apart, whatever late failures did to the state    *)
(* between them.                                                           *)
THEOREM ProbesArePaced == Spec => ProbesAreACooldownApart
<1>1. TypeOK /\ CooldownSinceProbe /\ [Next]_vars
        => [state = "open" /\ state' = "half_open" => rested >= Cooldown]_vars
  BY ProbePaced
<1>. QED
  BY <1>1, TypeInit, TypeStep, CooldownInit, CooldownStep, PTL
     DEF Spec, ProbesAreACooldownApart
=============================================================================
