------------------------ MODULE SingleFlight_proofs ------------------------
(***************************************************************************)
(* Proofs about SingleFlight, for every number of threads, keys and call   *)
(* objects.                                                                *)
(*                                                                         *)
(* OneFnPerKey and NoOrphanWaiter follow from who leads what: a thread     *)
(* before its pop is the one its key's entry belongs to (EntryInv), an     *)
(* entry always has such a thread (OwnerInv), and two leaders never share  *)
(* a call object, because a new leader takes one nobody holds (LeadInv).   *)
(* SharedResult needs besides that a call object is written once: a thread *)
(* that is past its call holds what fn produced (ResultInv).               *)
(***************************************************************************)
EXTENDS SingleFlight, TLAPS

BeforePop(t) == thread[t].pc \in {"run", "pop"}

EntryInv == \A t \in Threads : BeforePop(t) => calls[thread[t].key] = thread[t].call

LeadInv ==
  \A t, u \in Threads : (Leads(t) /\ Leads(u) /\ thread[t].call = thread[u].call) => t = u

OwnerInv ==
  \A k \in Keys : calls[k] # NoCall =>
    \E t \in Threads : BeforePop(t) /\ thread[t].key = k /\ thread[t].call = calls[k]

IInv == TypeOK /\ EntryInv /\ LeadInv /\ OwnerInv /\ NoOrphanWaiter

LEMMA InitIInv == Init => IInv
<1> SUFFICES ASSUME Init PROVE IInv
  OBVIOUS
<1>1. (CHOOSE k \in Keys : TRUE) \in Keys
  BY KeysAssumption
<1>2. TypeOK
  BY <1>1 DEF Init, InitThread, TypeOK, NewCall, PCs, Outside
<1>3. \A t \in Threads : thread[t].pc = "out"
  BY DEF Init, InitThread
<1> QED
  BY <1>2, <1>3 DEF IInv, EntryInv, LeadInv, OwnerInv, NoOrphanWaiter, BeforePop, Leads, Init

LEMMA TypeNext == TypeOK /\ [Next]_vars => TypeOK'
<1> SUFFICES ASSUME TypeOK, [Next]_vars PROVE TypeOK'
  OBVIOUS
<1> USE DEF TypeOK, Outside, PCs, Results
<1>1. ASSUME NEW t \in Threads, NEW k \in Keys, Lead(t, k) PROVE TypeOK'
  BY <1>1 DEF Lead, NewCall
<1>2. ASSUME NEW t \in Threads, NEW k \in Keys, Join(t, k) PROVE TypeOK'
  BY <1>2 DEF Join
<1>3. ASSUME NEW t \in Threads, NEW r \in Results, FnEnds(t, r) PROVE TypeOK'
  <2>1. thread[t].call \in Calls
    BY <1>3 DEF FnEnds
  <2>2. call' \in [Calls -> [result : Results \cup {Unset}, done : BOOLEAN]]
    BY <1>3, <2>1 DEF FnEnds
  <2>3. thread' \in [Threads -> [pc : PCs, key : Keys, call : Calls \cup {NoCall},
                                 result : Results \cup {Unset}]]
    <3>1. [thread[t] EXCEPT !.pc = "pop", !.result = r]
            \in [pc : PCs, key : Keys, call : Calls \cup {NoCall}, result : Results \cup {Unset}]
      OBVIOUS
    <3> QED BY <1>3, <3>1 DEF FnEnds
  <2>4. \A u \in Threads : thread'[u].call = thread[u].call
                            /\ (thread[u].pc = "out" <=> thread'[u].pc = "out")
    BY <1>3 DEF FnEnds
  <2> QED BY <1>3, <2>2, <2>3, <2>4 DEF FnEnds
<1>4. ASSUME NEW t \in Threads, Pop(t) PROVE TypeOK'
  BY <1>4 DEF Pop
<1>5. ASSUME NEW t \in Threads, SetDone(t) PROVE TypeOK'
  BY <1>5, ZenonT(60) DEF SetDone
<1>6. ASSUME NEW t \in Threads, Wake(t) PROVE TypeOK'
  <2>1. thread[t].call \in Calls
    BY <1>6 DEF Wake
  <2>2. call[thread[t].call].result \in Results \cup {Unset}
    BY <2>1
  <2>3. thread' \in [Threads -> [pc : PCs, key : Keys, call : Calls \cup {NoCall},
                                 result : Results \cup {Unset}]]
    <3>1. [thread[t] EXCEPT !.pc = "return", !.result = call[thread[t].call].result]
            \in [pc : PCs, key : Keys, call : Calls \cup {NoCall}, result : Results \cup {Unset}]
      BY <2>2
    <3> QED BY <1>6, <3>1 DEF Wake
  <2>4. \A u \in Threads : thread'[u].call = thread[u].call
                            /\ (thread[u].pc = "out" <=> thread'[u].pc = "out")
    BY <1>6 DEF Wake
  <2> QED BY <1>6, <2>3, <2>4 DEF Wake
<1>7. ASSUME NEW t \in Threads, Leave(t) PROVE TypeOK'
  BY <1>7, KeysAssumption DEF Leave, InitThread
<1>8. CASE UNCHANGED vars
  BY <1>8 DEF vars
<1> QED
  BY <1>1, <1>2, <1>3, <1>4, <1>5, <1>6, <1>7, <1>8 DEF Next, Step

-----------------------------------------------------------------------------
(* A new leader: its call object is nobody else's. *)
LEMMA LeadStep ==
  ASSUME IInv, NEW t \in Threads, NEW k \in Keys, Lead(t, k), TypeOK'
  PROVE  EntryInv' /\ LeadInv' /\ OwnerInv' /\ NoOrphanWaiter'
<1> USE DEF IInv
<1>1. PICK c \in Calls :
        /\ Fresh(c)
        /\ calls' = [calls EXCEPT ![k] = c]
        /\ call' = [call EXCEPT ![c] = NewCall]
        /\ thread' = [thread EXCEPT ![t] = [pc |-> "run", key |-> k, call |-> c,
                                            result |-> Unset]]
  BY DEF Lead
<1>2. /\ thread'[t].pc = "run" /\ thread'[t].key = k /\ thread'[t].call = c
      /\ \A u \in Threads : u # t => thread'[u] = thread[u]
      /\ thread[t].pc = "out" /\ calls[k] = NoCall
  BY <1>1 DEF TypeOK, Lead, Outside
<1>3. calls'[k] = c /\ \A j \in Keys : j # k => calls'[j] = calls[j]
  BY <1>1 DEF TypeOK
<1>4. \A u \in Threads : thread[u].pc # "out" => thread[u].call # c
  BY <1>1 DEF Fresh, Holds, Outside
<1>5. EntryInv'
  <2> SUFFICES ASSUME NEW u \in Threads, BeforePop(u)' PROVE calls'[thread'[u].key] = thread'[u].call
    BY DEF EntryInv
  <2>1. CASE u = t
    BY <1>2, <1>3, <2>1
  <2>2. CASE u # t
    <3>1. BeforePop(u) /\ thread[u].call \in Calls
      BY <1>2, <2>2 DEF BeforePop, TypeOK, Outside
    <3>2. calls[thread[u].key] = thread[u].call /\ thread[u].key # k
      BY <1>2, <3>1, CallsAssumption DEF EntryInv
    <3> QED BY <1>2, <1>3, <2>2, <3>2 DEF TypeOK
  <2> QED BY <2>1, <2>2
<1>6. LeadInv'
  <2> SUFFICES ASSUME NEW u \in Threads, NEW v \in Threads, Leads(u)', Leads(v)',
                      thread'[u].call = thread'[v].call
               PROVE  u = v
    BY DEF LeadInv
  <2> QED BY <1>2, <1>4 DEF Leads, LeadInv
<1>7. OwnerInv'
  <2> SUFFICES ASSUME NEW j \in Keys, calls'[j] # NoCall
               PROVE  \E u \in Threads : BeforePop(u)' /\ thread'[u].key = j
                                                      /\ thread'[u].call = calls'[j]
    BY DEF OwnerInv
  <2>1. CASE j = k
    BY <1>2, <1>3, <2>1 DEF BeforePop
  <2>2. CASE j # k
    <3>1. PICK u \in Threads : BeforePop(u) /\ thread[u].key = j /\ thread[u].call = calls[j]
      BY <1>3, <2>2 DEF OwnerInv
    <3>2. u # t
      BY <1>2, <3>1 DEF BeforePop
    <3> QED BY <1>2, <1>3, <2>2, <3>1, <3>2 DEF BeforePop
  <2> QED BY <2>1, <2>2
<1>8. NoOrphanWaiter'
  <2> SUFFICES ASSUME NEW u \in Threads, thread'[u].pc = "wait"
               PROVE  \/ call'[thread'[u].call].done
                      \/ \E v \in Threads : Leads(v)' /\ thread'[v].call = thread'[u].call
    BY DEF NoOrphanWaiter
  <2>1. u # t /\ thread'[u] = thread[u] /\ thread[u].call \in Calls /\ thread[u].call # c
    BY <1>2, <1>4 DEF TypeOK, Outside
  <2>2. call'[thread[u].call] = call[thread[u].call]
    BY <1>1, <2>1 DEF TypeOK
  <2>3. CASE call[thread[u].call].done
    BY <2>1, <2>2, <2>3
  <2>4. ASSUME NEW v \in Threads, Leads(v), thread[v].call = thread[u].call
        PROVE  Leads(v)' /\ thread'[v].call = thread'[u].call
    BY <1>2, <2>1, <2>4 DEF Leads
  <2> QED BY <2>1, <2>3, <2>4 DEF NoOrphanWaiter
<1> QED
  BY <1>5, <1>6, <1>7, <1>8

(* A new waiter: the entry it found has an owner that leads the call. *)
LEMMA JoinStep ==
  ASSUME IInv, NEW t \in Threads, NEW k \in Keys, Join(t, k), TypeOK'
  PROVE  EntryInv' /\ LeadInv' /\ OwnerInv' /\ NoOrphanWaiter'
<1> USE DEF IInv
<1>1. /\ thread'[t].pc = "wait" /\ thread'[t].call = calls[k]
      /\ \A u \in Threads : u # t => thread'[u] = thread[u]
      /\ thread[t].pc = "out" /\ calls[k] # NoCall
      /\ calls' = calls /\ call' = call
  BY DEF Join, TypeOK, Outside
<1>2. EntryInv' /\ LeadInv'
  BY <1>1 DEF EntryInv, LeadInv, BeforePop, Leads
<1>3. OwnerInv'
  BY <1>1 DEF OwnerInv, BeforePop
<1>4. PICK o \in Threads : BeforePop(o) /\ thread[o].call = calls[k]
  BY <1>1 DEF OwnerInv
<1>5. o # t /\ Leads(o)' /\ thread'[o].call = thread'[t].call
  BY <1>1, <1>4 DEF BeforePop, Leads
<1>6. NoOrphanWaiter'
  BY <1>1, <1>5 DEF NoOrphanWaiter, Leads
<1> QED
  BY <1>2, <1>3, <1>6

(* The leader moves on: from fn to its pop, from its pop to its set, and   *)
(* then its waiters find the event set.                                    *)
LEMMA FnEndsStep ==
  ASSUME IInv, NEW t \in Threads, NEW r \in Results, FnEnds(t, r), TypeOK'
  PROVE  EntryInv' /\ LeadInv' /\ OwnerInv' /\ NoOrphanWaiter'
<1> USE DEF IInv
<1>1. /\ \A u \in Threads : thread'[u].call = thread[u].call /\ thread'[u].key = thread[u].key
      /\ \A u \in Threads : u # t => thread'[u] = thread[u]
      /\ thread[t].pc = "run" /\ thread'[t].pc = "pop"
      /\ calls' = calls
  BY DEF FnEnds, TypeOK
<1>2. \A c \in Calls : call'[c].done = call[c].done
  BY DEF FnEnds, TypeOK
<1>3. \A u \in Threads : (BeforePop(u)' <=> BeforePop(u)) /\ (Leads(u)' <=> Leads(u))
  BY <1>1 DEF BeforePop, Leads
<1>4. EntryInv' /\ LeadInv' /\ OwnerInv'
  BY <1>1, <1>3 DEF EntryInv, LeadInv, OwnerInv
<1>5. \A u \in Threads : thread'[u].pc = "wait" => thread[u].pc = "wait" /\ thread[u].call \in Calls
  BY <1>1 DEF TypeOK, Outside
<1> QED
  BY <1>1, <1>2, <1>3, <1>4, <1>5 DEF NoOrphanWaiter

LEMMA PopStep ==
  ASSUME IInv, NEW t \in Threads, Pop(t), TypeOK'
  PROVE  EntryInv' /\ LeadInv' /\ OwnerInv' /\ NoOrphanWaiter'
<1> USE DEF IInv
<1> DEFINE k == thread[t].key
<1>1. /\ \A u \in Threads : thread'[u].call = thread[u].call /\ thread'[u].key = thread[u].key
      /\ \A u \in Threads : u # t => thread'[u] = thread[u]
      /\ thread[t].pc = "pop" /\ thread'[t].pc = "set"
      /\ call' = call
  BY DEF Pop, TypeOK
<1>2. k \in Keys /\ calls'[k] = NoCall /\ \A j \in Keys : j # k => calls'[j] = calls[j]
  BY DEF Pop, TypeOK
<1>3. \A u \in Threads : Leads(u)' <=> Leads(u)
  BY <1>1 DEF Leads
<1>4. EntryInv'
  <2> SUFFICES ASSUME NEW u \in Threads, BeforePop(u)' PROVE calls'[thread'[u].key] = thread'[u].call
    BY DEF EntryInv
  <2>1. u # t /\ BeforePop(u) /\ BeforePop(t)
    BY <1>1 DEF BeforePop
  <2>2. thread[u].key # k
    BY <2>1 DEF EntryInv, LeadInv, BeforePop, Leads
  <2> QED BY <1>1, <1>2, <2>1, <2>2 DEF EntryInv, TypeOK
<1>5. LeadInv'
  BY <1>1, <1>3 DEF LeadInv
<1>6. OwnerInv'
  <2> SUFFICES ASSUME NEW j \in Keys, calls'[j] # NoCall
               PROVE  \E u \in Threads : BeforePop(u)' /\ thread'[u].key = j
                                                      /\ thread'[u].call = calls'[j]
    BY DEF OwnerInv
  <2>1. j # k /\ calls[j] = calls'[j]
    BY <1>2
  <2>2. PICK u \in Threads : BeforePop(u) /\ thread[u].key = j /\ thread[u].call = calls[j]
    BY <2>1 DEF OwnerInv
  <2>3. u # t
    BY <2>1, <2>2
  <2> QED BY <1>1, <2>1, <2>2, <2>3 DEF BeforePop
<1>7. NoOrphanWaiter'
  BY <1>1, <1>3 DEF NoOrphanWaiter
<1> QED
  BY <1>4, <1>5, <1>6, <1>7

LEMMA SetDoneStep ==
  ASSUME IInv, NEW t \in Threads, SetDone(t), TypeOK'
  PROVE  EntryInv' /\ LeadInv' /\ OwnerInv' /\ NoOrphanWaiter'
<1> USE DEF IInv
<1>1. /\ \A u \in Threads : thread'[u].call = thread[u].call /\ thread'[u].key = thread[u].key
      /\ \A u \in Threads : u # t => thread'[u] = thread[u]
      /\ thread[t].pc = "set" /\ thread'[t].pc = "return"
      /\ calls' = calls
  BY DEF SetDone, TypeOK
<1>2. thread[t].call \in Calls
  BY <1>1 DEF TypeOK, Outside
<1>3. /\ call'[thread[t].call].done
      /\ \A c \in Calls : c # thread[t].call => call'[c] = call[c]
  BY <1>2 DEF SetDone, TypeOK
<1>4. EntryInv' /\ LeadInv' /\ OwnerInv'
  BY <1>1 DEF EntryInv, LeadInv, OwnerInv, BeforePop, Leads
<1>5. NoOrphanWaiter'
  <2> SUFFICES ASSUME NEW u \in Threads, thread'[u].pc = "wait"
               PROVE  \/ call'[thread'[u].call].done
                      \/ \E v \in Threads : Leads(v)' /\ thread'[v].call = thread'[u].call
    BY DEF NoOrphanWaiter
  <2>1. thread[u].pc = "wait" /\ thread[u].call \in Calls /\ thread'[u].call = thread[u].call
    BY <1>1 DEF TypeOK, Outside
  <2>2. CASE thread[u].call = thread[t].call
    BY <1>3, <2>1, <2>2
  <2>3. CASE thread[u].call # thread[t].call
    <3>1. call'[thread[u].call] = call[thread[u].call]
      BY <1>3, <2>1, <2>3
    <3>2. ASSUME NEW v \in Threads, Leads(v), thread[v].call = thread[u].call
          PROVE  Leads(v)' /\ thread'[v].call = thread'[u].call
      BY <1>1, <2>1, <2>3, <3>2 DEF Leads
    <3> QED BY <2>1, <3>1, <3>2 DEF NoOrphanWaiter
  <2> QED BY <2>2, <2>3
<1> QED
  BY <1>4, <1>5

(* A thread that only takes its result changes nobody's role. *)
LEMMA QuietStep ==
  ASSUME IInv, NEW t \in Threads, Wake(t) \/ Leave(t), TypeOK'
  PROVE  EntryInv' /\ LeadInv' /\ OwnerInv' /\ NoOrphanWaiter'
<1> USE DEF IInv
<1>1. /\ \A u \in Threads : u # t => thread'[u] = thread[u]
      /\ thread[t].pc \in {"wait", "return"} /\ thread'[t].pc \in {"out", "return"}
      /\ calls' = calls /\ call' = call
  <2>1. CASE Wake(t)
    BY <2>1 DEF Wake, TypeOK
  <2>2. CASE Leave(t)
    BY <2>2 DEF Leave, TypeOK, InitThread
  <2> QED BY <2>1, <2>2
<1>2. EntryInv' /\ LeadInv'
  BY <1>1 DEF EntryInv, LeadInv, BeforePop, Leads
<1>3. OwnerInv'
  BY <1>1 DEF OwnerInv, BeforePop
<1>4. NoOrphanWaiter'
  BY <1>1 DEF NoOrphanWaiter, Leads
<1> QED
  BY <1>2, <1>3, <1>4

LEMMA NextIInv == IInv /\ [Next]_vars => IInv'
<1> SUFFICES ASSUME IInv, [Next]_vars PROVE IInv'
  OBVIOUS
<1>1. TypeOK'
  BY TypeNext DEF IInv
<1>2. ASSUME NEW t \in Threads, Step(t)
      PROVE  EntryInv' /\ LeadInv' /\ OwnerInv' /\ NoOrphanWaiter'
  BY <1>1, <1>2, LeadStep, JoinStep, FnEndsStep, PopStep, SetDoneStep, QuietStep DEF Step
<1>3. ASSUME UNCHANGED vars PROVE EntryInv' /\ LeadInv' /\ OwnerInv' /\ NoOrphanWaiter'
  BY <1>3 DEF vars, IInv, EntryInv, LeadInv, OwnerInv, NoOrphanWaiter, BeforePop, Leads
<1> QED
  BY <1>1, <1>2, <1>3 DEF Next, IInv

LEMMA Invariance == Spec => []IInv
  BY InitIInv, NextIInv, PTL DEF Spec

-----------------------------------------------------------------------------
(* For any number of concurrent requests, at most one of those that missed *)
(* on one key is inside fn, that is, at the link store (SingleFlight.do).  *)
THEOREM OneFn == Spec => []OneFnPerKey
<1>1. IInv => OneFnPerKey
  BY DEF IInv, OneFnPerKey, EntryInv, LeadInv, BeforePop, Leads
<1> QED
  BY <1>1, Invariance, PTL

(* No request waits on a call object whose leader is gone without having   *)
(* set its event, also when fn raised (the finally clause of do).          *)
THEOREM NobodyAbandoned == Spec => []NoOrphanWaiter
<1>1. IInv => NoOrphanWaiter
  BY DEF IInv
<1> QED
  BY <1>1, Invariance, PTL

(* The variables have their types (SingleFlight.do). *)
THEOREM TypeCorrect == Spec => []TypeOK
<1>1. IInv => TypeOK
  BY DEF IInv
<1> QED
  BY <1>1, Invariance, PTL

-----------------------------------------------------------------------------
(* A call object that fn has not ended for is untouched, one that is done  *)
(* has a result, and a thread past fn, or woken, has that result.          *)
ResultInv ==
  /\ \A t \in Threads : thread[t].pc = "run" => call[thread[t].call].result = Unset
                                              /\ ~call[thread[t].call].done
  /\ \A t \in Threads : thread[t].pc \in {"pop", "set", "return"} =>
       thread[t].result \in Results /\ call[thread[t].call].result = thread[t].result
  /\ \A c \in Calls : call[c].done => call[c].result \in Results

LEMMA ResultNext == IInv /\ TypeOK' /\ ResultInv /\ [Next]_vars => ResultInv'
<1> SUFFICES ASSUME IInv, TypeOK', ResultInv, [Next]_vars PROVE ResultInv'
  OBVIOUS
<1> USE DEF IInv
<1>0. Unset \notin Results
  BY ResultsAssumption DEF Results
<1>1. ASSUME NEW t \in Threads, NEW k \in Keys, Lead(t, k) PROVE ResultInv'
  <2>1. PICK c \in Calls :
          /\ Fresh(c)
          /\ call' = [call EXCEPT ![c] = NewCall]
          /\ thread' = [thread EXCEPT ![t] = [pc |-> "run", key |-> k, call |-> c,
                                              result |-> Unset]]
    BY <1>1 DEF Lead
  <2>2. thread'[t].pc = "run" /\ thread'[t].call = c
    BY <2>1 DEF TypeOK
  <2>3. call'[c].result = Unset /\ ~call'[c].done
    BY <2>1 DEF TypeOK, NewCall
  <2>4. \A u \in Threads : u # t => thread'[u] = thread[u]
    BY <2>1 DEF TypeOK
  <2>5. \A u \in Threads : thread[u].pc # "out" => thread[u].call \in Calls \ {c}
    BY <2>1 DEF Fresh, Holds, Outside, TypeOK
  <2>6. \A d \in Calls \ {c} : call'[d] = call[d]
    BY <2>1 DEF TypeOK
  <2> QED BY <2>2, <2>3, <2>4, <2>5, <2>6 DEF ResultInv
<1>2. ASSUME NEW t \in Threads, NEW k \in Keys, Join(t, k) PROVE ResultInv'
  <2>1. call' = call /\ thread'[t].pc = "wait" /\ \A u \in Threads : u # t => thread'[u] = thread[u]
    BY <1>2 DEF Join, TypeOK
  <2> QED BY <2>1 DEF ResultInv
<1>3. ASSUME NEW t \in Threads, NEW r \in Results, FnEnds(t, r) PROVE ResultInv'
  <2> DEFINE c == thread[t].call
  <2>1. thread[t].pc = "run" /\ c \in Calls /\ call[c].result = Unset /\ ~call[c].done
    BY <1>3 DEF FnEnds, TypeOK, Outside, ResultInv
  <2>2. /\ call'[c].result = r /\ ~call'[c].done
        /\ \A d \in Calls \ {c} : call'[d] = call[d]
    BY <1>3, <2>1 DEF FnEnds, TypeOK
  <2>3. /\ thread'[t].pc = "pop" /\ thread'[t].call = c /\ thread'[t].result = r
        /\ \A u \in Threads : u # t => thread'[u] = thread[u]
    BY <1>3 DEF FnEnds, TypeOK
  <2>4. \A u \in Threads : u # t /\ thread[u].pc \in {"run", "pop", "set", "return"}
          => thread[u].call \in Calls \ {c}
    BY <1>0, <2>1 DEF LeadInv, Leads, ResultInv, TypeOK, Outside
  <2> QED BY <2>2, <2>3, <2>4 DEF ResultInv
<1>4. ASSUME NEW t \in Threads, Pop(t) PROVE ResultInv'
  <2>1. /\ call' = call /\ thread[t].pc = "pop" /\ thread'[t].pc = "set"
        /\ thread'[t].call = thread[t].call /\ thread'[t].result = thread[t].result
        /\ \A u \in Threads : u # t => thread'[u] = thread[u]
    BY <1>4 DEF Pop, TypeOK
  <2> QED BY <2>1 DEF ResultInv
<1>5. ASSUME NEW t \in Threads, SetDone(t) PROVE ResultInv'
  <2>1. /\ thread[t].pc = "set" /\ thread'[t].pc = "return"
        /\ thread'[t].call = thread[t].call /\ thread'[t].result = thread[t].result
        /\ \A u \in Threads : u # t => thread'[u] = thread[u]
    BY <1>5 DEF SetDone, TypeOK
  <2>2. thread[t].call \in Calls
    BY <2>1 DEF TypeOK, Outside
  <2>3. /\ \A d \in Calls : call'[d].result = call[d].result
        /\ \A d \in Calls \ {thread[t].call} : call'[d].done = call[d].done
    <3>1. call' = [call EXCEPT ![thread[t].call].done = TRUE]
      BY <1>5 DEF SetDone
    <3>2. \A d \in Calls \ {thread[t].call} : call'[d] = call[d]
      BY <2>2, <3>1 DEF TypeOK
    <3>3. call'[thread[t].call] = [call[thread[t].call] EXCEPT !.done = TRUE]
      BY <2>2, <3>1 DEF TypeOK
    <3>4. call'[thread[t].call].result = call[thread[t].call].result
      BY <2>2, <3>3 DEF TypeOK
    <3> QED BY <3>2, <3>4
  <2>4. \A u \in Threads : thread[u].pc = "run" => thread[u].call \in Calls \ {thread[t].call}
    BY <2>1 DEF LeadInv, Leads, TypeOK, Outside
  <2>5. \A u \in Threads : thread[u].pc \in {"pop", "set", "return"} => thread[u].call \in Calls
    BY DEF TypeOK, Outside
  <2>6. call[thread[t].call].result \in Results
    BY <2>1 DEF ResultInv
  <2> QED BY <2>1, <2>3, <2>4, <2>5, <2>6 DEF ResultInv
<1>6. ASSUME NEW t \in Threads, Wake(t) PROVE ResultInv'
  <2>1. thread[t].call \in Calls /\ call[thread[t].call].done
    BY <1>6 DEF Wake, TypeOK, Outside
  <2>2. /\ call' = call /\ thread'[t].pc = "return" /\ thread'[t].call = thread[t].call
        /\ thread'[t].result = call[thread[t].call].result
        /\ \A u \in Threads : u # t => thread'[u] = thread[u]
    BY <1>6 DEF Wake, TypeOK
  <2> QED BY <2>1, <2>2 DEF ResultInv
<1>7. ASSUME NEW t \in Threads, Leave(t) PROVE ResultInv'
  <2>1. /\ call' = call /\ thread'[t].pc = "out"
        /\ \A u \in Threads : u # t => thread'[u] = thread[u]
    BY <1>7 DEF Leave, InitThread, TypeOK
  <2> QED BY <2>1 DEF ResultInv
<1>8. CASE UNCHANGED vars
  BY <1>8 DEF vars, ResultInv
<1> QED
  BY <1>1, <1>2, <1>3, <1>4, <1>5, <1>6, <1>7, <1>8 DEF Next, Step

(* Threads that leave one call leave it with the same value, or the same   *)
(* exception, and it is what the fn of its leader came to, however late a  *)
(* waiter wakes up (SingleFlight.do).                                      *)
THEOREM ResultIsShared == Spec => []SharedResult
<1>1. Init => ResultInv
  BY DEF Init, InitThread, NewCall, ResultInv
<1>2. TypeOK /\ ResultInv => SharedResult
  BY DEF ResultInv, SharedResult
<1>3. IInv => TypeOK
  BY DEF IInv
<1> QED
  BY <1>1, <1>2, <1>3, Invariance, ResultNext, PTL DEF Spec
=============================================================================
