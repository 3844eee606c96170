----------------------------- MODULE Snowflake -----------------------------
(***************************************************************************)
(* ids.py: SnowflakeGenerator, base62 and decode_id.                       *)
(*                                                                         *)
(* A generator packs the millisecond it reads, its INSTANCE_ID and a       *)
(* sequence number into an id.  It keeps what it issued last in memory     *)
(* only.  Its clock may be set at any time: every reading is any time.     *)
(* next_id holds the lock of the generator all the time, also while it     *)
(* spins for the clock.                                                    *)
(***************************************************************************)
EXTENDS Integers, SequencesExt

CONSTANTS Generators,     \* processes, each with its generator
          Deployments,    \* INSTANCE_ID of every generator, as deployed
          MaxInstance,    \* MAX_INSTANCE
          MaxSequence,    \* MAX_SEQUENCE
          MaxDrift,       \* the 5000 milliseconds of next_id
          Base,           \* BASE, of the alphabet
          MaxTime,        \* bound: the clock each generator reads, since EPOCH_MS
          MaxIssued,      \* bound: ids of each generator
          MaxReboots      \* bound: restarts of each process

ASSUME BitsAssumption == MaxInstance \in Nat /\ MaxSequence \in Nat
ASSUME ClockAssumption == MaxDrift \in Nat /\ MaxTime \in [Generators -> Nat]
ASSUME BaseAssumption == Base \in Nat /\ Base > 1
ASSUME DeploymentsAssumption == Deployments \subseteq [Generators -> 0..MaxInstance]

VARIABLES instance,    \* instance_id of each generator
          lastMs,      \* _last_ms
          sequence,    \* _sequence
          spin,        \* where next_id spins for the clock, if it does
          life,        \* history: which start of the process this is
          issued,      \* history: the ids of every generator, in order
          setBack      \* history: lives whose first id was not after all earlier ones

genVars == <<instance, lastMs, sequence, spin, life, issued, setBack>>

-----------------------------------------------------------------------------
(* Mutation: the instance and the sequence number share their bits. *)
Pack_Overlaps(ms, inst, seq) == ms * (MaxInstance + 1) * (MaxSequence + 1) + inst + seq

(* The fields of an id, most significant first.  A sequence number that    *)
(* did not fit its bits would run into the instance.                       *)
Pack(ms, inst, seq) == (ms * (MaxInstance + 1) + inst) * (MaxSequence + 1) + seq

(* decode_id *)
Unpack(id) == <<id \div ((MaxSequence + 1) * (MaxInstance + 1)),
                (id \div (MaxSequence + 1)) % (MaxInstance + 1),
                id % (MaxSequence + 1)>>

(* Mutation: the loop ends one digit early. *)
EncodeBase62_DropsDigit(n) ==
  LET digits[k \in Nat] == IF k < Base * Base THEN <<k % Base>>
                           ELSE Append(digits[k \div Base], k % Base)
  IN  digits[n]

(* The digits of a number, the most significant first. *)
Digits[n \in Nat] == IF n < Base THEN <<n>> ELSE Append(Digits[n \div Base], n % Base)

(* encode_base62 *)
EncodeBase62(n) == Digits[n]

(* What decode_base62 has after these digits. *)
Value[digits \in Seq(Nat)] ==
  IF digits = <<>> THEN 0 ELSE Value[Front(digits)] * Base + Last(digits)

(* decode_base62 *)
DecodeBase62(digits) == Value[digits]

IdOf(entry) == Pack(entry.ms, entry.inst, entry.seq)

-----------------------------------------------------------------------------
GenInit ==
  /\ instance \in Deployments
  /\ lastMs = [g \in Generators |-> -1]
  /\ sequence = [g \in Generators |-> 0]
  /\ spin = [g \in Generators |-> "no"]
  /\ life = [g \in Generators |-> 1]
  /\ issued = [g \in Generators |-> <<>>]
  /\ setBack = [g \in Generators |-> {}]

(* What _now may return: time passes, NTP or a migration of the machine    *)
(* sets the clock, forwards or backwards, but never before EPOCH_MS (whose *)
(* ids are negative: encode_base62 refuses them).                          *)
Readings(g) == 0..MaxTime[g]

(* The sequence number that next_id arrives at with the time it reads.     *)
NextSequence(g, now) == IF now = lastMs[g] THEN sequence[g] + 1 ELSE 0

Entry(g, now) ==
  [life |-> life[g], inst |-> instance[g], ms |-> now, seq |-> NextSequence(g, now)]

(* The first id of this life is not after the ids of all earlier lives. *)
ComesTooEarly(g, now) ==
  lastMs[g] = -1 /\ \E n \in DOMAIN issued[g] : now <= issued[g][n].ms

(* Mutation: a clock that is behind is not waited for. *)
Issue_Behind(g, now) ==
  /\ Len(issued[g]) < MaxIssued[g]
  /\ NextSequence(g, now) <= MaxSequence
  /\ issued' = [issued EXCEPT ![g] = Append(@, Entry(g, now))]
  /\ lastMs' = [lastMs EXCEPT ![g] = now]
  /\ sequence' = [sequence EXCEPT ![g] = NextSequence(g, now)]
  /\ spin' = [spin EXCEPT ![g] = "no"]
  /\ setBack' = [setBack EXCEPT ![g] = IF ComesTooEarly(g, now) THEN @ \cup {life[g]} ELSE @]
  /\ UNCHANGED <<instance, life>>

(* Mutation: the sequence number is not compared with its limit. *)
Issue_NoLimit(g, now) ==
  /\ Len(issued[g]) < MaxIssued[g]
  /\ now >= lastMs[g]
  /\ issued' = [issued EXCEPT ![g] = Append(@, Entry(g, now))]
  /\ lastMs' = [lastMs EXCEPT ![g] = now]
  /\ sequence' = [sequence EXCEPT ![g] = NextSequence(g, now)]
  /\ spin' = [spin EXCEPT ![g] = "no"]
  /\ setBack' = [setBack EXCEPT ![g] = IF ComesTooEarly(g, now) THEN @ \cup {life[g]} ELSE @]
  /\ UNCHANGED <<instance, life>>

(* next_id returns the id of Entry(g, now), whether it had to spin or not: *)
(* the clock is not behind, and there is a sequence number left.           *)
Issue(g, now) ==
  /\ Len(issued[g]) < MaxIssued[g]
  /\ now >= lastMs[g]
  /\ NextSequence(g, now) <= MaxSequence
  /\ issued' = [issued EXCEPT ![g] = Append(@, Entry(g, now))]
  /\ lastMs' = [lastMs EXCEPT ![g] = now]
  /\ sequence' = [sequence EXCEPT ![g] = NextSequence(g, now)]
  /\ spin' = [spin EXCEPT ![g] = "no"]
  /\ setBack' = [setBack EXCEPT ![g] = IF ComesTooEarly(g, now) THEN @ \cup {life[g]} ELSE @]
  /\ UNCHANGED <<instance, life>>

NextId(g) == \E now \in Readings(g) : Issue(g, now)

(* next_id begins to spin: the clock is behind, by no more than the drift. *)
SpinBehind(g) ==
  /\ spin[g] = "no"
  /\ \E now \in Readings(g) : now < lastMs[g] /\ lastMs[g] - now <= MaxDrift
  /\ spin' = [spin EXCEPT ![g] = "behind"]
  /\ UNCHANGED <<instance, lastMs, sequence, life, issued, setBack>>

(* next_id begins to spin for the next millisecond, perhaps after it spun  *)
(* for this one.                                                           *)
SpinExhausted(g) ==
  /\ spin[g] # "exhausted"
  /\ lastMs[g] \in Readings(g)
  /\ sequence[g] = MaxSequence
  /\ sequence' = [sequence EXCEPT ![g] = MaxSequence + 1]
  /\ spin' = [spin EXCEPT ![g] = "exhausted"]
  /\ UNCHANGED <<instance, lastMs, life, issued, setBack>>

(* next_id raises: the clock is behind by more than the drift.             *)
RefuseId(g) ==
  /\ spin[g] = "no"
  /\ \E now \in Readings(g) : lastMs[g] - now > MaxDrift
  /\ UNCHANGED genVars

(* The process starts again, with the same INSTANCE_ID. *)
Reboot(g) ==
  /\ life[g] <= MaxReboots[g]
  /\ life' = [life EXCEPT ![g] = @ + 1]
  /\ lastMs' = [lastMs EXCEPT ![g] = -1]
  /\ sequence' = [sequence EXCEPT ![g] = 0]
  /\ spin' = [spin EXCEPT ![g] = "no"]
  /\ UNCHANGED <<instance, issued, setBack>>

GenStep(g) ==
  \/ NextId(g)
  \/ SpinBehind(g)
  \/ SpinExhausted(g)
  \/ RefuseId(g)
  \/ Reboot(g)

GenNext == \E g \in Generators : GenStep(g)

GenSpec == GenInit /\ [][GenNext]_genVars

-----------------------------------------------------------------------------
Entries == [life : Nat, inst : 0..MaxInstance, ms : Nat, seq : 0..MaxSequence]

(* Every variable has its type, and a sequence number is over its limit    *)
(* only while next_id spins for the next millisecond.                      *)
GenTypeOK ==
  /\ instance \in [Generators -> 0..MaxInstance]
  /\ lastMs \in [Generators -> Nat \cup {-1}]
  /\ sequence \in [Generators -> 0..(MaxSequence + 1)]
  /\ spin \in [Generators -> {"no", "behind", "exhausted"}]
  /\ \A g \in Generators : sequence[g] > MaxSequence => spin[g] = "exhausted"
  /\ life \in [Generators -> Nat]
  /\ issued \in [Generators -> Seq(Entries)]
  /\ setBack \in [Generators -> SUBSET Nat]

(* Within one life of its process a generator issues larger and larger     *)
(* ids, wherever its clock goes, and so never repeats one.                 *)
IdsIncreaseInALife ==
  \A g \in Generators : \A m, n \in DOMAIN issued[g] :
    m < n /\ issued[g][m].life = issued[g][n].life => IdOf(issued[g][m]) < IdOf(issued[g][n])

(* A life of g, after `from` and up to `to`, began behind an earlier one.  *)
CameUpBehind(g, from, to) == \E l \in setBack[g] : from < l /\ l <= to

(* The same id from two generators takes a shared INSTANCE_ID; twice from  *)
(* one, it takes a process that came up behind its own past, whatever the  *)
(* clock does otherwise (next_id: "we refuse to issue rather than risk a   *)
(* duplicate short code").                                                 *)
RepeatHasItsCause ==
  \A g, h \in Generators : \A m \in DOMAIN issued[g], n \in DOMAIN issued[h] :
    /\ <<g, m>> # <<h, n>>
    /\ IdOf(issued[g][m]) = IdOf(issued[h][n])
    => IF g # h THEN instance[g] = instance[h]
       ELSE \/ CameUpBehind(g, issued[g][m].life, issued[g][n].life)
            \/ CameUpBehind(g, issued[g][n].life, issued[g][m].life)

(* A code tells who issued it and when: decode_id of its digits.           *)
CodeTellsItsOrigin ==
  \A g \in Generators : \A n \in DOMAIN issued[g] :
    LET e == issued[g][n]
    IN  Unpack(DecodeBase62(EncodeBase62(IdOf(e)))) = <<e.ms, e.inst, e.seq>>
=============================================================================
