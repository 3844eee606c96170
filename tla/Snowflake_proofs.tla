-------------------------- MODULE Snowflake_proofs --------------------------
(***************************************************************************)
(* Theorems about Snowflake, for any generators, deployments, field widths *)
(* and clocks.  Ids are compared through their fields: Pack keeps them     *)
(* apart and in order as long as each fits its bits.                       *)
(***************************************************************************)
EXTENDS Snowflake, SequenceTheorems, WellFoundedInduction, TLAPS

-----------------------------------------------------------------------------
(* Induction and recursion, for any function like Digits and Value.        *)
LEMMA Least ==
  ASSUME NEW T \in SUBSET Nat, T # {}
  PROVE  \E m \in T : \A k \in T : m <= k
<1>1. IsWellFoundedOn(OpToRel(<, Nat), Nat)
  BY NatLessThanWellFounded
<1>2. \E x \in T : \A y \in T : ~(<<y, x>> \in OpToRel(<, Nat))
  BY <1>1, WFMin
<1>3. \A x, y \in Nat : ~(<<y, x>> \in OpToRel(<, Nat)) => x <= y
  BY DEF OpToRel
<1> QED BY <1>2, <1>3

(* Induction over the numbers below which S has everything. *)
LEMMA Induction ==
  ASSUME NEW S, \A n \in Nat : (\A k \in 0..(n - 1) : k \in S) => n \in S
  PROVE  \A n \in Nat : n \in S
<1> DEFINE T == Nat \ S
<1> SUFFICES ASSUME T # {} PROVE FALSE
  OBVIOUS
<1>1. PICK m \in T : \A k \in T : m <= k
  BY Least
<1>2. \A k \in 0..(m - 1) : k \in S
  BY <1>1
<1> QED BY <1>2

(* A function on D that calls itself at most once, with something smaller, *)
(* exists: what it is in Stop, and what it makes elsewhere of what it      *)
(* returns for prev[x].                                                    *)
Descends(D, V, Stop, size, base, prev, comb) ==
  /\ size \in [D -> Nat] /\ base \in [D -> V] /\ prev \in [D -> D] /\ comb \in [D -> [V -> V]]
  /\ \A x \in D \ Stop : size[prev[x]] < size[x]

Recurs(f, D, Stop, base, prev, comb) ==
  \A x \in D : f[x] = IF x \in Stop THEN base[x] ELSE comb[x][f[prev[x]]]

LEMMA LinearRecursion ==
  ASSUME NEW D, NEW V, NEW Stop, NEW size, NEW base, NEW prev, NEW comb,
         Descends(D, V, Stop, size, base, prev, comb)
  PROVE  \E f \in [D -> V] : Recurs(f, D, Stop, base, prev, comb)
<1> USE DEF Descends, Recurs
<1> DEFINE Step(f, x) == IF x \in Stop THEN base[x] ELSE comb[x][f[prev[x]]]
           Fits(f, n) == \A x \in D : size[x] < n => f[x] = Step(f, x)
           Upto(n) == {f \in [D -> V] : Fits(f, n)}
<1>0. \A f \in [D -> V], x \in D : Step(f, x) \in V
  OBVIOUS
<1>1. \A n \in Nat : Upto(n) # {}
  <2> DEFINE S == {n \in Nat : Upto(n) # {}}
  <2>1. ASSUME NEW n \in Nat, \A k \in 0..(n - 1) : k \in S
        PROVE  n \in S
    <3>1. CASE n = 0
      <4>1. base \in Upto(0)
        OBVIOUS
      <4> QED BY <3>1, <4>1
    <3>2. CASE n # 0
      <4>1. n - 1 \in S
        BY <2>1, <3>2
      <4>2. PICK f \in [D -> V] : Fits(f, n - 1)
        BY <4>1
      <4> DEFINE g == [x \in D |-> Step(f, x)]
      <4>3. g \in [D -> V]
        BY <1>0
      <4>4. ASSUME NEW x \in D, size[x] < n
            PROVE  g[x] = Step(g, x)
        <5>1. CASE x \in Stop
          BY <5>1
        <5>2. CASE x \notin Stop
          <6>1. prev[x] \in D /\ size[prev[x]] < n - 1
            BY <3>2, <4>4, <5>2
          <6>2. f[prev[x]] = g[prev[x]]
            BY <4>2, <6>1
          <6> QED BY <5>2, <6>2
        <5> QED BY <5>1, <5>2
      <4> QED BY <4>3, <4>4
    <3> QED BY <3>1, <3>2
  <2> HIDE DEF S
  <2>2. \A n \in Nat : n \in S
    BY <2>1, Induction
  <2> QED BY <2>2 DEF S
<1>2. ASSUME NEW n \in Nat, NEW m \in Nat, NEW f \in Upto(n), NEW g \in Upto(m),
             NEW x \in D, size[x] < n, size[x] < m
      PROVE  f[x] = g[x]
  <2> DEFINE S == {k \in Nat : \A y \in D : size[y] = k /\ k < n /\ k < m => f[y] = g[y]}
  <2>1. ASSUME NEW k \in Nat, \A j \in 0..(k - 1) : j \in S
        PROVE  k \in S
    <3> SUFFICES ASSUME NEW y \in D, size[y] = k, k < n, k < m
                 PROVE  f[y] = g[y]
      OBVIOUS
    <3>1. f[y] = Step(f, y) /\ g[y] = Step(g, y)
      OBVIOUS
    <3>2. CASE y \in Stop
      BY <3>1, <3>2
    <3>3. CASE y \notin Stop
      <4>1. prev[y] \in D /\ size[prev[y]] \in 0..(k - 1)
        BY <3>3
      <4>2. f[prev[y]] = g[prev[y]]
        BY <2>1, <4>1
      <4> QED BY <3>1, <3>3, <4>2
    <3> QED BY <3>2, <3>3
  <2> HIDE DEF S
  <2>2. \A k \in Nat : k \in S
    BY <2>1, Induction
  <2>3. size[x] \in S
    BY <2>2
  <2> QED BY <1>2, <2>3 DEF S
<1> DEFINE part(x) == CHOOSE f \in Upto(size[x] + 1) : TRUE
           whole == [x \in D |-> part(x)[x]]
<1>3. ASSUME NEW x \in D
      PROVE  part(x) \in Upto(size[x] + 1)
  <2> HIDE DEF Upto
  <2>1. size[x] + 1 \in Nat
    OBVIOUS
  <2>2. Upto(size[x] + 1) # {}
    BY <1>1, <2>1
  <2> QED BY <2>2
<1> HIDE DEF part
<1>4. whole \in [D -> V]
  BY <1>3
<1>5. ASSUME NEW x \in D
      PROVE  whole[x] = Step(whole, x)
  <2>1. part(x) \in [D -> V] /\ part(x)[x] = Step(part(x), x) /\ whole[x] = part(x)[x]
    BY <1>3
  <2>2. CASE x \in Stop
    BY <2>1, <2>2
  <2>3. CASE x \notin Stop
    <3>1. prev[x] \in D /\ size[prev[x]] < size[x]
      BY <2>3
    <3>2. part(x) \in Upto(size[x] + 1) /\ part(prev[x]) \in Upto(size[prev[x]] + 1)
      BY <1>3, <3>1
    <3>3. part(x)[prev[x]] = part(prev[x])[prev[x]]
      <4> HIDE DEF Upto
      <4>1. size[x] + 1 \in Nat /\ size[prev[x]] + 1 \in Nat
            /\ size[prev[x]] < size[x] + 1 /\ size[prev[x]] < size[prev[x]] + 1
        BY <3>1
      <4> QED BY <1>2, <3>1, <3>2, <4>1
    <3>4. whole[prev[x]] = part(prev[x])[prev[x]]
      BY <3>1
    <3> QED BY <2>1, <2>3, <3>3, <3>4
  <2> QED BY <2>2, <2>3
<1> HIDE DEF whole
<1> QED BY <1>4, <1>5

-----------------------------------------------------------------------------
(* Base 62.                                                                *)
LEMMA Division ==
  ASSUME NEW n \in Nat, NEW B \in Nat, B > 0
  PROVE  /\ n \div B \in Nat /\ n % B \in 0..(B - 1)
         /\ n = (n \div B) * B + (n % B)
         /\ n \div B <= n
         /\ B > 1 /\ n > 0 => n \div B < n
<1>1. n \div B \in Nat /\ n % B \in 0..(B - 1) /\ n = B * (n \div B) + (n % B)
  OBVIOUS
<1>2. PICK q \in Nat, r \in 0..(B - 1) : q = n \div B /\ r = n % B
  BY <1>1
<1>3. B * q = q * B /\ n = q * B + r
  BY <1>1, <1>2
<1>4. q * B >= q
  BY <1>2
<1>5. q <= n
  BY <1>3, <1>4, <1>2
<1>6. B > 1 /\ n > 0 => q < n
  <2> SUFFICES ASSUME B > 1, q >= n, n > 0 PROVE FALSE
    BY <1>2
  <2>1. q * B >= q + q
    BY <1>2
  <2> QED BY <1>2, <1>3, <1>5, <2>1
<1> QED BY <1>1, <1>2, <1>3, <1>5, <1>6

LEMMA DigitsDef ==
  Digits = [n \in Nat |-> IF n < Base THEN <<n>> ELSE Append(Digits[n \div Base], n % Base)]
<1> DEFINE D == Nat
           V == Seq(Nat)
           Stop == 0..(Base - 1)
           size == [n \in D |-> n]
           base == [n \in D |-> <<n>>]
           prev == [n \in D |-> n \div Base]
           comb == [n \in D |-> [s \in V |-> Append(s, n % Base)]]
<1>0. ASSUME NEW n \in D
      PROVE  n \div Base \in Nat /\ n % Base \in Nat /\ (n >= Base => n \div Base < n)
  BY Division, BaseAssumption
<1>1. size \in [D -> Nat] /\ base \in [D -> V]
  OBVIOUS
<1>2. prev \in [D -> D]
  BY <1>0
<1>3. comb \in [D -> [V -> V]]
  <2>1. \A s \in Seq(Nat), r \in Nat : Append(s, r) \in Seq(Nat)
    OBVIOUS
  <2>2. \A n \in Nat : n % Base \in Nat
    BY <1>0
  <2> QED BY <2>1, <2>2
<1>4. \A n \in D \ Stop : size[prev[n]] < size[n]
  BY <1>0, BaseAssumption
<1>5. PICK f \in [D -> V] : Recurs(f, D, Stop, base, prev, comb)
  <2> HIDE DEF D, V, size, Stop, base, prev, comb
  <2>1. Descends(D, V, Stop, size, base, prev, comb)
    BY <1>1, <1>2, <1>3, <1>4 DEF Descends
  <2> QED BY <2>1, LinearRecursion
<1>6. ASSUME NEW n \in D
      PROVE  f[n] = IF n < Base THEN <<n>> ELSE Append(f[n \div Base], n % Base)
  <2>1. CASE n < Base
    <3>1. n \in Stop /\ base[n] = <<n>>
      BY <2>1, BaseAssumption
    <3>2. f[n] = base[n]
      BY <1>5, <3>1 DEF Recurs
    <3> QED BY <2>1, <3>1, <3>2
  <2>2. CASE n >= Base
    <3>0. n \notin Stop
      BY <2>2, BaseAssumption
    <3>1. prev[n] = n \div Base /\ f[n \div Base] \in V
      BY <1>0
    <3>2. f[n] = comb[n][f[n \div Base]]
      BY <1>5, <3>0, <3>1 DEF Recurs
    <3> HIDE DEF V
    <3> QED BY <2>2, <3>1, <3>2, BaseAssumption
  <2> QED BY <2>1, <2>2, BaseAssumption
<1>7. f = [n \in Nat |-> IF n < Base THEN <<n>> ELSE Append(f[n \div Base], n % Base)]
  BY <1>6
<1> QED BY <1>7 DEF Digits

LEMMA FrontLast ==
  ASSUME NEW S, NEW s \in Seq(S), s # <<>>
  PROVE  Front(s) \in Seq(S) /\ Len(Front(s)) = Len(s) - 1 /\ Last(s) \in S
<1>1. Len(s) \in Nat /\ Len(s) > 0
  OBVIOUS
<1>2. PICK k \in Nat : k = Len(s) - 1 /\ \A i \in 1..k : s[i] \in S
  <2>1. Len(s) - 1 \in Nat
    BY <1>1
  <2> QED BY <1>1, <2>1
<1>4. SubSeq(s, 1, k) \in Seq(S) /\ Len(SubSeq(s, 1, k)) = k
  BY <1>2, SubSeqProperties
<1>3. Last(s) \in S
  BY <1>1 DEF Last
<1> QED BY <1>2, <1>3, <1>4 DEF Front

LEMMA ValueDef ==
  Value = [digits \in Seq(Nat) |->
             IF digits = <<>> THEN 0 ELSE Value[Front(digits)] * Base + Last(digits)]
<1> DEFINE D == Seq(Nat)
           V == Nat
           Stop == {<<>>}
           size == [s \in D |-> Len(s)]
           base == [s \in D |-> 0]
           prev == [s \in D |-> IF s = <<>> THEN s ELSE Front(s)]
           comb == [s \in D |-> [n \in V |-> IF s = <<>> THEN 0 ELSE n * Base + Last(s)]]
<1>0. \A s \in D : s # <<>> => Front(s) \in D /\ Len(Front(s)) = Len(s) - 1 /\ Last(s) \in Nat
  BY FrontLast
<1>1. size \in [D -> Nat] /\ base \in [D -> V]
  OBVIOUS
<1>2. prev \in [D -> D]
  <2> HIDE DEF D
  <2> QED BY <1>0
<1>3. comb \in [D -> [V -> V]]
  <2> SUFFICES ASSUME NEW s \in D, NEW n \in Nat
               PROVE  (IF s = <<>> THEN 0 ELSE n * Base + Last(s)) \in Nat
    OBVIOUS
  <2>1. CASE s = <<>>
    BY <2>1
  <2>2. CASE s # <<>>
    <3>1. Last(s) \in Nat
      BY <1>0, <2>2
    <3>2. n * Base \in Nat
      BY BaseAssumption
    <3> HIDE DEF D
    <3> QED BY <2>2, <3>1, <3>2
  <2> QED BY <2>1, <2>2
<1>4. \A s \in D \ Stop : size[prev[s]] < size[s]
  <2> SUFFICES ASSUME NEW s \in D, s # <<>>
               PROVE  Len(Front(s)) < Len(s)
    BY <1>0
  <2> QED BY <1>0
<1>5. PICK f \in [D -> V] : Recurs(f, D, Stop, base, prev, comb)
  <2> HIDE DEF D, V, size, Stop, base, prev, comb
  <2>1. Descends(D, V, Stop, size, base, prev, comb)
    BY <1>1, <1>2, <1>3, <1>4 DEF Descends
  <2> QED BY <2>1, LinearRecursion
<1>6. ASSUME NEW s \in D
      PROVE  f[s] = IF s = <<>> THEN 0 ELSE f[Front(s)] * Base + Last(s)
  <2>1. CASE s = <<>>
    BY <1>5, <2>1 DEF Recurs
  <2>2. CASE s # <<>>
    <3>1. prev[s] = Front(s) /\ f[Front(s)] \in V
      BY <1>0, <2>2
    <3>2. f[s] = comb[s][f[Front(s)]]
      BY <1>5, <2>2, <3>1 DEF Recurs
    <3> HIDE DEF V, D
    <3> QED BY <2>2, <3>1, <3>2
  <2> QED BY <2>1, <2>2
<1>7. f = [s \in Seq(Nat) |-> IF s = <<>> THEN 0 ELSE f[Front(s)] * Base + Last(s)]
  BY <1>6
<1> QED BY <1>7 DEF Value

LEMMA FrontOfAppend ==
  ASSUME NEW S, NEW s \in Seq(S), NEW d \in S
  PROVE  Append(s, d) # <<>> /\ Front(Append(s, d)) = s /\ Last(Append(s, d)) = d
<1> DEFINE t == Append(s, d)
<1>1. t \in Seq(S) /\ Len(t) = Len(s) + 1 /\ t[Len(s) + 1] = d /\ \A i \in 1..Len(s) : t[i] = s[i]
  OBVIOUS
<1> HIDE DEF t
<1>2. Len(s) \in Nat /\ Len(t) - 1 = Len(s)
  BY <1>1
<1>3. Last(t) = d
  BY <1>1 DEF Last
<1>4. PICK k \in Nat : k = Len(s) /\ Front(t) = SubSeq(t, 1, k)
  BY <1>2 DEF Front
<1>5. \A i \in 1..k : t[i] \in S
  BY <1>1, <1>4
<1>6. /\ SubSeq(t, 1, k) \in Seq(S) /\ Len(SubSeq(t, 1, k)) = k
      /\ \A i \in 1..k : SubSeq(t, 1, k)[i] = t[i]
  BY <1>5, SubSeqProperties
<1>7. SubSeq(t, 1, k) = s
  <2>1. \A i \in 1..Len(s) : SubSeq(t, 1, k)[i] = s[i]
    BY <1>1, <1>4, <1>6
  <2> QED BY <1>4, <1>6, <2>1, SeqEqual
<1>8. t # <<>>
  BY <1>1, <1>2
<1> QED BY <1>3, <1>4, <1>7, <1>8 DEF t

LEMMA DigitsOf ==
  ASSUME NEW n \in Nat
  PROVE  /\ n < Base => Digits[n] = <<n>>
         /\ n >= Base => Digits[n] = Append(Digits[n \div Base], n % Base)
<1>1. /\ n < Base => Digits[n] = <<n>>
      /\ ~(n < Base) => Digits[n] = Append(Digits[n \div Base], n % Base)
  BY DigitsDef, Zenon
<1>2. n >= Base => ~(n < Base)
  BY BaseAssumption
<1> QED BY <1>1, <1>2, Zenon

(* The digits of a number are digits, and there is one. *)
LEMMA DigitsType ==
  \A n \in Nat : Digits[n] \in Seq(0..(Base - 1)) /\ Digits[n] # <<>>
<1> DEFINE S == {n \in Nat : Digits[n] \in Seq(0..(Base - 1)) /\ Digits[n] # <<>>}
<1>1. ASSUME NEW n \in Nat, \A k \in 0..(n - 1) : k \in S
      PROVE  n \in S
  <2>0. n \div Base \in Nat /\ n % Base \in 0..(Base - 1) /\ (n >= Base => n \div Base < n)
    BY Division, BaseAssumption
  <2>1. CASE n < Base
    <3>1. Digits[n] = <<n>>
      BY <2>1, DigitsOf
    <3>2. n \in 0..(Base - 1) /\ <<n>> \in Seq(0..(Base - 1)) /\ <<n>> # <<>>
      BY <2>1, BaseAssumption
    <3> QED BY <3>1, <3>2
  <2>2. CASE n >= Base
    <3>1. Digits[n] = Append(Digits[n \div Base], n % Base)
      BY <2>2, DigitsOf
    <3>2. Digits[n \div Base] \in Seq(0..(Base - 1))
      BY <1>1, <2>0, <2>2
    <3>3. \A s \in Seq(0..(Base - 1)), d \in 0..(Base - 1) :
            Append(s, d) \in Seq(0..(Base - 1)) /\ Append(s, d) # <<>>
      BY FrontOfAppend
    <3> QED BY <2>0, <3>1, <3>2, <3>3
  <2> QED BY <2>1, <2>2, BaseAssumption
<1> HIDE DEF S
<1>2. \A n \in Nat : n \in S
  BY <1>1, Induction
<1> QED BY <1>2 DEF S

THEOREM DecodeUndoesEncode == \A n \in Nat : DecodeBase62(EncodeBase62(n)) = n
<1> DEFINE S == {n \in Nat : Value[Digits[n]] = n}
<1>0. ASSUME NEW s \in Seq(Nat), NEW d \in Nat
      PROVE  Value[Append(s, d)] = Value[s] * Base + d
  <2>1. Append(s, d) \in Seq(Nat)
    OBVIOUS
  <2> QED BY <2>1, FrontOfAppend, ValueDef
<1>1. ASSUME NEW n \in Nat, \A k \in 0..(n - 1) : k \in S
      PROVE  n \in S
  <2>0. /\ n \div Base \in Nat /\ n % Base \in 0..(Base - 1) /\ (n >= Base => n \div Base < n)
        /\ n = (n \div Base) * Base + (n % Base)
    BY Division, BaseAssumption
  <2>1. CASE n < Base
    <3>1. Digits[n] = <<n>>
      BY <2>1, DigitsOf
    <3>2. <<n>> = Append(<<>>, n) /\ <<>> \in Seq(Nat)
      OBVIOUS
    <3>3. Value[<<>>] = 0
      BY <3>2, ValueDef
    <3>4. Value[<<n>>] = Value[<<>>] * Base + n
      BY <1>0, <3>2
    <3> QED BY <3>1, <3>3, <3>4, BaseAssumption
  <2>2. CASE n >= Base
    <3>1. Digits[n] = Append(Digits[n \div Base], n % Base)
      BY <2>2, DigitsOf
    <3>2. Digits[n \div Base] \in Seq(Nat) /\ n % Base \in Nat
      <4>1. Digits[n \div Base] \in Seq(0..(Base - 1))
        BY <2>0, DigitsType
      <4> QED BY <2>0, <4>1, BaseAssumption
    <3>3. Value[Digits[n \div Base]] = n \div Base
      BY <1>1, <2>0, <2>2
    <3>4. Value[Digits[n]] = (n \div Base) * Base + (n % Base)
      BY <1>0, <3>1, <3>2, <3>3
    <3> QED BY <2>0, <3>4
  <2> QED BY <2>1, <2>2, BaseAssumption
<1> HIDE DEF S
<1>2. \A n \in Nat : n \in S
  BY <1>1, Induction
<1> QED BY <1>2 DEF S, DecodeBase62, EncodeBase62

-----------------------------------------------------------------------------
(* The fields of an id.                                                    *)
USE BitsAssumption, ClockAssumption, DeploymentsAssumption

Before(a, b) == a.ms < b.ms \/ (a.ms = b.ms /\ a.seq < b.seq)

(* Two digits of a number, the lower below its base. *)
LEMMA DigitsInOrder ==
  ASSUME NEW B \in Nat, NEW a \in Nat, NEW c \in Nat, NEW b \in 0..(B - 1), NEW d \in Nat, a < c
  PROVE  a * B + b < c * B + d
<1>1. PICK k \in Nat : c = a + 1 + k
  <2>1. c - a - 1 \in Nat /\ c = a + 1 + (c - a - 1)
    OBVIOUS
  <2> QED BY <2>1
<1>2. c * B = a * B + B + k * B
  BY <1>1
<1>3. k * B >= 0 /\ a * B \in Nat /\ k * B \in Nat
  OBVIOUS
<1>4. QED BY <1>2, <1>3

LEMMA DigitsApart ==
  ASSUME NEW B \in Nat, NEW a \in Nat, NEW c \in Nat, NEW b \in 0..(B - 1), NEW d \in 0..(B - 1),
         a * B + b = c * B + d
  PROVE  a = c /\ b = d
<1>0. a * B \in Nat /\ c * B \in Nat
  OBVIOUS
<1>1. ~ a < c
  BY DigitsInOrder, <1>0
<1>2. ~ c < a
  BY DigitsInOrder, <1>0
<1>3. a = c
  BY <1>1, <1>2
<1> QED BY <1>3, <1>0

(* An id determines its fields, and is larger the later it was issued.     *)
LEMMA PackApart ==
  ASSUME NEW m1 \in Nat, NEW m2 \in Nat, NEW i1 \in 0..MaxInstance, NEW i2 \in 0..MaxInstance,
         NEW s1 \in 0..MaxSequence, NEW s2 \in 0..MaxSequence, Pack(m1, i1, s1) = Pack(m2, i2, s2)
  PROVE  m1 = m2 /\ i1 = i2 /\ s1 = s2
<1> DEFINE high1 == m1 * (MaxInstance + 1) + i1
           high2 == m2 * (MaxInstance + 1) + i2
<1>1. high1 \in Nat /\ high2 \in Nat
  OBVIOUS
<1>2. high1 * (MaxSequence + 1) + s1 = high2 * (MaxSequence + 1) + s2
  BY DEF Pack
<1> HIDE DEF high1, high2
<1>3. high1 = high2 /\ s1 = s2
  BY <1>1, <1>2, DigitsApart
<1>4. m1 * (MaxInstance + 1) + i1 = m2 * (MaxInstance + 1) + i2
  BY <1>3 DEF high1, high2
<1> QED BY <1>3, <1>4, DigitsApart

LEMMA PackInOrder ==
  ASSUME NEW m1 \in Nat, NEW m2 \in Nat, NEW i \in 0..MaxInstance,
         NEW s1 \in 0..MaxSequence, NEW s2 \in 0..MaxSequence,
         m1 < m2 \/ (m1 = m2 /\ s1 < s2)
  PROVE  Pack(m1, i, s1) < Pack(m2, i, s2)
<1> DEFINE high1 == m1 * (MaxInstance + 1) + i
           high2 == m2 * (MaxInstance + 1) + i
<1>1. high1 \in Nat /\ high2 \in Nat
  OBVIOUS
<1>2. CASE m1 < m2
  <2>1. high1 < high2
    BY <1>2, DigitsInOrder
  <2> HIDE DEF high1, high2
  <2>2. high1 * (MaxSequence + 1) + s1 < high2 * (MaxSequence + 1) + s2
    BY <1>1, <2>1, DigitsInOrder
  <2> QED BY <2>2 DEF Pack, high1, high2
<1>3. CASE m1 = m2 /\ s1 < s2
  <2>1. high1 = high2
    BY <1>3
  <2> HIDE DEF high1, high2
  <2>2. high1 * (MaxSequence + 1) \in Nat
    BY <1>1
  <2>3. high1 * (MaxSequence + 1) + s1 < high2 * (MaxSequence + 1) + s2
    BY <1>3, <2>1, <2>2
  <2> QED BY <2>3 DEF Pack, high1, high2
<1> QED BY <1>2, <1>3

(* A number has one quotient and one remainder. *)
LEMMA QuotientIsUnique ==
  ASSUME NEW B \in Nat, NEW q \in Nat, NEW r \in 0..(B - 1)
  PROVE  (q * B + r) \div B = q /\ (q * B + r) % B = r
<1> DEFINE n == q * B + r
<1>1. B > 0 /\ n \in Nat
  <2>1. q * B \in Nat
    OBVIOUS
  <2> QED BY <2>1
<1> HIDE DEF n
<1>2. n \div B \in Nat /\ n % B \in 0..(B - 1) /\ (n \div B) * B + (n % B) = n
  BY <1>1, Division
<1>3. PICK a \in Nat, c \in 0..(B - 1) : a = n \div B /\ c = n % B
  BY <1>2
<1>4. a * B + c = q * B + r
  BY <1>2, <1>3 DEF n
<1>5. a = q /\ c = r
  BY <1>4, DigitsApart
<1> QED BY <1>3, <1>5 DEF n

(* decode_id gets the fields of an id back. *)
LEMMA UnpackUndoesPack ==
  ASSUME NEW ms \in Nat, NEW inst \in 0..MaxInstance, NEW seq \in 0..MaxSequence
  PROVE  Pack(ms, inst, seq) \in Nat /\ Unpack(Pack(ms, inst, seq)) = <<ms, inst, seq>>
<1> DEFINE I == MaxInstance + 1
           S == MaxSequence + 1
           high == ms * I + inst
           low == inst * S + seq
           id == high * S + seq
<1>1. /\ I \in Nat /\ S \in Nat /\ I > 0 /\ S > 0 /\ inst \in 0..(I - 1) /\ seq \in 0..(S - 1)
      /\ id = Pack(ms, inst, seq)
  BY DEF Pack
<1> HIDE DEF I, S
<1>2. ms * I \in Nat /\ high \in Nat /\ inst * S \in Nat /\ high * S \in Nat /\ id \in Nat
  <2>1. ms * I \in Nat /\ inst * S \in Nat
    BY <1>1
  <2>2. high \in Nat
    BY <1>1, <2>1
  <2>3. high * S \in Nat
    <3> HIDE DEF high
    <3> QED BY <1>1, <2>2
  <2> QED BY <1>1, <2>1, <2>2, <2>3
<1>3. id \div S = high /\ id % S = seq
  <2> HIDE DEF high
  <2> QED BY <1>1, <1>2, QuotientIsUnique
<1>4. high % I = inst
  BY <1>1, QuotientIsUnique
<1>5. S * I \in Nat /\ low \in 0..(S * I - 1)
  <2>1. inst * S + S <= I * S
    <3>1. PICK k \in Nat : I = inst + 1 + k
      <4>1. I - inst - 1 \in Nat /\ I = inst + 1 + (I - inst - 1)
        BY <1>1
      <4> QED BY <4>1
    <3>2. I * S = inst * S + S + k * S /\ k * S >= 0 /\ k * S \in Nat
      BY <1>1, <3>1
    <3> QED BY <1>1, <1>2, <3>2
  <2>2. I * S = S * I /\ S * I \in Nat
    BY <1>1
  <2> QED BY <1>1, <1>2, <2>1, <2>2
<1>6. id = ms * (S * I) + low
  <2>1. (ms * I + inst) * S = ms * (S * I) + inst * S
    BY <1>1
  <2>2. ms * (S * I) \in Nat
    BY <1>5
  <2> QED BY <1>1, <1>2, <2>1, <2>2
<1>7. id \div (S * I) = ms
  <2>1. \A B \in Nat : low \in 0..(B - 1) => (ms * B + low) \div B = ms
    <3> HIDE DEF low
    <3> QED BY <1>5, QuotientIsUnique
  <2> QED BY <1>5, <1>6, <2>1
<1>8. Unpack(id) = <<id \div (S * I), (id \div S) % I, id % S>>
  BY DEF Unpack, S, I
<1>9. Unpack(id) = <<ms, inst, seq>>
  BY <1>3, <1>4, <1>7, <1>8
<1> QED BY <1>1, <1>2, <1>9

LEMMA EntriesApart ==
  ASSUME NEW a \in Entries, NEW b \in Entries, IdOf(a) = IdOf(b)
  PROVE  a.ms = b.ms /\ a.inst = b.inst /\ a.seq = b.seq
<1>1. /\ a.ms \in Nat /\ a.inst \in 0..MaxInstance /\ a.seq \in 0..MaxSequence
      /\ b.ms \in Nat /\ b.inst \in 0..MaxInstance /\ b.seq \in 0..MaxSequence
  BY DEF Entries
<1>2. Pack(a.ms, a.inst, a.seq) = Pack(b.ms, b.inst, b.seq)
  BY DEF IdOf
<1>3. ASSUME NEW m1 \in Nat, NEW m2 \in Nat, NEW i1 \in 0..MaxInstance, NEW i2 \in 0..MaxInstance,
             NEW s1 \in 0..MaxSequence, NEW s2 \in 0..MaxSequence,
             m1 = a.ms, m2 = b.ms, i1 = a.inst, i2 = b.inst, s1 = a.seq, s2 = b.seq
      PROVE  m1 = m2 /\ i1 = i2 /\ s1 = s2
  <2>1. Pack(m1, i1, s1) = Pack(m2, i2, s2)
    BY <1>2, <1>3
  <2> QED BY <2>1, PackApart
<1> QED BY <1>1, <1>3

-----------------------------------------------------------------------------
(* What the entries of g say of its life, its clock and each other. *)
Lives(g) ==
  \A n \in DOMAIN issued[g] : issued[g][n].life <= life[g] /\ issued[g][n].inst = instance[g]

Latest(g) ==
  \A n \in DOMAIN issued[g] :
    issued[g][n].life = life[g] =>
      /\ lastMs[g] # -1
      /\ \/ issued[g][n].ms < lastMs[g]
         \/ issued[g][n].ms = lastMs[g] /\ issued[g][n].seq <= sequence[g]

Ahead(g) ==
  \A n \in DOMAIN issued[g] :
    issued[g][n].life < life[g] /\ ~CameUpBehind(g, issued[g][n].life, life[g]) =>
      lastMs[g] = -1 \/ issued[g][n].ms < lastMs[g]

InOrder(g) ==
  \A m, n \in DOMAIN issued[g] :
    m < n =>
      /\ issued[g][m].life <= issued[g][n].life
      /\ issued[g][m].life = issued[g][n].life => Before(issued[g][m], issued[g][n])
      /\ /\ issued[g][m].life < issued[g][n].life
         /\ ~CameUpBehind(g, issued[g][m].life, issued[g][n].life)
         => issued[g][m].ms < issued[g][n].ms

GenInv == GenTypeOK /\ \A g \in Generators : Lives(g) /\ Latest(g) /\ Ahead(g) /\ InOrder(g)

LEMMA InitGenInv == GenInit => GenInv
<1> SUFFICES ASSUME GenInit
             PROVE  GenInv
  OBVIOUS
<1>1. GenTypeOK
  <2>1. instance \in [Generators -> 0..MaxInstance]
    BY DEF GenInit
  <2> QED BY <2>1 DEF GenInit, GenTypeOK
<1>2. \A g \in Generators : DOMAIN issued[g] = {}
  BY DEF GenInit
<1> QED BY <1>1, <1>2 DEF GenInv, Lives, Latest, Ahead, InOrder

LEMMA NextGenTypeOK == GenInv /\ [GenNext]_genVars => GenTypeOK'
<1> SUFFICES ASSUME GenInv, [GenNext]_genVars
             PROVE  GenTypeOK'
  OBVIOUS
<1>0. GenTypeOK
  BY DEF GenInv
<1>1. ASSUME NEW g \in Generators, NEW now \in Readings(g), Issue(g, now)
      PROVE  GenTypeOK'
  <2>0. now \in Nat
    BY ClockAssumption DEF Readings
  <2>1. NextSequence(g, now) \in 0..MaxSequence
    BY <1>0, <1>1, <2>0 DEF Issue, NextSequence, GenTypeOK
  <2>2. Entry(g, now) \in Entries
    BY <1>0, <2>0, <2>1 DEF Entry, Entries, GenTypeOK
  <2>3. issued' \in [Generators -> Seq(Entries)]
    BY <1>0, <1>1, <2>2 DEF Issue, GenTypeOK
  <2>4. lastMs' \in [Generators -> Nat \cup {-1}]
    BY <1>0, <1>1, <2>0 DEF Issue, GenTypeOK
  <2>5. sequence' \in [Generators -> 0..(MaxSequence + 1)]
    BY <1>0, <1>1, <2>0, <2>1 DEF Issue, GenTypeOK
  <2>6. \A h \in Generators : sequence'[h] > MaxSequence => spin'[h] = "exhausted"
    BY <1>0, <1>1, <2>0, <2>1, SMTT(30) DEF Issue, GenTypeOK
  <2>7. setBack' \in [Generators -> SUBSET Nat]
    BY <1>0, <1>1, <2>0 DEF Issue, GenTypeOK
  <2>8. spin' \in [Generators -> {"no", "behind", "exhausted"}]
    BY <1>0, <1>1, <2>0 DEF Issue, GenTypeOK
  <2> QED BY <1>0, <1>1, <2>3, <2>4, <2>5, <2>6, <2>7, <2>8 DEF Issue, GenTypeOK
<1>2. ASSUME NEW g \in Generators, SpinBehind(g)
      PROVE  GenTypeOK'
  <2>1. spin' \in [Generators -> {"no", "behind", "exhausted"}]
    BY <1>0, <1>2 DEF SpinBehind, GenTypeOK
  <2>2. \A h \in Generators : sequence[h] > MaxSequence => spin'[h] = "exhausted"
    BY <1>0, <1>2 DEF SpinBehind, GenTypeOK
  <2> QED BY <1>0, <1>2, <2>1, <2>2 DEF SpinBehind, GenTypeOK
<1>3. ASSUME NEW g \in Generators, SpinExhausted(g)
      PROVE  GenTypeOK'
  <2>1. spin' \in [Generators -> {"no", "behind", "exhausted"}]
    BY <1>0, <1>3 DEF SpinExhausted, GenTypeOK
  <2>2. sequence' \in [Generators -> 0..(MaxSequence + 1)]
    BY <1>0, <1>3 DEF SpinExhausted, GenTypeOK
  <2>3. \A h \in Generators : sequence'[h] > MaxSequence => spin'[h] = "exhausted"
    BY <1>0, <1>3 DEF SpinExhausted, GenTypeOK
  <2> QED BY <1>0, <1>3, <2>1, <2>2, <2>3 DEF SpinExhausted, GenTypeOK
<1>4. ASSUME NEW g \in Generators, Reboot(g)
      PROVE  GenTypeOK'
  <2>1. /\ life' \in [Generators -> Nat]
        /\ lastMs' \in [Generators -> Nat \cup {-1}]
        /\ sequence' \in [Generators -> 0..(MaxSequence + 1)]
        /\ spin' \in [Generators -> {"no", "behind", "exhausted"}]
    BY <1>0, <1>4 DEF Reboot, GenTypeOK
  <2>2. \A h \in Generators : sequence'[h] > MaxSequence => spin'[h] = "exhausted"
    BY <1>0, <1>4 DEF Reboot, GenTypeOK
  <2> QED BY <1>0, <1>4, <2>1, <2>2 DEF Reboot, GenTypeOK
<1>5. CASE UNCHANGED genVars
  BY <1>0, <1>5 DEF genVars, GenTypeOK
<1> QED BY <1>1, <1>2, <1>3, <1>4, <1>5 DEF GenNext, GenStep, NextId, RefuseId

(* The new entry of next_id comes after those of its own life, and, unless *)
(* the process came up behind, after those of earlier lives.               *)
LEMMA NewEntryIsLast ==
  ASSUME GenInv, NEW g \in Generators, NEW now \in Readings(g), Issue(g, now),
         NEW n \in DOMAIN issued[g]
  PROVE  /\ issued[g][n].life = life[g] => Before(issued[g][n], Entry(g, now))
         /\ /\ issued[g][n].life < life[g]
            /\ ~\E l \in setBack'[g] : issued[g][n].life < l /\ l <= life[g]
            => issued[g][n].ms < now
<1> DEFINE e == issued[g][n]
<1>0. /\ e \in Entries /\ now \in Nat /\ life[g] \in Nat
      /\ lastMs[g] \in Nat \cup {-1} /\ sequence[g] \in 0..(MaxSequence + 1)
  BY ClockAssumption DEF GenInv, GenTypeOK, Readings
<1>1. now >= lastMs[g]
  BY DEF Issue
<1>2. ASSUME e.life = life[g]
      PROVE  Before(e, Entry(g, now))
  <2>1. e.ms < lastMs[g] \/ (e.ms = lastMs[g] /\ e.seq <= sequence[g])
    BY <1>2 DEF GenInv, Latest
  <2>2. Entry(g, now).ms = now /\ Entry(g, now).seq = NextSequence(g, now)
    BY DEF Entry
  <2>3. now = lastMs[g] => NextSequence(g, now) = sequence[g] + 1
    BY DEF NextSequence
  <2> QED BY <1>0, <1>1, <2>1, <2>2, <2>3 DEF Before, Entries
<1>3. ASSUME e.life < life[g], ~\E l \in setBack'[g] : e.life < l /\ l <= life[g]
      PROVE  e.ms < now
  <2>1. /\ setBack[g] \subseteq setBack'[g] /\ life' = life
        /\ ComesTooEarly(g, now) => life[g] \in setBack'[g]
    BY DEF Issue, GenInv, GenTypeOK
  <2>2. ~CameUpBehind(g, e.life, life[g]) /\ life[g] \notin setBack'[g]
    BY <1>0, <1>3, <2>1 DEF CameUpBehind, Entries
  <2>3. CASE lastMs[g] = -1
    BY <1>0, <2>1, <2>2, <2>3 DEF ComesTooEarly, Entries
  <2>4. CASE lastMs[g] # -1
    BY <1>0, <1>1, <1>3, <2>2, <2>4 DEF GenInv, Ahead, Entries
  <2> QED BY <2>3, <2>4
<1> QED BY <1>2, <1>3

LEMMA NextEntries ==
  GenInv /\ [GenNext]_genVars =>
    (\A g \in Generators : Lives(g) /\ Latest(g) /\ Ahead(g) /\ InOrder(g))'
<1> SUFFICES ASSUME GenInv, [GenNext]_genVars, NEW g \in Generators
             PROVE  (Lives(g) /\ Latest(g) /\ Ahead(g) /\ InOrder(g))'
  OBVIOUS
<1>0. /\ issued[g] \in Seq(Entries) /\ life[g] \in Nat /\ setBack[g] \subseteq Nat
      /\ lastMs[g] \in Nat \cup {-1} /\ sequence[g] \in 0..(MaxSequence + 1)
      /\ \A n \in DOMAIN issued[g] : issued[g][n] \in Entries
  BY DEF GenInv, GenTypeOK
<1>1. Lives(g) /\ Latest(g) /\ Ahead(g) /\ InOrder(g)
  BY DEF GenInv
<1>2. CASE NextId(g)
  <2>0. PICK now \in Readings(g) : Issue(g, now)
    BY <1>2 DEF NextId
  <2>a. now \in Nat
    BY ClockAssumption DEF Readings
  <2> DEFINE k == Len(issued[g])
  <2>1. /\ issued'[g] = Append(issued[g], Entry(g, now)) /\ life'[g] = life[g] /\ instance' = instance
        /\ lastMs'[g] = now /\ sequence'[g] = NextSequence(g, now) /\ setBack[g] \subseteq setBack'[g]
    BY <2>0 DEF Issue, GenInv, GenTypeOK
  <2>2. /\ DOMAIN issued[g] = 1..k /\ k \in Nat /\ DOMAIN issued'[g] = 1..(k + 1)
        /\ \A n \in 1..k : issued'[g][n] = issued[g][n]
        /\ issued'[g][k + 1] = Entry(g, now)
    BY <1>0, <2>1
  <2>3. /\ Entry(g, now).life = life[g] /\ Entry(g, now).inst = instance[g]
        /\ Entry(g, now).ms = now /\ Entry(g, now).seq = NextSequence(g, now)
    BY DEF Entry
  <2>4. NextSequence(g, now) \in Nat
    BY <1>0 DEF NextSequence
  <2>5. \A n \in 1..k :
          /\ issued[g][n].life = life[g] => Before(issued[g][n], Entry(g, now))
          /\ /\ issued[g][n].life < life[g]
             /\ ~\E l \in setBack'[g] : issued[g][n].life < l /\ l <= life[g]
             => issued[g][n].ms < now
    BY <2>0, <2>2, NewEntryIsLast
  <2>6. Lives(g)'
    BY <1>0, <1>1, <2>1, <2>2, <2>3 DEF Lives
  <2>7. Latest(g)'
    <3> SUFFICES ASSUME NEW n \in 1..(k + 1), issued'[g][n].life = life'[g]
                 PROVE  /\ lastMs'[g] # -1
                        /\ \/ issued'[g][n].ms < lastMs'[g]
                           \/ issued'[g][n].ms = lastMs'[g] /\ issued'[g][n].seq <= sequence'[g]
      BY <2>2 DEF Latest
    <3>1. CASE n = k + 1
      BY <1>0, <2>a, <2>1, <2>2, <2>3, <2>4, <3>1
    <3>2. CASE n \in 1..k
      <4>1. Before(issued[g][n], Entry(g, now))
        BY <2>1, <2>2, <2>5, <3>2
      <4>2. issued[g][n] \in Entries
        BY <1>0, <2>2, <3>2
      <4>3. issued[g][n].ms \in Nat /\ issued[g][n].seq \in Nat
        BY <4>2 DEF Entries
      <4>4. \/ issued[g][n].ms < now
            \/ issued[g][n].ms = now /\ issued[g][n].seq < NextSequence(g, now)
        BY <2>3, <4>1 DEF Before
      <4>5. lastMs'[g] # -1 /\ issued'[g][n] = issued[g][n]
        BY <1>0, <2>a, <2>1, <2>2, <3>2
      <4> HIDE DEF k
      <4> QED BY <2>a, <2>1, <2>4, <4>3, <4>4, <4>5
    <3> QED BY <2>2, <3>1, <3>2
  <2>8. Ahead(g)'
    <3> SUFFICES ASSUME NEW n \in 1..(k + 1), issued'[g][n].life < life'[g],
                        ~CameUpBehind(g, issued[g][n].life, life[g])'
                 PROVE  issued'[g][n].ms < lastMs'[g]
      BY <2>2 DEF Ahead
    <3>1. n \in 1..k
      BY <1>0, <2>1, <2>2, <2>3
    <3> QED BY <2>1, <2>2, <2>5, <3>1 DEF CameUpBehind
  <2>9. InOrder(g)'
    <3> SUFFICES ASSUME NEW m \in 1..(k + 1), NEW n \in 1..(k + 1), m < n
                 PROVE  /\ issued'[g][m].life <= issued'[g][n].life
                        /\ issued'[g][m].life = issued'[g][n].life => Before(issued'[g][m], issued'[g][n])
                        /\ /\ issued'[g][m].life < issued'[g][n].life
                           /\ ~CameUpBehind(g, issued[g][m].life, issued[g][n].life)'
                           => issued'[g][m].ms < issued'[g][n].ms
      BY <2>2 DEF InOrder, Before
    <3>1. m \in 1..k
      BY <2>2
    <3>2. CASE n = k + 1
      <4>1. issued[g][m].life <= life[g]
        BY <1>1, <2>2, <3>1 DEF Lives
      <4> QED BY <2>1, <2>2, <2>3, <2>5, <3>1, <3>2, <4>1 DEF CameUpBehind
    <3>3. CASE n \in 1..k
      <4>1. ~CameUpBehind(g, issued[g][m].life, issued[g][n].life)' =>
              ~CameUpBehind(g, issued[g][m].life, issued[g][n].life)
        BY <2>1, <2>2, <3>1, <3>3 DEF CameUpBehind
      <4> QED BY <1>1, <2>2, <3>1, <3>3, <4>1 DEF InOrder
    <3> QED BY <2>2, <3>2, <3>3
  <2> QED BY <2>6, <2>7, <2>8, <2>9
<1>3. CASE Reboot(g)
  <2>1. /\ life'[g] = life[g] + 1 /\ lastMs'[g] = -1 /\ sequence'[g] = 0
        /\ UNCHANGED <<instance, issued, setBack>>
    BY <1>3 DEF Reboot, GenInv, GenTypeOK
  <2>2. \A n \in DOMAIN issued[g] : issued[g][n].life \in Nat
    BY <1>0 DEF Entries
  <2>3. Lives(g)'
    BY <1>0, <1>1, <2>1, <2>2 DEF Lives
  <2>4. Latest(g)'
    BY <1>0, <1>1, <2>1, <2>2 DEF Lives, Latest
  <2>5. Ahead(g)'
    BY <2>1 DEF Ahead
  <2>6. InOrder(g)'
    BY <1>1, <2>1 DEF InOrder, CameUpBehind
  <2> QED BY <2>3, <2>4, <2>5, <2>6
<1>4. ASSUME UNCHANGED <<issued, instance, setBack>>, life'[g] = life[g], lastMs'[g] = lastMs[g],
             sequence'[g] \in Nat, sequence'[g] >= sequence[g]
      PROVE  (Lives(g) /\ Latest(g) /\ Ahead(g) /\ InOrder(g))'
  <2>1. \A n \in DOMAIN issued[g] : issued[g][n].seq \in Nat
    BY <1>0 DEF Entries
  <2>2. Latest(g)'
    <3> SUFFICES ASSUME NEW n \in DOMAIN issued[g], issued[g][n].life = life[g]
                 PROVE  /\ lastMs[g] # -1
                        /\ \/ issued[g][n].ms < lastMs[g]
                           \/ issued[g][n].ms = lastMs[g] /\ issued[g][n].seq <= sequence'[g]
      BY <1>4 DEF Latest
    <3>1. /\ lastMs[g] # -1
          /\ \/ issued[g][n].ms < lastMs[g]
             \/ issued[g][n].ms = lastMs[g] /\ issued[g][n].seq <= sequence[g]
      BY <1>1 DEF Latest
    <3> QED BY <1>0, <1>4, <2>1, <3>1
  <2>3. Lives(g)' /\ Ahead(g)'
    BY <1>1, <1>4 DEF Lives, Ahead, CameUpBehind
  <2>4. InOrder(g)'
    BY <1>1, <1>4 DEF InOrder, CameUpBehind
  <2> QED BY <2>2, <2>3, <2>4
<1>5. ASSUME NEW h \in Generators, h # g, NextId(h) \/ Reboot(h)
      PROVE  (Lives(g) /\ Latest(g) /\ Ahead(g) /\ InOrder(g))'
  <2>1. /\ issued'[g] = issued[g] /\ life'[g] = life[g] /\ lastMs'[g] = lastMs[g]
        /\ sequence'[g] = sequence[g] /\ setBack'[g] = setBack[g] /\ instance' = instance
    BY <1>5 DEF NextId, Issue, Reboot, GenInv, GenTypeOK
  <2>2. Lives(g)' /\ Latest(g)' /\ Ahead(g)'
    BY <1>1, <2>1 DEF Lives, Latest, Ahead, CameUpBehind
  <2>3. InOrder(g)'
    BY <1>1, <2>1 DEF InOrder, CameUpBehind
  <2> QED BY <2>2, <2>3
<1>6. ASSUME NEW h \in Generators, SpinBehind(h) \/ SpinExhausted(h)
      PROVE  (Lives(g) /\ Latest(g) /\ Ahead(g) /\ InOrder(g))'
  <2>1. sequence'[g] \in Nat /\ sequence'[g] >= sequence[g]
    <3>1. CASE SpinBehind(h)
      BY <1>0, <3>1 DEF SpinBehind
    <3>2. CASE SpinExhausted(h)
      <4>1. sequence'[g] = IF g = h THEN MaxSequence + 1 ELSE sequence[g]
        BY <3>2 DEF SpinExhausted, GenInv, GenTypeOK
      <4>2. sequence[h] = MaxSequence
        BY <3>2 DEF SpinExhausted
      <4> QED BY <1>0, <4>1, <4>2, BitsAssumption
    <3> QED BY <1>6, <3>1, <3>2
  <2> QED BY <1>4, <1>6, <2>1 DEF SpinBehind, SpinExhausted
<1>7. CASE UNCHANGED genVars
  BY <1>0, <1>4, <1>7 DEF genVars
<1> QED BY <1>2, <1>3, <1>5, <1>6, <1>7 DEF GenNext, GenStep, RefuseId

LEMMA NextGenInv == GenInv /\ [GenNext]_genVars => GenInv'
BY NextGenTypeOK, NextEntries DEF GenInv

-----------------------------------------------------------------------------
THEOREM GenInvariance == GenSpec => []GenInv
BY InitGenInv, NextGenInv, PTL DEF GenSpec

(* Every reachable state is well typed: a sequence number that is issued   *)
(* fits its bits (next_id).                                                *)
THEOREM GenTypeCorrect == GenSpec => []GenTypeOK
<1>1. GenInv => GenTypeOK
  BY DEF GenInv
<1> QED BY <1>1, GenInvariance, PTL

LEMMA IdsAreNumbers ==
  GenInv => \A g \in Generators : \A n \in DOMAIN issued[g] : IdOf(issued[g][n]) \in Nat
<1> SUFFICES ASSUME GenInv, NEW g \in Generators, NEW n \in DOMAIN issued[g]
             PROVE  IdOf(issued[g][n]) \in Nat
  OBVIOUS
<1>1. issued[g][n] \in Entries
  BY DEF GenInv, GenTypeOK
<1> QED BY <1>1, UnpackUndoesPack DEF Entries, IdOf

(* Wherever the clock goes, the ids of one life of a generator increase    *)
(* (next_id).                                                              *)
THEOREM IdsIncrease == GenSpec => []IdsIncreaseInALife
<1>1. GenInv => IdsIncreaseInALife
  <2> SUFFICES ASSUME GenInv, NEW g \in Generators, NEW m \in DOMAIN issued[g], NEW n \in DOMAIN issued[g],
                      m < n, issued[g][m].life = issued[g][n].life
               PROVE  IdOf(issued[g][m]) < IdOf(issued[g][n])
    BY DEF IdsIncreaseInALife
  <2>1. issued[g][m] \in Entries /\ issued[g][n] \in Entries
    BY DEF GenInv, GenTypeOK
  <2>2. Before(issued[g][m], issued[g][n])
    BY DEF GenInv, InOrder
  <2>3. issued[g][m].inst = issued[g][n].inst
    BY DEF GenInv, Lives
  <2> QED BY <2>1, <2>2, <2>3, PackInOrder DEF Before, Entries, IdOf
<1> QED BY <1>1, GenInvariance, PTL

LEMMA RepeatsInv == GenInv => RepeatHasItsCause
<1> SUFFICES ASSUME GenInv, NEW g \in Generators, NEW h \in Generators,
                    NEW m \in DOMAIN issued[g], NEW n \in DOMAIN issued[h],
                    IdOf(issued[g][m]) = IdOf(issued[h][n]), <<g, m>> # <<h, n>>
             PROVE  IF g # h THEN instance[g] = instance[h]
                    ELSE \/ CameUpBehind(g, issued[g][m].life, issued[g][n].life)
                         \/ CameUpBehind(g, issued[g][n].life, issued[g][m].life)
  BY DEF RepeatHasItsCause
<1> DEFINE a == issued[g][m]
           b == issued[h][n]
<1>1. a \in Entries /\ b \in Entries /\ m \in Nat /\ n \in Nat
  BY DEF GenInv, GenTypeOK
<1>2. a.ms = b.ms /\ a.inst = b.inst /\ a.seq = b.seq
  BY <1>1, EntriesApart
<1>3. CASE g # h
  BY <1>2, <1>3 DEF GenInv, Lives
<1>4. CASE g = h
  <2>1. ASSUME NEW k \in DOMAIN issued[g], NEW l \in DOMAIN issued[g], k < l,
               issued[g][k].ms = issued[g][l].ms, issued[g][k].seq = issued[g][l].seq
        PROVE  CameUpBehind(g, issued[g][k].life, issued[g][l].life)
    <3>1. issued[g][k] \in Entries /\ issued[g][l] \in Entries /\ InOrder(g)
      BY SMTT(30) DEF GenInv, GenTypeOK
    <3> QED BY <2>1, <3>1 DEF InOrder, Before, Entries
  <2>2. m < n \/ n < m
    BY <1>1, <1>4
  <2> QED BY <1>2, <1>4, <2>1, <2>2
<1> QED BY <1>3, <1>4

(* An id comes twice only from a shared INSTANCE_ID or from a process that *)
(* came up behind its own past (next_id).                                  *)
THEOREM RepeatsHaveTheirCause == GenSpec => []RepeatHasItsCause
BY RepeatsInv, GenInvariance, PTL

(* A code decodes to who issued it, when, and as which of the millisecond  *)
(* (decode_id of next_code).                                               *)
THEOREM CodesTellTheirOrigin == GenSpec => []CodeTellsItsOrigin
<1>1. GenInv => CodeTellsItsOrigin
  <2> SUFFICES ASSUME GenInv, NEW g \in Generators, NEW n \in DOMAIN issued[g]
               PROVE  LET e == issued[g][n]
                      IN  Unpack(DecodeBase62(EncodeBase62(IdOf(e)))) = <<e.ms, e.inst, e.seq>>
    BY DEF CodeTellsItsOrigin
  <2> DEFINE e == issued[g][n]
  <2>1. e \in Entries
    BY DEF GenInv, GenTypeOK
  <2>2. e.ms \in Nat /\ e.inst \in 0..MaxInstance /\ e.seq \in 0..MaxSequence
    BY <2>1 DEF Entries
  <2> HIDE DEF e
  <2>3. IdOf(e) \in Nat /\ Unpack(IdOf(e)) = <<e.ms, e.inst, e.seq>>
    BY <2>2, UnpackUndoesPack DEF IdOf
  <2>4. DecodeBase62(EncodeBase62(IdOf(e))) = IdOf(e)
    BY <2>3, DecodeUndoesEncode
  <2> QED BY <2>3, <2>4 DEF e
<1> QED BY <1>1, GenInvariance, PTL
=============================================================================
