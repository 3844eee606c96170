------------------------- MODULE TokenBucket_proofs -------------------------
(* What holds of the token bucket for any capacity, rate, cost and number  *)
(* of threads, and for any clock.                                          *)
EXTENDS TokenBucket, TLAPS

(* A refill never goes beyond the capacity, and never takes anything away. *)
LEMMA LevelBound ==
  ASSUME NEW b, b.tokens \in 0..Capacity, b.updated \in Times, NEW at \in Nat
  PROVE  /\ Level(b, at) \in 0..Capacity
         /\ b.updated # Never => b.tokens <= Level(b, at)
<1> DEFINE elapsed == IF at > b.updated THEN at - b.updated ELSE 0
<1>1. CASE b.updated = Never
  BY <1>1, BucketAssumption DEF Level
<1>2. CASE b.updated # Never
  <2>1. elapsed \in Nat
    BY <1>2 DEF Times
  <2>2. elapsed * Rate \in Nat
    BY <2>1, BucketAssumption
  <2>3. Level(b, at) = IF b.tokens + elapsed * Rate < Capacity
                       THEN b.tokens + elapsed * Rate ELSE Capacity
    BY <1>2 DEF Level
  <2> HIDE DEF elapsed
  <2>. QED
    BY <2>2, <2>3, BucketAssumption
<1>. QED
  BY <1>1, <1>2

LEMMA LeftBound ==
  ASSUME NEW level \in 0..Capacity
  PROVE  /\ Left(level) \in 0..Capacity
         /\ Left(level) = IF level >= Cost THEN level - Cost ELSE level
BY BucketAssumption DEF Left

(* Division rounded up is enough: that many refills make n. *)
LEMMA CeilingBound ==
  ASSUME NEW n \in Nat, NEW d \in Nat, d > 0
  PROVE  /\ Ceiling(n, d) \in Nat
         /\ Ceiling(n, d) * d >= n
<1>1. n + d - 1 \in Nat
  OBVIOUS
<1>2. PICK m \in Nat : m = n + d - 1
  BY <1>1
<1>3. m \div d \in Nat /\ m = d * (m \div d) + (m % d) /\ m % d \in 0..(d - 1)
  BY <1>2
<1>4. PICK q \in Nat, r \in Int : q = m \div d /\ r = m % d
  BY <1>3
<1>5. q * d = d * q /\ d * q = m - r /\ r <= d - 1
  BY <1>3, <1>4
<1>6. d * q \in Int /\ d * q >= n
  BY <1>2, <1>5, <1>3, <1>4
<1>. QED
  BY <1>2, <1>3, <1>4, <1>5, <1>6 DEF Ceiling

LEMMA TtlNat == Ttl \in Nat
BY CeilingBound, BucketAssumption, TimesAssumption DEF Ttl

(* What a refused request is told: numbers, and at least as many seconds   *)
(* as there are whole ones in retry_after_s, if it is less than the cap.   *)
LEMMA HeaderBound ==
  ASSUME NEW wait \in Nat
  PROVE  /\ Header(wait) \in Nat
         /\ Header(wait) < HeaderCap => wait <= Rate * ((Header(wait) + 1) * Second)
<1>1. CASE Rate = 0
  BY <1>1, HeaderAssumption DEF Header
<1>2. CASE Rate # 0
  <2>1. PICK d \in Nat : d = Rate * Second /\ d > 0
    BY <1>2, BucketAssumption, HeaderAssumption
  <2>2. PICK q \in Nat, r \in Nat : q = wait \div d /\ wait = d * q + r /\ r < d
    <3>1. wait \div d \in Nat /\ wait = d * (wait \div d) + (wait % d) /\ wait % d \in 0..(d - 1)
      <4>1. d \in Nat /\ d > 0
        BY <2>1
      <4>. QED
        BY <4>1
    <3>. QED
      BY <3>1, <2>1
  <2>3. /\ Header(wait) \in Nat
        /\ Header(wait) < HeaderCap => q <= Header(wait)
    BY <1>2, <2>1, <2>2, HeaderAssumption DEF Header
  <2>4. PICK h \in Nat : h = Header(wait)
    BY <2>3
  <2>5. q <= h => wait <= d * (h + 1)
    <3>1. SUFFICES ASSUME q <= h PROVE wait <= d * (h + 1)
      OBVIOUS
    <3>2. PICK e \in Nat : h + 1 = q + 1 + e
      <4>1. h - q \in Nat /\ h + 1 = q + 1 + (h - q)
        BY <3>1
      <4>. QED
        BY <4>1
    <3>3. d * (h + 1) = d * q + d + d * e /\ d * e \in Nat /\ d * q \in Nat
      BY <3>2, <2>1
    <3>. QED
      BY <3>3, <2>2, <2>1
  <2>6. d * (h + 1) = Rate * ((h + 1) * Second)
    BY <2>1, BucketAssumption, HeaderAssumption
  <2>. QED
    BY <2>3, <2>4, <2>5, <2>6
<1>. QED
  BY <1>1, <1>2

-----------------------------------------------------------------------------
LEMMA TypeInit == Init => TypeOK
BY BucketAssumption, TimesAssumption DEF Init, TypeOK, NoRow, NoKey, NoRefusal, Times, Never

LEMMA TypeStep == TypeOK /\ [Next]_vars => TypeOK'
<1> SUFFICES ASSUME TypeOK, [Next]_vars
             PROVE  TypeOK'
  OBVIOUS
<1> USE BucketAssumption, TimesAssumption DEF TypeOK, Times, Never
<1>1. ASSUME NEW t \in Threads, Check(t) PROVE TypeOK'
  BY <1>1 DEF Check
<1>2. ASSUME NEW t \in Threads, Consume(t) PROVE TypeOK'
  <2> DEFINE at == asked[t]
  <2>1. at \in Nat /\ at <= now
    BY <1>2 DEF Consume
  <2>2. Level(row, at) \in 0..Capacity /\ Level(key, at) \in 0..Capacity
    BY <2>1, LevelBound
  <2>3. Left(Level(row, at)) \in 0..Capacity /\ Left(Level(key, at)) \in 0..Capacity
    BY <2>2, LeftBound
  <2>4. row' \in [tokens : 0..Capacity, updated : Times] /\ row'.updated <= now'
    BY <1>2, <2>1, <2>3 DEF Consume, ConsumeRow
  <2>5. key' \in [tokens : 0..Capacity, updated : Times, expires : Nat] /\ key'.updated <= now'
    BY <1>2, <2>1, <2>3, TtlNat DEF Consume, ConsumeKey
  <2>6. setBack' \in Nat
    BY <1>2, <2>1 DEF Consume, ConsumeRow
  <2>7. spent' \in Nat /\ refusal' \in [at : Times, wait : Nat, told : Nat]
    <3>1. CASE Level(row, at) >= Cost
      BY <1>2, <3>1 DEF Consume, Decide, NoRefusal
    <3>2. CASE ~(Level(row, at) >= Cost)
      <4>1. RetryAfter(Level(row, at)) \in Nat
        BY <3>2, <2>2 DEF RetryAfter
      <4>2. Refusal(at, Level(row, at)) \in [at : Times, wait : Nat, told : Nat]
        BY <4>1, <2>1, HeaderBound DEF Refusal
      <4>. QED
        BY <1>2, <3>2, <4>2 DEF Consume, Decide
    <3>. QED
      BY <3>1, <3>2
  <2>8. asked' \in [Threads -> Times] /\ (\A u \in Threads : asked'[u] <= now') /\ now' \in Nat
    BY <1>2 DEF Consume
  <2>. QED
    BY <2>4, <2>5, <2>6, <2>7, <2>8
<1>3. ASSUME NEW t \in Threads, StoreFails(t) PROVE TypeOK'
  BY <1>3 DEF StoreFails
<1>4. CASE Tick
  <2>1. key' \in [tokens : 0..Capacity, updated : Times, expires : Nat] /\ key'.updated <= now'
    BY <1>4 DEF Tick, NoKey
  <2>. QED
    BY <1>4, <2>1 DEF Tick
<1>5. CASE UNCHANGED vars
  BY <1>5 DEF vars
<1>. QED
  BY <1>1, <1>2, <1>3, <1>4, <1>5 DEF Next

(* Type correctness: tokens stay between nothing and the capacity. *)
THEOREM TypeCorrect == Spec => []TypeOK
<1>. QED
  BY TypeInit, TypeStep, PTL DEF Spec

-----------------------------------------------------------------------------
(* What was spent and what is left are paid for by the first filling and   *)
(* by the refill up to updated_ms, once more for what was set back.        *)
Paid ==
  /\ row.updated = Never => spent = 0
  /\ row.updated # Never => spent + row.tokens <= Capacity + Rate * (row.updated + setBack)

LEMMA PaidInit == Init => Paid
BY DEF Init, Paid, NoRow

(* An update neither makes nor destroys tokens besides the refill. *)
LEMMA DecideConserves ==
  ASSUME TypeOK, NEW at \in Nat, Level(row, at) \in 0..Capacity, Decide(at)
  PROVE  spent' + Left(Level(row, at)) = spent + Level(row, at)
BY BucketAssumption, LeftBound DEF TypeOK, Decide

(* Arithmetic of the refill. *)
LEMMA Scale ==
  ASSUME NEW a \in Int
  PROVE  /\ Rate * a \in Int
         /\ Rate * a = a * Rate
         /\ a >= 0 => Rate * a >= 0
BY BucketAssumption

LEMMA Spread ==
  ASSUME NEW a \in Int, NEW b \in Int, NEW c \in Int, c = a + b
  PROVE  Rate * c = Rate * a + Rate * b
BY BucketAssumption

LEMMA Grow ==
  ASSUME NEW a \in Int, NEW b \in Int, a <= b
  PROVE  Rate * a <= Rate * b
<1>1. PICK d \in Nat : b = a + d
  <2>1. b - a \in Nat /\ b = a + (b - a)
    OBVIOUS
  <2>. QED
    BY <2>1
<1>2. Rate * b = Rate * a + Rate * d
  BY <1>1, Spread
<1>3. Rate * d >= 0 /\ Rate * d \in Int /\ Rate * a \in Int
  BY Scale
<1>. QED
  BY <1>2, <1>3

LEMMA PaidStep == TypeOK /\ Paid /\ [Next]_vars => Paid'
<1> SUFFICES ASSUME TypeOK, Paid, [Next]_vars
             PROVE  Paid'
  OBVIOUS
<1>1. ASSUME NEW t \in Threads, Consume(t) PROVE Paid'
  <2> DEFINE at == asked[t]
             old == row.updated
             level == Level(row, at)
  <2>1. /\ at \in Nat
        /\ row'.updated = at /\ row'.tokens = Left(level)
        /\ setBack' = setBack + IF old > at THEN old - at ELSE 0
        /\ Decide(at)
    BY <1>1 DEF Consume, ConsumeRow, TypeOK, Times, Never
  <2>2. row.tokens \in 0..Capacity /\ old \in Times /\ setBack \in Nat /\ spent \in Nat
    BY DEF TypeOK
  <2>3. level \in 0..Capacity
    BY <2>1, <2>2, LevelBound
  <2>4. spent' + row'.tokens = spent + level
    BY <2>1, <2>3, DecideConserves
  <2>5. CASE old = Never
    <3>1. level = Capacity /\ setBack' = setBack /\ spent = 0
      BY <2>1, <2>2, <2>5 DEF Level, Never, Paid
    <3>2. Rate * (at + setBack) >= 0 /\ Rate * (at + setBack) \in Int
      <4>1. PICK c \in Nat : c = at + setBack
        BY <2>1, <2>2
      <4>2. Rate * c >= 0 /\ Rate * c \in Int
        BY Scale
      <4>. QED
        BY <4>1, <4>2
    <3>3. spent' + row'.tokens <= Capacity + Rate * (at + setBack')
      BY <3>1, <3>2, <2>4, BucketAssumption
    <3>. QED
      BY <3>3, <2>1 DEF Paid, Never
  <2>6. CASE old # Never /\ at >= old
    <3>1. old \in Nat /\ setBack' = setBack
      BY <2>1, <2>2, <2>6 DEF Times
    <3>2. level <= row.tokens + Rate * (at - old)
      <4>1. (at - old) * Rate = Rate * (at - old) /\ Rate * (at - old) \in Int
        <5>1. PICK c \in Int : c = at - old
          BY <2>1, <3>1
        <5>2. Rate * c \in Int /\ Rate * c = c * Rate
          BY Scale
        <5>. QED
          BY <5>1, <5>2
      <4>2. (IF at > old THEN at - old ELSE 0) = at - old
        BY <2>1, <2>6, <3>1
      <4>3. level = IF row.tokens + (at - old) * Rate < Capacity
                    THEN row.tokens + (at - old) * Rate ELSE Capacity
        BY <4>2, <2>6 DEF Level
      <4>. QED
        BY <4>1, <4>3, <2>2, BucketAssumption
    <3>3. Rate * (at + setBack) = Rate * (old + setBack) + Rate * (at - old)
      <4>1. PICK a \in Int, b \in Int, c \in Int :
              a = old + setBack /\ b = at - old /\ c = at + setBack
        BY <2>1, <2>2, <3>1
      <4>2. c = a + b
        BY <4>1, <2>1, <2>2, <3>1
      <4>3. Rate * c = Rate * a + Rate * b
        BY <4>2, Spread
      <4>. QED
        BY <4>1, <4>3
    <3>4. spent + row.tokens <= Capacity + Rate * (old + setBack)
      BY <2>6 DEF Paid
    <3>5. Rate * (old + setBack) \in Int /\ Rate * (at - old) \in Int /\ Rate * (at + setBack) \in Int
      <4>1. PICK a \in Int, b \in Int, c \in Int :
              a = old + setBack /\ b = at - old /\ c = at + setBack
        BY <2>1, <2>2, <3>1
      <4>2. Rate * a \in Int /\ Rate * b \in Int /\ Rate * c \in Int
        BY Scale
      <4>. QED
        BY <4>1, <4>2
    <3> HIDE DEF at, old, level
    <3>6. spent' + row'.tokens <= Capacity + Rate * (at + setBack)
      BY <2>2, <2>3, <2>4, <3>2, <3>3, <3>4, <3>5, BucketAssumption
    <3>. QED
      BY <2>1, <3>1, <3>6 DEF Paid, Never
  <2>7. CASE old # Never /\ at < old
    <3>1. old \in Nat /\ at + setBack' = old + setBack
      BY <2>1, <2>2, <2>7 DEF Times
    <3>2. level = row.tokens
      <4>1. (IF at > old THEN at - old ELSE 0) = 0
        BY <2>1, <2>7, <3>1
      <4>2. 0 * Rate = 0
        BY BucketAssumption
      <4>3. level = IF row.tokens + 0 * Rate < Capacity THEN row.tokens + 0 * Rate ELSE Capacity
        BY <4>1, <2>7 DEF Level
      <4>. QED
        BY <4>2, <4>3, <2>2, BucketAssumption
    <3>3. spent' + row'.tokens <= Capacity + Rate * (at + setBack')
      BY <2>4, <3>1, <3>2, <2>7 DEF Paid
    <3>. QED
      BY <2>1, <3>3 DEF Paid, Never
  <2>. QED
    BY <2>1, <2>2, <2>5, <2>6, <2>7 DEF Times
<1>2. ASSUME NEW t \in Threads, Check(t) \/ StoreFails(t) PROVE Paid'
  BY <1>2 DEF Check, StoreFails, Paid
<1>3. CASE Tick \/ UNCHANGED vars
  BY <1>3 DEF Tick, vars, Paid
<1>. QED
  BY <1>1, <1>2, <1>3 DEF Next

(* Nothing is spent but the burst, the refill of the time that passed and  *)
(* the refill that late requests had credited again; at rate zero, the     *)
(* quota and no more.                                                      *)
THEOREM SpendingBounded == Spec => []SpendingIsBounded
<1>1. TypeOK /\ Paid => SpendingIsBounded
  <2> SUFFICES ASSUME TypeOK, Paid
               PROVE  SpendingIsBounded
    OBVIOUS
  <2>1. /\ now \in Nat /\ setBack \in Nat /\ spent \in Nat
        /\ row.tokens \in 0..Capacity /\ row.updated \in Times /\ row.updated <= now
    BY DEF TypeOK
  <2>2. Rate * (now + setBack) >= 0 /\ Rate * (now + setBack) \in Int
    <3>1. PICK c \in Nat : c = now + setBack
      BY <2>1
    <3>2. Rate * c >= 0 /\ Rate * c \in Int
      BY Scale
    <3>. QED
      BY <3>1, <3>2
  <2>3. CASE row.updated = Never
    BY <2>1, <2>2, <2>3, BucketAssumption DEF Paid, SpendingIsBounded
  <2>4. CASE row.updated # Never
    <3>1. row.updated + setBack \in Nat /\ row.updated + setBack <= now + setBack
      BY <2>1, <2>4 DEF Times
    <3>2. /\ Rate * (row.updated + setBack) <= Rate * (now + setBack)
          /\ Rate * (row.updated + setBack) \in Int
      <4>1. PICK a \in Int, c \in Int : a = row.updated + setBack /\ c = now + setBack
        BY <2>1, <3>1
      <4>2. Rate * a <= Rate * c /\ Rate * a \in Int
        BY <4>1, <3>1, Grow, Scale
      <4>. QED
        BY <4>1, <4>2
    <3>3. spent + row.tokens <= Capacity + Rate * (row.updated + setBack)
      BY <2>4 DEF Paid
    <3>. QED
      BY <2>1, <2>2, <3>2, <3>3, BucketAssumption DEF SpendingIsBounded
  <2>. QED
    BY <2>3, <2>4
<1>. QED
  BY <1>1, TypeInit, TypeStep, PaidInit, PaidStep, PTL DEF Spec

-----------------------------------------------------------------------------
(* No request is in flight for longer than a call of the store may take.   *)
InTime == \A t \in Threads : asked[t] # Never => now <= asked[t] + MaxDelay

LEMMA InTimeStep == TypeOK /\ InTime /\ [Next]_vars => InTime'
<1> SUFFICES ASSUME TypeOK, InTime, [Next]_vars, NEW u \in Threads, asked'[u] # Never
             PROVE  now' <= asked'[u] + MaxDelay
  BY DEF InTime
<1>1. asked \in [Threads -> Times] /\ now \in Nat
  BY DEF TypeOK
<1>2. ASSUME NEW t \in Threads, Check(t)
      PROVE  now' <= asked'[u] + MaxDelay
  BY <1>1, <1>2, TimesAssumption DEF Check, InTime
<1>3. ASSUME NEW t \in Threads, Consume(t) \/ StoreFails(t)
      PROVE  now' <= asked'[u] + MaxDelay
  BY <1>1, <1>3 DEF Consume, StoreFails, InTime, Never
<1>4. CASE Tick
  <2>1. asked[u] \in Nat /\ now < asked[u] + MaxDelay /\ asked' = asked /\ now' = now + 1
    BY <1>1, <1>4 DEF Tick, Times
  <2>. QED
    BY <1>1, <2>1, TimesAssumption
<1>5. CASE UNCHANGED vars
  BY <1>5 DEF vars, InTime
<1>. QED
  BY <1>2, <1>3, <1>4, <1>5 DEF Next

(* The time for which a request is credited a refill. *)
Credited(at) == IF at > row.updated THEN at - row.updated ELSE 0

LEMMA LevelIsRefilled ==
  ASSUME TypeOK, NEW at \in Nat, row.updated # Never
  PROVE  /\ Credited(at) \in Nat
         /\ Level(row, at) <= row.tokens + Rate * Credited(at)
<1>1. row.updated \in Nat /\ row.tokens \in 0..Capacity
  BY DEF TypeOK, Times
<1>2. Credited(at) \in Nat
  BY <1>1 DEF Credited
<1>3. PICK c \in Nat : c = Credited(at)
  BY <1>2
<1>4. Rate * c \in Int /\ Rate * c = c * Rate
  BY Scale
<1>5. Level(row, at) = IF row.tokens + c * Rate < Capacity THEN row.tokens + c * Rate ELSE Capacity
  BY <1>3 DEF Level, Credited
<1>. QED
  BY <1>1, <1>3, <1>4, <1>5, BucketAssumption

(* What may have been spent since a state in which s was spent, b had been *)
(* set back and the clock was at n: the capacity and the refill since the  *)
(* earliest reading of the clock a request could have in hand then.        *)
Since(s, n, b) ==
  /\ now >= n /\ setBack >= b
  /\ \/ spent = s
     \/ /\ row.updated # Never /\ row.updated >= n - MaxDelay
        /\ spent + row.tokens <= s + Capacity + Rate * ((row.updated + setBack) - (b + n - MaxDelay))

LEMMA SinceStep ==
  ASSUME NEW s \in Nat, NEW n \in Nat, NEW b \in Nat,
         TypeOK, InTime, Since(s, n, b), [Next]_vars
  PROVE  Since(s, n, b)'
<1>1. ASSUME NEW t \in Threads, Consume(t) PROVE Since(s, n, b)'
  <2> DEFINE at == asked[t]
             old == row.updated
             level == Level(row, at)
  <2>1. /\ at \in Nat /\ now <= at + MaxDelay
        /\ row'.updated = at /\ row'.tokens = Left(level)
        /\ setBack' = setBack + IF old > at THEN old - at ELSE 0
        /\ now' = now
        /\ Decide(at)
    BY <1>1 DEF Consume, ConsumeRow, TypeOK, Times, Never, InTime
  <2>2. row.tokens \in 0..Capacity /\ old \in Times /\ setBack \in Nat /\ spent \in Nat /\ now \in Nat
    BY DEF TypeOK
  <2>3. level \in 0..Capacity
    BY <2>1, <2>2, LevelBound
  <2>4. spent' + row'.tokens = spent + level
    BY <2>1, <2>3, DecideConserves
  <2>5. /\ now >= n /\ setBack >= b
        /\ at >= n - MaxDelay
        /\ setBack' \in Nat /\ setBack' >= setBack
    BY TimesAssumption, <2>1, <2>2 DEF Since, Times, Never
  <2>6. PICK d1 \in Int : d1 = (at + setBack') - (b + n - MaxDelay)
    BY TimesAssumption, <2>1, <2>5
  <2>7. spent' + row'.tokens <= s + Capacity + Rate * d1
    <3>1. CASE spent = s
      <4>1. d1 >= 0
        BY TimesAssumption, <2>1, <2>2, <2>5, <2>6
      <4>2. Rate * d1 >= 0 /\ Rate * d1 \in Int
        BY <4>1, Scale
      <4> HIDE DEF at, old, level
      <4>. QED
        BY <2>3, <2>4, <3>1, <4>2, BucketAssumption
    <3>2. CASE spent # s
      <4>1. PICK d0 \in Int : d0 = (old + setBack) - (b + n - MaxDelay)
        BY TimesAssumption, <2>2, <3>2 DEF Since, Times, Never
      <4>2. old # Never /\ spent + row.tokens <= s + Capacity + Rate * d0
        BY <3>2, <4>1 DEF Since
      <4>3. PICK c \in Nat : c = Credited(at) /\ level <= row.tokens + Rate * c
        BY <2>1, <4>2, LevelIsRefilled
      <4>4. d1 = d0 + c
        BY TimesAssumption, <2>1, <2>2, <2>6, <4>1, <4>2, <4>3 DEF Credited, Times
      <4>5. Rate * d1 = Rate * d0 + Rate * c
        BY <4>4, Spread
      <4>6. Rate * d0 \in Int /\ Rate * c \in Int
        BY Scale
      <4> HIDE DEF at, old, level
      <4>. QED
        BY <2>2, <2>3, <2>4, <4>2, <4>3, <4>5, <4>6, BucketAssumption
    <3>. QED
      BY <3>1, <3>2
  <2>8. row'.updated # Never /\ row'.updated >= n - MaxDelay
    BY <2>1, <2>5 DEF Never
  <2>9. spent' + row'.tokens <= s + Capacity + Rate * ((row'.updated + setBack') - (b + n - MaxDelay))
    BY <2>1, <2>6, <2>7
  <2>10. now' >= n /\ setBack' >= b
    BY <2>1, <2>2, <2>5
  <2>. QED
    BY <2>8, <2>9, <2>10 DEF Since
<1>2. ASSUME NEW t \in Threads, Check(t) \/ StoreFails(t) PROVE Since(s, n, b)'
  BY <1>2 DEF Check, StoreFails, Since
<1>3. CASE Tick
  <2>1. now' >= n
    BY <1>3 DEF Tick, Since, TypeOK
  <2>. QED
    BY <1>3, <2>1 DEF Tick, Since
<1>4. CASE UNCHANGED vars
  BY <1>4 DEF vars, Since
<1>. QED
  BY <1>1, <1>2, <1>3, <1>4 DEF Next

(* The same of every window of time, not only of the one that begins with  *)
(* the bucket: from any moment on, what is spent is bounded by one burst   *)
(* and by the refill of the time since then, of the time that is set back  *)
(* since then, and of the delay of the requests in flight at the time.     *)
THEOREM EveryWindowIsBounded ==
  ASSUME NEW CONSTANT s \in Nat, NEW CONSTANT n \in Nat, NEW CONSTANT b \in Nat
  PROVE  Spec => [](spent = s /\ now = n /\ setBack = b =>
                      [](spent <= s + Capacity + Rate * ((now - n) + (setBack - b) + MaxDelay)))
<1> DEFINE Began == spent = s /\ now = n /\ setBack = b
           Bounded == spent <= s + Capacity + Rate * ((now - n) + (setBack - b) + MaxDelay)
<1>1. Init => InTime
  BY DEF Init, InTime
<1>2. Began => Since(s, n, b)
  BY DEF Since
<1>3. TypeOK /\ Since(s, n, b) => Bounded
  <2> SUFFICES ASSUME TypeOK, Since(s, n, b)
               PROVE  Bounded
    OBVIOUS
  <2>1. /\ now \in Nat /\ setBack \in Nat /\ spent \in Nat
        /\ row.tokens \in 0..Capacity /\ row.updated \in Times /\ row.updated <= now
        /\ now >= n /\ setBack >= b
    BY DEF TypeOK, Since
  <2>2. PICK d1 \in Nat : d1 = (now - n) + (setBack - b) + MaxDelay
    BY <2>1, TimesAssumption
  <2>3. Rate * d1 >= 0 /\ Rate * d1 \in Int
    BY Scale
  <2>4. CASE spent = s
    BY <2>2, <2>3, <2>4, BucketAssumption
  <2>5. CASE spent # s
    <3>1. PICK d0 \in Int : d0 = (row.updated + setBack) - (b + n - MaxDelay)
      BY <2>1, TimesAssumption DEF Times, Never
    <3>2. spent + row.tokens <= s + Capacity + Rate * d0
      BY <2>5, <3>1 DEF Since
    <3>3. d0 <= d1
      BY <2>1, <2>2, <3>1, TimesAssumption DEF Times, Never
    <3>4. Rate * d0 <= Rate * d1 /\ Rate * d0 \in Int
      BY <3>3, Grow, Scale
    <3>5. spent <= s + Capacity + Rate * d1
      BY <2>1, <2>3, <3>2, <3>4, BucketAssumption
    <3>. QED
      BY <2>2, <3>5
  <2>. QED
    BY <2>4, <2>5
<1>4. TypeOK /\ InTime /\ Since(s, n, b) /\ [Next]_vars => Since(s, n, b)'
  BY SinceStep
<1> HIDE DEF Began, Bounded
<1>5. Spec => [](Began => []Bounded)
  BY <1>1, <1>2, <1>3, <1>4, InTimeStep, TypeInit, TypeStep, PTL DEF Spec
<1>. QED
  BY <1>5 DEF Began, Bounded

-----------------------------------------------------------------------------
(* The two stores hold the same bucket, or Redis has dropped its key after *)
(* the row had the time to fill up.                                        *)
Alike ==
  /\ row.updated = Never => key.updated = Never
  /\ key.updated # Never => /\ key.updated = row.updated /\ key.tokens = row.tokens
                            /\ key.expires >= row.updated + Ttl
  /\ row.updated # Never /\ key.updated = Never => now >= row.updated + Ttl
  /\ \A t \in Threads : asked[t] # Never => now <= asked[t] + MaxDelay

Soon == Rate > 0 /\ MaxDelay <= Slack

(* A row that was left alone for the lifetime of the key is full, for      *)
(* requests that are at most the slack late.                               *)
LEMMA IdleIsFull ==
  ASSUME Soon, TypeOK, NEW at \in Nat, row.updated # Never,
         now >= row.updated + Ttl, now <= at + MaxDelay
  PROVE  Level(row, at) = Capacity
<1> DEFINE old == row.updated
           refills == Ceiling(Capacity, Rate)
<1>1. old \in Nat /\ now \in Nat /\ row.tokens \in 0..Capacity
  BY DEF TypeOK, Times
<1>2. refills \in Nat /\ refills * Rate >= Capacity /\ Ttl = refills + Slack
  BY CeilingBound, BucketAssumption DEF Soon, Ttl
<1>3. at - old \in Nat /\ at - old >= refills
  BY <1>1, <1>2, TimesAssumption DEF Soon
<1>5. (at - old) * Rate >= Capacity
  <2>1. PICK r \in Nat, c \in Nat : r = refills /\ c = at - old
    BY <1>2, <1>3
  <2>2. r <= c /\ r * Rate >= Capacity
    BY <1>2, <1>3, <2>1
  <2>3. Rate * r <= Rate * c
    BY <2>2, Grow
  <2>4. Rate * r = r * Rate /\ Rate * c = c * Rate /\ Rate * r \in Int /\ Rate * c \in Int
    BY Scale
  <2>5. c * Rate >= Capacity
    BY <2>2, <2>3, <2>4, BucketAssumption
  <2>. QED
    BY <2>1, <2>5
<1>6. (IF at > old THEN at - old ELSE 0) = at - old
  BY <1>1, <1>3
<1>7. Level(row, at) = IF row.tokens + (at - old) * Rate < Capacity
                       THEN row.tokens + (at - old) * Rate ELSE Capacity
  BY <1>6 DEF Level
<1> HIDE DEF old, refills
<1>8. (at - old) * Rate \in Int
  BY <1>3, BucketAssumption
<1>. QED
  BY <1>1, <1>5, <1>7, <1>8, BucketAssumption

LEMMA SameLevel ==
  ASSUME Soon, TypeOK, Alike, NEW at \in Nat, now <= at + MaxDelay
  PROVE  Level(row, at) = Level(key, at)
<1>1. CASE key.updated # Never
  BY <1>1 DEF Alike, Level
<1>2. CASE row.updated = Never
  BY <1>2 DEF Alike, Level
<1>3. CASE row.updated # Never /\ key.updated = Never
  <2>1. Level(row, at) = Capacity
    BY <1>3, IdleIsFull DEF Alike
  <2>. QED
    BY <1>3, <2>1 DEF Level
<1>. QED
  BY <1>1, <1>2, <1>3

LEMMA AlikeInit == Init => Alike
BY DEF Init, Alike, NoRow, NoKey

LEMMA AlikeStep == Soon /\ TypeOK /\ Alike /\ [Next]_vars => Alike'
<1> SUFFICES ASSUME Soon, TypeOK, Alike, [Next]_vars
             PROVE  Alike'
  OBVIOUS
<1>1. ASSUME NEW t \in Threads, Check(t) PROVE Alike'
  BY <1>1, TimesAssumption DEF Check, Alike, TypeOK, Times
<1>2. ASSUME NEW t \in Threads, Consume(t) PROVE Alike'
  <2> DEFINE at == asked[t]
  <2>1. at \in Nat /\ at <= now /\ now <= at + MaxDelay /\ now \in Nat
    BY <1>2 DEF Consume, TypeOK, Times, Alike
  <2>2. Level(row, at) = Level(key, at)
    BY <2>1, SameLevel
  <2>3. /\ row'.updated = at /\ key'.updated = at /\ key'.tokens = row'.tokens
        /\ key'.expires = now + Ttl
    BY <1>2, <2>2 DEF Consume, ConsumeRow, ConsumeKey
  <2>4. key'.expires >= row'.updated + Ttl
    BY <2>1, <2>3, TtlNat
  <2>5. \A u \in Threads : asked'[u] # Never => now' <= asked'[u] + MaxDelay
    BY <1>2 DEF Consume, TypeOK, Alike
  <2>6. Ttl' = Ttl
    BY DEF Ttl, Ceiling
  <2>. QED
    BY <2>1, <2>3, <2>4, <2>5, <2>6 DEF Alike, Never
<1>3. ASSUME NEW t \in Threads, StoreFails(t) PROVE Alike'
  BY <1>3 DEF StoreFails, Alike, TypeOK
<1>4. CASE Tick
  <2>1. \A u \in Threads : asked'[u] # Never => now' <= asked'[u] + MaxDelay
    BY <1>4, TimesAssumption DEF Tick, TypeOK, Times
  <2>2. now \in Nat /\ now' = now + 1 /\ row' = row
    BY <1>4 DEF Tick, TypeOK
  <2>3. row.updated # Never => row.updated \in Nat
    BY DEF TypeOK, Times
  <2>4. CASE key' = key
    BY <2>1, <2>2, <2>3, <2>4, TtlNat DEF Alike, Never
  <2>5. CASE key' = NoKey /\ key.updated # Never /\ now' >= key.expires
    <3>1. now' >= row.updated + Ttl
      BY <2>2, <2>3, <2>5, TtlNat DEF Alike, TypeOK
    <3>. QED
      BY <2>1, <2>2, <2>5, <3>1 DEF Alike, NoKey
  <2>. QED
    BY <1>4, <2>4, <2>5 DEF Tick
<1>5. CASE UNCHANGED vars
  BY <1>5 DEF vars, Alike
<1>. QED
  BY <1>1, <1>2, <1>3, <1>4, <1>5 DEF Next

(* With a refill, and calls of the store that take no longer than the      *)
(* slack, it makes no difference which of the two stores is used.          *)
THEOREM StoresAlike == Soon => (Spec => []StoresAgree)
<1>1. Soon /\ TypeOK /\ Alike => StoresAgree
  <2> SUFFICES ASSUME Soon, TypeOK, Alike
               PROVE  StoresAgree
    OBVIOUS
  <2>1. now \in Nat /\ now <= now + MaxDelay
    BY TimesAssumption DEF TypeOK
  <2>2. Level(row, now) = Level(key, now)
    BY <2>1, SameLevel
  <2>3. ASSUME NEW t \in Threads, asked[t] # Never
        PROVE  Level(row, asked[t]) = Level(key, asked[t])
    <3>1. asked[t] \in Nat /\ now <= asked[t] + MaxDelay
      BY <2>3 DEF TypeOK, Times, Alike
    <3>. QED
      BY <3>1, SameLevel
  <2>. QED
    BY <2>2, <2>3 DEF StoresAgree
<1>2. SUFFICES ASSUME Soon PROVE Spec => []StoresAgree
  OBVIOUS
<1>3. TypeOK /\ Alike => StoresAgree
  BY <1>1, <1>2
<1>4. TypeOK /\ Alike /\ [Next]_vars => Alike'
  BY <1>2, AlikeStep
<1>. QED
  BY <1>3, <1>4, TypeInit, TypeStep, AlikeInit, PTL DEF Spec

-----------------------------------------------------------------------------
(* Who was refused at a time will find a token after the wait: what the    *)
(* row holds and the refill from its updated_ms until then make one.       *)
Promised ==
  refusal.at # Never =>
    /\ row.updated # Never
    /\ row.tokens + refusal.wait + Rate * (refusal.at - row.updated) >= Cost

(* A refused request takes nothing and loses no refill: the level is below *)
(* the cost, so it was not cut at the capacity.                            *)
LEMMA RefusedKeepsRefill ==
  ASSUME TypeOK, Cost <= Capacity, row.updated # Never,
         NEW at \in Nat, Level(row, at) < Cost
  PROVE  Level(row, at) = row.tokens + Rate * Credited(at)
<1>1. row.updated \in Nat /\ row.tokens \in 0..Capacity
  BY DEF TypeOK, Times
<1>2. PICK c \in Nat : c = Credited(at)
  BY <1>1 DEF Credited
<1>3. Rate * c \in Int /\ Rate * c = c * Rate
  BY Scale
<1>4. Level(row, at) = IF row.tokens + c * Rate < Capacity THEN row.tokens + c * Rate ELSE Capacity
  BY <1>2 DEF Level, Credited
<1>. QED
  BY <1>1, <1>2, <1>3, <1>4, BucketAssumption

LEMMA PromiseStep == Cost <= Capacity /\ TypeOK /\ Promised /\ [Next]_vars => Promised'
<1> SUFFICES ASSUME Cost <= Capacity, TypeOK, Promised, [Next]_vars
             PROVE  Promised'
  OBVIOUS
<1>1. ASSUME UNCHANGED <<row, refusal>> PROVE Promised'
  BY <1>1 DEF Promised
<1>2. ASSUME NEW t \in Threads, Consume(t) PROVE Promised'
  <2> DEFINE at == asked[t]
             level == Level(row, at)
  <2>1. at \in Nat /\ at # Never /\ Decide(at)
    BY <1>2 DEF TypeOK, Times, Consume
  <2>2. level \in 0..Capacity
    BY <2>1, LevelBound DEF TypeOK
  <2>3. row' = [tokens |-> Left(level), updated |-> at]
    BY <1>2 DEF Consume, ConsumeRow
  <2>4. CASE refusal'.at = Never
    BY <2>4 DEF Promised
  <2>5. CASE refusal'.at # Never
    <3>1. level < Cost /\ refusal' \in {refusal, Refusal(at, level)}
      <4>1. ~(level >= Cost)
        BY <2>1, <2>5 DEF Decide, NoRefusal
      <4>. QED
        BY <2>1, <2>2, <4>1, BucketAssumption DEF Decide
    <3>2. row'.updated = at /\ row'.tokens = level
      BY <2>2, <2>3, <3>1, BucketAssumption DEF Left
    <3>3. CASE refusal' = Refusal(at, level)
      <4>1. refusal'.at = at /\ refusal'.wait = Cost - level
        BY <3>3 DEF Refusal, RetryAfter
      <4>2. Rate * (at - at) = 0
        BY <2>1, BucketAssumption
      <4>. QED
        BY <2>1, <2>2, <3>2, <4>1, <4>2, BucketAssumption DEF Promised
    <3>4. CASE refusal' = refusal
      <4>1. /\ refusal.at \in Nat /\ refusal.wait \in Nat
            /\ row.updated \in Nat /\ row.updated # Never /\ row.tokens \in 0..Capacity
            /\ row.tokens + refusal.wait + Rate * (refusal.at - row.updated) >= Cost
        BY <2>5, <3>4 DEF Promised, TypeOK, Times
      <4>2. level = row.tokens + Rate * Credited(at)
        BY <2>1, <3>1, <4>1, RefusedKeepsRefill
      <4>3. PICK a \in Int, b \in Int, c \in Nat :
              /\ a = refusal.at - row.updated
              /\ b = refusal.at - at
              /\ c = Credited(at)
        BY <2>1, <4>1 DEF Credited
      <4>4. a <= b + c
        BY <2>1, <4>1, <4>3 DEF Credited
      <4>5. Rate * a <= Rate * (b + c) /\ Rate * (b + c) = Rate * b + Rate * c
        BY <4>4, Grow, Spread
      <4>6. Rate * a \in Int /\ Rate * b \in Int /\ Rate * c \in Int
        BY Scale
      <4> HIDE DEF at, level
      <4>7. level + refusal.wait + Rate * b >= Cost
        BY <4>1, <4>2, <4>3, <4>5, <4>6, BucketAssumption
      <4>. QED
        BY <2>1, <3>2, <3>4, <4>3, <4>7 DEF Promised
    <3>. QED
      BY <3>1, <3>3, <3>4
  <2>. QED
    BY <2>4, <2>5
<1>. QED
  BY <1>1, <1>2 DEF Next, Check, StoreFails, Tick, vars

LEMMA PromiseIsEnough ==
  ASSUME Cost <= Capacity, TypeOK, Promised, refusal.at # Never,
         (now - refusal.at) * Rate >= refusal.wait
  PROVE  Level(row, now) >= Cost
<1>1. /\ row.updated \in Nat /\ row.updated # Never /\ row.updated <= now
      /\ row.tokens \in 0..Capacity
      /\ refusal.at \in Nat /\ refusal.wait \in Nat /\ now \in Nat
      /\ row.tokens + refusal.wait + Rate * (refusal.at - row.updated) >= Cost
  BY DEF TypeOK, Promised, Times
<1>2. PICK a \in Int, b \in Int, c \in Nat :
        a = refusal.at - row.updated /\ b = now - refusal.at /\ c = now - row.updated
  BY <1>1
<1>3. Rate * c = Rate * a + Rate * b
  <2>1. c = a + b
    BY <1>1, <1>2
  <2>. QED
    BY <2>1, Spread
<1>4. /\ Rate * a \in Int /\ Rate * b \in Int /\ Rate * c \in Int
      /\ Rate * b = b * Rate /\ Rate * c = c * Rate
  BY Scale
<1>5. row.tokens + c * Rate >= Cost
  BY <1>1, <1>2, <1>3, <1>4, BucketAssumption
<1>6. (IF now > row.updated THEN now - row.updated ELSE 0) = c
  BY <1>1, <1>2
<1>7. Level(row, now) = IF row.tokens + c * Rate < Capacity
                        THEN row.tokens + c * Rate ELSE Capacity
  BY <1>1, <1>6 DEF Level
<1>. QED
  BY <1>1, <1>4, <1>5, <1>7, BucketAssumption

(* From retry_after_s after a refusal on, a request is admitted unless one *)
(* was before it, for any rate, capacity and cost and whatever else is     *)
(* refused meanwhile (_retry_after).  A request must not cost more than a  *)
(* full bucket holds.                                                      *)
THEOREM RetryAfterSuffices == Cost <= Capacity => (Spec => []RetryAfterIsEnough)
<1> SUFFICES ASSUME Cost <= Capacity PROVE Spec => []RetryAfterIsEnough
  OBVIOUS
<1>1. Init => Promised
  BY DEF Init, Promised, NoRefusal
<1>2. TypeOK /\ Promised => RetryAfterIsEnough
  BY PromiseIsEnough DEF RetryAfterIsEnough
<1>3. TypeOK /\ Promised /\ [Next]_vars => Promised'
  BY PromiseStep
<1>. QED
  BY <1>1, <1>2, <1>3, TypeInit, TypeStep, PTL DEF Spec

-----------------------------------------------------------------------------
(* The header is that of the retry_after_s it goes with. *)
Told == refusal.at # Never => refusal.told = Header(refusal.wait)

LEMMA ToldStep == Told /\ [Next]_vars => Told'
<1> SUFFICES ASSUME Told, [Next]_vars PROVE Told'
  OBVIOUS
<1>1. ASSUME UNCHANGED refusal PROVE Told'
  BY <1>1 DEF Told, Header
<1>2. ASSUME NEW t \in Threads, Consume(t) PROVE Told'
  <2>1. Decide(asked[t])
    BY <1>2 DEF Consume
  <2>2. \/ refusal' = NoRefusal
        \/ refusal' = refusal
        \/ refusal' = Refusal(asked[t], Level(row, asked[t]))
    BY <2>1 DEF Decide
  <2>. QED
    BY <2>2, <1>1 DEF Told, NoRefusal, Refusal, Header
<1>. QED
  BY <1>1, <1>2 DEF Next, Check, StoreFails, Tick, vars

(* The same of the header, which is less than retry_after_s by less than a *)
(* second where it is below its cap (enforce_limit).                       *)
THEOREM HeaderAndASecondSuffice == Cost <= Capacity => (Spec => []HeaderLacksASecondAtMost)
<1> SUFFICES ASSUME Cost <= Capacity PROVE Spec => []HeaderLacksASecondAtMost
  OBVIOUS
<1>1. Init => Told
  BY DEF Init, Told, NoRefusal
<1>2. TypeOK /\ Told /\ RetryAfterIsEnough => HeaderLacksASecondAtMost
  <2> SUFFICES ASSUME TypeOK, Told, RetryAfterIsEnough,
                      refusal.at # Never, refusal.told < HeaderCap,
                      now >= refusal.at + (refusal.told + 1) * Second
               PROVE  Level(row, now) >= Cost
    BY DEF HeaderLacksASecondAtMost
  <2>1. refusal.at \in Nat /\ refusal.wait \in Nat /\ refusal.told \in Nat /\ now \in Nat
    BY DEF TypeOK, Times
  <2>2. PICK a \in Nat, b \in Int : a = (refusal.told + 1) * Second /\ b = now - refusal.at
    BY <2>1, HeaderAssumption
  <2>3. refusal.wait <= Rate * a
    BY <2>1, <2>2, HeaderBound DEF Told
  <2>4. a <= b
    BY <2>1, <2>2
  <2>5. Rate * a <= Rate * b /\ Rate * b = b * Rate /\ Rate * a \in Int /\ Rate * b \in Int
    BY <2>4, Grow, Scale
  <2>6. b * Rate >= refusal.wait
    BY <2>1, <2>3, <2>5
  <2>. QED
    BY <2>2, <2>6 DEF RetryAfterIsEnough
<1>. QED
  BY <1>1, <1>2, ToldStep, RetryAfterSuffices, TypeCorrect, PTL DEF Spec
=============================================================================
