---------------------------- MODULE TokenBucket ----------------------------
(***************************************************************************)
(* limiter.py: the bucket of one client, shared by all instances.          *)
(*                                                                         *)
(* RateLimiter.check reads the clock and then calls the store, which runs  *)
(* the update of one request at a time: the order of the updates is not    *)
(* the order of the readings.  There are two stores for one algorithm; the *)
(* row of SqliteStore and the key of RedisStore are fed the same requests  *)
(* here, so that they can be compared.  Redis drops a key by its own clock.*)
(* enforce_limit (app.py) turns a refusal into a 429 with a header.        *)
(*                                                                         *)
(* Levels are counted in units of which a request costs Cost, so that the  *)
(* refill of a tick may be a fraction of what a request costs.             *)
(***************************************************************************)
EXTENDS Integers

CONSTANTS Threads,      \* threads, of any instance, that serve the client
          Capacity,     \* capacity of the bucket
          Rate,         \* refill per tick
          Cost,         \* cost of a request
          Slack,        \* Redis: what the lifetime of a key adds to the refill
          HardTtl,      \* Redis: the lifetime of a key when Rate is zero
          Second,       \* ticks in a second
          HeaderCap,    \* the 60 seconds of the Retry-After header
          MaxDelay,     \* environment: how long a call of the store may take
          MaxTime       \* bound: the clock

ASSUME BucketAssumption == Capacity \in Nat /\ Rate \in Nat /\ Cost \in Nat
ASSUME TimesAssumption ==
  Slack \in Nat /\ HardTtl \in Nat /\ MaxDelay \in Nat /\ MaxTime \in Nat
ASSUME HeaderAssumption == Second \in Nat \ {0} /\ HeaderCap \in Nat \ {0}

VARIABLES now,        \* the wall clock
          asked,      \* now_ms of the request of each thread, or Never
          row,        \* SQLite: tokens and updated_ms of the bucket
          key,        \* Redis: the same, and when the key expires
          spent,      \* history: what the requests admitted so far cost
          setBack,    \* history: how far updated_ms was moved back in all
          refusal     \* history: a request refused since the last was admitted

vars == <<now, asked, row, key, spent, setBack, refusal>>

Never == -1

NoRow == [tokens |-> 0, updated |-> Never]

NoKey == [tokens |-> 0, updated |-> Never, expires |-> 0]

NoRefusal == [at |-> Never, wait |-> 0, told |-> 0]

(* Mutation: the refill is not capped. *)
Level_Uncapped(bucket, at) ==
  IF bucket.updated = Never THEN Capacity
  ELSE bucket.tokens + Rate * IF at > bucket.updated THEN at - bucket.updated ELSE 0

(* The bucket a request finds, refilled: all that the time since updated   *)
(* brings, up to the capacity; a full one if there is none.                *)
Level(bucket, at) ==
  IF bucket.updated = Never THEN Capacity
  ELSE LET elapsed == IF at > bucket.updated THEN at - bucket.updated ELSE 0
           tokens  == bucket.tokens + elapsed * Rate
       IN  IF tokens < Capacity THEN tokens ELSE Capacity

Left(level) == IF level >= Cost THEN level - Cost ELSE level

Ceiling(n, d) == (n + d - 1) \div d

(* Mutation: the lifetime of a key is the refill from empty, rounded down. *)
Ttl_NoSlack == IF Rate > 0 THEN Capacity \div Rate ELSE HardTtl

(* PEXPIRE: the refill from empty and some slack; a fixed lifetime if      *)
(* nothing is ever refilled.                                               *)
Ttl == IF Rate > 0 THEN Ceiling(Capacity, Rate) + Slack ELSE HardTtl

(* _retry_after of a refused request is this over Rate, not rounded, and    *)
(* infinite at rate zero: the model has it times Rate and never divides.   *)
RetryAfter(level) == Cost - level

(* Mutation: the two bounds of the header are swapped. *)
Header_Swapped(wait) ==
  LET seconds == wait \div (Rate * Second)
      most    == IF seconds > HeaderCap THEN seconds ELSE HeaderCap
  IN  IF Rate = 0 THEN HeaderCap ELSE IF most < 1 THEN most ELSE 1

(* The Retry-After header that goes with retry_after_s: int() of it, but   *)
(* one second at least and no more than the cap.                           *)
Header(wait) ==
  LET seconds == wait \div (Rate * Second)
      least   == IF seconds > 1 THEN seconds ELSE 1
  IN  IF Rate = 0 THEN HeaderCap ELSE IF least < HeaderCap THEN least ELSE HeaderCap

Refusal(at, level) ==
  [at |-> at, wait |-> RetryAfter(level), told |-> Header(RetryAfter(level))]

Init ==
  /\ now = 0
  /\ asked = [t \in Threads |-> Never]
  /\ row = NoRow
  /\ key = NoKey
  /\ spent = 0
  /\ setBack = 0
  /\ refusal = NoRefusal

-----------------------------------------------------------------------------
(* check reads the clock. *)
Check(t) ==
  /\ asked[t] = Never
  /\ asked' = [asked EXCEPT ![t] = now]
  /\ UNCHANGED <<now, row, key, spent, setBack, refusal>>

(* Mutation: updated_ms is written only with a token that was spent. *)
ConsumeRow_OnlySpent(at) ==
  LET level == Level(row, at)
  IN  /\ row' = [tokens |-> Left(level),
                 updated |-> IF level >= Cost \/ row.updated = Never THEN at ELSE row.updated]
      /\ setBack' = setBack + IF row.updated > at THEN row.updated - at ELSE 0

(* Mutation: the tokens are written only if some were spent, the time ever. *)
ConsumeRow_LosesRefill(at) ==
  LET level == Level(row, at)
  IN  /\ row' = [tokens |-> IF level >= Cost THEN level - Cost ELSE row.tokens, updated |-> at]
      /\ setBack' = setBack + IF row.updated > at THEN row.updated - at ELSE 0

(* SqliteStore.consume: refill, spend, and write both columns whether the  *)
(* request is admitted or not, and whichever of the two times is later.    *)
ConsumeRow(at) ==
  /\ row' = [tokens |-> Left(Level(row, at)), updated |-> at]
  /\ setBack' = setBack + IF row.updated > at THEN row.updated - at ELSE 0

(* The Lua script does the same and renews the lifetime of the key. *)
ConsumeKey(at) ==
  key' = [tokens |-> Left(Level(key, at)), updated |-> at, expires |-> now + Ttl]

(* The decision: what an admitted request spends.  Of the requests that    *)
(* are refused until the next is admitted, the history has any one.        *)
Decide(at) ==
  LET level == Level(row, at)
  IN  IF level >= Cost
      THEN spent' = spent + Cost /\ refusal' = NoRefusal
      ELSE UNCHANGED spent /\ refusal' \in {refusal, Refusal(at, level)}

(* The store runs the request of t: BEGIN IMMEDIATE to COMMIT, one script. *)
(* If the reply of the script is lost, so is the decision (check raises),  *)
(* and the bucket is the same: spent is what the store has given away.     *)
Consume(t) ==
  /\ asked[t] # Never
  /\ ConsumeRow(asked[t])
  /\ ConsumeKey(asked[t])
  /\ Decide(asked[t])
  /\ asked' = [asked EXCEPT ![t] = Never]
  /\ UNCHANGED now

(* The store raises before it has run the request: the transaction is      *)
(* rolled back, the script was not received.                               *)
StoreFails(t) ==
  /\ asked[t] # Never
  /\ asked' = [asked EXCEPT ![t] = Never]
  /\ UNCHANGED <<now, row, key, spent, setBack, refusal>>

(* Time passes; Redis drops a key that has expired. *)
Tick ==
  /\ now < MaxTime
  /\ \A t \in Threads : asked[t] # Never => now < asked[t] + MaxDelay
  /\ now' = now + 1
  /\ key' = IF key.updated # Never /\ now' >= key.expires THEN NoKey ELSE key
  /\ UNCHANGED <<asked, row, spent, setBack, refusal>>

Next ==
  \/ \E t \in Threads : Check(t) \/ Consume(t) \/ StoreFails(t)
  \/ Tick

Spec == Init /\ [][Next]_vars

-----------------------------------------------------------------------------
Times == Nat \cup {Never}

(* Every variable has its type; a bucket never holds more than its         *)
(* capacity, nor less than nothing.                                        *)
TypeOK ==
  /\ now \in Nat
  /\ asked \in [Threads -> Times]
  /\ \A t \in Threads : asked[t] <= now
  /\ row \in [tokens : 0..Capacity, updated : Times]
  /\ row.updated <= now
  /\ key \in [tokens : 0..Capacity, updated : Times, expires : Nat]
  /\ key.updated <= now
  /\ spent \in Nat
  /\ setBack \in Nat
  /\ refusal \in [at : Times, wait : Nat, told : Nat]

(* What is spent is bounded by the burst and the refill of the time that   *)
(* passed, and by nothing else than the time that late requests wrote back *)
(* into updated_ms, for which the refill is credited again; a quota that   *)
(* is never refilled is spent once ("the check-and-decrement is a single   *)
(* indivisible operation").                                                *)
SpendingIsBounded == spent <= Capacity + Rate * (now + setBack)

(* The stores decide alike on every request in flight and on a new one, as *)
(* long as the rate is positive and no request takes longer than the       *)
(* slack: dropping an idle key gives nothing that refilling the row would  *)
(* not ("both implement the same algorithm").                              *)
StoresAgree ==
  /\ Level(row, now) = Level(key, now)
  /\ \A t \in Threads : asked[t] # Never => Level(row, asked[t]) = Level(key, asked[t])

(* retry_after_s is enough: from that many seconds after a refusal on, a   *)
(* request is admitted if none was before it, however many other requests  *)
(* are refused meanwhile and in whatever order they reach the store: a     *)
(* refused request costs the others no time (_retry_after: "seconds until  *)
(* `cost` tokens are available again").                                    *)
RetryAfterIsEnough ==
  refusal.at # Never /\ (now - refusal.at) * Rate >= refusal.wait => Level(row, now) >= Cost

(* The header promises less: it is cut down to whole seconds and to the    *)
(* cap, and who waits just that long may be refused again.  One second     *)
(* more than the header says is enough, unless the header is at its cap.   *)
HeaderLacksASecondAtMost ==
  /\ refusal.at # Never
  /\ refusal.told < HeaderCap
  /\ now >= refusal.at + (refusal.told + 1) * Second
  => Level(row, now) >= Cost
=============================================================================
