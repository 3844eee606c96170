# A TLA+ model of the URL shortener

These modules model the parts of `src/` whose correctness depends on the order
in which threads, processes and stores act: the invalidation log that carries a
takedown to every instance, the handlers that serve requests over a cache and a
single flight, the link store and its transactions, the generation and allocation
of codes, the rate limiter's bucket and the circuit breaker in front of it, and the
hit counter. TLC checks them on small instances; TLAPS proves the invariants that
matter most for every number of threads, instances, codes, hits and restarts.

    tlc -config Invalidation.cfg Invalidation               # a run
    tlapm Breaker_proofs.tla                                # the proofs

`PROJECT.json` maps every definition to the lines it models and lists the runs,
the mutations each property is known to catch, the findings and the hazards.

## 1. The system

One deployment is several processes ("instances") of the FastAPI application in
`app.py`. They share a link table (SQLite or Postgres), a table with the
invalidation log (SQLite) and the store of the rate limiter (SQLite or Redis);
everything else is in the memory of a process. Requests are served by a pool of
threads; one more thread per process polls the log.

| component | state it keeps | operations | where it is hard | what makes it correct |
|---|---|---|---|---|
| Invalidation bus and poller (`invalidation.py`) | table `invalidations`; a cursor per instance, in memory | publish, register, poll, drain_now | the poller and every takedown handler run `poll` on one cursor, which is locked only while it is read and written; polls fail; processes restart from cursor 0 | a cursor never passes a row whose code is still cached from before it; every row is passed in the end |
| Takedown list (`abuse.py`) | dict of withdrawn codes, in memory | add, reason, `in` | mark, purge and publish are three steps, the last may fail; the dict dies with the process | a request that comes after the mark is not redirected |
| Single flight (`store.py`) | call objects of the loads in flight | do | waiters wake up after the entry is gone; `fn` raises | one `fn` per key; nobody waits for ever; all callers of one call see its result |
| Read cache (`store.py`) | ordered dict of at most `capacity` entries with expiries | get, put, invalidate | a put at capacity; an entry that expires while it is cached | nothing expired is returned; least recently used is evicted |
| Request handlers (`app.py`) | interstitials, in memory; the shared cache, flight and list | create, resolve, takedown, flush-cache | none of them holds a lock across two steps: each reads state it uses later | see `Serving` below |
| Circuit breaker (`breaker.py`) | state, consecutive failures, opened_at | allow, record_success, record_failure, check | results are recorded in another state than the call was admitted in | a half-open circuit has a probe; probes are paced; the circuit follows the store |
| Token bucket (`limiter.py`) | tokens and updated_ms per client, in the store | check, consume | the clock is read before the store serialises the requests; two stores, one algorithm | no more is spent than capacity and refill allow; both stores decide alike; who waits `retry_after_s` is admitted |
| Hit counter (`counters.py`) | pending counts, last flush | record, flush | concurrent flushes, failing writes, crashes | no hit is invented, none is lost without a crash |
| Link stores (`store.py`, `pgstore.py`) | table `links`, `link_hits`; a connection per thread | create, get, record_hits_bulk, purge_expired | a failed INSERT leaves a transaction open on a connection that is reused | a code has one owner; what a failed write leaves behind is known: a transaction open for reading when the lock was not got, the lock of the file when an allocation gives up after a collision |
| Code generation (`ids.py`) | last millisecond and sequence; allocator counters | next_id, next_code, decode_id, allocate | clock steps back, exhausted millisecond, a restart that forgets the last one, bounded retries over a store that may refuse | ids increase while a process lives; an id comes twice only for a cause that can be named; no code is handed out twice |
| Reputation policy (`abuse.py`) | domain sets | evaluate | order of the checks, suffix matching | a refused destination gets no row |
| Harness (`loadtest.py`, `openloop.py`, `drills.py`) | none of the service | HTTP clients that measure | - | - |

How they interact: `resolve` consults the limiter, the takedown list, the cache,
then the flight, whose `load` consults the cache again, the table, and fills the
cache; then the hit counter and the interstitials. `takedown` marks the code,
evicts it, appends to the log, drops the interstitial and polls the log itself.
The poller evicts on every instance what the log names. Nothing but the link
table, the log and the limiter's store is shared between processes. `create` consults
the policy, then the allocator, which takes a code from the generator of its process
and inserts it through the connection of its thread, again and again while the code
is taken. An operator may sweep the expired rows from the table, which frees their
codes and tells no instance.

## 2. Modules

| module | models | composes |
|---|---|---|
| `Invalidation` | `SqliteInvalidationBus`, `InvalidationPoller`, `TakedownList.add` over a cache reduced to stamps | |
| `SingleFlight` | `SingleFlight.do` | |
| `Lru` | the operations of `LruCache` as operators | |
| `Reputation` | `ReputationPolicy.evaluate` as an operator on hosts | |
| `Serving` | the handlers of `app.py` on several instances, and `purge_expired` | `Invalidation`, `SingleFlight`, `Lru`, `Reputation` |
| `LinkTable` | what the store promises to callers of `create` and `get`, without connections | |
| `LinkStore` | the connections of `LinkStore` to one SQLite file, with `CodeAllocator.allocate` | `LinkTable` |
| `Snowflake` | `SnowflakeGenerator`, base 62, `decode_id` | |
| `Creation` | `create_link` on processes with generators, threads and connections | `LinkStore`, `Snowflake` |
| `TokenBucket` | `RateLimiter.check` and `consume` of both limiter stores | |
| `Breaker` | `CircuitBreaker`, `BreakerGuardedLimiter.check` | |
| `HitCounter` | `HitCounter.record`, `flush` and the bulk write | |
| `MC...` | model values and symmetry for TLC | the module they are named for |
| `..._proofs` | theorems and their proofs; `Creation_proofs` also those about `LinkStore` | the module they are named for |

### Invalidation

`log[seq]` is the code of row `seq` of the AUTOINCREMENT table, `cursor[i]` is
`_cursors[i]` in the memory of instance `i`, `poll[i][w]` the program counter and
the locals of the `bus.poll` that thread `w` of `i` executes, alone (`Poller`) or
inside a takedown handler (`Admins`). `poll` holds the lock for its first and its
last statement only, so it is four kinds of steps: `ReadCursor`, `SelectRows` (or
`SelectFails`), one `ApplyRow` per row, `Advance`. A takedown is `StartTakedown`,
`Purge`, `Publish` (or `PublishFails`), the four steps of its drain, `Reply`.

A cached copy is its *stamp*: the length of the log when it was put into the
cache. That is the only thing about a copy that the log's promise depends on, and
it makes the module an abstract specification of what a takedown means to a
cache: `Put`, with any set of evicted codes, and `Drop`, of any set, are all a
concrete cache may do between invalidations.

### SingleFlight

One step per lock region or event operation of `do`: `Lead` and `Join` are the
two branches under `_guard`; `FnEnds`, `Pop`, `SetDone` the leader's `try` and
`finally`; `Wake` and `Leave` the waiter. Call objects are identities that
outlive the leader, because waiters that have not woken up still read them.

### Lru

The `OrderedDict` is a sequence, least recently used first. Every operation runs
under the cache's lock and is one step of `Serving`; the module has no state.

### Reputation

A host is the sequence of its labels, so that "ends in a dot and the domain" is
`IsSuffix` on sequences, and `evaluate` keeps the order of its checks: everything that
refuses comes before the suffixes of low trust. The module has no state.

### Serving

`req[r]` is the request thread `r` is executing: its program counter, its
instance, its code and the `now_ms` it read when it began. Every statement of
`resolve` that reads or writes shared memory is a step of its own. A takedown is the
bus's, with the mark added to its first step and the removal of the interstitial to
the beginning of its drain. `lru` is the real cache (`Lru`), and `CacheView` maps it
to the stamps of `Invalidation`: `Bus == INSTANCE Invalidation WITH cache <- CacheView`
gives both the actions of the bus and, with `ImplementsInvalidation == Bus!Spec`, the
statement that the running service implements that specification.

A code is used again once its row is purged, so a link is a code and a number:
`rows[c]` is the history of the links of `c`, each with its expiry and the host of
its destination, and `links[c]` says which of them the row of the table is, if there
is one. `InsertLink` takes a code without a row, with an expiry from a clock reading
of any time before; `RejectLink` is a `create_link` that ends without one, refused by
the policy or with an allocation that raised; `PurgeExpired` is the sweep of
`PgLinkStore`, which touches the memory of no instance. What the policy says of the
host decides whether the link is created and whether it is flagged (`FlagLink`, a
step after the row is committed).

The other history is in the request. `facts` is what was true when it began: its
instance had the code marked, had applied a row for it, or had answered the creation
of the link with a destination the policy does not let pass. `had` is the link that
the code had then and `asof` the time; a request that joins the load of another
takes over the `had` and `asof` of that one, because the answer it will get is about
that moment.

There is one wall clock, `now`, for all instances and for the `NOW()` of the
database. `create` and `get` are atomic statements, which is what `PgLinkStore` gives,
and `LinkStore` as long as the connection of the thread is healthy. What an unhealthy
one does is the subject of the next module.

### LinkStore

`conn[t]` is the SQLite connection of thread `t`. Python's `sqlite3` executes
`BEGIN` before the first `INSERT` and ends the transaction in `commit()` only; a
statement that raises leaves it open, and nothing in `store.py` rolls back. So the
transaction has a stage: none; *begun* and nothing else, after an `INSERT` that did
not get the lock; with a pinned snapshot that is the *newest* or *old*, after a
`SELECT` inside of it; *writing*, with the lock of the file, after an `INSERT`, also
one that raised `IntegrityError`. `create` is `Insert` and `Commit`, or `InsertTaken`
when the code has a row, after which `allocate` tries another code or gives up;
a generator that raises ends it too (`NextCodeFails`). `record_hits_bulk` is `Upsert`
and `Commit`; `Locked` is an `INSERT` of either failing with "database is locked". `get` in autocommit changes nothing, so that only the `Get`
that pins a snapshot is an action. A thread that ends, and a process that dies, `Close`
their connections, which rolls back; a `commit()` that raises because the disk is full
or fails has the same effect and is the same step. `View` and `MayWrite` are SQLite's rules in WAL
mode.

`LinkTable` is the abstract specification: a table, and what each thread finds of it.
`Create` adds one row of a code that had none, counts the create as returned, and lets
its caller find the row, in one step; at any time, threads that are behind may
`CatchUp`. Nothing takes a row away, from the table or from a reader. `LinkStore` implements it
(`ImplementsLinkTable`), with the committed rows as the table and `View(t)`, less what is
not committed, as what `t` finds: `Commit` is the `Create`, the end of a connection with
an old snapshot a `CatchUp`, everything else changes nothing.

### Snowflake

`next_id` holds the lock of its generator from beginning to end, so a call is one
step if it does not wait: `NextId`, with the sequence number it arrives at, or
`RefuseId`, the exception for a clock that is behind by more than `MaxDrift`. If it
does, `SpinBehind` or `SpinExhausted` notes where it spins, and `NextId` comes when the
clock allows. The clock is outside of the program, which knows it only from its
readings: every one may be any time (`Readings`), also during a spin, where no drift is
looked at. `Reboot` forgets
`_last_ms`. What was issued is kept as history, with the life of the process that
issued it; `setBack` has the lives that began behind an earlier one. `Pack` and `Unpack`
are the shifts and masks, `EncodeBase62` and `DecodeBase62` the digits, by the recursive
functions `Digits` and `Value`.

### Creation

`allocate` step by step: thread `t` gets a code from the generator of its process
(`NextCode`), waits with the lock of the generator (`AwaitClock`), or fails with it
(`ClockRefused`); then it inserts the code through its connection (`StoreCode`: the code
is free, is taken, or the lock of the file is not got). Everything else that a thread
does with its connection, a commit that fails included, is `OtherStep`, and `RebootProcess` ends a process with its
generator and the connections of its threads.

### TokenBucket

Every request is two steps, `Check`, which reads the clock, and `Consume`, which
the store runs in an order of its own. The SQLite row and the Redis key are both in
the state and both fed every request, so that `StoresAgree` can compare them; the
decision is the row's. Redis drops the key by its own clock in `Tick`. Levels are
counted in units of which a request costs `Cost` and a tick refills `Rate`, which
makes the fractions of the code's floats integers. A script that ran and whose reply
is lost is `Consume` too: the bucket is the same, and `spent` is what the store has
given away; `StoreFails` is a call that did not reach it.

`refusal` is any one request that was refused since the last was admitted, with the
time of its reading and the two things it was told. `retry_after_s` is the quotient of
what is missing and the rate, which the code does not round; the model keeps it
multiplied by the rate (`RetryAfter`), so nothing is rounded here either. The
`Retry-After` header is what `enforce_limit` makes of it (`Header`): `int()`, one second
at least and `HeaderCap` at most, with `Second` the number of ticks in a second.

### Breaker

`allow`, `record_success` and `record_failure` hold the lock and are one step
each; the call of the store between them is `Answer`, which may happen any time
later. The code compares `consecutive_failures` with the threshold and `now -
opened_at` with the cooldown and never looks at them otherwise, so both are
counted up to that value and no further: that loses nothing and leaves the module
without any bound on time or on the number of requests.

### HitCounter

A count is a set of hits with identities, so that a hit counted twice and a hit
lost can be told apart. `record` is `Record`, under the lock, and `Decide`, outside of
it; `flush` is `Take` under the lock, the write without it, and `PutBack` under it
again. A write fails in two ways: nothing is committed (`WriteFails`), or the commit
is applied and its answer is lost (`WriteUnanswered`), which the code cannot tell
apart; the table therefore counts how often each hit was added, and `doubled` how often
by a commit without an answer. `Crash` loses the dict and every batch.

## 3. Runs

| run | instance | what it shows |
|---|---|---|
| `inval` | 1 instance, poller and 2 takedown threads, 2 codes, 2 rows, 1 restart | `NoStaleCopyBehindCursor`: an instance whose cursor has passed a row holds no copy from before it; `OwnRowSettledOnReply`: an answering handler has had its row applied, by whichever thread; `EveryRowReachesEveryInstance` |
| `single_flight` | 3 threads, 2 keys, 3 call objects; `fn` returns or raises | `OneFnPerKey`, `NoOrphanWaiter`, `SharedResult`, `EveryCallerReturns` |
| `serving_takedown` | 1 instance, 2 requests, 1 takedown thread, 1 code, 4 hosts (none, a subdomain of a shortener, a private address, low trust) | `WithdrawnIsNotServed`: a load that began before the takedown may refill the cache after the purge, and no later request is sent on all the same; `OnlyTakedownSkipsInterstitial`: a request that began when the link had an interstitial is sent on only if a takedown came meanwhile |
| `serving_refines` | 1 instance, cache of 1 for 2 codes, 1 row, 1 restart | `TypeOK`, `ImplementsInvalidation` |
| `serving_expiry` | 1 instance, 2 requests, a link that expires, is purged, and a second one of its code | `CachedEntryIsCurrent`: an entry that a request would be given is the row of the table, though nothing tells the cache of a purge; `AnswerFitsItsLoad`: a request is answered by what was true when it, or the request whose load it shared, was received; `EveryRequestAnswered` |
| `serving_fleet` (violation) | 2 instances, 1 row | an instance that applied an invalidation redirects the code again |
| `creation` | 2 processes with a thread and a connection each, `INSTANCE_ID`s that differ or are shared, 2 sequence numbers in a millisecond, 3 ids and 1 of the other process, 2 attempts, 1 restart | `CodeHasOneOwner`; `BlindOnlyAfterLocked` and `LockLeftOnlyByGivingUp`: what a failed write leaves behind, and that nothing else does; `IdsIncreaseInALife`; `RepeatHasItsCause`: an id comes twice only from a shared `INSTANCE_ID` or a process that came up behind its own past; `CollisionHasItsCause`: so does a collision of a create; `CodeTellsItsOrigin`: a code decodes to who issued it and when; `ImplementsLinkTable`: whatever fails, a create takes effect once and whole, and no reader loses what it has found; `TypeOK`, `GenTypeOK` (a sequence number over its limit is never used) |
| `links_blind` (violation) | 2 connections, 2 codes | after "database is locked" a thread no longer finds links that are created |
| `bucket` | 2 requests, capacity 64, rate 5, cost 31, a second of 2 ticks, a header of at most 2, 16 ticks | `SpendingIsBounded`; `StoresAgree`; `RetryAfterIsEnough`: from `retry_after_s` after a refusal on a request is admitted, whatever else is refused meanwhile and in whatever order; `HeaderLacksASecondAtMost`: the header below its cap lacks less than a second of that |
| `breaker` | 3 requests, threshold 2, cooldown 2 | `HalfOpenHasItsProbe`, `ProbesAreACooldownApart`, `FollowsTheStore` |
| `breaker_probe` (violation) | 2 requests, threshold 1 | a second probe beside the first |
| `hits` | 3 threads, 4 hits on 2 codes, 1 crash, 1 commit without an answer | `EveryHitCountedOnce` |

**Bounds.** Two threads racing on one instance are what `poll`'s short lock lets
interfere; a third (two handlers and the poller) lets one thread's late write of the
cursor undo two others. Two rows let a batch be partly applied and let the cursor
move back over a row; instances meet only in the log, so one that publishes,
restarts and polls meets every case, and the proofs are for any number. In `Serving`
two requests make a leader and a waiter, or a load and a request behind it. A clock
that ends at 1 is enough for links with a ttl of 1: one that is created at 0
expires, is purged, and its code gets a second one (`MaxRows`), which never does.
The hosts are one of each verdict and each reason that a suffix can be mistaken for.
In `creation` the three ids of the first process are two of one millisecond, which
it uses up, and one after the restart, which may repeat the first; the second
process issues one, which may be the same when the `INSTANCE_ID` is shared. One of
the two connections may hold the lock while the other fails and reads; two attempts
let an allocation succeed after a collision or give up. With a drift of 1 and a
clock up to 2, a clock that is set back is waited for or refused. The bucket's clock
runs past a refill from empty (13 ticks) and the expiry of the key (14); capacity and
cost are no multiples of the rate, so that the refill comes in fractions of a request;
a request that finds the bucket all but empty is told two seconds, the cap, where it
needs almost three, and one that finds half of what it costs one second, where it needs
one and a half. Three requests on the breaker are
a stale call, a probe, and a second probe or stale call. Four hits on two codes fill
two batches while a third is counted. Every bound (`MaxSeq`, `MaxRestarts`,
`MaxTime`, `MaxRows`, `MaxIssued`, `MaxReboots`, `MaxCrashes`, `MaxUnanswered`, the
hits, the number of call objects) is a constant in a guard; `Breaker`, `LinkStore`
and `SingleFlight` have none but the size of their sets. `bucket` stops with its
clock, and `creation` when its generators have issued all their ids, which is why
these runs do not check deadlock; every other run does.

**Symmetry** is used only in runs without liveness, over sets whose members are
only compared for equality (takedown threads, requests, call objects, threads of the
counter). The two processes of `creation` have different bounds and are not symmetric.

**Fairness.**
- `Invalidation`: the poller thread is always scheduled (`WF`), because its loop
  survives every exception (`invalidation.py:204`); its SELECT succeeds infinitely
  often if it is tried infinitely often (`SF`): a database that fails for ever
  promises nothing. No fairness for takedowns, fills or restarts.
- `SingleFlight`: threads run, and `fn` ends: it is one SELECT with a busy timeout.
- `Serving`: a request that has started goes on (`WF` of its own steps). Requests
  need not arrive, and the poller need not run.
- `Creation`, `TokenBucket`, `HitCounter`: none; their properties are invariants.
- `Breaker`: calls of the store end, time passes, requests keep coming. The last
  one is an assumption about clients: nothing but a request moves the breaker.
  The first holds for SQLite; a Redis that accepts connections and never answers
  is outside of it, since its client has no socket timeout (`app.py:62`).

## 4. Proofs

All theorems hold for every value of the constants that the assumptions allow. Most are
`Spec => []Inv` or `Spec => [][A]_vars`, of formulas that TLC checks on the runs; the
refinements, what follows from them, and a few that say more than a run could check
(`EveryWindowIsBounded`, `DecodeUndoesEncode`, `HealthyStoreReadsBack`) are the others.

**`Invalidation_proofs`.** `TypeCorrect`; `CursorKeepsItsPromise`
(`NoStaleCopyBehindCursor`); `DrainSettlesOwnRow` (`OwnRowSettledOnReply`). The
promise about the cursor is not inductive: a thread that is about to advance the
cursor must already have applied its rows. `IInv` adds, for every thread inside
`poll`, that every row up to the cursor value it read, and every row of its batch
that it has applied, is *settled* (the copy, if any, is younger than the row);
that those numbers are rows of the log; and, for a takedown between its publish
and its reply, that its own row is either settled or still ahead of it in the
poll it is executing. Settled rows stay settled: the only step that makes a copy
is a `Put`, whose stamp is the length of the log. So it does not matter that
threads advance the cursor over rows they did not select, or set it back.

**`SingleFlight_proofs`.** `OneFn` (`OneFnPerKey`), `NobodyAbandoned`
(`NoOrphanWaiter`), `TypeCorrect` and `ResultIsShared` (`SharedResult`). The
invariant ties the dict to the threads: an entry of `_calls` is the call of exactly
one leader that has not removed it yet; leaders of one key, and leaders of one call
object, are one thread; and a thread waits on a call whose event is set or whose
leader is still going to set it. `ResultInv` adds what a call object holds: the
result of its leader from the moment `fn` ends, so whoever leaves with it has what
`fn` returned or raised.

**`Serving_proofs`.** The service composes two modules with invariants of their own,
and their lemmas are imported (`FP`, `BP`) for the flights and the bus inside of it: a
step of the service is a step of each, or leaves it alone. `IInv` puts the imported
invariants together with what the parts know of each other: a cache has one entry of
a key and is within its capacity (`CachesOK`); a row that has not expired is the one
the table has (`TableOK`); a request under way is about a code and an instance
(`RequestsOK`); and a request is in the flight exactly while its thread is, those on
one call object asking for the same code as of the same time (`InFlight`). From it:

- `TypeCorrect`, and `ServingIsAnInvalidationLog` (`ImplementsInvalidation`): a put into
  the LRU cache is a `Put` of the abstract one with the entry evicted, an expired
  entry that a get removes or a flush is a `Drop`, a restart is a restart, and
  everything else stutters. `ServedCacheKeepsThePromise` carries
  `NoStaleCopyBehindCursor` over to the caches of the service, and
  `ServedDrainSettlesOwnRow` what a takedown has reached when it answers.
- `ServedMissesShareALoad`: one load per code and instance, no abandoned waiter, one
  result for all that leave a load, with restarts and takedowns around them.
- `WithdrawnStaysWithdrawn` (`WithdrawnIsNotServed`): a request that came to a
  withdrawn code gets no further than the check (`WithdrawnInv`), whatever is in the
  cache, since marks are only lost with the process that has the request.
- `InterstitialIsShown` (`OnlyTakedownSkipsInterstitial`), under any policy: where a
  suspect link was made, in this life of the instance, its code is flagged or
  withdrawn (`RowsFlagged`); only a takedown removes the flag, and one that is at work
  has marked its code (`MarkedInv`); so a suspect request finds the flag, or is of a
  withdrawn code (`Suspects`).
- `CacheAgreesWithTheTable` (`CachedEntryIsCurrent`): an entry, and what a load is
  about to put, has the expiry of its link (`EntriesInv`), and with `TableOK` a link that
  has not expired is the row.
- `AnswersFit` (`AnswerFitsItsLoad`): what a request has in hand, and the result of a
  call object for everybody who waits on it, answers what was asked at `asof`
  (`FitInv`).

**`Breaker_proofs`.** `TypeCorrect` (an open circuit has an `opened_at`);
`HalfOpenIsNotStuck` (`HalfOpenHasItsProbe`): any recorded result, late or not,
leaves the circuit closed or open, so a half-open circuit has not seen its probe
end; `ProbesArePaced` (`ProbesAreACooldownApart`), from the invariant that while
the circuit is open its cooldown began no earlier than the last probe.

**`Creation_proofs`.** First the store, for generators that may come up with any code or
raise: `TypeCorrect`; `OneOwner` (`CodeHasOneOwner`); `BlindOnlyThen`
(`BlindOnlyAfterLocked`); `LockLeftOnlyThen` (`LockLeftOnlyByGivingUp`). That a code has
one owner rests on the lock: one connection is writing at a time, a transaction without
the lock has added nothing, and what one has added is not committed yet, so a commit
adds only codes that no create has returned. The next two follow from what a
transaction's stage says of the last write of its connection (`Transactions`).

- `HealthyStoreReadsBack`: as long as no step is `Locked`, `CreatedLinkReadsBack` holds,
  which `links_blind` violates; so the failed write is all that is behind that finding,
  and what `Serving` assumes of the store is true of healthy connections.
- `StoreIsATable` (`ImplementsLinkTable`): a transaction adds one row at most, and a
  snapshot has committed rows only (`Snapshots`); a thread that is in an old snapshot
  after a step finds what it found before (`BehindStays`), any other the whole table.

Then the composition. `CreateIsALinkStore` and `CreateIsGenerators` say that with
snowflake generators the store is still that of `LinkStore`, and the generators still
those of `Snowflake`; `CreateKeepsTheStore` and `CreateKeepsTheGenerators` carry all of
the above and below over. `CollisionsHaveTheirCause` (`CollisionHasItsCause`) is about both
together: as long as there is no cause, no attempt was in vain, every code in hand is
one its generator issued, is in no other hand, and is nowhere in the store, whose codes
were all issued (`FreshCodes`). A code that `NextCode` has just made is fresh since no two
ids have one code without a cause: by `RepeatHasItsCause` the ids differ, and by
`DecodeUndoesEncode` so do their codes. A cause does not go away (`CauseStays`).

**`TokenBucket_proofs`.** `TypeCorrect`; `SpendingBounded` (`SpendingIsBounded`);
`StoresAlike` (`StoresAgree`); `RetryAfterSuffices` (`RetryAfterIsEnough`) and
`HeaderAndASecondSuffice` (`HeaderLacksASecondAtMost`), for a cost within the capacity.
Spending needs the level in its invariant: what is
spent and what is left, refilled to now, is at most the burst and the refill of the
time that passed and of the time written back. The stores hold the same bucket, or
the key is gone because the row would be full again by the time any request in
flight was asked; that needs a positive rate and requests no later than the slack
of the lifetime, `Soon`, and is false without (section 5, end).

`RetryAfterSuffices` is about `retry_after_s`, not about the header. What it rests on
(`Promised`) is that the tokens of the row, the refill from its `updated_ms` to the time
of the refusal, and the promised wait are together at least the cost. A refused
request keeps that (`RefusedKeepsRefill`): it found a level below the cost, which is
within the capacity, so no refill was cut off, and it stored the whole of it, with a
time that may even be earlier. `HeaderAndASecondSuffice` adds that a header below its
cap is more than `retry_after_s` less one second (`HeaderBound`).

`EveryWindowIsBounded` says more than the bound from the beginning: from any state on,
what is spent is at most one burst and the refill of the time since, of what is set
back since, and of `MaxDelay`. The last term is real: a request that read the clock
before the window and reaches the store in it is charged to the earlier time, from
which the bucket then refills again, although it was full. The invariant (`Since`) is
that either nothing was spent in the window, or the row was updated at a time no
earlier than `MaxDelay` before it, and spent and left are paid for from there.

**`Snowflake_proofs`.** `GenInvariance`, and from it `GenTypeCorrect` (`GenTypeOK`),
`IdsIncrease` (`IdsIncreaseInALife`) and `RepeatsHaveTheirCause` (`RepeatHasItsCause`),
for any widths of the fields, any clocks and any number of processes and restarts.
`GenInv` says of every generator that what it issued in this life is not after the last
millisecond and sequence number it remembers (`Latest`), that what it issued in earlier
lives is before them unless a life came up behind (`Ahead`), and that its ids are in
order otherwise (`InOrder`); `Lives` ties entries to lives. That ordered fields give
ordered ids, and different ones different ids, is arithmetic of `Pack`.

`DecodeUndoesEncode` is the round trip through base 62, for every number and every base
above 1; with `UnpackUndoesPack` it gives `CodesTellTheirOrigin` (`CodeTellsItsOrigin`). Both
are inductions, which the library states for operators that these provers cannot
instantiate. So `Induction` states it for sets of numbers, from the least element
that every set of numbers has (`Least`); that the recursive functions `Digits` and `Value`
exist and satisfy their equations is `LinearRecursion`, where the function is put together
from functions that satisfy the equation up to a size, which agree up to it.

**`HitCounter_proofs`.** `TypeCorrect` and `CountedOnce` (`EveryHitCountedOnce`),
which is inductive with the types: a hit is in one place, every step moves a whole
batch from one place to another, and a commit without an answer adds the same to the
table and to `doubled`.

Assumptions, each declared where its constants are and no stronger than what the code
does with them: `PollerAssumption`, `BoundsAssumption` (`Invalidation`, `HitCounter`),
`KeysAssumption`, `CallsAssumption`, `ResultsAssumption`; for `Serving`, which instantiates
these, `BusAssumption`, `FlightAssumption`, `LinksAssumption` (hosts are sequences of
labels), `CapacityAssumption` (the cache of `app.py` has room for an entry),
`LinkBoundsAssumption`; `ThresholdAssumption`, `CooldownAssumption`; `AttemptsAssumption`
(the allocator rejects fewer attempts than one); `BucketAssumption`, `TimesAssumption`,
`HeaderAssumption` (a second and the cap are not zero);
`CodesAssumption`; `BitsAssumption`, `ClockAssumption`, `BaseAssumption`,
`DeploymentsAssumption` (an `INSTANCE_ID` fits its bits, which the constructor checks);
`GeneratorsAssumption`, `NoCodeAssumption` (the marks for no code in hand are no codes). Four
theorems have a hypothesis of their own, named above.

Only model-checked: the liveness properties (`EveryRowReachesEveryInstance`,
`EveryCallerReturns`, `EveryRequestAnswered`, `FollowsTheStore`), since fairness is out of the
prover's reach. Every invariant and every action property of the runs, and both
refinements, are proved.

## 5. Findings

- **`serving_fleet`**: applying an invalidation evicts a copy and remembers
  nothing. The row of a withdrawn link stays in the table, and the list of
  takedowns stays on the instance that handled it, so every other instance loads
  the link again on the next request. What the log guarantees
  (`NoStaleCopyBehindCursor`, proved) is less than what takedown promises.
  Nor does the instance that handled a takedown survive a restart: replaying the
  log rebuilds no list (`MaxRestarts = 1` on one instance shows it).
- **`links_blind`**: a write that fails with "database is locked" leaves its
  transaction open. The next `get` on that thread pins a snapshot; the thread then
  answers 404 for every link created since, and each of its writes fails at once,
  until it ends. What does hold is proved: a failed write is the only way there
  (`HealthyStoreReadsBack`), and the table itself is never wrong (`StoreIsATable`).
- **`breaker_probe`**: a call that began before the circuit opened and fails when
  it is half-open is taken for the probe. What does hold is proved: somebody is
  probing, and probes are a cooldown apart.

More divergences need no run of their own to see. A takedown removes the
interstitial under a request that has passed the takedown check, which is then a
plain redirect, or a KeyError if it is between its two lookups;
`OnlyTakedownSkipsInterstitial` says that nothing else does that. And with a rate of
zero a Redis bucket is full again after `HardTtl`, a SQLite bucket never
(`limiter.py:73`; `Rate = 0` in `TokenBucket.cfg` shows it).

Codes and ids: `create_link` says that under snowflake a collision is two instances
sharing an `INSTANCE_ID` (`app.py:242-243`); a process that restarts behind its own past
collides as well, for as long as it is behind (`CollisionHasItsCause` names both causes,
and is violated with either left out). And "a large jump SHOULD be loud"
(`ids.py:110`) is true of a call that begins after the jump: one that is spinning for
the next millisecond looks at no drift and spins, with the lock of the generator,
until the clock is back. If its process has just collided, the lock of the file is
held for as long.

The `Retry-After` header: a refused client is told `int(retry_after_s)`, at least 1 and
at most 60 (`app.py:155`), which may be less than `retry_after_s` itself. A client that
waits exactly as it is told may be refused again, up to a second early where the
refill of a request takes more than a second and is no whole number of them, and by
any amount where it takes more than a minute; with the defaults (10 tokens a second)
it takes a tenth of a second and the header is always enough. `_retry_after` promises
only that `retry_after_s` is enough (`limiter.py:94`), which is proved, and nothing in
the repository says it of the header, so this is no finding; how much is missing is
`HeaderLacksASecondAtMost`.

Hits: the loss that `counters.py:16-17` bounds by `flush_interval` is bounded only
while hits keep coming, since `flush` is triggered by the next `record`.

## 6. Not modelled, and the plan

Not modelled by choice: `RedisPubSubBus` and `FailOpenLimiter` (never constructed by
the application), `measure_propagation` and the load generators (they measure), the
counters that only `/metrics` and `/admin/abuse` print, reset-metrics, HTML, taking the
host out of a URL (`host_of`), deployment files. The limiter's decision is not part of
`Serving`: a refused request changes nothing. `RandomCodeGenerator` has no state and may
return any code, which is what `LinkStore` alone assumes of a generator.

Left out of actions that are modelled: a clock before `EPOCH_MS` (the beginning of 2025), with which
`next_id` returns a negative number that `encode_base62` refuses (`ids.py:63-64`); and a
`commit()` that raises and leaves its transaction open, which SQLite does when a COMMIT
finds the file busy, but in WAL mode a writer has its lock by then.

Hazards without a property, their behaviour being in a model: a code that is used
again inherits the mark and the interstitial of its earlier link, and a request that
passes its takedown loses the interstitial or fails (`Serving`); hits that no later hit
follows stay in memory (`HitCounter`); a quota without refill ends with its Redis key
(`TokenBucket`); a generator that spins while its clock is behind (`Creation`). Of the
hits the repository says more than is true (section 5), of the others nothing. One more,
a probe that never ends, is excluded by the fairness of `Breaker` (section 3).

What could follow: `LinkTable`, with a purge, as the store inside of `Serving`; one clock per
instance in `Serving`, with a skew.
