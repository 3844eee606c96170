------------------------------ MODULE Serving ------------------------------
(***************************************************************************)
(* The request paths of the shortener (app.py: create_link, resolve,       *)
(* takedown, flush_cache) on several instances that share the link table   *)
(* and the invalidation log, and the operator's sweep of that table        *)
(* (pgstore.py: purge_expired).  Composes SingleFlight, Lru, Reputation    *)
(* and Invalidation: every instance has a cache, a single flight, a        *)
(* takedown list and a dict of interstitials in its memory, and serves     *)
(* requests in threads.                                                    *)
(*                                                                         *)
(* A code may be used again once its row is purged.  A link is a code and  *)
(* a number, which stands for its target: the first link of a code is 1.   *)
(***************************************************************************)
EXTENDS Lru, Reputation, FiniteSets

CONSTANTS Instances, Admins, Poller, Codes, NoCode, MaxSeq, MaxRestarts,  \* as in Invalidation
          Calls, NoCall, Raised, Unset,                                   \* as in SingleFlight
          Reqs,        \* threads that serve create and resolve requests
          Hosts,       \* hosts of the destinations that are submitted
          Capacity,    \* capacity of the cache of an instance
          Lifetimes,   \* ttl of a link, or NoExpiry
          MaxTime,     \* bound: the clock
          MaxRows      \* bound: links that one code has had

ASSUME BusAssumption ==
  /\ Instances # {} /\ Codes # {}
  /\ NoCode \notin Codes \cup Instances
  /\ Poller \notin Admins
  /\ MaxSeq \in Nat /\ MaxRestarts \in Nat
ASSUME FlightAssumption ==
  NoCall \notin Calls /\ Raised \notin 0..MaxRows /\ Unset \notin 0..MaxRows \cup {Raised}
ASSUME LinksAssumption == Hosts \subseteq Seq(STRING) /\ Lifetimes \subseteq Nat \cup {NoExpiry}
ASSUME CapacityAssumption == Capacity \in Nat \ {0}
ASSUME LinkBoundsAssumption == MaxTime \in Nat /\ MaxRows \in Nat

VARIABLES log, cursor, poll, restarts,    \* Invalidation
          calls, call, thread,            \* SingleFlight: one per instance
          lru,                            \* cache, per instance
          marks,                          \* takedowns._codes, per instance
          interstitials,                  \* interstitials, per instance
          rows,                           \* history: the links of each code
          links,                          \* table links: which of them each row is
          now,                            \* the wall clock, in milliseconds
          req                             \* what each request thread is doing

busVars == <<log, cursor, poll, restarts>>
flightVars == <<calls, call, thread>>
vars == <<busVars, flightVars, lru, marks, interstitials, rows, links, now, req>>

(* The cache of every instance as Invalidation sees it: an entry's value   *)
(* has the length of the log when it was put, besides the target.          *)
CacheView ==
  [i \in Instances |-> [c \in Codes |->
     IF Cached(lru[i], c) THEN EntryOf(lru[i], c).value.stamp ELSE -1]]

Bus == INSTANCE Invalidation WITH cache <- CacheView

(* One flight per instance: its keys are the instance's codes. *)
Flight == INSTANCE SingleFlight WITH
            Threads <- Reqs, Keys <- Instances \X Codes, Values <- 0..MaxRows

NoLink == 0    \* the links table has no row for the code; load returns None

(* Fields had, asof and facts are history: see StartResolve and EnterFlight. *)
NoReq == [pc |-> "idle", inst |-> NoCode, code |-> NoCode, now |-> 0, target |-> NoLink,
          had |-> NoLink, asof |-> 0, facts |-> {}, answer |-> 0]

Init ==
  /\ lru = [i \in Instances |-> <<>>]
  /\ Bus!Init
  /\ Flight!Init
  /\ marks = [i \in Instances |-> {}]
  /\ interstitials = [i \in Instances |-> {}]
  /\ rows = [c \in Codes |-> <<>>]
  /\ links = [c \in Codes |-> NoLink]
  /\ now = 0
  /\ req = [r \in Reqs |-> NoReq]

-----------------------------------------------------------------------------
Goto(r, pc) == req' = [req EXCEPT ![r].pc = pc]

(* The HTTP status is decided. *)
Answer(r, status) == req' = [req EXCEPT ![r].pc = "done", ![r].answer = status]

Key(r) == <<req[r].inst, req[r].code>>

(* code in takedowns. *)
Withdrawn(i, c) == c \in marks[i]

(* The INSERT of a code succeeds if and only if the code has no row. *)
Free(c) == links[c] = NoLink

(* The row of a code is a link that has not expired at the time given. *)
Live(c, at) == ~Free(c) /\ ~Expired(rows[c][links[c]].expires, at)

(* Reference: the host is below one of the domains. *)
Below(host, domains) == \E n \in 2..Len(host) : SubSeq(host, n, Len(host)) \in domains

(* History: what was true at instance i when a request for c started.      *)
(* "suspect": i answered the creation of the link, in this life, and the   *)
(* policy does not let its destination pass.                               *)
Facts(i, c) ==
  {f \in {"withdrawn", "applied", "suspect"} :
     CASE f = "withdrawn" -> Withdrawn(i, c)
       [] f = "applied"   -> \E k \in 1..cursor[i] : log[k] = c
       [] f = "suspect"   -> /\ ~Free(c)
                             /\ rows[c][links[c]].home = i
                             /\ Below(rows[c][links[c]].host, Blocklist \cup Shorteners \cup LowTrust)}

(* POST /links ends without a row: the policy refuses the destination, or  *)
(* allocate raises (no attempt left, the store fails).                     *)
RejectLink(r, i, host) ==
  /\ req[r].pc = "idle"
  /\ req' = [req EXCEPT ![r] = [NoReq EXCEPT !.pc = "done", !.inst = i,
                                  !.answer = IF Evaluate(host) = "refuse" THEN 422 ELSE 500]]
  /\ UNCHANGED <<busVars, flightVars, lru, marks, interstitials, rows, links, now>>

(* POST /links: the allocator finds a code without a row and inserts it.   *)
(* create has read the clock at some time before.                          *)
InsertLink(r, i, c, host, ttl) ==
  /\ req[r].pc = "idle"
  /\ Evaluate(host) # "refuse"
  /\ Free(c)
  /\ Len(rows[c]) < MaxRows
  /\ \E at \in 0..now :
       rows' = [rows EXCEPT ![c] = Append(@,
                  [expires |-> IF ttl = NoExpiry THEN NoExpiry ELSE at + ttl,
                   host |-> host, home |-> NoCode])]
  /\ links' = [links EXCEPT ![c] = Len(rows'[c])]
  /\ req' = [req EXCEPT ![r] = [NoReq EXCEPT !.pc = "flag", !.inst = i, !.code = c,
                                             !.target = links'[c]]]
  /\ UNCHANGED <<busVars, flightVars, lru, marks, interstitials, now>>

(* The verdict INTERSTITIAL is remembered after the row is committed, in   *)
(* the memory of the instance that created the link.                       *)
FlagLink(r) ==
  /\ req[r].pc = "flag"
  /\ interstitials' = IF Evaluate(rows[req[r].code][req[r].target].host) = "interstitial"
                      THEN [interstitials EXCEPT ![req[r].inst] = @ \cup {req[r].code}]
                      ELSE interstitials
  /\ rows' = [rows EXCEPT ![req[r].code][req[r].target].home = req[r].inst]
  /\ Answer(r, 201)
  /\ UNCHANGED <<busVars, flightVars, lru, marks, links, now>>

-----------------------------------------------------------------------------
(* GET /{code}: read the clock.  History: the link the code has then, if   *)
(* any, and when it is.                                                    *)
StartResolve(r, i, c) ==
  /\ req[r].pc = "idle"
  /\ req' = [req EXCEPT ![r] = [NoReq EXCEPT !.pc = "check", !.inst = i, !.code = c,
                                             !.now = now, !.asof = now,
                                             !.had = IF Live(c, now) THEN links[c] ELSE NoLink,
                                             !.facts = Facts(i, c)]]
  /\ UNCHANGED <<busVars, flightVars, lru, marks, interstitials, rows, links, now>>

(* Mutation: the takedown list is consulted only when the cache misses. *)
CheckTakedown_AfterCache(r) ==
  /\ req[r].pc = "check"
  /\ IF /\ Withdrawn(req[r].inst, req[r].code)
        /\ ~Hit(lru[req[r].inst], req[r].code, req[r].now)
     THEN Answer(r, 410) ELSE Goto(r, "get")
  /\ UNCHANGED <<busVars, flightVars, lru, marks, interstitials, rows, links, now>>

(* "Takedown is checked BEFORE the cache." *)
CheckTakedown(r) ==
  /\ req[r].pc = "check"
  /\ IF Withdrawn(req[r].inst, req[r].code) THEN Answer(r, 410) ELSE Goto(r, "get")
  /\ UNCHANGED <<busVars, flightVars, lru, marks, interstitials, rows, links, now>>

CacheGetOf(r) ==
  lru' = [lru EXCEPT ![req[r].inst] = AfterGet(@, req[r].code, req[r].now)]

FromCache(r) == EntryOf(lru[req[r].inst], req[r].code).value.target

InCache(r) == Hit(lru[req[r].inst], req[r].code, req[r].now)

(* cache.get before the flight. *)
CacheGet(r) ==
  /\ req[r].pc = "get"
  /\ CacheGetOf(r)
  /\ req' = [req EXCEPT ![r].pc = IF InCache(r) THEN "show" ELSE "flight",
                        ![r].target = IF InCache(r) THEN FromCache(r) ELSE NoLink]
  /\ UNCHANGED <<busVars, flightVars, marks, interstitials, rows, links, now>>

(* The request whose load the key's call in flight runs. *)
Leader(k) == CHOOSE l \in Reqs : Flight!Leads(l) /\ thread[l].call = calls[k]

(* flight.do: this request leads the load, or waits for the one in flight, *)
(* and then its answer is about the time of that one.                      *)
EnterFlight(r) ==
  /\ req[r].pc = "flight"
  /\ \/ Flight!Lead(r, Key(r)) /\ Goto(r, "load")
     \/ /\ Flight!Join(r, Key(r))
        /\ LET leader == req[Leader(Key(r))]
           IN  req' = [req EXCEPT ![r].pc = "result", ![r].had = leader.had,
                                  ![r].asof = leader.asof]
  /\ UNCHANGED <<busVars, lru, marks, interstitials, rows, links, now>>

(* load: cache.get again. *)
LoadGet(r) ==
  /\ req[r].pc = "load"
  /\ CacheGetOf(r)
  /\ IF InCache(r)
     THEN Flight!FnEnds(r, FromCache(r)) /\ Goto(r, "result")
     ELSE Goto(r, "select") /\ UNCHANGED flightVars
  /\ UNCHANGED <<busVars, marks, interstitials, rows, links, now>>

(* Mutation: the row is returned without looking at its expiry. *)
LoadSelect_Unchecked(r) ==
  /\ req[r].pc = "select"
  /\ IF Free(req[r].code)
     THEN Flight!FnEnds(r, NoLink) /\ Goto(r, "result")
     ELSE /\ req' = [req EXCEPT ![r].pc = "put", ![r].target = links[req[r].code]]
          /\ UNCHANGED flightVars
  /\ UNCHANGED <<busVars, lru, marks, interstitials, rows, links, now>>

(* load: links.get, and is_expired at the time the request was received.   *)
LoadSelect(r) ==
  /\ req[r].pc = "select"
  /\ IF Live(req[r].code, req[r].now)
     THEN /\ req' = [req EXCEPT ![r].pc = "put", ![r].target = links[req[r].code]]
          /\ UNCHANGED flightVars
     ELSE Flight!FnEnds(r, NoLink) /\ Goto(r, "result")
  /\ UNCHANGED <<busVars, lru, marks, interstitials, rows, links, now>>

(* Mutation: an exception of the load leaves the flight behind. *)
LoadSelectFails_NoCleanup(r) ==
  /\ req[r].pc = "select"
  /\ Answer(r, 500)
  /\ UNCHANGED <<busVars, flightVars, lru, marks, interstitials, rows, links, now>>

(* load: links.get raises; so does do() in the leader and in the waiters.  *)
LoadSelectFails(r) ==
  /\ req[r].pc = "select"
  /\ Flight!FnEnds(r, Raised)
  /\ Goto(r, "result")
  /\ UNCHANGED <<busVars, lru, marks, interstitials, rows, links, now>>

(* What load puts into the cache: the target, and the time of the put. *)
Loaded(r) == [stamp |-> Len(log), target |-> req[r].target]

(* Mutation: the entry is cached without its expiry. *)
LoadPut_NoExpiry(r) ==
  /\ req[r].pc = "put"
  /\ lru' = [lru EXCEPT ![req[r].inst] =
               AfterPut(@, req[r].code, Loaded(r), NoExpiry, Capacity)]
  /\ Flight!FnEnds(r, req[r].target)
  /\ Goto(r, "result")
  /\ UNCHANGED <<busVars, marks, interstitials, rows, links, now>>

(* load: cache.put with the expiry of the row, then return the target. *)
LoadPut(r) ==
  /\ req[r].pc = "put"
  /\ lru' = [lru EXCEPT ![req[r].inst] =
               AfterPut(@, req[r].code, Loaded(r),
                        rows[req[r].code][req[r].target].expires, Capacity)]
  /\ Flight!FnEnds(r, req[r].target)
  /\ Goto(r, "result")
  /\ UNCHANGED <<busVars, marks, interstitials, rows, links, now>>

(* flight.do: the leader's finally clause, or a waiter waking up. *)
FlightStep(r) ==
  /\ Flight!Pop(r) \/ Flight!SetDone(r) \/ Flight!Wake(r)
  /\ UNCHANGED <<busVars, lru, marks, interstitials, rows, links, now, req>>

(* flight.do returns or raises: 404 when there is no target, 500 when the  *)
(* exception of the load propagates.                                       *)
TakeResult(r) ==
  /\ Flight!Leave(r)
  /\ \/ thread[r].result = NoLink /\ Answer(r, 404)
     \/ thread[r].result = Raised /\ Answer(r, 500)
     \/ /\ thread[r].result \notin {NoLink, Raised}
        /\ req' = [req EXCEPT ![r].pc = "show", ![r].target = thread[r].result]
  /\ UNCHANGED <<busVars, lru, marks, interstitials, rows, links, now>>

(* `if code in interstitials`: a plain redirect when it is not. *)
CheckInterstitial(r) ==
  /\ req[r].pc = "show"
  /\ IF req[r].code \in interstitials[req[r].inst] THEN Goto(r, "page") ELSE Answer(r, 307)
  /\ UNCHANGED <<busVars, flightVars, lru, marks, interstitials, rows, links, now>>

(* interstitials[code], which raises when the key is gone by now. *)
ReadInterstitial(r) ==
  /\ req[r].pc = "page"
  /\ Answer(r, IF req[r].code \in interstitials[req[r].inst] THEN 200 ELSE 500)
  /\ UNCHANGED <<busVars, flightVars, lru, marks, interstitials, rows, links, now>>

(* The response is sent; the thread is free. *)
EndRequest(r) ==
  /\ req[r].pc = "done"
  /\ req' = [req EXCEPT ![r] = NoReq]
  /\ UNCHANGED <<busVars, flightVars, lru, marks, interstitials, rows, links, now>>

-----------------------------------------------------------------------------
(* POST /admin/takedown/{code}: mark the code in this process. *)
MarkWithdrawn(i, w, c) ==
  /\ UNCHANGED <<flightVars, lru, interstitials, rows, links, now, req>>
  /\ Bus!StartTakedown(i, w, c)
  /\ marks' = [marks EXCEPT ![i] = @ \cup {c}]

(* Mutation: TakedownList.add is called without purge. *)
PurgeLocal_Skipped(i, w) ==
  /\ UNCHANGED <<flightVars, lru, marks, interstitials, rows, links, now, req>>
  /\ Bus!At(i, w, "purge")
  /\ Bus!Goto(i, w, "publish")
  /\ UNCHANGED <<log, cursor, restarts>>

(* purge: cache.invalidate. *)
PurgeLocal(i, w) ==
  /\ Bus!At(i, w, "purge")
  /\ lru' = [lru EXCEPT ![i] = AfterInvalidate(@, poll[i][w].code)]
  /\ Bus!Goto(i, w, "publish")
  /\ UNCHANGED <<log, cursor, restarts, flightVars, marks, interstitials, rows, links, now, req>>

(* bus.publish, which may fail and end the handler with a 500. *)
PublishRow(i, w) ==
  /\ UNCHANGED <<flightVars, lru, marks, interstitials, rows, links, now, req>>
  /\ Bus!Publish(i, w) \/ Bus!PublishFails(i, w)

(* A poll begins.  A takedown handler drops the interstitial of the code   *)
(* just before it drains.                                                  *)
BeginPoll(i, w) ==
  /\ UNCHANGED <<flightVars, lru, marks, rows, links, now, req>>
  /\ Bus!ReadCursor(i, w)
  /\ interstitials' = [interstitials EXCEPT ![i] = @ \ {poll[i][w].code}]

(* The rest of bus.poll that does not touch the cache, and the response.   *)
ContinuePoll(i, w) ==
  /\ UNCHANGED <<flightVars, lru, marks, interstitials, rows, links, now, req>>
  /\ \/ Bus!SelectRows(i, w)
     \/ Bus!SelectFails(i, w)
     \/ Bus!Advance(i, w)
     \/ Bus!Reply(i, w)

(* One row of the batch: cache.invalidate, and nothing else of the         *)
(* instance's memory.                                                      *)
ApplyRow(i, w) ==
  /\ Bus!NextRow(i, w)
  /\ lru' = [lru EXCEPT ![i] = AfterInvalidate(@, log[poll[i][w].next])]
  /\ UNCHANGED <<log, cursor, restarts, flightVars, marks, interstitials, rows, links, now, req>>

(* Mutation: the interstitials are taken for a cache and emptied, too. *)
FlushCache_All(i) ==
  /\ lru[i] # <<>>
  /\ lru' = [lru EXCEPT ![i] = <<>>]
  /\ interstitials' = [interstitials EXCEPT ![i] = {}]
  /\ UNCHANGED <<busVars, flightVars, marks, rows, links, now, req>>

(* POST /admin/flush-cache *)
FlushCache(i) ==
  /\ lru[i] # <<>>
  /\ lru' = [lru EXCEPT ![i] = <<>>]
  /\ UNCHANGED <<busVars, flightVars, marks, interstitials, rows, links, now, req>>

-----------------------------------------------------------------------------
(* The process of i dies and comes back with empty memory: requests, cache,*)
(* takedown list, interstitials, flight.  The link table and the log stay. *)
Restart(i) ==
  /\ Bus!Reborn(i)
  /\ lru' = [lru EXCEPT ![i] = <<>>]
  /\ marks' = [marks EXCEPT ![i] = {}]
  /\ interstitials' = [interstitials EXCEPT ![i] = {}]
  /\ calls' = [k \in Instances \X Codes |-> IF k[1] = i THEN NoCall ELSE calls[k]]
  /\ thread' = [r \in Reqs |-> IF req[r].inst = i THEN Flight!InitThread[r] ELSE thread[r]]
  /\ req' = [r \in Reqs |-> IF req[r].inst = i THEN NoReq ELSE req[r]]
  /\ rows' = [c \in Codes |-> [n \in DOMAIN rows[c] |->
                [rows[c][n] EXCEPT !.home = IF @ = i THEN NoCode ELSE @]]]
  /\ UNCHANGED <<call, links, now>>

(* purge_expired, run by an operator: the rows that have expired go, and   *)
(* their codes are free again.  No memory of an instance is touched.       *)
PurgeExpired ==
  /\ \E c \in Codes : ~Free(c) /\ ~Live(c, now)
  /\ links' = [c \in Codes |-> IF Live(c, now) THEN links[c] ELSE NoLink]
  /\ UNCHANGED <<busVars, flightVars, lru, marks, interstitials, rows, now, req>>

Tick ==
  /\ now < MaxTime
  /\ now' = now + 1
  /\ UNCHANGED <<busVars, flightVars, lru, marks, interstitials, rows, links, req>>

(* The steps that a request takes once it has started. *)
RequestStep(r) ==
  \/ FlagLink(r)
  \/ CheckTakedown(r)
  \/ CacheGet(r)
  \/ EnterFlight(r)
  \/ LoadGet(r)
  \/ LoadSelect(r)
  \/ LoadSelectFails(r)
  \/ LoadPut(r)
  \/ FlightStep(r)
  \/ TakeResult(r)
  \/ CheckInterstitial(r)
  \/ ReadInterstitial(r)

Next ==
  \/ \E r \in Reqs :
       \/ RequestStep(r)
       \/ EndRequest(r)
       \/ \E i \in Instances, c \in Codes :
            \/ StartResolve(r, i, c)
            \/ \E host \in Hosts, ttl \in Lifetimes : InsertLink(r, i, c, host, ttl)
       \/ \E i \in Instances, host \in Hosts : RejectLink(r, i, host)
  \/ \E i \in Instances :
       \/ \E w \in Bus!Workers :
            \/ \E c \in Codes : MarkWithdrawn(i, w, c)
            \/ PurgeLocal(i, w)
            \/ PublishRow(i, w)
            \/ BeginPoll(i, w)
            \/ ContinuePoll(i, w)
            \/ ApplyRow(i, w)
       \/ FlushCache(i)
       \/ Restart(i)
  \/ PurgeExpired
  \/ Tick

Spec == Init /\ [][Next]_vars

(* Threads that serve requests are scheduled. *)
FairSpec == Spec /\ \A r \in Reqs : WF_vars(RequestStep(r))

-----------------------------------------------------------------------------
Answered(r, statuses) == req[r].pc = "done" /\ req[r].answer \in statuses

(* Every variable has its type. *)
TypeOK ==
  /\ Bus!TypeOK
  /\ Flight!TypeOK
  /\ \A i \in Instances : Len(lru[i]) <= Capacity
  /\ marks \in [Instances -> SUBSET Codes]
  /\ interstitials \in [Instances -> SUBSET Codes]
  /\ \A c \in Codes : links[c] \in {NoLink} \cup DOMAIN rows[c]
  /\ now \in 0..MaxTime
  /\ \A r \in Reqs : req[r].answer \in {0, 200, 201, 307, 404, 410, 422, 500}

(* A request that reaches an instance after a takedown of its code was     *)
(* marked there is not sent on to the destination, although a load that    *)
(* began before may put the code back into the cache after the purge       *)
(* (resolve: "Takedown is checked BEFORE the cache").                      *)
WithdrawnIsNotServed ==
  \A r \in Reqs : Answered(r, {200, 307, 404}) => "withdrawn" \notin req[r].facts

(* The instance that created a link whose destination the policy does not  *)
(* let pass never sends a browser on to it plainly, unless a takedown has  *)
(* withdrawn the code meanwhile, which takes the interstitial away under   *)
(* the request (resolve: "200, not a redirect: the whole point is that the *)
(* browser stops here").                                                   *)
OnlyTakedownSkipsInterstitial ==
  \A r \in Reqs :
    Answered(r, {307}) /\ "suspect" \in req[r].facts => Withdrawn(req[r].inst, req[r].code)

(* A cached entry that a new request would be given is the row the table   *)
(* has now, also when the code has been purged and used again: it neither  *)
(* outlives its link nor hides the next one (LruCache.get; purge_expired). *)
CachedEntryIsCurrent ==
  \A i \in Instances : \A n \in DOMAIN lru[i] :
    ~Expired(lru[i][n].expires, now) => links[lru[i][n].key] = lru[i][n].value.target

(* A request is answered by what was true when it was received, or, if it  *)
(* shared another's load, when that one was: it is sent to a link that had *)
(* not expired then, never to an earlier link of the code than the one it  *)
(* had then, and told 404 only if it had none or the link has expired      *)
(* since (resolve: load; SingleFlight.do).                                 *)
AnswerFitsItsLoad ==
  \A r \in Reqs :
    LET row == rows[req[r].code]
    IN  /\ Answered(r, {200, 307}) => /\ ~Expired(row[req[r].target].expires, req[r].asof)
                                      /\ req[r].target >= req[r].had
        /\ Answered(r, {404}) => req[r].had = NoLink \/ Expired(row[req[r].had].expires, now)

(* Every request that starts is answered, unless its process dies. *)
EveryRequestAnswered ==
  \A r \in Reqs : (req[r].pc \notin {"idle", "done"}) ~> (req[r].pc \in {"idle", "done"})

(* The composition is an invalidation log with caches: Invalidation's      *)
(* promises hold of the caches of the running service.                     *)
ImplementsInvalidation == Bus!Spec

-----------------------------------------------------------------------------
(* "Every instance converges": a request that reaches an instance after it *)
(* has applied the invalidation of its code is not sent on.                *)
AppliedIsNotServed ==
  \A r \in Reqs : Answered(r, {200, 307}) => "applied" \notin req[r].facts
=============================================================================
