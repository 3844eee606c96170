--------------------------- MODULE Serving_proofs ---------------------------
(***************************************************************************)
(* Proofs about the running service, for every number of instances,        *)
(* threads, codes and links, every policy and every cache capacity.        *)
(*                                                                         *)
(* The service composes two modules that have invariants of their own.     *)
(* Their lemmas are taken over (FP for SingleFlight, BP for Invalidation   *)
(* with the stamps of the caches for its cache): a step of the service is  *)
(* a step of each of them or leaves it alone, so what they keep, the       *)
(* service keeps.  IInv puts that together with what the parts know of     *)
(* each other:                                                             *)
(*   - CachesOK: a cache has one entry of a key and is not over capacity;  *)
(*   - TableOK: a row that has not expired is the one its code has;        *)
(*   - RequestsOK: a request under way is about a code and an instance;    *)
(*   - InFlight: a request is in the flight exactly while its thread is,   *)
(*     and those who share a call object ask the same as of the same time. *)
(* On it rest, each with an invariant of its own:                          *)
(*   - the refinement of Invalidation, an entry's stamp being its copy;    *)
(*   - EntriesInv (a cached entry has the expiry of its row) for           *)
(*     CachedEntryIsCurrent;                                               *)
(*   - WithdrawnInv (a request that came to a withdrawn code gets no       *)
(*     further than the check) for WithdrawnIsNotServed;                   *)
(*   - MarkedInv, RowsFlagged and Suspects (a takedown at work has marked  *)
(*     its code; where a suspect link was made it is flagged or withdrawn) *)
(*     for OnlyTakedownSkipsInterstitial;                                  *)
(*   - FitInv (what a request, or the call object it waits on, has in hand *)
(*     answers what it asks) for AnswerFitsItsLoad.                        *)
(***************************************************************************)
EXTENDS Serving, SequenceTheorems, TLAPS

-----------------------------------------------------------------------------
(* The cache: what its operations do to the entries of each key.           *)

Unique(cache) == \A m, n \in DOMAIN cache : cache[m].key = cache[n].key => m = n

LEMMA RemoveAtProperties ==
  ASSUME NEW E, NEW s \in Seq(E), NEW i \in 1..Len(s)
  PROVE  /\ RemoveAt(s, i) \in Seq(E)
         /\ Len(RemoveAt(s, i)) = Len(s) - 1
         /\ \A n \in 1..(Len(s) - 1) : RemoveAt(s, i)[n] = IF n < i THEN s[n] ELSE s[n + 1]
<1> DEFINE a == SubSeq(s, 1, i - 1)
           b == SubSeq(s, i + 1, Len(s))
<1>0. Len(s) \in Nat /\ i \in Nat /\ i >= 1 /\ i <= Len(s)
  OBVIOUS
<1>1. /\ a \in Seq(E) /\ Len(a) = i - 1
      /\ \A n \in 1..(i - 1) : a[n] = s[n]
  <2>1. \A n \in 1..(i - 1) : s[n] \in E
    BY <1>0, ElementOfSeq
  <2>2. /\ a \in Seq(E)
        /\ Len(a) = IF 1 <= i - 1 THEN (i - 1) - 1 + 1 ELSE 0
        /\ \A n \in 1..((i - 1) - 1 + 1) : a[n] = s[1 + n - 1]
    BY <1>0, <2>1, SubSeqProperties
  <2> HIDE DEF a
  <2> QED BY <1>0, <2>2
<1>2. /\ b \in Seq(E) /\ Len(b) = Len(s) - i
      /\ \A n \in 1..(Len(s) - i) : b[n] = s[i + n]
  <2>1. \A n \in (i + 1)..Len(s) : s[n] \in E
    BY <1>0, ElementOfSeq
  <2>2. /\ b \in Seq(E)
        /\ Len(b) = IF i + 1 <= Len(s) THEN Len(s) - (i + 1) + 1 ELSE 0
        /\ \A n \in 1..(Len(s) - (i + 1) + 1) : b[n] = s[(i + 1) + n - 1]
    BY <1>0, <2>1, SubSeqProperties
  <2> HIDE DEF b
  <2> QED BY <1>0, <2>2
<1>3. RemoveAt(s, i) = a \o b
  BY DEF RemoveAt
<1> HIDE DEF a, b
<1>4. /\ a \o b \in Seq(E) /\ Len(a \o b) = Len(s) - 1
      /\ \A n \in 1..(Len(s) - 1) : (a \o b)[n] = IF n <= i - 1 THEN a[n] ELSE b[n - (i - 1)]
  <2>1. /\ a \o b \in Seq(E) /\ Len(a \o b) = Len(a) + Len(b)
        /\ \A n \in 1..(Len(a) + Len(b)) :
             (a \o b)[n] = IF n <= Len(a) THEN a[n] ELSE b[n - Len(a)]
    BY <1>1, <1>2, ConcatProperties
  <2> QED BY <1>0, <1>1, <1>2, <2>1
<1> QED
  BY <1>0, <1>1, <1>2, <1>3, <1>4

(* Whatever is left out of a cache: the keys stay unique and the entries   *)
(* of a key stay, or go.                                                   *)
LEMMA EntriesIn ==
  ASSUME NEW E, NEW cache \in Seq(E), Unique(cache), NEW key
  PROVE  /\ Entries(cache, key) \subseteq E
         /\ \A e, f \in Entries(cache, key) : e = f
         /\ \A e \in Entries(cache, key) : e.key = key
         /\ Cached(cache, key) => /\ EntryOf(cache, key) \in Entries(cache, key)
                                  /\ Entries(cache, key) = {EntryOf(cache, key)}
<1>1. DOMAIN cache = 1..Len(cache) /\ \A n \in 1..Len(cache) : cache[n] \in E
  BY ElementOfSeq
<1>2. \A e, f \in Entries(cache, key) : e = f
  BY DEF Entries, Unique
<1>3. Cached(cache, key) => EntryOf(cache, key) \in Entries(cache, key)
  BY DEF Cached, EntryOf
<1>4. Entries(cache, key) \subseteq E /\ \A e \in Entries(cache, key) : e.key = key
  BY <1>1 DEF Entries
<1>5. Cached(cache, key) => Entries(cache, key) = {EntryOf(cache, key)}
  BY <1>2, <1>3
<1> QED
  BY <1>2, <1>3, <1>4, <1>5

LEMMA WithoutProperties ==
  ASSUME NEW E, NEW cache \in Seq(E), Unique(cache), NEW key
  PROVE  /\ Without(cache, key) \in Seq(E)
         /\ Unique(Without(cache, key))
         /\ Len(Without(cache, key)) = IF Cached(cache, key) THEN Len(cache) - 1 ELSE Len(cache)
         /\ Entries(Without(cache, key), key) = {}
         /\ \A k : k # key => Entries(Without(cache, key), k) = Entries(cache, k)
<1> DEFINE w == Without(cache, key)
           i == CHOOSE n \in DOMAIN cache : cache[n].key = key
<1>0. DOMAIN cache = 1..Len(cache) /\ Len(cache) \in Nat
  OBVIOUS
<1>1. CASE ~Cached(cache, key)
  BY <1>1 DEF Without, Cached
<1>2. CASE Cached(cache, key)
  <2>1. i \in 1..Len(cache) /\ cache[i].key = key
    BY <1>0, <1>2 DEF Cached, Entries
  <2>2. w = RemoveAt(cache, i)
    BY <1>2 DEF Without
  <2> HIDE DEF w, i
  <2>3. /\ w \in Seq(E) /\ Len(w) = Len(cache) - 1
        /\ \A n \in 1..(Len(cache) - 1) : w[n] = IF n < i THEN cache[n] ELSE cache[n + 1]
    BY <2>1, <2>2, RemoveAtProperties
  <2>4. DOMAIN w = 1..(Len(cache) - 1)
    BY <2>3
  <2>5. \A n \in DOMAIN w : \E m \in DOMAIN cache :
          /\ w[n] = cache[m] /\ m # i
          /\ n = IF m < i THEN m ELSE m - 1
    <3> SUFFICES ASSUME NEW n \in DOMAIN w
                 PROVE  \E m \in DOMAIN cache : /\ w[n] = cache[m] /\ m # i
                                                /\ n = IF m < i THEN m ELSE m - 1
      OBVIOUS
    <3>1. CASE n < i
      BY <1>0, <2>1, <2>3, <2>4, <3>1
    <3>2. CASE ~(n < i)
      <4>1. n + 1 \in DOMAIN cache /\ w[n] = cache[n + 1] /\ n + 1 # i /\ n = (n + 1) - 1 /\ ~(n + 1 < i)
        BY <1>0, <2>1, <2>3, <2>4, <3>2
      <4> QED BY <4>1
    <3> QED BY <3>1, <3>2
  <2>6. \A m \in DOMAIN cache : m # i =>
          \E n \in DOMAIN w : w[n] = cache[m]
    <3> SUFFICES ASSUME NEW m \in DOMAIN cache, m # i
                 PROVE  \E n \in DOMAIN w : w[n] = cache[m]
      OBVIOUS
    <3>1. CASE m < i
      BY <1>0, <2>1, <2>3, <2>4, <3>1
    <3>2. CASE m > i
      <4>1. m - 1 \in DOMAIN w /\ w[m - 1] = cache[m]
        BY <1>0, <2>1, <2>3, <2>4, <3>2
      <4> QED BY <4>1
    <3> QED BY <1>0, <2>1, <3>1, <3>2
  <2>7. Unique(w)
    BY <2>5 DEF Unique
  <2>8. Entries(w, key) = {}
    <3>1. \A n \in DOMAIN w : w[n].key # key
      BY <1>0, <2>1, <2>5 DEF Unique
    <3> QED BY <3>1 DEF Entries
  <2>9. ASSUME NEW k, k # key PROVE Entries(w, k) = Entries(cache, k)
    <3>1. ASSUME NEW e \in Entries(w, k) PROVE e \in Entries(cache, k)
      BY <2>5, <3>1 DEF Entries
    <3>2. ASSUME NEW e \in Entries(cache, k) PROVE e \in Entries(w, k)
      <4>1. PICK m \in DOMAIN cache : cache[m].key = k /\ cache[m] = e
        BY <3>2 DEF Entries
      <4>2. PICK n \in DOMAIN w : w[n] = cache[m]
        BY <2>1, <2>6, <2>9, <4>1
      <4> QED BY <4>1, <4>2 DEF Entries
    <3> QED BY <3>1, <3>2
  <2> QED BY <1>0, <1>2, <2>3, <2>7, <2>8, <2>9 DEF w
<1> QED BY <1>1, <1>2

(* Two caches agree on every key but one. *)
SameBut(key, cache, other) == \A k : k # key => Entries(cache, k) = Entries(other, k)

(* A cache has no entry that another one has not. *)
Shrinks(new, old) == \A k : Entries(new, k) \subseteq Entries(old, k)

(* e is the one entry of its key. *)
Holds(cache, e) == Entries(cache, e.key) = {e}

(* Append, with a definition that a step can do without. *)
Added(cache, e) == Append(cache, e)

(* Append of an entry whose key the cache does not have. *)
LEMMA AddedProperties ==
  ASSUME NEW E, NEW cache \in Seq(E), Unique(cache), NEW e \in E, ~Cached(cache, e.key)
  PROVE  /\ Added(cache, e) \in Seq(E)
         /\ Unique(Added(cache, e))
         /\ Len(Added(cache, e)) = Len(cache) + 1
         /\ Added(cache, e)[Len(cache) + 1] = e
         /\ Holds(Added(cache, e), e)
         /\ SameBut(e.key, Added(cache, e), cache)
<1> DEFINE a == Added(cache, e)
<1>1. /\ a \in Seq(E) /\ Len(a) = Len(cache) + 1
      /\ \A n \in 1..Len(cache) : a[n] = cache[n]
      /\ a[Len(cache) + 1] = e
  BY AppendProperties DEF Added
<1> HIDE DEF a
<1>2. DOMAIN a = 1..(Len(cache) + 1) /\ DOMAIN cache = 1..Len(cache) /\ Len(cache) \in Nat
  BY <1>1
<1>3. \A n \in 1..Len(cache) : cache[n].key # e.key
  BY <1>2 DEF Entries, Cached
<1>4. \A n \in DOMAIN a : n \in DOMAIN cache \/ n = Len(cache) + 1
  BY <1>2
<1>5. Unique(a)
  BY <1>1, <1>2, <1>3, <1>4 DEF Unique
<1>6. Holds(a, e)
  BY <1>1, <1>2, <1>3, <1>4 DEF Entries, Holds
<1>7. ASSUME NEW k, k # e.key PROVE Entries(a, k) = Entries(cache, k)
  BY <1>1, <1>2, <1>4, <1>7 DEF Entries
<1> QED BY <1>1, <1>5, <1>6, <1>7 DEF a, SameBut

(* An entry of the key is set at the end: it is the only one of its key. *)
Replaced(cache, e) == Added(Without(cache, e.key), e)

LEMMA ReplacedProperties ==
  ASSUME NEW E, NEW cache \in Seq(E), Unique(cache), NEW e \in E
  PROVE  /\ Replaced(cache, e) \in Seq(E)
         /\ Unique(Replaced(cache, e))
         /\ Len(Replaced(cache, e)) = IF Cached(cache, e.key) THEN Len(cache) ELSE Len(cache) + 1
         /\ Replaced(cache, e) # <<>>
         /\ Replaced(cache, e)[Len(Replaced(cache, e))] = e
         /\ Holds(Replaced(cache, e), e)
         /\ SameBut(e.key, Replaced(cache, e), cache)
<1> DEFINE w == Without(cache, e.key)
           a == Added(w, e)
<1>0. Len(cache) \in Nat
  OBVIOUS
<1>1. /\ w \in Seq(E) /\ Unique(w) /\ Entries(w, e.key) = {}
      /\ Len(w) = IF Cached(cache, e.key) THEN Len(cache) - 1 ELSE Len(cache)
      /\ \A k : k # e.key => Entries(w, k) = Entries(cache, k)
  BY WithoutProperties
<1> HIDE DEF w
<1>5. ~Cached(w, e.key)
  BY <1>1 DEF Cached
<1>2. /\ a \in Seq(E) /\ Unique(a)
      /\ Len(a) = Len(w) + 1 /\ a[Len(w) + 1] = e
      /\ Holds(a, e)
      /\ SameBut(e.key, a, w)
  BY <1>1, <1>5, AddedProperties
<1>3. Replaced(cache, e) = a
  BY DEF Replaced, w
<1> HIDE DEF a
<1>4. a # <<>>
  BY <1>0, <1>1, <1>2
<1>6. SameBut(e.key, a, cache)
  BY <1>1, <1>2 DEF SameBut
<1> QED BY <1>0, <1>1, <1>2, <1>3, <1>4, <1>6

(* get: an entry that expired goes, another one stays. *)
LEMMA AfterGetProperties ==
  ASSUME NEW E, NEW cache \in Seq(E), Unique(cache), NEW key, NEW at
  PROVE  /\ AfterGet(cache, key, at) \in Seq(E)
         /\ Unique(AfterGet(cache, key, at))
         /\ Len(AfterGet(cache, key, at)) <= Len(cache)
         /\ Shrinks(AfterGet(cache, key, at), cache)
<1>0. Len(cache) \in Nat
  OBVIOUS
<1>1. CASE Hit(cache, key, at)
  <2> DEFINE e == EntryOf(cache, key)
  <2>1. Cached(cache, key)
    BY <1>1 DEF Hit, Cached
  <2>2. e \in E /\ e.key = key /\ Entries(cache, key) = {e}
    BY <2>1, EntriesIn
  <2>3. AfterGet(cache, key, at) = Replaced(cache, e)
    BY <1>1, <2>2 DEF AfterGet, Replaced, Added
  <2> HIDE DEF e
  <2>4. /\ Replaced(cache, e) \in Seq(E) /\ Unique(Replaced(cache, e))
        /\ Len(Replaced(cache, e)) = IF Cached(cache, e.key) THEN Len(cache) ELSE Len(cache) + 1
        /\ Holds(Replaced(cache, e), e)
        /\ SameBut(e.key, Replaced(cache, e), cache)
    BY <2>2, ReplacedProperties
  <2>5. Shrinks(Replaced(cache, e), cache)
    BY <2>2, <2>4 DEF Holds, SameBut, Shrinks
  <2> QED BY <1>0, <2>1, <2>2, <2>3, <2>4, <2>5
<1>2. CASE ~Hit(cache, key, at)
  <2>1. AfterGet(cache, key, at) = Without(cache, key)
    BY <1>2 DEF AfterGet
  <2>2. Shrinks(Without(cache, key), cache)
    BY WithoutProperties DEF Shrinks
  <2> QED BY <1>0, <2>1, <2>2, WithoutProperties
<1> QED BY <1>1, <1>2

(* The entries that popitem leaves: the last ones. *)
LEMMA NewestProperties ==
  ASSUME NEW E, NEW cache \in Seq(E), Unique(cache), NEW n \in Nat \ {0}
  PROVE  /\ Newest(cache, n) \in Seq(E)
         /\ Unique(Newest(cache, n))
         /\ Len(Newest(cache, n)) <= n
         /\ \A k : Entries(Newest(cache, n), k) \subseteq Entries(cache, k)
         /\ cache # <<>> => LET e == cache[Len(cache)]
                            IN  Entries(Newest(cache, n), e.key) = Entries(cache, e.key)
<1>0. Len(cache) \in Nat /\ DOMAIN cache = 1..Len(cache) /\ n \in Nat /\ n > 0
  OBVIOUS
<1>1. CASE Len(cache) <= n
  <2>1. Newest(cache, n) = cache
    BY <1>1 DEF Newest
  <2> QED BY <1>1, <2>1
<1>2. CASE ~(Len(cache) <= n)
  <2> DEFINE a == Len(cache) - n
             s == SubSeq(cache, a + 1, Len(cache))
  <2>1. Newest(cache, n) = s
    BY <1>2 DEF Newest
  <2>2. a \in Nat /\ a > 0 /\ Len(cache) = a + n
    BY <1>0, <1>2
  <2> HIDE DEF a
  <2>3. /\ s \in Seq(E) /\ Len(s) = n
        /\ \A m \in 1..n : s[m] = cache[m + a]
    <3>1. \A m \in (a + 1)..Len(cache) : cache[m] \in E
      BY <1>0, <2>2, ElementOfSeq
    <3>2. /\ s \in Seq(E)
          /\ Len(s) = IF a + 1 <= Len(cache) THEN Len(cache) - (a + 1) + 1 ELSE 0
          /\ \A m \in 1..(Len(cache) - (a + 1) + 1) : s[m] = cache[(a + 1) + m - 1]
      BY <1>0, <2>2, <3>1, SubSeqProperties
    <3> HIDE DEF s
    <3> QED BY <1>0, <2>2, <3>2
  <2> HIDE DEF s
  <2>4. DOMAIN s = 1..n
    BY <2>3
  <2>5. \A m \in 1..n : m + a \in DOMAIN cache
    BY <1>0, <2>2
  <2>6. Unique(s)
    <3> SUFFICES ASSUME NEW l \in 1..n, NEW m \in 1..n, s[l].key = s[m].key PROVE l = m
      BY <2>4 DEF Unique
    <3>1. l + a = m + a
      BY <2>3, <2>5 DEF Unique
    <3> QED BY <2>2, <3>1
  <2>7. ASSUME NEW k PROVE Entries(s, k) \subseteq Entries(cache, k)
    BY <2>3, <2>4, <2>5 DEF Entries
  <2>8. s[n] = cache[Len(cache)] /\ n \in DOMAIN s
    BY <1>0, <2>2, <2>3, <2>4
  <2>9. Entries(s, cache[Len(cache)].key) = Entries(cache, cache[Len(cache)].key)
    <3> DEFINE key == cache[Len(cache)].key
    <3>1. cache[Len(cache)] \in Entries(s, key)
      BY <2>8 DEF Entries
    <3>2. \A e, f \in Entries(cache, key) : e = f
      BY EntriesIn
    <3> QED BY <2>7, <3>1, <3>2
  <2> QED BY <1>0, <2>1, <2>3, <2>6, <2>7, <2>9
<1> QED BY <1>1, <1>2

(* put: the new entry is the only one of its key, and others may have to go. *)
LEMMA AfterPutProperties ==
  ASSUME NEW E, NEW cache \in Seq(E), Unique(cache), NEW key, NEW value, NEW expires,
         NEW n \in Nat \ {0}, Entry(key, value, expires) \in E
  PROVE  /\ AfterPut(cache, key, value, expires, n) \in Seq(E)
         /\ Unique(AfterPut(cache, key, value, expires, n))
         /\ Len(AfterPut(cache, key, value, expires, n)) <= n
         /\ Entries(AfterPut(cache, key, value, expires, n), key) = {Entry(key, value, expires)}
         /\ \A k : k # key =>
              Entries(AfterPut(cache, key, value, expires, n), k) \subseteq Entries(cache, k)
<1> DEFINE e == Entry(key, value, expires)
           a == Replaced(cache, e)
<1>1. e.key = key
  BY DEF Entry
<1>2. AfterPut(cache, key, value, expires, n) = Newest(a, n)
  BY <1>1 DEF AfterPut, Replaced, Added
<1>3. e \in E
  OBVIOUS
<1> HIDE DEF e
<1>4. /\ a \in Seq(E) /\ Unique(a)
      /\ a # <<>> /\ a[Len(a)] = e
      /\ Holds(a, e) /\ SameBut(e.key, a, cache)
  BY <1>3, ReplacedProperties
<1> HIDE DEF a
<1>5. /\ Newest(a, n) \in Seq(E) /\ Unique(Newest(a, n))
      /\ Len(Newest(a, n)) <= n
      /\ \A k : Entries(Newest(a, n), k) \subseteq Entries(a, k)
      /\ Entries(Newest(a, n), e.key) = Entries(a, e.key)
  BY <1>4, NewestProperties
<1> QED BY <1>1, <1>2, <1>4, <1>5 DEF e, Holds, SameBut

-----------------------------------------------------------------------------
(* The parts, with their lemmas. *)
FP == INSTANCE SingleFlight_proofs WITH
        Threads <- Reqs, Keys <- Instances \X Codes, Values <- 0..MaxRows
BP == INSTANCE Invalidation_proofs WITH cache <- CacheView

CacheEntry == [key : Codes, value : [stamp : Nat, target : 1..MaxRows],
               expires : Nat \cup {NoExpiry}]

Row == [expires : Nat \cup {NoExpiry}, host : Hosts, home : Instances \cup {NoCode}]

Statuses == {0, 200, 201, 307, 404, 410, 422, 500}

Request ==
  [pc     : {"idle", "flag", "check", "get", "flight", "load", "select", "put", "result",
             "show", "page", "done"},
   inst   : Instances \cup {NoCode},
   code   : Codes \cup {NoCode},
   now    : Nat,
   target : 0..MaxRows,
   had    : 0..MaxRows,
   asof   : Nat,
   facts  : SUBSET {"withdrawn", "applied", "suspect"},
   answer : Statuses]

Typed ==
  /\ lru \in [Instances -> Seq(CacheEntry)]
  /\ marks \in [Instances -> SUBSET Codes]
  /\ interstitials \in [Instances -> SUBSET Codes]
  /\ rows \in [Codes -> Seq(Row)]
  /\ links \in [Codes -> 0..MaxRows]
  /\ now \in 0..MaxTime
  /\ req \in [Reqs -> Request]

CachesOK == \A i \in Instances : Unique(lru[i]) /\ Len(lru[i]) <= Capacity

(* A row that has not expired is the one its code has, and a code that has *)
(* a row has the last one.                                                 *)
TableOK ==
  \A c \in Codes :
    /\ Len(rows[c]) <= MaxRows
    /\ links[c] # NoLink => links[c] = Len(rows[c])
    /\ \A n \in 1..Len(rows[c]) : ~Expired(rows[c][n].expires, now) => links[c] = n

(* A request that is under way is about a code at an instance. *)
RequestsOK ==
  \A r \in Reqs :
    /\ (req[r].pc \notin {"idle", "done"} \/ req[r].answer \notin {0, 422, 500})
          => req[r].inst \in Instances /\ req[r].code \in Codes
    /\ req[r].pc \in {"flag", "put"} => req[r].target \in 1..Len(rows[req[r].code])

(* A request is in the flight while it leads or waits, and those that      *)
(* share a call object ask the same, as of the same time.                  *)
InFlight ==
  /\ \A r \in Reqs :
       /\ req[r].pc \in {"load", "select", "put"} <=> thread[r].pc = "run"
       /\ req[r].pc = "result" <=> thread[r].pc \in {"wait", "pop", "set", "return"}
       /\ thread[r].pc # "out" => thread[r].key = Key(r)
  /\ \A r, s \in Reqs :
       (thread[r].pc # "out" /\ thread[s].pc # "out" /\ thread[r].call = thread[s].call)
          => /\ Key(r) = Key(s)
             /\ req[r].had = req[s].had /\ req[r].asof = req[s].asof

FlightInv == FP!IInv /\ FP!ResultInv /\ InFlight

BusInv == BP!IInv

IInv == Typed /\ CachesOK /\ TableOK /\ RequestsOK /\ FlightInv /\ BusInv

-----------------------------------------------------------------------------
(* What SingleFlight assumes of its constants holds. *)
LEMMA FlightConstants ==
  /\ Instances \X Codes # {}
  /\ NoCall \notin Calls
  /\ Raised \notin 0..MaxRows /\ Unset \notin (0..MaxRows) \cup {Raised}
<1>1. PICK i \in Instances, c \in Codes : TRUE
  BY BusAssumption
<1>2. <<i, c>> \in Instances \X Codes
  BY <1>1
<1> QED BY <1>2, FlightAssumption

LEMMA FlightStepInv ==
  ASSUME FP!IInv, FP!ResultInv, NEW r \in Reqs, FP!Step(r)
  PROVE  FP!IInv' /\ FP!ResultInv'
<1>1. [FP!Next]_(FP!vars)
  BY DEF FP!Next
<1>2. FP!IInv'
  BY <1>1, FlightConstants, FP!NextIInv
<1>3. FP!TypeOK'
  BY <1>2 DEF FP!IInv
<1> QED BY <1>1, <1>2, <1>3, FlightConstants, FP!ResultNext

(* The steps of the service that move a thread in the flight are steps of  *)
(* SingleFlight.                                                           *)
LEMMA FlightSteps ==
  ASSUME NEW r \in Reqs
  PROVE  /\ \A k \in Instances \X Codes : Flight!Lead(r, k) \/ Flight!Join(r, k) => FP!Step(r)
         /\ \A v \in 0..MaxRows \cup {Raised} : Flight!FnEnds(r, v) => FP!Step(r)
         /\ Flight!Pop(r) \/ Flight!SetDone(r) \/ Flight!Wake(r) \/ Flight!Leave(r) => FP!Step(r)
<1>1. ASSUME NEW k \in Instances \X Codes, Flight!Lead(r, k) PROVE FP!Lead(r, k)
  BY <1>1 DEF Flight!Lead, FP!Lead, Flight!Outside, FP!Outside, Flight!Fresh, FP!Fresh,
              Flight!Holds, FP!Holds, Flight!NewCall, FP!NewCall
<1>2. ASSUME NEW k \in Instances \X Codes, Flight!Join(r, k) PROVE FP!Join(r, k)
  BY <1>2 DEF Flight!Join, FP!Join, Flight!Outside, FP!Outside
<1>3. ASSUME NEW v, Flight!FnEnds(r, v) PROVE FP!FnEnds(r, v)
  BY <1>3 DEF Flight!FnEnds, FP!FnEnds
<1>4. Flight!Pop(r) => FP!Pop(r)
  BY DEF Flight!Pop, FP!Pop
<1>5. Flight!SetDone(r) => FP!SetDone(r)
  BY DEF Flight!SetDone, FP!SetDone
<1>6. Flight!Wake(r) => FP!Wake(r)
  BY DEF Flight!Wake, FP!Wake
<1>7. Flight!Leave(r) => FP!Leave(r)
  BY DEF Flight!Leave, FP!Leave, Flight!InitThread, FP!InitThread
<1> QED BY <1>1, <1>2, <1>3, <1>4, <1>5, <1>6, <1>7 DEF FP!Step, FP!Results

(* What get finds is an entry of the code that has not expired. *)
LEMMA InCacheProperties ==
  ASSUME IInv, NEW r \in Reqs, req[r].pc \in {"get", "load"}, InCache(r)
  PROVE  LET e == EntryOf(lru[req[r].inst], req[r].code)
         IN  /\ e \in Entries(lru[req[r].inst], req[r].code) /\ e \in CacheEntry
             /\ ~Expired(e.expires, req[r].now)
             /\ FromCache(r) = e.value.target /\ FromCache(r) \in 1..MaxRows
<1> DEFINE cache == lru[req[r].inst]
           e == EntryOf(cache, req[r].code)
<1>1. req[r].inst \in Instances
  BY DEF IInv, RequestsOK
<1>2. cache \in Seq(CacheEntry) /\ Unique(cache)
  BY <1>1 DEF IInv, Typed, CachesOK
<1>3. Cached(cache, req[r].code)
  BY DEF InCache, Hit, Cached
<1> HIDE DEF cache
<1>4. /\ Entries(cache, req[r].code) = {e}
      /\ e \in Entries(cache, req[r].code) /\ e \in CacheEntry
  BY <1>2, <1>3, EntriesIn
<1>5. ~Expired(e.expires, req[r].now)
  BY <1>4 DEF InCache, Hit, cache
<1>6. e.value.target \in 1..MaxRows
  BY <1>4 DEF CacheEntry
<1> QED BY <1>4, <1>5, <1>6 DEF FromCache, cache

LEMMA NextCases ==
  Next =>
    \/ \E r \in Reqs : RequestStep(r)
    \/ \E r \in Reqs : EndRequest(r)
    \/ \E r \in Reqs, i \in Instances, c \in Codes : StartResolve(r, i, c)
    \/ \E r \in Reqs, i \in Instances, c \in Codes, host \in Hosts, ttl \in Lifetimes :
         InsertLink(r, i, c, host, ttl)
    \/ \E r \in Reqs, i \in Instances, host \in Hosts : RejectLink(r, i, host)
    \/ \E i \in Instances, w \in Bus!Workers, c \in Codes : MarkWithdrawn(i, w, c)
    \/ \E i \in Instances, w \in Bus!Workers :
         \/ PurgeLocal(i, w) \/ PublishRow(i, w) \/ BeginPoll(i, w)
         \/ ContinuePoll(i, w) \/ ApplyRow(i, w)
    \/ \E i \in Instances : FlushCache(i)
    \/ \E i \in Instances : Restart(i)
    \/ PurgeExpired \/ Tick
BY Zenon DEF Next

LEMMA FlightMoves ==
  ASSUME IInv, Next
  PROVE  \/ UNCHANGED flightVars
         \/ \E r \in Reqs : FP!Step(r)
         \/ \E i \in Instances : Restart(i)
<1> DEFINE OK == UNCHANGED flightVars \/ \E r \in Reqs : FP!Step(r)
<1>1. ASSUME NEW r \in Reqs, RequestStep(r) PROVE OK
  <2>1. CASE FlagLink(r) \/ CheckTakedown(r) \/ CacheGet(r) \/ CheckInterstitial(r) \/ ReadInterstitial(r)
    BY <2>1 DEF FlagLink, CheckTakedown, CacheGet, CheckInterstitial, ReadInterstitial
  <2>2. CASE EnterFlight(r)
    <3>1. Key(r) \in Instances \X Codes
      BY <2>2 DEF EnterFlight, IInv, RequestsOK, Key
    <3>2. Flight!Lead(r, Key(r)) \/ Flight!Join(r, Key(r))
      BY <2>2 DEF EnterFlight
    <3> QED BY <3>1, <3>2, FlightSteps
  <2>3. CASE LoadGet(r)
    <3>1. CASE InCache(r)
      <4>1. FromCache(r) \in 1..MaxRows
        BY <2>3, <3>1, InCacheProperties DEF LoadGet
      <4>2. Flight!FnEnds(r, FromCache(r)) /\ FromCache(r) \in 0..MaxRows
        BY <2>3, <3>1, <4>1 DEF LoadGet
      <4> QED BY <4>2, FlightSteps
    <3>2. CASE ~InCache(r)
      BY <2>3, <3>2 DEF LoadGet
    <3> QED BY <3>1, <3>2
  <2>4. CASE LoadSelect(r)
    <3>1. NoLink \in 0..MaxRows
      BY LinkBoundsAssumption DEF NoLink
    <3>2. UNCHANGED flightVars \/ Flight!FnEnds(r, NoLink)
      BY <2>4 DEF LoadSelect
    <3> QED BY <3>1, <3>2, FlightSteps
  <2>5. CASE LoadSelectFails(r)
    BY <2>5, FlightSteps DEF LoadSelectFails
  <2>6. CASE LoadPut(r)
    <3>1. req[r].target \in 0..MaxRows
      BY DEF IInv, Typed, Request
    <3>2. Flight!FnEnds(r, req[r].target)
      BY <2>6 DEF LoadPut
    <3> QED BY <3>1, <3>2, FlightSteps
  <2>7. CASE FlightStep(r)
    BY <2>7, FlightSteps DEF FlightStep
  <2>8. CASE TakeResult(r)
    BY <2>8, FlightSteps DEF TakeResult
  <2> QED BY <1>1, <2>1, <2>2, <2>3, <2>4, <2>5, <2>6, <2>7, <2>8 DEF RequestStep
<1>2. ASSUME NEW r \in Reqs, EndRequest(r) PROVE OK
  BY <1>2 DEF EndRequest
<1>3. ASSUME NEW r \in Reqs, NEW i \in Instances, NEW c \in Codes, StartResolve(r, i, c) PROVE OK
  BY <1>3 DEF StartResolve
<1>4. ASSUME NEW r \in Reqs, NEW i \in Instances, NEW c \in Codes,
             NEW host \in Hosts, NEW ttl \in Lifetimes, InsertLink(r, i, c, host, ttl)
      PROVE  OK
  BY <1>4 DEF InsertLink
<1>5. ASSUME NEW r \in Reqs, NEW i \in Instances, NEW host \in Hosts, RejectLink(r, i, host)
      PROVE  OK
  BY <1>5 DEF RejectLink
<1>6. ASSUME NEW i \in Instances, NEW w \in Bus!Workers, NEW c \in Codes, MarkWithdrawn(i, w, c)
      PROVE  OK
  BY <1>6 DEF MarkWithdrawn
<1>7. ASSUME NEW i \in Instances, NEW w \in Bus!Workers,
             PurgeLocal(i, w) \/ PublishRow(i, w) \/ BeginPoll(i, w) \/ ContinuePoll(i, w) \/ ApplyRow(i, w)
      PROVE  OK
  BY <1>7 DEF PurgeLocal, PublishRow, BeginPoll, ContinuePoll, ApplyRow
<1>8. ASSUME NEW i \in Instances, FlushCache(i) PROVE OK
  BY <1>8 DEF FlushCache
<1>9. ASSUME PurgeExpired \/ Tick PROVE OK
  BY <1>9 DEF PurgeExpired, Tick
<1> HIDE DEF OK
<1> QED
  <2>1. OK \/ \E i \in Instances : Restart(i)
    BY <1>1, <1>2, <1>3, <1>4, <1>5, <1>6, <1>7, <1>8, <1>9, NextCases
  <2> QED BY <2>1 DEF OK

(* The process of an instance dies in the middle of its flights: whoever   *)
(* shares a call object with one of its threads is one of its threads.     *)
LEMMA RestartFlight ==
  ASSUME IInv, NEW i \in Instances, Restart(i)
  PROVE  FP!IInv' /\ FP!ResultInv' /\ InFlight'
<1> USE DEF IInv, FlightInv
<1>1. /\ call' = call
      /\ calls' = [k \in Instances \X Codes |-> IF k[1] = i THEN NoCall ELSE calls[k]]
      /\ thread' = [r \in Reqs |-> IF req[r].inst = i THEN Flight!InitThread[r] ELSE thread[r]]
      /\ req' = [r \in Reqs |-> IF req[r].inst = i THEN NoReq ELSE req[r]]
  BY DEF Restart
<1>2. FP!TypeOK
  BY DEF FP!IInv
<1>3. /\ \A r \in Reqs : Flight!InitThread[r].pc = "out"
      /\ \A r \in Reqs : Flight!InitThread[r] \in
           [pc : FP!PCs, key : Instances \X Codes, call : Calls \cup {NoCall},
            result : FP!Results \cup {Unset}]
  <2>1. (CHOOSE k \in Instances \X Codes : TRUE) \in Instances \X Codes
    BY FlightConstants
  <2> QED BY <2>1 DEF Flight!InitThread, FP!PCs
<1>4. \A r \in Reqs : thread'[r].pc # "out" =>
        /\ req[r].inst # i /\ thread'[r] = thread[r] /\ req'[r] = req[r]
        /\ thread[r].key = Key(r) /\ thread[r].key[1] # i
  <2> SUFFICES ASSUME NEW r \in Reqs, thread'[r].pc # "out"
               PROVE  /\ req[r].inst # i /\ thread'[r] = thread[r] /\ req'[r] = req[r]
                      /\ thread[r].key = Key(r) /\ thread[r].key[1] # i
    OBVIOUS
  <2>1. req[r].inst # i /\ thread'[r] = thread[r] /\ req'[r] = req[r]
    BY <1>1, <1>3
  <2>2. thread[r].key = Key(r)
    BY <2>1 DEF InFlight
  <2> QED BY <2>1, <2>2 DEF Key
<1>5. \A r \in Reqs : req[r].inst # i => thread'[r] = thread[r] /\ req'[r] = req[r]
  BY <1>1
<1>6. \A k \in Instances \X Codes : calls'[k] = IF k[1] = i THEN NoCall ELSE calls[k]
  BY <1>1
<1>7. FP!TypeOK'
  <2>1. calls' \in [Instances \X Codes -> Calls \cup {NoCall}]
    BY <1>1, <1>2 DEF FP!TypeOK
  <2>2. thread' \in [Reqs -> [pc : FP!PCs, key : Instances \X Codes, call : Calls \cup {NoCall},
                              result : FP!Results \cup {Unset}]]
    BY <1>1, <1>2, <1>3 DEF FP!TypeOK
  <2>3. \A r \in Reqs : thread'[r].pc # "out" => thread'[r].call \in Calls
    BY <1>2, <1>4 DEF FP!TypeOK, FP!Outside
  <2> QED BY <1>1, <1>2, <2>1, <2>2, <2>3 DEF FP!TypeOK, FP!Outside
<1>8. FP!EntryInv'
  <2> SUFFICES ASSUME NEW r \in Reqs, thread'[r].pc \in {"run", "pop"}
               PROVE  calls'[thread'[r].key] = thread'[r].call
    BY DEF FP!EntryInv, FP!BeforePop
  <2>1. thread'[r] = thread[r] /\ thread[r].key[1] # i
    BY <1>4
  <2>2. calls[thread[r].key] = thread[r].call /\ thread[r].key \in Instances \X Codes
    BY <1>2, <2>1 DEF FP!IInv, FP!EntryInv, FP!BeforePop, FP!TypeOK
  <2> QED BY <1>6, <2>1, <2>2
<1>9. FP!LeadInv'
  BY <1>4 DEF FP!IInv, FP!LeadInv, FP!Leads
<1>10. FP!OwnerInv'
  <2> SUFFICES ASSUME NEW k \in Instances \X Codes, calls'[k] # NoCall
               PROVE  \E r \in Reqs : /\ thread'[r].pc \in {"run", "pop"}
                                      /\ thread'[r].key = k /\ thread'[r].call = calls'[k]
    BY DEF FP!OwnerInv, FP!BeforePop
  <2>1. k[1] # i /\ calls'[k] = calls[k]
    BY <1>6
  <2>2. PICK r \in Reqs : /\ thread[r].pc \in {"run", "pop"}
                          /\ thread[r].key = k /\ thread[r].call = calls[k]
    BY <2>1 DEF FP!IInv, FP!OwnerInv, FP!BeforePop
  <2>3. req[r].inst # i
    BY <2>1, <2>2 DEF InFlight, Key
  <2> QED BY <1>5, <2>1, <2>2, <2>3
<1>11. FP!NoOrphanWaiter'
  <2> SUFFICES ASSUME NEW r \in Reqs, thread'[r].pc = "wait"
               PROVE  \/ call[thread[r].call].done
                      \/ \E u \in Reqs : /\ thread'[u].pc \in {"run", "pop", "set"}
                                         /\ thread'[u].call = thread[r].call
    BY <1>1, <1>4 DEF FP!NoOrphanWaiter, FP!Leads
  <2>1. thread'[r] = thread[r] /\ req[r].inst # i
    BY <1>4
  <2>2. CASE ~call[thread[r].call].done
    <3>1. PICK u \in Reqs : /\ thread[u].pc \in {"run", "pop", "set"}
                            /\ thread[u].call = thread[r].call
      BY <2>1, <2>2 DEF FP!IInv, FP!NoOrphanWaiter, FP!Leads
    <3>2. Key(u) = Key(r)
      BY <2>1, <3>1 DEF InFlight
    <3>3. req[u].inst # i
      BY <2>1, <3>2 DEF Key
    <3> QED BY <1>5, <3>1, <3>3
  <2> QED BY <2>2
<1>12. FP!ResultInv'
  BY <1>1, <1>4 DEF FP!ResultInv
<1>13. InFlight'
  <2>1. ASSUME NEW r \in Reqs
        PROVE  /\ (req'[r].pc \in {"load", "select", "put"}) <=> (thread'[r].pc = "run")
               /\ (req'[r].pc = "result") <=> (thread'[r].pc \in {"wait", "pop", "set", "return"})
    BY <1>1, <1>3, <1>5 DEF InFlight, NoReq
  <2> QED BY <1>4, <2>1 DEF InFlight, Key
<1> QED BY <1>7, <1>8, <1>9, <1>10, <1>11, <1>12, <1>13 DEF FP!IInv

LEMMA FlightNext ==
  ASSUME IInv, [Next]_vars
  PROVE  FP!IInv' /\ FP!ResultInv'
<1>1. FP!IInv /\ FP!ResultInv
  BY DEF IInv, FlightInv
<1>2. CASE UNCHANGED flightVars
  <2>1. UNCHANGED FP!vars
    BY <1>2 DEF FP!vars, flightVars
  <2>2. FP!IInv'
    BY <1>1, <2>1, FlightConstants, FP!NextIInv
  <2>3. FP!TypeOK'
    BY <2>2 DEF FP!IInv
  <2> QED BY <1>1, <2>1, <2>2, <2>3, FlightConstants, FP!ResultNext
<1>3. CASE \E r \in Reqs : FP!Step(r)
  BY <1>1, <1>3, FlightStepInv
<1>4. CASE \E i \in Instances : Restart(i)
  BY <1>4, RestartFlight
<1> QED
  <2>1. UNCHANGED vars => UNCHANGED flightVars
    BY DEF vars
  <2> QED BY <1>2, <1>3, <1>4, <2>1, FlightMoves

FlightPCs == {"load", "select", "put", "result"}

(* One request moves from s to q. *)
Moves(r, q) == req' = [req EXCEPT ![r] = q]

LEMMA MovesProperties ==
  ASSUME Typed, NEW r \in Reqs, NEW q, Moves(r, q)
  PROVE  req'[r] = q /\ \A s \in Reqs : s # r => req'[s] = req[s]
BY DEF Typed, Moves

(* A request that is not in the flight, and does not enter it. *)
LEMMA OutsideFlight ==
  ASSUME IInv, NEW r \in Reqs, NEW q, Moves(r, q), UNCHANGED flightVars,
         req[r].pc \notin FlightPCs, q.pc \notin FlightPCs
  PROVE  InFlight'
<1>1. req'[r] = q /\ \A s \in Reqs : s # r => req'[s] = req[s]
  BY MovesProperties DEF IInv
<1>2. thread' = thread
  BY DEF flightVars
<1>3. thread[r].pc \in FP!PCs
  BY DEF IInv, FlightInv, FP!IInv, FP!TypeOK
<1>4. thread[r].pc = "out"
  BY <1>3 DEF IInv, FlightInv, InFlight, FlightPCs, FP!PCs
<1>5. ASSUME NEW s \in Reqs
      PROVE  /\ (req'[s].pc \in {"load", "select", "put"}) <=> (thread'[s].pc = "run")
             /\ (req'[s].pc = "result") <=> (thread'[s].pc \in {"wait", "pop", "set", "return"})
             /\ thread'[s].pc # "out" => s # r
  BY <1>1, <1>2, <1>4 DEF IInv, FlightInv, InFlight, FlightPCs
<1> QED BY <1>1, <1>2, <1>5 DEF IInv, FlightInv, InFlight, Key

(* A request that stays what it is for the flight. *)
LEMMA InsideFlight ==
  ASSUME IInv, NEW r \in Reqs, NEW q, Moves(r, q),
         q.inst = req[r].inst, q.code = req[r].code, q.had = req[r].had, q.asof = req[r].asof,
         thread[r].pc # "out",
         \A s \in Reqs : thread'[s].key = thread[s].key /\ thread'[s].call = thread[s].call,
         \A s \in Reqs : s # r => thread'[s] = thread[s],
         \/ q.pc \in {"load", "select", "put"} /\ thread'[r].pc = "run"
         \/ q.pc = "result" /\ thread'[r].pc \in {"wait", "pop", "set", "return"}
  PROVE  InFlight'
<1>1. req'[r] = q /\ \A s \in Reqs : s # r => req'[s] = req[s]
  BY MovesProperties DEF IInv
<1>2. \A s \in Reqs : /\ req'[s].inst = req[s].inst /\ req'[s].code = req[s].code
                      /\ req'[s].had = req[s].had /\ req'[s].asof = req[s].asof
  BY <1>1
<1>3. ASSUME NEW s \in Reqs
      PROVE  /\ (req'[s].pc \in {"load", "select", "put"}) <=> (thread'[s].pc = "run")
             /\ (req'[s].pc = "result") <=> (thread'[s].pc \in {"wait", "pop", "set", "return"})
             /\ thread'[s].pc # "out" => thread[s].pc # "out"
  BY <1>1 DEF IInv, FlightInv, InFlight
<1> QED BY <1>2, <1>3 DEF IInv, FlightInv, InFlight, Key

LEMMA GotoMoves ==
  ASSUME NEW r, NEW pc
  PROVE  /\ Goto(r, pc) => Moves(r, [req[r] EXCEPT !.pc = pc])
         /\ Answer(r, pc) => Moves(r, [req[r] EXCEPT !.pc = "done", !.answer = pc])
BY DEF Goto, Answer, Moves

(* What FnEnds, Pop, SetDone and Wake leave alone. *)
LEMMA CallsStay ==
  ASSUME IInv, NEW r \in Reqs,
         \/ \E v : Flight!FnEnds(r, v)
         \/ Flight!Pop(r) \/ Flight!SetDone(r) \/ Flight!Wake(r)
  PROVE  /\ \A s \in Reqs : thread'[s].key = thread[s].key /\ thread'[s].call = thread[s].call
         /\ \A s \in Reqs : s # r => thread'[s] = thread[s]
         /\ thread[r].pc # "out"
         /\ thread'[r].pc \in {"wait", "pop", "set", "return"}
         /\ (\E v : Flight!FnEnds(r, v)) => thread[r].pc = "run"
         /\ Flight!Pop(r) \/ Flight!SetDone(r) \/ Flight!Wake(r) => thread[r].pc \in {"pop", "set", "wait"}
<1>1. FP!TypeOK
  BY DEF IInv, FlightInv, FP!IInv
<1>2. ASSUME NEW v, Flight!FnEnds(r, v)
      PROVE  /\ thread[r].pc = "run"
             /\ thread' = [thread EXCEPT ![r] = [@ EXCEPT !.pc = "pop", !.result = v]]
  BY <1>2 DEF Flight!FnEnds
<1>3. CASE \E v : Flight!FnEnds(r, v)
  <2>1. PICK v : thread' = [thread EXCEPT ![r] = [@ EXCEPT !.pc = "pop", !.result = v]]
    BY <1>2, <1>3
  <2>2. thread'[r] = [thread[r] EXCEPT !.pc = "pop", !.result = v]
        /\ \A s \in Reqs : s # r => thread'[s] = thread[s]
    BY <1>1, <2>1 DEF FP!TypeOK
  <2>3. /\ thread'[r].pc = "pop" /\ thread'[r].key = thread[r].key
        /\ thread'[r].call = thread[r].call
    BY <1>1, <2>2 DEF FP!TypeOK
  <2>4. thread[r].pc = "run"
    BY <1>2, <1>3
  <2>5. ~(Flight!Pop(r) \/ Flight!SetDone(r) \/ Flight!Wake(r))
    BY <2>4 DEF Flight!Pop, Flight!SetDone, Flight!Wake
  <2> QED BY <2>2, <2>3, <2>4, <2>5
<1>4. CASE Flight!Pop(r) \/ Flight!SetDone(r) \/ Flight!Wake(r)
  <2>1. thread[r].pc \in {"pop", "set", "wait"}
    BY <1>4 DEF Flight!Pop, Flight!SetDone, Flight!Wake
  <2>2. ~\E v : Flight!FnEnds(r, v)
    BY <1>2, <2>1
  <2>6. PICK pc \in {"set", "return"} : \E v :
          thread' = [thread EXCEPT ![r] = [@ EXCEPT !.pc = pc, !.result = v]]
    <3>1. CASE Flight!Wake(r)
      BY <3>1 DEF Flight!Wake
    <3>2. ASSUME NEW pc \in {"set", "return"}, thread' = [thread EXCEPT ![r].pc = pc]
          PROVE  thread' = [thread EXCEPT ![r] = [@ EXCEPT !.pc = pc, !.result = thread[r].result]]
      <4>1. [thread[r] EXCEPT !.pc = pc] = [thread[r] EXCEPT !.pc = pc, !.result = thread[r].result]
        BY <1>1 DEF FP!TypeOK
      <4> QED BY <3>2, <4>1
    <3>3. CASE Flight!Pop(r)
      BY <3>2, <3>3 DEF Flight!Pop
    <3>4. CASE Flight!SetDone(r)
      BY <3>2, <3>4 DEF Flight!SetDone
    <3> QED BY <1>4, <3>1, <3>3, <3>4
  <2>3. PICK v : thread' = [thread EXCEPT ![r] = [@ EXCEPT !.pc = pc, !.result = v]]
    BY <2>6
  <2>4. thread'[r] = [thread[r] EXCEPT !.pc = pc, !.result = v]
        /\ \A s \in Reqs : s # r => thread'[s] = thread[s]
    BY <1>1, <2>3 DEF FP!TypeOK
  <2>5. /\ thread'[r].pc = pc /\ thread'[r].key = thread[r].key
        /\ thread'[r].call = thread[r].call
    BY <1>1, <2>4 DEF FP!TypeOK
  <2> QED BY <2>1, <2>2, <2>4, <2>5
<1> QED BY <1>3, <1>4

(* The leader whose load a request joins asks for the same key. *)
LEMMA LeaderProperties ==
  ASSUME IInv, NEW k \in Instances \X Codes, calls[k] # NoCall
  PROVE  LET l == Leader(k)
         IN  /\ l \in Reqs /\ thread[l].pc \in {"run", "pop"}
             /\ thread[l].call = calls[k] /\ Key(l) = k
<1>1. PICK t \in Reqs : /\ thread[t].pc \in {"run", "pop"}
                        /\ thread[t].key = k /\ thread[t].call = calls[k]
  BY DEF IInv, FlightInv, FP!IInv, FP!OwnerInv, FP!BeforePop
<1>2. Flight!Leads(t) /\ thread[t].call = calls[k]
  BY <1>1 DEF Flight!Leads
<1>3. \A l \in Reqs : (Flight!Leads(l) /\ thread[l].call = calls[k]) => l = t
  BY <1>1 DEF IInv, FlightInv, FP!IInv, FP!LeadInv, FP!Leads, Flight!Leads
<1>4. Leader(k) = t
  BY <1>2, <1>3 DEF Leader
<1>5. Key(t) = k
  BY <1>1 DEF IInv, FlightInv, InFlight
<1> QED BY <1>1, <1>4, <1>5

LEMMA EnterFlightInv ==
  ASSUME IInv, NEW r \in Reqs, EnterFlight(r)
  PROVE  InFlight'
<1> DEFINE k == Key(r)
<1>1. k \in Instances \X Codes /\ req[r].pc = "flight" /\ req[r] \in Request
  BY DEF EnterFlight, IInv, RequestsOK, Key, Typed
<1>2. FP!TypeOK
  BY DEF IInv, FlightInv, FP!IInv
<1>3. CASE Flight!Lead(r, k) /\ Goto(r, "load")
  <2> DEFINE q == [req[r] EXCEPT !.pc = "load"]
  <2>1. Moves(r, q)
    BY <1>3, GotoMoves
  <2>2. req'[r] = q /\ \A s \in Reqs : s # r => req'[s] = req[s]
    BY <2>1, MovesProperties DEF IInv
  <2>3. PICK c \in Calls :
          /\ \A s \in Reqs : thread[s].pc # "out" => thread[s].call # c
          /\ thread' = [thread EXCEPT ![r] = [pc |-> "run", key |-> k, call |-> c, result |-> Unset]]
    BY <1>3 DEF Flight!Lead, Flight!Fresh, Flight!Holds, Flight!Outside
  <2>4. /\ thread'[r] = [pc |-> "run", key |-> k, call |-> c, result |-> Unset]
        /\ \A s \in Reqs : s # r => thread'[s] = thread[s]
    BY <1>2, <2>3 DEF FP!TypeOK
  <2>5. q.pc = "load" /\ q.inst = req[r].inst /\ q.code = req[r].code
    BY <1>1 DEF Request
  <2> HIDE DEF q
  <2>6. ASSUME NEW s \in Reqs
        PROVE  /\ (req'[s].pc \in {"load", "select", "put"}) <=> (thread'[s].pc = "run")
               /\ (req'[s].pc = "result") <=> (thread'[s].pc \in {"wait", "pop", "set", "return"})
               /\ thread'[s].pc # "out" => /\ thread'[s].key = Key(s)'
                                           /\ s # r => thread'[s].call # c
    BY <2>2, <2>3, <2>4, <2>5 DEF IInv, FlightInv, InFlight, Key
  <2> QED BY <2>2, <2>4, <2>6 DEF IInv, FlightInv, InFlight, Key
<1>4. CASE ~(Flight!Lead(r, k) /\ Goto(r, "load"))
  <2> DEFINE l == Leader(k)
             q == [req[r] EXCEPT !.pc = "result", !.had = req[l].had, !.asof = req[l].asof]
  <2>1. Flight!Join(r, k) /\ Moves(r, q)
    BY <1>4 DEF EnterFlight, Moves
  <2>2. req'[r] = q /\ \A s \in Reqs : s # r => req'[s] = req[s]
    BY <2>1, MovesProperties DEF IInv
  <2>3. calls[k] # NoCall
    BY <2>1 DEF Flight!Join
  <2>4. l \in Reqs /\ thread[l].pc # "out" /\ thread[l].call = calls[k] /\ Key(l) = k
    BY <1>1, <2>3, LeaderProperties
  <2>5. /\ thread'[r] = [pc |-> "wait", key |-> k, call |-> calls[k], result |-> Unset]
        /\ \A s \in Reqs : s # r => thread'[s] = thread[s]
    BY <1>2, <2>1 DEF Flight!Join, FP!TypeOK
  <2>6. /\ q.pc = "result" /\ q.inst = req[r].inst /\ q.code = req[r].code
        /\ q.had = req[l].had /\ q.asof = req[l].asof
    BY <1>1 DEF Request
  <2> HIDE DEF q, l
  <2>7. ASSUME NEW s \in Reqs
        PROVE  /\ (req'[s].pc \in {"load", "select", "put"}) <=> (thread'[s].pc = "run")
               /\ (req'[s].pc = "result") <=> (thread'[s].pc \in {"wait", "pop", "set", "return"})
               /\ thread'[s].pc # "out" => thread'[s].key = Key(s)'
    BY <2>2, <2>5, <2>6 DEF IInv, FlightInv, InFlight, Key
  <2>8. \A s \in Reqs : (thread[s].pc # "out" /\ thread[s].call = calls[k]) =>
          Key(s) = k /\ req[s].had = q.had /\ req[s].asof = q.asof
    BY <2>4, <2>6 DEF IInv, FlightInv, InFlight
  <2>9. \A s \in Reqs : Key(s)' = Key(s)
    BY <2>2, <2>6 DEF Key
  <2>10. ASSUME NEW s \in Reqs, NEW t \in Reqs,
                thread'[s].pc # "out", thread'[t].pc # "out", thread'[s].call = thread'[t].call
         PROVE  Key(s)' = Key(t)' /\ req'[s].had = req'[t].had /\ req'[s].asof = req'[t].asof
    <3>1. CASE s # r /\ t # r
      BY <2>2, <2>5, <2>9, <2>10, <3>1 DEF IInv, FlightInv, InFlight
    <3>2. CASE s = r \/ t = r
      BY <2>2, <2>5, <2>8, <2>9, <2>10, <3>2
    <3> QED BY <3>1, <3>2
  <2> QED BY <2>7, <2>10 DEF InFlight
<1> QED BY <1>3, <1>4

(* A request that goes to another place, or is answered, outside the flight. *)
LEMMA OutsideGoto ==
  ASSUME IInv, NEW r \in Reqs, UNCHANGED flightVars, req[r].pc \notin FlightPCs,
         (\E pc : Goto(r, pc) /\ pc \notin FlightPCs) \/ \E status : Answer(r, status)
  PROVE  InFlight'
<1>1. req[r] \in Request
  BY DEF IInv, Typed
<1>2. ASSUME NEW pc, Goto(r, pc), pc \notin FlightPCs PROVE InFlight'
  <2> DEFINE q == [req[r] EXCEPT !.pc = pc]
  <2>1. Moves(r, q) /\ q.pc = pc
    BY <1>1, <1>2, GotoMoves DEF Request
  <2> HIDE DEF q
  <2> QED BY <1>2, <2>1, OutsideFlight
<1>3. ASSUME NEW status, Answer(r, status) PROVE InFlight'
  <2> DEFINE q == [req[r] EXCEPT !.pc = "done", !.answer = status]
  <2>1. Moves(r, q) /\ q.pc = "done"
    BY <1>1, <1>3, GotoMoves DEF Request
  <2> HIDE DEF q
  <2> QED BY <2>1, OutsideFlight DEF FlightPCs
<1> QED BY <1>2, <1>3

(* The leader's load goes on, or ends. *)
LEMMA InsideGoto ==
  ASSUME IInv, NEW r \in Reqs, NEW q,
         \/ q = [req[r] EXCEPT !.pc = q.pc]
         \/ q = [req[r] EXCEPT !.pc = q.pc, !.target = q.target],
         Moves(r, q), req[r].pc \in {"load", "select", "put"},
         \/ UNCHANGED flightVars /\ q.pc \in {"load", "select", "put"}
         \/ (\E v : Flight!FnEnds(r, v)) /\ q.pc = "result"
  PROVE  InFlight'
<1>1. req[r] \in Request
  BY DEF IInv, Typed
<1>2. q.inst = req[r].inst /\ q.code = req[r].code /\ q.had = req[r].had /\ q.asof = req[r].asof
  BY <1>1 DEF Request
<1>3. thread[r].pc = "run"
  BY DEF IInv, FlightInv, InFlight
<1>4. CASE UNCHANGED flightVars /\ q.pc \in {"load", "select", "put"}
  <2>1. thread' = thread
    BY <1>4 DEF flightVars
  <2> QED BY <1>2, <1>3, <1>4, <2>1, InsideFlight
<1>5. CASE (\E v : Flight!FnEnds(r, v)) /\ q.pc = "result"
  BY <1>2, <1>5, CallsStay, InsideFlight
<1> QED BY <1>4, <1>5

LEMMA InFlightRequest ==
  ASSUME IInv, NEW r \in Reqs, RequestStep(r)
  PROVE  InFlight'
<1>0. req[r] \in Request
  BY DEF IInv, Typed
<1>1. CASE FlagLink(r)
  <2>1. Answer(r, 201) /\ UNCHANGED flightVars /\ req[r].pc \notin FlightPCs
    BY <1>1 DEF FlagLink, FlightPCs
  <2> QED BY <2>1, OutsideGoto
<1>2. CASE CheckTakedown(r)
  <2>1. /\ Answer(r, 410) \/ Goto(r, "get")
        /\ UNCHANGED flightVars /\ req[r].pc \notin FlightPCs /\ "get" \notin FlightPCs
    BY <1>2 DEF CheckTakedown, FlightPCs
  <2> QED BY <2>1, OutsideGoto
<1>3. CASE CacheGet(r)
  <2>4. PICK pc \in {"show", "flight"} : \E n : req' = [req EXCEPT ![r].pc = pc, ![r].target = n]
    BY <1>3 DEF CacheGet
  <2>1. PICK n : req' = [req EXCEPT ![r].pc = pc, ![r].target = n]
    BY <2>4
  <2> DEFINE q == [req[r] EXCEPT !.pc = pc, !.target = n]
  <2>2. Moves(r, q)
    BY <2>1 DEF Moves
  <2>3. q.pc = pc /\ UNCHANGED flightVars /\ req[r].pc \notin FlightPCs /\ pc \notin FlightPCs
    BY <1>0, <1>3 DEF CacheGet, FlightPCs, Request
  <2> HIDE DEF q
  <2> QED BY <2>2, <2>3, OutsideFlight
<1>4. CASE EnterFlight(r)
  BY <1>4, EnterFlightInv
<1>5. ASSUME NEW pc \in {"select", "result"}, Goto(r, pc), req[r].pc \in {"load", "select", "put"},
             IF pc = "result" THEN \E v : Flight!FnEnds(r, v) ELSE UNCHANGED flightVars
      PROVE  InFlight'
  <2> DEFINE q == [req[r] EXCEPT !.pc = pc]
  <2>1. Moves(r, q) /\ q.pc = pc /\ q = [req[r] EXCEPT !.pc = q.pc]
    BY <1>0, <1>5, GotoMoves DEF Request
  <2> HIDE DEF q
  <2> QED BY <1>5, <2>1, InsideGoto
<1>6. CASE LoadGet(r)
  BY <1>5, <1>6 DEF LoadGet
<1>7. CASE LoadSelect(r)
  <2>1. CASE Live(req[r].code, req[r].now)
    <3> DEFINE q == [req[r] EXCEPT !.pc = "put", !.target = links[req[r].code]]
    <3>1. Moves(r, q) /\ UNCHANGED flightVars /\ req[r].pc = "select"
      BY <1>7, <2>1 DEF LoadSelect, Moves
    <3>2. q.pc = "put" /\ q = [req[r] EXCEPT !.pc = q.pc, !.target = q.target]
      BY <1>0 DEF Request
    <3> HIDE DEF q
    <3> QED BY <3>1, <3>2, InsideGoto
  <2>2. CASE ~Live(req[r].code, req[r].now)
    BY <1>5, <1>7, <2>2 DEF LoadSelect
  <2> QED BY <2>1, <2>2
<1>8. CASE LoadSelectFails(r)
  BY <1>5, <1>8 DEF LoadSelectFails
<1>9. CASE LoadPut(r)
  BY <1>5, <1>9 DEF LoadPut
<1>10. CASE FlightStep(r)
  <2>1. Flight!Pop(r) \/ Flight!SetDone(r) \/ Flight!Wake(r)
    BY <1>10 DEF FlightStep
  <2>2. Moves(r, req[r])
    BY <1>10 DEF FlightStep, Moves, IInv, Typed
  <2>3. req[r].pc = "result"
    BY <2>1, CallsStay DEF IInv, FlightInv, InFlight
  <2> QED BY <2>1, <2>2, <2>3, CallsStay, InsideFlight
<1>11. CASE TakeResult(r)
  <2>1. PICK q : Moves(r, q) /\ q.pc \in {"done", "show"}
    <3>1. ASSUME NEW n, Answer(r, n) PROVE \E q : Moves(r, q) /\ q.pc \in {"done", "show"}
      <4> DEFINE q == [req[r] EXCEPT !.pc = "done", !.answer = n]
      <4>1. Moves(r, q) /\ q.pc = "done"
        BY <1>0, <3>1, GotoMoves DEF Request
      <4> QED BY <4>1
    <3>2. CASE req' = [req EXCEPT ![r].pc = "show", ![r].target = thread[r].result]
      <4> DEFINE q == [req[r] EXCEPT !.pc = "show", !.target = thread[r].result]
      <4>1. Moves(r, q) /\ q.pc = "show"
        BY <1>0, <3>2 DEF Moves, Request
      <4> QED BY <4>1
    <3> QED BY <1>11, <3>1, <3>2 DEF TakeResult
  <2>2. req'[r] = q /\ \A s \in Reqs : s # r => req'[s] = req[s]
    BY <2>1, MovesProperties DEF IInv
  <2>3. thread'[r].pc = "out" /\ \A s \in Reqs : s # r => thread'[s] = thread[s]
    BY <1>11 DEF TakeResult, Flight!Leave, Flight!InitThread, IInv, FlightInv, FP!IInv, FP!TypeOK
  <2>4. ASSUME NEW s \in Reqs
        PROVE  /\ (req'[s].pc \in {"load", "select", "put"}) <=> (thread'[s].pc = "run")
               /\ (req'[s].pc = "result") <=> (thread'[s].pc \in {"wait", "pop", "set", "return"})
               /\ thread'[s].pc # "out" => s # r
    BY <2>1, <2>2, <2>3 DEF IInv, FlightInv, InFlight
  <2> QED BY <2>2, <2>3, <2>4 DEF IInv, FlightInv, InFlight, Key
<1>12. CASE CheckInterstitial(r)
  <2>1. /\ Answer(r, 307) \/ Goto(r, "page")
        /\ UNCHANGED flightVars /\ req[r].pc \notin FlightPCs /\ "page" \notin FlightPCs
    BY <1>12 DEF CheckInterstitial, FlightPCs
  <2> QED BY <2>1, OutsideGoto
<1>13. CASE ReadInterstitial(r)
  <2>1. \E n : Answer(r, n)
    BY <1>13 DEF ReadInterstitial
  <2>2. UNCHANGED flightVars /\ req[r].pc \notin FlightPCs
    BY <1>13 DEF ReadInterstitial, FlightPCs
  <2> QED BY <2>1, <2>2, OutsideGoto
<1> QED BY <1>1, <1>2, <1>3, <1>4, <1>6, <1>7, <1>8, <1>9, <1>10, <1>11, <1>12, <1>13 DEF RequestStep

(* What is left of a step of Next when its requests and its restarts are   *)
(* set aside: nothing that a request or the flight has in hand changes.    *)
Background ==
  \/ \E i \in Instances, w \in Bus!Workers, c \in Codes : MarkWithdrawn(i, w, c)
  \/ \E i \in Instances, w \in Bus!Workers :
       \/ PurgeLocal(i, w) \/ PublishRow(i, w) \/ BeginPoll(i, w)
       \/ ContinuePoll(i, w) \/ ApplyRow(i, w)
  \/ \E i \in Instances : FlushCache(i)
  \/ PurgeExpired \/ Tick

LEMMA BackgroundQuiet == Background => UNCHANGED <<flightVars, req>>
BY DEF Background, MarkWithdrawn, PurgeLocal, PublishRow, BeginPoll, ContinuePoll, ApplyRow,
       FlushCache, PurgeExpired, Tick

(* A thread takes a request, or is done with one. *)
Turn(r) ==
  \/ EndRequest(r)
  \/ \E i \in Instances, c \in Codes : StartResolve(r, i, c)
  \/ \E i \in Instances, c \in Codes, host \in Hosts, ttl \in Lifetimes :
       InsertLink(r, i, c, host, ttl)
  \/ \E i \in Instances, host \in Hosts : RejectLink(r, i, host)

LEMMA StepCases ==
  [Next]_vars =>
    \/ \E r \in Reqs : RequestStep(r)
    \/ \E r \in Reqs : Turn(r)
    \/ \E i \in Instances : Restart(i)
    \/ Background
    \/ UNCHANGED vars
<1>1. CASE Next
  BY <1>1, NextCases DEF Background, Turn
<1> QED BY <1>1

(* The record that a thread has when it begins to resolve c at i, and when *)
(* it took any request.                                                    *)
Resolves(q, i, c) ==
  q = [NoReq EXCEPT !.pc = "check", !.inst = i, !.code = c, !.now = now, !.asof = now,
                    !.had = IF Live(c, now) THEN links[c] ELSE NoLink,
                    !.facts = Facts(i, c)]

Rejected(i, a) == [NoReq EXCEPT !.pc = "done", !.inst = i, !.answer = a]

Rejects(q) == \E i \in Instances, a \in {422, 500} : q = Rejected(i, a)

Taken(q) ==
  \/ q = NoReq
  \/ \E i \in Instances, c \in Codes : Resolves(q, i, c)
  \/ \E i \in Instances, c \in Codes :
       q = [NoReq EXCEPT !.pc = "flag", !.inst = i, !.code = c, !.target = links'[c]]
  \/ Rejects(q)

LEMMA TurnProperties ==
  ASSUME NEW r \in Reqs, Turn(r)
  PROVE  /\ UNCHANGED flightVars
         /\ req[r].pc \in {"idle", "done"}
         /\ \E q : Moves(r, q) /\ Taken(q) /\ q.pc \in {"idle", "check", "flag", "done"}
<1>1. CASE EndRequest(r)
  <2>1. Moves(r, NoReq) /\ Taken(NoReq)
    BY <1>1 DEF EndRequest, Moves, Taken
  <2>2. NoReq.pc = "idle"
    BY DEF NoReq
  <2> QED BY <1>1, <2>1, <2>2 DEF EndRequest
<1>2. ASSUME NEW i \in Instances, NEW c \in Codes, StartResolve(r, i, c)
      PROVE  /\ UNCHANGED flightVars /\ req[r].pc = "idle"
             /\ \E q : Moves(r, q) /\ Taken(q) /\ q.pc = "check"
  <2> DEFINE q == [NoReq EXCEPT !.pc = "check", !.inst = i, !.code = c, !.now = now, !.asof = now,
                                !.had = IF Live(c, now) THEN links[c] ELSE NoLink,
                                !.facts = Facts(i, c)]
  <2>1. Moves(r, q) /\ Taken(q)
    BY <1>2 DEF StartResolve, Moves, Taken, Resolves
  <2>2. q.pc = "check"
    BY DEF NoReq
  <2> QED BY <1>2, <2>1, <2>2 DEF StartResolve
<1>3. ASSUME NEW i \in Instances, NEW c \in Codes, NEW host \in Hosts, NEW ttl \in Lifetimes,
             InsertLink(r, i, c, host, ttl)
      PROVE  /\ UNCHANGED flightVars /\ req[r].pc = "idle"
             /\ \E q : Moves(r, q) /\ Taken(q) /\ q.pc = "flag"
  <2> DEFINE q == [NoReq EXCEPT !.pc = "flag", !.inst = i, !.code = c, !.target = links'[c]]
  <2>1. Moves(r, q) /\ Taken(q)
    BY <1>3 DEF InsertLink, Moves, Taken
  <2>2. q.pc = "flag"
    BY DEF NoReq
  <2> QED BY <1>3, <2>1, <2>2 DEF InsertLink
<1>4. ASSUME NEW i \in Instances, NEW host \in Hosts, RejectLink(r, i, host)
      PROVE  /\ UNCHANGED flightVars /\ req[r].pc = "idle"
             /\ \E q : Moves(r, q) /\ Taken(q) /\ q.pc = "done"
  <2>1. PICK a \in {422, 500} : Moves(r, Rejected(i, a))
    BY <1>4 DEF RejectLink, Moves, Rejected
  <2>2. Taken(Rejected(i, a))
    <3>1. Rejects(Rejected(i, a))
      BY <1>4, <2>1 DEF Rejects
    <3> QED BY <3>1 DEF Taken
  <2>3. Rejected(i, a).pc = "done"
    BY DEF Rejected, NoReq
  <2> QED BY <1>4, <2>1, <2>2, <2>3 DEF RejectLink
<1> QED BY <1>1, <1>2, <1>3, <1>4 DEF Turn

LEMMA InFlightNext ==
  ASSUME IInv, [Next]_vars
  PROVE  InFlight'
<1>1. ASSUME NEW r \in Reqs, Turn(r) PROVE InFlight'
  <2>1. PICK q : Moves(r, q) /\ q.pc \in {"idle", "check", "flag", "done"}
    BY <1>1, TurnProperties
  <2> QED BY <1>1, <2>1, TurnProperties, OutsideFlight DEF FlightPCs
<1>2. ASSUME UNCHANGED <<flightVars, req>> PROVE InFlight'
  BY <1>2 DEF IInv, FlightInv, InFlight, flightVars, Key
<1>3. UNCHANGED vars => UNCHANGED <<flightVars, req>>
  BY DEF vars
<1> QED BY <1>1, <1>2, <1>3, StepCases, BackgroundQuiet, InFlightRequest, RestartFlight

-----------------------------------------------------------------------------
(* The table: rows are added, and never change but for their home. *)
RowsKeep ==
  \A c \in Codes :
    /\ Len(rows[c]) <= Len(rows'[c])
    /\ \A n \in 1..Len(rows[c]) : /\ rows'[c][n].expires = rows[c][n].expires
                                  /\ rows'[c][n].host = rows[c][n].host

TableTyped ==
  rows \in [Codes -> Seq(Row)] /\ links \in [Codes -> 0..MaxRows] /\ now \in 0..MaxTime

TableNext == TableTyped' /\ TableOK' /\ RowsKeep /\ now <= now'

LEMMA ExpiredStays ==
  ASSUME NEW e \in Nat \cup {NoExpiry}, NEW m \in Nat, NEW n \in Nat, m <= n
  PROVE  Expired(e, m) => Expired(e, n)
BY DEF Expired, NoExpiry

LEMMA RowFacts ==
  ASSUME TableTyped, NEW c \in Codes
  PROVE  /\ rows[c] \in Seq(Row) /\ Len(rows[c]) \in Nat /\ DOMAIN rows[c] = 1..Len(rows[c])
         /\ \A n \in 1..Len(rows[c]) : rows[c][n] \in Row /\ rows[c][n].expires \in Nat \cup {NoExpiry}
         /\ now \in Nat
<1>1. rows[c] \in Seq(Row)
  BY DEF TableTyped
<1>2. \A n \in 1..Len(rows[c]) : rows[c][n] \in Row
  BY <1>1, ElementOfSeq
<1> QED BY <1>1, <1>2, LinkBoundsAssumption DEF Row, TableTyped

(* Nothing happens to the rows but to their homes. *)
LEMMA HomesChange ==
  ASSUME TableTyped, TableOK,
         rows' \in [Codes -> Seq(Row)],
         \A c \in Codes : /\ Len(rows'[c]) = Len(rows[c])
                          /\ \A n \in 1..Len(rows[c]) : /\ rows'[c][n].expires = rows[c][n].expires
                                                        /\ rows'[c][n].host = rows[c][n].host,
         links' = links, now' = now
  PROVE  TableNext
<1>1. \A c \in Codes : Len(rows[c]) \in Nat
  BY RowFacts
<1> QED BY <1>1, LinkBoundsAssumption DEF TableNext, TableTyped, TableOK, RowsKeep

LEMMA InsertTable ==
  ASSUME TableTyped, TableOK, NEW r, NEW i, NEW c \in Codes, NEW host \in Hosts, NEW ttl \in Lifetimes,
         InsertLink(r, i, c, host, ttl)
  PROVE  TableNext
<1>a. PICK at \in 0..now :
        rows' = [rows EXCEPT ![c] = Append(@,
                   [expires |-> IF ttl = NoExpiry THEN NoExpiry ELSE at + ttl,
                    host |-> host, home |-> NoCode])]
  BY DEF InsertLink
<1> DEFINE row == [expires |-> IF ttl = NoExpiry THEN NoExpiry ELSE at + ttl,
                   host |-> host, home |-> NoCode]
<1>0. now \in Nat /\ \A d \in Codes : rows[d] \in Seq(Row) /\ Len(rows[d]) \in Nat
  BY RowFacts
<1>1. row \in Row
  BY <1>0, LinksAssumption DEF Row
<1>2. /\ Free(c) /\ Len(rows[c]) < MaxRows
      /\ rows' = [rows EXCEPT ![c] = Append(@, row)]
      /\ links' = [links EXCEPT ![c] = Len(rows'[c])] /\ now' = now
  BY <1>a DEF InsertLink
<1> HIDE DEF row
<1>3. /\ Append(rows[c], row) \in Seq(Row)
      /\ Len(Append(rows[c], row)) = Len(rows[c]) + 1
      /\ \A n \in 1..Len(rows[c]) : Append(rows[c], row)[n] = rows[c][n]
  BY <1>0, <1>1, AppendProperties
<1>4. rows'[c] = Append(rows[c], row) /\ \A d \in Codes : d # c => rows'[d] = rows[d]
  BY <1>2 DEF TableTyped
<1>5. rows' \in [Codes -> Seq(Row)]
  BY <1>2, <1>3 DEF TableTyped
<1>6. RowsKeep
  BY <1>0, <1>3, <1>4 DEF RowsKeep
<1>7. links'[c] = Len(rows[c]) + 1 /\ \A d \in Codes : d # c => links'[d] = links[d]
  BY <1>2, <1>3, <1>4 DEF TableTyped
<1>8. links' \in [Codes -> 0..MaxRows]
  BY <1>0, <1>2, <1>3, <1>4, LinkBoundsAssumption DEF TableTyped
<1>9. TableOK'
  <2> SUFFICES ASSUME NEW d \in Codes
               PROVE  /\ Len(rows'[d]) <= MaxRows
                      /\ links'[d] # NoLink => links'[d] = Len(rows'[d])
                      /\ \A n \in 1..Len(rows'[d]) :
                           ~Expired(rows'[d][n].expires, now') => links'[d] = n
    BY DEF TableOK
  <2>1. CASE d # c
    BY <1>2, <1>4, <1>7, <2>1 DEF TableOK
  <2>2. CASE d = c
    <3>1. ASSUME NEW n \in 1..Len(rows'[c]), ~Expired(rows'[c][n].expires, now')
          PROVE  links'[c] = n
      <4>1. CASE n \in 1..Len(rows[c])
        <5>1. links[c] = n
          BY <1>2, <1>3, <1>4, <3>1, <4>1 DEF TableOK
        <5> QED BY <1>2, <4>1, <5>1 DEF Free, NoLink
      <4>2. CASE n \notin 1..Len(rows[c])
        BY <1>0, <1>3, <1>4, <1>7, <4>2
      <4> QED BY <4>1, <4>2
    <3> QED BY <1>0, <1>2, <1>3, <1>4, <1>7, <2>2, <3>1, LinkBoundsAssumption
  <2> QED BY <2>1, <2>2
<1> QED BY <1>0, <1>2, <1>5, <1>6, <1>8, <1>9 DEF TableNext, TableTyped

(* The home of one row is set. *)
LEMMA FlagTable ==
  ASSUME IInv, NEW r \in Reqs, FlagLink(r)
  PROVE  TableNext
<1> DEFINE c == req[r].code
           m == req[r].target
           row == [rows[c][m] EXCEPT !.home = req[r].inst]
<1>0. TableTyped /\ TableOK
  BY DEF IInv, Typed, TableTyped
<1>1. c \in Codes /\ m \in 1..Len(rows[c]) /\ req[r].inst \in Instances
  BY DEF FlagLink, IInv, RequestsOK
<1>2. rows[c] \in Seq(Row) /\ rows[c][m] \in Row /\ Len(rows[c]) \in Nat
  BY <1>0, <1>1, RowFacts
<1>3. row \in Row /\ row.expires = rows[c][m].expires /\ row.host = rows[c][m].host
  BY <1>1, <1>2 DEF Row
<1>4. rows' = [rows EXCEPT ![c] = [rows[c] EXCEPT ![m] = row]]
  BY DEF FlagLink
<1> HIDE DEF row, c, m
<1>5. [rows[c] EXCEPT ![m] = row] \in Seq(Row) /\ Len([rows[c] EXCEPT ![m] = row]) = Len(rows[c])
      /\ \A n \in 1..Len(rows[c]) : [rows[c] EXCEPT ![m] = row][n] = IF n = m THEN row ELSE rows[c][n]
  BY <1>1, <1>2, <1>3, ExceptSeq
<1>6. rows'[c] = [rows[c] EXCEPT ![m] = row] /\ \A d \in Codes : d # c => rows'[d] = rows[d]
  BY <1>0, <1>1, <1>4 DEF TableTyped
<1>7. rows' \in [Codes -> Seq(Row)]
  BY <1>0, <1>4, <1>5 DEF TableTyped
<1>8. ASSUME NEW d \in Codes
      PROVE  /\ Len(rows'[d]) = Len(rows[d])
             /\ \A n \in 1..Len(rows[d]) : /\ rows'[d][n].expires = rows[d][n].expires
                                           /\ rows'[d][n].host = rows[d][n].host
  BY <1>3, <1>5, <1>6
<1>9. links' = links /\ now' = now
  BY DEF FlagLink
<1> QED BY <1>0, <1>7, <1>8, <1>9, HomesChange

(* The homes at an instance are forgotten with its memory. *)
LEMMA RestartTable ==
  ASSUME IInv, NEW i \in Instances, Restart(i)
  PROVE  TableNext
<1>0. TableTyped /\ TableOK
  BY DEF IInv, Typed, TableTyped
<1>1. links' = links /\ now' = now
  BY DEF Restart
<1>2. ASSUME NEW c \in Codes
      PROVE  /\ rows'[c] \in Seq(Row)
             /\ Len(rows'[c]) = Len(rows[c])
             /\ \A n \in 1..Len(rows[c]) : /\ rows'[c][n].expires = rows[c][n].expires
                                           /\ rows'[c][n].host = rows[c][n].host
  <2> DEFINE row(n) == [rows[c][n] EXCEPT !.home = IF @ = i THEN NoCode ELSE @]
             new == [n \in 1..Len(rows[c]) |-> row(n)]
  <2>1. /\ rows[c] \in Seq(Row) /\ Len(rows[c]) \in Nat /\ DOMAIN rows[c] = 1..Len(rows[c])
        /\ \A n \in 1..Len(rows[c]) : rows[c][n] \in Row
    BY <1>0, RowFacts
  <2>2. rows'[c] = new
    BY <2>1 DEF Restart
  <2>3. \A n \in 1..Len(rows[c]) : /\ row(n) \in Row /\ row(n).expires = rows[c][n].expires
                                   /\ row(n).host = rows[c][n].host
    BY <2>1 DEF Row
  <2> HIDE DEF row
  <2>4. new \in [1..Len(rows[c]) -> Row]
    BY <2>3
  <2>5. new \in Seq(Row) /\ Len(new) = Len(rows[c])
    BY <2>1, <2>4, SeqDef
  <2> QED BY <2>2, <2>3, <2>5
<1>3. rows' \in [Codes -> Seq(Row)]
  <2>1. rows' = [c \in Codes |-> rows'[c]]
    BY DEF Restart
  <2> QED BY <1>2, <2>1
<1> QED BY <1>0, <1>1, <1>2, <1>3, HomesChange

LEMMA PurgeTable ==
  ASSUME TableTyped, TableOK, PurgeExpired
  PROVE  TableNext
<1>1. /\ rows' = rows /\ now' = now
      /\ links' = [c \in Codes |-> IF Live(c, now) THEN links[c] ELSE NoLink]
  BY DEF PurgeExpired
<1>2. links' \in [Codes -> 0..MaxRows]
  BY <1>1, LinkBoundsAssumption DEF TableTyped, NoLink
<1>3. \A c \in Codes : Len(rows[c]) \in Nat /\ now \in Nat
  BY RowFacts
<1>4. ASSUME NEW c \in Codes, NEW n \in 1..Len(rows[c]), ~Expired(rows[c][n].expires, now)
      PROVE  links'[c] = n
  <2>1. links[c] = n
    BY <1>4 DEF TableOK
  <2>2. Live(c, now)
    BY <1>3, <1>4, <2>1 DEF Live, Free, NoLink
  <2> QED BY <1>1, <2>1, <2>2
<1>5. TableOK'
  BY <1>1, <1>4 DEF TableOK
<1> QED BY <1>1, <1>2, <1>3, <1>5 DEF TableNext, TableTyped, RowsKeep

LEMMA TickTable ==
  ASSUME TableTyped, TableOK, Tick
  PROVE  TableNext
<1>1. rows' = rows /\ links' = links /\ now' = now + 1 /\ now < MaxTime
  BY DEF Tick
<1>2. now \in Nat /\ now + 1 \in Nat /\ now + 1 \in 0..MaxTime /\ now <= now + 1
  BY <1>1, LinkBoundsAssumption DEF TableTyped
<1>3. ASSUME NEW c \in Codes, NEW n \in 1..Len(rows[c]), ~Expired(rows[c][n].expires, now')
      PROVE  links[c] = n
  <2>1. ~Expired(rows[c][n].expires, now)
    BY <1>1, <1>2, <1>3, RowFacts, ExpiredStays
  <2> QED BY <2>1 DEF TableOK
<1>4. \A c \in Codes : Len(rows[c]) \in Nat
  BY RowFacts
<1> QED BY <1>1, <1>2, <1>3, <1>4 DEF TableNext, TableTyped, TableOK, RowsKeep

LEMMA TableStays ==
  ASSUME TableTyped, TableOK, UNCHANGED <<rows, links, now>>
  PROVE  TableNext
<1>1. \A c \in Codes : Len(rows[c]) \in Nat /\ now \in Nat
  BY RowFacts
<1>2. now <= now
  BY LinkBoundsAssumption DEF TableTyped
<1> QED BY <1>1, <1>2 DEF TableNext, TableTyped, TableOK, RowsKeep

LEMMA TableStep ==
  ASSUME IInv, [Next]_vars
  PROVE  TableNext
<1>0. TableTyped /\ TableOK
  BY DEF IInv, Typed, TableTyped
<1>1. ASSUME NEW r \in Reqs, RequestStep(r) PROVE TableNext
  <2>1. CASE FlagLink(r)
    BY <2>1, FlagTable
  <2>2. CASE ~FlagLink(r)
    <3>1. UNCHANGED <<rows, links, now>>
      BY <1>1, <2>2 DEF RequestStep, CheckTakedown, CacheGet, EnterFlight, LoadGet, LoadSelect,
           LoadSelectFails, LoadPut, FlightStep, TakeResult, CheckInterstitial, ReadInterstitial
    <3> QED BY <1>0, <3>1, TableStays
  <2> QED BY <2>1, <2>2
<1>2. ASSUME NEW r \in Reqs, Turn(r) PROVE TableNext
  <2>1. CASE \E i \in Instances, c \in Codes, host \in Hosts, ttl \in Lifetimes :
               InsertLink(r, i, c, host, ttl)
    BY <1>0, <2>1, InsertTable
  <2>2. CASE UNCHANGED <<rows, links, now>>
    BY <1>0, <2>2, TableStays
  <2> QED BY <1>2, <2>1, <2>2 DEF Turn, EndRequest, StartResolve, RejectLink
<1>3. ASSUME Background PROVE TableNext
  <2>1. CASE PurgeExpired \/ Tick
    BY <1>0, <2>1, PurgeTable, TickTable
  <2>2. CASE UNCHANGED <<rows, links, now>>
    BY <1>0, <2>2, TableStays
  <2> QED BY <1>3, <2>1, <2>2 DEF Background, MarkWithdrawn, PurgeLocal, PublishRow, BeginPoll,
             ContinuePoll, ApplyRow, FlushCache
<1>4. ASSUME UNCHANGED vars PROVE TableNext
  BY <1>0, <1>4, TableStays DEF vars
<1> QED BY <1>1, <1>2, <1>3, <1>4, RestartTable, StepCases

-----------------------------------------------------------------------------
(* The caches. *)
CacheTyped(cache) == cache \in Seq(CacheEntry) /\ Unique(cache) /\ Len(cache) <= Capacity

(* The cache of i is new now. *)
Becomes(i, new) == lru' = [lru EXCEPT ![i] = new] /\ CacheTyped(new)

LEMMA CacheFacts ==
  ASSUME IInv, NEW i \in Instances
  PROVE  CacheTyped(lru[i])
BY DEF IInv, Typed, CachesOK, CacheTyped

(* cache.get *)
LEMMA GetShrinks ==
  ASSUME IInv, NEW r \in Reqs, req[r].pc \in {"get", "load"}, CacheGetOf(r)
  PROVE  \E new : Becomes(req[r].inst, new) /\ Shrinks(new, lru[req[r].inst])
<1> DEFINE i == req[r].inst
           old == lru[i]
           new == AfterGet(old, req[r].code, req[r].now)
<1>1. i \in Instances
  BY DEF IInv, RequestsOK
<1>2. old \in Seq(CacheEntry) /\ Unique(old) /\ Len(old) <= Capacity
  BY <1>1, CacheFacts DEF CacheTyped
<1>3. lru' = [lru EXCEPT ![i] = new]
  BY DEF CacheGetOf
<1> HIDE DEF old
<1>4. new \in Seq(CacheEntry) /\ Unique(new) /\ Len(new) <= Len(old) /\ Shrinks(new, old)
  BY <1>2, AfterGetProperties
<1> HIDE DEF new
<1>5. Len(new) <= Capacity
  <2>1. Len(new) \in Nat /\ Len(old) \in Nat /\ Capacity \in Nat
    BY <1>2, <1>4, CapacityAssumption
  <2> QED BY <1>2, <1>4, <2>1
<1> QED BY <1>3, <1>4, <1>5 DEF Becomes, CacheTyped, old

(* cache.invalidate *)
LEMMA InvalidateEvicts ==
  ASSUME IInv, NEW i \in Instances, NEW c, lru' = [lru EXCEPT ![i] = AfterInvalidate(@, c)]
  PROVE  \E new : Becomes(i, new) /\ ~Cached(new, c) /\ SameBut(c, new, lru[i])
<1> DEFINE old == lru[i]
           new == Without(old, c)
<1>1. old \in Seq(CacheEntry) /\ Unique(old) /\ Len(old) <= Capacity
  BY CacheFacts DEF CacheTyped
<1>2. lru' = [lru EXCEPT ![i] = new]
  BY DEF AfterInvalidate
<1> HIDE DEF old
<1>3. /\ new \in Seq(CacheEntry) /\ Unique(new)
      /\ Len(new) = IF Cached(old, c) THEN Len(old) - 1 ELSE Len(old)
      /\ Entries(new, c) = {}
      /\ \A k : k # c => Entries(new, k) = Entries(old, k)
  BY <1>1, WithoutProperties
<1>4. ~Cached(new, c) /\ SameBut(c, new, old)
  BY <1>3 DEF Cached, SameBut
<1> HIDE DEF new
<1>5. Len(new) <= Capacity
  BY <1>1, <1>3, CapacityAssumption
<1> QED BY <1>2, <1>3, <1>4, <1>5 DEF Becomes, CacheTyped, old

(* cache.put *)
PutEntry(r) ==
  Entry(req[r].code, Loaded(r), rows[req[r].code][req[r].target].expires)

LEMMA PutEntryType ==
  ASSUME IInv, NEW r \in Reqs, req[r].pc = "put"
  PROVE  /\ PutEntry(r) \in CacheEntry /\ req[r].inst \in Instances /\ req[r].code \in Codes
         /\ req[r].target \in 1..Len(rows[req[r].code])
<1>1. /\ req[r].inst \in Instances /\ req[r].code \in Codes
      /\ req[r].target \in 1..Len(rows[req[r].code])
  BY DEF IInv, RequestsOK
<1>2. /\ Len(rows[req[r].code]) \in Nat /\ Len(rows[req[r].code]) <= MaxRows
      /\ rows[req[r].code][req[r].target].expires \in Nat \cup {NoExpiry}
  BY <1>1, RowFacts DEF IInv, Typed, TableTyped, TableOK
<1>3. Len(log) \in Nat
  BY DEF IInv, BusInv, BP!IInv, BP!TypeOK
<1>4. req[r].target \in 1..MaxRows
  BY <1>1, <1>2, LinkBoundsAssumption
<1> QED BY <1>1, <1>2, <1>3, <1>4 DEF PutEntry, Entry, Loaded, CacheEntry

LEMMA PutReplaces ==
  ASSUME IInv, NEW r \in Reqs, LoadPut(r)
  PROVE  \E new : /\ Becomes(req[r].inst, new)
                  /\ Entries(new, req[r].code) = {PutEntry(r)}
                  /\ \A k : k # req[r].code => Entries(new, k) \subseteq Entries(lru[req[r].inst], k)
<1> DEFINE i == req[r].inst
           old == lru[i]
           expires == rows[req[r].code][req[r].target].expires
           new == AfterPut(old, req[r].code, Loaded(r), expires, Capacity)
<1>1. i \in Instances /\ PutEntry(r) \in CacheEntry /\ PutEntry(r) = Entry(req[r].code, Loaded(r), expires)
  BY PutEntryType DEF LoadPut, PutEntry
<1>2. old \in Seq(CacheEntry) /\ Unique(old) /\ Len(old) <= Capacity
  BY <1>1, CacheFacts DEF CacheTyped
<1>3. lru' = [lru EXCEPT ![i] = new]
  BY DEF LoadPut
<1> HIDE DEF old, expires
<1>4. /\ new \in Seq(CacheEntry) /\ Unique(new) /\ Len(new) <= Capacity
      /\ Entries(new, req[r].code) = {Entry(req[r].code, Loaded(r), expires)}
      /\ \A k : k # req[r].code => Entries(new, k) \subseteq Entries(old, k)
  BY <1>1, <1>2, CapacityAssumption, AfterPutProperties
<1> HIDE DEF new
<1> QED BY <1>1, <1>3, <1>4 DEF Becomes, CacheTyped, old

LEMMA EmptyCache == CacheTyped(<<>>) /\ \A k : Entries(<<>>, k) = {}
BY CapacityAssumption, EmptySeq DEF CacheTyped, Unique, Entries

LEMMA CacheStep ==
  ASSUME IInv, [Next]_vars
  PROVE  \/ lru' = lru
         \/ \E i \in Instances : \E new : Becomes(i, new) /\ Shrinks(new, lru[i])
         \/ \E r \in Reqs : LoadPut(r)
<1> DEFINE Less == \E i \in Instances : \E new : Becomes(i, new) /\ Shrinks(new, lru[i])
<1>1. ASSUME NEW r \in Reqs, RequestStep(r) PROVE lru' = lru \/ Less \/ LoadPut(r)
  <2>1. CASE CacheGet(r) \/ LoadGet(r)
    <3>1. req[r].pc \in {"get", "load"} /\ CacheGetOf(r)
      BY <2>1 DEF CacheGet, LoadGet
    <3>2. req[r].inst \in Instances
      BY <3>1 DEF IInv, RequestsOK
    <3> QED BY <3>1, <3>2, GetShrinks
  <2>2. CASE ~(CacheGet(r) \/ LoadGet(r) \/ LoadPut(r))
    BY <1>1, <2>2 DEF RequestStep, FlagLink, CheckTakedown, EnterFlight, LoadSelect,
           LoadSelectFails, FlightStep, TakeResult, CheckInterstitial, ReadInterstitial
  <2> QED BY <2>1, <2>2
<1>2. ASSUME NEW r \in Reqs, Turn(r) PROVE lru' = lru
  BY <1>2 DEF Turn, EndRequest, StartResolve, InsertLink, RejectLink
<1>3. ASSUME NEW i \in Instances, lru' = [lru EXCEPT ![i] = <<>>] PROVE Less
  <2>1. Becomes(i, <<>>) /\ Shrinks(<<>>, lru[i])
    BY <1>3, EmptyCache DEF Becomes, Shrinks
  <2> QED BY <2>1
<1>4. ASSUME NEW i \in Instances, NEW c, lru' = [lru EXCEPT ![i] = AfterInvalidate(@, c)] PROVE Less
  <2>1. PICK new : Becomes(i, new) /\ ~Cached(new, c) /\ SameBut(c, new, lru[i])
    BY <1>4, InvalidateEvicts
  <2>2. Shrinks(new, lru[i])
    <3> SUFFICES ASSUME NEW k PROVE Entries(new, k) \subseteq Entries(lru[i], k)
      BY DEF Shrinks
    <3>1. k = c \/ Entries(new, k) = Entries(lru[i], k)
      BY <2>1 DEF SameBut
    <3> QED BY <2>1, <3>1 DEF Cached
  <2> QED BY <2>1, <2>2
<1>5. ASSUME Background PROVE lru' = lru \/ Less
  <2>1. ASSUME NEW i \in Instances, FlushCache(i) PROVE Less
    BY <1>3, <2>1 DEF FlushCache
  <2>2. ASSUME NEW i \in Instances, NEW w \in Bus!Workers, PurgeLocal(i, w) \/ ApplyRow(i, w) PROVE Less
    BY <1>4, <2>2 DEF PurgeLocal, ApplyRow
  <2>3. ASSUME NEW i \in Instances, NEW w \in Bus!Workers,
               \/ \E c \in Codes : MarkWithdrawn(i, w, c)
               \/ PublishRow(i, w) \/ BeginPoll(i, w) \/ ContinuePoll(i, w)
        PROVE lru' = lru
    BY <2>3 DEF MarkWithdrawn, PublishRow, BeginPoll, ContinuePoll
  <2>4. PurgeExpired \/ Tick => lru' = lru
    BY DEF PurgeExpired, Tick
  <2> QED BY <1>5, <2>1, <2>2, <2>3, <2>4 DEF Background
<1>6. ASSUME NEW i \in Instances, Restart(i) PROVE Less
  BY <1>3, <1>6 DEF Restart
<1>7. UNCHANGED vars => lru' = lru
  BY DEF vars
<1> HIDE DEF Less
<1>8. lru' = lru \/ Less \/ \E r \in Reqs : LoadPut(r)
  BY <1>1, <1>2, <1>5, <1>6, <1>7, StepCases
<1> QED BY <1>8 DEF Less

LEMMA CachesNext ==
  ASSUME IInv, [Next]_vars
  PROVE  lru' \in [Instances -> Seq(CacheEntry)] /\ CachesOK'
<1>1. \A i \in Instances : CacheTyped(lru[i])
  BY CacheFacts
<1>2. lru \in [Instances -> Seq(CacheEntry)]
  BY DEF IInv, Typed
<1>3. lru' = lru \/ \E i \in Instances : \E new : Becomes(i, new)
  <2>1. ASSUME NEW r \in Reqs, LoadPut(r) PROVE \E i \in Instances : \E new : Becomes(i, new)
    BY <2>1, PutReplaces, PutEntryType DEF LoadPut
  <2> QED BY <2>1, CacheStep
<1>4. ASSUME NEW i \in Instances, NEW new, Becomes(i, new)
      PROVE  lru' \in [Instances -> Seq(CacheEntry)] /\ CachesOK'
  BY <1>1, <1>2, <1>4 DEF Becomes, CacheTyped, CachesOK
<1>5. CASE lru' = lru
  BY <1>1, <1>2, <1>5 DEF CacheTyped, CachesOK
<1> QED BY <1>3, <1>4, <1>5

-----------------------------------------------------------------------------
(* The requests. *)
RequestOK(q, lengths) ==
  /\ (q.pc \notin {"idle", "done"} \/ q.answer \notin {0, 422, 500})
        => q.inst \in Instances /\ q.code \in Codes
  /\ q.pc \in {"flag", "put"} => q.target \in 1..lengths[q.code]

Lengths == [c \in Codes |-> Len(rows[c])]

RequestsNext == req' \in [Reqs -> Request] /\ RequestsOK'

LEMMA RequestMoves ==
  ASSUME IInv, [Next]_vars, NEW r \in Reqs, NEW q \in Request, Moves(r, q), RequestOK(q, Lengths')
  PROVE  RequestsNext
<1>1. req'[r] = q /\ \A s \in Reqs : s # r => req'[s] = req[s]
  BY MovesProperties DEF IInv
<1>2. req' \in [Reqs -> Request]
  BY DEF Moves, IInv, Typed
<1>3. \A c \in Codes : Len(rows[c]) \in Nat /\ Len(rows'[c]) \in Nat /\ Len(rows[c]) <= Len(rows'[c])
  BY TableStep DEF TableNext, TableTyped, RowsKeep, IInv, Typed
<1>4. ASSUME NEW s \in Reqs
      PROVE  /\ (req'[s].pc \notin {"idle", "done"} \/ req'[s].answer \notin {0, 422, 500})
                    => req'[s].inst \in Instances /\ req'[s].code \in Codes
             /\ req'[s].pc \in {"flag", "put"} => req'[s].target \in 1..Len(rows'[req'[s].code])
  <2>1. CASE s = r
    BY <1>1, <2>1 DEF RequestOK, Lengths
  <2>2. CASE s # r
    <3>1. /\ (req[s].pc \notin {"idle", "done"} \/ req[s].answer \notin {0, 422, 500})
               => req[s].inst \in Instances /\ req[s].code \in Codes
          /\ req[s].pc \in {"flag", "put"} => req[s].target \in 1..Len(rows[req[s].code])
      BY DEF IInv, RequestsOK
    <3> QED BY <1>1, <1>3, <2>2, <3>1
  <2> QED BY <2>1, <2>2
<1> QED BY <1>2, <1>4 DEF RequestsNext, RequestsOK

(* A request that is under way goes to another place, or is answered. *)
LEMMA RequestGoto ==
  ASSUME IInv, [Next]_vars, NEW r \in Reqs, req[r].pc \notin {"idle", "done"},
         \/ \E pc \in {"get", "load", "select", "result", "page"} : Goto(r, pc)
         \/ \E n \in Statuses : Answer(r, n)
  PROVE  RequestsNext
<1>1. req[r] \in Request /\ req[r].inst \in Instances /\ req[r].code \in Codes
  BY DEF IInv, Typed, RequestsOK
<1>2. ASSUME NEW pc \in {"get", "load", "select", "result", "page"}, Goto(r, pc)
      PROVE  RequestsNext
  <2> DEFINE q == [req[r] EXCEPT !.pc = pc]
  <2>1. q \in Request /\ q.pc = pc /\ q.inst = req[r].inst /\ q.code = req[r].code
    BY <1>1 DEF Request
  <2>2. Moves(r, q)
    BY <1>2, GotoMoves
  <2> HIDE DEF q
  <2>3. RequestOK(q, Lengths')
    BY <1>1, <2>1 DEF RequestOK
  <2> QED BY <2>1, <2>2, <2>3, RequestMoves
<1>3. ASSUME NEW n \in Statuses, Answer(r, n) PROVE RequestsNext
  <2> DEFINE q == [req[r] EXCEPT !.pc = "done", !.answer = n]
  <2>1. q \in Request /\ q.pc = "done" /\ q.inst = req[r].inst /\ q.code = req[r].code
    BY <1>1 DEF Request
  <2>2. Moves(r, q)
    BY <1>3, GotoMoves
  <2> HIDE DEF q
  <2>3. RequestOK(q, Lengths')
    BY <1>1, <2>1 DEF RequestOK
  <2> QED BY <2>1, <2>2, <2>3, RequestMoves
<1> QED BY <1>2, <1>3

(* What TakeResult takes is what a load came to. *)
LEMMA ResultFacts ==
  ASSUME IInv, NEW r \in Reqs, thread[r].pc = "return"
  PROVE  /\ thread[r].result \in 0..MaxRows \cup {Raised}
         /\ call[thread[r].call].result = thread[r].result
         /\ req[r].pc = "result"
BY DEF IInv, FlightInv, FP!ResultInv, FP!Results, InFlight

(* A request that looks up a target goes on with it. *)
LEMMA RequestTarget ==
  ASSUME IInv, [Next]_vars, NEW r \in Reqs, req[r].pc \notin {"idle", "done"},
         NEW pc \in {"show", "flight"}, NEW n \in 0..MaxRows,
         req' = [req EXCEPT ![r].pc = pc, ![r].target = n]
  PROVE  RequestsNext
<1>1. req[r] \in Request /\ req[r].inst \in Instances /\ req[r].code \in Codes
  BY DEF IInv, Typed, RequestsOK
<1> DEFINE q == [req[r] EXCEPT !.pc = pc, !.target = n]
<1>2. q \in Request /\ q.pc = pc /\ q.inst = req[r].inst /\ q.code = req[r].code
  BY <1>1 DEF Request
<1>3. Moves(r, q)
  BY DEF Moves
<1> HIDE DEF q
<1>4. RequestOK(q, Lengths')
  BY <1>1, <1>2 DEF RequestOK
<1> QED BY <1>2, <1>3, <1>4, RequestMoves

(* A row that is there and has not expired is the last one of its code. *)
LEMMA LiveRow ==
  ASSUME IInv, NEW c \in Codes, NEW at, Live(c, at)
  PROVE  links[c] \in 1..Len(rows[c]) /\ links[c] \in 1..MaxRows /\ ~Expired(rows[c][links[c]].expires, at)
<1>1. links[c] # 0 /\ links[c] \in 0..MaxRows /\ links[c] = Len(rows[c]) /\ Len(rows[c]) <= MaxRows
  BY DEF IInv, Typed, TableOK, Live, Free, NoLink
<1>2. links[c] \in 1..MaxRows
  BY <1>1, LinkBoundsAssumption
<1> QED BY <1>1, <1>2 DEF Live

LEMMA RequestStepTyped ==
  ASSUME IInv, [Next]_vars, NEW r \in Reqs, RequestStep(r)
  PROVE  RequestsNext
<1>0. req[r] \in Request
  BY DEF IInv, Typed
<1>1. CASE FlagLink(r) \/ CheckTakedown(r) \/ CheckInterstitial(r) \/ ReadInterstitial(r)
  <2>1. req[r].pc \notin {"idle", "done"}
    BY <1>1 DEF FlagLink, CheckTakedown, CheckInterstitial, ReadInterstitial
  <2>2. \/ \E pc \in {"get", "load", "select", "result", "page"} : Goto(r, pc)
        \/ \E n \in Statuses : Answer(r, n)
    BY <1>1 DEF FlagLink, CheckTakedown, CheckInterstitial, ReadInterstitial, Statuses
  <2> QED BY <2>1, <2>2, RequestGoto
<1>2. CASE CacheGet(r)
  <2>1. PICK pc \in {"show", "flight"}, n \in 0..MaxRows :
          req' = [req EXCEPT ![r].pc = pc, ![r].target = n]
    <3>1. CASE InCache(r)
      <4>1. FromCache(r) \in 0..MaxRows
        BY <1>2, <3>1, InCacheProperties DEF CacheGet
      <4> QED BY <1>2, <3>1, <4>1 DEF CacheGet
    <3>2. CASE ~InCache(r)
      <4>1. NoLink \in 0..MaxRows
        BY LinkBoundsAssumption DEF NoLink
      <4> QED BY <1>2, <3>2, <4>1 DEF CacheGet
    <3> QED BY <3>1, <3>2
  <2>2. req[r].pc \notin {"idle", "done"}
    BY <1>2 DEF CacheGet
  <2> QED BY <2>1, <2>2, RequestTarget
<1>3. CASE EnterFlight(r)
  <2>1. Key(r) \in Instances \X Codes /\ req[r].inst \in Instances /\ req[r].code \in Codes
    BY <1>3 DEF EnterFlight, IInv, RequestsOK, Key
  <2>2. CASE Goto(r, "load")
    BY <1>3, <2>2, RequestGoto DEF EnterFlight
  <2>3. CASE ~Goto(r, "load")
    <3> DEFINE l == Leader(Key(r))
               q == [req[r] EXCEPT !.pc = "result", !.had = req[l].had, !.asof = req[l].asof]
    <3>1. Flight!Join(r, Key(r)) /\ Moves(r, q)
      BY <1>3, <2>3 DEF EnterFlight, Moves
    <3>2. l \in Reqs
      BY <2>1, <3>1, LeaderProperties DEF Flight!Join
    <3>3. req[l].had \in 0..MaxRows /\ req[l].asof \in Nat
      BY <3>2 DEF IInv, Typed, Request
    <3> HIDE DEF l
    <3>4. q \in Request /\ q.pc = "result" /\ q.inst = req[r].inst /\ q.code = req[r].code
      BY <1>0, <3>3 DEF Request
    <3> HIDE DEF q
    <3>5. RequestOK(q, Lengths')
      BY <2>1, <3>4 DEF RequestOK
    <3> QED BY <3>1, <3>4, <3>5, RequestMoves
  <2> QED BY <2>2, <2>3
<1>4. CASE LoadGet(r) \/ LoadSelectFails(r) \/ LoadPut(r)
  <2>1. req[r].pc \notin {"idle", "done"} /\ (Goto(r, "select") \/ Goto(r, "result"))
    BY <1>4 DEF LoadGet, LoadSelectFails, LoadPut
  <2> QED BY <2>1, RequestGoto
<1>5. CASE LoadSelect(r)
  <2>1. CASE Live(req[r].code, req[r].now)
    <3> DEFINE q == [req[r] EXCEPT !.pc = "put", !.target = links[req[r].code]]
    <3>1. Moves(r, q) /\ rows' = rows
      BY <1>5, <2>1 DEF LoadSelect, Moves
    <3>2. req[r].inst \in Instances /\ req[r].code \in Codes
      BY <1>5 DEF LoadSelect, IInv, RequestsOK
    <3>3. links[req[r].code] \in 1..Len(rows[req[r].code]) /\ links[req[r].code] \in 0..MaxRows
      BY <2>1, <3>2, LiveRow DEF IInv, Typed
    <3>4. /\ q \in Request /\ q.pc = "put" /\ q.inst = req[r].inst /\ q.code = req[r].code
          /\ q.target = links[req[r].code]
      BY <1>0, <3>3 DEF Request
    <3> HIDE DEF q
    <3>5. RequestOK(q, Lengths')
      BY <3>1, <3>2, <3>3, <3>4 DEF RequestOK, Lengths
    <3> QED BY <3>1, <3>4, <3>5, RequestMoves
  <2>2. CASE ~Live(req[r].code, req[r].now)
    BY <1>5, <2>2, RequestGoto DEF LoadSelect
  <2> QED BY <2>1, <2>2
<1>6. CASE FlightStep(r)
  BY <1>6, TableStep DEF FlightStep, TableNext, TableTyped, RowsKeep, RequestsNext, RequestsOK, IInv, Typed
<1>7. CASE TakeResult(r)
  <2>1. thread[r].pc = "return"
    BY <1>7 DEF TakeResult, Flight!Leave
  <2>2. req[r].pc = "result" /\ thread[r].result \in 0..MaxRows \cup {Raised}
    BY <2>1, ResultFacts
  <2>3. CASE Answer(r, 404) \/ Answer(r, 500)
    BY <2>2, <2>3, RequestGoto DEF Statuses
  <2>4. CASE thread[r].result # Raised /\ req' = [req EXCEPT ![r].pc = "show", ![r].target = thread[r].result]
    BY <2>2, <2>4, RequestTarget
  <2> QED BY <1>7, <2>3, <2>4 DEF TakeResult
<1> QED BY <1>1, <1>2, <1>3, <1>4, <1>5, <1>6, <1>7 DEF RequestStep

LEMMA StartTyped ==
  ASSUME IInv, [Next]_vars, NEW r \in Reqs, NEW i \in Instances, NEW c \in Codes, StartResolve(r, i, c)
  PROVE  RequestsNext
<1> DEFINE had == IF Live(c, now) THEN links[c] ELSE NoLink
           q == [NoReq EXCEPT !.pc = "check", !.inst = i, !.code = c, !.now = now, !.asof = now,
                              !.had = had, !.facts = Facts(i, c)]
<1>1. had \in 0..MaxRows
  <2>1. NoLink \in 0..MaxRows
    BY LinkBoundsAssumption DEF NoLink
  <2>2. Live(c, now) => links[c] \in 0..MaxRows
    BY DEF IInv, Typed
  <2> QED BY <2>1, <2>2
<1>2. Facts(i, c) \subseteq {"withdrawn", "applied", "suspect"}
  BY DEF Facts
<1>3. now \in Nat
  BY LinkBoundsAssumption DEF IInv, Typed
<1>4. Moves(r, q)
  BY DEF StartResolve, Moves
<1> HIDE DEF had
<1>5. NoReq.target \in 0..MaxRows /\ NoReq.answer \in Statuses
  BY LinkBoundsAssumption DEF NoReq, NoLink, Statuses
<1>6. q \in Request /\ q.pc = "check" /\ q.inst = i /\ q.code = c
  BY <1>1, <1>2, <1>3, <1>5 DEF Request, NoReq
<1> HIDE DEF q
<1>7. RequestOK(q, Lengths')
  BY <1>6 DEF RequestOK
<1> QED BY <1>4, <1>6, <1>7, RequestMoves

LEMMA InsertTyped ==
  ASSUME IInv, [Next]_vars, NEW r \in Reqs, NEW i \in Instances, NEW c \in Codes,
         NEW host \in Hosts, NEW ttl \in Lifetimes, InsertLink(r, i, c, host, ttl)
  PROVE  RequestsNext
<1> DEFINE q == [NoReq EXCEPT !.pc = "flag", !.inst = i, !.code = c, !.target = links'[c]]
           n == Len(rows'[c])
<1>1. rows' \in [Codes -> Seq(Row)] /\ links' \in [Codes -> 0..MaxRows] /\ Len(rows'[c]) <= MaxRows
  BY TableStep DEF TableNext, TableTyped, TableOK
<1>2. links'[c] = n
  BY DEF InsertLink, IInv, Typed
<1>3. n \in Nat /\ n >= 1
  <2>0. TableTyped
    BY DEF IInv, Typed, TableTyped
  <2>1. \E row : rows' = [rows EXCEPT ![c] = Append(@, row)]
    BY DEF InsertLink
  <2>2. rows[c] \in Seq(Row) /\ Len(rows[c]) \in Nat
    BY <2>0, RowFacts
  <2>3. PICK row : rows'[c] = Append(rows[c], row)
    BY <2>1 DEF IInv, Typed
  <2> QED BY <2>2, <2>3
<1>4. links'[c] \in 1..n /\ links'[c] \in 0..MaxRows
  BY <1>1, <1>2, <1>3
<1>5. Moves(r, q)
  BY DEF InsertLink, Moves
<1>6. NoReq.had \in 0..MaxRows /\ NoReq.answer \in Statuses
  BY LinkBoundsAssumption DEF NoReq, NoLink, Statuses
<1>7. q \in Request /\ q.pc = "flag" /\ q.inst = i /\ q.code = c /\ q.target = links'[c]
  BY <1>4, <1>6 DEF Request, NoReq
<1>8. Lengths'[c] = n
  BY DEF Lengths
<1> HIDE DEF q, n
<1>9. RequestOK(q, Lengths')
  BY <1>4, <1>7, <1>8 DEF RequestOK
<1> QED BY <1>5, <1>7, <1>9, RequestMoves

LEMMA NoReqTyped ==
  /\ NoReq \in Request /\ NoReq.pc = "idle" /\ NoReq.answer = 0
  /\ \A i \in Instances, a \in {422, 500} : Rejected(i, a) \in Request
  /\ \A l : RequestOK(NoReq, l) /\ \A i \in Instances, a \in {422, 500} : RequestOK(Rejected(i, a), l)
<1>1. NoLink \in 0..MaxRows /\ 0 \in Nat
  BY LinkBoundsAssumption DEF NoLink
<1>2. NoReq \in Request /\ NoReq.pc = "idle" /\ NoReq.answer = 0
  BY <1>1 DEF NoReq, Request, Statuses
<1>3. ASSUME NEW i \in Instances, NEW a \in {422, 500}
      PROVE  Rejected(i, a) \in Request /\ Rejected(i, a).pc = "done" /\ Rejected(i, a).answer = a
  BY <1>1, ZenonT(60) DEF Rejected, NoReq, Request, Statuses
<1> QED BY <1>2, <1>3 DEF RequestOK

(* Only the answers and the ends of the rows of a code are looked at. *)
LEMMA RequestsStay ==
  ASSUME IInv, [Next]_vars, req' \in [Reqs -> Request],
         \A r \in Reqs : req'[r] = req[r] \/ req'[r] = NoReq
  PROVE  RequestsNext
<1>1. \A c \in Codes : Len(rows[c]) \in Nat /\ Len(rows'[c]) \in Nat /\ Len(rows[c]) <= Len(rows'[c])
  BY TableStep DEF TableNext, TableTyped, RowsKeep, IInv, Typed
<1>2. ASSUME NEW r \in Reqs
      PROVE  /\ (req'[r].pc \notin {"idle", "done"} \/ req'[r].answer \notin {0, 422, 500})
                    => req'[r].inst \in Instances /\ req'[r].code \in Codes
             /\ req'[r].pc \in {"flag", "put"} => req'[r].target \in 1..Len(rows'[req'[r].code])
  <2>1. CASE req'[r] = NoReq
    BY <2>1, NoReqTyped
  <2>2. CASE req'[r] = req[r]
    <3>1. /\ (req[r].pc \notin {"idle", "done"} \/ req[r].answer \notin {0, 422, 500})
               => req[r].inst \in Instances /\ req[r].code \in Codes
          /\ req[r].pc \in {"flag", "put"} => req[r].target \in 1..Len(rows[req[r].code])
      BY DEF IInv, RequestsOK
    <3> QED BY <1>1, <2>2, <3>1
  <2> QED BY <2>1, <2>2
<1> QED BY <1>2 DEF RequestsNext, RequestsOK

LEMMA RequestsTyped ==
  ASSUME IInv, [Next]_vars
  PROVE  RequestsNext
<1>0. req \in [Reqs -> Request] /\ NoReq \in Request
  BY NoReqTyped DEF IInv, Typed
<1>1. ASSUME NEW r \in Reqs, Turn(r) PROVE RequestsNext
  <2>1. CASE EndRequest(r)
    <3>1. Moves(r, NoReq)
      BY <2>1 DEF EndRequest, Moves
    <3> QED BY <3>1, NoReqTyped, RequestMoves
  <2>2. ASSUME NEW i \in Instances, NEW host \in Hosts, RejectLink(r, i, host) PROVE RequestsNext
    <3>1. \E a \in {422, 500} : Moves(r, Rejected(i, a))
      BY <2>2 DEF RejectLink, Moves, Rejected
    <3> QED BY <3>1, NoReqTyped, RequestMoves
  <2> QED BY <1>1, <2>1, <2>2, StartTyped, InsertTyped DEF Turn
<1>2. ASSUME UNCHANGED req PROVE RequestsNext
  BY <1>0, <1>2, RequestsStay
<1>3. ASSUME NEW i \in Instances, Restart(i) PROVE RequestsNext
  <2>1. req' = [r \in Reqs |-> IF req[r].inst = i THEN NoReq ELSE req[r]]
    BY <1>3 DEF Restart
  <2> QED BY <1>0, <2>1, RequestsStay
<1>4. UNCHANGED vars => UNCHANGED req
  BY DEF vars
<1>5. Background => UNCHANGED req
  BY BackgroundQuiet
<1> QED BY <1>1, <1>2, <1>3, <1>4, <1>5, StepCases, RequestStepTyped

-----------------------------------------------------------------------------
(* The takedown lists and the interstitials. *)
LEMMA MemoryTyped ==
  ASSUME IInv, [Next]_vars
  PROVE  marks' \in [Instances -> SUBSET Codes] /\ interstitials' \in [Instances -> SUBSET Codes]
<1>0. marks \in [Instances -> SUBSET Codes] /\ interstitials \in [Instances -> SUBSET Codes]
  BY DEF IInv, Typed
<1>1. ASSUME NEW r \in Reqs, RequestStep(r) PROVE UNCHANGED marks /\ (UNCHANGED interstitials \/ FlagLink(r))
  BY <1>1 DEF RequestStep, FlagLink, CheckTakedown, CacheGet, EnterFlight, LoadGet, LoadSelect,
       LoadSelectFails, LoadPut, FlightStep, TakeResult, CheckInterstitial, ReadInterstitial
<1>2. ASSUME NEW r \in Reqs, FlagLink(r) PROVE interstitials' \in [Instances -> SUBSET Codes]
  <2>1. req[r].inst \in Instances /\ req[r].code \in Codes
    BY <1>2 DEF FlagLink, IInv, RequestsOK
  <2> QED BY <1>0, <1>2, <2>1 DEF FlagLink
<1>3. ASSUME NEW r \in Reqs, Turn(r) PROVE UNCHANGED <<marks, interstitials>>
  BY <1>3 DEF Turn, EndRequest, StartResolve, InsertLink, RejectLink
<1>4. ASSUME NEW i \in Instances, Restart(i)
      PROVE marks' \in [Instances -> SUBSET Codes] /\ interstitials' \in [Instances -> SUBSET Codes]
  BY <1>0, <1>4 DEF Restart
<1>5. ASSUME NEW i \in Instances, NEW w \in Bus!Workers, NEW c \in Codes, MarkWithdrawn(i, w, c)
      PROVE marks' \in [Instances -> SUBSET Codes] /\ UNCHANGED interstitials
  BY <1>0, <1>5 DEF MarkWithdrawn
<1>6. ASSUME NEW i \in Instances, NEW w \in Bus!Workers, BeginPoll(i, w)
      PROVE UNCHANGED marks /\ interstitials' \in [Instances -> SUBSET Codes]
  BY <1>0, <1>6 DEF BeginPoll
<1>7. ASSUME NEW i \in Instances, NEW w \in Bus!Workers,
             PurgeLocal(i, w) \/ PublishRow(i, w) \/ ContinuePoll(i, w) \/ ApplyRow(i, w)
      PROVE UNCHANGED <<marks, interstitials>>
  BY <1>7 DEF PurgeLocal, PublishRow, ContinuePoll, ApplyRow
<1>8. ASSUME NEW i \in Instances, FlushCache(i) PROVE UNCHANGED <<marks, interstitials>>
  BY <1>8 DEF FlushCache
<1>9. PurgeExpired \/ Tick => UNCHANGED <<marks, interstitials>>
  BY DEF PurgeExpired, Tick
<1>10. Background => marks' \in [Instances -> SUBSET Codes] /\ interstitials' \in [Instances -> SUBSET Codes]
  BY <1>0, <1>5, <1>6, <1>7, <1>8, <1>9 DEF Background
<1>11. UNCHANGED vars => UNCHANGED <<marks, interstitials>>
  BY DEF vars
<1> QED BY <1>0, <1>1, <1>2, <1>3, <1>4, <1>10, <1>11, StepCases

LEMMA TypedNext ==
  ASSUME IInv, [Next]_vars
  PROVE  Typed' /\ CachesOK' /\ TableOK' /\ RequestsOK'
BY TableStep, CachesNext, RequestsTyped, MemoryTyped DEF TableNext, TableTyped, RequestsNext, Typed

-----------------------------------------------------------------------------
(* The service implements Invalidation: a cache is seen as the stamps of   *)
(* its entries.                                                            *)
Stamp(cache, c) == IF Cached(cache, c) THEN EntryOf(cache, c).value.stamp ELSE -1

StampsOf(cache) == [c \in Codes |-> Stamp(cache, c)]

LEMMA ViewOf == CacheView = [i \in Instances |-> StampsOf(lru[i])]
BY DEF CacheView, StampsOf, Stamp

LEMMA ViewStays == ASSUME lru' = lru PROVE CacheView' = CacheView
BY DEF CacheView

LEMMA ViewBecomes ==
  ASSUME IInv, NEW i \in Instances, NEW new, Becomes(i, new)
  PROVE  CacheView' = [CacheView EXCEPT ![i] = StampsOf(new)]
<1>1. lru' = [lru EXCEPT ![i] = new] /\ lru = [j \in Instances |-> lru[j]]
  BY DEF Becomes, IInv, Typed
<1>2. CacheView' = [j \in Instances |-> StampsOf(lru'[j])]
  BY DEF CacheView, StampsOf, Stamp
<1>3. \A j \in Instances : lru'[j] = IF j = i THEN new ELSE lru[j]
  BY <1>1
<1> QED BY <1>2, <1>3, ViewOf

LEMMA SameStamp ==
  ASSUME NEW new, NEW old, NEW c, Entries(new, c) = Entries(old, c)
  PROVE  Stamp(new, c) = Stamp(old, c)
<1> DEFINE S == Entries(new, c)
<1>1. Stamp(new, c) = IF S # {} THEN (CHOOSE e \in S : TRUE).value.stamp ELSE -1
  BY DEF Stamp, Cached, EntryOf
<1>2. Stamp(old, c) = IF S # {} THEN (CHOOSE e \in S : TRUE).value.stamp ELSE -1
  BY DEF Stamp, Cached, EntryOf
<1> QED BY <1>1, <1>2

(* What is left of a cache keeps its stamps. *)
LEMMA ShrunkStamp ==
  ASSUME NEW new, NEW old, CacheTyped(new), CacheTyped(old), NEW c, Entries(new, c) \subseteq Entries(old, c)
  PROVE  Stamp(new, c) = IF Cached(new, c) THEN Stamp(old, c) ELSE -1
<1>1. CASE Cached(new, c)
  <2>1. Cached(old, c)
    BY <1>1 DEF Cached
  <2>2. Entries(new, c) = {EntryOf(new, c)} /\ Entries(old, c) = {EntryOf(old, c)}
    BY <1>1, <2>1, EntriesIn DEF CacheTyped
  <2>3. Entries(new, c) = Entries(old, c)
    BY <2>2
  <2> QED BY <1>1, <2>3, SameStamp
<1>2. CASE ~Cached(new, c)
  BY <1>2 DEF Stamp
<1> QED BY <1>1, <1>2

LEMMA DropView ==
  ASSUME IInv, NEW i \in Instances, NEW new, Becomes(i, new), Shrinks(new, lru[i])
  PROVE  CacheView' = [CacheView EXCEPT ![i] =
                         [d \in Codes |-> IF d \in {c \in Codes : ~Cached(new, c)} THEN -1 ELSE @[d]]]
<1>1. ASSUME NEW c \in Codes PROVE Stamp(new, c) = IF ~Cached(new, c) THEN -1 ELSE Stamp(lru[i], c)
  <2>1. Entries(new, c) \subseteq Entries(lru[i], c) /\ CacheTyped(new) /\ CacheTyped(lru[i])
    BY CacheFacts DEF Shrinks, Becomes
  <2> QED BY <2>1, ShrunkStamp
<1>2. CacheView[i] = StampsOf(lru[i])
  BY ViewOf
<1>3. StampsOf(new) =
        [d \in Codes |-> IF d \in {c \in Codes : ~Cached(new, c)} THEN -1 ELSE CacheView[i][d]]
  BY <1>1, <1>2 DEF StampsOf
<1> QED BY <1>3, ViewBecomes

LEMMA EvictView ==
  ASSUME IInv, NEW i \in Instances, NEW c \in Codes, lru' = [lru EXCEPT ![i] = AfterInvalidate(@, c)]
  PROVE  CacheView' = [CacheView EXCEPT ![i][c] = -1]
<1>1. PICK new : Becomes(i, new) /\ ~Cached(new, c) /\ SameBut(c, new, lru[i])
  BY InvalidateEvicts
<1>2. Stamp(new, c) = -1
  BY <1>1 DEF Stamp
<1>3. \A d : d # c => Stamp(new, d) = Stamp(lru[i], d)
  BY <1>1, SameStamp DEF SameBut
<1>4. CacheView[i] = StampsOf(lru[i])
  BY ViewOf
<1>5. StampsOf(new) = [CacheView[i] EXCEPT ![c] = -1]
  BY <1>2, <1>3, <1>4 DEF StampsOf
<1> QED BY <1>1, <1>5, ViewBecomes

LEMMA PutView ==
  ASSUME IInv, NEW r \in Reqs, LoadPut(r)
  PROVE  \E evicted \in SUBSET Codes :
           CacheView' = [CacheView EXCEPT ![req[r].inst] =
             [d \in Codes |-> IF d = req[r].code THEN Len(log) ELSE IF d \in evicted THEN -1 ELSE @[d]]]
<1> DEFINE i == req[r].inst
           c == req[r].code
<1>1. i \in Instances /\ c \in Codes
  BY PutEntryType DEF LoadPut
<1>2. PICK new : /\ Becomes(i, new) /\ Entries(new, c) = {PutEntry(r)}
                 /\ \A k : k # c => Entries(new, k) \subseteq Entries(lru[i], k)
  BY PutReplaces
<1> DEFINE evicted == {d \in Codes : ~Cached(new, d)}
<1>3. Stamp(new, c) = Len(log)
  <2>1. Cached(new, c) /\ EntryOf(new, c) = PutEntry(r)
    BY <1>2 DEF Cached, EntryOf
  <2>2. PutEntry(r).value.stamp = Len(log)
    BY DEF PutEntry, Entry, Loaded
  <2> QED BY <2>1, <2>2 DEF Stamp
<1> HIDE DEF i, c
<1>4. ASSUME NEW d \in Codes, d # c PROVE Stamp(new, d) = IF d \in evicted THEN -1 ELSE Stamp(lru[i], d)
  <2>1. CacheTyped(new) /\ CacheTyped(lru[i])
    BY <1>1, <1>2, CacheFacts DEF Becomes
  <2> QED BY <1>2, <1>4, <2>1, ShrunkStamp
<1>5. CacheView[i] = StampsOf(lru[i])
  BY <1>1, ViewOf
<1> HIDE DEF evicted
<1>6. StampsOf(new) =
        [d \in Codes |-> IF d = c THEN Len(log) ELSE IF d \in evicted THEN -1 ELSE CacheView[i][d]]
  BY <1>3, <1>4, <1>5 DEF StampsOf
<1>7. CacheView' = [CacheView EXCEPT ![i] =
        [d \in Codes |-> IF d = c THEN Len(log) ELSE IF d \in evicted THEN -1 ELSE @[d]]]
  BY <1>1, <1>2, <1>6, ViewBecomes
<1>8. evicted \in SUBSET Codes
  BY DEF evicted
<1> QED BY <1>7, <1>8 DEF i, c

(* Invalidation and Invalidation_proofs are instantiated alike. *)
LEMMA SameBus ==
  /\ Bus!Init = BP!Init /\ Bus!vars = BP!vars /\ Bus!Workers = BP!Workers
  /\ \A i \in Instances : \A w \in Bus!Workers :
       /\ Bus!ReadCursor(i, w) = BP!ReadCursor(i, w)
       /\ Bus!SelectRows(i, w) = BP!SelectRows(i, w)
       /\ Bus!SelectFails(i, w) = BP!SelectFails(i, w)
       /\ Bus!ApplyRow(i, w) = BP!ApplyRow(i, w)
       /\ Bus!Advance(i, w) = BP!Advance(i, w)
       /\ Bus!Purge(i, w) = BP!Purge(i, w)
       /\ Bus!Publish(i, w) = BP!Publish(i, w)
       /\ Bus!PublishFails(i, w) = BP!PublishFails(i, w)
       /\ Bus!Reply(i, w) = BP!Reply(i, w)
       /\ \A c \in Codes : Bus!StartTakedown(i, w, c) = BP!StartTakedown(i, w, c)
  /\ \A i \in Instances : \A S \in SUBSET Codes : Bus!Drop(i, S) = BP!Drop(i, S)
  /\ \A i \in Instances : \A S \in SUBSET Codes : \A c \in Codes : Bus!Put(i, c, S) = BP!Put(i, c, S)
  /\ \A i \in Instances : Bus!Restart(i) = BP!Restart(i)
<1> USE DEF Bus!Workers, BP!Workers, Bus!At, BP!At, Bus!Set, BP!Set, Bus!Goto, BP!Goto, Bus!Evict, BP!Evict,
       Bus!Idle, BP!Idle, Bus!Absent, BP!Absent, Bus!Finished, BP!Finished
<1>1. Bus!Init = BP!Init /\ Bus!vars = BP!vars /\ Bus!Workers = BP!Workers
  BY DEF Bus!Init, BP!Init, Bus!vars, BP!vars
<1>2. ASSUME NEW i \in Instances, NEW w \in Bus!Workers
      PROVE /\ Bus!ReadCursor(i, w) = BP!ReadCursor(i, w)
            /\ Bus!SelectRows(i, w) = BP!SelectRows(i, w)
            /\ Bus!SelectFails(i, w) = BP!SelectFails(i, w)
            /\ Bus!Advance(i, w) = BP!Advance(i, w)
  BY DEF Bus!ReadCursor, BP!ReadCursor, Bus!SelectRows, BP!SelectRows, Bus!SelectFails, BP!SelectFails,
     Bus!Advance, BP!Advance
<1>3. ASSUME NEW i \in Instances, NEW w \in Bus!Workers
      PROVE /\ Bus!ApplyRow(i, w) = BP!ApplyRow(i, w)
            /\ Bus!Purge(i, w) = BP!Purge(i, w)
            /\ Bus!Publish(i, w) = BP!Publish(i, w)
            /\ Bus!PublishFails(i, w) = BP!PublishFails(i, w)
            /\ Bus!Reply(i, w) = BP!Reply(i, w)
            /\ \A c \in Codes : Bus!StartTakedown(i, w, c) = BP!StartTakedown(i, w, c)
  BY DEF Bus!ApplyRow, BP!ApplyRow, Bus!NextRow, BP!NextRow, Bus!Purge, BP!Purge, Bus!Publish, BP!Publish,
     Bus!PublishFails, BP!PublishFails, Bus!Reply, BP!Reply, Bus!StartTakedown, BP!StartTakedown
<1>4. \A i \in Instances : \A S \in SUBSET Codes : 
         Bus!Drop(i, S) = BP!Drop(i, S) /\ \A c \in Codes : Bus!Put(i, c, S) = BP!Put(i, c, S)
  BY DEF Bus!Drop, BP!Drop, Bus!Put, BP!Put
<1>5. \A i \in Instances : Bus!Restart(i) = BP!Restart(i)
  BY DEF Bus!Restart, BP!Restart, Bus!Reborn, BP!Reborn
<1> QED BY <1>1, <1>2, <1>3, <1>4, <1>5

BusNext == [Bus!Next]_(Bus!vars)

LEMMA BusQuiet == ASSUME UNCHANGED <<busVars, lru>> PROVE BusNext
BY ViewStays DEF BusNext, busVars, Bus!vars

(* The steps of Invalidation that one step of the service can be. *)
LEMMA BusWorker ==
  ASSUME NEW i \in Instances, NEW w \in Bus!Workers,
         \/ Bus!ReadCursor(i, w) \/ Bus!SelectRows(i, w) \/ Bus!SelectFails(i, w)
         \/ Bus!ApplyRow(i, w) \/ Bus!Advance(i, w)
         \/ (\E c \in Codes : Bus!StartTakedown(i, w, c))
         \/ Bus!Purge(i, w) \/ Bus!Publish(i, w) \/ Bus!PublishFails(i, w) \/ Bus!Reply(i, w)
  PROVE  BusNext
BY Zenon DEF BusNext, Bus!Next, Bus!PollStep, Bus!TakedownStep

LEMMA BusCache ==
  ASSUME NEW i \in Instances,
         \/ \E S \in SUBSET Codes : Bus!Drop(i, S)
         \/ \E c \in Codes, S \in SUBSET Codes : Bus!Put(i, c, S)
         \/ Bus!Restart(i)
  PROVE  BusNext
BY Zenon DEF BusNext, Bus!Next

LEMMA BusShrinks ==
  ASSUME IInv, NEW i \in Instances, NEW new, Becomes(i, new), Shrinks(new, lru[i]), UNCHANGED busVars
  PROVE  BusNext
<1> DEFINE S == {c \in Codes : ~Cached(new, c)}
<1>1. CacheView' = [CacheView EXCEPT ![i] = [d \in Codes |-> IF d \in S THEN -1 ELSE @[d]]]
  BY DropView
<1>2. S \in SUBSET Codes
  OBVIOUS
<1> HIDE DEF S
<1>3. Bus!Drop(i, S)
  BY <1>1 DEF Bus!Drop, Bus!Absent, busVars
<1> QED BY <1>2, <1>3, BusCache

(* The code of a row that the log has, or of a takedown under way. *)
LEMMA BusCodes ==
  ASSUME IInv, NEW i \in Instances, NEW w \in Bus!Workers
  PROVE  /\ Bus!At(i, w, "purge") => poll[i][w].code \in Codes
         /\ log \in Seq(Codes) /\ Len(log) \in Nat
<1>1. BP!Workers = Bus!Workers
  BY SameBus
<1> QED BY <1>1 DEF IInv, BusInv, BP!IInv, BP!TypeOK, BP!CodeInv, Bus!At

LEMMA BusRequest ==
  ASSUME IInv, NEW r \in Reqs, RequestStep(r)
  PROVE  BusNext
<1>1. CASE CacheGet(r) \/ LoadGet(r)
  <2>1. req[r].pc \in {"get", "load"} /\ CacheGetOf(r) /\ UNCHANGED busVars
    BY <1>1 DEF CacheGet, LoadGet
  <2>2. req[r].inst \in Instances
    BY <2>1 DEF IInv, RequestsOK
  <2> QED BY <2>1, <2>2, GetShrinks, BusShrinks
<1>2. CASE LoadPut(r)
  <2> DEFINE i == req[r].inst
             c == req[r].code
  <2>1. PICK S \in SUBSET Codes :
          CacheView' = [CacheView EXCEPT ![i] =
             [d \in Codes |-> IF d = c THEN Len(log) ELSE IF d \in S THEN -1 ELSE @[d]]]
    BY <1>2, PutView
  <2>2. i \in Instances /\ c \in Codes
    BY <1>2, PutEntryType DEF LoadPut
  <2>3. UNCHANGED busVars
    BY <1>2 DEF LoadPut
  <2> HIDE DEF i, c
  <2>4. Bus!Put(i, c, S)
    BY <2>1, <2>3 DEF Bus!Put, Bus!Absent, busVars
  <2> QED BY <2>2, <2>4, BusCache
<1>3. CASE ~(CacheGet(r) \/ LoadGet(r) \/ LoadPut(r))
  <2>1. UNCHANGED <<busVars, lru>>
    BY <1>3 DEF RequestStep, FlagLink, CheckTakedown, EnterFlight, LoadSelect,
         LoadSelectFails, FlightStep, TakeResult, CheckInterstitial, ReadInterstitial
  <2> QED BY <2>1, BusQuiet
<1> QED BY <1>1, <1>2, <1>3

LEMMA ApplyInLog ==
  ASSUME IInv, NEW i \in Instances, NEW w \in Bus!Workers, ApplyRow(i, w)
  PROVE  poll[i][w].next \in 1..Len(log)
<1> DEFINE p == poll[i][w]
<1>1. w \in BP!Workers
  BY SameBus
<1>2. p \in BP!PollState /\ BP!ThreadInv(i, w, p)
  BY <1>1 DEF IInv, BusInv, BP!IInv, BP!TypeOK, BP!PollInv
<1>3. p.pc = "apply"
  BY DEF ApplyRow, Bus!NextRow, Bus!At
<1>4. BP!SettledUpTo(i, p.next - 1) /\ p.next <= p.last /\ p.last <= Len(log)
  BY <1>2, <1>3 DEF BP!ThreadInv
<1>5. p.next \in Nat /\ p.last \in Nat /\ Len(log) \in Nat
  BY <1>2, BusCodes DEF BP!PollState
<1> QED BY <1>4, <1>5 DEF BP!SettledUpTo

(* The purge of a takedown, and a row that bus.poll applies. *)
LEMMA BusEvict ==
  ASSUME IInv, NEW i \in Instances, NEW w \in Bus!Workers, PurgeLocal(i, w) \/ ApplyRow(i, w)
  PROVE  BusNext
<1>1. CASE PurgeLocal(i, w)
  <2>1. poll[i][w].code \in Codes
    BY <1>1, BusCodes DEF PurgeLocal
  <2>2. lru' = [lru EXCEPT ![i] = AfterInvalidate(@, poll[i][w].code)]
    BY <1>1 DEF PurgeLocal
  <2>3. CacheView' = [CacheView EXCEPT ![i][poll[i][w].code] = -1]
    BY <2>1, <2>2, EvictView
  <2>4. Bus!Purge(i, w)
    BY <1>1, <2>3 DEF PurgeLocal, Bus!Purge, Bus!Evict, Bus!Absent
  <2> QED BY <2>4, BusWorker
<1>2. CASE ApplyRow(i, w)
  <2>1. log[poll[i][w].next] \in Codes
    BY <1>2, ApplyInLog, BusCodes, ElementOfSeq
  <2>2. lru' = [lru EXCEPT ![i] = AfterInvalidate(@, log[poll[i][w].next])]
    BY <1>2 DEF ApplyRow
  <2>3. CacheView' = [CacheView EXCEPT ![i][log[poll[i][w].next]] = -1]
    BY <2>1, <2>2, EvictView
  <2>4. Bus!ApplyRow(i, w)
    BY <1>2, <2>3 DEF ApplyRow, Bus!ApplyRow, Bus!Evict, Bus!Absent
  <2> QED BY <2>4, BusWorker
<1> QED BY <1>1, <1>2

LEMMA BusBackground ==
  ASSUME IInv, Background
  PROVE  BusNext
<1>1. ASSUME NEW i \in Instances, FlushCache(i) PROVE BusNext
  <2>1. Becomes(i, <<>>) /\ Shrinks(<<>>, lru[i]) /\ UNCHANGED busVars
    BY <1>1, EmptyCache DEF FlushCache, Becomes, Shrinks
  <2> QED BY <2>1, BusShrinks
<1>2. ASSUME NEW i \in Instances, NEW w \in Bus!Workers, PurgeLocal(i, w) \/ ApplyRow(i, w) PROVE BusNext
  BY <1>2, BusEvict
<1>3. ASSUME NEW i \in Instances, NEW w \in Bus!Workers, NEW c \in Codes, MarkWithdrawn(i, w, c)
      PROVE BusNext
  <2>1. Bus!StartTakedown(i, w, c)
    BY <1>3 DEF MarkWithdrawn
  <2> QED BY <2>1, BusWorker
<1>4. ASSUME NEW i \in Instances, NEW w \in Bus!Workers, PublishRow(i, w) PROVE BusNext
  <2>1. Bus!Publish(i, w) \/ Bus!PublishFails(i, w)
    BY <1>4 DEF PublishRow
  <2> QED BY <2>1, BusWorker
<1>5. ASSUME NEW i \in Instances, NEW w \in Bus!Workers, BeginPoll(i, w) PROVE BusNext
  <2>1. Bus!ReadCursor(i, w)
    BY <1>5 DEF BeginPoll
  <2> QED BY <2>1, BusWorker
<1>6. ASSUME NEW i \in Instances, NEW w \in Bus!Workers, ContinuePoll(i, w) PROVE BusNext
  <2>1. Bus!SelectRows(i, w) \/ Bus!SelectFails(i, w) \/ Bus!Advance(i, w) \/ Bus!Reply(i, w)
    BY <1>6 DEF ContinuePoll
  <2> QED BY <2>1, BusWorker
<1>7. ASSUME PurgeExpired \/ Tick PROVE BusNext
  BY <1>7, BusQuiet DEF PurgeExpired, Tick
<1> QED BY <1>1, <1>2, <1>3, <1>4, <1>5, <1>6, <1>7 DEF Background

LEMMA BusRestart ==
  ASSUME IInv, NEW i \in Instances, Restart(i)
  PROVE  BusNext
<1>1. Becomes(i, <<>>)
  BY EmptyCache DEF Restart, Becomes
<1>2. StampsOf(<<>>) = [c \in Codes |-> -1]
  BY EmptyCache DEF StampsOf, Stamp, Cached
<1>3. CacheView' = [CacheView EXCEPT ![i] = [c \in Codes |-> -1]]
  BY <1>1, <1>2, ViewBecomes
<1>4. Bus!Restart(i)
  BY <1>3 DEF Restart, Bus!Restart, Bus!Absent
<1> QED BY <1>4, BusCache

LEMMA BusStep ==
  ASSUME IInv, [Next]_vars
  PROVE  BusNext
<1>1. ASSUME NEW r \in Reqs, Turn(r) PROVE UNCHANGED <<busVars, lru>>
  BY <1>1 DEF Turn, EndRequest, StartResolve, InsertLink, RejectLink
<1>2. UNCHANGED vars => UNCHANGED <<busVars, lru>>
  BY DEF vars
<1> QED BY <1>1, <1>2, StepCases, BusQuiet, BusRequest, BusBackground, BusRestart

(* The steps are those of the module with the proofs, too. *)
LEMMA BusNextProved == BusNext => [BP!Next]_(BP!vars)
<1>0. UNCHANGED Bus!vars => UNCHANGED BP!vars
  BY DEF Bus!vars, BP!vars
<1> SUFFICES ASSUME Bus!Next PROVE BP!Next
  BY <1>0 DEF BusNext
<1>1. PICK i \in Instances :
        \/ \E w \in Bus!Workers : Bus!PollStep(i, w) \/ Bus!TakedownStep(i, w)
        \/ \E c \in Codes, S \in SUBSET Codes : Bus!Put(i, c, S)
        \/ \E S \in SUBSET Codes : Bus!Drop(i, S)
        \/ Bus!Restart(i)
  BY Zenon DEF Bus!Next
<1>2. ASSUME NEW w \in Bus!Workers, Bus!PollStep(i, w) \/ Bus!TakedownStep(i, w) PROVE BP!Next
  <2>1. BP!PollStep(i, w) \/ BP!TakedownStep(i, w)
    BY <1>2, SameBus DEF Bus!PollStep, Bus!TakedownStep, BP!PollStep, BP!TakedownStep
  <2>2. w \in BP!Workers
    BY <1>2, SameBus
  <2> QED BY <2>1, <2>2 DEF BP!Next
<1>3. CASE \E c \in Codes, S \in SUBSET Codes : Bus!Put(i, c, S)
  BY <1>3, SameBus DEF BP!Next
<1>4. CASE \E S \in SUBSET Codes : Bus!Drop(i, S)
  BY <1>4, SameBus DEF BP!Next
<1>5. CASE Bus!Restart(i)
  BY <1>5, SameBus DEF BP!Next
<1> QED BY <1>1, <1>2, <1>3, <1>4, <1>5

LEMMA BusInvNext ==
  ASSUME IInv, [Next]_vars
  PROVE  BusInv'
<1>1. [BP!Next]_(BP!vars)
  BY BusStep, BusNextProved
<1>2. BP!IInv
  BY DEF IInv, BusInv
<1>3. Poller \notin Admins /\ MaxSeq \in Nat /\ MaxRestarts \in Nat
  BY BusAssumption
<1> QED BY <1>1, <1>2, <1>3, BP!NextIInv DEF BusInv

LEMMA InitInv == Init => IInv
<1> SUFFICES ASSUME Init PROVE IInv
  OBVIOUS
<1>0. 0 \in 0..MaxRows /\ 0 \in 0..MaxTime
  BY LinkBoundsAssumption
<1>1. Typed
  <2>1. <<>> \in Seq(CacheEntry) /\ <<>> \in Seq(Row)
    BY EmptySeq
  <2> QED BY <1>0, <2>1, NoReqTyped DEF Init, Typed, NoLink
<1>2. CachesOK
  BY EmptyCache DEF Init, CachesOK, CacheTyped
<1>3. TableOK
  BY LinkBoundsAssumption, EmptySeq DEF Init, TableOK, NoLink
<1>4. RequestsOK
  BY NoReqTyped DEF Init, RequestsOK
<1>5. FlightInv
  <2>1. FP!Init
    BY DEF Init, Flight!Init, FP!Init, Flight!InitThread, FP!InitThread, Flight!NewCall, FP!NewCall
  <2>2. FP!IInv
    BY <2>1, FlightConstants, FP!InitIInv
  <2>4. FP!ResultInv
    BY <2>1 DEF FP!Init, FP!InitThread, FP!NewCall, FP!ResultInv
  <2>3. InFlight
    <3>1. \A r \in Reqs : req[r].pc = "idle" /\ thread[r].pc = "out"
      BY NoReqTyped DEF Init, Flight!Init, Flight!InitThread
    <3> QED BY <3>1 DEF InFlight
  <2> QED BY <2>2, <2>3, <2>4 DEF FlightInv
<1>6. BusInv
  <2>1. BP!Init
    BY SameBus DEF Init
  <2> QED BY <2>1, BusAssumption, BP!InitIInv DEF BusInv
<1> QED BY <1>1, <1>2, <1>3, <1>4, <1>5, <1>6 DEF IInv

LEMMA InvNext == IInv /\ [Next]_vars => IInv'
<1> SUFFICES ASSUME IInv, [Next]_vars PROVE IInv'
  OBVIOUS
<1>1. FlightInv'
  BY FlightNext, InFlightNext DEF FlightInv
<1> QED BY <1>1, TypedNext, BusInvNext DEF IInv

LEMMA Invariance == Spec => []IInv
BY InitInv, InvNext, PTL DEF Spec

-----------------------------------------------------------------------------
(* Every reachable state of the service is well typed, the log, the        *)
(* flights and the caches of every instance included.                      *)
THEOREM TypeCorrect == Spec => []TypeOK
<1>1. IInv => TypeOK
  <2> SUFFICES ASSUME IInv PROVE TypeOK
    OBVIOUS
  <2>1. Bus!TypeOK
    BY SameBus DEF IInv, BusInv, BP!IInv, BP!TypeOK, Bus!TypeOK, BP!PollState, Bus!PollState,
                   BP!Absent, Bus!Absent
  <2>2. Flight!TypeOK
    BY DEF IInv, FlightInv, FP!IInv, FP!TypeOK, Flight!TypeOK, FP!PCs, Flight!PCs, FP!Results,
           Flight!Results, FP!Outside, Flight!Outside
  <2>3. \A c \in Codes : links[c] \in {NoLink} \cup DOMAIN rows[c]
    <3> SUFFICES ASSUME NEW c \in Codes, links[c] # NoLink PROVE links[c] \in DOMAIN rows[c]
      OBVIOUS
    <3>1. links[c] = Len(rows[c]) /\ links[c] \in 0..MaxRows /\ links[c] # 0
      BY DEF IInv, TableOK, Typed, NoLink
    <3>2. DOMAIN rows[c] = 1..Len(rows[c])
      BY RowFacts DEF IInv, Typed, TableTyped
    <3> QED BY <3>1, <3>2, LinkBoundsAssumption
  <2> QED BY <2>1, <2>2, <2>3 DEF IInv, Typed, CachesOK, Request, Statuses, TypeOK
<1> QED BY <1>1, Invariance, PTL

(* The service, seen through the stamps of its cached entries, behaves as  *)
(* Invalidation says: every get, put, purge, flush, poll and restart is a  *)
(* step of the log and its caches, or changes neither.                     *)
THEOREM ServingIsAnInvalidationLog == Spec => ImplementsInvalidation
<1>1. Init => Bus!Init
  BY DEF Init
<1>2. IInv /\ [Next]_vars => [Bus!Next]_(Bus!vars)
  BY BusStep DEF BusNext
<1> QED BY <1>1, <1>2, Invariance, PTL DEF Spec, ImplementsInvalidation, Bus!Spec

(* So the promise of the cursor is kept by the caches of the service: a    *)
(* copy that an instance cached before an invalidation was published is    *)
(* gone once the instance's cursor has passed it.                          *)
THEOREM ServedCacheKeepsThePromise == Spec => []Bus!NoStaleCopyBehindCursor
<1>1. IInv => Bus!NoStaleCopyBehindCursor
  <2> SUFFICES ASSUME IInv, NEW i \in Instances, NEW k \in 1..cursor[i]
               PROVE  k \in DOMAIN log /\ Bus!Settled(i, k)
    BY DEF Bus!NoStaleCopyBehindCursor
  <2>1. BP!TypeOK /\ BP!CursorInv
    BY DEF IInv, BusInv, BP!IInv
  <2>2. log \in Seq(Codes) /\ BP!SettledUpTo(i, cursor[i])
    BY <2>1 DEF BP!TypeOK, BP!CursorInv
  <2>3. cursor[i] \in 0..Len(log) /\ BP!Settled(i, k)
    BY <2>2 DEF BP!SettledUpTo
  <2>4. k \in DOMAIN log
    BY <2>2, <2>3
  <2>5. Bus!Settled(i, k)
    BY <2>3 DEF BP!Settled, Bus!Settled, BP!Absent, Bus!Absent
  <2> QED BY <2>4, <2>5
<1> QED BY <1>1, Invariance, PTL

(* Nor does a takedown of the service answer before the caches of its own  *)
(* instance are rid of the code: whichever thread applied the row of the   *)
(* takedown, no copy from before it is left (takedown, drain_now).         *)
THEOREM ServedDrainSettlesOwnRow == Spec => []Bus!OwnRowSettledOnReply
<1>1. IInv => Bus!OwnRowSettledOnReply
  <2> SUFFICES ASSUME IInv, NEW i \in Instances, NEW w \in Admins, Bus!At(i, w, "reply")
               PROVE  poll[i][w].seq \in DOMAIN log /\ Bus!Settled(i, poll[i][w].seq)
    BY DEF Bus!OwnRowSettledOnReply
  <2>1. w \in BP!Workers /\ w # Poller
    BY BusAssumption DEF BP!Workers
  <2>2. BP!ThreadInv(i, w, poll[i][w]) /\ DOMAIN log = 1..Len(log)
    BY <2>1 DEF IInv, BusInv, BP!IInv, BP!PollInv, BP!TypeOK
  <2>3. poll[i][w].seq \in DOMAIN log /\ BP!Settled(i, poll[i][w].seq)
    BY <2>1, <2>2 DEF BP!ThreadInv, Bus!At
  <2>4. Bus!Settled(i, poll[i][w].seq)
    BY <2>3 DEF BP!Settled, Bus!Settled, BP!Absent, Bus!Absent
  <2> QED BY <2>3, <2>4
<1> QED BY <1>1, Invariance, PTL

(* The requests of an instance that miss on one code share one load of the *)
(* table, none waits for a load that was abandoned, and those that leave   *)
(* one load leave it with one result, whatever takedowns, purges and       *)
(* restarts go on around them (resolve, SingleFlight.do).                  *)
THEOREM ServedMissesShareALoad ==
  Spec => [](Flight!OneFnPerKey /\ Flight!NoOrphanWaiter /\ Flight!SharedResult)
<1>1. IInv => Flight!OneFnPerKey
  BY DEF IInv, FlightInv, FP!IInv, Flight!OneFnPerKey, FP!EntryInv, FP!LeadInv, FP!BeforePop, FP!Leads
<1>2. IInv => Flight!NoOrphanWaiter
  BY DEF IInv, FlightInv, FP!IInv, FP!NoOrphanWaiter, Flight!NoOrphanWaiter, FP!Leads, Flight!Leads
<1>3. IInv => Flight!SharedResult
  BY DEF IInv, FlightInv, FP!IInv, FP!TypeOK, FP!ResultInv, Flight!SharedResult, FP!Results, Flight!Results
<1> QED BY <1>1, <1>2, <1>3, Invariance, PTL

-----------------------------------------------------------------------------
(* Cached entries and the table. *)

(* A cached entry expires with the row it was loaded from. *)
OfItsRow(e) ==
  /\ e.value.target \in 1..Len(rows[e.key])
  /\ e.expires = rows[e.key][e.value.target].expires

EntriesInv == \A i \in Instances : \A n \in 1..Len(lru[i]) : OfItsRow(lru[i][n])

LEMMA EntryIsAnEntry ==
  ASSUME NEW cache, CacheTyped(cache), NEW n \in 1..Len(cache)
  PROVE  cache[n] \in Entries(cache, cache[n].key) /\ cache[n] \in CacheEntry
<1>1. cache \in Seq(CacheEntry) /\ DOMAIN cache = 1..Len(cache)
  BY DEF CacheTyped
<1>2. cache[n] \in CacheEntry
  BY <1>1, ElementOfSeq
<1> QED BY <1>1, <1>2 DEF Entries

LEMMA EntryStaysOfItsRow ==
  ASSUME IInv, [Next]_vars, NEW e \in CacheEntry, OfItsRow(e)
  PROVE  OfItsRow(e)'
<1>1. e.key \in Codes
  BY DEF CacheEntry
<1>2. TableNext
  BY TableStep
<1>3. Len(rows[e.key]) \in Nat /\ Len(rows'[e.key]) \in Nat /\ Len(rows[e.key]) <= Len(rows'[e.key])
  BY <1>1, <1>2 DEF TableNext, TableTyped, RowsKeep, IInv, Typed
<1>4. \A n \in 1..Len(rows[e.key]) : rows'[e.key][n].expires = rows[e.key][n].expires
  BY <1>1, <1>2 DEF TableNext, RowsKeep
<1> QED BY <1>3, <1>4 DEF OfItsRow

LEMMA EntriesNext == IInv /\ EntriesInv /\ [Next]_vars => EntriesInv'
<1> SUFFICES ASSUME IInv, EntriesInv, [Next]_vars, NEW i \in Instances, NEW n \in 1..Len(lru'[i]),
                    NEW e, e = lru'[i][n]
             PROVE  OfItsRow(e)'
  BY SMTT(30) DEF EntriesInv, OfItsRow
<1>1. \A j \in Instances : CacheTyped(lru[j])
  BY CacheFacts
<1>2. \A j \in Instances : \A k : \A f \in Entries(lru[j], k) : f \in CacheEntry /\ OfItsRow(f)
  <2> SUFFICES ASSUME NEW j \in Instances, NEW k, NEW f \in Entries(lru[j], k)
               PROVE  f \in CacheEntry /\ OfItsRow(f)
    OBVIOUS
  <2>1. DOMAIN lru[j] = 1..Len(lru[j])
    BY <1>1 DEF CacheTyped
  <2>2. PICK m \in 1..Len(lru[j]) : f = lru[j][m]
    BY <2>1 DEF Entries
  <2> QED BY <1>1, <2>2, EntryIsAnEntry DEF EntriesInv
<1>3. ASSUME e \in CacheEntry, OfItsRow(e) PROVE OfItsRow(e)'
  BY <1>3, EntryStaysOfItsRow
<1>4. ASSUME e \in Entries(lru[i], e.key) PROVE OfItsRow(e)'
  <2>1. e \in CacheEntry /\ OfItsRow(e)
    BY <1>2, <1>4
  <2> QED BY <1>3, <2>1
<1>5. CASE lru' = lru
  BY <1>1, <1>4, <1>5, EntryIsAnEntry
<1>6. ASSUME NEW j \in Instances, NEW new, Becomes(j, new) PROVE lru'[i] = IF i = j THEN new ELSE lru[i]
  BY <1>6 DEF Becomes, IInv, Typed
<1>7. ASSUME NEW j \in Instances, NEW new, Becomes(j, new), j # i PROVE OfItsRow(e)'
  <2>1. lru'[i] = lru[i]
    BY <1>6, <1>7
  <2> QED BY <1>1, <1>4, <2>1, EntryIsAnEntry
<1>8. ASSUME NEW new, Becomes(i, new) PROVE e \in Entries(new, e.key) /\ e \in CacheEntry
  <2>1. lru'[i] = new /\ CacheTyped(new)
    BY <1>6, <1>8 DEF Becomes
  <2> QED BY <2>1, EntryIsAnEntry
<1>9. CASE \E j \in Instances : \E new : Becomes(j, new) /\ Shrinks(new, lru[j])
  <2>3. PICK j \in Instances : \E new : Becomes(j, new) /\ Shrinks(new, lru[j])
    BY <1>9
  <2>1. PICK new : Becomes(j, new) /\ Shrinks(new, lru[j])
    BY <2>3
  <2>2. CASE j = i
    BY <1>4, <1>8, <2>1, <2>2 DEF Shrinks
  <2> QED BY <1>7, <2>1, <2>2
<1>10. ASSUME NEW r \in Reqs, LoadPut(r) PROVE OfItsRow(e)'
  <2>1. PICK new : /\ Becomes(req[r].inst, new)
                   /\ Entries(new, req[r].code) = {PutEntry(r)}
                   /\ \A k : k # req[r].code => Entries(new, k) \subseteq Entries(lru[req[r].inst], k)
    BY <1>10, PutReplaces
  <2>2. /\ PutEntry(r) \in CacheEntry /\ req[r].inst \in Instances
        /\ req[r].target \in 1..Len(rows[req[r].code])
    BY <1>10, PutEntryType DEF LoadPut
  <2>3. OfItsRow(PutEntry(r))
    BY <2>2 DEF OfItsRow, PutEntry, Entry, Loaded
  <2>4. CASE req[r].inst = i
    <3>1. CASE e.key = req[r].code
      BY <1>3, <1>8, <2>1, <2>2, <2>3, <2>4, <3>1
    <3>2. CASE e.key # req[r].code
      BY <1>4, <1>8, <2>1, <2>4, <3>2
    <3> QED BY <3>1, <3>2
  <2> QED BY <1>7, <2>1, <2>2, <2>4
<1> QED BY <1>5, <1>9, <1>10, CacheStep

(* A cached entry that has not expired is the row that the table has now,  *)
(* on every instance, whenever rows expire, are purged and their codes     *)
(* used again (LruCache.get; purge_expired).                               *)
THEOREM CacheAgreesWithTheTable == Spec => []CachedEntryIsCurrent
<1>1. Init => EntriesInv
  BY EmptySeq DEF Init, EntriesInv
<1>2. IInv /\ EntriesInv => CachedEntryIsCurrent
  <2> SUFFICES ASSUME IInv, EntriesInv, NEW i \in Instances, NEW n \in DOMAIN lru[i],
                      ~Expired(lru[i][n].expires, now)
               PROVE  links[lru[i][n].key] = lru[i][n].value.target
    BY DEF CachedEntryIsCurrent
  <2>1. CacheTyped(lru[i])
    BY CacheFacts
  <2>2. n \in 1..Len(lru[i])
    BY <2>1 DEF CacheTyped
  <2>3. lru[i][n].key \in Codes /\ OfItsRow(lru[i][n])
    BY <2>1, <2>2, EntryIsAnEntry DEF EntriesInv, CacheEntry
  <2> QED BY <2>3 DEF OfItsRow, IInv, TableOK
<1> QED BY <1>1, <1>2, EntriesNext, Invariance, PTL DEF Spec

-----------------------------------------------------------------------------
(* What a step of a request leaves alone. *)
Alike(q, p) == q.inst = p.inst /\ q.code = p.code /\ q.now = p.now /\ q.facts = p.facts

LEMMA RequestKeeps ==
  ASSUME IInv, NEW r \in Reqs, RequestStep(r)
  PROVE  \E q \in Request : Moves(r, q) /\ Alike(q, req[r])
<1>0. req[r] \in Request /\ req' \in [Reqs -> Request] => req'[r] \in Request
  OBVIOUS
<1>1. req[r] \in Request /\ DOMAIN req = Reqs
  BY DEF IInv, Typed
<1>2. ASSUME NEW q, Moves(r, q), Alike(q, req[r]), req'[r] \in Request
      PROVE  \E p \in Request : Moves(r, p) /\ Alike(p, req[r])
  BY <1>1, <1>2 DEF Moves
<1>3. \E q : Moves(r, q) /\ Alike(q, req[r])
  <2>1. ASSUME NEW pc, Goto(r, pc) PROVE \E q : Moves(r, q) /\ Alike(q, req[r])
    <3>1. Alike([req[r] EXCEPT !.pc = pc], req[r])
      BY <1>1 DEF Request, Alike
    <3> QED BY <2>1, <3>1, GotoMoves
  <2>2. ASSUME NEW n, Answer(r, n) PROVE \E q : Moves(r, q) /\ Alike(q, req[r])
    <3>1. Alike([req[r] EXCEPT !.pc = "done", !.answer = n], req[r])
      BY <1>1 DEF Request, Alike
    <3> QED BY <2>2, <3>1, GotoMoves
  <2>3. ASSUME NEW pc, NEW n, req' = [req EXCEPT ![r].pc = pc, ![r].target = n]
        PROVE \E q : Moves(r, q) /\ Alike(q, req[r])
    <3> DEFINE q == [req[r] EXCEPT !.pc = pc, !.target = n]
    <3>1. Moves(r, q) /\ Alike(q, req[r])
      BY <1>1, <2>3 DEF Request, Alike, Moves
    <3> QED BY <3>1
  <2>4. CASE EnterFlight(r)
    <3> DEFINE l == req[Leader(Key(r))]
               q == [req[r] EXCEPT !.pc = "result", !.had = l.had, !.asof = l.asof]
    <3>1. CASE req' = [req EXCEPT ![r].pc = "result", ![r].had = l.had, ![r].asof = l.asof]
      <4>1. Moves(r, q) /\ Alike(q, req[r])
        BY <1>1, <3>1 DEF Request, Alike, Moves
      <4> QED BY <4>1
    <3> QED BY <2>1, <2>4, <3>1 DEF EnterFlight
  <2>5. CASE FlightStep(r)
    <3>1. Moves(r, req[r])
      BY <2>5 DEF FlightStep, Moves, IInv, Typed
    <3>2. Alike(req[r], req[r])
      BY DEF Alike
    <3> QED BY <3>1, <3>2
  <2>6. CASE FlagLink(r) \/ CheckTakedown(r) \/ LoadGet(r) \/ LoadSelectFails(r) \/ LoadPut(r)
             \/ CheckInterstitial(r) \/ ReadInterstitial(r)
    BY <2>1, <2>2, <2>6 DEF FlagLink, CheckTakedown, LoadGet, LoadSelectFails, LoadPut,
       CheckInterstitial, ReadInterstitial
  <2>7. CASE CacheGet(r)
    BY <2>3, <2>7 DEF CacheGet
  <2>8. CASE LoadSelect(r)
    BY <2>1, <2>3, <2>8 DEF LoadSelect
  <2>9. CASE TakeResult(r)
    BY <2>2, <2>3, <2>9 DEF TakeResult
  <2> QED BY <2>4, <2>5, <2>6, <2>7, <2>8, <2>9 DEF RequestStep
<1>4. req'[r] \in Request
  <2>1. [Next]_vars
    BY Zenon DEF Next
  <2> QED BY <2>1, RequestsTyped DEF RequestsNext
<1> QED BY <1>2, <1>3, <1>4

(* What changes the memory of an instance, and a step that starts or ends  *)
(* requests only.                                                          *)
LEMMA MarksGrow ==
  ASSUME IInv, [Next]_vars, NEW i \in Instances
  PROVE  marks[i] \subseteq marks'[i] \/ Restart(i)
<1>0. marks \in [Instances -> SUBSET Codes]
  BY DEF IInv, Typed
<1>1. ASSUME NEW r \in Reqs, RequestStep(r) PROVE marks' = marks
  BY <1>1 DEF RequestStep, FlagLink, CheckTakedown, CacheGet, EnterFlight, LoadGet, LoadSelect,
       LoadSelectFails, LoadPut, FlightStep, TakeResult, CheckInterstitial, ReadInterstitial
<1>2. ASSUME NEW r \in Reqs, Turn(r) PROVE marks' = marks
  BY <1>2 DEF Turn, EndRequest, StartResolve, InsertLink, RejectLink
<1>3. ASSUME NEW j \in Instances, NEW w \in Bus!Workers, NEW c \in Codes, MarkWithdrawn(j, w, c)
      PROVE marks[i] \subseteq marks'[i]
  BY <1>0, <1>3 DEF MarkWithdrawn
<1>4. ASSUME NEW j \in Instances, NEW w \in Bus!Workers,
             PurgeLocal(j, w) \/ PublishRow(j, w) \/ BeginPoll(j, w) \/ ContinuePoll(j, w) \/ ApplyRow(j, w)
      PROVE marks' = marks
  BY <1>4 DEF PurgeLocal, PublishRow, BeginPoll, ContinuePoll, ApplyRow
<1>5. ASSUME NEW j \in Instances, FlushCache(j) PROVE marks' = marks
  BY <1>5 DEF FlushCache
<1>6. PurgeExpired \/ Tick => marks' = marks
  BY DEF PurgeExpired, Tick
<1>7. Background => marks[i] \subseteq marks'[i]
  BY <1>3, <1>4, <1>5, <1>6 DEF Background
<1>8. ASSUME NEW j \in Instances, Restart(j) PROVE marks[i] \subseteq marks'[i] \/ Restart(i)
  <2>1. CASE j = i
    BY <1>8, <2>1
  <2>2. CASE j # i
    BY <1>0, <1>8, <2>2 DEF Restart
  <2> QED BY <2>1, <2>2
<1>9. UNCHANGED vars => marks' = marks
  BY DEF vars
<1> QED BY <1>1, <1>2, <1>7, <1>8, <1>9, StepCases

(* Only a request that begins to resolve has facts. *)
LEMMA TakenFacts ==
  ASSUME NEW q, Taken(q)
  PROVE  q.facts = {} \/ \E i \in Instances, c \in Codes : Resolves(q, i, c)
<1>1. q = NoReq => q.facts = {}
  BY DEF NoReq
<1>2. ASSUME NEW i, NEW c,
             q = [NoReq EXCEPT !.pc = "flag", !.inst = i, !.code = c, !.target = links'[c]]
      PROVE  q.facts = {}
  BY <1>2 DEF NoReq
<1>3. CASE Rejects(q)
  BY <1>3 DEF Rejects, Rejected, NoReq
<1> QED BY <1>1, <1>2, <1>3, ZenonT(60) DEF Taken

(* A request found its code withdrawn when it came: it goes no further. *)
NotServed(q, withdrawn) ==
  "withdrawn" \in q.facts => \/ q.pc = "check" /\ withdrawn
                             \/ q.pc = "done" /\ q.answer = 410

WithdrawnInv == \A r \in Reqs : NotServed(req[r], Withdrawn(req[r].inst, req[r].code))

(* What becomes of the requests of a step: r moved, or some are no more.   *)
LEMMA RequestCases ==
  ASSUME IInv, [Next]_vars
  PROVE  \/ \E r \in Reqs, q \in Request : RequestStep(r) /\ Moves(r, q) /\ Alike(q, req[r])
         \/ \E r \in Reqs : Turn(r) /\ \E q : Moves(r, q) /\ Taken(q)
         \/ UNCHANGED req
         \/ \E i \in Instances : Restart(i)
<1>1. UNCHANGED vars => UNCHANGED req
  BY DEF vars
<1> QED BY <1>1, StepCases, RequestKeeps, TurnProperties, BackgroundQuiet

LEMMA WithdrawnNext == IInv /\ WithdrawnInv /\ [Next]_vars => WithdrawnInv'
<1> SUFFICES ASSUME IInv, WithdrawnInv, [Next]_vars, NEW s \in Reqs
             PROVE  NotServed(req[s], Withdrawn(req[s].inst, req[s].code))'
  BY DEF WithdrawnInv
<1> DEFINE OK == NotServed(req'[s], req'[s].code \in marks'[req'[s].inst])
<1>0. OK => NotServed(req[s], Withdrawn(req[s].inst, req[s].code))'
  BY DEF Withdrawn
<1>1. NotServed(req[s], req[s].code \in marks[req[s].inst])
  BY DEF WithdrawnInv, Withdrawn
<1>2. req[s].pc = "check" => req[s].inst \in Instances
  BY DEF IInv, RequestsOK
<1>3. ASSUME req'[s] = req[s], \A i \in Instances : req[s].inst = i => ~Restart(i) PROVE OK
  BY <1>1, <1>2, <1>3, MarksGrow DEF NotServed
<1>4. ASSUME "withdrawn" \notin req'[s].facts PROVE OK
  BY <1>4 DEF NotServed
<1>5. "withdrawn" \notin NoReq.facts
  BY DEF NoReq
<1>6. ASSUME NEW i \in Instances, Restart(i) PROVE OK
  <2>1. req'[s] = IF req[s].inst = i THEN NoReq ELSE req[s]
    BY <1>6 DEF Restart
  <2>2. CASE req[s].inst # i
    <3>1. marks'[req[s].inst] = marks[req[s].inst] \/ req[s].inst \notin Instances
      BY <1>6, <2>2 DEF Restart
    <3> QED BY <1>1, <1>2, <2>1, <2>2, <3>1 DEF NotServed
  <2> QED BY <1>4, <1>5, <2>1, <2>2
<1>7. ASSUME UNCHANGED req PROVE OK
  BY <1>3, <1>6, <1>7
<1>8. ASSUME NEW r \in Reqs, NEW q \in Request, RequestStep(r), Moves(r, q), Alike(q, req[r]) PROVE OK
  <2>1. req'[r] = q /\ \A t \in Reqs : t # r => req'[t] = req[t]
    BY <1>8, MovesProperties DEF IInv
  <2>2. CASE s # r
    BY <1>3, <1>6, <2>1, <2>2
  <2>3. CASE s = r /\ "withdrawn" \notin req[r].facts
    BY <1>4, <1>8, <2>1, <2>3 DEF Alike
  <2>4. CASE s = r /\ "withdrawn" \in req[r].facts
    <3>1. req[r].pc \in {"check", "done"} /\ (req[r].pc = "check" => Withdrawn(req[r].inst, req[r].code))
      BY <1>1, <2>4 DEF NotServed, Withdrawn
    <3>2. FlightStep(r) => req[r].pc = "result"
      BY CallsStay DEF FlightStep, IInv, FlightInv, InFlight
    <3>3. TakeResult(r) => req[r].pc = "result"
      BY ResultFacts DEF TakeResult, Flight!Leave
    <3>4. CheckTakedown(r)
      BY <1>8, <3>1, <3>2, <3>3 DEF RequestStep, FlagLink, CacheGet, EnterFlight, LoadGet, LoadSelect,
         LoadSelectFails, LoadPut, CheckInterstitial, ReadInterstitial
    <3>5. Answer(r, 410)
      BY <3>1, <3>4 DEF CheckTakedown
    <3>6. req'[r].pc = "done" /\ req'[r].answer = 410
      <4>1. req \in [Reqs -> Request]
        BY DEF IInv, Typed
      <4> QED BY <3>5, <4>1 DEF Answer, Request
    <3> QED BY <2>4, <3>6 DEF NotServed
  <2> QED BY <2>2, <2>3, <2>4
<1>9. ASSUME NEW r \in Reqs, Turn(r), NEW q, Moves(r, q), Taken(q) PROVE OK
  <2>1. req'[r] = q /\ \A t \in Reqs : t # r => req'[t] = req[t]
    BY <1>9, MovesProperties DEF IInv
  <2>2. CASE s # r
    BY <1>3, <1>6, <2>1, <2>2
  <2>3. CASE s = r /\ "withdrawn" \in q.facts
    <3>1. PICK i \in Instances, c \in Codes : Resolves(q, i, c)
      BY <1>9, <2>3, TakenFacts
    <3>2. q.pc = "check" /\ q.inst = i /\ q.code = c /\ c \in marks[i]
      BY <2>3, <3>1 DEF Resolves, NoReq, Facts, Withdrawn
    <3>3. Restart(i) => OK
      BY <1>6
    <3>4. c \in marks'[i] \/ Restart(i)
      BY <3>2, MarksGrow
    <3> QED BY <2>1, <2>3, <3>2, <3>3, <3>4 DEF NotServed
  <2>4. CASE s = r /\ "withdrawn" \notin q.facts
    BY <1>4, <2>1, <2>4
  <2> QED BY <2>2, <2>3, <2>4
<1> HIDE DEF OK
<1>10. OK
  BY <1>6, <1>7, <1>8, <1>9, RequestCases
<1> QED BY <1>0, <1>10

(* A request that reaches an instance where a takedown of its code is      *)
(* marked is told that the link is gone, or dies with the process, however *)
(* many loads of the code are under way there (resolve).                   *)
THEOREM WithdrawnStaysWithdrawn == Spec => []WithdrawnIsNotServed
<1>1. Init => WithdrawnInv
  BY DEF Init, WithdrawnInv, NotServed, NoReq
<1>2. WithdrawnInv => WithdrawnIsNotServed
  BY DEF WithdrawnInv, NotServed, WithdrawnIsNotServed, Answered
<1> QED BY <1>1, <1>2, WithdrawnNext, Invariance, PTL DEF Spec

-----------------------------------------------------------------------------
(* Takedowns under way are marked, and an interstitial goes only with one. *)
MarkedInv ==
  \A i \in Instances : \A w \in Bus!Workers :
    poll[i][w].code \in Codes => Withdrawn(i, poll[i][w].code)

(* No thread of an instance takes up a code. *)
NoNewCode ==
  \A i \in Instances : \A w \in Bus!Workers : poll'[i][w].code \in {NoCode, poll[i][w].code}

LEMMA WorkerSet ==
  ASSUME IInv, NEW i \in Instances, NEW w \in Bus!Workers, NEW state, Bus!Set(i, w, state)
  PROVE  /\ poll'[i][w] = state
         /\ \A j \in Instances : \A v \in Bus!Workers : (j # i \/ v # w) => poll'[j][v] = poll[j][v]
<1>1. poll \in [Instances -> [Bus!Workers -> BP!PollState]]
  BY SameBus DEF IInv, BusInv, BP!IInv, BP!TypeOK
<1> QED BY <1>1 DEF Bus!Set

LEMMA WorkerCode ==
  ASSUME IInv, NEW i \in Instances, NEW w \in Bus!Workers,
         \/ \E state : Bus!Set(i, w, state) /\ state.code \in {NoCode, poll[i][w].code}
         \/ \E pc : Bus!Goto(i, w, pc)
  PROVE  NoNewCode
<1>1. poll[i][w] \in BP!PollState
  BY SameBus DEF IInv, BusInv, BP!IInv, BP!TypeOK
<1>2. ASSUME NEW state, Bus!Set(i, w, state), state.code \in {NoCode, poll[i][w].code} PROVE NoNewCode
  BY <1>2, WorkerSet DEF NoNewCode
<1>3. ASSUME NEW pc, Bus!Goto(i, w, pc) PROVE NoNewCode
  <2> DEFINE state == [poll[i][w] EXCEPT !.pc = pc]
  <2>1. Bus!Set(i, w, state)
    BY <1>3 DEF Bus!Goto, Bus!Set
  <2>2. state.code = poll[i][w].code
    BY <1>1 DEF BP!PollState
  <2> QED BY <1>2, <2>1, <2>2
<1> QED BY <1>2, <1>3

LEMMA BusCodeStep ==
  ASSUME IInv, NEW i \in Instances, NEW w \in Bus!Workers,
         PurgeLocal(i, w) \/ PublishRow(i, w) \/ BeginPoll(i, w) \/ ContinuePoll(i, w) \/ ApplyRow(i, w)
  PROVE  NoNewCode
<1>1. poll[i][w] \in BP!PollState
  BY SameBus DEF IInv, BusInv, BP!IInv, BP!TypeOK
<1>2. Bus!Idle.code = NoCode /\ Bus!Finished(i, w).code \in {NoCode, poll[i][w].code}
  BY DEF Bus!Idle, Bus!Finished
<1>3. CASE PurgeLocal(i, w)
  BY <1>3, WorkerCode DEF PurgeLocal
<1>4. CASE PublishRow(i, w)
  <2>1. [poll[i][w] EXCEPT !.pc = "cursor", !.seq = Len(log')].code = poll[i][w].code
    BY <1>1 DEF BP!PollState
  <2> QED BY <1>2, <1>4, <2>1, WorkerCode DEF PublishRow, Bus!Publish, Bus!PublishFails
<1>5. CASE BeginPoll(i, w)
  <2>1. [poll[i][w] EXCEPT !.pc = "select", !.from = cursor[i]].code = poll[i][w].code
    BY <1>1 DEF BP!PollState
  <2> QED BY <1>5, <2>1, WorkerCode DEF BeginPoll, Bus!ReadCursor
<1>6. CASE ContinuePoll(i, w)
  <2> DEFINE state == [poll[i][w] EXCEPT !.pc = "apply", !.next = poll[i][w].from + 1, !.last = Len(log)]
  <2>1. state.code = poll[i][w].code
    BY <1>1 DEF BP!PollState
  <2>2. CASE Bus!SelectRows(i, w)
    <3>1. Bus!Set(i, w, state) \/ Bus!Set(i, w, Bus!Finished(i, w))
      BY <2>2 DEF Bus!SelectRows
    <3> QED BY <1>2, <2>1, <3>1, WorkerCode
  <2>3. CASE Bus!SelectFails(i, w) \/ Bus!Reply(i, w) \/ Bus!Advance(i, w)
    BY <1>2, <2>3, WorkerCode DEF Bus!SelectFails, Bus!Reply, Bus!Advance
  <2> QED BY <1>6, <2>2, <2>3 DEF ContinuePoll
<1>7. CASE ApplyRow(i, w)
  <2> DEFINE p == poll[i][w]
             state == [p EXCEPT !.next = p.next + 1, !.pc = IF p.next = p.last THEN "advance" ELSE "apply"]
  <2>1. Bus!Set(i, w, state)
    BY <1>7 DEF ApplyRow, Bus!NextRow
  <2>2. state.code = p.code
    BY <1>1 DEF BP!PollState
  <2> HIDE DEF state
  <2> QED BY <2>1, <2>2, WorkerCode
<1> QED BY <1>3, <1>4, <1>5, <1>6, <1>7

LEMMA MarkedNext == IInv /\ MarkedInv /\ [Next]_vars => MarkedInv'
<1> SUFFICES ASSUME IInv, MarkedInv, [Next]_vars, NEW i \in Instances, NEW w \in Bus!Workers,
                    poll'[i][w].code \in Codes
             PROVE  poll'[i][w].code \in marks'[i]
  BY DEF MarkedInv, Withdrawn
<1>0. NoCode \notin Codes
  BY BusAssumption
<1>1. ASSUME Restart(i) PROVE FALSE
  BY <1>0, <1>1 DEF Restart, Bus!Reborn, Bus!Idle, IInv, BusInv, BP!IInv, BP!TypeOK
<1>2. ASSUME poll'[i][w].code \in {NoCode, poll[i][w].code} PROVE poll'[i][w].code \in marks'[i]
  BY <1>0, <1>1, <1>2, MarksGrow DEF MarkedInv, Withdrawn
<1>3. ASSUME UNCHANGED poll PROVE poll'[i][w].code \in marks'[i]
  BY <1>2, <1>3
<1>4. ASSUME NEW r \in Reqs, RequestStep(r) \/ Turn(r) PROVE UNCHANGED poll
  BY <1>4 DEF RequestStep, FlagLink, CheckTakedown, CacheGet, EnterFlight, LoadGet, LoadSelect,
       LoadSelectFails, LoadPut, FlightStep, TakeResult, CheckInterstitial, ReadInterstitial,
       Turn, EndRequest, StartResolve, InsertLink, RejectLink, busVars
<1>5. ASSUME NEW j \in Instances, Restart(j) PROVE UNCHANGED poll \/ poll'[i][w].code \in {NoCode, poll[i][w].code}
  BY <1>5, <1>1 DEF Restart, Bus!Reborn, Bus!Idle, IInv, BusInv, BP!IInv, BP!TypeOK
<1>6. ASSUME NEW j \in Instances, NEW v \in Bus!Workers, NEW c \in Codes, MarkWithdrawn(j, v, c)
      PROVE  poll'[i][w].code \in marks'[i]
  <2>1. Bus!Set(j, v, [Bus!Idle EXCEPT !.pc = "purge", !.code = c])
    BY <1>6 DEF MarkWithdrawn, Bus!StartTakedown
  <2>2. marks' = [marks EXCEPT ![j] = @ \cup {c}] /\ marks \in [Instances -> SUBSET Codes]
    BY <1>6 DEF MarkWithdrawn, IInv, Typed
  <2>3. CASE i = j /\ w = v
    <3>1. poll'[i][w] = [Bus!Idle EXCEPT !.pc = "purge", !.code = c]
      BY <2>1, <2>3, WorkerSet
    <3>4. poll'[i][w].code = c
      BY <3>1 DEF Bus!Idle
    <3> QED BY <2>2, <2>3, <3>4
  <2>4. CASE i # j \/ w # v
    <3>1. poll'[i][w] = poll[i][w]
      BY <2>1, <2>4, WorkerSet
    <3> QED BY <1>2, <3>1
  <2> QED BY <2>3, <2>4
<1>7. ASSUME NEW j \in Instances, NEW v \in Bus!Workers,
             PurgeLocal(j, v) \/ PublishRow(j, v) \/ BeginPoll(j, v) \/ ContinuePoll(j, v) \/ ApplyRow(j, v)
      PROVE  poll'[i][w].code \in marks'[i]
  BY <1>2, <1>7, BusCodeStep DEF NoNewCode
<1>8. (\E j \in Instances : FlushCache(j)) \/ PurgeExpired \/ Tick => UNCHANGED poll
  BY DEF FlushCache, PurgeExpired, Tick, busVars
<1>9. Background => poll'[i][w].code \in marks'[i]
  BY <1>3, <1>6, <1>7, <1>8 DEF Background
<1>10. UNCHANGED vars => UNCHANGED poll
  BY DEF vars, busVars
<1> QED BY <1>2, <1>3, <1>4, <1>5, <1>9, <1>10, StepCases

(* i shows the interstitial of c, or does not serve c at all. *)
Flagged(i, c) == c \in interstitials[i] \/ Withdrawn(i, c)

LEMMA FlaggedStays ==
  ASSUME IInv, MarkedInv, [Next]_vars, NEW i \in Instances, ~Restart(i), NEW c \in Codes, Flagged(i, c)
  PROVE  Flagged(i, c)'
<1>0. interstitials \in [Instances -> SUBSET Codes]
  BY DEF IInv, Typed
<1>1. CASE Withdrawn(i, c)
  BY <1>1, MarksGrow DEF Withdrawn, Flagged
<1>2. CASE c \in interstitials[i]
  <2>1. ASSUME c \in interstitials'[i] PROVE Flagged(i, c)'
    BY <2>1 DEF Flagged
  <2>2. ASSUME NEW r \in Reqs, RequestStep(r) PROVE c \in interstitials'[i]
    <3>1. interstitials' = interstitials \/
          interstitials' = [interstitials EXCEPT ![req[r].inst] = @ \cup {req[r].code}]
      BY <2>2 DEF RequestStep, FlagLink, CheckTakedown, CacheGet, EnterFlight, LoadGet, LoadSelect,
           LoadSelectFails, LoadPut, FlightStep, TakeResult, CheckInterstitial, ReadInterstitial
    <3> QED BY <1>0, <1>2, <3>1
  <2>3. ASSUME NEW j \in Instances, NEW w \in Bus!Workers, BeginPoll(j, w) PROVE Flagged(i, c)'
    <3>1. interstitials' = [interstitials EXCEPT ![j] = @ \ {poll[j][w].code}] /\ marks' = marks
      BY <2>3 DEF BeginPoll
    <3>2. CASE j = i /\ poll[j][w].code = c
      BY <3>1, <3>2 DEF MarkedInv, Withdrawn, Flagged
    <3>3. CASE ~(j = i /\ poll[j][w].code = c)
      BY <1>0, <1>2, <2>1, <3>1, <3>3
    <3> QED BY <3>2, <3>3
  <2>4. ASSUME NEW r \in Reqs, Turn(r) PROVE interstitials' = interstitials
    BY <2>4 DEF Turn, EndRequest, StartResolve, InsertLink, RejectLink
  <2>5. ASSUME NEW j \in Instances, NEW w \in Bus!Workers,
               \/ \E d \in Codes : MarkWithdrawn(j, w, d)
               \/ PurgeLocal(j, w) \/ PublishRow(j, w) \/ ContinuePoll(j, w) \/ ApplyRow(j, w)
        PROVE interstitials' = interstitials
    BY <2>5 DEF MarkWithdrawn, PurgeLocal, PublishRow, ContinuePoll, ApplyRow
  <2>6. (\E j \in Instances : FlushCache(j)) \/ PurgeExpired \/ Tick => interstitials' = interstitials
    BY DEF FlushCache, PurgeExpired, Tick
  <2>7. Background => Flagged(i, c)'
    BY <1>2, <2>1, <2>3, <2>5, <2>6 DEF Background
  <2>8. ASSUME NEW j \in Instances, Restart(j) PROVE interstitials'[i] = interstitials[i]
    <3>1. j # i
      BY <2>8
    <3> QED BY <1>0, <2>8, <3>1 DEF Restart
  <2>9. UNCHANGED vars => interstitials' = interstitials
    BY DEF vars
  <2> QED BY <1>2, <2>1, <2>2, <2>4, <2>7, <2>8, <2>9, StepCases
<1> QED BY <1>1, <1>2 DEF Flagged

-----------------------------------------------------------------------------
(* The policy and the interstitials. *)
LEMMA BelowIsStrictSuffix ==
  ASSUME NEW E, NEW host \in Seq(E), NEW n \in 2..Len(host)
  PROVE  IsStrictSuffix(SubSeq(host, n, Len(host)), host)
<1> DEFINE l == Len(host)
           d == SubSeq(host, n, l)
           k == l - n + 1
<1>1. l \in Nat /\ n \in Int /\ k \in Nat /\ k < l /\ n <= l
      /\ \A i \in 1..l : host[i] \in E
  BY ElementOfSeq
<1>2. d \in Seq(E) /\ Len(d) = k /\ \A i \in 1..k : d[i] = host[n + i - 1]
  BY <1>1, SubSeqProperties
<1> HIDE DEF d
<1>3. Reverse(host) \in Seq(E) /\ Len(Reverse(host)) = l
      /\ \A i \in 1..l : Reverse(host)[i] = host[l - i + 1]
  <2>1. Reverse(host) = [i \in 1..l |-> host[(l - i) + 1]]
    BY DEF Reverse
  <2>2. \A i \in 1..l : (l - i) + 1 \in 1..l
    BY <1>1
  <2> QED BY <1>1, <2>1, <2>2, SeqDef
<1>4. Reverse(d) \in Seq(E) /\ Len(Reverse(d)) = k
      /\ \A i \in 1..k : Reverse(d)[i] = host[l - i + 1]
  <2>1. Reverse(d) = [i \in 1..k |-> d[(k - i) + 1]]
    BY <1>2 DEF Reverse
  <2>2. \A i \in 1..k : (k - i) + 1 \in 1..k /\ l - i + 1 \in 1..l /\ n + ((k - i) + 1) - 1 = l - i + 1
    BY <1>1
  <2>3. ASSUME NEW i \in 1..k
        PROVE  d[(k - i) + 1] = host[l - i + 1]
    <3>1. /\ (k - i) + 1 \in 1..k
          /\ n + ((k - i) + 1) - 1 = l - i + 1
      BY <2>2
    <3>2. ASSUME NEW j, j = (k - i) + 1
          PROVE  d[j] = host[n + j - 1]
      BY <1>2, <3>1, <3>2
    <3> QED BY <3>1, <3>2
  <2> QED BY <1>1, <2>1, <2>2, <2>3, SeqDef
<1> DEFINE a == SubSeq(Reverse(d), 1, k)
           b == SubSeq(Reverse(host), 1, k)
<1>5. a \in Seq(E) /\ Len(a) = k /\ \A i \in 1..k : a[i] = host[l - i + 1]
  <2>1. \A i \in 1..k : Reverse(d)[i] \in E
    BY <1>4, ElementOfSeq
  <2>2. a \in Seq(E) /\ Len(a) = (IF 1 <= k THEN k - 1 + 1 ELSE 0)
        /\ \A i \in 1..(k - 1 + 1) : a[i] = Reverse(d)[1 + i - 1]
    BY <1>1, <2>1, SubSeqProperties
  <2> QED BY <1>1, <1>4, <2>2
<1>6. b \in Seq(E) /\ Len(b) = k /\ \A i \in 1..k : b[i] = host[l - i + 1]
  <2>1. \A i \in 1..k : Reverse(host)[i] \in E
    BY <1>1, <1>3, ElementOfSeq
  <2>2. b \in Seq(E) /\ Len(b) = (IF 1 <= k THEN k - 1 + 1 ELSE 0)
        /\ \A i \in 1..(k - 1 + 1) : b[i] = Reverse(host)[1 + i - 1]
    BY <1>1, <2>1, SubSeqProperties
  <2> QED BY <1>1, <1>3, <2>2
<1>7. a = b
  BY <1>5, <1>6, SeqEqual
<1>8. IsSuffix(d, host)
  BY <1>1, <1>3, <1>4, <1>7 DEF IsSuffix, IsPrefix
<1>9. d # host
  BY <1>1, <1>2
<1> QED BY <1>8, <1>9 DEF IsStrictSuffix, d

(* registrable_suffix_match and the low-trust suffixes catch every host    *)
(* that is below one of their domains.                                     *)
LEMMA BelowIsNotAllowed ==
  ASSUME NEW host \in Hosts, Below(host, Blocklist \cup Shorteners \cup LowTrust)
  PROVE  Evaluate(host) # "allow"
<1>1. PICK n \in 2..Len(host) : SubSeq(host, n, Len(host)) \in Blocklist \cup Shorteners \cup LowTrust
  BY DEF Below
<1>2. IsStrictSuffix(SubSeq(host, n, Len(host)), host)
  BY LinksAssumption, BelowIsStrictSuffix
<1>3. IsSuffix(SubSeq(host, n, Len(host)), host)
  BY <1>2 DEF IsStrictSuffix
<1>4. Refused(host) \/ OfLowTrust(host)
  BY <1>1, <1>2, <1>3 DEF Refused, Matches, OfLowTrust
<1> QED BY <1>4 DEF Evaluate

(* A row that an instance answered the creation of is flagged there, when  *)
(* it has to be.                                                           *)
RowFlagged(c, row) ==
  /\ Evaluate(row.host) # "refuse"
  /\ row.home \in Instances /\ Evaluate(row.host) = "interstitial" => Flagged(row.home, c)

RowsFlagged == \A c \in Codes : \A n \in 1..Len(rows[c]) : RowFlagged(c, rows[c][n])

(* A row of the step is an old one, whose home is forgotten or set, or new.*)
LEMMA RowCases ==
  ASSUME IInv, [Next]_vars, NEW c \in Codes, NEW n \in 1..Len(rows'[c])
  PROVE  \/ n \in 1..Len(rows[c]) /\ rows'[c][n] = rows[c][n]
            /\ (rows[c][n].home \in Instances => ~Restart(rows[c][n].home))
         \/ n \in 1..Len(rows[c]) /\ rows'[c][n].host = rows[c][n].host /\ rows'[c][n].home = NoCode
         \/ /\ n \in 1..Len(rows[c]) /\ rows'[c][n].host = rows[c][n].host
            /\ \E r \in Reqs : /\ FlagLink(r) /\ req[r].code = c /\ req[r].target = n
                               /\ rows'[c][n].home = req[r].inst
         \/ \E host \in Hosts : /\ Evaluate(host) # "refuse"
                                /\ rows'[c][n].host = host /\ rows'[c][n].home = NoCode
<1>0. /\ rows[c] \in Seq(Row) /\ Len(rows[c]) \in Nat /\ DOMAIN rows[c] = 1..Len(rows[c])
      /\ \A m \in 1..Len(rows[c]) : rows[c][m] \in Row
      /\ rows \in [Codes -> Seq(Row)]
  BY RowFacts DEF IInv, Typed, TableTyped
<1>1. ASSUME NEW i \in Instances, Restart(i)
      PROVE  n \in 1..Len(rows[c]) /\ rows'[c][n] = [rows[c][n] EXCEPT !.home = IF @ = i THEN NoCode ELSE @]
  <2>1. rows'[c] = [m \in 1..Len(rows[c]) |-> [rows[c][m] EXCEPT !.home = IF @ = i THEN NoCode ELSE @]]
    BY <1>0, <1>1 DEF Restart
  <2>2. Len(rows'[c]) = Len(rows[c])
    BY <1>0, <2>1
  <2> QED BY <2>1, <2>2
<1>2. ASSUME NEW r \in Reqs, FlagLink(r)
      PROVE  /\ n \in 1..Len(rows[c]) /\ rows'[c][n].host = rows[c][n].host
             /\ \/ rows'[c][n] = rows[c][n]
                \/ req[r].code = c /\ req[r].target = n /\ rows'[c][n].home = req[r].inst
  <2> DEFINE d == req[r].code
             m == req[r].target
             row == [rows[d][m] EXCEPT !.home = req[r].inst]
  <2>1. d \in Codes /\ m \in 1..Len(rows[d])
    BY <1>2 DEF FlagLink, IInv, RequestsOK
  <2>2. rows' = [rows EXCEPT ![d] = [rows[d] EXCEPT ![m] = row]]
    BY <1>2 DEF FlagLink
  <2>3. rows[d] \in Seq(Row) /\ rows[d][m] \in Row
    BY <2>1, RowFacts DEF IInv, Typed, TableTyped
  <2>4. row.host = rows[d][m].host /\ row.home = req[r].inst
    BY <2>3 DEF Row
  <2> HIDE DEF row
  <2>5. CASE c # d
    BY <1>0, <2>2, <2>5
  <2>6. CASE c = d
    <3>1. rows'[c] = [rows[c] EXCEPT ![m] = row]
      BY <1>0, <2>2, <2>6
    <3>2. Len(rows'[c]) = Len(rows[c])
      BY <1>0, <3>1
    <3>3. rows'[c][n] = IF n = m THEN row ELSE rows[c][n]
      BY <1>0, <3>1, <3>2
    <3> QED BY <2>4, <2>6, <3>2, <3>3
  <2> QED BY <2>5, <2>6
<1>3. ASSUME NEW r \in Reqs, NEW i \in Instances, NEW d \in Codes, NEW host \in Hosts,
             NEW ttl \in Lifetimes, InsertLink(r, i, d, host, ttl)
      PROVE  \/ n \in 1..Len(rows[c]) /\ rows'[c][n] = rows[c][n]
             \/ Evaluate(host) # "refuse" /\ rows'[c][n].host = host /\ rows'[c][n].home = NoCode
  <2>0. PICK at \in 0..now :
          rows' = [rows EXCEPT ![d] = Append(@,
                     [expires |-> IF ttl = NoExpiry THEN NoExpiry ELSE at + ttl,
                      host |-> host, home |-> NoCode])]
    BY <1>3 DEF InsertLink
  <2> DEFINE row == [expires |-> IF ttl = NoExpiry THEN NoExpiry ELSE at + ttl,
                     host |-> host, home |-> NoCode]
  <2>1. rows' = [rows EXCEPT ![d] = Append(@, row)] /\ Evaluate(host) # "refuse"
    BY <1>3, <2>0 DEF InsertLink
  <2>2. row.host = host /\ row.home = NoCode
    OBVIOUS
  <2> HIDE DEF row
  <2>3. CASE c # d
    BY <1>0, <2>1, <2>3
  <2>4. CASE c = d
    <3>1. rows'[c] = Append(rows[c], row)
      BY <1>0, <2>1, <2>4
    <3>2. Len(rows'[c]) = Len(rows[c]) + 1
      BY <1>0, <3>1
    <3>3. CASE n = Len(rows[c]) + 1
      <4>1. rows'[c][n] = row
        BY <1>0, <3>1, <3>3
      <4> QED BY <2>1, <2>2, <4>1
    <3>4. CASE n # Len(rows[c]) + 1
      <4>1. n \in 1..Len(rows[c])
        BY <1>0, <3>2, <3>4
      <4> QED BY <1>0, <3>1, <4>1
    <3> QED BY <3>3, <3>4
  <2> QED BY <2>3, <2>4
<1>4. CASE \E i \in Instances : Restart(i)
  <2>1. PICK i \in Instances : Restart(i)
    BY <1>4
  <2>2. n \in 1..Len(rows[c]) /\ rows'[c][n] = [rows[c][n] EXCEPT !.home = IF @ = i THEN NoCode ELSE @]
    BY <1>1, <2>1
  <2>3. rows[c][n] \in Row
    BY <1>0, <2>2
  <2>4. CASE rows[c][n].home = i
    <3>1. rows'[c][n].home = NoCode /\ rows'[c][n].host = rows[c][n].host
      BY <2>2, <2>3, <2>4 DEF Row
    <3> QED BY <2>2, <3>1
  <2>5. CASE rows[c][n].home # i
    <3>1. rows'[c][n] = rows[c][n]
      BY <2>2, <2>3, <2>5 DEF Row
    <3>2. ASSUME rows[c][n].home \in Instances, Restart(rows[c][n].home) PROVE FALSE
      <4>1. rows'[c][n] = [rows[c][n] EXCEPT !.home = IF @ = rows[c][n].home THEN NoCode ELSE @]
        BY <1>1, <3>2
      <4>2. rows'[c][n].home = NoCode
        BY <2>3, <4>1 DEF Row
      <4> QED BY <3>1, <3>2, <4>2, BusAssumption
    <3> QED BY <2>2, <3>1, <3>2
  <2> QED BY <2>4, <2>5
<1>5. CASE ~\E i \in Instances : Restart(i)
  <2>1. ASSUME UNCHANGED rows PROVE n \in 1..Len(rows[c]) /\ rows'[c][n] = rows[c][n]
    BY <2>1
  <2>2. ASSUME NEW r \in Reqs, RequestStep(r) PROVE UNCHANGED rows \/ FlagLink(r)
    BY <2>2 DEF RequestStep, FlagLink, CheckTakedown, CacheGet, EnterFlight, LoadGet, LoadSelect,
         LoadSelectFails, LoadPut, FlightStep, TakeResult, CheckInterstitial, ReadInterstitial
  <2>3. ASSUME NEW r \in Reqs, Turn(r)
        PROVE  \/ UNCHANGED rows
               \/ \E i \in Instances, d \in Codes, host \in Hosts, ttl \in Lifetimes :
                    InsertLink(r, i, d, host, ttl)
    BY <2>3 DEF Turn, EndRequest, StartResolve, RejectLink
  <2>4. Background => UNCHANGED rows
    BY DEF Background, MarkWithdrawn, PurgeLocal, PublishRow, BeginPoll, ContinuePoll, ApplyRow,
           FlushCache, PurgeExpired, Tick
  <2>5. UNCHANGED vars => UNCHANGED rows
    BY DEF vars
  <2>6. \/ UNCHANGED rows
        \/ \E r \in Reqs : FlagLink(r)
        \/ \E r \in Reqs, i \in Instances, d \in Codes, host \in Hosts, ttl \in Lifetimes :
             InsertLink(r, i, d, host, ttl)
    BY <1>5, <2>2, <2>3, <2>4, <2>5, StepCases
  <2>7. CASE UNCHANGED rows
    BY <1>5, <2>1, <2>7
  <2>8. CASE \E r \in Reqs : FlagLink(r)
    BY <1>2, <1>5, <2>8
  <2>9. CASE \E r \in Reqs, i \in Instances, d \in Codes, host \in Hosts, ttl \in Lifetimes :
               InsertLink(r, i, d, host, ttl)
    BY <1>3, <1>5, <2>9
  <2> QED BY <2>6, <2>7, <2>8, <2>9
<1> QED BY <1>4, <1>5

LEMMA RowsFlaggedNext == IInv /\ MarkedInv /\ RowsFlagged /\ [Next]_vars => RowsFlagged'
<1> SUFFICES ASSUME IInv, MarkedInv, RowsFlagged, [Next]_vars, NEW c \in Codes, NEW n \in 1..Len(rows'[c]),
                    NEW row, row = rows'[c][n]
             PROVE  RowFlagged(c, row)'
  BY DEF RowsFlagged, RowFlagged
<1>0. ASSUME n \in 1..Len(rows[c]) PROVE RowFlagged(c, rows[c][n])
  BY <1>0 DEF RowsFlagged
<1>1. CASE n \in 1..Len(rows[c]) /\ rows'[c][n] = rows[c][n]
           /\ (rows[c][n].home \in Instances => ~Restart(rows[c][n].home))
  BY <1>0, <1>1, FlaggedStays DEF RowFlagged
<1>2. CASE n \in 1..Len(rows[c]) /\ rows'[c][n].host = rows[c][n].host /\ rows'[c][n].home = NoCode
  BY <1>0, <1>2, BusAssumption DEF RowFlagged
<1>3. CASE /\ n \in 1..Len(rows[c]) /\ rows'[c][n].host = rows[c][n].host
           /\ \E r \in Reqs : /\ FlagLink(r) /\ req[r].code = c /\ req[r].target = n
                              /\ rows'[c][n].home = req[r].inst
  <2>1. PICK r \in Reqs : /\ FlagLink(r) /\ req[r].code = c /\ req[r].target = n
                          /\ rows'[c][n].home = req[r].inst
    BY <1>3
  <2>2. interstitials \in [Instances -> SUBSET Codes] /\ req[r].inst \in Instances
    BY <2>1 DEF FlagLink, IInv, Typed, RequestsOK
  <2>3. Evaluate(row.host) = "interstitial" => c \in interstitials'[req[r].inst]
    BY <1>3, <2>1, <2>2 DEF FlagLink
  <2> QED BY <1>0, <1>3, <2>1, <2>3 DEF RowFlagged, Flagged
<1>4. CASE \E host \in Hosts : /\ Evaluate(host) # "refuse"
                              /\ rows'[c][n].host = host /\ rows'[c][n].home = NoCode
  BY <1>4, BusAssumption DEF RowFlagged
<1> QED BY <1>1, <1>2, <1>3, <1>4, RowCases

(* How a request is answered. *)
LEMMA AnswerCases ==
  ASSUME IInv, NEW r \in Reqs, RequestStep(r), req'[r].pc = "done"
  PROVE  \/ req'[r].answer \in {201, 410, 500}
         \/ CheckInterstitial(r) /\ Answer(r, 307) /\ req'[r].answer = 307
            /\ req[r].code \notin interstitials[req[r].inst]
         \/ ReadInterstitial(r) /\ Answer(r, 200) /\ req'[r].answer = 200
         \/ TakeResult(r) /\ Answer(r, 404) /\ req'[r].answer = 404 /\ thread[r].result = NoLink
<1>1. req \in [Reqs -> Request]
  BY DEF IInv, Typed
<1>2. ASSUME NEW pc, Goto(r, pc) PROVE req'[r].pc = pc
  BY <1>1, <1>2 DEF Goto, Request
<1>3. ASSUME NEW n, Answer(r, n) PROVE req'[r].answer = n
  BY <1>1, <1>3 DEF Answer, Request
<1>4. ASSUME NEW pc, NEW n, req' = [req EXCEPT ![r].pc = pc, ![r].target = n] PROVE req'[r].pc = pc
  BY <1>1, <1>4 DEF Request
<1>5. CASE FlagLink(r)
  BY <1>3, <1>5 DEF FlagLink
<1>6. CASE CheckTakedown(r)
  BY <1>2, <1>3, <1>6 DEF CheckTakedown
<1>7. ~CacheGet(r)
  BY <1>4 DEF CacheGet
<1>8. ~LoadGet(r) /\ ~LoadSelectFails(r) /\ ~LoadPut(r)
  BY <1>2 DEF LoadGet, LoadSelectFails, LoadPut
<1>9. ~LoadSelect(r)
  BY <1>2, <1>4 DEF LoadSelect
<1>10. ~EnterFlight(r)
  <2>1. ASSUME NEW a, NEW b, req' = [req EXCEPT ![r].pc = "result", ![r].had = a, ![r].asof = b]
        PROVE  req'[r].pc = "result"
    BY <1>1, <2>1 DEF Request
  <2> QED BY <1>2, <2>1 DEF EnterFlight
<1>11. ~FlightStep(r)
  BY CallsStay DEF FlightStep, IInv, FlightInv, InFlight
<1>12. CASE TakeResult(r)
  BY <1>3, <1>4, <1>12 DEF TakeResult
<1>13. CASE CheckInterstitial(r)
  BY <1>2, <1>3, <1>13 DEF CheckInterstitial
<1>14. CASE ReadInterstitial(r)
  BY <1>3, <1>14 DEF ReadInterstitial
<1> QED BY <1>5, <1>6, <1>7, <1>8, <1>9, <1>10, <1>11, <1>12, <1>13, <1>14 DEF RequestStep

(* A request for a link whose destination the policy does not let pass. *)
Suspect(q) ==
  /\ q.inst \in Instances /\ q.code \in Codes
  /\ Flagged(q.inst, q.code)
  /\ q.pc = "done" /\ q.answer = 307 => Withdrawn(q.inst, q.code)

Suspects == \A r \in Reqs : "suspect" \in req[r].facts => Suspect(req[r])

(* A link that is there is the last one of its code. *)
LEMMA LastRow ==
  ASSUME IInv, NEW c \in Codes, ~Free(c)
  PROVE  links[c] \in 1..Len(rows[c])
<1>1. links[c] # 0 /\ links[c] \in 0..MaxRows /\ links[c] = Len(rows[c])
  BY DEF IInv, Typed, TableOK, Free, NoLink
<1> QED BY <1>1, LinkBoundsAssumption

LEMMA SuspectsNext ==
  IInv /\ MarkedInv /\ RowsFlagged /\ Suspects /\ [Next]_vars => Suspects'
<1> SUFFICES ASSUME IInv, MarkedInv, RowsFlagged, Suspects, [Next]_vars, NEW s \in Reqs,
                    NEW p, p = req'[s], "suspect" \in p.facts
             PROVE  Suspect(p)'
  BY DEF Suspects, Suspect
<1>1. "suspect" \notin NoReq.facts
  BY DEF NoReq
<1>2. ASSUME "suspect" \in req[s].facts, req[s].inst = p.inst
      PROVE  ~Restart(req[s].inst)
  <2>1. ASSUME Restart(req[s].inst) PROVE p = NoReq
    BY <2>1 DEF Restart
  <2> QED BY <1>1, <2>1
<1>3. ASSUME "suspect" \in req[s].facts, p.inst = req[s].inst, p.code = req[s].code,
             p.pc = "done" /\ p.answer = 307 => Withdrawn(req[s].inst, req[s].code)
      PROVE  Suspect(p)'
  <2>1. Suspect(req[s])
    BY <1>3 DEF Suspects
  <2>2. p.inst \in Instances /\ p.code \in Codes /\ Flagged(p.inst, p.code) /\ ~Restart(p.inst)
    BY <1>2, <1>3, <2>1 DEF Suspect
  <2>3. Flagged(p.inst, p.code)'
    BY <2>2, FlaggedStays
  <2>4. p.pc = "done" /\ p.answer = 307 => Withdrawn(p.inst, p.code)'
    BY <1>3, <2>2, MarksGrow DEF Withdrawn
  <2> QED BY <2>2, <2>3, <2>4 DEF Suspect
<1>4. ASSUME p = req[s] PROVE Suspect(p)'
  <2>1. "suspect" \in req[s].facts /\ Suspect(req[s])
    BY <1>4 DEF Suspects
  <2> QED BY <1>3, <1>4, <2>1 DEF Suspect
<1>5. ASSUME NEW i \in Instances, Restart(i) PROVE Suspect(p)'
  <2>1. p = IF req[s].inst = i THEN NoReq ELSE req[s]
    BY <1>5 DEF Restart
  <2> QED BY <1>1, <1>4, <2>1
<1>6. ASSUME NEW r \in Reqs, NEW q \in Request, RequestStep(r), Moves(r, q), Alike(q, req[r]) PROVE Suspect(p)'
  <2>1. req'[r] = q /\ \A t \in Reqs : t # r => req'[t] = req[t]
    BY <1>6, MovesProperties DEF IInv
  <2>2. CASE s # r
    BY <1>4, <2>1, <2>2
  <2>3. CASE s = r
    <3>1. "suspect" \in req[r].facts /\ p.inst = req[r].inst /\ p.code = req[r].code /\ p = req'[r]
      BY <1>6, <2>1, <2>3 DEF Alike
    <3>2. ASSUME p.pc = "done", p.answer = 307 PROVE Withdrawn(req[r].inst, req[r].code)
      <4>1. req[r].code \notin interstitials[req[r].inst]
        BY <1>6, <3>1, <3>2, AnswerCases
      <4>2. Flagged(req[r].inst, req[r].code)
        BY <3>1 DEF Suspects, Suspect
      <4> QED BY <4>1, <4>2 DEF Flagged
    <3> QED BY <1>3, <2>3, <3>1, <3>2
  <2> QED BY <2>2, <2>3
<1>7. ASSUME NEW r \in Reqs, Turn(r), NEW q, Moves(r, q), Taken(q) PROVE Suspect(p)'
  <2>1. req'[r] = q /\ \A t \in Reqs : t # r => req'[t] = req[t]
    BY <1>7, MovesProperties DEF IInv
  <2>2. CASE s # r
    BY <1>4, <2>1, <2>2
  <2>3. CASE s = r
    <3>1. p = q /\ "suspect" \in q.facts
      BY <2>1, <2>3
    <3>2. PICK i \in Instances, c \in Codes : Resolves(q, i, c)
      BY <1>7, <3>1, TakenFacts
    <3>3. q.pc = "check" /\ q.inst = i /\ q.code = c /\ q.facts = Facts(i, c)
      BY <3>2 DEF Resolves, NoReq
    <3>4. /\ ~Free(c) /\ rows[c][links[c]].home = i
          /\ Below(rows[c][links[c]].host, Blocklist \cup Shorteners \cup LowTrust)
      BY <3>1, <3>3 DEF Facts
    <3>5. links[c] \in 1..Len(rows[c])
      BY <3>4, LastRow
    <3>6. rows[c][links[c]] \in Row /\ RowFlagged(c, rows[c][links[c]])
      BY <3>5, RowFacts DEF IInv, Typed, TableTyped, RowsFlagged
    <3>7. Evaluate(rows[c][links[c]].host) = "interstitial"
      <4>1. rows[c][links[c]].host \in Hosts
        BY <3>6 DEF Row
      <4>2. Evaluate(rows[c][links[c]].host) # "allow"
        BY <3>4, <4>1, BelowIsNotAllowed
      <4>3. Evaluate(rows[c][links[c]].host) # "refuse"
        BY <3>6 DEF RowFlagged
      <4> QED BY <4>2, <4>3 DEF Evaluate
    <3>8. Flagged(i, c)
      BY <3>4, <3>6, <3>7 DEF RowFlagged
    <3>9. CASE ~Restart(i)
      <4>1. Flagged(i, c)'
        BY <3>8, <3>9, FlaggedStays
      <4> QED BY <3>1, <3>3, <4>1 DEF Suspect
    <3> QED BY <1>5, <3>9
  <2> QED BY <2>2, <2>3
<1> QED BY <1>4, <1>5, <1>6, <1>7, RequestCases

(* The instance that created a link whose destination the policy does not  *)
(* let pass does not send anybody on to it plainly, except when it has the *)
(* code withdrawn: the interstitial goes in a takedown only (create_link,  *)
(* resolve, takedown).                                                     *)
THEOREM InterstitialIsShown == Spec => []OnlyTakedownSkipsInterstitial
<1>1. Init => MarkedInv /\ RowsFlagged /\ Suspects
  <2> SUFFICES ASSUME Init PROVE MarkedInv /\ RowsFlagged /\ Suspects
    OBVIOUS
  <2>1. MarkedInv
    BY BusAssumption DEF Init, Bus!Init, Bus!Idle, MarkedInv
  <2>2. RowsFlagged
    BY EmptySeq DEF Init, RowsFlagged
  <2>3. Suspects
    BY DEF Init, Suspects, NoReq
  <2> QED BY <2>1, <2>2, <2>3
<1>2. Suspects => OnlyTakedownSkipsInterstitial
  BY DEF Suspects, Suspect, OnlyTakedownSkipsInterstitial, Answered
<1> QED BY <1>1, <1>2, MarkedNext, RowsFlaggedNext, SuspectsNext, Invariance, PTL DEF Spec

-----------------------------------------------------------------------------
(* Answers and the times they are about. *)

(* n answers q, which asks as of its time for a link not older than had.   *)
Fits(q, n) ==
  IF n = NoLink
  THEN q.had = NoLink \/ Expired(rows[q.code][q.had].expires, now)
  ELSE /\ n \in 1..Len(rows[q.code])
       /\ ~Expired(rows[q.code][n].expires, q.asof)
       /\ n >= q.had

(* The link that the code had had not expired, and every earlier one had.  *)
HadOK(q) ==
  q.had # NoLink =>
    /\ q.code \in Codes /\ q.had \in 1..Len(rows[q.code])
    /\ ~Expired(rows[q.code][q.had].expires, q.asof)
    /\ \A m \in 1..(q.had - 1) : Expired(rows[q.code][m].expires, q.asof)

Loading == {"check", "get", "flight", "load", "select", "put"}

HasTarget(q) == q.pc \in {"put", "show", "page"} \/ (q.pc = "done" /\ q.answer \in {200, 307})

NotFound(q) == q.pc = "done" /\ q.answer = 404

FitOK(q) ==
  /\ HadOK(q)
  /\ q.pc \in Loading \cup {"result", "show", "page"} => q.asof <= now
  /\ q.pc \in Loading => q.asof = q.now
  /\ HasTarget(q) => q.target # NoLink /\ Fits(q, q.target)
  /\ NotFound(q) => Fits(q, NoLink)

Outcome(r) == call[thread[r].call].result

OutcomeFits(q, v) == q.pc = "result" /\ v \notin {Unset, Raised} => Fits(q, v)

FitInv == \A r \in Reqs : FitOK(req[r]) /\ OutcomeFits(req[r], Outcome(r))

LEMMA FitsStays ==
  ASSUME IInv, [Next]_vars, NEW q \in Request, q.code \in Codes, HadOK(q), NEW n \in 0..MaxRows, Fits(q, n)
  PROVE  Fits(q, n)'
<1> DEFINE c == q.code
<1>1. TableNext /\ TableTyped
  BY TableStep DEF IInv, Typed, TableTyped
<1>2. /\ Len(rows[c]) \in Nat /\ Len(rows'[c]) \in Nat /\ Len(rows[c]) <= Len(rows'[c])
      /\ \A m \in 1..Len(rows[c]) : rows'[c][m].expires = rows[c][m].expires
                                    /\ rows[c][m].expires \in Nat \cup {NoExpiry}
  BY <1>1, RowFacts DEF TableNext, RowsKeep, TableTyped
<1>3. now \in Nat /\ now' \in Nat /\ now <= now'
  BY <1>1, LinkBoundsAssumption DEF TableNext, TableTyped
<1>4. CASE n = NoLink
  <2>1. CASE q.had = NoLink
    BY <1>4, <2>1 DEF Fits
  <2>2. CASE q.had # NoLink
    <3>1. q.had \in 1..Len(rows[c]) /\ Expired(rows[c][q.had].expires, now)
      BY <1>4, <2>2 DEF Fits, HadOK
    <3>2. Expired(rows[c][q.had].expires, now')
      BY <1>2, <1>3, <3>1, ExpiredStays
    <3> QED BY <1>2, <1>4, <3>1, <3>2 DEF Fits
  <2> QED BY <2>1, <2>2
<1>5. CASE n # NoLink
  BY <1>2, <1>5 DEF Fits
<1> QED BY <1>4, <1>5

LEMMA FitOKStays ==
  ASSUME IInv, [Next]_vars, NEW q \in Request, FitOK(q), RequestOK(q, Lengths')
  PROVE  FitOK(q)'
<1>1. TableNext /\ TableTyped
  BY TableStep DEF IInv, Typed, TableTyped
<1>2. now \in Nat /\ now' \in Nat /\ now <= now' /\ q.asof \in Nat
  BY <1>1, LinkBoundsAssumption DEF TableNext, TableTyped, Request
<1>3. HadOK(q)'
  <2> SUFFICES ASSUME q.had # NoLink
               PROVE  /\ q.code \in Codes /\ q.had \in 1..Len(rows'[q.code])
                      /\ ~Expired(rows'[q.code][q.had].expires, q.asof)
                      /\ \A m \in 1..(q.had - 1) : Expired(rows'[q.code][m].expires, q.asof)
    BY DEF HadOK
  <2>1. /\ q.code \in Codes /\ q.had \in 1..Len(rows[q.code])
        /\ ~Expired(rows[q.code][q.had].expires, q.asof)
        /\ \A m \in 1..(q.had - 1) : Expired(rows[q.code][m].expires, q.asof)
    BY DEF FitOK, HadOK
  <2>2. /\ Len(rows[q.code]) \in Nat /\ Len(rows'[q.code]) \in Nat /\ Len(rows[q.code]) <= Len(rows'[q.code])
        /\ \A m \in 1..Len(rows[q.code]) : rows'[q.code][m].expires = rows[q.code][m].expires
    BY <1>1, <2>1, RowFacts DEF TableNext, RowsKeep, TableTyped
  <2> QED BY <2>1, <2>2, SMTT(40)
<1>4. HasTarget(q) \/ NotFound(q) => q.code \in Codes
  BY DEF HasTarget, NotFound, RequestOK
<1>5. q.target \in 0..MaxRows /\ NoLink \in 0..MaxRows
  BY LinkBoundsAssumption DEF Request, NoLink
<1>6. HasTarget(q) => Fits(q, q.target)'
  BY <1>4, <1>5, FitsStays DEF FitOK
<1>7. NotFound(q) => Fits(q, NoLink)'
  BY <1>4, <1>5, FitsStays DEF FitOK
<1> QED BY <1>2, <1>3, <1>6, <1>7 DEF FitOK, HasTarget, NotFound

(* A row that had not expired at the time of the request is not older than *)
(* the one it had, and if there is none, that one has expired.             *)
LEMMA TargetFits ==
  ASSUME IInv, NEW q \in Request, HadOK(q), q.code \in Codes, NEW n \in 1..Len(rows[q.code]),
         ~Expired(rows[q.code][n].expires, q.asof)
  PROVE  n # NoLink /\ Fits(q, n)
<1>1. Len(rows[q.code]) \in Nat /\ n \in Nat /\ n # 0 /\ q.had \in Nat
  BY RowFacts, LinkBoundsAssumption DEF IInv, Typed, TableTyped, Request
<1>2. n >= q.had
  <2> SUFFICES ASSUME n < q.had PROVE FALSE
    BY <1>1
  <2>1. q.had # NoLink /\ n \in 1..(q.had - 1)
    BY <1>1 DEF NoLink
  <2> QED BY <2>1 DEF HadOK
<1> QED BY <1>1, <1>2 DEF Fits, NoLink

LEMMA NoneFits ==
  ASSUME IInv, NEW q \in Request, HadOK(q), q.code \in Codes, ~Live(q.code, q.asof)
  PROVE  Fits(q, NoLink)
<1> SUFFICES ASSUME q.had # NoLink, ~Expired(rows[q.code][q.had].expires, now) PROVE FALSE
  BY DEF Fits
<1>1. q.had \in 1..Len(rows[q.code]) /\ ~Expired(rows[q.code][q.had].expires, q.asof)
  BY DEF HadOK
<1>2. links[q.code] = q.had
  BY <1>1 DEF IInv, TableOK
<1> QED BY <1>1, <1>2 DEF Live, Free

LEMMA CacheFits ==
  ASSUME IInv, EntriesInv, FitInv, NEW r \in Reqs, req[r].pc \in {"get", "load"}, InCache(r)
  PROVE  FromCache(r) \in 1..MaxRows /\ FromCache(r) # NoLink /\ Fits(req[r], FromCache(r))
<1> DEFINE i == req[r].inst
           c == req[r].code
           e == EntryOf(lru[i], c)
<1>1. /\ e \in Entries(lru[i], c) /\ e \in CacheEntry /\ ~Expired(e.expires, req[r].now)
      /\ FromCache(r) = e.value.target /\ FromCache(r) \in 1..MaxRows
  BY InCacheProperties
<1>2. i \in Instances /\ c \in Codes /\ req[r] \in Request
  BY DEF IInv, Typed, RequestsOK
<1> HIDE DEF e
<1>3. e.key = c /\ OfItsRow(e)
  <2>1. DOMAIN lru[i] = 1..Len(lru[i])
    BY <1>2, CacheFacts DEF CacheTyped
  <2>2. PICK n \in 1..Len(lru[i]) : e = lru[i][n] /\ lru[i][n].key = c
    BY <1>1, <2>1 DEF Entries
  <2> QED BY <1>2, <2>2 DEF EntriesInv
<1>4. req[r].asof = req[r].now /\ HadOK(req[r])
  BY DEF FitInv, FitOK, Loading
<1>5. FromCache(r) \in 1..Len(rows[c]) /\ ~Expired(rows[c][FromCache(r)].expires, req[r].asof)
  BY <1>1, <1>3, <1>4 DEF OfItsRow
<1> QED BY <1>1, <1>2, <1>4, <1>5, TargetFits

(* What a step does to the flight, and what a load comes to. *)
LEMMA FlightCases ==
  ASSUME IInv, EntriesInv, FitInv, NEW r \in Reqs, RequestStep(r)
  PROVE  \/ UNCHANGED flightVars /\ req'[r].pc # "result"
         \/ Flight!Lead(r, Key(r)) /\ Goto(r, "load")
         \/ EnterFlight(r) /\ Flight!Join(r, Key(r))
         \/ \E v \in 0..MaxRows \cup {Raised} :
              /\ Flight!FnEnds(r, v) /\ Goto(r, "result")
              /\ v = Raised \/ Fits(req[r], v)
         \/ FlightStep(r)
         \/ TakeResult(r)
<1>0. req \in [Reqs -> Request] /\ req[r] \in Request
  BY DEF IInv, Typed
<1>1. ASSUME NEW pc, Goto(r, pc) PROVE req'[r].pc = pc
  BY <1>0, <1>1 DEF Goto, Request
<1>2. ASSUME NEW n, Answer(r, n) PROVE req'[r].pc = "done"
  BY <1>0, <1>2 DEF Answer, Request
<1>3. ASSUME NEW pc, NEW n, req' = [req EXCEPT ![r].pc = pc, ![r].target = n] PROVE req'[r].pc = pc
  BY <1>0, <1>3 DEF Request
<1>4. FitOK(req[r])
  BY DEF FitInv
<1>5. CASE FlagLink(r) \/ CheckTakedown(r) \/ CheckInterstitial(r) \/ ReadInterstitial(r)
  BY <1>1, <1>2, <1>5 DEF FlagLink, CheckTakedown, CheckInterstitial, ReadInterstitial
<1>6. CASE CacheGet(r)
  BY <1>3, <1>6 DEF CacheGet
<1>7. CASE EnterFlight(r)
  BY <1>7 DEF EnterFlight
<1>8. CASE LoadGet(r)
  <2>1. CASE InCache(r)
    <3>1. FromCache(r) \in 1..MaxRows /\ Fits(req[r], FromCache(r))
      BY <1>8, <2>1, CacheFits DEF LoadGet
    <3>2. FromCache(r) \in 0..MaxRows
      BY <3>1
    <3> QED BY <1>8, <2>1, <3>1, <3>2 DEF LoadGet
  <2>2. CASE ~InCache(r)
    BY <1>1, <1>8, <2>2 DEF LoadGet
  <2> QED BY <2>1, <2>2
<1>9. CASE LoadSelect(r)
  <2>1. CASE Live(req[r].code, req[r].now)
    BY <1>3, <1>9, <2>1 DEF LoadSelect
  <2>2. CASE ~Live(req[r].code, req[r].now)
    <3>1. req[r].code \in Codes /\ req[r].asof = req[r].now /\ HadOK(req[r])
      BY <1>4, <1>9 DEF LoadSelect, IInv, RequestsOK, FitOK, Loading
    <3>2. Fits(req[r], NoLink) /\ NoLink \in 0..MaxRows
      BY <1>0, <2>2, <3>1, NoneFits, LinkBoundsAssumption DEF NoLink
    <3> QED BY <1>9, <2>2, <3>2 DEF LoadSelect
  <2> QED BY <2>1, <2>2
<1>10. CASE LoadSelectFails(r)
  BY <1>10 DEF LoadSelectFails
<1>11. CASE LoadPut(r)
  <2>1. req[r].target \in 0..MaxRows
    BY <1>0 DEF Request
  <2>2. req[r].pc = "put"
    BY <1>11 DEF LoadPut
  <2>3. req[r].pc \in {"put", "show", "page"}
    BY <2>2
  <2>4. HasTarget(req[r])
    BY <2>3 DEF HasTarget
  <2>5. Fits(req[r], req[r].target)
    BY <1>4, <2>4 DEF FitOK
  <2> QED BY <1>11, <2>1, <2>5 DEF LoadPut
<1> QED BY <1>5, <1>6, <1>7, <1>8, <1>9, <1>10, <1>11 DEF RequestStep

(* Fits is about the code, the link it had and the time only. *)
SameLoad(q, p) == q.code = p.code /\ q.had = p.had /\ q.asof = p.asof

LEMMA SameFits ==
  ASSUME NEW p, NEW q, SameLoad(q, p)
  PROVE  /\ \A n : Fits(p, n) => Fits(q, n)
         /\ HadOK(p) => HadOK(q)
BY DEF SameLoad, Fits, HadOK

Underway == Loading \cup {"result", "show", "page"}

(* A request that goes on with the load it is about. *)
LEMMA FitMove ==
  ASSUME NEW p, NEW q, FitOK(p), SameLoad(q, p), q.now = p.now,
         q.pc \in Underway => p.pc \in Underway,
         q.pc \in Loading => p.pc \in Loading,
         HasTarget(q) => q.target # NoLink /\ Fits(p, q.target),
         NotFound(q) => Fits(p, NoLink)
  PROVE  FitOK(q)
<1>1. q.asof = p.asof
  BY DEF SameLoad
<1>2. q.pc \in Loading \cup {"result", "show", "page"} => q.asof <= now
  BY <1>1 DEF FitOK, Underway
<1>3. q.pc \in Loading => q.asof = q.now
  BY <1>1 DEF FitOK
<1>4. HadOK(q)
  BY SameFits DEF FitOK
<1>5. /\ HasTarget(q) => q.target # NoLink /\ Fits(q, q.target)
      /\ NotFound(q) => Fits(q, NoLink)
  BY SameFits
<1> QED BY <1>2, <1>3, <1>4, <1>5 DEF FitOK

LEMMA FitGoto ==
  ASSUME IInv, FitInv, NEW r \in Reqs, req[r].pc \in Underway,
         \/ Goto(r, "get") /\ req[r].pc \in Loading
         \/ Goto(r, "load") /\ req[r].pc \in Loading
         \/ Goto(r, "select") /\ req[r].pc \in Loading
         \/ Goto(r, "result")
         \/ Goto(r, "page") /\ HasTarget(req[r])
  PROVE  FitOK(req'[r]) /\ SameLoad(req'[r], req[r])
<1> DEFINE p == req[r]
           q == req'[r]
<1>1. req \in [Reqs -> Request] /\ p \in Request /\ FitOK(p)
  BY DEF IInv, Typed, FitInv
<1>2. ASSUME NEW pc, Goto(r, pc)
      PROVE  /\ q.pc = pc /\ SameLoad(q, p) /\ q.now = p.now /\ q.target = p.target
  BY <1>1, <1>2 DEF Goto, Request, SameLoad
<1>3. CASE \E pc \in {"get", "load", "select"} : Goto(r, pc) /\ p.pc \in Loading
  <2>1. q.pc \in {"get", "load", "select"} /\ SameLoad(q, p) /\ q.now = p.now /\ p.pc \in Loading
    BY <1>2, <1>3
  <2>2. ~HasTarget(q) /\ ~NotFound(q)
    BY <2>1 DEF HasTarget, NotFound
  <2> HIDE DEF p, q
  <2>3. FitOK(q)
    BY <1>1, <2>1, <2>2, FitMove DEF p
  <2> QED BY <2>1, <2>3 DEF p, q
<1>4. CASE Goto(r, "result")
  <2>1. q.pc = "result" /\ SameLoad(q, p) /\ q.now = p.now
    BY <1>2, <1>4
  <2>2. ~HasTarget(q) /\ ~NotFound(q) /\ q.pc \notin Loading
    BY <2>1 DEF HasTarget, NotFound, Loading
  <2>3. p.pc \in Underway
    OBVIOUS
  <2> HIDE DEF p, q
  <2>4. FitOK(q)
    BY <1>1, <2>1, <2>2, <2>3, FitMove
  <2> QED BY <2>1, <2>4 DEF p, q
<1>5. CASE Goto(r, "page") /\ HasTarget(p)
  <2>1. q.pc = "page" /\ SameLoad(q, p) /\ q.now = p.now /\ q.target = p.target
    BY <1>2, <1>5
  <2>2. ~NotFound(q) /\ q.pc \notin Loading
    BY <2>1 DEF NotFound, Loading
  <2>3. p.pc \in Underway /\ q.target # NoLink /\ Fits(p, q.target)
    BY <1>1, <1>5, <2>1 DEF FitOK
  <2> HIDE DEF p, q
  <2>4. FitOK(q)
    BY <1>1, <2>1, <2>2, <2>3, FitMove
  <2> QED BY <2>1, <2>4 DEF p, q
<1> QED BY <1>3, <1>4, <1>5

LEMMA FitAnswer ==
  ASSUME IInv, FitInv, NEW r \in Reqs, NEW n, Answer(r, n),
         n \in {200, 307} => HasTarget(req[r]),
         n = 404 => Fits(req[r], NoLink)
  PROVE  FitOK(req'[r])
<1> DEFINE p == req[r]
           q == req'[r]
<1>1. req \in [Reqs -> Request] /\ p \in Request /\ FitOK(p)
  BY DEF IInv, Typed, FitInv
<1>2. q.pc = "done" /\ q.answer = n /\ SameLoad(q, p) /\ q.now = p.now /\ q.target = p.target
  BY <1>1 DEF Answer, Request, SameLoad
<1>3. q.pc \notin Underway /\ q.pc \notin Loading
  BY <1>2 DEF Underway, Loading
<1>4. HasTarget(q) => q.target # NoLink /\ Fits(p, q.target)
  <2>1. HasTarget(q) => n \in {200, 307}
    BY <1>2 DEF HasTarget
  <2> QED BY <1>1, <1>2, <2>1 DEF FitOK
<1>5. NotFound(q) => Fits(p, NoLink)
  BY <1>2 DEF NotFound
<1> HIDE DEF p, q
<1>6. FitOK(q)
  BY <1>1, <1>2, <1>3, <1>4, <1>5, FitMove
<1> QED BY <1>6 DEF q

(* A request that looks up a target that fits, or none. *)
LEMMA FitTarget ==
  ASSUME IInv, FitInv, NEW r \in Reqs, NEW pc \in {"flight", "put", "show"}, NEW n,
         req' = [req EXCEPT ![r].pc = pc, ![r].target = n],
         req[r].pc \in Underway, pc # "show" => req[r].pc \in Loading,
         pc # "flight" => n # NoLink /\ Fits(req[r], n)
  PROVE  FitOK(req'[r])
<1> DEFINE p == req[r]
           q == req'[r]
<1>1. req \in [Reqs -> Request] /\ p \in Request /\ FitOK(p)
  BY DEF IInv, Typed, FitInv
<1>2. q.pc = pc /\ SameLoad(q, p) /\ q.now = p.now /\ q.target = n
  BY <1>1 DEF Request, SameLoad
<1>3. p.pc \in Underway /\ (q.pc \in Loading => p.pc \in Loading)
  BY <1>2 DEF Loading
<1>4. HasTarget(q) => q.target # NoLink /\ Fits(p, q.target)
  <2>1. HasTarget(q) => pc # "flight"
    BY <1>2 DEF HasTarget
  <2> QED BY <1>2, <2>1
<1>5. ~NotFound(q)
  BY <1>2 DEF NotFound
<1> HIDE DEF p, q
<1>6. FitOK(q)
  BY <1>1, <1>2, <1>3, <1>4, <1>5, FitMove
<1> QED BY <1>6 DEF q

(* What a load that a request shares came to. *)
LEMMA OutcomeIsAResult ==
  ASSUME IInv, NEW r \in Reqs, thread[r].pc = "return"
  PROVE  /\ thread[r].result = Outcome(r) /\ thread[r].result \in 0..MaxRows \cup {Raised}
         /\ req[r].pc = "result" /\ Outcome(r) # Unset /\ NoLink # Raised
<1>1. /\ thread[r].result \in 0..MaxRows \cup {Raised} /\ req[r].pc = "result"
      /\ call[thread[r].call].result = thread[r].result
  BY ResultFacts
<1>2. NoLink \in 0..MaxRows
  BY LinkBoundsAssumption DEF NoLink
<1> QED BY <1>1, <1>2, FlightAssumption DEF Outcome

LEMMA RequestFits ==
  ASSUME IInv, EntriesInv, FitInv, NEW r \in Reqs, RequestStep(r)
  PROVE  FitOK(req'[r])
<1>1. req \in [Reqs -> Request] /\ req[r] \in Request /\ FitOK(req[r])
  BY DEF IInv, Typed, FitInv
<1>2. CASE FlagLink(r)
  <2>1. Answer(r, 201)
    BY <1>2 DEF FlagLink
  <2> QED BY <2>1, FitAnswer
<1>3. CASE CheckTakedown(r)
  <2>1. req[r].pc \in Loading /\ req[r].pc \in Underway
    BY <1>3 DEF CheckTakedown, Loading, Underway
  <2>2. Answer(r, 410) \/ Goto(r, "get")
    BY <1>3 DEF CheckTakedown
  <2> QED BY <2>1, <2>2, FitAnswer, FitGoto
<1>4. CASE CacheGet(r)
  <2>1. req[r].pc = "get" /\ req[r].pc \in Loading /\ req[r].pc \in Underway
    BY <1>4 DEF CacheGet, Loading, Underway
  <2>2. CASE InCache(r)
    <3>1. FromCache(r) # NoLink /\ Fits(req[r], FromCache(r))
      BY <2>1, <2>2, CacheFits
    <3>2. req' = [req EXCEPT ![r].pc = "show", ![r].target = FromCache(r)]
      BY <1>4, <2>2 DEF CacheGet
    <3> QED BY <2>1, <3>1, <3>2, FitTarget
  <2>3. CASE ~InCache(r)
    <3>1. req' = [req EXCEPT ![r].pc = "flight", ![r].target = NoLink]
      BY <1>4, <2>3 DEF CacheGet
    <3> QED BY <2>1, <3>1, FitTarget
  <2> QED BY <2>2, <2>3
<1>5. CASE EnterFlight(r)
  <2>1. req[r].pc \in Loading /\ req[r].pc \in Underway
    BY <1>5 DEF EnterFlight, Loading, Underway
  <2>2. CASE Goto(r, "load")
    BY <2>1, <2>2, FitGoto
  <2>3. CASE ~Goto(r, "load")
    <3> DEFINE l == Leader(Key(r))
               q == req'[r]
    <3>1. /\ Flight!Join(r, Key(r))
          /\ req' = [req EXCEPT ![r].pc = "result", ![r].had = req[l].had, ![r].asof = req[l].asof]
      BY <1>5, <2>3 DEF EnterFlight
    <3>2. Key(r) \in Instances \X Codes /\ calls[Key(r)] # NoCall
      BY <1>5, <3>1 DEF EnterFlight, Flight!Join, IInv, RequestsOK, Key
    <3>3. l \in Reqs /\ thread[l].pc \in {"run", "pop"} /\ Key(l) = Key(r)
      BY <3>2, LeaderProperties
    <3>4. req[l].pc \in {"load", "select", "put", "result"} /\ FitOK(req[l])
      BY <3>3 DEF IInv, FlightInv, InFlight, FitInv
    <3>5. q.pc = "result" /\ q.code = req[r].code /\ q.had = req[l].had /\ q.asof = req[l].asof
      BY <1>1, <3>1 DEF Request
    <3>6. SameLoad(q, req[l])
      BY <3>3, <3>5 DEF SameLoad, Key
    <3>7. HadOK(q) /\ q.asof <= now
      BY <3>4, <3>5, <3>6, SameFits DEF FitOK, Loading
    <3>8. ~HasTarget(q) /\ ~NotFound(q) /\ q.pc \notin Loading
      BY <3>5 DEF HasTarget, NotFound, Loading
    <3> HIDE DEF q
    <3>9. FitOK(q)
      BY <3>7, <3>8 DEF FitOK
    <3> QED BY <3>9 DEF q
  <2> QED BY <2>2, <2>3
<1>6. CASE LoadGet(r) \/ LoadSelectFails(r) \/ LoadPut(r)
  <2>1. req[r].pc \in {"load", "select", "put"} /\ req[r].pc \in Loading /\ req[r].pc \in Underway
    BY <1>6 DEF LoadGet, LoadSelectFails, LoadPut, Loading, Underway
  <2>2. Goto(r, "result") \/ Goto(r, "select")
    BY <1>6 DEF LoadGet, LoadSelectFails, LoadPut
  <2> QED BY <2>1, <2>2, FitGoto
<1>7. CASE LoadSelect(r)
  <2>1. req[r].pc \in Loading /\ req[r].pc \in Underway /\ req[r].code \in Codes
    BY <1>7 DEF LoadSelect, Loading, Underway, IInv, RequestsOK
  <2>2. CASE Live(req[r].code, req[r].now)
    <3> DEFINE n == links[req[r].code]
    <3>1. req' = [req EXCEPT ![r].pc = "put", ![r].target = n]
      BY <1>7, <2>2 DEF LoadSelect
    <3>2. req[r].asof = req[r].now /\ HadOK(req[r])
      BY <1>1, <2>1 DEF FitOK
    <3>3. n \in 1..Len(rows[req[r].code]) /\ ~Expired(rows[req[r].code][n].expires, req[r].asof)
      BY <2>1, <2>2, <3>2, LiveRow
    <3>4. n # NoLink /\ Fits(req[r], n)
      BY <1>1, <2>1, <3>2, <3>3, TargetFits
    <3> QED BY <2>1, <3>1, <3>4, FitTarget
  <2>3. CASE ~Live(req[r].code, req[r].now)
    <3>1. Goto(r, "result")
      BY <1>7, <2>3 DEF LoadSelect
    <3> QED BY <2>1, <3>1, FitGoto
  <2> QED BY <2>2, <2>3
<1>8. CASE FlightStep(r)
  BY <1>1, <1>8 DEF FlightStep
<1>9. CASE TakeResult(r)
  <2> DEFINE v == thread[r].result
  <2>1. thread[r].pc = "return"
    BY <1>9 DEF TakeResult, Flight!Leave
  <2>2. /\ v = Outcome(r) /\ v # Unset /\ NoLink # Raised
        /\ req[r].pc = "result" /\ req[r].pc \in Underway
    BY <2>1, OutcomeIsAResult DEF Underway
  <2>3. v # Raised => Fits(req[r], v)
    BY <2>2 DEF FitInv, OutcomeFits
  <2>4. CASE v = NoLink /\ Answer(r, 404)
    BY <2>2, <2>3, <2>4, FitAnswer
  <2>5. CASE Answer(r, 500)
    BY <2>5, FitAnswer
  <2>6. CASE v \notin {NoLink, Raised} /\ req' = [req EXCEPT ![r].pc = "show", ![r].target = v]
    BY <2>2, <2>3, <2>6, FitTarget
  <2> QED BY <1>9, <2>4, <2>5, <2>6 DEF TakeResult
<1>10. CASE CheckInterstitial(r) \/ ReadInterstitial(r)
  <2>1. req[r].pc \in {"show", "page"} /\ req[r].pc \in Underway
    BY <1>10 DEF CheckInterstitial, ReadInterstitial, Underway
  <2>2. HasTarget(req[r])
    BY <2>1 DEF HasTarget
  <2>3. Goto(r, "page") \/ Answer(r, 307) \/ Answer(r, 200) \/ Answer(r, 500)
    BY <1>10 DEF CheckInterstitial, ReadInterstitial
  <2> QED BY <2>1, <2>2, <2>3, FitGoto, FitAnswer
<1> QED BY <1>2, <1>3, <1>4, <1>5, <1>6, <1>7, <1>8, <1>9, <1>10 DEF RequestStep

(* The threads and the call objects that a step of SingleFlight leaves be. *)
LEMMA OthersStay ==
  ASSUME IInv, NEW r \in Reqs, NEW s \in Reqs, s # r, thread[s].pc # "out"
  PROVE  /\ \A k : Flight!Lead(r, k) => Outcome(s)' = Outcome(s)
         /\ \A k : Flight!Join(r, k) => Outcome(s)' = Outcome(s)
         /\ Flight!Leave(r) => Outcome(s)' = Outcome(s)
<1>1. FP!TypeOK
  BY DEF IInv, FlightInv, FP!IInv
<1>2. ASSUME NEW k, Flight!Lead(r, k) PROVE Outcome(s)' = Outcome(s)
  <2>1. PICK c \in Calls :
          /\ \A t \in Reqs : thread[t].pc # "out" => thread[t].call # c
          /\ call' = [call EXCEPT ![c] = Flight!NewCall]
          /\ thread' = [thread EXCEPT ![r] = [pc |-> "run", key |-> k, call |-> c, result |-> Unset]]
    BY <1>2 DEF Flight!Lead, Flight!Fresh, Flight!Holds, Flight!Outside
  <2>2. thread'[s] = thread[s] /\ thread[s].call # c
    BY <1>1, <2>1 DEF FP!TypeOK
  <2>3. thread[s].call \in Calls
    BY <1>1 DEF FP!TypeOK, FP!Outside
  <2>4. call'[thread[s].call] = call[thread[s].call]
    BY <1>1, <2>1, <2>2, <2>3 DEF FP!TypeOK
  <2> QED BY <2>2, <2>4 DEF Outcome
<1>3. ASSUME NEW k, Flight!Join(r, k) PROVE Outcome(s)' = Outcome(s)
  BY <1>1, <1>3 DEF Flight!Join, FP!TypeOK, Outcome
<1>4. ASSUME Flight!Leave(r) PROVE Outcome(s)' = Outcome(s)
  BY <1>1, <1>4 DEF Flight!Leave, FP!TypeOK, Outcome
<1> QED BY <1>2, <1>3, <1>4

(* The function of a call object ends: those who share it have its value.  *)
LEMMA EndedOutcome ==
  ASSUME IInv, NEW r \in Reqs, NEW v \in 0..MaxRows \cup {Raised}, Flight!FnEnds(r, v),
         NEW s \in Reqs, thread'[s].pc # "out"
  PROVE  \/ thread[s].pc # "out" /\ thread[s].call = thread[r].call /\ Outcome(s)' = v
         \/ s # r /\ Outcome(s)' = Outcome(s)
<1>1. FP!TypeOK
  BY DEF IInv, FlightInv, FP!IInv
<1>2. thread[r].pc = "run" /\ thread[r].call \in Calls
  BY <1>1 DEF Flight!FnEnds, FP!TypeOK, FP!Outside
<1>3. /\ thread'[s].call = thread[s].call
      /\ s # r => thread'[s] = thread[s]
  BY CallsStay
<1>4. thread[s].pc # "out" /\ thread[s].call \in Calls
  BY <1>1, <1>2, <1>3 DEF FP!TypeOK, FP!Outside
<1>5. /\ call'[thread[r].call].result = v
      /\ \A d \in Calls : d # thread[r].call => call'[d] = call[d]
  BY <1>1, <1>2 DEF Flight!FnEnds, FP!TypeOK
<1>6. CASE thread[s].call = thread[r].call
  BY <1>3, <1>4, <1>5, <1>6 DEF Outcome
<1>7. CASE thread[s].call # thread[r].call
  BY <1>3, <1>4, <1>5, <1>7 DEF Outcome
<1> QED BY <1>6, <1>7

LEMMA KeptOutcome ==
  ASSUME IInv, NEW r \in Reqs, NEW s \in Reqs, FlightStep(r), thread[s].pc # "out"
  PROVE  Outcome(s)' = Outcome(s)
<1>1. FP!TypeOK
  BY DEF IInv, FlightInv, FP!IInv
<1>2. thread'[s].call = thread[s].call /\ thread[s].call \in Calls
  BY <1>1, CallsStay DEF FlightStep, FP!TypeOK, FP!Outside
<1>3. \A c \in Calls : call'[c].result = call[c].result
  <2>1. CASE Flight!SetDone(r)
    BY <1>1, <2>1 DEF Flight!SetDone, FP!TypeOK
  <2>2. CASE Flight!Pop(r) \/ Flight!Wake(r)
    BY <2>2 DEF Flight!Pop, Flight!Wake
  <2> QED BY <2>1, <2>2 DEF FlightStep
<1> QED BY <1>2, <1>3 DEF Outcome

(* What is in store for a request that waits fits it. *)
LEMMA ResultFits ==
  ASSUME IInv, EntriesInv, FitInv, NEW r \in Reqs, RequestStep(r), InFlight',
         NEW s \in Reqs, NEW p, p = req'[s], p.pc = "result",
         NEW v, v = Outcome(s)', v \notin {Unset, Raised}
  PROVE  Fits(p, v)
<1>0. req \in [Reqs -> Request] /\ FP!TypeOK
  BY DEF IInv, Typed, FlightInv, FP!IInv
<1>1. s # r => p = req[s]
  <2>1. PICK q \in Request : Moves(r, q)
    BY RequestKeeps
  <2> QED BY <2>1, MovesProperties DEF IInv
<1>2. s # r => thread[s].pc # "out"
  BY <1>1 DEF IInv, FlightInv, InFlight
<1>3. ASSUME s # r, Outcome(s)' = Outcome(s) PROVE Fits(p, v)
  BY <1>1, <1>3 DEF FitInv, OutcomeFits
<1>4. CASE UNCHANGED flightVars /\ req'[r].pc # "result"
  <2>1. s # r
    BY <1>4
  <2>2. Outcome(s)' = Outcome(s)
    BY <1>4 DEF flightVars, Outcome
  <2> QED BY <1>3, <2>1, <2>2
<1>5. CASE Flight!Lead(r, Key(r)) /\ Goto(r, "load")
  <2>1. req'[r].pc = "load"
    BY <1>0, <1>5 DEF Goto, Request
  <2>2. s # r
    BY <2>1
  <2> QED BY <1>2, <1>3, <1>5, <2>2, OthersStay
<1>6. CASE EnterFlight(r) /\ Flight!Join(r, Key(r))
  <2>1. CASE s # r
    BY <1>2, <1>3, <1>6, <2>1, OthersStay
  <2>2. CASE s = r
    <3> DEFINE l == Leader(Key(r))
    <3>1. Key(r) \in Instances \X Codes /\ calls[Key(r)] # NoCall
      BY <1>6 DEF EnterFlight, Flight!Join, IInv, RequestsOK, Key
    <3>2. l \in Reqs /\ thread[l].pc \in {"run", "pop"} /\ Key(l) = Key(r) /\ thread[l].call = calls[Key(r)]
      BY <3>1, LeaderProperties
    <3>3. req' = [req EXCEPT ![r].pc = "result", ![r].had = req[l].had, ![r].asof = req[l].asof]
      <4>1. ~Flight!Lead(r, Key(r))
        BY <3>1 DEF Flight!Lead
      <4> QED BY <1>6, <4>1 DEF EnterFlight
    <3>4. p.code = req[r].code /\ p.had = req[l].had /\ p.asof = req[l].asof
      BY <1>0, <2>2, <3>3 DEF Request
    <3>5. SameLoad(p, req[l])
      BY <3>2, <3>4 DEF SameLoad, Key
    <3>6. v = Outcome(l)
      BY <1>0, <1>6, <2>2, <3>2 DEF Flight!Join, FP!TypeOK, Outcome
    <3>7. thread[l].pc = "pop"
      BY <3>2, <3>6 DEF IInv, FlightInv, FP!ResultInv, Outcome
    <3>8. req[l].pc = "result"
      BY <3>2, <3>7 DEF IInv, FlightInv, InFlight
    <3>9. Fits(req[l], v)
      BY <3>2, <3>6, <3>8 DEF FitInv, OutcomeFits
    <3> QED BY <3>5, <3>9, SameFits
  <2> QED BY <2>1, <2>2
<1>7. ASSUME NEW x \in 0..MaxRows \cup {Raised}, Flight!FnEnds(r, x), Goto(r, "result"),
             x = Raised \/ Fits(req[r], x)
      PROVE  Fits(p, v)
  <2>1. thread'[s].pc # "out"
    BY DEF InFlight
  <2>2. CASE s # r /\ Outcome(s)' = Outcome(s)
    BY <1>3, <2>2
  <2>3. CASE thread[s].pc # "out" /\ thread[s].call = thread[r].call /\ Outcome(s)' = x
    <3>1. thread[r].pc # "out"
      BY <1>7 DEF Flight!FnEnds
    <3>2. Key(s) = Key(r) /\ req[s].had = req[r].had /\ req[s].asof = req[r].asof
      BY <2>3, <3>1 DEF IInv, FlightInv, InFlight
    <3>3. p.code = req[s].code /\ p.had = req[s].had /\ p.asof = req[s].asof
      BY <1>0, <1>1, <1>7 DEF Goto, Request
    <3>4. SameLoad(p, req[r])
      BY <3>2, <3>3 DEF SameLoad, Key
    <3> QED BY <1>7, <2>3, <3>4, SameFits
  <2> QED BY <1>7, <2>1, <2>2, <2>3, EndedOutcome
<1>8. CASE FlightStep(r)
  <2>1. p = req[s]
    BY <1>8 DEF FlightStep
  <2>2. thread[s].pc # "out"
    BY <2>1 DEF IInv, FlightInv, InFlight
  <2>3. v = Outcome(s)
    BY <1>8, <2>2, KeptOutcome
  <2> QED BY <2>1, <2>3 DEF FitInv, OutcomeFits
<1>9. CASE TakeResult(r)
  <2>1. req'[r].pc # "result"
    <3>1. ASSUME NEW n, Answer(r, n) PROVE req'[r].pc = "done"
      BY <1>0, <3>1 DEF Answer, Request
    <3>2. ASSUME NEW n, req' = [req EXCEPT ![r].pc = "show", ![r].target = n] PROVE req'[r].pc = "show"
      BY <1>0, <3>2 DEF Request
    <3> QED BY <1>9, <3>1, <3>2 DEF TakeResult
  <2>2. s # r /\ Flight!Leave(r)
    BY <1>9, <2>1 DEF TakeResult
  <2> QED BY <1>2, <1>3, <2>2, OthersStay
<1> QED BY <1>4, <1>5, <1>6, <1>7, <1>8, <1>9, FlightCases

(* A thread that begins to resolve: the link that the code has, if any.    *)
LEMMA TakenFits ==
  ASSUME IInv, NEW q, Taken(q)
  PROVE  FitOK(q) /\ q.pc # "result"
<1>1. ASSUME NEW i \in Instances, NEW c \in Codes, Resolves(q, i, c)
      PROVE  FitOK(q) /\ q.pc # "result"
  <2>1. /\ q.pc = "check" /\ q.code = c /\ q.now = now /\ q.asof = now
        /\ q.had = IF Live(c, now) THEN links[c] ELSE NoLink
    BY <1>1 DEF Resolves, NoReq
  <2>2. now \in Nat
    BY LinkBoundsAssumption DEF IInv, Typed
  <2>3. ASSUME q.had # NoLink
        PROVE  /\ q.had \in 1..Len(rows[c]) /\ ~Expired(rows[c][q.had].expires, now)
               /\ \A m \in 1..(q.had - 1) : Expired(rows[c][m].expires, now)
    <3>1. Live(c, now) /\ q.had = links[c]
      BY <2>1, <2>3
    <3>2. q.had \in 1..Len(rows[c]) /\ ~Expired(rows[c][q.had].expires, now)
      BY <3>1, LiveRow
    <3>3. Len(rows[c]) \in Nat
      BY DEF IInv, Typed
    <3>4. ASSUME NEW m \in 1..(q.had - 1) PROVE Expired(rows[c][m].expires, now)
      <4>1. m \in 1..Len(rows[c]) /\ m # links[c]
        BY <3>1, <3>2, <3>3
      <4> QED BY <4>1 DEF IInv, TableOK
    <3> QED BY <3>2, <3>4
  <2>4. HadOK(q)
    BY <2>1, <2>3 DEF HadOK
  <2>5. ~HasTarget(q) /\ ~NotFound(q)
    BY <2>1 DEF HasTarget, NotFound
  <2> QED BY <2>1, <2>2, <2>4, <2>5 DEF FitOK
<1>2. ASSUME q.had = NoLink, q.pc \in {"idle", "flag"} \/ (q.pc = "done" /\ q.answer \in {422, 500})
      PROVE  FitOK(q) /\ q.pc # "result"
  <2>1. ~HasTarget(q) /\ ~NotFound(q) /\ q.pc \notin Loading \cup {"result", "show", "page"}
    BY <1>2 DEF HasTarget, NotFound, Loading
  <2>2. HadOK(q)
    BY <1>2 DEF HadOK
  <2> QED BY <2>1, <2>2 DEF FitOK
<1>3. CASE q = NoReq
  BY <1>2, <1>3 DEF NoReq
<1>4. ASSUME NEW i, NEW c,
             q = [NoReq EXCEPT !.pc = "flag", !.inst = i, !.code = c, !.target = links'[c]]
      PROVE  FitOK(q) /\ q.pc # "result"
  BY <1>2, <1>4 DEF NoReq
<1>5. CASE Rejects(q)
  BY <1>2, <1>5 DEF Rejects, Rejected, NoReq
<1> QED BY <1>1, <1>3, <1>4, <1>5, ZenonT(60) DEF Taken

LEMMA FitNext ==
  IInv /\ EntriesInv /\ FitInv /\ [Next]_vars => FitInv'
<1> SUFFICES ASSUME IInv, EntriesInv, FitInv, [Next]_vars, NEW s \in Reqs,
                    NEW p, p = req'[s], NEW v, v = Outcome(s)'
             PROVE  FitOK(p)' /\ (OutcomeFits(p, v))'
  BY DEF FitInv
<1>1. IInv'
  BY InvNext
<1>2. p \in Request /\ RequestOK(p, Lengths')
  <2>1. req' \in [Reqs -> Request]
    BY RequestsTyped DEF RequestsNext
  <2>2. RequestsOK'
    BY RequestsTyped DEF RequestsNext
  <2>3. p.code \in Codes => Lengths'[p.code] = Len(rows'[p.code])
    BY DEF Lengths
  <2> QED BY <2>1, <2>2, <2>3 DEF RequestsOK, RequestOK
<1>3. ASSUME FitOK(p), OutcomeFits(p, v) PROVE FitOK(p)' /\ (OutcomeFits(p, v))'
  <2>1. FitOK(p)'
    BY <1>2, <1>3, FitOKStays
  <2>2. ASSUME p.pc = "result", v \notin {Unset, Raised} PROVE Fits(p, v)'
    <3>1. v \in 0..MaxRows
      <4>1. thread'[s].pc # "out"
        BY <1>1, <2>2 DEF IInv, FlightInv, InFlight
      <4>2. FP!TypeOK'
        BY <1>1 DEF IInv, FlightInv, FP!IInv
      <4>3. thread'[s].call \in Calls
        BY <4>1, <4>2 DEF FP!TypeOK, FP!Outside
      <4>4. v \in 0..MaxRows \cup {Raised, Unset}
        BY <4>2, <4>3 DEF FP!TypeOK, FP!Results, Outcome
      <4> QED BY <2>2, <4>4
    <3>2. p.code \in Codes
      BY <1>2, <2>2 DEF RequestOK
    <3>3. HadOK(p) /\ Fits(p, v)
      BY <1>3, <2>2 DEF FitOK, OutcomeFits
    <3> QED BY <1>2, <3>1, <3>2, <3>3, FitsStays
  <2> QED BY <2>1, <2>2 DEF OutcomeFits
<1>4. ASSUME p = req[s], call' = call, thread'[s] = thread[s] PROVE FitOK(p) /\ OutcomeFits(p, v)
  BY <1>4 DEF FitInv, Outcome
<1>5. ASSUME FitOK(p), p.pc # "result" PROVE FitOK(p) /\ OutcomeFits(p, v)
  BY <1>5 DEF OutcomeFits
<1>6. ASSUME NEW r \in Reqs, RequestStep(r) PROVE FitOK(p) /\ OutcomeFits(p, v)
  <2>1. FitOK(p)
    <3>1. CASE s = r
      BY <1>6, <3>1, RequestFits
    <3>2. CASE s # r
      <4>1. PICK q \in Request : Moves(r, q)
        BY <1>6, RequestKeeps
      <4>2. p = req[s]
        BY <3>2, <4>1, MovesProperties DEF IInv
      <4> QED BY <4>2 DEF FitInv
    <3> QED BY <3>1, <3>2
  <2>2. InFlight'
    BY <1>1 DEF IInv, FlightInv
  <2>3. OutcomeFits(p, v)
    BY <1>6, <2>2, ResultFits DEF OutcomeFits
  <2> QED BY <2>1, <2>3
<1>7. ASSUME NEW r \in Reqs, Turn(r) PROVE FitOK(p) /\ OutcomeFits(p, v)
  <2>1. PICK q : Moves(r, q) /\ Taken(q)
    BY <1>7, TurnProperties
  <2>2. req'[r] = q /\ \A t \in Reqs : t # r => req'[t] = req[t]
    BY <2>1, MovesProperties DEF IInv
  <2>3. UNCHANGED flightVars
    BY <1>7, TurnProperties
  <2>4. CASE s = r
    BY <1>5, <2>1, <2>2, <2>4, TakenFits
  <2>5. CASE s # r
    BY <1>4, <2>2, <2>3, <2>5 DEF flightVars
  <2> QED BY <2>4, <2>5
<1>8. ASSUME NEW i \in Instances, Restart(i) PROVE FitOK(p) /\ OutcomeFits(p, v)
  <2>1. /\ p = IF req[s].inst = i THEN NoReq ELSE req[s]
        /\ req[s].inst # i => thread'[s] = thread[s]
        /\ call' = call
    BY <1>8 DEF Restart
  <2>2. CASE p = NoReq
    <3>1. Taken(p)
      BY <2>2 DEF Taken
    <3> QED BY <1>5, <3>1, TakenFits
  <2>3. CASE p # NoReq
    BY <1>4, <2>1, <2>3
  <2> QED BY <2>2, <2>3
<1>9. ASSUME UNCHANGED <<flightVars, req>> PROVE FitOK(p) /\ OutcomeFits(p, v)
  BY <1>4, <1>9 DEF flightVars
<1>10. UNCHANGED vars => UNCHANGED <<flightVars, req>>
  BY DEF vars
<1>11. FitOK(p) /\ OutcomeFits(p, v)
  BY <1>6, <1>7, <1>8, <1>9, <1>10, StepCases, BackgroundQuiet
<1> QED BY <1>3, <1>11

(* An answer is right about the time it is about: that of the request, or, *)
(* if it shared another's load, that of the request which led the load     *)
(* (resolve: load; SingleFlight.do).                                       *)
THEOREM AnswersFit == Spec => []AnswerFitsItsLoad
<1>1. Init => FitInv
  <2> SUFFICES ASSUME Init, NEW r \in Reqs PROVE FitOK(req[r]) /\ OutcomeFits(req[r], Outcome(r))
    BY DEF FitInv
  <2>1. req[r] = NoReq
    BY DEF Init
  <2>2. Taken(NoReq) /\ IInv
    BY InitInv DEF Taken
  <2>3. FitOK(NoReq) /\ NoReq.pc # "result"
    BY <2>2, TakenFits
  <2> QED BY <2>1, <2>3 DEF OutcomeFits
<1>2. Init => EntriesInv
  BY EmptySeq DEF Init, EntriesInv
<1>3. FitInv => AnswerFitsItsLoad
  <2> SUFFICES ASSUME FitInv, NEW r \in Reqs
               PROVE  LET row == rows[req[r].code]
                      IN  /\ Answered(r, {200, 307}) => /\ ~Expired(row[req[r].target].expires, req[r].asof)
                                                        /\ req[r].target >= req[r].had
                          /\ Answered(r, {404}) => req[r].had = NoLink \/ Expired(row[req[r].had].expires, now)
    BY DEF AnswerFitsItsLoad
  <2>1. FitOK(req[r])
    BY DEF FitInv
  <2>2. ASSUME Answered(r, {200, 307})
        PROVE  /\ ~Expired(rows[req[r].code][req[r].target].expires, req[r].asof)
               /\ req[r].target >= req[r].had
    <3>1. HasTarget(req[r])
      BY <2>2 DEF Answered, HasTarget
    <3> QED BY <2>1, <3>1 DEF FitOK, Fits
  <2>3. ASSUME Answered(r, {404})
        PROVE  req[r].had = NoLink \/ Expired(rows[req[r].code][req[r].had].expires, now)
    <3>1. NotFound(req[r])
      BY <2>3 DEF Answered, NotFound
    <3> QED BY <2>1, <3>1 DEF FitOK, Fits
  <2> QED BY <2>2, <2>3
<1> QED BY <1>1, <1>2, <1>3, FitNext, EntriesNext, Invariance, PTL DEF Spec
=============================================================================
