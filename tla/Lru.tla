-------------------------------- MODULE Lru --------------------------------
(***************************************************************************)
(* The operations of store.py: LruCache as operators on its OrderedDict,   *)
(* which is a sequence of entries, least recently used first, with at most *)
(* one entry for a key.  Each runs under the cache's lock: one step.       *)
(***************************************************************************)
EXTENDS Integers, SequencesExt

NoExpiry == -1    \* expires_ms is None

Entry(key, value, expires) == [key |-> key, value |-> value, expires |-> expires]

Expired(expires, now) == expires # NoExpiry /\ now >= expires

Entries(cache, key) == {cache[n] : n \in {m \in DOMAIN cache : cache[m].key = key}}

Cached(cache, key) == Entries(cache, key) # {}

(* pop of the key, if it is there. *)
Without(cache, key) ==
  IF Cached(cache, key)
  THEN RemoveAt(cache, CHOOSE n \in DOMAIN cache : cache[n].key = key)
  ELSE cache

EntryOf(cache, key) == CHOOSE e \in Entries(cache, key) : TRUE

(* get returns a value: there is an entry and it has not expired. *)
Hit(cache, key, now) == \E e \in Entries(cache, key) : ~Expired(e.expires, now)

(* What get leaves behind: an expired entry is deleted, a hit moves to the *)
(* end.                                                                    *)
AfterGet(cache, key, now) ==
  IF Hit(cache, key, now)
  THEN Append(Without(cache, key), EntryOf(cache, key))
  ELSE Without(cache, key)

(* Mutation: one entry over the capacity is tolerated. *)
Newest_OneMore(cache, n) ==
  IF Len(cache) <= n + 1 THEN cache ELSE SubSeq(cache, Len(cache) - n + 1, Len(cache))

Newest(cache, n) ==
  IF Len(cache) <= n THEN cache ELSE SubSeq(cache, Len(cache) - n + 1, Len(cache))

(* put sets the entry, moves it to the end and pops from the front. *)
AfterPut(cache, key, value, expires, capacity) ==
  Newest(Append(Without(cache, key), Entry(key, value, expires)), capacity)

AfterInvalidate(cache, key) == Without(cache, key)
=============================================================================
