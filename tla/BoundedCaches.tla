---------------------------- MODULE BoundedCaches ----------------------------
(***************************************************************************)
(* Two caches of 14_caching and what bounds them: LRUCache of              *)
(* bounded_lru.go its capacity, the answers of NegativeCache of            *)
(* negative_caching.go, over a MemoryCache and for one key, their times to *)
(* live; a missing object is remembered for a shorter time.                *)
(***************************************************************************)
EXTENDS Integers, Sequences, SequencesExt

CONSTANTS Key, Value, Capacity,
          Reader,
          PositiveTTL, NegativeTTL,
          FetchTime,           \* the longest time from a fetch to its Set
          MaxTime, MaxChanges  \* bounds

LRUParameters == Capacity \in Nat \ {0}
NegativeParameters == {PositiveTTL, NegativeTTL, FetchTime} \subseteq Nat

VARIABLES evictList,  \* keys of the elements, the front first
          items,      \* keys in the map
          value,      \* what the element of a key holds
          recent,     \* history: all keys that were put, the last used first
          last,       \* history: the last value put under a key
          clock,
          object,     \* is the object there?
          changed,    \* history: when it last came or went
          entry,      \* the cache's: [found, expiresAt], or {} of it
          rpc,        \* "out"; "set", after the fetch
          found, fetchedAt,  \* what the fetch found, and when
          changes

lruVars == <<evictList, items, value, recent, last>>
negativeVars == <<clock, object, changed, entry, rpc, found, fetchedAt, changes>>

-----------------------------------------------------------------------------
LRUInit ==
  /\ evictList = <<>> /\ items = {} /\ recent = <<>>
  /\ value \in [Key -> Value] /\ last = value

\* list.MoveToFront of the element of k, if there is one.
ToFront(k, list) ==
  IF \E i \in 1..Len(list) : list[i] = k
  THEN <<k>> \o RemoveAt(list, CHOOSE i \in 1..Len(list) : list[i] = k)
  ELSE <<k>> \o list

Used(k) == recent' = ToFront(k, recent)

\* Get of a key that is there; of another one it changes nothing.
Get(k) ==
  /\ k \in items /\ evictList' = ToFront(k, evictList)
  /\ Used(k) /\ UNCHANGED <<items, value, last>>

\* Put; an element that is there moves to the front, a new one evicts the last if full.
Put(k, v) ==
  /\ value' = [value EXCEPT ![k] = v] /\ last' = [last EXCEPT ![k] = v] /\ Used(k)
  /\ \/ k \in items /\ evictList' = ToFront(k, evictList) /\ UNCHANGED items
     \/ /\ k \notin items /\ Len(evictList) < Capacity
        /\ evictList' = <<k>> \o evictList /\ items' = items \cup {k}
     \/ /\ k \notin items /\ Len(evictList) >= Capacity
        /\ evictList' = <<k>> \o Front(evictList)
        /\ items' = (items \ {Last(evictList)}) \cup {k}

LRUNext == \E k \in Key : Get(k) \/ \E v \in Value : Put(k, v)

LRUSpec == LRUInit /\ [][LRUNext]_lruVars

-----------------------------------------------------------------------------
NegativeInit ==
  /\ clock = 0 /\ object \in BOOLEAN /\ changed = 0 /\ entry = {} /\ changes = 0
  /\ rpc = [r \in Reader |-> "out"] /\ found = [r \in Reader |-> FALSE]
  /\ fetchedAt = [r \in Reader |-> 0]

\* The entry that MemoryCache.Get returns, if any.
Live == {e \in entry : clock <= e.expiresAt}

\* GetOrFetch misses and asks the source; an error changes nothing.
Fetch(r) ==
  /\ rpc[r] = "out" /\ Live = {} /\ rpc' = [rpc EXCEPT ![r] = "set"]
  /\ found' = [found EXCEPT ![r] = object] /\ fetchedAt' = [fetchedAt EXCEPT ![r] = clock]
  /\ UNCHANGED <<clock, object, changed, entry, changes>>

\* How long an answer is kept.
OneTTL(f) == PositiveTTL
TTL(f) == IF f THEN PositiveTTL ELSE NegativeTTL

\* Then it writes what it found to the cache, and returns it.
Set(r) ==
  /\ rpc[r] = "set" /\ rpc' = [rpc EXCEPT ![r] = "out"]
  /\ entry' = {[found |-> found[r], expiresAt |-> clock + TTL(found[r])]}
  /\ UNCHANGED <<clock, object, changed, found, fetchedAt, changes>>

\* The object comes or goes; who did it may delete the entry afterwards.
Change ==
  /\ changes < MaxChanges /\ changes' = changes + 1
  /\ object' = ~object /\ changed' = clock
  /\ UNCHANGED <<clock, entry, rpc, found, fetchedAt>>

Delete ==
  /\ entry # {} /\ changes > 0 /\ entry' = {}
  /\ UNCHANGED <<clock, object, changed, rpc, found, fetchedAt, changes>>

Tick ==
  /\ clock < MaxTime /\ \A r \in Reader : rpc[r] = "set" => clock < fetchedAt[r] + FetchTime
  /\ clock' = clock + 1
  /\ UNCHANGED <<object, changed, entry, rpc, found, fetchedAt, changes>>

NegativeNext == (\E r \in Reader : Fetch(r) \/ Set(r)) \/ Change \/ Delete \/ Tick

NegativeSpec == NegativeInit /\ [][NegativeNext]_negativeVars

-----------------------------------------------------------------------------
\* Every variable keeps its type.
LRUTypeOK ==
  /\ evictList \in Seq(Key) /\ items \subseteq Key /\ recent \in Seq(Key)
  /\ {value, last} \subseteq [Key -> Value]

NegativeTypeOK ==
  /\ {clock, changed, changes} \subseteq Nat /\ object \in BOOLEAN
  /\ entry \subseteq [found : BOOLEAN, expiresAt : Nat]
  /\ rpc \in [Reader -> {"out", "set"}] /\ found \in [Reader -> BOOLEAN]
  /\ fetchedAt \in [Reader -> Nat]

TypeOK == LRUTypeOK /\ NegativeTypeOK

\* Map and list agree, and hold just the keys that were used last, with the values put
\* last: a hit or an update counts as a use, a miss does not (bounded_lru.md).
LRUExact ==
  /\ items = ToSet(evictList)
  /\ \A k \in items : value[k] = last[k]
  /\ evictList = IF Len(recent) <= Capacity THEN recent ELSE SubSeq(recent, 1, Capacity)

\* An answer from the cache is out of date for no longer than a fetch and the time to
\* live of its kind take, also when a fetch that began before the object came or went
\* writes its result after the entry was deleted (negative_caching.md:59, :60).
StaleBounded ==
  \A e \in Live : e.found # object =>
    clock <= changed + FetchTime + IF e.found THEN PositiveTTL ELSE NegativeTTL

=============================================================================
