----------------------------- MODULE KeyedMutex -----------------------------
(***************************************************************************)
(* KeyedMutexLock of 23_dataintegrity/pessimistic_lock.go: a registry of   *)
(* reference-counted mutexes, one per key in use.  A goroutine finds or    *)
(* creates the entry under globalMu, locks the entry's own mutex outside   *)
(* it, and the unlock closure unlocks first and gives the reference back   *)
(* in a second critical section.                                           *)
(***************************************************************************)
EXTENDS Integers, FiniteSets

CONSTANTS Thread, Key,
          Entry,       \* addresses of keyRefMutex values, reused once garbage
          NoEntry

ASSUME KeyedMutexAssumption ==
  /\ IsFiniteSet(Thread)
  /\ NoEntry \notin Entry

VARIABLES locks,       \* l.locks: the entry of each key, NoEntry if absent
          refCount,    \* entry.refCount
          locked,      \* entries whose mu is locked
          pc,          \* where each goroutine is in its Lock/unlock cycle
          key, ent     \* the key and the entry pointer it works with

vars == <<locks, refCount, locked, pc, key, ent>>

Init ==
  /\ locks = [k \in Key |-> NoEntry]
  /\ refCount = [e \in Entry |-> 0]
  /\ locked = {}
  /\ pc = [t \in Thread |-> "idle"]
  /\ key \in [Thread -> Key]
  /\ ent = [t \in Thread |-> NoEntry]

-----------------------------------------------------------------------------
\* Goroutines that hold a pointer to entry e.
Users(e) == {t \in Thread : ent[t] = e}

\* Memory that a new keyRefMutex may occupy: nothing refers to it.
Fresh == {e \in Entry : Users(e) = {} /\ \A k \in Key : locks[k] # e}

\* The entry is deleted when its last reference goes.
ReclaimOneEarly(n) == n <= 1
ReclaimNever(n) == FALSE
Reclaim(n) == n = 0

\* The count with one more reference, and the mutexes locked once e is not.
Counted(n) == n + 1
Unlocked(e) == locked \ {e}

\* Lock, first part: find the entry of k and take a reference to it,
RegisterFound(t, k) ==
  /\ pc[t] = "idle"
  /\ locks[k] # NoEntry
  /\ ent' = [ent EXCEPT ![t] = locks[k]]
  /\ refCount' = [refCount EXCEPT ![locks[k]] = Counted(@)]
  /\ key' = [key EXCEPT ![t] = k]
  /\ pc' = [pc EXCEPT ![t] = "registered"]
  /\ UNCHANGED <<locks, locked>>

\* or put a zero keyRefMutex in the map.
RegisterNew(t, k) ==
  /\ pc[t] = "idle"
  /\ locks[k] = NoEntry
  /\ \E e \in Fresh :
       /\ locks' = [locks EXCEPT ![k] = e]
       /\ ent' = [ent EXCEPT ![t] = e]
       /\ refCount' = [refCount EXCEPT ![e] = 1]
       /\ locked' = locked \ {e}
  /\ key' = [key EXCEPT ![t] = k]
  /\ pc' = [pc EXCEPT ![t] = "registered"]

\* entry.mu.Lock() returns and the caller is in its critical section.
Enter(t) ==
  /\ pc[t] = "registered"
  /\ ent[t] \notin locked
  /\ locked' = locked \cup {ent[t]}
  /\ pc' = [pc EXCEPT ![t] = "critical"]
  /\ UNCHANGED <<locks, refCount, key, ent>>

\* The closure: entry.mu.Unlock(),
Unlock(t) ==
  /\ pc[t] = "critical"
  /\ locked' = Unlocked(ent[t])
  /\ pc' = [pc EXCEPT ![t] = "unlocked"]
  /\ UNCHANGED <<locks, refCount, key, ent>>

\* then the reference is given back and the entry deleted if it was the last.
Unregister(t) ==
  /\ pc[t] = "unlocked"
  /\ refCount' = [refCount EXCEPT ![ent[t]] = @ - 1]
  /\ locks' = IF Reclaim(refCount[ent[t]] - 1)
                THEN [locks EXCEPT ![key[t]] = NoEntry] ELSE locks
  /\ ent' = [ent EXCEPT ![t] = NoEntry]
  /\ pc' = [pc EXCEPT ![t] = "idle"]
  /\ UNCHANGED <<locked, key>>

Next ==
  \E t \in Thread :
    \/ \E k \in Key : RegisterFound(t, k) \/ RegisterNew(t, k)
    \/ Enter(t)
    \/ Unlock(t)
    \/ Unregister(t)

Spec == Init /\ [][Next]_vars

\* Critical sections end, goroutines run, and sync.Mutex hands itself over in
\* starvation mode, so a waiter that can lock it again and again once does.
Fairness ==
  \A t \in Thread : WF_vars(Unlock(t)) /\ WF_vars(Unregister(t)) /\ SF_vars(Enter(t))

FairSpec == Spec /\ Fairness

-----------------------------------------------------------------------------
\* Every variable keeps its type.
TypeOK ==
  /\ locks \in [Key -> Entry \cup {NoEntry}]
  /\ refCount \in [Entry -> Nat]
  /\ locked \subseteq Entry
  /\ pc \in [Thread -> {"idle", "registered", "critical", "unlocked"}]
  /\ key \in [Thread -> Key]
  /\ ent \in [Thread -> Entry \cup {NoEntry}]

\* Two goroutines are never in the critical section of one key, although the
\* mutex that separates them is created, deleted and created again.
MutualExclusion ==
  \A s, t \in Thread :
    pc[s] = "critical" /\ pc[t] = "critical" /\ key[s] = key[t] => s = t

\* A goroutine between Lock and the end of unlock works with the entry that
\* the map has for its key: no entry is deleted under anybody's feet.
PointersCurrent == \A t \in Thread : pc[t] # "idle" => locks[key[t]] = ent[t]

\* The registry holds one entry per key in use and no more (the unbounded heap
\* growth of pessimistic_lock.md:18 does not happen), counted exactly.
RegistryExact ==
  \A k \in Key :
    /\ (locks[k] # NoEntry) <=> (\E t \in Thread : pc[t] # "idle" /\ key[t] = k)
    /\ locks[k] # NoEntry => refCount[locks[k]] = Cardinality(Users(locks[k]))

\* Every caller of Lock gets the lock.
LockGranted == \A t \in Thread : pc[t] = "registered" ~> pc[t] = "critical"

\* The keyed mutex implements one exclusive lock per key.
CriticalOf == [k \in Key |-> {t \in Thread : pc[t] = "critical" /\ key[t] = k}]
Abstract == INSTANCE ExclusiveLocks WITH holders <- CriticalOf
ImplementsExclusiveLocks == Abstract!Spec

=============================================================================
