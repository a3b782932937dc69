----------------------------- MODULE CachesProofs -----------------------------
(***************************************************************************)
(* Proofs about the keyed mutex, the singleflight group and the caches on  *)
(* it, the cache-aside service, the bounded caches and the reads over      *)
(* several calls, for every value of the constants.  The last section      *)
(* carries the results over to the suite.                                  *)
(***************************************************************************)
EXTENDS MCCaches, FiniteSetTheorems, SequenceTheorems, TLAPS

-----------------------------------------------------------------------------
(* The keyed mutex. *)

\* A goroutine has an entry exactly while it is between Lock and unlock.
EntryWhileBusy == \A t \in Thread : (pc[t] = "idle") <=> (ent[t] = NoEntry)

\* No entry serves two keys.
EntriesDistinct ==
  \A j, k \in Key : locks[j] = locks[k] /\ locks[j] # NoEntry => j = k

\* The count of an entry in the map is the number of its users, never zero.
CountsExact ==
  \A k \in Key : locks[k] # NoEntry =>
    /\ refCount[locks[k]] = Cardinality(Users(locks[k]))
    /\ Users(locks[k]) # {}

\* The mutex of an entry is locked while a goroutine is critical, by that one.
OwnerLocked ==
  /\ \A t \in Thread : pc[t] = "critical" => ent[t] \in locked
  /\ \A s, t \in Thread :
       pc[s] = "critical" /\ pc[t] = "critical" /\ ent[s] = ent[t] => s = t

IInv ==
  /\ TypeOK /\ EntryWhileBusy /\ PointersCurrent
  /\ EntriesDistinct /\ CountsExact /\ OwnerLocked

\* Users of an entry are finitely many goroutines.
LEMMA UsersFinite ==
  ASSUME NEW e
  PROVE  /\ IsFiniteSet(Users(e)) /\ Cardinality(Users(e)) \in Nat
         /\ Cardinality(Users(e)) = 0 <=> Users(e) = {}
<1>1. Users(e) \in SUBSET Thread
  BY DEF Users
<1>2. IsFiniteSet(Users(e))
  BY <1>1, FS_Subset, KeyedMutexAssumption
<1>3. QED
  BY <1>2, FS_CardinalityType, FS_EmptySet

\* The empty registry satisfies the invariant.
LEMMA InitIInv == Init => IInv
  BY KeyedMutexAssumption
     DEF Init, IInv, TypeOK, EntryWhileBusy, PointersCurrent, EntriesDistinct,
         CountsExact, OwnerLocked

-----------------------------------------------------------------------------
\* Lock on a key that has an entry.
LEMMA RegisterFoundStep ==
  ASSUME IInv, NEW t \in Thread, NEW k \in Key, RegisterFound(t, k)
  PROVE  IInv'
<1> USE DEF IInv
<1>1. PICK e \in Entry :
        /\ e = locks[k] /\ e # NoEntry /\ ent[t] = NoEntry
        /\ ent' = [ent EXCEPT ![t] = e]
        /\ refCount' = [refCount EXCEPT ![e] = @ + 1]
  BY KeyedMutexAssumption DEF RegisterFound, Counted, TypeOK, EntryWhileBusy
<1>2. /\ pc[t] = "idle"
      /\ key' = [key EXCEPT ![t] = k]
      /\ pc' = [pc EXCEPT ![t] = "registered"]
      /\ locks' = locks /\ locked' = locked
  BY DEF RegisterFound
<1>3. TypeOK'
  BY <1>1, <1>2 DEF TypeOK
<1>4. EntryWhileBusy'
  BY <1>1, <1>2 DEF EntryWhileBusy, TypeOK
<1>5. PointersCurrent'
  BY <1>1, <1>2 DEF PointersCurrent, TypeOK
<1>6. EntriesDistinct'
  BY <1>2 DEF EntriesDistinct
<1>7. CountsExact'
  <2>1. Users(e)' = Users(e) \cup {t} /\ t \notin Users(e)
    BY <1>1, <1>2 DEF Users, TypeOK
  <2>2. Cardinality(Users(e) \cup {t}) = Cardinality(Users(e)) + 1
    BY <2>1, UsersFinite, FS_AddElement
  <2>3. \A f \in Entry : f # e => Users(f)' = Users(f) /\ refCount'[f] = refCount[f]
    BY <1>1, <1>2, KeyedMutexAssumption DEF Users, TypeOK
  <2>4. refCount'[e] = refCount[e] + 1 /\ refCount[e] = Cardinality(Users(e))
    BY <1>1, <1>2 DEF TypeOK, CountsExact
  <2>5. refCount'[e] = Cardinality(Users(e)') /\ Users(e)' # {}
    BY <2>1, <2>2, <2>4
  <2>6. ASSUME NEW j \in Key, NEW f \in Entry, locks'[j] = f
        PROVE  refCount'[f] = Cardinality(Users(f)') /\ Users(f)' # {}
    <3>1. CASE f = e
      BY <3>1, <2>5
    <3>2. CASE f # e
      <4>1. locks[j] = f /\ f # NoEntry
        BY <1>2, <2>6, KeyedMutexAssumption
      <4>2. QED
        BY <2>3, <3>2, <4>1 DEF CountsExact
    <3>3. QED
      BY <3>1, <3>2
  <2>7. QED
    BY <1>3, <2>6 DEF CountsExact, TypeOK
<1>8. OwnerLocked'
  BY <1>1, <1>2 DEF OwnerLocked, TypeOK
<1>9. QED
  BY <1>3, <1>4, <1>5, <1>6, <1>7, <1>8

\* Lock on a key that has none: the new entry has no other user.
LEMMA RegisterNewStep ==
  ASSUME IInv, NEW t \in Thread, NEW k \in Key, RegisterNew(t, k)
  PROVE  IInv'
<1> USE DEF IInv
<1>1. PICK e \in Fresh :
        /\ locks' = [locks EXCEPT ![k] = e]
        /\ ent' = [ent EXCEPT ![t] = e]
        /\ refCount' = [refCount EXCEPT ![e] = 1]
        /\ locked' = locked \ {e}
  BY DEF RegisterNew
<1>2. /\ pc[t] = "idle" /\ locks[k] = NoEntry /\ ent[t] = NoEntry
      /\ key' = [key EXCEPT ![t] = k]
      /\ pc' = [pc EXCEPT ![t] = "registered"]
  BY DEF RegisterNew, EntryWhileBusy
<1>3. /\ e \in Entry /\ e # NoEntry /\ \A j \in Key : locks[j] # e
      /\ \A s \in Thread : ent[s] # e
  BY KeyedMutexAssumption DEF Fresh, Users
<1>4. TypeOK'
  BY <1>1, <1>2, <1>3 DEF TypeOK
<1>5. EntryWhileBusy'
  BY <1>1, <1>2, <1>3 DEF EntryWhileBusy, TypeOK
<1>6. PointersCurrent'
  <2>1. ASSUME NEW s \in Thread, s # t, pc[s] # "idle"
        PROVE  key[s] # k
    BY <1>2, <2>1 DEF PointersCurrent, EntryWhileBusy
  <2>2. QED
    BY <1>1, <1>2, <2>1 DEF PointersCurrent, TypeOK
<1>7. EntriesDistinct'
  BY <1>1, <1>3 DEF EntriesDistinct, TypeOK
<1>8. CountsExact'
  <2>1. Users(e)' = {t} /\ Cardinality({t}) = 1
    <3>1. \A s \in Thread : ent'[s] = IF s = t THEN e ELSE ent[s]
      BY <1>1 DEF TypeOK
    <3>2. Users(e)' = {t}
      BY <1>3, <3>1 DEF Users
    <3>3. QED
      BY <3>2, FS_Singleton
  <2>2. \A f \in Entry : f # e => Users(f)' = Users(f) /\ refCount'[f] = refCount[f]
    BY <1>1, <1>2, <1>3, KeyedMutexAssumption DEF Users, TypeOK
  <2>3. ASSUME NEW j \in Key, NEW f \in Entry, locks'[j] = f
        PROVE  refCount'[f] = Cardinality(Users(f)') /\ Users(f)' # {}
    <3>1. CASE j = k
      <4>1. f = e /\ refCount'[e] = 1
        BY <1>1, <1>3, <2>3, <3>1 DEF TypeOK
      <4>2. QED
        BY <2>1, <4>1
    <3>2. CASE j # k
      <4>1. locks[j] = f /\ f # NoEntry /\ f # e
        BY <1>1, <1>3, <2>3, <3>2, KeyedMutexAssumption DEF TypeOK
      <4>2. QED
        BY <2>2, <4>1 DEF CountsExact
    <3>3. QED
      BY <3>1, <3>2
  <2>4. QED
    BY <1>4, <2>3 DEF CountsExact, TypeOK
<1>9. OwnerLocked'
  BY <1>1, <1>2, <1>3 DEF OwnerLocked, TypeOK
<1>10. QED
  BY <1>4, <1>5, <1>6, <1>7, <1>8, <1>9

\* Unregister deletes an entry exactly when nobody else uses it.
LEMMA UnregisterStep ==
  ASSUME IInv, NEW t \in Thread, Unregister(t)
  PROVE  IInv'
<1> USE DEF IInv
<1>1. PICK e \in Entry, k \in Key :
        /\ e = ent[t] /\ k = key[t] /\ locks[k] = e /\ e # NoEntry
        /\ refCount' = [refCount EXCEPT ![e] = @ - 1]
        /\ locks' = IF refCount[e] - 1 = 0 THEN [locks EXCEPT ![k] = NoEntry] ELSE locks
  BY KeyedMutexAssumption DEF Unregister, Reclaim, TypeOK, PointersCurrent, EntryWhileBusy
<1>2. /\ pc[t] = "unlocked"
      /\ ent' = [ent EXCEPT ![t] = NoEntry]
      /\ pc' = [pc EXCEPT ![t] = "idle"]
      /\ key' = key /\ locked' = locked
  BY DEF Unregister
<1>3. Users(e)' = Users(e) \ {t} /\ t \in Users(e)
  BY <1>1, <1>2 DEF Users, TypeOK
<1>4. Cardinality(Users(e)') = Cardinality(Users(e)) - 1
  BY <1>3, UsersFinite, FS_RemoveElement
<1>5. refCount[e] = Cardinality(Users(e)) /\ refCount'[e] = refCount[e] - 1
  BY <1>1, <1>2 DEF CountsExact, TypeOK
<1>6. refCount'[e] = Cardinality(Users(e)') /\ refCount'[e] \in Nat
  <2>1. IsFiniteSet(Users(e) \ {t}) /\ Cardinality(Users(e) \ {t}) \in Nat
    BY UsersFinite, FS_RemoveElement, FS_CardinalityType
  <2>2. QED
    BY <1>3, <1>4, <1>5, <2>1
<1>7. \A f \in Entry : f # e => Users(f)' = Users(f) /\ refCount'[f] = refCount[f]
  BY <1>1, <1>2, KeyedMutexAssumption DEF Users, TypeOK
<1>8. (refCount[e] - 1 = 0) <=> (Users(e)' = {})
  <2>1. IsFiniteSet(Users(e) \ {t})
    BY UsersFinite, FS_RemoveElement
  <2>2. (Cardinality(Users(e) \ {t}) = 0) <=> (Users(e) \ {t} = {})
    BY <2>1, FS_EmptySet
  <2>3. QED
    BY <1>3, <1>5, <1>6, <2>2
<1>9. TypeOK'
  BY <1>1, <1>2, <1>6, <1>7 DEF TypeOK
<1>10. EntryWhileBusy'
  BY <1>1, <1>2 DEF EntryWhileBusy, TypeOK
<1>11. PointersCurrent'
  <2>1. ASSUME NEW s \in Thread, s # t, pc[s] # "idle", key[s] = k
        PROVE  Users(e)' # {}
    <3>1. ent[s] = e /\ ent'[s] = ent[s]
      BY <1>1, <1>2, <2>1 DEF PointersCurrent, TypeOK
    <3>2. QED
      BY <3>1 DEF Users
  <2>2. QED
    BY <1>1, <1>2, <1>8, <2>1 DEF PointersCurrent, TypeOK
<1>12. EntriesDistinct'
  BY <1>1, <1>2 DEF EntriesDistinct, TypeOK
<1>13. CountsExact'
  <2>1. ASSUME NEW j \in Key, NEW f \in Entry, locks'[j] = f
        PROVE  refCount'[f] = Cardinality(Users(f)') /\ Users(f)' # {}
    <3>1. locks[j] = f /\ f # NoEntry
      BY <1>1, <1>2, <2>1, KeyedMutexAssumption DEF TypeOK
    <3>2. CASE j = k
      <4>1. f = e
        BY <1>1, <3>1, <3>2
      <4>2. ~(refCount[e] - 1 = 0)
        BY <1>1, <2>1, <3>1, <3>2 DEF TypeOK
      <4>3. QED
        BY <1>6, <1>8, <4>1, <4>2
    <3>3. CASE j # k
      <4>1. f # e
        BY <1>1, <3>1, <3>3 DEF EntriesDistinct
      <4>2. QED
        BY <1>7, <2>1, <3>1, <4>1 DEF CountsExact
    <3>4. QED
      BY <3>2, <3>3
  <2>2. QED
    BY <1>9, <2>1 DEF CountsExact, TypeOK
<1>14. OwnerLocked'
  BY <1>1, <1>2 DEF OwnerLocked, TypeOK
<1>15. QED
  BY <1>9, <1>10, <1>11, <1>12, <1>13, <1>14

\* Every step preserves the invariant.
LEMMA NextIInv == IInv /\ [Next]_vars => IInv'
<1> SUFFICES ASSUME IInv, [Next]_vars
             PROVE  IInv'
  OBVIOUS
<1>1. ASSUME NEW t \in Thread, NEW k \in Key, RegisterFound(t, k) \/ RegisterNew(t, k)
      PROVE  IInv'
  BY <1>1, RegisterFoundStep, RegisterNewStep
<1>2. ASSUME NEW t \in Thread, Enter(t)
      PROVE  IInv'
  <2>1. ent[t] \in Entry
    BY <1>2 DEF Enter, IInv, TypeOK, EntryWhileBusy
  <2>2. TypeOK' /\ EntryWhileBusy' /\ PointersCurrent' /\ EntriesDistinct'
    BY <1>2, <2>1 DEF Enter, IInv, TypeOK, EntryWhileBusy, PointersCurrent, EntriesDistinct
  <2>3. CountsExact'
    BY <1>2 DEF Enter, IInv, CountsExact, Users
  <2>4. OwnerLocked'
    BY <1>2 DEF Enter, IInv, TypeOK, OwnerLocked
  <2>5. QED
    BY <2>2, <2>3, <2>4 DEF IInv
<1>3. ASSUME NEW t \in Thread, Unlock(t)
      PROVE  IInv'
  <2>1. TypeOK' /\ EntryWhileBusy' /\ PointersCurrent' /\ EntriesDistinct'
    BY <1>3 DEF Unlock, Unlocked, IInv, TypeOK, EntryWhileBusy, PointersCurrent, EntriesDistinct
  <2>2. CountsExact'
    BY <1>3 DEF Unlock, IInv, CountsExact, Users
  <2>3. OwnerLocked'
    BY <1>3 DEF Unlock, Unlocked, IInv, TypeOK, OwnerLocked
  <2>4. QED
    BY <2>1, <2>2, <2>3 DEF IInv
<1>4. ASSUME NEW t \in Thread, Unregister(t)
      PROVE  IInv'
  BY <1>4, UnregisterStep
<1>5. CASE UNCHANGED vars
  BY <1>5 DEF vars, IInv, TypeOK, EntryWhileBusy, PointersCurrent, EntriesDistinct,
              CountsExact, OwnerLocked, Users
<1>6. QED
  BY <1>1, <1>2, <1>3, <1>4, <1>5 DEF Next

-----------------------------------------------------------------------------
\* What the invariant says of the properties.
LEMMA IInvImplies == IInv => TypeOK /\ MutualExclusion /\ PointersCurrent /\ RegistryExact
<1> SUFFICES ASSUME IInv
             PROVE  MutualExclusion /\ RegistryExact
  BY DEF IInv
<1>1. MutualExclusion
  BY DEF IInv, MutualExclusion, PointersCurrent, OwnerLocked
<1>2. ASSUME NEW k \in Key, locks[k] # NoEntry
      PROVE  \E t \in Thread : pc[t] # "idle" /\ key[t] = k
  <2>1. PICK t \in Users(locks[k]) : TRUE
    BY <1>2 DEF IInv, CountsExact
  <2>2. t \in Thread /\ ent[t] = locks[k] /\ pc[t] # "idle"
    BY <1>2, <2>1 DEF IInv, Users, EntryWhileBusy
  <2>3. key[t] = k
    BY <1>2, <2>2 DEF IInv, TypeOK, PointersCurrent, EntriesDistinct
  <2>4. QED
    BY <2>2, <2>3
<1>3. ASSUME NEW k \in Key, NEW t \in Thread, pc[t] # "idle", key[t] = k
      PROVE  locks[k] # NoEntry
  BY <1>3 DEF IInv, PointersCurrent, EntryWhileBusy
<1>4. RegistryExact
  BY <1>2, <1>3 DEF IInv, RegistryExact, CountsExact
<1>5. QED
  BY <1>1, <1>4

\* Mutual exclusion per key, for any number of goroutines and keys, although
\* entries are deleted and created again between calls of Lock.
THEOREM MutualExclusionHolds == Spec => []MutualExclusion
  BY InitIInv, NextIInv, IInvImplies, PTL DEF Spec

\* The map holds one exactly counted entry per key in use and nothing else.
THEOREM RegistryExactHolds == Spec => [](PointersCurrent /\ RegistryExact)
  BY InitIInv, NextIInv, IInvImplies, PTL DEF Spec

-----------------------------------------------------------------------------
\* Each step of the keyed mutex is a step of the abstract locks or a stutter:
\* entering the critical section acquires the key, Unlock releases it.
LEMMA NextAbstract ==
  ASSUME IInv, [Next]_vars
  PROVE  Abstract!Next \/ UNCHANGED CriticalOf
<1> USE DEF IInv
<1>1. ASSUME NEW t \in Thread, NEW k \in Key, RegisterFound(t, k) \/ RegisterNew(t, k)
      PROVE  UNCHANGED CriticalOf
  <2>1. pc[t] = "idle" /\ pc' = [pc EXCEPT ![t] = "registered"]
        /\ key' = [key EXCEPT ![t] = k]
    BY <1>1 DEF RegisterFound, RegisterNew
  <2>2. \A s \in Thread, j \in Key :
          (pc'[s] = "critical" /\ key'[s] = j) <=> (pc[s] = "critical" /\ key[s] = j)
    BY <2>1 DEF TypeOK
  <2>3. QED
    BY <2>2 DEF CriticalOf
<1>2. ASSUME NEW t \in Thread, Enter(t)
      PROVE  Abstract!Next
  <2>1. key[t] \in Key /\ pc[t] = "registered" /\ key' = key
        /\ pc' = [pc EXCEPT ![t] = "critical"]
    BY <1>2 DEF Enter, TypeOK
  <2>2. ASSUME NEW s \in Thread, pc[s] = "critical", key[s] = key[t]
        PROVE  FALSE
    BY <1>2, <2>1, <2>2 DEF Enter, PointersCurrent, OwnerLocked
  <2>3. CriticalOf[key[t]] = {}
    BY <2>1, <2>2 DEF CriticalOf
  <2>4. CriticalOf' = [CriticalOf EXCEPT ![key[t]] = {t}]
    BY <2>1, <2>2 DEF CriticalOf, TypeOK
  <2>5. QED
    BY <2>1, <2>3, <2>4 DEF Abstract!Next, Abstract!Acquire
<1>3. ASSUME NEW t \in Thread, Unlock(t)
      PROVE  Abstract!Next
  <2>1. key[t] \in Key /\ pc[t] = "critical" /\ key' = key
        /\ pc' = [pc EXCEPT ![t] = "unlocked"]
    BY <1>3 DEF Unlock, TypeOK
  <2>2. ASSUME NEW s \in Thread, pc[s] = "critical", key[s] = key[t]
        PROVE  s = t
    BY <2>1, <2>2, IInvImplies DEF MutualExclusion
  <2>3. CriticalOf[key[t]] = {t}
    BY <2>1, <2>2 DEF CriticalOf
  <2>4. CriticalOf' = [CriticalOf EXCEPT ![key[t]] = {}]
    BY <2>1, <2>2 DEF CriticalOf, TypeOK
  <2>5. QED
    BY <2>1, <2>3, <2>4 DEF Abstract!Next, Abstract!Release
<1>4. ASSUME NEW t \in Thread, Unregister(t)
      PROVE  UNCHANGED CriticalOf
  <2>1. pc[t] = "unlocked" /\ pc' = [pc EXCEPT ![t] = "idle"] /\ key' = key
    BY <1>4 DEF Unregister
  <2>2. \A s \in Thread : (pc'[s] = "critical") <=> (pc[s] = "critical")
    BY <2>1 DEF TypeOK
  <2>3. QED
    BY <2>1, <2>2 DEF CriticalOf
<1>5. CASE UNCHANGED vars
  BY <1>5 DEF vars, CriticalOf
<1>6. QED
  BY <1>1, <1>2, <1>3, <1>4, <1>5 DEF Next

\* KeyedMutexLock implements one exclusive lock per key.
THEOREM Implementation == Spec => ImplementsExclusiveLocks
<1>1. Init => Abstract!Init
  BY DEF Init, Abstract!Init, CriticalOf
<1>2. IInv /\ [Next]_vars => [Abstract!Next]_CriticalOf
  BY NextAbstract
<1>3. QED
  BY <1>1, <1>2, InitIInv, NextIInv, PTL DEF Spec, Abstract!Spec, ImplementsExclusiveLocks

-----------------------------------------------------------------------------
(* The singleflight group. *)

\* Who executes fn or has just executed it made the call in the map, alone.
Leads(t) == gpc[t] \in {"executing", "finishing"}

GroupInv ==
  /\ S!TypeOK
  /\ \A t \in Caller : Leads(t) => inflight = my[t] /\ my[t] \in 1..execs
  /\ \A s, t \in Caller : Leads(s) /\ Leads(t) => s = t
  /\ \A t \in Caller : gpc[t] = "executing" => my[t] \notin finished
  /\ \A t \in Caller : gpc[t] = "finishing" => my[t] \in finished

\* Each step of Do keeps this.
LEMMA GroupStep ==
  ASSUME S!SingleflightParameters, GroupInv, [S!Next]_groupVars
  PROVE  GroupInv'
<1> USE DEF S!TypeOK, Leads
<1>1. /\ inflight \in 0..execs /\ execs \in 0..MaxExec /\ MaxExec \in Nat \ {0}
      /\ finished \subseteq 1..execs /\ val \in [1..MaxExec -> Outcome \cup {None}]
      /\ \A c \in finished : val[c] \in Outcome
      /\ gpc \in [Caller -> {"idle", "waiting", "executing", "finishing"}]
      /\ my \in [Caller -> 0..execs]
  BY DEF GroupInv, S!SingleflightParameters
<1>2. /\ \A t \in Caller : Leads(t) => inflight = my[t] /\ my[t] \in 1..execs
      /\ \A s, t \in Caller : Leads(s) /\ Leads(t) => s = t
      /\ \A t \in Caller : gpc[t] = "executing" => my[t] \notin finished
      /\ \A t \in Caller : gpc[t] = "finishing" => my[t] \in finished
  BY DEF GroupInv
<1>3. ASSUME NEW t \in Caller, S!Join(t)
      PROVE  GroupInv'
  BY <1>1, <1>2, <1>3 DEF S!Join, GroupInv
<1>4. ASSUME NEW t \in Caller, S!Lead(t)
      PROVE  GroupInv'
  <2>1. /\ execs + 1 \in 1..MaxExec /\ execs + 1 \notin finished /\ execs' = execs + 1
        /\ inflight = 0 /\ inflight' = execs + 1 /\ my' = [my EXCEPT ![t] = execs + 1]
        /\ gpc' = [gpc EXCEPT ![t] = "executing"] /\ UNCHANGED <<finished, val>>
    BY <1>1, <1>4 DEF S!Lead, S!Entered
  <2>2. S!TypeOK'
    BY <1>1, <2>1
  <2>3. \A s \in Caller : ~Leads(s)
    BY <1>1, <1>2, <2>1
  <2>4. \A s \in Caller : Leads(s)' => s = t
    BY <1>1, <2>1, <2>3
  <2>5. my'[t] = execs + 1 /\ gpc'[t] = "executing"
    BY <1>1, <2>1
  <2>6. \A s \in Caller : gpc'[s] # "finishing"
    BY <2>4, <2>5
  <2> QED BY <1>1, <2>1, <2>2, <2>4, <2>5, <2>6 DEF GroupInv
<1>5. ASSUME NEW t \in Caller, NEW v \in Outcome, S!Finish(t, v)
      PROVE  GroupInv'
  <2>1. /\ gpc[t] = "executing" /\ my[t] \in 1..execs /\ my[t] \in 1..MaxExec /\ inflight = my[t]
        /\ val' = [val EXCEPT ![my[t]] = v] /\ finished' = finished \cup {my[t]}
        /\ gpc' = [gpc EXCEPT ![t] = "finishing"] /\ UNCHANGED <<inflight, execs, my>>
    BY <1>1, <1>2, <1>5 DEF S!Finish, S!Stored, S!Released
  <2>2. val' \in [1..MaxExec -> Outcome \cup {None}] /\ \A c \in finished' : val'[c] \in Outcome
    BY <1>1, <2>1
  <2>3. S!TypeOK'
    BY <1>1, <2>1, <2>2
  <2>4. \A s \in Caller : Leads(s)' <=> Leads(s)
    BY <1>1, <2>1
  <2>5. gpc'[t] = "finishing" /\ \A s \in Caller : s # t => gpc'[s] = gpc[s] /\ ~Leads(s)
    BY <1>1, <1>2, <2>1
  <2> QED BY <1>1, <1>2, <2>1, <2>3, <2>4, <2>5 DEF GroupInv
<1>6. ASSUME NEW t \in Caller, S!Forget(t)
      PROVE  GroupInv'
  <2>1. /\ Leads(t) /\ inflight' = 0 /\ gpc' = [gpc EXCEPT ![t] = "idle"]
        /\ UNCHANGED <<execs, finished, val, my>>
    BY <1>6 DEF S!Forget, S!Deleted
  <2>2. \A s \in Caller : ~Leads(s)'
    BY <1>1, <1>2, <2>1
  <2> QED BY <1>1, <2>1, <2>2 DEF GroupInv
<1>7. ASSUME NEW t \in Caller, S!Wake(t) \/ S!Panic(t)
      PROVE  GroupInv'
  <2>1. /\ gpc' = [gpc EXCEPT ![t] = "idle"] /\ UNCHANGED <<inflight, execs, finished, val, my>>
    BY <1>7 DEF S!Wake, S!Panic
  <2> QED BY <1>1, <1>2, <2>1 DEF GroupInv
<1>8. CASE UNCHANGED groupVars
  BY <1>1, <1>2, <1>8 DEF groupVars, GroupInv
<1> QED BY <1>3, <1>4, <1>5, <1>6, <1>7, <1>8 DEF S!Next

LEMMA GroupInit ==
  ASSUME S!SingleflightParameters, S!Init
  PROVE  GroupInv
  BY DEF S!SingleflightParameters, S!Init, S!TypeOK, GroupInv, Leads

LEMMA GroupImplies ==
  ASSUME GroupInv
  PROVE  S!OneInFlight
  BY DEF GroupInv, Leads, S!OneInFlight

-----------------------------------------------------------------------------
(* The caches on the group. *)

\* Where a caller is in the cache tells where it is in Do.
Fetching == {"fetch", "cached", "stored"}
Stage == {"out", "lookup", "do", "joined", "check", "led", "fallback"} \cup Fetching

StagesAgree ==
  \A t \in Caller :
    /\ stage[t] \in Fetching \cup {"check"} <=> gpc[t] = "executing"
    /\ stage[t] = "led" <=> gpc[t] = "finishing"
    /\ stage[t] = "joined" <=> gpc[t] = "waiting"

\* Fetches are numbered in their order, and a finished call has the number of one.
CacheTyped ==
  /\ S!CacheTypeOK /\ StagesAgree
  /\ fetches <= execs /\ \A t \in Caller : stage[t] = "check" => fetches < execs
  /\ \A c \in finished : val[c] = Failed \/ val[c] \in 1..fetches
  /\ \A t \in Caller : stage[t] \in Fetching => held[t] = fetches /\ fetches # 0

\* Nothing that is kept or was returned is fresher than n.
Freshest(n) ==
  /\ cached <= n /\ stale <= n /\ top <= n
  /\ \A c \in finished : val[c] # Failed => val[c] <= n

\* The call that t made or joined has returned.
Got(t) == stage[t] \in {"led", "joined"} /\ my[t] \in finished

\* An unexpired value is the freshest, and so is the one of a call while others may join it.
CacheOrdered ==
  /\ cached # 0 => Freshest(cached)
  /\ inflight \in finished /\ val[inflight] # Failed => Freshest(val[inflight])
  /\ \A t \in Caller : Got(t) /\ val[my[t]] # Failed => floor[t] <= val[my[t]]
  /\ \A t \in Caller : stage[t] \in {"cached", "stored"} => cached \in {0, fetches}

CacheInv == GroupInv /\ CacheTyped /\ CacheOrdered

CacheAssumptions == S!SingleflightParameters /\ S!CacheParameters

\* A step of one of the two caches.
CacheStep(t) == S!Call(t) \/ S!ProtectedStep(t) \/ S!FallbackStep(t)

\* It is a step of Do or leaves the group alone.
LEMMA CacheSteps ==
  ASSUME CacheAssumptions, CacheInv, NEW t \in Caller, CacheStep(t)
  PROVE  [S!Next]_groupVars
<1>1. held[t] \in Outcome \cup {0} /\ cached \in Outcome \cup {0} /\ Failed \in Outcome
  <2>1. held[t] \in 0..fetches /\ cached \in 0..fetches /\ fetches \in 0..MaxExec
    BY DEF CacheInv, CacheTyped, S!CacheTypeOK
  <2>2. 1..MaxExec \cup {Failed} \subseteq Outcome /\ MaxExec \in Nat
    BY DEF CacheAssumptions, S!CacheParameters, S!SingleflightParameters
  <2> QED BY <2>1, <2>2
<1>2. stage[t] \in Fetching => held[t] # 0
  BY DEF CacheInv, CacheTyped
<1>3. CASE S!Call(t) \/ S!Hit(t) \/ S!Miss(t) \/ S!StoreFresh(t) \/ S!CheckMiss(t)
             \/ S!StoreStale(t) \/ S!ReturnStale(t) \/ S!ReturnError(t)
  BY <1>3 DEF S!Call, S!Hit, S!Miss, S!StoreFresh, S!CheckMiss, S!StoreStale, S!ReturnStale,
              S!ReturnError, S!sfVars, groupVars
<1>4. CASE S!DoJoin(t) \/ S!DoLead(t) \/ S!DoQuery(t) \/ S!Return(t) \/ S!ReturnValue(t)
             \/ S!FallBack(t)
  BY <1>4 DEF S!DoJoin, S!DoLead, S!DoQuery, S!Return, S!ReturnValue, S!FallBack, S!Ended, S!Next
<1>5. CASE S!FetchFails(t)
  BY <1>1, <1>5 DEF S!FetchFails, S!Next
<1>6. CASE S!CheckHit(t)
  BY <1>1, <1>6 DEF S!CheckHit, S!DoubleCheckHits, S!Next
<1>7. CASE S!FetchReturns(t, "cached") \/ S!FetchReturns(t, "stored")
  BY <1>1, <1>2, <1>7 DEF S!FetchReturns, S!At, Fetching, S!Next
<1> QED BY <1>3, <1>4, <1>5, <1>6, <1>7
        DEF CacheStep, S!ProtectedStep, S!FallbackStep, S!Common

\* The caller t goes to stage s, and to place p in Do.
LEMMA StagesMove ==
  ASSUME CacheInv, NEW t \in Caller, NEW s, NEW p,
         s \in Stage,
         stage' = [stage EXCEPT ![t] = s], gpc' = [gpc EXCEPT ![t] = p],
         s \in Fetching \cup {"check"} <=> p = "executing",
         s = "led" <=> p = "finishing", s = "joined" <=> p = "waiting"
  PROVE  /\ StagesAgree'
         /\ stage' \in [Caller -> Stage]
         /\ \A u \in Caller : u # t => stage'[u] = stage[u]
         /\ stage'[t] = s
<1>1. /\ stage \in [Caller -> Stage]
      /\ t \in DOMAIN gpc
  BY DEF CacheInv, CacheTyped, S!CacheTypeOK, S!TypeOK, Stage, Fetching
<1>2. \A u \in Caller :
        /\ stage'[u] = IF u = t THEN s ELSE stage[u]
        /\ gpc'[u] = IF u = t THEN p ELSE gpc[u]
  BY <1>1 DEF CacheInv, GroupInv, S!TypeOK
<1>3. StagesAgree
  BY DEF CacheInv, CacheTyped
<1> QED BY <1>1, <1>2, <1>3 DEF StagesAgree

\* The steps that leave the group alone keep the types,
LEMMA TypedAlone ==
  ASSUME CacheAssumptions, CacheInv, S!TypeOK', NEW t \in Caller, UNCHANGED groupVars,
         \/ S!Call(t) \/ S!Hit(t) \/ S!Miss(t) \/ S!StoreFresh(t) \/ S!CheckMiss(t)
         \/ S!StoreStale(t) \/ S!ReturnStale(t) \/ S!ReturnError(t)
  PROVE  CacheTyped'
<1>1. /\ cached \in 0..fetches /\ stale \in 0..fetches /\ fetches \in 0..MaxExec
      /\ top \in 0..fetches /\ held \in [Caller -> 0..fetches] /\ floor \in [Caller -> 0..top]
      /\ fetches <= execs /\ execs \in 0..MaxExec /\ MaxExec \in Nat /\ Failed \notin Nat
      /\ stage \in [Caller -> Stage]
      /\ \A c \in finished : val[c] = Failed \/ val[c] \in 1..fetches
      /\ \A u \in Caller : stage[u] \in Fetching => held[u] = fetches /\ fetches # 0
      /\ \A u \in Caller : stage[u] = "check" => fetches < execs
      /\ gpc = [gpc EXCEPT ![t] = gpc[t]]
  BY DEF CacheAssumptions, S!CacheParameters, S!SingleflightParameters,
         CacheInv, CacheTyped, S!CacheTypeOK, S!TypeOK, Stage, Fetching
<1>2. UNCHANGED <<inflight, execs, finished, val, gpc, my>>
  BY DEF groupVars
<1>3. StagesAgree
  BY DEF CacheInv, CacheTyped
<1>4. \A u, v \in Caller : gpc[u] = "executing" /\ gpc[v] = "executing" => u = v
  BY DEF CacheInv, GroupInv, Leads
<1>5. ASSUME S!Call(t) \/ S!Miss(t)
      PROVE  CacheTyped'
  <2>1. /\ stage[t] \in {"out", "lookup"} /\ stage' = [stage EXCEPT ![t] = IF stage[t] = "out" THEN "lookup" ELSE "do"]
        /\ UNCHANGED <<cached, stale, fetches, held, top, expiries>>
        /\ floor' \in [Caller -> 0..top]
    BY <1>1, <1>5 DEF S!Call, S!Miss, S!At, S!Goto, S!Stay
  <2>2. /\ StagesAgree' /\ \A u \in Caller : u # t => stage'[u] = stage[u]
        /\ stage' \in [Caller -> Stage]
        /\ stage'[t] \in {"lookup", "do"}
    BY <1>1, <1>2, <1>3, <2>1, StagesMove DEF StagesAgree, Fetching, Stage
  <2> QED BY <1>1, <1>2, <2>1, <2>2 DEF CacheTyped, S!CacheTypeOK, Fetching, Stage
<1>6. ASSUME NEW v, v = Failed \/ v \in 0..fetches, S!Answer(t, v),
             stage[t] \in {"lookup", "fallback"}
      PROVE  CacheTyped'
  <2>1. /\ stage' = [stage EXCEPT ![t] = "out"] /\ UNCHANGED <<cached, stale, fetches, held, floor, expiries>>
        /\ top' \in 0..fetches /\ top <= top'
    BY <1>1, <1>6 DEF S!Answer, S!Goto
  <2>2. /\ StagesAgree' /\ \A u \in Caller : u # t => stage'[u] = stage[u]
        /\ stage' \in [Caller -> Stage]
        /\ stage'[t] = "out"
    BY <1>1, <1>2, <1>3, <1>6, <2>1, StagesMove DEF StagesAgree, Fetching, Stage
  <2>3. floor' \in [Caller -> 0..top']
    BY <1>1, <2>1
  <2> QED BY <1>1, <1>2, <2>1, <2>2, <2>3 DEF CacheTyped, S!CacheTypeOK, Fetching, Stage
<1>7. CASE S!Hit(t) \/ S!ReturnStale(t) \/ S!ReturnError(t)
  BY <1>1, <1>6, <1>7 DEF S!Hit, S!ReturnStale, S!ReturnError, S!At
<1>8. ASSUME S!StoreFresh(t) \/ S!StoreStale(t)
      PROVE  CacheTyped'
  <2>1. /\ stage[t] \in {"fetch", "cached"}
        /\ stage' = [stage EXCEPT ![t] = IF stage[t] = "fetch" THEN "cached" ELSE "stored"]
        /\ UNCHANGED <<fetches, held, floor, top, expiries>>
        /\ cached' \in 0..fetches /\ stale' \in 0..fetches
    BY <1>1, <1>8 DEF S!StoreFresh, S!StoreStale, S!At, S!Goto
  <2>2. /\ StagesAgree' /\ \A u \in Caller : u # t => stage'[u] = stage[u]
        /\ stage' \in [Caller -> Stage]
        /\ stage'[t] \in {"cached", "stored"}
    BY <1>1, <1>2, <1>3, <2>1, StagesMove DEF StagesAgree, Fetching, Stage
  <2> QED BY <1>1, <1>2, <2>1, <2>2 DEF CacheTyped, S!CacheTypeOK, Fetching, Stage
<1>9. ASSUME S!CheckMiss(t)
      PROVE  CacheTyped'
  <2>1. /\ stage[t] = "check" /\ stage' = [stage EXCEPT ![t] = "fetch"]
        /\ fetches' = fetches + 1 /\ held' = [held EXCEPT ![t] = fetches + 1]
        /\ UNCHANGED <<cached, stale, top, floor, expiries>>
    BY <1>9 DEF S!CheckMiss, S!Begin, S!At, S!Goto
  <2>2. /\ StagesAgree' /\ \A u \in Caller : u # t => stage'[u] = stage[u]
        /\ stage' \in [Caller -> Stage]
        /\ stage'[t] = "fetch"
    BY <1>1, <1>2, <1>3, <2>1, StagesMove DEF StagesAgree, Fetching, Stage
  <2>3. \A u \in Caller : u # t => stage[u] \notin Fetching \cup {"check"}
    BY <1>3, <1>4, <2>1 DEF StagesAgree
  <2>4. fetches + 1 <= execs /\ fetches + 1 \in 1..MaxExec
    BY <1>1, <2>1
  <2>5. held' \in [Caller -> 0..(fetches + 1)] /\ held'[t] = fetches + 1
    BY <1>1, <2>1, <2>4
  <2> QED BY <1>1, <1>2, <2>1, <2>2, <2>3, <2>4, <2>5 DEF CacheTyped, S!CacheTypeOK, Fetching, Stage
<1> QED BY <1>5, <1>7, <1>8, <1>9

\* and so do the steps of Do.
LEMMA TypedDo ==
  ASSUME CacheAssumptions, CacheInv, S!TypeOK', NEW t \in Caller,
         \/ S!DoJoin(t) \/ S!DoLead(t) \/ S!DoQuery(t)
         \/ S!FetchFails(t) \/ S!CheckHit(t)
         \/ S!FetchReturns(t, "cached") \/ S!FetchReturns(t, "stored")
         \/ S!Return(t) \/ S!ReturnValue(t) \/ S!FallBack(t)
  PROVE  CacheTyped'
<1>1. /\ cached \in 0..fetches /\ stale \in 0..fetches /\ fetches \in 0..MaxExec
      /\ top \in 0..fetches /\ held \in [Caller -> 0..fetches] /\ floor \in [Caller -> 0..top]
      /\ fetches <= execs /\ execs \in 0..MaxExec /\ MaxExec \in Nat /\ Failed \notin Nat
      /\ stage \in [Caller -> Stage]
      /\ \A c \in finished : val[c] = Failed \/ val[c] \in 1..fetches
      /\ \A u \in Caller : stage[u] \in Fetching => held[u] = fetches /\ fetches # 0
      /\ \A u \in Caller : stage[u] = "check" => fetches < execs
      /\ finished \subseteq 1..execs /\ val \in [1..MaxExec -> Outcome \cup {None}]
      /\ my \in [Caller -> 0..execs]
      /\ gpc \in [Caller -> {"idle", "waiting", "executing", "finishing"}]
  BY DEF CacheAssumptions, S!CacheParameters, S!SingleflightParameters,
         CacheInv, CacheTyped, S!CacheTypeOK, S!TypeOK, Stage, Fetching
<1>2. StagesAgree
  BY DEF CacheInv, CacheTyped
<1>3. /\ \A u \in Caller : gpc[u] \in {"executing", "finishing"} =>
             inflight = my[u] /\ my[u] \in 1..execs
      /\ \A u \in Caller : gpc[u] = "finishing" => my[u] \in finished
  BY DEF CacheInv, GroupInv, Leads
<1>4. CASE S!DoJoin(t)
  <2>1. /\ stage' = [stage EXCEPT ![t] = "joined"] /\ gpc' = [gpc EXCEPT ![t] = "waiting"]
        /\ UNCHANGED <<execs, finished, val, cached, stale, fetches, held, top, floor, expiries>>
    BY <1>4 DEF S!DoJoin, S!Join, S!At, S!Goto, S!Stay
  <2>2. /\ StagesAgree' /\ \A u \in Caller : u # t => stage'[u] = stage[u]
        /\ stage' \in [Caller -> Stage] /\ stage'[t] = "joined"
    BY <2>1, StagesMove DEF Stage, Fetching
  <2> QED BY <1>1, <2>1, <2>2 DEF CacheTyped, S!CacheTypeOK, Fetching, Stage
<1>5. ASSUME S!DoLead(t) \/ S!DoQuery(t)
      PROVE  CacheTyped'
  <2>1. /\ inflight = 0 /\ execs' = execs + 1 /\ gpc' = [gpc EXCEPT ![t] = "executing"]
        /\ UNCHANGED <<finished, val, cached, stale, top, floor>>
    BY <1>5 DEF S!DoLead, S!DoQuery, S!Lead, S!Stay, S!Begin
  <2>2. \A u \in Caller : stage[u] \notin Fetching \cup {"check"}
    BY <1>1, <1>2, <1>3, <2>1 DEF StagesAgree
  <2>3. CASE S!DoLead(t)
    <3>1. stage' = [stage EXCEPT ![t] = "check"] /\ UNCHANGED <<fetches, held>>
      BY <2>3 DEF S!DoLead, S!Goto, S!Stay
    <3>2. /\ StagesAgree' /\ \A u \in Caller : u # t => stage'[u] = stage[u]
          /\ stage' \in [Caller -> Stage] /\ stage'[t] = "check"
      BY <2>1, <3>1, StagesMove DEF Stage, Fetching
    <3> QED BY <1>1, <2>1, <2>2, <3>1, <3>2 DEF CacheTyped, S!CacheTypeOK, Fetching, Stage
  <2>4. CASE S!DoQuery(t)
    <3>1. /\ stage' = [stage EXCEPT ![t] = "fetch"] /\ fetches' = fetches + 1
          /\ held' = [held EXCEPT ![t] = fetches + 1]
      BY <2>4 DEF S!DoQuery, S!Begin, S!Goto
    <3>2. /\ StagesAgree' /\ \A u \in Caller : u # t => stage'[u] = stage[u]
          /\ stage' \in [Caller -> Stage] /\ stage'[t] = "fetch"
      BY <2>1, <3>1, StagesMove DEF Stage, Fetching
    <3>3. execs + 1 \in 0..MaxExec
      BY <2>1 DEF S!TypeOK
    <3>4. fetches + 1 <= execs + 1 /\ fetches + 1 \in 1..MaxExec
      BY <1>1, <3>3
    <3>5. held' \in [Caller -> 0..(fetches + 1)] /\ held'[t] = fetches + 1
      BY <1>1, <3>1, <3>4
    <3> QED BY <1>1, <2>1, <2>2, <3>1, <3>2, <3>4, <3>5
            DEF CacheTyped, S!CacheTypeOK, Fetching, Stage
  <2> QED BY <1>5, <2>3, <2>4
<1>6. ASSUME NEW v, v = Failed \/ v \in 1..fetches, S!Finish(t, v), S!Goto(t, "led"), S!Stay
      PROVE  CacheTyped'
  <2>1. /\ gpc[t] = "executing" /\ my[t] \in 1..execs /\ my[t] \in 1..MaxExec
        /\ val' = [val EXCEPT ![my[t]] = v] /\ finished' = finished \cup {my[t]}
        /\ gpc' = [gpc EXCEPT ![t] = "finishing"] /\ stage' = [stage EXCEPT ![t] = "led"]
        /\ UNCHANGED <<execs, cached, stale, fetches, held, top, floor, expiries>>
    BY <1>1, <1>3, <1>6 DEF S!Finish, S!Stored, S!Released, S!Goto, S!Stay
  <2>2. /\ StagesAgree' /\ \A u \in Caller : u # t => stage'[u] = stage[u]
        /\ stage' \in [Caller -> Stage] /\ stage'[t] = "led"
    BY <2>1, StagesMove DEF Stage, Fetching
  <2>3. \A c \in finished' : val'[c] = Failed \/ val'[c] \in 1..fetches
    BY <1>1, <1>6, <2>1
  <2> QED BY <1>1, <2>1, <2>2, <2>3 DEF CacheTyped, S!CacheTypeOK, Fetching, Stage
<1>7. CASE S!FetchFails(t)
  BY <1>6, <1>7 DEF S!FetchFails
<1>8. CASE S!CheckHit(t)
  BY <1>1, <1>6, <1>8 DEF S!CheckHit, S!DoubleCheckHits
<1>9. CASE S!FetchReturns(t, "cached") \/ S!FetchReturns(t, "stored")
  <2>1. held[t] \in 1..fetches
    BY <1>1, <1>9 DEF S!FetchReturns, S!At, Fetching
  <2> QED BY <1>6, <1>9, <2>1 DEF S!FetchReturns
<1>10. ASSUME S!Return(t) \/ S!ReturnValue(t) \/ S!FallBack(t)
       PROVE  CacheTyped'
  <2>1. /\ gpc' = [gpc EXCEPT ![t] = "idle"] /\ my[t] \in finished
        /\ UNCHANGED <<execs, finished, val, cached, stale, fetches, held, floor>>
    BY <1>3, <1>10 DEF S!Return, S!ReturnValue, S!FallBack, S!Ended, S!Forget, S!Wake, S!Answer,
                       S!Stay
  <2>2. val[my[t]] = Failed \/ val[my[t]] \in 1..fetches
    BY <1>1, <2>1
  <2>3. PICK s \in {"out", "fallback"} : stage' = [stage EXCEPT ![t] = s]
    BY <1>10 DEF S!Return, S!ReturnValue, S!FallBack, S!Answer, S!Goto
  <2>4. /\ StagesAgree' /\ \A u \in Caller : u # t => stage'[u] = stage[u]
        /\ stage' \in [Caller -> Stage] /\ stage'[t] = s
    BY <2>1, <2>3, StagesMove DEF Stage, Fetching
  <2>5. top' \in 0..fetches /\ top <= top'
    BY <1>1, <1>10, <2>2 DEF S!Return, S!ReturnValue, S!FallBack, S!Answer, S!Stay
  <2>6. floor' \in [Caller -> 0..top']
    BY <1>1, <2>1, <2>5
  <2> QED BY <1>1, <2>1, <2>3, <2>4, <2>5, <2>6 DEF CacheTyped, S!CacheTypeOK, Fetching, Stage
<1> QED BY <1>4, <1>5, <1>7, <1>8, <1>9, <1>10

\* The steps that leave the group alone keep the order,
LEMMA OrderedAlone ==
  ASSUME CacheAssumptions, CacheInv, CacheTyped', NEW t \in Caller, UNCHANGED groupVars,
         \/ S!Call(t) \/ S!Hit(t) \/ S!Miss(t) \/ S!StoreFresh(t) \/ S!CheckMiss(t)
         \/ S!StoreStale(t) \/ S!ReturnStale(t) \/ S!ReturnError(t)
  PROVE  CacheOrdered'
<1>1. /\ cached \in 0..fetches /\ stale \in 0..fetches /\ fetches \in Nat
      /\ top \in 0..fetches /\ floor \in [Caller -> 0..top] /\ stage \in [Caller -> Stage]
      /\ \A c \in finished : val[c] = Failed \/ val[c] \in 1..fetches
      /\ \A u \in Caller : stage[u] \in Fetching => held[u] = fetches /\ fetches # 0
  BY DEF CacheInv, CacheTyped, S!CacheTypeOK, Stage, Fetching
<1>2. UNCHANGED <<inflight, execs, finished, val, gpc, my>>
  BY DEF groupVars
<1>3. /\ cached # 0 => Freshest(cached)
      /\ inflight \in finished /\ val[inflight] # Failed => Freshest(val[inflight])
      /\ \A u \in Caller : Got(u) /\ val[my[u]] # Failed => floor[u] <= val[my[u]]
      /\ \A u \in Caller : stage[u] \in {"cached", "stored"} => cached \in {0, fetches}
  BY DEF CacheInv, CacheOrdered
<1>4. ASSUME NEW u \in Caller, stage[u] \in Fetching \cup {"check"}
      PROVE  /\ inflight \notin finished
             /\ \A v \in Caller : v # u => stage[v] \notin Fetching \cup {"check"}
  BY <1>4 DEF CacheInv, CacheTyped, StagesAgree, GroupInv, Leads
<1>5. ASSUME UNCHANGED <<stale, fetches>>, cached' \in {cached, 0}, top' \in {top, cached, stale},
             \A u \in Caller : stage'[u] # stage[u] => stage'[u] \notin {"led", "joined", "cached", "stored"},
             \A u \in Caller : floor'[u] # floor[u] => stage'[u] \notin {"led", "joined"}
      PROVE  CacheOrdered'
  <2>1. cached' # 0 => Freshest(cached)'
    <3> SUFFICES ASSUME cached' # 0
                 PROVE  Freshest(cached)'
      OBVIOUS
    <3>1. cached' = cached /\ Freshest(cached) /\ cached \in Nat
      BY <1>1, <1>3, <1>5
    <3>2. Freshest(cached)'
      BY <1>2, <1>5, <3>1 DEF Freshest
    <3> QED BY <3>1, <3>2
  <2>2. inflight \in finished /\ val[inflight] # Failed => Freshest(val[inflight])'
    <3> SUFFICES ASSUME inflight \in finished, val[inflight] # Failed
                 PROVE  Freshest(val[inflight])'
      OBVIOUS
    <3>1. Freshest(val[inflight]) /\ val[inflight] \in Nat
      BY <1>1, <1>3
    <3> QED BY <1>1, <1>2, <1>5, <3>1 DEF Freshest
  <2>3. \A u \in Caller : Got(u)' /\ val[my[u]] # Failed => floor'[u] <= val[my[u]]
    BY <1>2, <1>3, <1>5 DEF Got
  <2>4. \A u \in Caller : stage'[u] \in {"cached", "stored"} => cached' \in {0, fetches}
    BY <1>3, <1>5
  <2> QED BY <1>2, <1>5, <2>1, <2>2, <2>3, <2>4 DEF CacheOrdered
<1>6. CASE S!Call(t)
  <2>1. /\ UNCHANGED <<cached, stale, fetches, top>>
        /\ stage' = [stage EXCEPT ![t] = "lookup"] /\ floor' = [floor EXCEPT ![t] = top]
    BY <1>6 DEF S!Call, S!Goto
  <2>2. \A u \in Caller : IF u = t THEN stage'[u] = "lookup"
                                   ELSE stage'[u] = stage[u] /\ floor'[u] = floor[u]
    BY <1>1, <2>1
  <2> QED BY <1>5, <2>1, <2>2
<1>7. CASE S!Miss(t) \/ S!Hit(t) \/ S!ReturnStale(t) \/ S!ReturnError(t)
  <2>1. /\ UNCHANGED <<cached, stale, fetches, floor>> /\ top' \in {top, cached, stale}
        /\ \E s \in {"do", "out"} : stage' = [stage EXCEPT ![t] = s]
    BY <1>7 DEF S!Miss, S!Hit, S!ReturnStale, S!ReturnError, S!Stay, S!Answer, S!Goto
  <2>2. \A u \in Caller : stage'[u] = stage[u] \/ stage'[u] \in {"do", "out"}
    BY <1>1, <2>1
  <2> QED BY <1>5, <2>1, <2>2
<1>9. ASSUME UNCHANGED <<top, floor>>, \A u \in Caller : u # t => stage'[u] = stage[u],
             stage[t] \in Fetching \cup {"check"}, stage'[t] \in Fetching,
             cached' # 0 => Freshest(cached)',
             stage'[t] \in {"cached", "stored"} => cached' \in {0, fetches'}
      PROVE  CacheOrdered'
  <2>1. inflight' \notin finished'
    BY <1>2, <1>4, <1>9
  <2>2. \A u \in Caller : Got(u)' => Got(u)
    BY <1>2, <1>9 DEF Got, Fetching
  <2>3. \A u \in Caller : Got(u)' /\ val'[my'[u]] # Failed => floor'[u] <= val'[my'[u]]
    BY <1>2, <1>3, <1>9, <2>2
  <2>4. \A u \in Caller : stage'[u] \in {"cached", "stored"} => u = t
    BY <1>4, <1>9 DEF Fetching
  <2> QED BY <1>9, <2>1, <2>3, <2>4 DEF CacheOrdered
<1>10. CASE S!StoreFresh(t)
  <2>1. /\ UNCHANGED <<stale, fetches, held, top, floor>> /\ stage[t] = "fetch"
        /\ stage' = [stage EXCEPT ![t] = "cached"] /\ cached' = fetches
    BY <1>1, <1>10 DEF S!StoreFresh, S!At, S!Goto, Fetching
  <2>2. stage'[t] = "cached" /\ \A u \in Caller : u # t => stage'[u] = stage[u]
    BY <1>1, <2>1
  <2>3. Freshest(cached)'
    BY <1>1, <1>2, <2>1 DEF Freshest
  <2> QED BY <1>9, <2>1, <2>2, <2>3 DEF Fetching
<1>11. CASE S!StoreStale(t)
  <2>1. /\ UNCHANGED <<cached, fetches, held, top, floor>> /\ stage[t] = "cached"
        /\ stage' = [stage EXCEPT ![t] = "stored"] /\ stale' = fetches
        /\ cached \in {0, fetches}
    BY <1>1, <1>3, <1>11 DEF S!StoreStale, S!At, S!Goto, Fetching
  <2>2. stage'[t] = "stored" /\ \A u \in Caller : u # t => stage'[u] = stage[u]
    BY <1>1, <2>1
  <2>3. cached' # 0 => Freshest(cached)'
    BY <1>1, <1>2, <2>1 DEF Freshest
  <2> QED BY <1>9, <2>1, <2>2, <2>3 DEF Fetching
<1>12. CASE S!CheckMiss(t)
  <2>1. /\ UNCHANGED <<cached, stale, top, floor>> /\ stage[t] = "check"
        /\ stage' = [stage EXCEPT ![t] = "fetch"]
    BY <1>12 DEF S!CheckMiss, S!Begin, S!At, S!Goto
  <2>2. stage'[t] = "fetch" /\ \A u \in Caller : u # t => stage'[u] = stage[u]
    BY <1>1, <2>1
  <2>3. cached' # 0 => Freshest(cached)'
    BY <1>2, <1>3, <2>1 DEF Freshest
  <2> QED BY <1>9, <2>1, <2>2, <2>3 DEF Fetching
<1> QED BY <1>6, <1>7, <1>10, <1>11, <1>12

\* and so do the steps of Do.
LEMMA OrderedDo ==
  ASSUME CacheAssumptions, CacheInv, CacheTyped', NEW t \in Caller,
         \/ S!DoJoin(t) \/ S!DoLead(t) \/ S!DoQuery(t)
         \/ S!FetchFails(t) \/ S!CheckHit(t)
         \/ S!FetchReturns(t, "cached") \/ S!FetchReturns(t, "stored")
         \/ S!Return(t) \/ S!ReturnValue(t) \/ S!FallBack(t)
  PROVE  CacheOrdered'
<1>1. /\ cached \in 0..fetches /\ stale \in 0..fetches /\ fetches \in Nat
      /\ top \in 0..fetches /\ floor \in [Caller -> 0..top] /\ stage \in [Caller -> Stage]
      /\ \A c \in finished : val[c] = Failed \/ val[c] \in 1..fetches
      /\ \A u \in Caller : stage[u] \in Fetching => held[u] = fetches /\ fetches # 0
      /\ finished \subseteq 1..execs /\ execs \in 0..MaxExec /\ MaxExec \in Nat
      /\ val \in [1..MaxExec -> Outcome \cup {None}] /\ my \in [Caller -> 0..execs]
      /\ gpc \in [Caller -> {"idle", "waiting", "executing", "finishing"}]
  <2>1. /\ S!CacheTypeOK /\ S!TypeOK
        /\ \A u \in Caller : stage[u] \in Fetching => held[u] = fetches /\ fetches # 0
        /\ \A c \in finished : val[c] = Failed \/ val[c] \in 1..fetches
    BY DEF CacheInv, CacheTyped, S!CacheTypeOK
  <2>2. MaxExec \in Nat
    BY DEF CacheAssumptions, S!SingleflightParameters
  <2>3. /\ cached \in 0..fetches /\ stale \in 0..fetches /\ fetches \in Nat
        /\ top \in 0..fetches /\ floor \in [Caller -> 0..top] /\ stage \in [Caller -> Stage]
    <3>1. fetches \in 0..MaxExec
      BY <2>1 DEF S!CacheTypeOK
    <3>2. fetches \in Nat
      BY <2>2, <3>1
    <3>3. stage \in [Caller -> Stage]
      BY <2>1 DEF S!CacheTypeOK, Stage, Fetching
    <3> QED BY <2>1, <3>2, <3>3 DEF S!CacheTypeOK
  <2>4. /\ finished \subseteq 1..execs /\ execs \in 0..MaxExec
        /\ val \in [1..MaxExec -> Outcome \cup {None}] /\ my \in [Caller -> 0..execs]
        /\ gpc \in [Caller -> {"idle", "waiting", "executing", "finishing"}]
    BY <2>1 DEF S!TypeOK
  <2> QED BY <2>1, <2>2, <2>3, <2>4
<1>2. StagesAgree
  BY DEF CacheInv, CacheTyped
<1>3. /\ cached # 0 => Freshest(cached)
      /\ inflight \in finished /\ val[inflight] # Failed => Freshest(val[inflight])
      /\ \A u \in Caller : Got(u) /\ val[my[u]] # Failed => floor[u] <= val[my[u]]
      /\ \A u \in Caller : stage[u] \in {"cached", "stored"} => cached \in {0, fetches}
  BY DEF CacheInv, CacheOrdered
<1>4. /\ \A u \in Caller : Leads(u) => inflight = my[u] /\ my[u] \in 1..execs
      /\ \A u, v \in Caller : Leads(u) /\ Leads(v) => u = v
      /\ \A u \in Caller : gpc[u] = "executing" => my[u] \notin finished
      /\ \A u \in Caller : gpc[u] = "finishing" => my[u] \in finished
  BY DEF CacheInv, GroupInv
<1>5. CASE S!DoJoin(t)
  <2>1. /\ stage' = [stage EXCEPT ![t] = "joined"] /\ my' = [my EXCEPT ![t] = inflight]
        /\ UNCHANGED <<inflight, finished, val, cached, stale, fetches, top, floor>>
    BY <1>5 DEF S!DoJoin, S!Join, S!Goto, S!Stay
  <2>2. /\ stage'[t] = "joined" /\ my'[t] = inflight
        /\ \A u \in Caller : u # t => stage'[u] = stage[u] /\ my'[u] = my[u]
    BY <1>1, <2>1
  <2>4. cached' # 0 => Freshest(cached)'
    BY <1>3, <2>1 DEF Freshest
  <2>5. inflight' \in finished' /\ val'[inflight'] # Failed => Freshest(val[inflight])'
    BY <1>3, <2>1 DEF Freshest
  <2>6. ASSUME NEW u \in Caller, Got(u)', val'[my'[u]] # Failed
        PROVE  floor'[u] <= val'[my'[u]]
    <3>1. CASE u = t
      <4>1. my'[u] = inflight /\ val'[my'[u]] = val[inflight] /\ inflight \in finished
        BY <2>1, <2>2, <2>6, <3>1 DEF Got
      <4>2. val[inflight] # Failed
        BY <2>6, <4>1
      <4>3. Freshest(val[inflight]) /\ val[inflight] \in Nat
        BY <1>1, <1>3, <4>1, <4>2
      <4>4. top <= val[inflight] /\ top \in Nat
        BY <1>1, <4>3 DEF Freshest
      <4>5. floor[t] \in 0..top
        BY <1>1
      <4> QED BY <2>1, <3>1, <4>1, <4>3, <4>4, <4>5
    <3>2. CASE u # t
      BY <1>3, <2>1, <2>2, <2>6, <3>2 DEF Got
    <3> QED BY <3>1, <3>2
  <2>7. \A u \in Caller : stage'[u] \in {"cached", "stored"} => cached' \in {0, fetches'}
    BY <1>3, <2>1, <2>2
  <2> QED BY <2>4, <2>5, <2>6, <2>7 DEF CacheOrdered
<1>6. ASSUME S!DoLead(t) \/ S!DoQuery(t)
      PROVE  CacheOrdered'
  <2>1. /\ inflight = 0 /\ inflight' = execs + 1 /\ my' = [my EXCEPT ![t] = execs + 1]
        /\ UNCHANGED <<finished, val, cached, stale, top, floor>>
        /\ \E s \in {"check", "fetch"} : stage' = [stage EXCEPT ![t] = s]
    BY <1>6 DEF S!DoLead, S!DoQuery, S!Lead, S!Entered, S!Stay, S!Begin, S!Goto
  <2>2. /\ stage'[t] \in {"check", "fetch"}
        /\ \A u \in Caller : u # t => stage'[u] = stage[u] /\ my'[u] = my[u]
    BY <1>1, <2>1
  <2>3. cached' # 0 => Freshest(cached)'
    BY <1>3, <2>1 DEF Freshest
  <2>4. inflight' \notin finished'
    BY <1>1, <2>1
  <2>5. \A u \in Caller : Got(u)' => u # t /\ Got(u)
    BY <2>1, <2>2 DEF Got
  <2>6. \A u \in Caller : Got(u)' /\ val'[my'[u]] # Failed => floor'[u] <= val'[my'[u]]
    BY <1>3, <2>1, <2>2, <2>5
  <2>7. \A u \in Caller : stage[u] \notin {"cached", "stored"}
    BY <1>1, <1>2, <1>4, <2>1 DEF StagesAgree, Leads, Fetching
  <2> QED BY <2>2, <2>3, <2>4, <2>6, <2>7 DEF CacheOrdered
<1>7. ASSUME NEW v, S!Finish(t, v), S!Goto(t, "led"), S!Stay,
             v = Failed \/ (v \in 1..fetches /\ Freshest(v) /\ (cached # 0 => v <= cached))
      PROVE  CacheOrdered'
  <2>1. /\ gpc[t] = "executing" /\ my[t] \in 1..execs /\ my[t] \in 1..MaxExec
        /\ inflight = my[t] /\ my[t] \notin finished
        /\ val' = [val EXCEPT ![my[t]] = v] /\ finished' = finished \cup {my[t]}
        /\ stage' = [stage EXCEPT ![t] = "led"]
        /\ UNCHANGED <<inflight, my, cached, stale, fetches, top, floor>>
    BY <1>1, <1>4, <1>7 DEF S!Finish, S!Stored, S!Released, S!Goto, S!Stay, Leads
  <2>2. /\ val'[my[t]] = v /\ \A c \in finished : val'[c] = val[c]
        /\ stage'[t] = "led" /\ \A u \in Caller : u # t => stage'[u] = stage[u]
    BY <1>1, <2>1
  <2>3. \A n \in Nat : Freshest(n) /\ (v # Failed => v <= n) =>
          \A c \in finished' : val'[c] # Failed => val'[c] <= n
    BY <2>1, <2>2 DEF Freshest
  <2>4. cached' # 0 => Freshest(cached)'
    <3> SUFFICES ASSUME cached # 0
                 PROVE  Freshest(cached)'
      BY <2>1
    <3>1. Freshest(cached) /\ cached \in Nat /\ (v # Failed => v <= cached)
      BY <1>1, <1>3, <1>7
    <3>2. \A c \in finished' : val'[c] # Failed => val'[c] <= cached
      BY <2>3, <3>1
    <3> QED BY <2>1, <3>1, <3>2 DEF Freshest
  <2>5. inflight' \in finished' /\ val'[inflight'] # Failed => Freshest(val[inflight])'
    <3> SUFFICES ASSUME v # Failed
                 PROVE  Freshest(val[inflight])'
      BY <2>1, <2>2
    <3>1. Freshest(v) /\ v \in Nat /\ v <= v
      BY <1>7
    <3>2. \A c \in finished' : val'[c] # Failed => val'[c] <= v
      BY <2>3, <3>1
    <3>3. val'[inflight'] = v
      BY <2>1, <2>2
    <3> QED BY <2>1, <3>1, <3>2, <3>3 DEF Freshest
  <2>6. ASSUME NEW u \in Caller, Got(u)', val'[my'[u]] # Failed
        PROVE  floor'[u] <= val'[my'[u]]
    <3>1. CASE my[u] = my[t]
      <4>1. val'[my'[u]] = v /\ top <= v /\ v \in Nat
        BY <1>7, <2>1, <2>2, <2>6, <3>1 DEF Freshest
      <4>2. floor'[u] \in 0..top
        BY <1>1, <2>1
      <4> QED BY <1>1, <4>1, <4>2
    <3>2. CASE my[u] # my[t]
      <4>1. u # t /\ Got(u) /\ val'[my'[u]] = val[my[u]]
        BY <2>1, <2>2, <2>6, <3>2 DEF Got
      <4> QED BY <1>3, <2>1, <2>6, <4>1
    <3> QED BY <3>1, <3>2
  <2>7. \A u \in Caller : stage'[u] \in {"cached", "stored"} => cached' \in {0, fetches'}
    BY <1>3, <2>1, <2>2
  <2> QED BY <2>4, <2>5, <2>6, <2>7 DEF CacheOrdered
<1>8. CASE S!FetchFails(t)
  BY <1>7, <1>8 DEF S!FetchFails
<1>9. CASE S!CheckHit(t)
  <2>1. cached \in 1..fetches /\ Freshest(cached) /\ cached <= cached
    BY <1>1, <1>3, <1>9 DEF S!CheckHit, S!DoubleCheckHits
  <2> QED BY <1>7, <1>9, <2>1 DEF S!CheckHit
<1>10. CASE S!FetchReturns(t, "cached") \/ S!FetchReturns(t, "stored")
  <2>1. held[t] = fetches /\ fetches \in 1..fetches /\ (cached # 0 => held[t] <= cached)
    BY <1>1, <1>3, <1>10 DEF S!FetchReturns, S!At, Fetching
  <2>2. Freshest(fetches)
    BY <1>1 DEF Freshest
  <2> QED BY <1>7, <1>10, <2>1, <2>2 DEF S!FetchReturns
<1>11. ASSUME S!Return(t) \/ S!ReturnValue(t) \/ S!FallBack(t)
       PROVE  CacheOrdered'
  <2>1. /\ my[t] \in finished /\ inflight' \in {0, inflight}
        /\ UNCHANGED <<finished, val, my, cached, stale, fetches, floor>>
        /\ \E s \in {"out", "fallback"} : stage' = [stage EXCEPT ![t] = s]
    BY <1>4, <1>11 DEF S!Return, S!ReturnValue, S!FallBack, S!Ended, S!Forget, S!Deleted, S!Wake,
                       S!Answer, S!Goto, S!Stay
  <2>2. /\ stage'[t] \in {"out", "fallback"}
        /\ \A u \in Caller : u # t => stage'[u] = stage[u]
    BY <1>1, <2>1
  <2>3. top' = top \/ (val[my[t]] # Failed /\ top' = val[my[t]])
    BY <1>11 DEF S!Return, S!ReturnValue, S!FallBack, S!Answer, S!Stay
  <2>4. \A n \in Nat : Freshest(n) => top' <= n
    BY <2>1, <2>3 DEF Freshest
  <2>5. cached' # 0 => Freshest(cached)'
    <3> SUFFICES ASSUME cached # 0
                 PROVE  Freshest(cached)'
      BY <2>1
    <3>1. Freshest(cached) /\ cached \in Nat
      BY <1>1, <1>3
    <3> QED BY <2>1, <2>4, <3>1 DEF Freshest
  <2>6. inflight' \in finished' /\ val'[inflight'] # Failed => Freshest(val[inflight])'
    <3> SUFFICES ASSUME inflight' \in finished', val'[inflight'] # Failed
                 PROVE  Freshest(val[inflight])'
      OBVIOUS
    <3>1. inflight' = inflight /\ val'[inflight'] = val[inflight]
      BY <1>1, <2>1
    <3>2. Freshest(val[inflight]) /\ val[inflight] \in Nat
      BY <1>1, <1>3, <2>1, <3>1
    <3> QED BY <2>1, <2>4, <3>1, <3>2 DEF Freshest
  <2>7. \A u \in Caller : Got(u)' => Got(u)
    BY <2>1, <2>2 DEF Got
  <2>8. \A u \in Caller : Got(u)' /\ val'[my'[u]] # Failed => floor'[u] <= val'[my'[u]]
    BY <1>3, <2>1, <2>7
  <2>9. \A u \in Caller : stage'[u] \in {"cached", "stored"} => cached' \in {0, fetches'}
    BY <1>3, <2>1, <2>2
  <2> QED BY <2>5, <2>6, <2>8, <2>9 DEF CacheOrdered
<1> QED BY <1>5, <1>6, <1>8, <1>9, <1>10, <1>11

\* Each step of either cache keeps the invariant.
LEMMA CacheKept ==
  ASSUME CacheAssumptions, CacheInv, NEW t \in Caller, CacheStep(t)
  PROVE  CacheInv'
<1>1. GroupInv' /\ S!TypeOK'
  BY CacheSteps, GroupStep DEF CacheAssumptions, CacheInv, GroupInv
<1>2. CASE \/ S!Call(t) \/ S!Hit(t) \/ S!Miss(t) \/ S!StoreFresh(t) \/ S!CheckMiss(t)
           \/ S!StoreStale(t) \/ S!ReturnStale(t) \/ S!ReturnError(t)
  <2>1. UNCHANGED groupVars
    BY <1>2 DEF S!Call, S!Hit, S!Miss, S!StoreFresh, S!CheckMiss, S!StoreStale, S!ReturnStale,
                S!ReturnError, S!sfVars, groupVars
  <2>2. CacheTyped'
    BY <1>1, <1>2, <2>1, TypedAlone
  <2> QED BY <1>1, <1>2, <2>1, <2>2, OrderedAlone DEF CacheInv
<1>3. CASE \/ S!DoJoin(t) \/ S!DoLead(t) \/ S!DoQuery(t) \/ S!FetchFails(t) \/ S!CheckHit(t)
           \/ S!FetchReturns(t, "cached") \/ S!FetchReturns(t, "stored")
           \/ S!Return(t) \/ S!ReturnValue(t) \/ S!FallBack(t)
  <2>1. CacheTyped'
    BY <1>1, <1>3, TypedDo
  <2> QED BY <1>1, <1>3, <2>1, OrderedDo DEF CacheInv
<1> QED BY <1>2, <1>3 DEF CacheStep, S!ProtectedStep, S!FallbackStep, S!Common

\* and so does the ttl.
LEMMA ExpireKept ==
  ASSUME CacheAssumptions, CacheInv, S!Expire
  PROVE  CacheInv'
<1>1. /\ UNCHANGED <<inflight, execs, finished, val, gpc, my>>
      /\ UNCHANGED <<stale, fetches, stage, held, top, floor>> /\ cached' = 0
  BY DEF S!Expire, S!sfVars
<1>2. GroupInv'
  BY <1>1 DEF CacheInv, GroupInv, Leads, S!TypeOK
<1>3. CacheTyped'
  BY <1>1 DEF CacheInv, CacheTyped, S!CacheTypeOK, S!TypeOK, StagesAgree
<1>4. ASSUME inflight \in finished, val[inflight] # Failed
      PROVE  Freshest(val[inflight])'
  <2>1. Freshest(val[inflight]) /\ val[inflight] \in Nat
    BY <1>4 DEF CacheInv, CacheTyped, CacheOrdered
  <2> QED BY <1>1, <2>1 DEF Freshest
<1>5. CacheOrdered'
  BY <1>1, <1>4 DEF CacheInv, CacheOrdered, Got
<1> QED BY <1>2, <1>3, <1>5 DEF CacheInv

\* StampedeProtectedCache has no stale copy.
ProtectedInv == CacheInv /\ \A t \in Caller : stage[t] \notin {"stored", "fallback"}

LEMMA ProtectedKept ==
  ASSUME CacheAssumptions, ProtectedInv, [S!ProtectedNext]_<<groupVars, cacheVars>>
  PROVE  ProtectedInv'
<1>1. stage \in [Caller -> Stage]
  BY DEF ProtectedInv, CacheInv, CacheTyped, S!CacheTypeOK, Stage, Fetching
<1>2. ASSUME NEW t \in Caller, S!Call(t) \/ S!ProtectedStep(t)
      PROVE  ProtectedInv'
  <2>1. CacheInv'
    BY <1>2, CacheKept DEF CacheStep, ProtectedInv
  <2>2. \E s : stage' = [stage EXCEPT ![t] = s] /\ s \notin {"stored", "fallback"}
    BY <1>2 DEF S!Call, S!ProtectedStep, S!Common, S!Hit, S!Miss, S!DoJoin, S!FetchFails,
                S!StoreFresh, S!DoLead, S!CheckHit, S!CheckMiss, S!FetchReturns, S!Return,
                S!Answer, S!Begin, S!Goto
  <2> QED BY <1>1, <2>1, <2>2 DEF ProtectedInv
<1>3. CASE S!Expire
  BY <1>3, ExpireKept DEF ProtectedInv, S!Expire
<1>4. CASE UNCHANGED <<groupVars, cacheVars>>
  BY <1>4 DEF groupVars, cacheVars, ProtectedInv, CacheInv, GroupInv, Leads, CacheTyped,
              CacheOrdered, S!CacheTypeOK, S!TypeOK, StagesAgree, Freshest, Got
<1> QED BY <1>2, <1>3, <1>4 DEF S!ProtectedNext

\* The stale copy of SingleflightWithStaleCache lags behind only while a leader has stored
\* one value of the two, and who gets an error knew nothing fresher when it called.
NobodyStores == \A t \in Caller : stage[t] # "cached"

StaleFresh ==
  /\ NobodyStores => Freshest(stale)
  /\ \A t \in Caller : stage[t] = "stored" => stale = fetches
  /\ \A t \in Caller : Got(t) /\ val[my[t]] = Failed => floor[t] <= stale
  /\ \A t \in Caller : stage[t] = "fallback" => floor[t] <= stale

FallbackInv == CacheInv /\ StaleFresh /\ \A t \in Caller : stage[t] # "check"

\* The steps that leave the group alone keep it so,
LEMMA StaleAlone ==
  ASSUME CacheAssumptions, FallbackInv, NEW t \in Caller,
         S!Call(t) \/ S!Miss(t) \/ S!Hit(t) \/ S!StoreFresh(t) \/ S!StoreStale(t)
           \/ S!ReturnStale(t) \/ S!ReturnError(t)
  PROVE  StaleFresh'
<1>1. /\ cached \in 0..fetches /\ stale \in 0..fetches /\ fetches \in Nat
      /\ top \in 0..fetches /\ floor \in [Caller -> 0..top] /\ stage \in [Caller -> Stage]
      /\ \A c \in finished : val[c] = Failed \/ val[c] \in 1..fetches
      /\ \A u \in Caller : stage[u] \in Fetching => held[u] = fetches /\ fetches # 0
  BY DEF FallbackInv, CacheInv, CacheTyped, S!CacheTypeOK, Stage, Fetching
<1>2. /\ NobodyStores => Freshest(stale)
      /\ \A u \in Caller : stage[u] = "stored" => stale = fetches
      /\ \A u \in Caller : Got(u) /\ val[my[u]] = Failed => floor[u] <= stale
      /\ \A u \in Caller : stage[u] = "fallback" => floor[u] <= stale
  BY DEF FallbackInv, StaleFresh
<1>3. UNCHANGED <<inflight, execs, finished, val, gpc, my>>
  BY DEF S!Call, S!Hit, S!Miss, S!StoreFresh, S!StoreStale, S!ReturnStale, S!ReturnError, S!sfVars
<1>4. ASSUME UNCHANGED <<cached, stale, fetches>>, top' \in {top, cached, stale},
             stage[t] # "cached", stage'[t] \in {"out", "lookup", "do"},
             \A u \in Caller : u # t => stage'[u] = stage[u] /\ floor'[u] = floor[u]
      PROVE  StaleFresh'
  <2>1. NobodyStores' => Freshest(stale)'
    <3> SUFFICES ASSUME NobodyStores'
                 PROVE  Freshest(stale)'
      OBVIOUS
    <3>1. NobodyStores
      BY <1>4 DEF NobodyStores
    <3> QED BY <1>1, <1>2, <1>3, <1>4, <3>1 DEF Freshest
  <2>2. \A u \in Caller : Got(u)' => u # t /\ Got(u)
    BY <1>3, <1>4 DEF Got
  <2> QED BY <1>2, <1>3, <1>4, <2>1, <2>2 DEF StaleFresh
<1>5. CASE S!Call(t)
  <2>1. /\ UNCHANGED <<cached, stale, fetches, top>> /\ stage[t] = "out"
        /\ stage' = [stage EXCEPT ![t] = "lookup"] /\ floor' = [floor EXCEPT ![t] = top]
    BY <1>5 DEF S!Call, S!Goto, S!At
  <2>2. /\ stage'[t] = "lookup"
        /\ \A u \in Caller : u # t => stage'[u] = stage[u] /\ floor'[u] = floor[u]
    BY <1>1, <2>1
  <2> QED BY <1>4, <2>1, <2>2
<1>6. CASE S!Miss(t) \/ S!Hit(t) \/ S!ReturnStale(t) \/ S!ReturnError(t)
  <2>1. /\ UNCHANGED <<cached, stale, fetches, floor>> /\ top' \in {top, cached, stale}
        /\ stage[t] # "cached" /\ \E s \in {"do", "out"} : stage' = [stage EXCEPT ![t] = s]
    BY <1>6 DEF S!Miss, S!Hit, S!ReturnStale, S!ReturnError, S!Stay, S!Answer, S!Goto, S!At
  <2>2. /\ stage'[t] \in {"do", "out"} /\ \A u \in Caller : u # t => stage'[u] = stage[u]
    BY <1>1, <2>1
  <2> QED BY <1>4, <2>1, <2>2
<1>7. CASE S!StoreFresh(t)
  <2>1. /\ UNCHANGED <<stale, fetches, top, floor>> /\ stage' = [stage EXCEPT ![t] = "cached"]
    BY <1>7 DEF S!StoreFresh, S!Goto
  <2>2. /\ stage'[t] = "cached" /\ \A u \in Caller : u # t => stage'[u] = stage[u]
    BY <1>1, <2>1
  <2>3. ~NobodyStores'
    BY <2>2 DEF NobodyStores
  <2>4. \A u \in Caller : Got(u)' => Got(u)
    BY <1>3, <2>2 DEF Got
  <2> QED BY <1>2, <1>3, <2>1, <2>2, <2>3, <2>4 DEF StaleFresh
<1>8. CASE S!StoreStale(t)
  <2>1. /\ UNCHANGED <<cached, fetches, top, floor>> /\ stage' = [stage EXCEPT ![t] = "stored"]
        /\ stale' = fetches
    BY <1>1, <1>8 DEF S!StoreStale, S!Goto, S!At, Fetching
  <2>2. /\ stage'[t] = "stored" /\ \A u \in Caller : u # t => stage'[u] = stage[u]
    BY <1>1, <2>1
  <2>3. Freshest(stale)'
    BY <1>1, <1>3, <2>1 DEF Freshest
  <2>4. \A u \in Caller : Got(u)' => Got(u)
    BY <1>3, <2>2 DEF Got
  <2>5. \A u \in Caller : floor'[u] <= stale'
    BY <1>1, <2>1
  <2> QED BY <1>2, <1>3, <2>1, <2>2, <2>3, <2>4, <2>5 DEF StaleFresh
<1> QED BY <1>5, <1>6, <1>7, <1>8

\* and so do the steps of Do.
LEMMA StaleDo ==
  ASSUME CacheAssumptions, FallbackInv, NEW t \in Caller,
         S!DoJoin(t) \/ S!DoQuery(t) \/ S!FetchFails(t) \/ S!FetchReturns(t, "stored")
           \/ S!ReturnValue(t) \/ S!FallBack(t)
  PROVE  StaleFresh'
<1>1. /\ cached \in 0..fetches /\ stale \in 0..fetches /\ fetches \in Nat
      /\ top \in 0..fetches /\ floor \in [Caller -> 0..top] /\ stage \in [Caller -> Stage]
      /\ \A c \in finished : val[c] = Failed \/ val[c] \in 1..fetches
      /\ \A u \in Caller : stage[u] \in Fetching => held[u] = fetches /\ fetches # 0
      /\ finished \subseteq 1..execs /\ execs \in 0..MaxExec /\ MaxExec \in Nat
      /\ val \in [1..MaxExec -> Outcome \cup {None}] /\ my \in [Caller -> 0..execs]
      /\ gpc \in [Caller -> {"idle", "waiting", "executing", "finishing"}] /\ Failed \notin Nat
  BY DEF CacheAssumptions, S!SingleflightParameters, S!CacheParameters, FallbackInv, CacheInv,
         CacheTyped, S!CacheTypeOK, S!TypeOK, Stage, Fetching
<1>2. /\ NobodyStores => Freshest(stale)
      /\ \A u \in Caller : stage[u] = "stored" => stale = fetches
      /\ \A u \in Caller : Got(u) /\ val[my[u]] = Failed => floor[u] <= stale
      /\ \A u \in Caller : stage[u] = "fallback" => floor[u] <= stale
  BY DEF FallbackInv, StaleFresh
<1>3. \A u \in Caller :
        /\ stage[u] \in Fetching <=> gpc[u] = "executing"
        /\ Leads(u) => inflight = my[u] /\ my[u] \in 1..execs
        /\ gpc[u] = "executing" => my[u] \notin finished
        /\ gpc[u] = "finishing" => my[u] \in finished
        /\ \A v \in Caller : Leads(u) /\ Leads(v) => u = v
  BY DEF FallbackInv, CacheInv, CacheTyped, StagesAgree, GroupInv, Fetching
<1>4. ASSUME NobodyStores, NEW u \in Caller
      PROVE  floor[u] <= stale
  <2>1. top <= stale
    BY <1>2, <1>4 DEF Freshest
  <2> QED BY <1>1, <2>1
<1>5. CASE S!DoJoin(t)
  <2>1. /\ stage' = [stage EXCEPT ![t] = "joined"] /\ my' = [my EXCEPT ![t] = inflight]
        /\ UNCHANGED <<finished, val, cached, stale, fetches, top, floor>> /\ stage[t] = "do"
    BY <1>5 DEF S!DoJoin, S!Join, S!Goto, S!Stay, S!At
  <2>2. /\ stage'[t] = "joined" /\ my'[t] = inflight
        /\ \A u \in Caller : u # t => stage'[u] = stage[u] /\ my'[u] = my[u]
    BY <1>1, <2>1
  <2>3. NobodyStores' => Freshest(stale)'
    BY <1>2, <2>1, <2>2 DEF NobodyStores, Freshest
  <2>4. inflight \in finished => NobodyStores
    BY <1>3 DEF NobodyStores, Fetching, Leads
  <2>5. \A u \in Caller : Got(u)' /\ val'[my'[u]] = Failed => floor'[u] <= stale'
    BY <1>2, <1>4, <2>1, <2>2, <2>4 DEF Got
  <2> QED BY <1>2, <2>1, <2>2, <2>3, <2>5 DEF StaleFresh
<1>6. CASE S!DoQuery(t)
  <2>1. /\ stage' = [stage EXCEPT ![t] = "fetch"] /\ my' = [my EXCEPT ![t] = execs + 1]
        /\ UNCHANGED <<finished, val, cached, stale, top, floor>> /\ inflight = 0
        /\ stage[t] = "do"
    BY <1>6 DEF S!DoQuery, S!Lead, S!Begin, S!Goto, S!At
  <2>2. /\ stage'[t] = "fetch"
        /\ \A u \in Caller : u # t => stage'[u] = stage[u] /\ my'[u] = my[u]
    BY <1>1, <2>1
  <2>3. \A u \in Caller : stage[u] \notin Fetching
    BY <1>1, <1>3, <2>1 DEF Leads
  <2>4. Freshest(stale)'
    BY <1>2, <2>1, <2>3 DEF NobodyStores, Freshest, Fetching
  <2>5. \A u \in Caller : Got(u)' => u # t /\ Got(u)
    BY <2>1, <2>2 DEF Got
  <2> QED BY <1>2, <2>1, <2>2, <2>3, <2>4, <2>5 DEF StaleFresh, Fetching
<1>7. ASSUME NEW v, S!Finish(t, v), S!Goto(t, "led"), S!Stay, stage[t] \in {"fetch", "stored"},
             v = Failed \/ v = stale
      PROVE  StaleFresh'
  <2>1. /\ gpc[t] = "executing" /\ my[t] \in 1..execs /\ my[t] \in 1..MaxExec
        /\ my[t] \notin finished
        /\ val' = [val EXCEPT ![my[t]] = v] /\ finished' = finished \cup {my[t]}
        /\ stage' = [stage EXCEPT ![t] = "led"]
        /\ UNCHANGED <<my, cached, stale, fetches, top, floor>>
    BY <1>1, <1>3, <1>7 DEF S!Finish, S!Stored, S!Released, S!Goto, S!Stay, Leads
  <2>2. /\ val'[my[t]] = v /\ \A c \in finished : val'[c] = val[c]
        /\ stage'[t] = "led" /\ \A u \in Caller : u # t => stage'[u] = stage[u]
    BY <1>1, <2>1
  <2>3. NobodyStores
    BY <1>3, <1>7 DEF NobodyStores, Fetching, Leads
  <2>4. Freshest(stale)'
    <3>1. Freshest(stale)
      BY <1>2, <2>3
    <3>2. \A c \in finished' : val'[c] # Failed => val'[c] <= stale
      BY <1>1, <1>7, <2>1, <2>2, <3>1 DEF Freshest
    <3> QED BY <2>1, <3>1, <3>2 DEF Freshest
  <2>5. \A u \in Caller : floor'[u] <= stale'
    BY <1>4, <2>1, <2>3
  <2> QED BY <1>2, <2>1, <2>2, <2>4, <2>5 DEF StaleFresh
<1>8. CASE S!FetchFails(t)
  BY <1>7, <1>8 DEF S!FetchFails, S!At
<1>9. CASE S!FetchReturns(t, "stored")
  <2>1. held[t] = stale
    BY <1>1, <1>2, <1>9 DEF S!FetchReturns, S!At, Fetching
  <2> QED BY <1>7, <1>9, <2>1 DEF S!FetchReturns, S!At
<1>10. ASSUME S!ReturnValue(t) \/ S!FallBack(t)
       PROVE  StaleFresh'
  <2>1. /\ my[t] \in finished /\ stage[t] \in {"led", "joined"}
        /\ UNCHANGED <<finished, val, my, cached, stale, fetches, floor>>
    BY <1>3, <1>10 DEF S!ReturnValue, S!FallBack, S!Ended, S!Forget, S!Wake, S!Answer, S!Stay, S!At
  <2>2. /\ \/ stage' = [stage EXCEPT ![t] = "out"]
           \/ stage' = [stage EXCEPT ![t] = "fallback"] /\ val[my[t]] = Failed
        /\ top' = top \/ (val[my[t]] # Failed /\ top' = val[my[t]])
    BY <1>10 DEF S!ReturnValue, S!FallBack, S!Answer, S!Stay, S!Goto
  <2>3. /\ stage'[t] = "out" \/ (stage'[t] = "fallback" /\ val[my[t]] = Failed)
        /\ \A u \in Caller : u # t => stage'[u] = stage[u]
    BY <1>1, <2>2
  <2>4. NobodyStores' => Freshest(stale)'
    <3> SUFFICES ASSUME NobodyStores'
                 PROVE  Freshest(stale)'
      OBVIOUS
    <3>1. Freshest(stale)
      BY <1>2, <2>1, <2>3 DEF NobodyStores
    <3> QED BY <2>1, <2>2, <3>1 DEF Freshest
  <2>5. Got(t) /\ \A u \in Caller : Got(u)' => Got(u)
    BY <2>1, <2>3 DEF Got
  <2>6. \A u \in Caller : stage'[u] = "fallback" => floor'[u] <= stale'
    BY <1>2, <2>1, <2>3, <2>5
  <2> QED BY <1>2, <2>1, <2>3, <2>4, <2>5, <2>6 DEF StaleFresh
<1> QED BY <1>5, <1>6, <1>8, <1>9, <1>10

LEMMA FallbackKept ==
  ASSUME CacheAssumptions, FallbackInv, [S!FallbackNext]_<<groupVars, cacheVars>>
  PROVE  FallbackInv'
<1>1. stage \in [Caller -> Stage]
  BY DEF FallbackInv, CacheInv, CacheTyped, S!CacheTypeOK, Stage, Fetching
<1>2. ASSUME NEW t \in Caller, S!Call(t) \/ S!FallbackStep(t)
      PROVE  FallbackInv'
  <2>1. CacheInv'
    BY <1>2, CacheKept DEF CacheStep, FallbackInv
  <2>2. \E s : stage' = [stage EXCEPT ![t] = s] /\ s # "check"
    BY <1>2 DEF S!Call, S!FallbackStep, S!Common, S!Hit, S!Miss, S!DoJoin, S!FetchFails,
                S!StoreFresh, S!DoQuery, S!StoreStale, S!FetchReturns, S!ReturnValue, S!FallBack,
                S!ReturnStale, S!ReturnError, S!Answer, S!Begin, S!Goto
  <2>3. StaleFresh'
    BY <1>2, StaleAlone, StaleDo DEF S!FallbackStep, S!Common
  <2> QED BY <1>1, <2>1, <2>2, <2>3 DEF FallbackInv
<1>3. CASE S!Expire
  <2>1. CacheInv'
    BY <1>3, ExpireKept DEF FallbackInv
  <2>2. /\ UNCHANGED <<finished, val, my, stale, fetches, stage, top, floor>> /\ cached' = 0
        /\ stale \in Nat
    BY <1>3 DEF S!Expire, S!sfVars, FallbackInv, CacheInv, CacheTyped, S!CacheTypeOK
  <2>3. StaleFresh'
    BY <2>2 DEF FallbackInv, StaleFresh, NobodyStores, Freshest, Got
  <2> QED BY <2>1, <2>2, <2>3 DEF FallbackInv
<1>4. CASE UNCHANGED <<groupVars, cacheVars>>
  BY <1>4 DEF groupVars, cacheVars, FallbackInv, CacheInv, GroupInv, Leads, CacheTyped,
              CacheOrdered, S!CacheTypeOK, S!TypeOK, StagesAgree, Freshest, Got, StaleFresh,
              NobodyStores
<1> QED BY <1>2, <1>3, <1>4 DEF S!FallbackNext

\* It begins true.
LEMMA CacheInit ==
  ASSUME CacheAssumptions, S!CacheInit
  PROVE  ProtectedInv /\ FallbackInv
<1>1. GroupInv
  BY GroupInit DEF CacheAssumptions, S!CacheInit
<1>2. CacheTyped
  <2>1. S!CacheTypeOK
    BY <1>1 DEF CacheAssumptions, S!SingleflightParameters, S!CacheInit, S!Init, GroupInv,
                S!CacheTypeOK
  <2> QED BY <2>1 DEF S!CacheInit, S!Init, CacheTyped, StagesAgree, Fetching
<1>3. Freshest(0) /\ CacheOrdered
  BY DEF S!CacheInit, S!Init, CacheOrdered, Freshest, Got
<1>4. StaleFresh
  BY <1>3 DEF S!CacheInit, S!Init, StaleFresh, Got
<1> QED BY <1>1, <1>2, <1>3, <1>4 DEF S!CacheInit, CacheInv, ProtectedInv, FallbackInv

\* What the invariants say of the answers.
LEMMA CacheImplies ==
  ASSUME ProtectedInv \/ FallbackInv
  PROVE  S!OneInFlight /\ S!MonotonicAnswers /\ S!FallbackAvailable
<1>1. CacheInv
  BY DEF ProtectedInv, FallbackInv
<1>2. S!OneInFlight
  BY <1>1, GroupImplies DEF CacheInv
<1>3. top \in 0..fetches /\ fetches \in Nat /\ floor \in [Caller -> 0..top] /\ stale \in Nat
  BY <1>1 DEF CacheInv, CacheTyped, S!CacheTypeOK
<1>4. ASSUME NEW t \in Caller, stage[t] = "fallback"
      PROVE  floor[t] <= stale
  BY <1>4 DEF ProtectedInv, FallbackInv, StaleFresh
<1>5. S!FallbackAvailable
  BY <1>3, <1>4 DEF S!FallbackAvailable, S!At
<1>6. ASSUME NEW t \in Caller, cached # 0
      PROVE  cached >= floor[t]
  <2>1. top <= cached /\ cached \in Nat
    BY <1>1, <1>6 DEF CacheInv, CacheTyped, S!CacheTypeOK, CacheOrdered, Freshest
  <2> QED BY <1>3, <2>1
<1>7. ASSUME NEW t \in Caller, stage[t] \in {"led", "joined"}, my[t] \in finished,
             val[my[t]] # Failed
      PROVE  val[my[t]] >= floor[t]
  <2>1. floor[t] <= val[my[t]] /\ val[my[t]] \in Nat
    BY <1>1, <1>7 DEF CacheInv, CacheTyped, CacheOrdered, Got
  <2> QED BY <1>3, <2>1
<1>8. S!MonotonicAnswers
  BY <1>3, <1>4, <1>6, <1>7 DEF S!MonotonicAnswers, S!At
<1> QED BY <1>2, <1>5, <1>8

\* Do, GetOrCompute, Fetch: one execution at a time, no answer older than one that was returned
\* before the call, and a stale value rather than an error.
THEOREM CachesSound ==
  ASSUME CacheAssumptions
  PROVE  S!CacheSpec => [](S!OneInFlight /\ S!MonotonicAnswers /\ S!FallbackAvailable)
<1>1. S!CacheInit => ProtectedInv /\ FallbackInv
  BY CacheInit
<1>2. ProtectedInv /\ [S!ProtectedNext]_(S!vars) => ProtectedInv'
  BY ProtectedKept DEF S!vars, S!sfVars, S!cacheVars, groupVars, cacheVars
<1>3. FallbackInv /\ [S!FallbackNext]_(S!vars) => FallbackInv'
  BY FallbackKept DEF S!vars, S!sfVars, S!cacheVars, groupVars, cacheVars
<1>4. /\ ProtectedInv => S!OneInFlight /\ S!MonotonicAnswers /\ S!FallbackAvailable
      /\ FallbackInv => S!OneInFlight /\ S!MonotonicAnswers /\ S!FallbackAvailable
  BY CacheImplies
<1> QED BY <1>1, <1>2, <1>3, <1>4, PTL DEF S!CacheSpec

\* Only the caller that looks a second time begins a fetch, when its look finds nothing.
LEMMA FetchesOnce ==
  ASSUME CacheInv, NEW t \in Caller, stage[t] = "check", fetches' > fetches,
         S!ProtectedNext \/ S!FallbackNext \/ UNCHANGED cacheVars
  PROVE  cached = 0 /\ ~\E u \in Caller : stage[u] = "fetch"
<1>1. fetches \in Nat /\ ~(fetches > fetches)
  BY DEF CacheInv, CacheTyped, S!CacheTypeOK
<1>2. inflight # 0 /\ \A u \in Caller : stage[u] \in {"check", "fetch"} => u = t
  <2>1. gpc[t] = "executing"
    BY DEF CacheInv, CacheTyped, StagesAgree
  <2>2. inflight = my[t] /\ my[t] \in 1..execs
    BY <2>1 DEF CacheInv, GroupInv, Leads
  <2>3. inflight # 0
    BY <2>2
  <2>4. \A u \in Caller : stage[u] \in {"check", "fetch"} => Leads(u)
    BY DEF CacheInv, CacheTyped, StagesAgree, Fetching, Leads
  <2>5. \A u \in Caller : stage[u] \in {"check", "fetch"} => u = t
    BY <2>1, <2>4 DEF CacheInv, GroupInv, Leads
  <2> QED BY <2>3, <2>5
<1>3. PICK u \in Caller : S!CheckMiss(u) \/ S!DoQuery(u)
  BY <1>1 DEF S!ProtectedNext, S!FallbackNext, S!ProtectedStep, S!FallbackStep, S!Common,
              S!Expire, S!Call, S!Hit, S!Miss, S!DoJoin, S!FetchFails, S!StoreFresh, S!DoLead,
              S!CheckHit, S!FetchReturns, S!Return, S!StoreStale, S!ReturnValue, S!FallBack,
              S!ReturnStale, S!ReturnError, S!Answer, S!Stay, cacheVars
<1>4. S!CheckMiss(u) /\ stage[u] = "check" /\ cached = 0
  BY <1>2, <1>3 DEF S!DoQuery, S!Lead, S!CheckMiss, S!At, S!DoubleCheckHits
<1> QED BY <1>2, <1>4

\* GetOrCompute: a fetch begins neither beside an unexpired value nor beside another fetch.
THEOREM NoRedundantFetchHolds ==
  ASSUME CacheAssumptions
  PROVE  S!CacheSpec => S!NoRedundantFetch
<1>1. S!CacheInit => ProtectedInv /\ FallbackInv
  BY CacheInit
<1>2. ProtectedInv /\ [S!ProtectedNext]_(S!vars) => ProtectedInv'
  BY ProtectedKept DEF S!vars, S!sfVars, S!cacheVars, groupVars, cacheVars
<1>3. FallbackInv /\ [S!FallbackNext]_(S!vars) => FallbackInv'
  BY FallbackKept DEF S!vars, S!sfVars, S!cacheVars, groupVars, cacheVars
<1>4. ProtectedInv /\ [S!ProtectedNext]_(S!vars) =>
       [\A t \in Caller : S!At(t, "check") /\ fetches' > fetches =>
          cached = 0 /\ ~\E u \in Caller : S!At(u, "fetch")]_(S!vars)
  BY FetchesOnce DEF ProtectedInv, S!At
<1>5. FallbackInv /\ [S!FallbackNext]_(S!vars) =>
       [\A t \in Caller : S!At(t, "check") /\ fetches' > fetches =>
          cached = 0 /\ ~\E u \in Caller : S!At(u, "fetch")]_(S!vars)
  BY FetchesOnce DEF FallbackInv, S!At
<1> QED BY <1>1, <1>2, <1>3, <1>4, <1>5, PTL DEF S!CacheSpec, S!NoRedundantFetch

-----------------------------------------------------------------------------
(* The cache-aside service. *)

\* Each step keeps the types: nothing is newer than the database.
LEMMA AsideTyped ==
  ASSUME A!AsideParameters, A!TypeOK, [A!Next]_asideVars
  PROVE  A!TypeOK'
<1> USE DEF A!TypeOK
<1>1. MaxVersion \in Nat /\ db \in Nat /\ known \in 0..db /\ item \in -1..db
  BY DEF A!AsideParameters
<1>2. ASSUME NEW r \in Reader, A!GetHit(r) \/ A!GetFromDb(r) \/ A!Populate(r)
      PROVE  A!TypeOK'
  <2>1. CASE A!GetHit(r)
    <3>1. item \in 0..db
      BY <1>1, <2>1 DEF A!GetHit, A!CacheMiss
    <3> QED BY <2>1, <3>1 DEF A!GetHit
  <2>2. CASE A!GetFromDb(r)
    <3>1. db \in 0..db
      BY <1>1
    <3> QED BY <2>2, <3>1 DEF A!GetFromDb, A!Goto
  <2>3. CASE A!Populate(r)
    <3>1. read[r] \in -1..db
      BY <1>1
    <3> QED BY <2>3, <3>1 DEF A!Populate, A!Goto
  <2> QED BY <1>2, <2>1, <2>2, <2>3
<1>3. ASSUME NEW w \in Writer, A!SetDb(w)
      PROVE  A!TypeOK'
  <2>1. /\ db' = db + 1 /\ db + 1 \in 0..MaxVersion
        /\ read' = [read EXCEPT ![w] = db + 1] /\ apc' = [apc EXCEPT ![w] = "invalidate"]
        /\ UNCHANGED <<item, ttlPassed, known>>
    BY <1>1, <1>3 DEF A!SetDb, A!Written, A!Goto
  <2>2. read' \in [Reader \cup Writer -> 0..(db + 1)]
    <3>1. read \in [Reader \cup Writer -> 0..(db + 1)] /\ db + 1 \in 0..(db + 1)
      BY <1>1
    <3> QED BY <2>1, <3>1
  <2>3. known \in 0..(db + 1) /\ item \in -1..(db + 1)
    BY <1>1
  <2> QED BY <2>1, <2>2, <2>3
<1>4. ASSUME NEW w \in Writer, A!Invalidate(w)
      PROVE  A!TypeOK'
  <2>1. known' \in 0..db /\ -1 \in -1..db
    BY <1>1, <1>4 DEF A!Invalidate
  <2> QED BY <1>4, <2>1 DEF A!Invalidate, A!AfterDelete, A!Goto
<1>5. CASE A!Expire
  BY <1>5 DEF A!Expire
<1>6. CASE UNCHANGED asideVars
  BY <1>6 DEF asideVars
<1> QED BY <1>2, <1>3, <1>4, <1>5, <1>6 DEF A!Next

LEMMA AsideInit ==
  ASSUME A!AsideParameters, A!Init
  PROVE  A!TypeOK
<1>1. /\ db = 0 /\ known = 0 /\ item = -1 /\ ttlPassed = FALSE
      /\ apc = [g \in Reader \cup Writer |-> "idle"]
      /\ read = [g \in Reader \cup Writer |-> 0]
  BY DEF A!Init
<1>2. db \in 0..MaxVersion /\ known \in 0..db /\ item \in -1..db /\ 0 \in 0..db
  BY <1>1 DEF A!AsideParameters
<1>3. read \in [Reader \cup Writer -> 0..db]
  BY <1>1, <1>2
<1> QED BY <1>1, <1>2, <1>3 DEF A!TypeOK

\* Delete and the ttl leave no version in the cache, a Set changes the database only.
LEMMA StaleByPopulate ==
  ASSUME A!AsideParameters, A!TypeOK, A!Next, ~A!Stale, A!Stale'
  PROVE  \E r \in Reader : apc[r] = "populate" /\ apc'[r] = "idle"
<1>1. ASSUME NEW g \in Reader \cup Writer, A!GetHit(g) \/ A!GetFromDb(g) \/ A!SetDb(g)
      PROVE  FALSE
  BY <1>1 DEF A!GetHit, A!GetFromDb, A!SetDb, A!Stale, A!CacheMiss
<1>2. ASSUME NEW w \in Writer, A!Invalidate(w)
      PROVE  FALSE
  BY <1>2 DEF A!Invalidate, A!AfterDelete, A!Stale, A!CacheMiss
<1>3. CASE A!Expire
  BY <1>3 DEF A!Expire, A!Stale, A!CacheMiss
<1>4. ASSUME NEW r \in Reader, A!Populate(r)
      PROVE  apc[r] = "populate" /\ apc'[r] = "idle"
  BY <1>4 DEF A!Populate, A!Goto, A!TypeOK
<1> QED BY <1>1, <1>2, <1>3, <1>4 DEF A!Next

\* Get and Set: the cache comes to serve an old version in one way only.
THEOREM StaleOnlyFromRacingGetHolds ==
  ASSUME A!AsideParameters
  PROVE  A!Spec => A!StaleOnlyFromRacingGet
<1>1. A!Init => A!TypeOK
  BY AsideInit
<1>2. A!TypeOK /\ [A!Next]_(A!vars) => A!TypeOK'
  BY AsideTyped DEF A!vars, asideVars
<1>3. A!TypeOK /\ [A!Next]_(A!vars) =>
        [~A!Stale /\ A!Stale' => \E r \in Reader : apc[r] = "populate" /\ apc'[r] = "idle"]_(A!vars)
  BY StaleByPopulate
<1> QED BY <1>1, <1>2, <1>3, PTL DEF A!Spec, A!StaleOnlyFromRacingGet

-----------------------------------------------------------------------------
(* The cache that remembers what is missing. *)

\* A fetch that is to be written was no longer ago than it may take, and it or the cache's
\* entry differs from the object only if that has changed since.
NegativeInv ==
  /\ B!NegativeTypeOK
  /\ changed <= clock
  /\ \A r \in Reader : rpc[r] = "set" =>
       /\ fetchedAt[r] <= clock /\ clock <= fetchedAt[r] + FetchTime
       /\ found[r] # object => fetchedAt[r] <= changed
  /\ \A e \in entry :
       /\ e.expiresAt <= clock + B!TTL(e.found)
       /\ e.found # object => e.expiresAt <= changed + FetchTime + B!TTL(e.found)

LEMMA NegativeStarts ==
  ASSUME B!NegativeParameters, B!NegativeInit
  PROVE  NegativeInv
<1>1. B!NegativeTypeOK
  <2>1. {clock, changed, changes} \subseteq Nat
    BY DEF B!NegativeInit
  <2>2. fetchedAt \in [Reader -> Nat]
    BY DEF B!NegativeInit
  <2> QED BY <2>1, <2>2 DEF B!NegativeInit, B!NegativeTypeOK
<1> QED BY <1>1 DEF B!NegativeInit, NegativeInv

\* Each step keeps this.
LEMMA NegativeStep ==
  ASSUME B!NegativeParameters, NegativeInv, [B!NegativeNext]_negativeVars
  PROVE  NegativeInv'
<1> USE DEF NegativeInv, B!NegativeTypeOK
<1>1. /\ {PositiveTTL, NegativeTTL, FetchTime, clock, changed, changes} \subseteq Nat
      /\ changed <= clock /\ \A f \in BOOLEAN : B!TTL(f) \in Nat
      /\ \A r \in Reader : fetchedAt[r] \in Nat
      /\ \A e \in entry : e.found \in BOOLEAN /\ e.expiresAt \in Nat
  BY DEF B!NegativeParameters, B!TTL
<1>2. ASSUME NEW r \in Reader, B!Fetch(r)
      PROVE  NegativeInv'
  <2>1. /\ rpc' = [rpc EXCEPT ![r] = "set"] /\ found' = [found EXCEPT ![r] = object]
        /\ fetchedAt' = [fetchedAt EXCEPT ![r] = clock]
        /\ UNCHANGED <<clock, object, changed, entry, changes>>
    BY <1>2 DEF B!Fetch
  <2>2. B!NegativeTypeOK'
    BY <2>1
  <2>3. \A s \in Reader : rpc'[s] = "set" =>
          /\ fetchedAt'[s] <= clock /\ clock <= fetchedAt'[s] + FetchTime
          /\ found'[s] # object => fetchedAt'[s] <= changed
    BY <1>1, <2>1
  <2> QED BY <2>1, <2>2, <2>3 DEF B!TTL
<1>3. ASSUME NEW r \in Reader, B!Set(r)
      PROVE  NegativeInv'
  <2> DEFINE new == [found |-> found[r], expiresAt |-> clock + B!TTL(found[r])]
  <2>1. /\ rpc[r] = "set" /\ rpc' = [rpc EXCEPT ![r] = "out"] /\ entry' = {new}
        /\ UNCHANGED <<clock, object, changed, changes, found, fetchedAt>>
    BY <1>3 DEF B!Set
  <2>2. found[r] \in BOOLEAN /\ B!TTL(found[r]) \in Nat /\ clock + B!TTL(found[r]) \in Nat
    BY <1>1
  <2>3. entry' \subseteq [found : BOOLEAN, expiresAt : Nat]
    BY <2>1, <2>2
  <2>4. rpc' \in [Reader -> {"out", "set"}] /\ \A s \in Reader : rpc'[s] = "set" => rpc[s] = "set"
    BY <2>1
  <2>5. B!NegativeTypeOK'
    BY <2>1, <2>3, <2>4
  <2>6. found[r] # object =>
          clock + B!TTL(found[r]) <= changed + FetchTime + B!TTL(found[r])
    <3>1. found[r] # object => fetchedAt[r] <= changed /\ clock <= fetchedAt[r] + FetchTime
      BY <2>1
    <3> QED BY <1>1, <2>2, <3>1
  <2>7. new.found = found[r] /\ new.expiresAt = clock + B!TTL(found[r])
    OBVIOUS
  <2>8. /\ new.expiresAt <= clock + B!TTL(new.found)
        /\ new.found # object => new.expiresAt <= changed + FetchTime + B!TTL(new.found)
    BY <1>1, <2>2, <2>6, <2>7
  <2> HIDE DEF new
  <2> QED BY <2>1, <2>4, <2>5, <2>8 DEF B!TTL
<1>4. CASE B!Change
  <2>1. /\ object' = ~object /\ changed' = clock /\ changes' = changes + 1
        /\ UNCHANGED <<clock, entry, rpc, found, fetchedAt>>
    BY <1>4 DEF B!Change
  <2>2. B!NegativeTypeOK'
    BY <1>1, <2>1
  <2>3. \A e \in entry : e.expiresAt <= clock + FetchTime + B!TTL(e.found)
    BY <1>1
  <2> QED BY <1>1, <2>1, <2>2, <2>3 DEF B!TTL
<1>5. CASE B!Delete
  BY <1>5 DEF B!Delete
<1>6. CASE B!Tick
  <2>1. /\ clock' = clock + 1 /\ UNCHANGED <<object, changed, entry, rpc, found, fetchedAt, changes>>
        /\ \A r \in Reader : rpc[r] = "set" => clock < fetchedAt[r] + FetchTime
    BY <1>6 DEF B!Tick
  <2>2. B!NegativeTypeOK' /\ changed <= clock + 1
    BY <1>1, <2>1
  <2>3. \A r \in Reader : rpc[r] = "set" =>
          fetchedAt[r] <= clock + 1 /\ clock + 1 <= fetchedAt[r] + FetchTime
    BY <1>1, <2>1
  <2>4. \A e \in entry : e.expiresAt <= (clock + 1) + B!TTL(e.found)
    BY <1>1
  <2> QED BY <2>1, <2>2, <2>3, <2>4 DEF B!TTL
<1>7. CASE UNCHANGED negativeVars
  BY <1>7 DEF negativeVars, B!TTL
<1> QED BY <1>2, <1>3, <1>4, <1>5, <1>6, <1>7 DEF B!NegativeNext

LEMMA NegativeImplies ==
  ASSUME B!NegativeParameters, NegativeInv
  PROVE  B!StaleBounded
<1>1. ASSUME NEW e \in B!Live, e.found # object
      PROVE  clock <= changed + FetchTime + B!TTL(e.found)
  <2>1. /\ e \in entry /\ clock <= e.expiresAt
        /\ e.expiresAt <= changed + FetchTime + B!TTL(e.found)
    BY <1>1 DEF NegativeInv, B!Live
  <2>2. /\ clock \in Nat /\ changed \in Nat /\ e.expiresAt \in Nat /\ FetchTime \in Nat
        /\ B!TTL(e.found) \in Nat
    BY <2>1 DEF NegativeInv, B!NegativeTypeOK, B!NegativeParameters, B!TTL
  <2> QED BY <2>1, <2>2
<1> QED BY <1>1 DEF B!StaleBounded, B!TTL

\* GetOrFetch: a fetch that races with a change of the object is out of date for no longer
\* than it took and the time to live of its answer.
THEOREM StaleBoundedHolds ==
  ASSUME B!NegativeParameters
  PROVE  B!NegativeSpec => []B!StaleBounded
<1>1. B!NegativeInit => NegativeInv
  BY NegativeStarts
<1>2. NegativeInv /\ [B!NegativeNext]_(B!negativeVars) => NegativeInv'
  BY NegativeStep DEF B!negativeVars, negativeVars
<1>3. NegativeInv => B!StaleBounded
  BY NegativeImplies
<1> QED BY <1>1, <1>2, <1>3, PTL DEF B!NegativeSpec

-----------------------------------------------------------------------------
(* The bounded cache. *)

\* k is the front of l2, and the others of list follow in their order: those before p move
\* up by one, those after it stay.
Fronted(k, list, p, l2) ==
  /\ l2 \in Seq(CacheKey)
  /\ Len(l2) = IF p \in 1..Len(list) THEN Len(list) ELSE Len(list) + 1
  /\ \A i \in 1..Len(l2) :
       l2[i] = IF i = 1 THEN k ELSE IF i <= p THEN list[i - 1] ELSE list[i]

\* No key is in list twice.
Distinct(list) == \A i, j \in 1..Len(list) : list[i] = list[j] => i = j

Shortest(m, n) == IF m <= n THEN m ELSE n

LEMMA RemovedAt ==
  ASSUME NEW list \in Seq(CacheKey), NEW p \in 1..Len(list), NEW k \in CacheKey
  PROVE  Fronted(k, list, p, <<k>> \o B!RemoveAt(list, p))
<1> DEFINE before == SubSeq(list, 1, p - 1)
           after == SubSeq(list, p + 1, Len(list))
<1>1. Len(list) \in Nat /\ p \in Nat /\ 1 <= p /\ p <= Len(list)
  BY LenProperties
<1>2. /\ before \in Seq(CacheKey) /\ Len(before) = p - 1
      /\ \A i \in 1..(p - 1) : before[i] = list[i]
  BY <1>1, SubSeqProperties
<1>3. /\ after \in Seq(CacheKey) /\ Len(after) = Len(list) - p
      /\ \A i \in 1..(Len(list) - p) : after[i] = list[p + i]
  BY <1>1, SubSeqProperties
<1> HIDE DEF before, after
<1>4. /\ before \o after \in Seq(CacheKey) /\ Len(before \o after) = Len(list) - 1
      /\ \A i \in 1..(Len(list) - 1) :
           (before \o after)[i] = IF i <= p - 1 THEN list[i] ELSE list[i + 1]
  <2>1. /\ before \o after \in Seq(CacheKey)
        /\ Len(before \o after) = Len(before) + Len(after)
        /\ \A i \in 1..(Len(before) + Len(after)) : (before \o after)[i] =
             IF i <= Len(before) THEN before[i] ELSE after[i - Len(before)]
    BY <1>2, <1>3, ConcatProperties
  <2>2. ASSUME NEW i \in 1..(Len(list) - 1), i <= p - 1
        PROVE  (before \o after)[i] = list[i]
    BY <1>1, <1>2, <1>3, <2>1, <2>2
  <2>3. ASSUME NEW i \in 1..(Len(list) - 1), ~(i <= p - 1)
        PROVE  (before \o after)[i] = list[i + 1]
    <3>1. (before \o after)[i] = after[i - (p - 1)]
      BY <1>1, <1>2, <1>3, <2>1, <2>3
    <3>2. i - (p - 1) \in 1..(Len(list) - p) /\ p + (i - (p - 1)) = i + 1
      BY <1>1, <2>3
    <3> QED BY <1>3, <3>1, <3>2
  <2> QED BY <1>1, <1>2, <1>3, <2>1, <2>2, <2>3
<1>5. B!RemoveAt(list, p) = before \o after
  BY DEF B!RemoveAt, before, after
<1> DEFINE rest == before \o after
<1> HIDE DEF rest
<1>6. /\ rest \in Seq(CacheKey) /\ Len(rest) = Len(list) - 1
      /\ \A i \in 1..(Len(list) - 1) : rest[i] = IF i <= p - 1 THEN list[i] ELSE list[i + 1]
  BY <1>4 DEF rest
<1>7. /\ <<k>> \o rest \in Seq(CacheKey) /\ Len(<<k>> \o rest) = Len(list)
      /\ \A i \in 1..Len(list) : (<<k>> \o rest)[i] = IF i = 1 THEN k ELSE rest[i - 1]
  BY <1>1, <1>6
<1>8. \A i \in 1..Len(list) : (<<k>> \o rest)[i] =
        IF i = 1 THEN k ELSE IF i <= p THEN list[i - 1] ELSE list[i]
  BY <1>1, <1>6, <1>7
<1> QED BY <1>5, <1>7, <1>8 DEF Fronted, rest

LEMMA PushedFront ==
  ASSUME NEW list \in Seq(CacheKey), NEW k \in CacheKey,
         NEW p \in Nat, p > Len(list)
  PROVE  Fronted(k, list, p, <<k>> \o list)
<1>1. Len(list) \in Nat
  BY LenProperties
<1>2. /\ <<k>> \o list \in Seq(CacheKey) /\ Len(<<k>> \o list) = Len(list) + 1
      /\ \A i \in 1..(Len(list) + 1) : (<<k>> \o list)[i] = IF i = 1 THEN k ELSE list[i - 1]
  BY <1>1
<1>3. \A i \in 1..(Len(list) + 1) : i <= p
  BY <1>1
<1>4. p \notin 1..Len(list)
  BY <1>1
<1> QED BY <1>2, <1>3, <1>4 DEF Fronted

\* Where ToFront finds k, if the list has no key twice.
LEMMA FrontedByPlace ==
  ASSUME NEW list \in Seq(CacheKey), NEW k \in CacheKey, Distinct(list)
  PROVE  /\ \A p \in 1..Len(list) : list[p] = k => Fronted(k, list, p, B!ToFront(k, list))
         /\ (\A i \in 1..Len(list) : list[i] # k) =>
              B!ToFront(k, list) = <<k>> \o list
<1>1. ASSUME NEW p \in 1..Len(list), list[p] = k
      PROVE  Fronted(k, list, p, B!ToFront(k, list))
  <2>1. (CHOOSE i \in 1..Len(list) : list[i] = k) = p
    BY <1>1 DEF Distinct
  <2>2. B!ToFront(k, list) = <<k>> \o B!RemoveAt(list, p)
    BY <1>1, <2>1 DEF B!ToFront
  <2> QED BY <2>2, RemovedAt
<1> QED BY <1>1 DEF B!ToFront

\* p is where k is, or is beyond a list without k.
Place(k, list, p) ==
  \/ p \in 1..Len(list) /\ list[p] = k
  \/ p = Len(list) + 1 /\ \A i \in 1..Len(list) : list[i] # k

LEMMA FrontedAtPlace ==
  ASSUME NEW list \in Seq(CacheKey), NEW k \in CacheKey, Distinct(list)
  PROVE  /\ \E p \in 1..(Len(list) + 1) : Place(k, list, p)
         /\ \A p \in 1..(Len(list) + 1) :
              Place(k, list, p) => Fronted(k, list, p, B!ToFront(k, list))
<1>1. Len(list) \in Nat
  BY LenProperties
<1>2. \E p \in 1..(Len(list) + 1) : Place(k, list, p)
  <2>1. CASE \E i \in 1..Len(list) : list[i] = k
    BY <1>1, <2>1 DEF Place
  <2>2. CASE \A i \in 1..Len(list) : list[i] # k
    BY <1>1, <2>2 DEF Place
  <2> QED BY <2>1, <2>2
<1>3. ASSUME NEW p \in 1..(Len(list) + 1), p \in 1..Len(list), list[p] = k
      PROVE  Fronted(k, list, p, B!ToFront(k, list))
  BY <1>3, FrontedByPlace
<1>4. ASSUME NEW p \in 1..(Len(list) + 1), p = Len(list) + 1,
             \A i \in 1..Len(list) : list[i] # k
      PROVE  Fronted(k, list, p, B!ToFront(k, list))
  <2>1. B!ToFront(k, list) = <<k>> \o list
    BY <1>4, FrontedByPlace
  <2>2. p \in Nat /\ p > Len(list)
    BY <1>1, <1>4
  <2> QED BY <2>1, <2>2, PushedFront
<1> QED BY <1>2, <1>3, <1>4 DEF Place

\* No key comes to be in the list twice, and k is the only one to come.
LEMMA FrontedKeys ==
  ASSUME NEW list \in Seq(CacheKey), NEW k \in CacheKey, NEW p \in 1..(Len(list) + 1),
         Place(k, list, p), Distinct(list), NEW l2, Fronted(k, list, p, l2)
  PROVE  Distinct(l2) /\ B!ToSet(l2) = B!ToSet(list) \cup {k}
<1> DEFINE old(i) == IF i <= p THEN i - 1 ELSE i
<1>1. /\ Len(list) \in Nat /\ Len(l2) \in Nat /\ p \in Nat
      /\ DOMAIN list = 1..Len(list) /\ DOMAIN l2 = 1..Len(l2)
  BY LenProperties DEF Fronted
<1>2. \A i \in 1..Len(l2) : l2[i] = IF i = 1 THEN k ELSE list[old(i)]
  BY <1>1 DEF Fronted
<1>3. \A i \in 1..Len(l2) : i # 1 => old(i) \in 1..Len(list) /\ old(i) # p
  BY <1>1 DEF Fronted
<1>4. \A i \in 1..Len(l2) : i # 1 => list[old(i)] # k
  BY <1>1, <1>3 DEF Place, Distinct
<1>5. \A i, j \in 1..Len(l2) : i # 1 /\ j # 1 /\ old(i) = old(j) => i = j
  BY <1>1
<1>6. 1 \in 1..Len(l2) /\ l2[1] = k
  BY <1>1 DEF Fronted
<1>7. \A j \in 1..Len(list) : j # p => \E i \in 1..Len(l2) : i # 1 /\ old(i) = j
  <2> SUFFICES ASSUME NEW j \in 1..Len(list), j # p
               PROVE  \E i \in 1..Len(l2) : i # 1 /\ old(i) = j
    OBVIOUS
  <2>1. CASE j < p
    <3>1. j + 1 \in 1..Len(l2) /\ j + 1 # 1 /\ j + 1 <= p /\ (j + 1) - 1 = j
      BY <1>1, <2>1 DEF Fronted
    <3>2. old(j + 1) = j
      BY <3>1
    <3> QED BY <3>1, <3>2
  <2>2. CASE j > p
    BY <1>1, <2>2 DEF Fronted
  <2> QED BY <1>1, <2>1, <2>2
<1> HIDE DEF old
<1>8. Distinct(l2)
  <2> SUFFICES ASSUME NEW i \in 1..Len(l2), NEW j \in 1..Len(l2), l2[i] = l2[j]
               PROVE  i = j
    BY DEF Distinct
  <2>1. CASE i = 1 /\ j # 1
    BY <1>2, <1>4, <2>1
  <2>2. CASE i # 1 /\ j = 1
    BY <1>2, <1>4, <2>2
  <2>3. CASE i # 1 /\ j # 1
    <3>1. list[old(i)] = list[old(j)]
      BY <1>2, <2>3
    <3>2. old(i) \in 1..Len(list) /\ old(j) \in 1..Len(list)
      BY <1>3, <2>3
    <3>3. old(i) = old(j)
      BY <3>1, <3>2 DEF Distinct
    <3> QED BY <1>5, <2>3, <3>3
  <2> QED BY <2>1, <2>2, <2>3
<1>9. \A j \in 1..Len(list) : list[j] = k \/ \E i \in 1..Len(l2) : l2[i] = list[j]
  BY <1>2, <1>7 DEF Place
<1>10. B!ToSet(l2) \subseteq B!ToSet(list) \cup {k}
  BY <1>1, <1>2, <1>3 DEF B!ToSet
<1>11. B!ToSet(list) \cup {k} \subseteq B!ToSet(l2)
  BY <1>1, <1>6, <1>9 DEF B!ToSet
<1> QED BY <1>8, <1>10, <1>11

\* The list holds the keys used last, in their order.
LRUInv ==
  /\ B!LRUTypeOK
  /\ Distinct(recent)
  /\ Len(evictList) = Shortest(Len(recent), Capacity)
  /\ \A i \in 1..Len(evictList) : evictList[i] = recent[i]
  /\ items = B!ToSet(evictList)
  /\ value = last

\* A key that is there moves to the front.
LEMMA UsedAgain ==
  ASSUME B!LRUParameters, LRUInv, NEW k \in items,
         evictList' = B!ToFront(k, evictList), recent' = B!ToFront(k, recent)
  PROVE  /\ evictList' \in Seq(CacheKey) /\ recent' \in Seq(CacheKey)
         /\ Distinct(recent')
         /\ Len(evictList') = Shortest(Len(recent'), Capacity)
         /\ \A i \in 1..Len(evictList') : evictList'[i] = recent'[i]
         /\ items = B!ToSet(evictList')
<1>1. /\ Len(evictList) \in Nat /\ Len(recent) \in Nat /\ Capacity \in Nat
      /\ evictList \in Seq(CacheKey) /\ recent \in Seq(CacheKey) /\ k \in CacheKey
      /\ DOMAIN evictList = 1..Len(evictList)
  BY LenProperties DEF LRUInv, B!LRUTypeOK, B!LRUParameters
<1>2. Len(evictList) <= Len(recent) /\ Distinct(evictList)
  BY <1>1 DEF LRUInv, Shortest, Distinct
<1>3. PICK p \in 1..Len(evictList) : evictList[p] = k
  BY <1>1 DEF LRUInv, B!ToSet
<1>4. p \in 1..Len(recent) /\ recent[p] = k
  BY <1>1, <1>2, <1>3 DEF LRUInv
<1>5. /\ Place(k, evictList, p) /\ p \in 1..(Len(evictList) + 1)
      /\ Place(k, recent, p) /\ p \in 1..(Len(recent) + 1)
  BY <1>1, <1>3, <1>4 DEF Place
<1>6. Fronted(k, evictList, p, evictList')
  BY <1>1, <1>2, <1>5, FrontedAtPlace
<1>7. Fronted(k, recent, p, recent')
  BY <1>1, <1>5, FrontedAtPlace DEF LRUInv
<1>8. Distinct(recent')
  BY <1>1, <1>5, <1>7, FrontedKeys DEF LRUInv
<1>9. B!ToSet(evictList') = B!ToSet(evictList) \cup {k}
  BY <1>1, <1>2, <1>5, <1>6, FrontedKeys
<1>10. Len(evictList') = Len(evictList) /\ Len(recent') = Len(recent)
  BY <1>3, <1>4, <1>6, <1>7 DEF Fronted
<1>11. \A i \in 1..Len(evictList') : evictList'[i] = recent'[i]
  <2> SUFFICES ASSUME NEW i \in 1..Len(evictList') PROVE evictList'[i] = recent'[i]
    OBVIOUS
  <2>1. i \in 1..Len(recent')
    BY <1>1, <1>2, <1>10
  <2>2. i # 1 => i - 1 \in 1..Len(evictList)
    BY <1>1, <1>10
  <2>3. /\ i # 1 => evictList[i - 1] = recent[i - 1]
        /\ evictList[i] = recent[i]
    BY <1>10, <2>2 DEF LRUInv
  <2> QED BY <1>6, <1>7, <2>1, <2>3 DEF Fronted
<1> QED BY <1>6, <1>7, <1>8, <1>9, <1>10, <1>11 DEF Fronted, LRUInv

\* A key that is not there is pushed to the front, which costs a full list its last.
LEMMA UsedAnew ==
  ASSUME B!LRUParameters, LRUInv, NEW k \in CacheKey, k \notin items,
         recent' = B!ToFront(k, recent),
         \/ /\ Len(evictList) < Capacity
            /\ evictList' = <<k>> \o evictList /\ items' = items \cup {k}
         \/ /\ Len(evictList) >= Capacity
            /\ evictList' = <<k>> \o B!Front(evictList)
            /\ items' = (items \ {B!Last(evictList)}) \cup {k}
  PROVE  /\ evictList' \in Seq(CacheKey) /\ recent' \in Seq(CacheKey)
         /\ Distinct(recent')
         /\ Len(evictList') = Shortest(Len(recent'), Capacity)
         /\ \A i \in 1..Len(evictList') : evictList'[i] = recent'[i]
         /\ items' = B!ToSet(evictList')
<1> DEFINE n == Len(evictList)
<1>1. /\ n \in Nat /\ Len(recent) \in Nat /\ Capacity \in Nat /\ Capacity >= 1
      /\ evictList \in Seq(CacheKey) /\ recent \in Seq(CacheKey)
      /\ DOMAIN evictList = 1..n
  BY LenProperties DEF LRUInv, B!LRUTypeOK, B!LRUParameters
<1>2. n <= Len(recent) /\ Distinct(evictList) /\ n <= Capacity
  BY <1>1 DEF LRUInv, Shortest, Distinct
<1>3. \A i \in 1..n : evictList[i] # k
  BY <1>1 DEF LRUInv, B!ToSet
<1>4. PICK p \in 1..(Len(recent) + 1) : Place(k, recent, p)
  BY <1>1, FrontedAtPlace DEF LRUInv
<1>5. Fronted(k, recent, p, recent') /\ Distinct(recent')
  BY <1>1, <1>4, FrontedAtPlace, FrontedKeys DEF LRUInv
<1>6. p > n
  <2>1. CASE p \in 1..Len(recent) /\ recent[p] = k
    <3>1. p \in 1..n => evictList[p] = k
      BY <2>1 DEF LRUInv
    <3> QED BY <1>1, <1>3, <2>1, <3>1
  <2>2. CASE p = Len(recent) + 1
    BY <1>1, <1>2, <2>2
  <2> QED BY <1>4, <2>1, <2>2 DEF Place
<1>7. CASE n < Capacity /\ evictList' = <<k>> \o evictList /\ items' = items \cup {k}
  <2>1. n = Len(recent) /\ p = n + 1
    BY <1>1, <1>4, <1>6, <1>7 DEF LRUInv, Shortest
  <2>2. Fronted(k, evictList, p, evictList') /\ Place(k, evictList, p)
    BY <1>1, <1>3, <1>7, <2>1, PushedFront DEF Place
  <2>3. B!ToSet(evictList') = B!ToSet(evictList) \cup {k}
    BY <1>1, <1>2, <2>1, <2>2, FrontedKeys
  <2>4. Len(evictList') = n + 1 /\ Len(recent') = n + 1
    BY <1>1, <1>5, <2>1, <2>2 DEF Fronted
  <2>5. \A i \in 1..(n + 1) : evictList'[i] = recent'[i]
    <3> SUFFICES ASSUME NEW i \in 1..(n + 1) PROVE evictList'[i] = recent'[i]
      OBVIOUS
    <3>1. i # 1 => i - 1 \in 1..n
      BY <1>1
    <3>2. i # 1 => evictList[i - 1] = recent[i - 1]
      BY <3>1 DEF LRUInv
    <3> QED BY <1>5, <2>1, <2>2, <2>4, <3>2 DEF Fronted
  <2>6. Len(evictList') = Shortest(Len(recent'), Capacity)
    BY <1>1, <1>7, <2>4 DEF Shortest
  <2> QED BY <1>5, <1>7, <2>2, <2>3, <2>4, <2>5, <2>6 DEF Fronted, LRUInv
<1>8. CASE /\ n >= Capacity /\ evictList' = <<k>> \o B!Front(evictList)
           /\ items' = (items \ {B!Last(evictList)}) \cup {k}
  <2>1. n = Capacity /\ Len(recent) >= n
    <3>1. n >= Capacity
      BY <1>8
    <3>2. n \in Nat /\ Len(recent) \in Nat /\ Capacity \in Nat /\ n <= Capacity /\ n <= Len(recent)
      BY <1>1, <1>2
    <3> HIDE DEF n
    <3> QED BY <3>1, <3>2
  <2>2. /\ B!Front(evictList) \in Seq(CacheKey) /\ Len(B!Front(evictList)) = n - 1
        /\ \A i \in 1..(n - 1) : B!Front(evictList)[i] = evictList[i]
    BY <1>1, <2>1, SubSeqProperties DEF B!Front
  <2>3. /\ evictList' \in Seq(CacheKey) /\ Len(evictList') = n
        /\ \A i \in 1..n : evictList'[i] = IF i = 1 THEN k ELSE B!Front(evictList)[i - 1]
    BY <1>1, <1>8, <2>1, <2>2
  <2>4. \A i \in 1..n : evictList'[i] = IF i = 1 THEN k ELSE evictList[i - 1]
    BY <1>1, <2>2, <2>3
  <2>5. Len(recent') >= n /\ recent' \in Seq(CacheKey) /\ Len(recent') \in Nat
    BY <1>1, <1>5, <2>1 DEF Fronted
  <2>6. \A i \in 1..n : evictList'[i] = recent'[i]
    <3> SUFFICES ASSUME NEW i \in 1..n PROVE evictList'[i] = recent'[i]
      OBVIOUS
    <3>1. /\ i # 1 => i - 1 \in 1..n
          /\ i \in 1..Len(recent') /\ i <= p
      BY <1>1, <1>6, <2>5
    <3>2. i # 1 => evictList[i - 1] = recent[i - 1]
      BY <3>1 DEF LRUInv
    <3>3. recent'[i] = IF i = 1 THEN k ELSE recent[i - 1]
      BY <1>5, <3>1 DEF Fronted
    <3> QED BY <2>4, <3>2, <3>3
  <2>7. items' = B!ToSet(evictList')
    <3>1. /\ items = {evictList[i] : i \in 1..n} /\ B!Last(evictList) = evictList[n]
          /\ n \in 1..n /\ 1 \in 1..n
      BY <1>1, <2>1 DEF LRUInv, B!ToSet, B!Last
    <3>2. items \ {evictList[n]} = {evictList[i] : i \in 1..(n - 1)}
      BY <1>1, <1>2, <3>1 DEF Distinct
    <3>3. B!ToSet(evictList') = {evictList'[i] : i \in 1..n}
      BY <2>3 DEF B!ToSet
    <3>4. \A i \in 1..(n - 1) : i + 1 \in 1..n /\ evictList'[i + 1] = evictList[i]
      <4>1. \A i \in 1..(n - 1) : i + 1 \in 1..n /\ i + 1 # 1 /\ (i + 1) - 1 = i
        BY <1>1
      <4> QED BY <2>4, <4>1
    <3>5. \A i \in 1..n : i # 1 => i - 1 \in 1..(n - 1)
      BY <1>1
    <3>6. {evictList'[i] : i \in 1..n} = {evictList[i] : i \in 1..(n - 1)} \cup {k}
      <4>1. \A i \in 1..n : evictList'[i] \in {evictList[j] : j \in 1..(n - 1)} \cup {k}
        BY <2>4, <3>5
      <4>2. \A j \in 1..(n - 1) : evictList[j] \in {evictList'[i] : i \in 1..n}
        BY <3>4
      <4>3. k \in {evictList'[i] : i \in 1..n}
        BY <2>4, <3>1
      <4> QED BY <4>1, <4>2, <4>3
    <3> QED BY <1>8, <3>1, <3>2, <3>3, <3>6
  <2>8. Len(evictList') = Shortest(Len(recent'), Capacity)
    BY <1>1, <2>1, <2>3, <2>5 DEF Shortest
  <2> QED BY <1>5, <2>3, <2>5, <2>6, <2>7, <2>8
<1> QED BY <1>7, <1>8

LEMMA LRUStep ==
  ASSUME B!LRUParameters, LRUInv, [B!LRUNext]_lruVars
  PROVE  LRUInv'
<1>1. ASSUME NEW k \in CacheKey, B!Get(k)
      PROVE  LRUInv'
  BY <1>1, UsedAgain DEF B!Get, B!Used, LRUInv, B!LRUTypeOK
<1>2. ASSUME NEW k \in CacheKey, NEW v \in Value, B!Put(k, v)
      PROVE  LRUInv'
  <2>1. /\ value' = [value EXCEPT ![k] = v] /\ last' = [last EXCEPT ![k] = v]
        /\ recent' = B!ToFront(k, recent)
    BY <1>2 DEF B!Put, B!Used
  <2>2. value' = last' /\ {value', last'} \subseteq [CacheKey -> Value]
    BY <2>1 DEF LRUInv, B!LRUTypeOK
  <2>3. CASE k \in items /\ evictList' = B!ToFront(k, evictList) /\ UNCHANGED items
    BY <2>1, <2>2, <2>3, UsedAgain DEF LRUInv, B!LRUTypeOK
  <2>4. CASE /\ k \notin items
             /\ \/ /\ Len(evictList) < Capacity
                   /\ evictList' = <<k>> \o evictList /\ items' = items \cup {k}
                \/ /\ Len(evictList) >= Capacity
                   /\ evictList' = <<k>> \o B!Front(evictList)
                   /\ items' = (items \ {B!Last(evictList)}) \cup {k}
    <3>1. /\ evictList' \in Seq(CacheKey) /\ recent' \in Seq(CacheKey)
          /\ Distinct(recent')
          /\ Len(evictList') = Shortest(Len(recent'), Capacity)
          /\ \A i \in 1..Len(evictList') : evictList'[i] = recent'[i]
          /\ items' = B!ToSet(evictList')
      BY <2>1, <2>4, UsedAnew
    <3>2. items' \subseteq CacheKey
      BY <2>4 DEF LRUInv, B!LRUTypeOK
    <3> QED BY <2>2, <3>1, <3>2 DEF LRUInv, B!LRUTypeOK
  <2> QED BY <1>2, <2>3, <2>4 DEF B!Put
<1>3. CASE UNCHANGED lruVars
  BY <1>3 DEF lruVars, LRUInv, B!LRUTypeOK
<1> QED BY <1>1, <1>2, <1>3 DEF B!LRUNext

LEMMA LRUStarts ==
  ASSUME B!LRUParameters, B!LRUInit
  PROVE  LRUInv
<1>1. evictList = <<>> /\ recent = <<>> /\ items = {} /\ value \in [CacheKey -> Value] /\ last = value
  BY DEF B!LRUInit
<1>2. Len(evictList) = 0 /\ Len(recent) = 0 /\ Shortest(0, Capacity) = 0
  BY <1>1 DEF Shortest, B!LRUParameters
<1>3. Distinct(recent) /\ B!ToSet(evictList) = {}
  BY <1>1, <1>2 DEF Distinct, B!ToSet
<1> QED BY <1>1, <1>2, <1>3 DEF LRUInv, B!LRUTypeOK

LEMMA LRUImplies ==
  ASSUME B!LRUParameters, LRUInv
  PROVE  B!LRUExact
<1>1. /\ Len(evictList) \in Nat /\ Len(recent) \in Nat /\ Capacity \in Nat
      /\ evictList \in Seq(CacheKey) /\ recent \in Seq(CacheKey)
      /\ evictList = [i \in 1..Len(evictList) |-> evictList[i]]
      /\ recent = [i \in 1..Len(recent) |-> recent[i]]
  BY LenProperties DEF LRUInv, B!LRUTypeOK, B!LRUParameters
<1>2. CASE Len(recent) <= Capacity
  <2>1. evictList = recent
    BY <1>1, <1>2 DEF LRUInv, Shortest
  <2> QED BY <1>2, <2>1 DEF LRUInv, B!LRUExact
<1>3. CASE ~(Len(recent) <= Capacity)
  <2>1. Len(evictList) = Capacity
    BY <1>3 DEF LRUInv, Shortest
  <2>2. /\ SubSeq(recent, 1, Capacity) \in Seq(CacheKey)
        /\ Len(SubSeq(recent, 1, Capacity)) = Capacity
        /\ \A i \in 1..Capacity : SubSeq(recent, 1, Capacity)[i] = recent[i]
    BY <1>1, <1>3, SubSeqProperties
  <2>3. evictList = SubSeq(recent, 1, Capacity)
    BY <1>1, <2>1, <2>2, SeqEqual DEF LRUInv
  <2> QED BY <1>3, <2>3 DEF LRUInv, B!LRUExact
<1> QED BY <1>2, <1>3

\* Get and Put: list and map agree, and hold the keys used last.
THEOREM LRUExactHolds ==
  ASSUME B!LRUParameters
  PROVE  B!LRUSpec => []B!LRUExact
<1>1. B!LRUInit => LRUInv
  BY LRUStarts
<1>2. LRUInv /\ [B!LRUNext]_(B!lruVars) => LRUInv'
  BY LRUStep DEF B!lruVars, lruVars
<1>3. LRUInv => B!LRUExact
  BY LRUImplies
<1> QED BY <1>1, <1>2, <1>3, PTL DEF B!LRUSpec

-----------------------------------------------------------------------------
(* The suite. *)

\* A step of the suite is a step of a component, or leaves it alone.
LEMMA SuiteSteps ==
  ASSUME [SuiteNext]_suiteVars
  PROVE  /\ [Next]_vars /\ [A!Next]_asideVars /\ [B!LRUNext]_lruVars
         /\ [B!NegativeNext]_negativeVars /\ [P!RouterNext]_routerVars /\ [P!ScanNext]_scanVars
<1> USE DEF SuiteNext, Rests, suiteVars, otherVars
<1>1. [Next]_vars /\ [A!Next]_asideVars
  OBVIOUS
<1>2. [B!LRUNext]_lruVars /\ [B!NegativeNext]_negativeVars
  OBVIOUS
<1>3. [P!RouterNext]_routerVars /\ [P!ScanNext]_scanVars
  OBVIOUS
<1> QED BY <1>1, <1>2, <1>3

\* Which of the users of the group steps depends on the part exercised.
LEMMA SuiteGroupSteps ==
  ASSUME [SuiteNext]_suiteVars
  PROVE  /\ part' = part
         /\ part = "protected" => [S!ProtectedNext]_<<groupVars, cacheVars>>
         /\ part = "fallback" => [S!FallbackNext]_<<groupVars, cacheVars>>
         /\ part \notin {"protected", "fallback"} =>
              [S!Next]_groupVars /\ UNCHANGED cacheVars
<1> USE DEF SuiteNext, Rests, suiteVars
<1> HIDE DEF groupVars, cacheVars
<1>1. part' = part
  OBVIOUS
<1>2. /\ part = "protected" => [S!ProtectedNext]_<<groupVars, cacheVars>>
      /\ part = "fallback" => [S!FallbackNext]_<<groupVars, cacheVars>>
  OBVIOUS
<1>3. part \notin {"protected", "fallback"} => [S!Next]_groupVars /\ UNCHANGED cacheVars
  OBVIOUS
<1> QED BY <1>1, <1>2, <1>3

\* No cache was called.
Unused ==
  /\ cached = 0 /\ stale = 0 /\ fetches = 0 /\ top = 0
  /\ stage = [t \in Caller |-> "out"]
  /\ held = [t \in Caller |-> 0] /\ floor = [t \in Caller |-> 0]

AnswersInv ==
  /\ part = "protected" => ProtectedInv
  /\ part = "fallback" => FallbackInv
  /\ part \notin {"protected", "fallback"} => GroupInv /\ Unused

LEMMA AnswersStart ==
  ASSUME CacheAssumptions, S!CacheInit
  PROVE  AnswersInv
<1>1. ProtectedInv /\ FallbackInv
  BY CacheInit
<1>2. GroupInv
  BY <1>1 DEF ProtectedInv, CacheInv
<1>3. Unused
  BY DEF S!CacheInit, Unused
<1> QED BY <1>1, <1>2, <1>3 DEF AnswersInv

LEMMA AnswersStep ==
  ASSUME CacheAssumptions, AnswersInv, [SuiteNext]_suiteVars
  PROVE  AnswersInv'
<1>1. CASE part = "protected"
  BY <1>1, SuiteGroupSteps, ProtectedKept DEF AnswersInv
<1>2. CASE part = "fallback"
  BY <1>2, SuiteGroupSteps, FallbackKept DEF AnswersInv
<1>3. CASE part \notin {"protected", "fallback"}
  <2>1. GroupInv'
    BY <1>3, SuiteGroupSteps, GroupStep DEF AnswersInv, CacheAssumptions
  <2>2. Unused'
    BY <1>3, SuiteGroupSteps DEF AnswersInv, Unused, cacheVars
  <2> QED BY <1>3, <2>1, <2>2, SuiteGroupSteps DEF AnswersInv
<1> QED BY <1>1, <1>2, <1>3

LEMMA AnswersImply ==
  ASSUME CacheAssumptions, AnswersInv
  PROVE  /\ S!CacheTypeOK
         /\ S!OneInFlight /\ S!MonotonicAnswers /\ S!FallbackAvailable
<1>1. CASE part = "protected"
  BY <1>1, CacheImplies DEF AnswersInv, ProtectedInv, CacheInv, CacheTyped
<1>2. CASE part = "fallback"
  BY <1>2, CacheImplies DEF AnswersInv, FallbackInv, CacheInv, CacheTyped
<1>3. CASE part \notin {"protected", "fallback"}
  <2>1. GroupInv /\ Unused
    BY <1>3 DEF AnswersInv
  <2>2. S!OneInFlight
    BY <2>1, GroupImplies
  <2>3. S!MonotonicAnswers /\ S!FallbackAvailable
    BY <2>1 DEF Unused, S!MonotonicAnswers, S!FallbackAvailable, S!At
  <2>4. S!CacheTypeOK
    <3>1. 0 \in 0..MaxExec /\ 0 \in 0..0
      BY DEF CacheAssumptions, S!SingleflightParameters
    <3> QED BY <2>1, <3>1 DEF Unused, GroupInv, S!CacheTypeOK
  <2> QED BY <2>2, <2>3, <2>4
<1> QED BY <1>1, <1>2, <1>3

\* Do and both caches on it, for any callers, outcomes and number of executions.
THEOREM SuiteAnswersSoundly == SuiteSpec => []AnswersSound
<1>1. CacheAssumptions
  BY Parameters DEF Parameters, CacheAssumptions
<1>2. SuiteInit => AnswersInv
  BY <1>1, AnswersStart DEF SuiteInit
<1>3. AnswersInv /\ [SuiteNext]_suiteVars => AnswersInv'
  BY <1>1, AnswersStep
<1>4. AnswersInv => AnswersSound
  BY <1>1, AnswersImply DEF AnswersSound
<1> QED BY <1>2, <1>3, <1>4, PTL DEF SuiteSpec

\* A fetch begins neither beside an unexpired value nor beside another fetch.
THEOREM SuiteFetchesOnce == SuiteSpec => NoRedundantFetch
<1>1. CacheAssumptions
  BY Parameters DEF Parameters, CacheAssumptions
<1>2. SuiteInit => AnswersInv
  BY <1>1, AnswersStart DEF SuiteInit
<1>3. AnswersInv /\ [SuiteNext]_suiteVars => AnswersInv'
  BY <1>1, AnswersStep
<1>4. AnswersInv /\ [SuiteNext]_suiteVars =>
       [\A t \in Caller : S!At(t, "check") /\ fetches' > fetches =>
          cached = 0 /\ ~\E u \in Caller : S!At(u, "fetch")]_(S!vars)
  <2> SUFFICES ASSUME AnswersInv, [SuiteNext]_suiteVars, NEW t \in Caller,
                      S!At(t, "check"), fetches' > fetches
               PROVE  cached = 0 /\ ~\E u \in Caller : S!At(u, "fetch")
    OBVIOUS
  <2>1. CacheInv
    BY DEF AnswersInv, ProtectedInv, FallbackInv, Unused, S!At
  <2>2. S!ProtectedNext \/ S!FallbackNext \/ UNCHANGED cacheVars
    BY SuiteGroupSteps
  <2> QED BY <2>1, <2>2, FetchesOnce DEF S!At
<1> QED BY <1>2, <1>3, <1>4, PTL DEF SuiteSpec, NoRedundantFetch, S!NoRedundantFetch

\* The cache-aside service serves an old version only after a race with a Get.
THEOREM SuiteStaleOnlyFromRacingGet == SuiteSpec => StaleOnlyFromRacingGet
<1>1. SuiteInit => A!TypeOK
  BY AsideInit, Parameters DEF SuiteInit, Parameters
<1>2. A!TypeOK /\ [SuiteNext]_suiteVars => A!TypeOK'
  BY SuiteSteps, AsideTyped, Parameters DEF Parameters
<1>3. A!TypeOK /\ [SuiteNext]_suiteVars =>
        [~A!Stale /\ A!Stale' => \E r \in Reader : apc[r] = "populate" /\ apc'[r] = "idle"]_(A!vars)
  <2> SUFFICES ASSUME A!TypeOK, [A!Next]_asideVars
               PROVE  [~A!Stale /\ A!Stale' =>
                         \E r \in Reader : apc[r] = "populate" /\ apc'[r] = "idle"]_(A!vars)
    BY SuiteSteps
  <2> QED BY StaleByPopulate, Parameters DEF Parameters, A!vars, asideVars
<1> QED BY <1>1, <1>2, <1>3, PTL DEF SuiteSpec, StaleOnlyFromRacingGet, A!StaleOnlyFromRacingGet

\* The LRU cache and the negative cache keep to their bounds.
THEOREM SuiteBoundsCaches == SuiteSpec => []CachesBounded
<1> DEFINE Bounded == LRUInv /\ NegativeInv
<1>1. SuiteInit => Bounded
  BY LRUStarts, NegativeStarts, Parameters DEF SuiteInit, Parameters
<1>2. Bounded /\ [SuiteNext]_suiteVars => Bounded'
  BY SuiteSteps, LRUStep, NegativeStep, Parameters DEF Parameters
<1>3. Bounded => CachesBounded
  BY LRUImplies, NegativeImplies, Parameters DEF Parameters, CachesBounded
<1> HIDE DEF Bounded
<1> QED BY <1>1, <1>2, <1>3, PTL DEF SuiteSpec

\* A session reads its writes and a walk through the pages is complete.
THEOREM SuiteReadsConsistently == SuiteSpec => []ReadsConsistent
<1> DEFINE Consistent == P!RouterInv /\ P!ScanInv
<1>1. SuiteInit => Consistent
  BY P!RouterStarts, P!ScanStarts, Parameters DEF SuiteInit, Parameters
<1>2. Consistent /\ [SuiteNext]_suiteVars => Consistent'
  <2> SUFFICES ASSUME Consistent, [SuiteNext]_suiteVars
               PROVE  Consistent'
    OBVIOUS
  <2>1. [P!RouterNext]_(P!routerVars) /\ [P!ScanNext]_(P!scanVars)
    BY SuiteSteps DEF routerVars, scanVars, P!routerVars, P!scanVars
  <2> QED BY <2>1, P!RouterStep, P!ScanStep, Parameters DEF Parameters
<1>3. Consistent => ReadsConsistent
  BY DEF P!RouterInv, P!ScanInv, ReadsConsistent
<1> HIDE DEF Consistent
<1> QED BY <1>1, <1>2, <1>3, PTL DEF SuiteSpec

\* Every variable keeps its type.
THEOREM SuiteKeepsTypes == SuiteSpec => []SuiteTypeOK
<1> DEFINE Typed == /\ IInv /\ AnswersInv /\ A!TypeOK /\ LRUInv /\ NegativeInv
                    /\ P!RouterInv /\ P!ScanInv
<1> USE Parameters DEF Parameters
<1>1. CacheAssumptions
  BY DEF CacheAssumptions
<1>2. SuiteInit => Typed
  BY <1>1, InitIInv, AnswersStart, AsideInit, LRUStarts, NegativeStarts, P!RouterStarts,
     P!ScanStarts DEF SuiteInit
<1>3. Typed /\ [SuiteNext]_suiteVars => Typed'
  <2> SUFFICES ASSUME Typed, [SuiteNext]_suiteVars
               PROVE  Typed'
    OBVIOUS
  <2>1. /\ [Next]_vars /\ [A!Next]_asideVars /\ [B!LRUNext]_lruVars
        /\ [B!NegativeNext]_negativeVars
        /\ [P!RouterNext]_(P!routerVars) /\ [P!ScanNext]_(P!scanVars)
    BY SuiteSteps DEF routerVars, scanVars, P!routerVars, P!scanVars
  <2>2. IInv' /\ AnswersInv' /\ A!TypeOK'
    BY <1>1, <2>1, NextIInv, AnswersStep, AsideTyped
  <2>3. LRUInv' /\ NegativeInv' /\ P!RouterInv' /\ P!ScanInv'
    BY <2>1, LRUStep, NegativeStep, P!RouterStep, P!ScanStep
  <2> QED BY <2>2, <2>3
<1>4. Typed => SuiteTypeOK
  <2>1. LRUInv /\ NegativeInv => B!TypeOK
    BY DEF LRUInv, NegativeInv, B!TypeOK
  <2>2. P!RouterInv /\ P!ScanInv => P!TypeOK
    BY DEF P!RouterInv, P!ScanInv, P!TypeOK
  <2> QED BY <1>1, <2>1, <2>2, IInvImplies, AnswersImply DEF SuiteTypeOK
<1> HIDE DEF Typed
<1> QED BY <1>2, <1>3, <1>4, PTL DEF SuiteSpec

=============================================================================
