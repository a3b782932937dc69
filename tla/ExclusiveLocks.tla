--------------------------- MODULE ExclusiveLocks ---------------------------
(***************************************************************************)
(* What a pessimistic lock promises: per key, at most one holder at a      *)
(* time, and only the holder gives the key up.                             *)
(***************************************************************************)
CONSTANTS Thread, Key

VARIABLE holders    \* holders[k]: the threads that hold key k

Init == holders = [k \in Key |-> {}]

Acquire(t, k) ==
  /\ holders[k] = {}
  /\ holders' = [holders EXCEPT ![k] = {t}]

Release(t, k) ==
  /\ holders[k] = {t}
  /\ holders' = [holders EXCEPT ![k] = {}]

Next == \E t \in Thread, k \in Key : Acquire(t, k) \/ Release(t, k)

Spec == Init /\ [][Next]_holders

=============================================================================
