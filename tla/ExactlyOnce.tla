----------------------------- MODULE ExactlyOnce -----------------------------
(***************************************************************************)
(* What producers and consumers of messages want together: a saved event   *)
(* is handled, at most once, and nothing is handled that was not saved.    *)
(***************************************************************************)
EXTENDS Integers

CONSTANT Event

VARIABLES saved,     \* events whose transaction committed
          handled    \* handled[e]: how often the handler succeeded for e

vars == <<saved, handled>>

Init ==
  /\ saved \in SUBSET Event
  /\ handled = [e \in Event |-> 0]

Save(e) ==
  /\ e \notin saved
  /\ saved' = saved \cup {e}
  /\ UNCHANGED handled

Handle(e) ==
  /\ e \in saved /\ handled[e] = 0
  /\ handled' = [handled EXCEPT ![e] = 1]
  /\ UNCHANGED saved

Next == \E e \in Event : Save(e) \/ Handle(e)

Spec == Init /\ [][Next]_vars

=============================================================================
