----------------------------- MODULE IdealBucket -----------------------------
(***************************************************************************)
(* What a token bucket promises: a level that rises with time and with     *)
(* deposits, never above its capacity, and pays One for every admission.   *)
(* Time, requests and admissions are seen through the parity of their      *)
(* numbers, so that each of them moves the level once.                     *)
(***************************************************************************)
EXTENDS Integers

CONSTANTS Capacity,   \* the level of a full bucket
          One,        \* what an admission costs
          Rate,       \* what a unit of time adds
          Ratio       \* what a deposit adds

VARIABLES level, clock, requests, admissions

idealVars == <<level, clock, requests, admissions>>

Capped(n) == IF n > Capacity THEN Capacity ELSE n

Init == level = Capacity /\ clock = 0 /\ requests = 0 /\ admissions = 0

Accrue ==
  /\ clock' = 1 - clock /\ level' = Capped(level + Rate)
  /\ UNCHANGED <<requests, admissions>>

Deposit ==
  /\ requests' = 1 - requests /\ level' = Capped(level + Ratio)
  /\ UNCHANGED <<clock, admissions>>

Take ==
  /\ level >= One
  /\ admissions' = 1 - admissions /\ level' = level - One
  /\ UNCHANGED <<clock, requests>>

Next == Accrue \/ Deposit \/ Take

Spec == Init /\ [][Next]_idealVars

=============================================================================
