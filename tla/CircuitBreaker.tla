---------------------------- MODULE CircuitBreaker ----------------------------
(***************************************************************************)
(* The circuit breaker of 08_httpclient.  Execute looks at the state and   *)
(* records its result under cb.mu, and calls fn between the two without    *)
(* it: a result may be recorded in a later state than its call began in.   *)
(***************************************************************************)
EXTENDS Integers, FiniteSets

CONSTANTS Caller,
          FailureThreshold, SuccessThreshold,
          CooldownTimeout,   \* in ticks
          MaxOutages         \* bound: how often the downstream service breaks

\* What NewCircuitBreaker puts in place of thresholds and cooldowns that are not positive.
BreakerParameters ==
  /\ IsFiniteSet(Caller) /\ CooldownTimeout \in Nat
  /\ {FailureThreshold, SuccessThreshold} \subseteq Nat \ {0}

VARIABLES state,
          consecutiveFails, consecutiveSuccess,
          cooldown,          \* what is left of the time to spend in OPEN
          call,              \* each caller: no call, or one that met a sound or a sick service
          healthy, outages,  \* the downstream service
          hits               \* history: calls begun in an outage and in one state

breakerVars == <<state, consecutiveFails, consecutiveSuccess, cooldown, call,
                 healthy, outages, hits>>

Init ==
  /\ state = "CLOSED" /\ consecutiveFails = 0 /\ consecutiveSuccess = 0
  /\ cooldown = 0
  /\ call = [c \in Caller |-> "none"]
  /\ healthy = TRUE /\ outages = 0
  /\ hits = 0

-----------------------------------------------------------------------------
\* checkStateTransitionLocked, when the cooldown has passed,
Expired == state = "OPEN" /\ cooldown = 0

CheckStateTransition ==
  IF Expired
  THEN /\ state' = "HALF_OPEN"
       /\ consecutiveSuccess' = 0 /\ consecutiveFails' = 0
  ELSE UNCHANGED <<state, consecutiveFails, consecutiveSuccess>>

\* The service is down, and no call that met it sound is left.
Outage == ~healthy /\ \A c \in Caller : call[c] # "sound"
HitsKept == IF state' = state THEN hits ELSE 0

\* called by State, and by Execute,
State ==
  /\ CheckStateTransition /\ hits' = HitsKept
  /\ UNCHANGED <<cooldown, call, healthy, outages>>

\* which goes on to fn unless the state is OPEN.
Begin(c) ==
  /\ call[c] = "none"
  /\ CheckStateTransition /\ state' # "OPEN"
  /\ call' = [call EXCEPT ![c] = IF healthy THEN "sound" ELSE "sick"]
  /\ hits' = HitsKept + (IF Outage THEN 1 ELSE 0)
  /\ UNCHANGED <<cooldown, healthy, outages>>

\* The breaker opens and the cooldown starts.
Trip == state' = "OPEN" /\ cooldown' = CooldownTimeout

\* The failures that open a closed breaker, the successes that close it.
TooManyLate(n) == n > FailureThreshold
TooMany(n) == n >= FailureThreshold
Enough(n) == n >= SuccessThreshold

\* recordFailureLocked.
RecordFailure ==
  \/ /\ state = "CLOSED"
     /\ consecutiveFails' = consecutiveFails + 1
     /\ IF TooMany(consecutiveFails + 1) THEN Trip ELSE UNCHANGED <<state, cooldown>>
     /\ UNCHANGED consecutiveSuccess
  \/ /\ state = "HALF_OPEN"
     /\ Trip /\ consecutiveSuccess' = 0 /\ UNCHANGED consecutiveFails
  \/ /\ state = "OPEN"
     /\ UNCHANGED <<state, cooldown, consecutiveFails, consecutiveSuccess>>

\* recordSuccessLocked.
RecordSuccess ==
  \/ /\ state = "HALF_OPEN"
     /\ IF Enough(consecutiveSuccess + 1)
        THEN state' = "CLOSED" /\ consecutiveFails' = 0 /\ consecutiveSuccess' = 0
        ELSE consecutiveSuccess' = consecutiveSuccess + 1 /\ UNCHANGED <<state, consecutiveFails>>
     /\ UNCHANGED cooldown
  \/ /\ state = "CLOSED"
     /\ consecutiveFails' = 0
     /\ UNCHANGED <<state, cooldown, consecutiveSuccess>>
  \/ /\ state = "OPEN"
     /\ UNCHANGED <<state, cooldown, consecutiveFails, consecutiveSuccess>>

\* fn returns and Execute records the result: an error only if the service was
\* sick at one end of the call, a success only if it was sound at one.
EndFailed(c) ==
  /\ call[c] # "none" /\ (call[c] = "sick" \/ ~healthy)
  /\ RecordFailure
  /\ hits' = HitsKept
  /\ call' = [call EXCEPT ![c] = "none"]
  /\ UNCHANGED <<healthy, outages>>

EndSucceeded(c) ==
  /\ call[c] # "none" /\ (call[c] = "sound" \/ healthy)
  /\ RecordSuccess
  /\ hits' = HitsKept
  /\ call' = [call EXCEPT ![c] = "none"]
  /\ UNCHANGED <<healthy, outages>>

\* Time passes in OPEN.
Tick ==
  /\ state = "OPEN" /\ cooldown > 0 /\ cooldown' = cooldown - 1
  /\ UNCHANGED <<state, consecutiveFails, consecutiveSuccess, call, healthy, outages, hits>>

\* The downstream service breaks and recovers.
Break ==
  /\ healthy /\ outages < MaxOutages /\ healthy' = FALSE /\ outages' = outages + 1
  /\ UNCHANGED <<state, consecutiveFails, consecutiveSuccess, cooldown, call, hits>>

Recover ==
  /\ ~healthy /\ healthy' = TRUE /\ hits' = 0
  /\ UNCHANGED <<state, consecutiveFails, consecutiveSuccess, cooldown, call, outages>>

Next ==
  \/ \E c \in Caller : Begin(c) \/ EndFailed(c) \/ EndSucceeded(c)
  \/ State \/ Tick \/ Break \/ Recover

Spec == Init /\ [][Next]_breakerVars

\* Time passes, calls return, and there are callers while the breaker is not closed.
Fairness ==
  /\ WF_breakerVars(Tick)
  /\ WF_breakerVars(state # "CLOSED" /\ \E c \in Caller : Begin(c))
  /\ \A c \in Caller : WF_breakerVars(EndFailed(c) \/ EndSucceeded(c))

-----------------------------------------------------------------------------
\* The counters stay below their thresholds, the cooldown within its length.
TypeOK ==
  /\ state \in {"CLOSED", "OPEN", "HALF_OPEN"}
  /\ consecutiveFails \in 0..FailureThreshold
  /\ consecutiveSuccess \in 0..(SuccessThreshold - 1)
  /\ cooldown \in 0..CooldownTimeout
  /\ call \in [Caller -> {"none", "sound", "sick"}]
  /\ healthy \in BOOLEAN /\ outages \in Nat /\ hits \in Nat

\* A dead service is hit by no more calls than it takes to trip the breaker and
\* were already past the test of the state, and in each half-open spell by no more
\* than there are callers: late results never keep the breaker from opening.
OutageContained ==
  hits <= Cardinality(Caller) + (IF state = "CLOSED" THEN FailureThreshold - 1 ELSE 0)

\* Once the service stays sound the breaker closes, whatever results of calls
\* begun in the outage are still to come.
BreakerRecovers == <>[]healthy => <>[](state = "CLOSED")

=============================================================================
