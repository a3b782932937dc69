----------------------------- MODULE TokenBucket -----------------------------
(***************************************************************************)
(* The token buckets of 08_httpclient/retry_budget.go and                  *)
(* 09_concurrency/rate_limiter.go.  Nobody fills them: each call first     *)
(* adds what the time since the previous call has earned.  Tokens are      *)
(* counted in parts, One of them to a token, time in ticks.                *)
(***************************************************************************)
EXTENDS Integers

CONSTANTS Capacity,   \* maxTokens, burst
          One,        \* parts of a token
          Rate,       \* minRetriesSec, rate: parts per tick
          Ratio,      \* ratio: parts per regular request
          Waiter,     \* the calls of Wait
          MaxIdle,    \* bound: ticks between two calls
          MaxTries    \* bound: tokens taken by calls that do not wait

TokenBucketParameters ==
  /\ Capacity \in Nat /\ One \in Nat \ {0} /\ One <= Capacity
  /\ Rate \in Nat /\ Ratio \in Nat

VARIABLES tokens,
          idle,       \* time since lastUpdated, lastRefill
          wait,       \* where each call of Wait is
          tries,
          clock, requests, admissions   \* history: the parity of their numbers

parities == <<clock, requests, admissions>>
bucketVars == <<tokens, idle, wait, tries, parities>>

Init ==
  /\ tokens = Capacity /\ idle = 0
  /\ wait = [w \in Waiter |-> "out"] /\ tries = 0
  /\ clock = 0 /\ requests = 0 /\ admissions = 0

-----------------------------------------------------------------------------
Uncapped(n) == n
Capped(n) == IF n > Capacity THEN Capacity ELSE n

\* replenishLocked and refillLocked: what is there once the time is credited.
Replenished == Capped(tokens + Rate * idle)

\* RecordRequest, for each regular request.
RecordRequest ==
  /\ tokens' = Capped(Replenished + Ratio) /\ idle' = 0
  /\ requests' = 1 - requests
  /\ UNCHANGED <<wait, tries, clock, admissions>>

\* A token is taken if there is a whole one; the time is credited in any case.
Taken ==
  /\ Replenished >= One /\ tokens' = Replenished - One /\ idle' = 0
  /\ admissions' = 1 - admissions /\ UNCHANGED <<clock, requests>>

RefusedUndated ==
  /\ Replenished < One /\ tokens' = Replenished /\ UNCHANGED idle
  /\ UNCHANGED parities
Refused ==
  /\ Replenished < One /\ tokens' = Replenished /\ idle' = 0
  /\ UNCHANGED parities

\* TryAcquireRetry, and Allow outside Wait.
TryAcquireRetry ==
  \/ Taken /\ tries < MaxTries /\ tries' = tries + 1 /\ UNCHANGED wait
  \/ Refused /\ UNCHANGED <<wait, tries>>

\* Wait is called,
Call(w) ==
  /\ wait[w] = "out" /\ wait' = [wait EXCEPT ![w] = "called"]
  /\ UNCHANGED <<tokens, idle, tries, parities>>

Waiting == {w \in Waiter : wait[w] \in {"called", "asleep"}}

\* calls Allow, at first and after each of its sleeps, until it has a token,
Poll(w) ==
  /\ w \in Waiting
  /\ \/ Taken /\ wait' = [wait EXCEPT ![w] = "admitted"]
     \/ Refused /\ wait' = [wait EXCEPT ![w] = "asleep"]
  /\ UNCHANGED tries

\* or its context is done.
Cancel(w) ==
  /\ w \in Waiting /\ wait' = [wait EXCEPT ![w] = "cancelled"]
  /\ UNCHANGED <<tokens, idle, tries, parities>>

Tick ==
  /\ idle < MaxIdle /\ idle' = idle + 1 /\ clock' = 1 - clock
  /\ UNCHANGED <<tokens, wait, tries, requests, admissions>>

Next ==
  \/ RecordRequest \/ TryAcquireRetry \/ Tick
  \/ \E w \in Waiter : Call(w) \/ Poll(w) \/ Cancel(w)

Spec == Init /\ [][Next]_bucketVars

\* While somebody waits time passes, and each sleep of Wait ends.
Fairness ==
  /\ WF_bucketVars(Waiting # {} /\ Tick)
  /\ \A w \in Waiter : WF_bucketVars(Poll(w))

-----------------------------------------------------------------------------
\* Tokens and time are numbers, the bucket within its capacity.
TypeOK ==
  /\ tokens \in 0..Capacity /\ idle \in Nat /\ tries \in Nat
  /\ wait \in [Waiter -> {"out", "called", "asleep", "admitted", "cancelled"}]
  /\ {clock, requests, admissions} \subseteq {0, 1}

Ideal == INSTANCE IdealBucket WITH level <- Replenished

\* However calls are spaced, refused ones among them, the bucket admits no more
\* than one that is filled continuously: no time is credited twice or lost, and
\* neither a deposit nor an idle spell takes it above its capacity.
ImplementsIdealBucket == Ideal!Spec

\* While other callers leave tokens over, every Wait returns.
WaitReturns == \A w \in Waiter : (w \in Waiting) ~> (w \notin Waiting)

=============================================================================
