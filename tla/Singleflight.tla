---------------------------- MODULE Singleflight ----------------------------
(***************************************************************************)
(* SingleflightGroup.Do of 09_concurrency/singleflight.go, for one key     *)
(* (keys share nothing but the mutex around the map).  A call object is    *)
(* named by the number of the execution of fn it was made for.             *)
(* Below it, for one key, the two caches built on the group:               *)
(* StampedeProtectedCache of 14_caching over the MemoryCache there, which  *)
(* looks in the cache a second time inside fn, and                         *)
(* SingleflightWithStaleCache of 26_advanced, which answers a failed query *)
(* with the last value it ever stored.  The value of a fetch is its        *)
(* number, so a greater value is a fresher one.                            *)
(***************************************************************************)
EXTENDS Integers, FiniteSets

CONSTANTS Caller,     \* goroutines that call Do
          Outcome,    \* what fn can return, errors included
          MayPanic,   \* may fn panic (and the caller's goroutine recover)?
          None,       \* no result yet
          MaxExec     \* bound: executions of fn

SingleflightParameters ==
  MayPanic \in BOOLEAN /\ MaxExec \in Nat \ {0} /\ None \notin Outcome

VARIABLES inflight,   \* g.m[key]: the call in the map, 0 if there is none
          execs,      \* calls made so far
          finished,   \* calls whose WaitGroup is done
          val,        \* c.val and c.err of each finished call
          pc,         \* where each caller is in Do
          my          \* the call it works with

sfVars == <<inflight, execs, finished, val, pc, my>>

Init ==
  /\ inflight = 0
  /\ execs = 0
  /\ finished = {}
  /\ val = [c \in 1..MaxExec |-> None]
  /\ pc = [t \in Caller |-> "idle"]
  /\ my = [t \in Caller |-> 0]

-----------------------------------------------------------------------------
\* What Do enters in the map, and what it leaves there when fn has returned.
EnteredNot(c) == 0
Entered(c) == c
Deleted(c) == 0

\* The result that Finish stores, and the calls whose waiters it releases.
StoredLate(v) == None
Stored(v) == v
ReleasedNone(c) == finished
Released(c) == finished \cup {c}

\* Do finds a call in the map: the caller waits for it.
Join(t) ==
  /\ pc[t] = "idle"
  /\ inflight # 0
  /\ my' = [my EXCEPT ![t] = inflight]
  /\ pc' = [pc EXCEPT ![t] = "waiting"]
  /\ UNCHANGED <<inflight, execs, finished, val>>

\* Do finds none: the caller makes one and goes on to execute fn.
Lead(t) ==
  /\ pc[t] = "idle"
  /\ inflight = 0
  /\ execs < MaxExec
  /\ execs' = execs + 1
  /\ inflight' = Entered(execs + 1)
  /\ my' = [my EXCEPT ![t] = execs + 1]
  /\ pc' = [pc EXCEPT ![t] = "executing"]
  /\ UNCHANGED <<finished, val>>

\* fn returns v and c.wg.Done() lets the waiters go; the call is still mapped.
Finish(t, v) ==
  /\ pc[t] = "executing"
  /\ val' = [val EXCEPT ![my[t]] = Stored(v)]
  /\ finished' = Released(my[t])
  /\ pc' = [pc EXCEPT ![t] = "finishing"]
  /\ UNCHANGED <<inflight, execs, my>>

\* delete(g.m, key), and Do returns to the leader.
Forget(t) ==
  /\ pc[t] = "finishing"
  /\ inflight' = Deleted(inflight)
  /\ pc' = [pc EXCEPT ![t] = "idle"]
  /\ UNCHANGED <<execs, finished, val, my>>

\* c.wg.Wait() returns and Do returns to the joiner.
Wake(t) ==
  /\ pc[t] = "waiting"
  /\ my[t] \in finished
  /\ pc' = [pc EXCEPT ![t] = "idle"]
  /\ UNCHANGED <<inflight, execs, finished, val, my>>

\* fn panics: neither wg.Done nor delete runs, since neither is deferred.
Panic(t) ==
  /\ MayPanic
  /\ pc[t] = "executing"
  /\ pc' = [pc EXCEPT ![t] = "idle"]
  /\ UNCHANGED <<inflight, execs, finished, val, my>>

Next ==
  \E t \in Caller :
    \/ Join(t) \/ Lead(t)
    \/ \E v \in Outcome : Finish(t, v)
    \/ Forget(t) \/ Wake(t)
    \/ Panic(t)

Spec == Init /\ [][Next]_sfVars

\* fn returns and goroutines run on; nobody is obliged to call Do.
FairSpec ==
  /\ Spec
  /\ \A t \in Caller :
       WF_sfVars((\E v \in Outcome : Finish(t, v)) \/ Forget(t) \/ Wake(t))

-----------------------------------------------------------------------------
\* Every variable keeps its type, and a finished call has a result.
TypeOK ==
  /\ inflight \in 0..execs /\ execs \in 0..MaxExec
  /\ finished \subseteq 1..execs
  /\ val \in [1..MaxExec -> Outcome \cup {None}]
  /\ \A c \in finished : val[c] \in Outcome
  /\ pc \in [Caller -> {"idle", "waiting", "executing", "finishing"}]
  /\ my \in [Caller -> 0..execs]

\* Only one execution of fn is in flight at any moment, a panicked one or one
\* that returns while others join included.
OneInFlight ==
  \A s, t \in Caller : pc[s] = "executing" /\ pc[t] = "executing" => s = t

-----------------------------------------------------------------------------
(* The caches on the group. *)

CONSTANTS Failed,    \* the error of a failed fetch
          MaxExpiry  \* bound: how often the cached item expires

\* fn returns the number of a fetch or the error.
CacheParameters == 1..MaxExec \cup {Failed} \subseteq Outcome /\ Failed \notin Nat

VARIABLES cached,    \* the unexpired value in the cache, 0 on a miss
          stale,     \* s.stale[key] of the second cache, 0 if absent
          fetches,   \* fetchFn or dbQuery calls so far
          stage,     \* where each caller is in GetOrCompute or Fetch
          held,      \* the value its fn has in hand
          top, floor, \* history: the freshest value returned, and as t called
          expiries

cacheVars == <<cached, stale, fetches, stage, held, top, floor, expiries>>
vars == <<sfVars, cacheVars>>

CacheInit ==
  /\ Init
  /\ cached = 0 /\ stale = 0 /\ fetches = 0 /\ top = 0 /\ expiries = 0
  /\ stage = [t \in Caller |-> "out"]
  /\ held = [t \in Caller |-> 0]
  /\ floor = [t \in Caller |-> 0]

At(t, s) == stage[t] = s
Goto(t, s) == stage' = [stage EXCEPT ![t] = s]
Stay == UNCHANGED <<cached, stale, fetches, held, top, floor, expiries>>

\* The call returns v, or an error, to its caller.
Answer(t, v) ==
  /\ Goto(t, "out")
  /\ top' = IF v # Failed /\ v > top THEN v ELSE top
  /\ UNCHANGED <<cached, stale, fetches, held, floor, expiries>>

-----------------------------------------------------------------------------
(* What both do. *)

\* A caller calls; no more calls than executions are left within the bound.
Busy == {t \in Caller : stage[t] # "out"}

Call(t) ==
  /\ At(t, "out")
  /\ execs + Cardinality(Busy) < MaxExec
  /\ Goto(t, "lookup")
  /\ floor' = [floor EXCEPT ![t] = top]
  /\ UNCHANGED <<sfVars, cached, stale, fetches, held, top, expiries>>

\* 1. The fast path: a hit returns, a miss goes on to the group.
Hit(t) == At(t, "lookup") /\ cached # 0 /\ Answer(t, cached) /\ UNCHANGED sfVars
Miss(t) == At(t, "lookup") /\ cached = 0 /\ Goto(t, "do") /\ Stay /\ UNCHANGED sfVars

\* 2. group.Do: join the call in flight, or lead a new one.
DoJoin(t) == At(t, "do") /\ Join(t) /\ Goto(t, "joined") /\ Stay

\* A fetch begins; it reads the newest value there is,
Begin(t) ==
  /\ fetches' = fetches + 1
  /\ held' = [held EXCEPT ![t] = fetches + 1]
  /\ Goto(t, "fetch")
  /\ UNCHANGED <<cached, stale, top, floor, expiries>>

\* fails,
FetchFails(t) == At(t, "fetch") /\ Finish(t, Failed) /\ Goto(t, "led") /\ Stay

\* or succeeds and is cached before fn returns it.
StoreFresh(t) ==
  /\ At(t, "fetch")
  /\ cached' = held[t]
  /\ Goto(t, "cached")
  /\ UNCHANGED <<sfVars, stale, fetches, held, top, floor, expiries>>

FetchReturns(t, s) == At(t, s) /\ Finish(t, held[t]) /\ Goto(t, "led") /\ Stay

\* Do returns to the leader and to the joiners.
Ended(t) == (At(t, "led") /\ Forget(t)) \/ (At(t, "joined") /\ Wake(t))

\* The ttl of the cached item passes.
Expire ==
  /\ cached # 0 /\ expiries < MaxExpiry
  /\ cached' = 0
  /\ expiries' = expiries + 1
  /\ UNCHANGED <<sfVars, stale, fetches, stage, held, top, floor>>

Common(t) == Hit(t) \/ Miss(t) \/ DoJoin(t) \/ FetchFails(t) \/ StoreFresh(t)

-----------------------------------------------------------------------------
(* StampedeProtectedCache.GetOrCompute *)

DoLead(t) == At(t, "do") /\ Lead(t) /\ Goto(t, "check") /\ Stay

\* The second look at the cache, inside fn.
NoDoubleCheck == FALSE
DoubleCheckHits == cached # 0

CheckHit(t) ==
  At(t, "check") /\ DoubleCheckHits /\ Finish(t, cached) /\ Goto(t, "led") /\ Stay
CheckMiss(t) == At(t, "check") /\ ~DoubleCheckHits /\ Begin(t) /\ UNCHANGED sfVars

Return(t) == Ended(t) /\ Answer(t, val[my[t]])

ProtectedStep(t) ==
  \/ Common(t) \/ DoLead(t) \/ CheckHit(t) \/ CheckMiss(t)
  \/ FetchReturns(t, "cached") \/ Return(t)

ProtectedNext == Expire \/ \E t \in Caller : Call(t) \/ ProtectedStep(t)

-----------------------------------------------------------------------------
(* SingleflightWithStaleCache.Fetch *)

\* The leader runs the query.
DoQuery(t) == At(t, "do") /\ Lead(t) /\ Begin(t)

\* A result goes to the cache first and to the stale copy after it.
StoreStale(t) ==
  /\ At(t, "cached")
  /\ stale' = held[t]
  /\ Goto(t, "stored")
  /\ UNCHANGED <<sfVars, cached, fetches, held, top, floor, expiries>>

\* 3. Do returns a value, or the error, on which Fetch reads the stale copy
ReturnValue(t) == Ended(t) /\ val[my[t]] # Failed /\ Answer(t, val[my[t]])
FallBack(t) == Ended(t) /\ val[my[t]] = Failed /\ Goto(t, "fallback") /\ Stay

\* and returns it if there is one, else the error.
ReturnStale(t) == At(t, "fallback") /\ stale # 0 /\ Answer(t, stale) /\ UNCHANGED sfVars
ReturnError(t) == At(t, "fallback") /\ stale = 0 /\ Answer(t, Failed) /\ UNCHANGED sfVars

FallbackStep(t) ==
  \/ Common(t) \/ DoQuery(t) \/ StoreStale(t) \/ FetchReturns(t, "stored")
  \/ ReturnValue(t) \/ FallBack(t) \/ ReturnStale(t) \/ ReturnError(t)

FallbackNext == Expire \/ \E t \in Caller : Call(t) \/ FallbackStep(t)

-----------------------------------------------------------------------------
CacheSpec == CacheInit /\ ([][ProtectedNext]_vars \/ [][FallbackNext]_vars)

\* Every variable keeps its type.
CacheTypeOK ==
  /\ TypeOK
  /\ cached \in 0..fetches /\ stale \in 0..fetches /\ fetches \in 0..MaxExec
  /\ top \in 0..fetches
  /\ stage \in [Caller -> {"out", "lookup", "do", "joined", "check", "fetch", "cached",
                           "stored", "led", "fallback"}]
  /\ held \in [Caller -> 0..fetches] /\ floor \in [Caller -> 0..top]

\* Concurrent misses execute fetchFn once (stampede_prevention.go:23): a fetch
\* never begins beside an unexpired value, not even by a caller that missed
\* before that value was stored and reached Do after its call was forgotten.
NoRedundantFetch ==
  [][\A t \in Caller : At(t, "check") /\ fetches' > fetches =>
       cached = 0 /\ ~\E u \in Caller : At(u, "fetch")]_vars

\* Fetch fails only before the first success: a caller that calls after some
\* value was returned gets a value, whatever fails meanwhile (line 60).
FallbackAvailable == \A t \in Caller : At(t, "fallback") /\ floor[t] # 0 => stale # 0

\* Answers never go back: a caller does not get a value older than one that was
\* returned before it called, from the cache, its own fetch, a joined one or the
\* stale copy.
MonotonicAnswers ==
  \A t \in Caller :
    /\ At(t, "lookup") /\ cached # 0 => cached >= floor[t]
    /\ At(t, "fallback") /\ stale # 0 => stale >= floor[t]
    /\ stage[t] \in {"led", "joined"} /\ my[t] \in finished /\ val[my[t]] # Failed
         => val[my[t]] >= floor[t]

\* Every GetOrCompute and every Fetch returns.
CallsReturn == \A t \in Caller : At(t, "lookup") ~> At(t, "out")

=============================================================================
