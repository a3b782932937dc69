------------------------------- MODULE MCCaches -------------------------------
(***************************************************************************)
(* Goroutines that share one lock or one execution per key: the keyed      *)
(* mutex of 23_dataintegrity, the singleflight group of 09_concurrency,    *)
(* the caches of 14_caching and 26_advanced built on it, the cache-aside   *)
(* service, the caches bounded by size and time, and the reads of          *)
(* 13_database and 04_persistence that go on over several calls.  They     *)
(* share no state, so a behaviour exercises one of them; the caches on the *)
(* group use the same variables.                                           *)
(***************************************************************************)
EXTENDS KeyedMutex, TLC

CONSTANTS Caller, Outcome, MayPanic, None, Failed, MaxExec, MaxExpiry, \* of the group
          Reader, Writer, MaxVersion,                      \* the cache-aside service
          CacheKey, Value, Capacity,                       \* bounded caches
          PositiveTTL, NegativeTTL, FetchTime, MaxClock, MaxChanges,
          Session, Window, Lag, MaxWrites, MaxTime,        \* sessions
          Row, Limit,                                      \* and scans
          Exercised

VARIABLES part,                                            \* the component exercised
          inflight, execs, finished, val, gpc, my,         \* the group
          cached, stale, fetches, stage, held, top, floor, expiries, \* caches on it
          db, item, ttlPassed, apc, read, known,           \* the cache-aside service
          evictList, items, value, recent, last,           \* bounded caches
          clock, object, changed, entry, rpc, found, fetchedAt, changes,
          now, primary, replica, executed, expiry, wrote, spc, answer, \* sessions
          table, cursor, scan, got, stayed, inOrder        \* and scans

S == INSTANCE Singleflight WITH pc <- gpc
A == INSTANCE CacheAside WITH pc <- apc, expired <- ttlPassed
B == INSTANCE BoundedCaches WITH Key <- CacheKey, MaxTime <- MaxClock
P == INSTANCE ReadPaths

ASSUME Parameters ==
  /\ S!SingleflightParameters /\ S!CacheParameters /\ A!AsideParameters
  /\ B!LRUParameters /\ B!NegativeParameters /\ P!RouterParameters /\ P!PagingParameters

\* Values for the constants.
CONSTANTS t1, t2, t3, k1, k2, e1, e2, e3, g1, g2, g3, r1, r2, w1, w2

MCThread == {t1, t2, t3}
MCKey == {k1, k2}
MCEntry == {e1, e2, e3}
MCCaller == {g1, g2, g3}
MCOutcome == 1..3 \cup {Failed}
MCReader == {r1, r2}
MCWriter == {w1, w2}
MCCacheKey == {k1, k2, e1, e2}
MCSession == {g1, g2}
MCRow == {<<1, 1>>, <<1, 4>>, <<1, 2>>, <<2, 3>>, <<2, 5>>}
AllParts ==
  {"mutex", "group", "protected", "fallback", "aside", "lru", "negative", "router", "pages"}

groupVars == <<inflight, execs, finished, val, gpc, my>>
cacheVars == <<cached, stale, fetches, stage, held, top, floor, expiries>>
asideVars == <<db, item, ttlPassed, apc, read, known>>
lruVars == <<evictList, items, value, recent, last>>
negativeVars == <<clock, object, changed, entry, rpc, found, fetchedAt, changes>>
routerVars == <<now, primary, replica, executed, expiry, wrote, spc, answer>>
scanVars == <<table, cursor, scan, got, stayed, inOrder>>
otherVars == <<asideVars, lruVars, negativeVars, routerVars, scanVars>>
suiteVars == <<part, vars, groupVars, cacheVars, otherVars>>

SuiteInit ==
  /\ part \in Exercised
  /\ Init /\ S!CacheInit /\ A!Init
  /\ B!LRUInit /\ value = [k \in CacheKey |-> CHOOSE v \in Value : TRUE] /\ B!NegativeInit
  /\ P!RouterInit /\ P!ScanInit
  /\ part # "mutex" => key = [t \in Thread |-> CHOOSE k \in Key : TRUE]
  /\ part # "negative" => object
  /\ part # "pages" => table = {}

Rests(names, v) == IF part \in names THEN TRUE ELSE UNCHANGED v

SuiteNext ==
  /\ UNCHANGED part
  /\ \/ part = "mutex" /\ Next
     \/ part = "group" /\ S!Next
     \/ part = "protected" /\ S!ProtectedNext
     \/ part = "fallback" /\ S!FallbackNext
     \/ part = "aside" /\ A!Next
     \/ part = "lru" /\ B!LRUNext
     \/ part = "negative" /\ B!NegativeNext
     \/ part = "router" /\ P!RouterNext
     \/ part = "pages" /\ P!ScanNext
  /\ Rests({"mutex"}, vars) /\ Rests({"group", "protected", "fallback"}, groupVars)
  /\ Rests({"protected", "fallback"}, cacheVars) /\ Rests({"aside"}, asideVars)
  /\ Rests({"lru"}, lruVars) /\ Rests({"negative"}, negativeVars)
  /\ Rests({"router"}, routerVars) /\ Rests({"pages"}, scanVars)

\* The fair steps of a part that nobody uses are disabled.  A call of a cache that was
\* made runs on, by the steps of the cache exercised, and its fetch returns.
SuiteSpec ==
  /\ SuiteInit /\ [][SuiteNext]_suiteVars
  /\ Fairness /\ A!Fairness
  /\ \A c \in Caller : WF_suiteVars(/\ \/ part = "protected" /\ S!ProtectedStep(c)
                                       \/ part = "fallback" /\ S!FallbackStep(c)
                                    /\ UNCHANGED <<part, vars, otherVars>>)

\* Every variable keeps its type.
SuiteTypeOK == TypeOK /\ S!CacheTypeOK /\ A!TypeOK /\ B!TypeOK /\ P!TypeOK

\* Callers of Do share one execution, and reads through it answer with what they
\* should: never older than an answer before the call, and with a stale value rather
\* than with an error.
AnswersSound == S!OneInFlight /\ S!MonotonicAnswers /\ S!FallbackAvailable

\* Caches keep to their bounds: the last keys used, and answers that are out of date
\* for no longer than the time to live of their kind.
CachesBounded == B!LRUExact /\ B!StaleBounded

\* Reads over several calls are consistent: a session sees its writes, a walk through
\* the pages every row that stayed, once and in order.
ReadsConsistent == P!ReadYourWrites /\ P!ScanComplete

\* Every Lock is granted, callers of Do and of the caches on it return, and what a race
\* left in the cache is not served for ever.
WaitsEnd == LockGranted /\ S!CallsReturn /\ A!StalenessEnds

\* The other properties, stated and explained in their modules.
NoRedundantFetch == S!NoRedundantFetch
StaleOnlyFromRacingGet == A!StaleOnlyFromRacingGet

=============================================================================
