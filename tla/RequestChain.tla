----------------------------- MODULE RequestChain -----------------------------
(***************************************************************************)
(* A request on its way through the middlewares of 07_httpserver,          *)
(* 11_middleware and 20_reliability, in the order the documentation gives: *)
(* panic recovery, metrics, overload protection, timeout, handler.  The    *)
(* timeout runs the handler in a goroutine of its own, which goes on after *)
(* the request was answered.                                               *)
(***************************************************************************)
EXTENDS Integers, FiniteSets

CONSTANTS Request,
          MaxActiveRequests

NoCounter == "none"      \* a counter is named for the request that made it

ChainParameters ==
  /\ IsFiniteSet(Request) /\ NoCounter \notin Request
  /\ MaxActiveRequests \in Nat \ {0}

VARIABLES at,              \* where the goroutine of each request is
          handler,         \* where the handler's goroutine is
          panicChan,       \* requests whose panicChan holds the value recovered
          expired,         \* requests whose ctx is done
          activeRequests,
          wroteHeader, statusCode, \* of the writer that the metrics wrap
          sent,            \* the status that the client gets, 0 before
          recorded,        \* the status that Record was called with, 0 before
          requestCount,    \* the counter of each status, NoCounter if there is none
          counter, count   \* the one each request has in hand, and their values

chainVars == <<at, handler, panicChan, expired, activeRequests, wroteHeader, statusCode,
               sent, recorded, requestCount, counter, count>>

Status == {200, 500, 503, 504}

Init ==
  /\ at = [r \in Request |-> "idle"] /\ handler = [r \in Request |-> "none"]
  /\ panicChan = {} /\ expired = {} /\ activeRequests = 0
  /\ wroteHeader = {} /\ statusCode = [r \in Request |-> 200]
  /\ sent = [r \in Request |-> 0]
  /\ recorded = [r \in Request |-> 0] /\ requestCount = [s \in Status |-> NoCounter]
  /\ counter = [r \in Request |-> NoCounter] /\ count = [r \in Request |-> 0]

Goes(r, s) == at' = [at EXCEPT ![r] = s]
metricsVars == <<recorded, requestCount, counter, count>>
writerVars == <<wroteHeader, statusCode, sent>>

\* net/http sends the first status that is written, any other is superfluous.
Sends(r, s) == sent' = IF sent[r] = 0 THEN [sent EXCEPT ![r] = s] ELSE sent

\* The writer of the metrics, past its look at wroteHeader.
WritesHeader(r, s) ==
  /\ wroteHeader' = wroteHeader \cup {r}
  /\ statusCode' = [statusCode EXCEPT ![r] = s]
  /\ Sends(r, s)

-----------------------------------------------------------------------------
\* Overload protection counts the request and decides on what it got.
TooMany(n) == n > MaxActiveRequests

Arrive(r) ==
  /\ at[r] = "idle"
  /\ activeRequests' = activeRequests + 1
  /\ IF TooMany(activeRequests')
     THEN Goes(r, "refused") /\ WritesHeader(r, 503) /\ UNCHANGED handler
     ELSE Goes(r, "starting") /\ handler' = [handler EXCEPT ![r] = "running"] /\ UNCHANGED writerVars
  /\ UNCHANGED <<panicChan, expired, metricsVars>>

\* The handler writes: a look at wroteHeader and the write, with no lock around
\* them that the timeout would respect,
HandlerLooks(r) ==
  /\ handler[r] = "running"
  /\ handler' = [handler EXCEPT ![r] = IF r \in wroteHeader THEN "wrote" ELSE "writing"]
  /\ UNCHANGED <<at, panicChan, expired, activeRequests, writerVars, metricsVars>>

HandlerWrites(r) ==
  /\ handler[r] = "writing"
  /\ handler' = [handler EXCEPT ![r] = "wrote"]
  /\ WritesHeader(r, 200)
  /\ UNCHANGED <<at, panicChan, expired, activeRequests, metricsVars>>

\* or panics: the value goes to the goroutine of the request if that sleeps in its
\* select, else it stays in the channel,
HandlerPanics(r) ==
  /\ handler[r] \in {"running", "wrote"}
  /\ handler' = [handler EXCEPT ![r] = "panicked"]
  /\ IF at[r] = "parked" THEN Goes(r, "panicking") ELSE UNCHANGED at
  /\ panicChan' = panicChan \cup {r}
  /\ UNCHANGED <<expired, activeRequests, writerVars, metricsVars>>

\* and, returned or panicked, closes done.
ClosesDone(r) ==
  /\ handler[r] \in {"running", "wrote", "panicked"}
  /\ handler' = [handler EXCEPT ![r] = "done"]
  /\ IF at[r] = "parked" THEN Goes(r, "leaving") ELSE UNCHANGED at
  /\ UNCHANGED <<panicChan, expired, activeRequests, writerVars, metricsVars>>

\* The deadline passes.
Deadline(r) ==
  /\ at[r] \in {"starting", "parked"} /\ r \notin expired
  /\ expired' = expired \cup {r}
  /\ IF at[r] = "parked" THEN Goes(r, "expired") ELSE UNCHANGED at
  /\ UNCHANGED <<handler, panicChan, activeRequests, writerVars, metricsVars>>

-----------------------------------------------------------------------------
\* The select: any of the cases that are ready, or to sleep if there is none.
Select(r) ==
  /\ at[r] = "starting"
  /\ \/ r \in panicChan /\ Goes(r, "panicking")
     \/ handler[r] = "done" /\ Goes(r, "leaving")
     \/ r \in expired /\ Goes(r, "expired")
     \/ /\ r \notin panicChan /\ handler[r] # "done" /\ r \notin expired
        /\ Goes(r, "parked")
  /\ UNCHANGED <<handler, panicChan, expired, activeRequests, writerVars, metricsVars>>

\* On the deadline 504 is written, in two steps as above.
TimeoutLooks(r) ==
  /\ at[r] = "expired"
  /\ Goes(r, IF r \in wroteHeader THEN "leaving" ELSE "writing")
  /\ UNCHANGED <<handler, panicChan, expired, activeRequests, writerVars, metricsVars>>

TimeoutWrites(r) ==
  /\ at[r] = "writing"
  /\ Goes(r, "leaving") /\ WritesHeader(r, 504)
  /\ UNCHANGED <<handler, panicChan, expired, activeRequests, metricsVars>>

\* The request is taken off the counter, also by a panic, which passes the metrics
\* by and ends in the recovery.
Discounted == activeRequests - 1

Recover(r) ==
  /\ at[r] = "panicking"
  /\ Goes(r, "ended") /\ activeRequests' = Discounted /\ Sends(r, 500)
  /\ UNCHANGED <<handler, panicChan, expired, wroteHeader, statusCode, metricsVars>>

Leave(r) ==
  /\ at[r] \in {"leaving", "refused"}
  /\ Goes(r, "recording") /\ activeRequests' = Discounted
  /\ UNCHANGED <<handler, panicChan, expired, writerVars, metricsVars>>

\* Record looks for the counter of the status under the read lock, makes one under
\* the lock if nobody has meanwhile, and counts; net/http sends what was not sent.
RecordLooks(r) ==
  /\ at[r] = "recording"
  /\ recorded' = [recorded EXCEPT ![r] = statusCode[r]]
  /\ counter' = [counter EXCEPT ![r] = requestCount[statusCode[r]]]
  /\ Goes(r, IF counter'[r] = NoCounter THEN "creating" ELSE "counting")
  /\ UNCHANGED <<handler, panicChan, expired, activeRequests, writerVars, requestCount, count>>

NoSecondLook(s) == TRUE
StillAbsent(s) == requestCount[s] = NoCounter

RecordCreates(r) ==
  /\ at[r] = "creating" /\ Goes(r, "counting")
  /\ LET s == recorded[r] IN
       requestCount' = IF StillAbsent(s) THEN [requestCount EXCEPT ![s] = r] ELSE requestCount
  /\ counter' = [counter EXCEPT ![r] = requestCount'[recorded[r]]]
  /\ UNCHANGED <<handler, panicChan, expired, activeRequests, writerVars, recorded, count>>

RecordCounts(r) ==
  /\ at[r] = "counting" /\ Goes(r, "ended")
  /\ count' = [count EXCEPT ![counter[r]] = @ + 1]
  /\ Sends(r, 200)
  /\ UNCHANGED <<handler, panicChan, expired, activeRequests, wroteHeader, statusCode,
                 recorded, requestCount, counter>>

Serve(r) ==
  \/ Select(r) \/ TimeoutLooks(r) \/ TimeoutWrites(r) \/ Recover(r) \/ Leave(r)
  \/ RecordLooks(r) \/ RecordCreates(r) \/ RecordCounts(r)

Next ==
  \E r \in Request :
    \/ Arrive(r) \/ HandlerLooks(r) \/ HandlerWrites(r) \/ HandlerPanics(r) \/ ClosesDone(r)
    \/ Deadline(r) \/ Serve(r)

Spec == Init /\ [][Next]_chainVars

\* Goroutines run and time passes; a handler need not return.
Fairness == \A r \in Request : WF_chainVars(Serve(r)) /\ WF_chainVars(Deadline(r))

-----------------------------------------------------------------------------
\* Every variable keeps its type.
TypeOK ==
  /\ at \in [Request -> {"idle", "refused", "starting", "parked", "panicking", "expired",
                         "writing", "leaving", "recording", "creating", "counting", "ended"}]
  /\ handler \in [Request -> {"none", "running", "writing", "wrote", "panicked", "done"}]
  /\ panicChan \cup expired \cup wroteHeader \subseteq Request
  /\ statusCode \in [Request -> Status]
  /\ sent \in [Request -> Status \cup {0}] /\ recorded \in [Request -> Status \cup {0}]
  /\ requestCount \in [Status -> Request \cup {NoCounter}]

InChain == {r \in Request : at[r] \notin {"idle", "recording", "creating", "counting", "ended"}}

\* "limits maximum concurrent active requests across the whole server": the counter
\* is exact, panics and timeouts included, and never are more requests let in at a
\* time.  (A request that timed out is off the counter while its handler runs on.)
ActiveBounded ==
  /\ activeRequests = Cardinality(InChain)
  /\ Cardinality({r \in InChain : at[r] # "refused"}) <= MaxActiveRequests

\* What a client is told is true: 503 that no handler ran, 500 that it panicked, 504
\* that the deadline passed.
AnswersTrue ==
  \A r \in Request :
    /\ sent[r] = 503 => handler[r] = "none"
    /\ sent[r] = 500 => r \in panicChan
    /\ sent[r] = 504 => r \in expired
    /\ at[r] = "ended" => sent[r] # 0 /\ (handler[r] = "none" => sent[r] = 503)

\* No count is lost, though two first requests of a status both find no counter.
MetricsExact ==
  \A s \in Status : requestCount[s] # NoCounter =>
    count[requestCount[s]] =
      Cardinality({r \in Request : at[r] = "ended" /\ recorded[r] = s})

\* "Main goroutine re-panics in main thread -> caught by PanicRecoveryMiddleware"
\* (timeout_middleware.md:64): a panic before the deadline, and before anything was
\* written, is answered with 500.
PanicsReported ==
  \A r \in Request :
    at[r] = "ended" /\ r \in panicChan \ (expired \cup wroteHeader) => sent[r] = 500

\* Every request is answered, even if its handler never returns.
RequestsAnswered == \A r \in Request : at[r] = "starting" ~> at[r] = "ended"

=============================================================================
