------------------------------ MODULE Lifecycles ------------------------------
(***************************************************************************)
(* What a process owes when it ends.                                       *)
(* 01_lifecycle: GracefulShutdownManager (graceful_shutdown.go), alone or  *)
(* inside CompositionRoot.Start (composition_root.go), which waits for     *)
(* ShutdownContext of the SignalController (signal_handling.go).  A        *)
(* manager used alone has hooks and callers of its own; the root's is      *)
(* private: it has the server's hook, and only Start calls it.             *)
(* ResourceTracker of 22_resourcemanagement/resource_lifecycle.go: a map   *)
(* of open resources.  Track, Release and CloseAll change the map under    *)
(* t.mu; resources are closed after it is unlocked, in CloseAll one by one *)
(* with a look at the context in between.  The two share no state.         *)
(***************************************************************************)
EXTENDS Integers, FiniteSets, SequencesExt

CONSTANTS Hook,        \* hooks that are registered, the server's among them
          Priority,    \* of each hook
          ServerHook,  \* "HTTP Server", registered by Build
          Caller,      \* goroutines that call Shutdown, Root among them
          Root,        \* the one that runs Start
          MaxSignals   \* bound: signals sent

TerminationParameters ==
  /\ Priority \in [Hook -> Int] /\ ServerHook \in Hook /\ MaxSignals \in Nat

CONSTANTS Resource,      \* resources that get opened, each tracked once
          IdOf,          \* the name each is tracked under
          Releaser,      \* goroutines that call Release
          Closer,        \* goroutines that call CloseAll
          MaxResources   \* t.maxResources, after its default

TrackerParameters == MaxResources \in Nat \ {0} /\ Releaser \cap Closer = {}

VARIABLES use,         \* "root" or "alone"
          sigChan,     \* signals in s.sigChan, a channel of two
          loop,        \* where s.loop is: "first", "second", "ended"
          cancelled,   \* s.shutdownCtx is done
          forceExit,   \* s.forceExitChan is closed
          sent,        \* history: signals sent
          server,      \* of ListenAndServe: "serving", "closed", "crashed"
          hooks,       \* m.hooks
          isClosed,    \* m.isClosed
          left,        \* of the sorted copy: hooks that have not returned
          spc,         \* where each call of Shutdown is
          timedOut,    \* the ctx of the hooks is done
          ran          \* history: hooks begun, in order

VARIABLES active,    \* t.active: the resources in the map, each under its name
          inHand,    \* resources each Release or CloseAll has taken out of it
          cpc,       \* where each CloseAll is: "new", "closing", "closed", "timedOut"
          expired,   \* contexts of CloseAll that are done
          tracked,   \* history: resources Track has accepted
          closes     \* history: how often Close was called on each

-----------------------------------------------------------------------------
(* Termination. *)

signalVars == <<sigChan, loop, cancelled, forceExit, sent>>
managerVars == <<hooks, isClosed, left, spc, timedOut, ran>>
vars == <<use, signalVars, server, managerVars>>

Init ==
  /\ use \in {"root", "alone"}
  /\ sigChan = 0 /\ loop = "first" /\ cancelled = FALSE /\ forceExit = FALSE /\ sent = 0
  /\ server = IF use = "root" THEN "serving" ELSE "closed"
  /\ hooks = IF use = "root" THEN <<ServerHook>> ELSE <<>>
  /\ isClosed = FALSE /\ left = <<>> /\ timedOut = FALSE /\ ran = <<>>
  /\ spc = [c \in Caller |-> "idle"]

-----------------------------------------------------------------------------
\* The operating system delivers a signal; Notify drops it when the channel is full.
Signal ==
  /\ use = "root" /\ sent < MaxSignals
  /\ sent' = sent + 1
  /\ sigChan' = IF sigChan < 2 THEN sigChan + 1 ELSE sigChan
  /\ UNCHANGED <<use, loop, cancelled, forceExit, server, managerVars>>

\* s.loop: the first signal cancels ShutdownContext, the second one forces the
\* exit unless the deadline has passed before it.
FirstSignal ==
  /\ loop = "first" /\ sigChan > 0
  /\ sigChan' = sigChan - 1 /\ loop' = "second" /\ cancelled' = TRUE
  /\ UNCHANGED <<use, forceExit, sent, server, managerVars>>

SecondSignal ==
  /\ loop = "second" /\ sigChan > 0
  /\ sigChan' = sigChan - 1 /\ loop' = "ended" /\ forceExit' = TRUE
  /\ UNCHANGED <<use, cancelled, sent, server, managerVars>>

DeadlineElapses ==
  /\ loop = "second" /\ loop' = "ended"
  /\ UNCHANGED <<use, sigChan, cancelled, forceExit, sent, server, managerVars>>

\* ListenAndServe fails; Start returns its error when it looks.
ServerCrashes ==
  /\ server = "serving" /\ server' = "crashed"
  /\ UNCHANGED <<use, signalVars, managerVars>>

-----------------------------------------------------------------------------
\* Register; a call after Shutdown began changes nothing.
Register(h) ==
  /\ use = "alone" /\ ~isClosed /\ h \notin ToSet(hooks)
  /\ hooks' = Append(hooks, h)
  /\ UNCHANGED <<use, signalVars, server, isClosed, left, spc, timedOut, ran>>

\* The insertion sort of a copy of the hooks: each goes behind the last of those before
\* it that has the same or a higher priority.
InsertUnstable(s, h) ==
  LET kept == {i \in 1..Len(s) : Priority[s[i]] > Priority[h]}
  IN InsertAt(s, (IF kept = {} THEN 0 ELSE Max(kept)) + 1, h)
Insert(s, h) ==
  LET kept == {i \in 1..Len(s) : Priority[s[i]] >= Priority[h]}
      j == IF kept = {} THEN 0 ELSE Max(kept)
  IN InsertAt(s, j + 1, h)

Sorted ==
  LET sorted[i \in 0..Len(hooks)] ==
        IF i = 0 THEN <<>> ELSE Insert(sorted[i - 1], hooks[i])
  IN sorted[Len(hooks)]

Goes(c, s) == spc' = [spc EXCEPT ![c] = s]

\* Shutdown under m.mu: the first call wins and sorts a copy of the hooks. In
\* Start it is called when ctx is done; if the server has crashed too, the select
\* may take either.
Shutdown(c) ==
  /\ spc[c] = "idle"
  /\ IF use = "root" THEN c = Root /\ cancelled ELSE c # Root
  /\ IF isClosed
       THEN Goes(c, "refused") /\ UNCHANGED <<isClosed, left>>
       ELSE /\ Goes(c, "looking") /\ isClosed' = TRUE
            /\ left' = Sorted
  /\ UNCHANGED <<use, signalVars, server, hooks, timedOut, ran>>

StartSeesCrash ==
  /\ use = "root" /\ spc[Root] = "idle" /\ server = "crashed"
  /\ Goes(Root, "crashed")
  /\ UNCHANGED <<use, signalVars, server, hooks, isClosed, left, timedOut, ran>>

\* The timeout of the manager passes, or the caller's context ends.
TimeUp ==
  /\ ~timedOut /\ \E c \in Caller : spc[c] \in {"looking", "hook"}
  /\ timedOut' = TRUE
  /\ UNCHANGED <<use, signalVars, server, hooks, isClosed, left, spc, ran>>

\* The loop over the hooks: the context is looked at between two of them only.
RunHook(c) ==
  /\ spc[c] = "looking" /\ left # <<>> /\ ~timedOut
  /\ Goes(c, "hook")
  /\ ran' = Append(ran, Head(left))
  /\ server' = IF Head(left) = ServerHook /\ server = "serving" THEN "closed" ELSE server
  /\ UNCHANGED <<use, signalVars, hooks, isClosed, left, timedOut>>

HookReturns(c) ==
  /\ spc[c] = "hook"
  /\ Goes(c, "looking") /\ left' = Tail(left)
  /\ UNCHANGED <<use, signalVars, server, hooks, isClosed, timedOut, ran>>

ShutdownReturns(c) ==
  /\ spc[c] = "looking"
  /\ \/ left = <<>> /\ Goes(c, "done")
     \/ left # <<>> /\ timedOut /\ Goes(c, "timed out")
  /\ UNCHANGED <<use, signalVars, server, hooks, isClosed, left, timedOut, ran>>

Loop == FirstSignal \/ SecondSignal \/ DeadlineElapses
Start == Shutdown(Root) \/ StartSeesCrash

Next ==
  \/ Signal \/ Loop \/ ServerCrashes \/ TimeUp \/ StartSeesCrash
  \/ \E h \in Hook : Register(h)
  \/ \E c \in Caller : Shutdown(c) \/ RunHook(c) \/ HookReturns(c) \/ ShutdownReturns(c)

Spec == Init /\ [][Next]_vars

\* Goroutines run, time passes, and a hook that is handed a context returns at the
\* latest when it is done, as http.Server.Shutdown does.
Fairness ==
  /\ WF_vars(FirstSignal) /\ WF_vars(Start) /\ WF_vars(TimeUp)
  /\ \A c \in Caller :
       WF_vars(RunHook(c) \/ ShutdownReturns(c)) /\ WF_vars(timedOut /\ HookReturns(c))

FairSpec == Spec /\ Fairness

-----------------------------------------------------------------------------
\* Every variable keeps its type.
TypeOK ==
  /\ use \in {"root", "alone"} /\ server \in {"serving", "closed", "crashed"}
  /\ sigChan \in 0..2 /\ sent \in 0..MaxSignals
  /\ loop \in {"first", "second", "ended"}
  /\ {cancelled, forceExit, isClosed, timedOut} \subseteq BOOLEAN
  /\ ToSet(hooks) \cup ToSet(left) \cup ToSet(ran) \subseteq Hook
  /\ spc \in [Caller ->
       {"idle", "looking", "hook", "done", "timed out", "refused", "crashed"}]

\* Where hook h was registered.
At(h) == CHOOSE i \in 1..Len(hooks) : hooks[i] = h

\* Shutdown happens once: hooks begin in the order of their priorities, those of one
\* priority in the order of their registration, each once, whoever else calls
\* Shutdown or Register meanwhile.  All of them have run when the winner says so,
\* and the server is down; a call that timed out leaves hooks of no higher
\* priority behind.  A forced exit takes two signals.
TerminationOrderly ==
  /\ \A i, j \in 1..Len(ran) : i < j =>
       \/ Priority[ran[i]] > Priority[ran[j]]
       \/ Priority[ran[i]] = Priority[ran[j]] /\ At(ran[i]) < At(ran[j])
  /\ \A c, d \in Caller :
       c # d /\ spc[c] \notin {"idle", "refused"} => spc[d] \in {"idle", "refused"}
  /\ \A c \in Caller :
       /\ spc[c] = "done" => ToSet(ran) = ToSet(hooks) /\ server # "serving"
       /\ spc[c] = "timed out" =>
            \A h \in ToSet(hooks) \ ToSet(ran), g \in ToSet(ran) : Priority[g] >= Priority[h]
  /\ forceExit => cancelled /\ sent >= 2

\* A signal or a crash ends Start, however long the hooks take, if they heed
\* their context.
StartReturns ==
  sent > 0 \/ server = "crashed" ~> spc[Root] \in {"done", "timed out", "crashed"}

-----------------------------------------------------------------------------
(* The resource tracker. *)

trackerVars == <<active, inHand, cpc, expired, tracked, closes>>

TrackerInit ==
  /\ active = {} /\ tracked = {} /\ expired = {}
  /\ inHand = [g \in Releaser \cup Closer |-> {}]
  /\ cpc = [c \in Closer |-> "new"]
  /\ closes = [r \in Resource |-> 0]

-----------------------------------------------------------------------------
\* The resource in the map under one name, if there is one.
Named(id) == {r \in active : IdOf[r] = id}

\* Track is refused when the map is full, also for a name that is in it already;
\* otherwise it puts its resource in the place of one with the same name.
Full == Cardinality(active) >= MaxResources

Track(r) ==
  /\ r \notin tracked /\ ~Full
  /\ active' = (active \ Named(IdOf[r])) \cup {r}
  /\ tracked' = tracked \cup {r}
  /\ UNCHANGED <<inHand, cpc, expired, closes>>

\* Release takes the entry of its name out of the map; without one it returns nil.
KeptEntry(id) == active
WithoutEntry(id) == active \ Named(id)

Release(g, id) ==
  /\ inHand[g] = {} /\ Named(id) # {}
  /\ inHand' = [inHand EXCEPT ![g] = Named(id)]
  /\ active' = WithoutEntry(id)
  /\ UNCHANGED <<cpc, expired, tracked, closes>>

\* CloseAll takes them all.
CloseAll(c) ==
  /\ cpc[c] = "new"
  /\ inHand' = [inHand EXCEPT ![c] = active]
  /\ active' = {}
  /\ cpc' = [cpc EXCEPT ![c] = "closing"]
  /\ UNCHANGED <<expired, tracked, closes>>

\* Close of one resource in hand, in any order; its error is returned or joined to
\* the others and changes nothing.  CloseAll goes on only while its context lasts.
Close(g, r) ==
  /\ r \in inHand[g]
  /\ g \notin expired
  /\ closes' = [closes EXCEPT ![r] = @ + 1]
  /\ inHand' = [inHand EXCEPT ![g] = @ \ {r}]
  /\ UNCHANGED <<active, cpc, expired, tracked>>

ContextEnds(c) ==
  /\ cpc[c] = "closing" /\ c \notin expired
  /\ expired' = expired \cup {c}
  /\ UNCHANGED <<active, inHand, cpc, tracked, closes>>

\* CloseAll returns: all are closed, or the context is done and what it still has in
\* hand is dropped.
CloseAllReturns(c) ==
  /\ cpc[c] = "closing"
  /\ \/ inHand[c] = {} /\ cpc' = [cpc EXCEPT ![c] = "closed"]
     \/ inHand[c] # {} /\ c \in expired /\ cpc' = [cpc EXCEPT ![c] = "timedOut"]
  /\ inHand' = [inHand EXCEPT ![c] = {}]
  /\ UNCHANGED <<active, expired, tracked, closes>>

TrackerNext ==
  \/ \E r \in Resource : Track(r) \/ \E g \in Releaser : Release(g, IdOf[r])
  \/ \E c \in Closer : CloseAll(c) \/ ContextEnds(c) \/ CloseAllReturns(c)
  \/ \E g \in Releaser \cup Closer, r \in Resource : Close(g, r)

TrackerSpec == TrackerInit /\ [][TrackerNext]_trackerVars

-----------------------------------------------------------------------------
\* Every variable keeps its type.
TrackerTypeOK ==
  /\ active \subseteq Resource
  /\ inHand \in [Releaser \cup Closer -> SUBSET Resource]
  /\ cpc \in [Closer -> {"new", "closing", "closed", "timedOut"}]
  /\ expired \subseteq Closer /\ tracked \subseteq Resource
  /\ closes \in [Resource -> Nat]

Open == {r \in tracked : closes[r] = 0}
InHands == UNION {inHand[g] : g \in Releaser \cup Closer}

\* A resource is closed at most once, by the one goroutine that took it out of the
\* map, however Release, CloseAll and Track of the same name cross; the map holds
\* no more than its bound, one resource per name.
OwnedOnce ==
  /\ \A r \in Resource : closes[r] <= 1
  /\ \A g \in Releaser \cup Closer :
       /\ \A r \in inHand[g] : closes[r] = 0 /\ r \notin active
       /\ \A h \in Releaser \cup Closer : g # h => inHand[g] \cap inHand[h] = {}
  /\ \A r \in active : closes[r] = 0 /\ Named(IdOf[r]) = {r}
  /\ Cardinality(active) <= MaxResources

\* An open resource that nobody will ever close: neither in the map nor in hand.
Abandoned == Open \ (active \cup InHands)

\* It was displaced by another tracked under its name, or dropped by a CloseAll
\* whose context ended: in no other way does one get lost.
LossExplained ==
  \A r \in Abandoned :
    \/ \E q \in tracked \ {r} : IdOf[q] = IdOf[r]
    \/ \E c \in Closer : cpc[c] = "timedOut"

\* What is open beyond the bound is in hand, between the map and its Close, or abandoned.
ExcessExplained == Cardinality(Open \ (InHands \cup Abandoned)) <= MaxResources

\* Each resource has one owner that closes it once, or its loss is explained, and so is
\* each that is open beyond the bound.
ResourcesOwned == OwnedOnce /\ LossExplained /\ ExcessExplained

\* "Upper bound on open resources" (resource_lifecycle.go:22).
OpenBounded == Cardinality(Open) <= MaxResources

=============================================================================
