------------------------------- MODULE Rollout -------------------------------
(***************************************************************************)
(* A rollout: the TrafficSplitter (21_deployment/traffic_splitter.go)      *)
(* chooses a colour, a router one of its pods; each pod answers readiness  *)
(* probes (01_lifecycle/health_probes.go or prestop_draining.go) and runs  *)
(* PreStopHook (21_deployment/prestop_draining.go) before it stops.  The   *)
(* router, the prober and the operator are external.                       *)
(***************************************************************************)
EXTENDS Integers, FiniteSets

CONSTANTS Pod, Request,
          DrainingDelay,  \* of the hook
          ProbeTime,      \* at most, from the answer of a probe to the next one's
          Propagation     \* at most, from an answer to the router's endpoints

Color == {"BLUE", "GREEN"}

\* prestop_draining.md:69: the delay exceeds what the router needs to hear of it,
\* and a probe that has seen the pod ready may still answer after the hook began.
RolloutParameters ==
  /\ {DrainingDelay, ProbeTime, Propagation} \subseteq Nat
  /\ DrainingDelay > 2 * ProbeTime + Propagation

VARIABLES canaryWeight, activeColor,
          color,      \* of each pod
          phase,      \* "down", "starting" (checks may fail), "up", "draining", "killed"
          isReady,
          probe,      \* pods whose probe has seen isReady and runs the checks
          waited,     \* how long the hook has slept
          left,       \* time left for the next answer of a pod's probe
          answer,     \* pods that have answered 200 last
          endpoints,  \* pods the router sends to
          lag,        \* time left for endpoints to follow answer
          at, to      \* a request, and its colour, then its pod

routing == <<canaryWeight, activeColor>>
pods == <<color, phase, isReady, probe, waited>>
router == <<left, answer, endpoints, lag>>
vars == <<routing, pods, router, at, to>>

Init ==
  /\ canaryWeight = 0 /\ activeColor = "BLUE"
  /\ color \in [Pod -> Color] /\ \E p \in Pod : color[p] = "BLUE"
  /\ phase = [p \in Pod |-> IF color[p] = "BLUE" THEN "up" ELSE "down"]
  /\ isReady = {p \in Pod : color[p] = "BLUE"}
  /\ answer = isReady /\ endpoints = isReady /\ probe = {}
  /\ waited = [p \in Pod |-> 0] /\ left = [p \in Pod |-> ProbeTime]
  /\ lag = [p \in Pod |-> 0]
  /\ at = [r \in Request |-> "out"] /\ to = [r \in Request |-> "BLUE"]

Serves(p) == phase[p] \in {"starting", "up", "draining"}

-----------------------------------------------------------------------------
\* The colours RouteTarget may choose.
Policy(w, c) == IF w = 0 THEN {c} ELSE IF w = 100 THEN {"GREEN"} ELSE Color

\* A colour that traffic may be moved to has a pod that is going to stay.
Staying == {p \in endpoints \cap answer : phase[p] = "up"}
InService(c) == \E p \in Staying : color[p] = c

\* SetCanaryWeight clamps what it is given.
SetCanaryWeight(weight) ==
  LET w == IF weight < 0 THEN 0 ELSE IF weight > 100 THEN 100 ELSE weight
  IN /\ \A c \in Policy(w, activeColor) : InService(c)
     /\ canaryWeight' = w
     /\ UNCHANGED <<activeColor, pods, router, at, to>>

SwitchActiveColor(c) ==
  /\ InService(c) /\ activeColor' = c
  /\ UNCHANGED <<canaryWeight, pods, router, at, to>>

\* RouteTarget: the header, or the weight decides, or the colour has to be loaded.
RouteOverride(r) ==
  /\ at[r] = "out" /\ at' = [at EXCEPT ![r] = "override"]
  /\ to' = [to EXCEPT ![r] = "GREEN"]
  /\ UNCHANGED <<routing, pods, router>>

ToBlue(r) ==
  /\ at[r] = "out" /\ at' = [at EXCEPT ![r] = "routed"]
  /\ \E c \in Policy(canaryWeight, "BLUE") : to' = [to EXCEPT ![r] = c]
  /\ UNCHANGED <<routing, pods, router>>

RouteTarget(r) ==
  /\ at[r] = "out"
  /\ \/ canaryWeight = 0 /\ at' = [at EXCEPT ![r] = "weighed"] /\ UNCHANGED to
     \/ /\ canaryWeight # 0 /\ at' = [at EXCEPT ![r] = "routed"]
        /\ \E c \in Policy(canaryWeight, activeColor) : to' = [to EXCEPT ![r] = c]
  /\ UNCHANGED <<routing, pods, router>>

LoadColor(r) ==
  /\ at[r] = "weighed" /\ at' = [at EXCEPT ![r] = "routed"]
  /\ to' = [to EXCEPT ![r] = activeColor]
  /\ UNCHANGED <<routing, pods, router>>

\* The router picks an endpoint of the colour, if there is one, and the request
\* arrives there or is refused.
Forward(r) ==
  /\ at[r] \in {"routed", "override"}
  /\ LET of == {p \in endpoints : color[p] = to[r]}
     IN IF of = {}
          THEN at' = [at EXCEPT ![r] = "out"] /\ UNCHANGED to
          ELSE at' = [at EXCEPT ![r] = "sent"] /\ \E p \in of : to' = [to EXCEPT ![r] = p]
  /\ UNCHANGED <<routing, pods, router>>

Arrive(r) ==
  /\ at[r] = "sent" /\ at' = [at EXCEPT ![r] = "out"] /\ to' = [to EXCEPT ![r] = "BLUE"]
  /\ UNCHANGED <<routing, pods, router>>

-----------------------------------------------------------------------------
\* A pod starts: NewProbeHandler is not ready until SetReady(true).
Start(p) ==
  /\ phase[p] \in {"down", "killed"} /\ p \notin endpoints \cup answer
  /\ phase' = [phase EXCEPT ![p] = "starting"] /\ isReady' = isReady \ {p}
  /\ waited' = [waited EXCEPT ![p] = 0]
  /\ left' = [left EXCEPT ![p] = ProbeTime]
  /\ UNCHANGED <<routing, color, probe, answer, endpoints, lag, at, to>>

SetReady(p) ==
  /\ phase[p] \in {"starting", "up"} /\ p \notin isReady /\ isReady' = isReady \cup {p}
  /\ UNCHANGED <<routing, color, phase, probe, waited, router, at, to>>

\* Its dependencies are there: from now on the checks pass.
Connect(p) ==
  /\ phase[p] = "starting" /\ phase' = [phase EXCEPT ![p] = "up"]
  /\ UNCHANGED <<routing, color, isReady, probe, waited, router, at, to>>

\* What the hook does to the flag.
ClearReady(p) == isReady \ {p}

\* PreStopHook begins.  The operator drains a pod when another one serves its
\* colour or no request is meant for that, nor about to be.
PreStopHook(p) ==
  /\ phase[p] = "up" /\ p \in isReady
  /\ \/ \E q \in Staying \ {p} : color[q] = color[p]
     \/ /\ color[p] \notin Policy(canaryWeight, activeColor)
        /\ \A r \in Request : at[r] \in {"out", "sent"}
  /\ phase' = [phase EXCEPT ![p] = "draining"] /\ isReady' = ClearReady(p)
  /\ UNCHANGED <<routing, color, probe, waited, router, at, to>>

\* It returns when the delay has passed, and the process is told to stop,
Delayed(p) == waited[p] = DrainingDelay

HookReturns(p) ==
  /\ phase[p] = "draining" /\ Delayed(p)
  /\ phase' = [phase EXCEPT ![p] = "down"] /\ probe' = probe \ {p}
  /\ answer' = answer \ {p} /\ lag' = [lag EXCEPT ![p] = Propagation]
  /\ UNCHANGED <<routing, color, isReady, waited, left, endpoints, at, to>>

\* or with the error of its context, when the grace period ends before.
HookCut(p) ==
  /\ phase[p] = "draining" /\ ~Delayed(p)
  /\ phase' = [phase EXCEPT ![p] = "killed"] /\ probe' = probe \ {p}
  /\ answer' = answer \ {p} /\ lag' = [lag EXCEPT ![p] = Propagation]
  /\ UNCHANGED <<routing, color, isReady, waited, left, endpoints, at, to>>

-----------------------------------------------------------------------------
Answered(p, ok) ==
  /\ answer' = IF ok THEN answer \cup {p} ELSE answer \ {p}
  /\ lag' = IF (p \in answer) = ok THEN lag ELSE [lag EXCEPT ![p] = Propagation]
  /\ left' = [left EXCEPT ![p] = ProbeTime]

\* ReadinessHandler: 503 when the flag is down, or the checks run, outside the lock,
ReadinessHandler(p) ==
  /\ Serves(p) /\ p \notin probe
  /\ IF p \in isReady
       THEN probe' = probe \cup {p} /\ UNCHANGED <<answer, lag, left>>
       ELSE Answered(p, FALSE) /\ UNCHANGED probe
  /\ UNCHANGED <<routing, color, phase, isReady, waited, endpoints, at, to>>

\* and 200 is what all of them passing says, whatever the flag says by now.
ExecuteChecks(p) ==
  /\ p \in probe /\ probe' = probe \ {p}
  /\ \E ok \in IF phase[p] = "starting" THEN BOOLEAN ELSE {TRUE} : Answered(p, ok)
  /\ UNCHANGED <<routing, color, phase, isReady, waited, endpoints, at, to>>

\* The router has not heard of p's last answer.
Behind(p) == ~(p \in endpoints <=> p \in answer)

Propagate(p) ==
  /\ Behind(p)
  /\ endpoints' = IF p \in answer THEN endpoints \cup {p} ELSE endpoints \ {p}
  /\ UNCHANGED <<routing, pods, left, answer, lag, at, to>>

\* Time passes, but for a probe or a change of endpoints that is due; a request
\* passes the router in no time that counts.
Tick ==
  /\ \A p \in Pod :
       /\ Serves(p) => left[p] > 0
       /\ Behind(p) => lag[p] > 0
  /\ \A r \in Request : at[r] = "out"
  /\ left' = [p \in Pod |-> IF left[p] = 0 THEN 0 ELSE left[p] - 1]
  /\ lag' = [p \in Pod |-> IF lag[p] = 0 THEN 0 ELSE lag[p] - 1]
  /\ waited' = [p \in Pod |-> IF phase[p] = "draining" /\ ~Delayed(p)
                                THEN waited[p] + 1 ELSE waited[p]]
  /\ UNCHANGED <<routing, color, phase, isReady, probe, answer, endpoints, at, to>>

Next ==
  \/ \E w \in {-1, 50, 101} : SetCanaryWeight(w)
  \/ \E c \in Color : SwitchActiveColor(c)
  \/ \E r \in Request :
       RouteOverride(r) \/ RouteTarget(r) \/ LoadColor(r) \/ Forward(r) \/ Arrive(r)
  \/ \E p \in Pod :
       \/ Start(p) \/ SetReady(p) \/ Connect(p)
       \/ PreStopHook(p) \/ HookReturns(p) \/ HookCut(p)
       \/ ReadinessHandler(p) \/ ExecuteChecks(p) \/ Propagate(p)
  \/ Tick

-----------------------------------------------------------------------------
\* Every variable keeps its type.
TypeOK ==
  /\ canaryWeight \in 0..100 /\ activeColor \in Color /\ color \in [Pod -> Color]
  /\ phase \in [Pod -> {"down", "starting", "up", "draining", "killed"}]
  /\ isReady \cup probe \cup answer \cup endpoints \subseteq Pod
  /\ waited \in [Pod -> 0..DrainingDelay] /\ left \in [Pod -> 0..ProbeTime]
  /\ lag \in [Pod -> 0..Propagation]
  /\ at \in [Request -> {"out", "override", "weighed", "routed", "sent"}]
  /\ to \in [Request -> Color \cup Pod]

\* Zero downtime (prestop_draining.md:4): through rolling restarts, canaries,
\* cutovers and rollbacks, a request finds a pod of its colour, and the pod it was
\* sent to still serves; but for pods whose grace period was shorter than the delay.
ZeroDowntime ==
  (\A p \in Pod : phase[p] # "killed") =>
    \A r \in Request :
      /\ at[r] = "routed" => \E p \in endpoints : color[p] = to[r] /\ Serves(p)
      /\ at[r] = "sent" => Serves(to[r])

=============================================================================
