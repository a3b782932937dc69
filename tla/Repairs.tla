-------------------------------- MODULE Repairs --------------------------------
(***************************************************************************)
(* What is put right afterwards.  SagaOrchestrator of                      *)
(* 16_distributed/saga_orchestrator.go: the steps of a failed saga are     *)
(* compensated; an action that fails has no effect, a compensation may     *)
(* fail, or not exist.  ReconciliationEngine of                            *)
(* 16_distributed/reconciliation.go: Reconcile reads all of the source,    *)
(* then all of the target, and repairs record by record what the two       *)
(* snapshots disagree on.  Nothing stops writers, or a second Reconcile,   *)
(* between the snapshots and the repairs, and an error of a repair is      *)
(* dropped.                                                                *)
(***************************************************************************)
EXTENDS Integers, Sequences

CONSTANTS Steps,        \* how many steps the saga has
          Compensable   \* the steps with a Compensate function

SagaParameters == Steps \in Nat

CONSTANTS Id, Data,   \* of records
          Runner,     \* goroutines that call Reconcile, each over and over
          MaxWrites,  \* bound: writes of the source
          MaxErrors   \* bound: calls of a store that fail

ReconciliationParameters == MaxWrites \in Nat /\ MaxErrors \in Nat

VARIABLES phase,          \* "new", "forward", "backward", or what Execute returned
          completedSteps, \* the local variable; compensation pops it from its end
          effects,        \* history: steps whose effect stands
          failures        \* history: steps whose compensation failed

VARIABLES source, target,  \* s.store of each: a record for each id that is there
          writes, errors,
          rpc,             \* of each runner: "idle", "target", "repair", "orphans"
          sourceRecords, targetRecords,  \* its snapshots
          todo             \* ids its loop has not come to

-----------------------------------------------------------------------------
(* SagaOrchestrator *)

sagaVars == <<phase, completedSteps, effects, failures>>

SagaInit == phase = "new" /\ completedSteps = <<>> /\ effects = {} /\ failures = {}

Execute ==
  /\ phase = "new" /\ phase' = "forward"
  /\ UNCHANGED <<completedSteps, effects, failures>>

\* The next step's action succeeds,
ActionSucceeds ==
  /\ phase = "forward" /\ Len(completedSteps) < Steps
  /\ LET step == Len(completedSteps) + 1
     IN completedSteps' = Append(completedSteps, step) /\ effects' = effects \cup {step}
  /\ UNCHANGED <<phase, failures>>

\* or fails.
ActionFails ==
  /\ phase = "forward" /\ Len(completedSteps) < Steps
  /\ phase' = "backward"
  /\ UNCHANGED <<completedSteps, effects, failures>>

AllDone ==
  /\ phase = "forward" /\ Len(completedSteps) = Steps
  /\ phase' = "succeeded"
  /\ UNCHANGED <<completedSteps, effects, failures>>

\* The step that is compensated next, and the steps that remain.
OldestFirst(s) == Head(s)
LatestFirst(s) == s[Len(s)]
Remaining(s) == SubSeq(s, 1, Len(s) - 1)

Compensate ==
  /\ phase = "backward" /\ completedSteps # <<>>
  /\ completedSteps' = Remaining(completedSteps)
  /\ LET step == LatestFirst(completedSteps)
     IN \/ step \notin Compensable /\ UNCHANGED <<effects, failures>>
        \/ step \in Compensable /\ effects' = effects \ {step} /\ UNCHANGED failures
        \/ step \in Compensable /\ failures' = failures \cup {step} /\ UNCHANGED effects
  /\ UNCHANGED phase

Compensated ==
  /\ phase = "backward" /\ completedSteps = <<>>
  /\ phase' = IF failures = {} THEN "compensated" ELSE "inconsistent"
  /\ UNCHANGED <<completedSteps, effects, failures>>

SagaNext ==
  \/ Execute \/ ActionSucceeds \/ ActionFails \/ AllDone
  \/ Compensate \/ Compensated

-----------------------------------------------------------------------------
(* ReconciliationEngine *)

recordVars == <<source, target, writes, errors, rpc, sourceRecords, targetRecords, todo>>
stores == <<source, target, writes>>
snapshots == <<sourceRecords, targetRecords>>

Empty == [i \in {} |-> 0]

\* MemoryReconciliationStore's Upsert and Delete.
Upsert(s, i, r) == [j \in DOMAIN s \cup {i} |-> IF j = i THEN r ELSE s[j]]
Delete(s, i) == [j \in DOMAIN s \ {i} |-> s[j]]

\* The two stores have drifted apart when the engine first runs.
Drifted == UNION {[ids -> [version : {1, 2}, data : Data]] : ids \in SUBSET Id}

RecordInit ==
  /\ source \in Drifted /\ target \in Drifted
  /\ writes = 0 /\ errors = 0
  /\ rpc = [e \in Runner |-> "idle"]
  /\ sourceRecords = [e \in Runner |-> Empty] /\ targetRecords = [e \in Runner |-> Empty]
  /\ todo = [e \in Runner |-> {}]

-----------------------------------------------------------------------------
\* Somebody writes the source of truth.
WriteSource ==
  /\ writes < MaxWrites /\ writes' = writes + 1
  /\ \E i \in Id :
       \/ i \in DOMAIN source /\ source' = Delete(source, i)
       \/ \E d \in Data : source' = Upsert(source, i,
            [version |-> IF i \in DOMAIN source THEN source[i].version + 1 ELSE 1, data |-> d])
  /\ UNCHANGED <<target, errors, rpc, snapshots, todo>>

\* source.GetAll, then target.GetAll.
ReadSource(e) ==
  /\ rpc[e] = "idle"
  /\ sourceRecords' = [sourceRecords EXCEPT ![e] = source]
  /\ rpc' = [rpc EXCEPT ![e] = "target"]
  /\ UNCHANGED <<stores, errors, targetRecords, todo>>

ReadTarget(e) ==
  /\ rpc[e] = "target"
  /\ targetRecords' = [targetRecords EXCEPT ![e] = target]
  /\ todo' = [todo EXCEPT ![e] = DOMAIN sourceRecords[e]]
  /\ rpc' = [rpc EXCEPT ![e] = "repair"]
  /\ UNCHANGED <<stores, errors, sourceRecords>>

\* Either of them fails: Reconcile returns the error.
ReadFails(e) ==
  /\ rpc[e] \in {"idle", "target"} /\ errors < MaxErrors
  /\ errors' = errors + 1
  /\ rpc' = [rpc EXCEPT ![e] = "idle"]
  /\ sourceRecords' = [sourceRecords EXCEPT ![e] = Empty]
  /\ UNCHANGED <<stores, targetRecords, todo>>

\* What a repair does to the target, or does not if the store refuses it: "_ =".
Applied(repaired) ==
  \/ target' = repaired /\ UNCHANGED errors
  \/ errors < MaxErrors /\ errors' = errors + 1 /\ UNCHANGED target

Mismatch(src, tgt) == tgt.version < src.version \/ tgt.data # src.data

Outdated(e, i) ==
  \/ i \notin DOMAIN targetRecords[e]
  \/ Mismatch(sourceRecords[e][i], targetRecords[e][i])

\* First the records that are missing or differ, in any order of the map,
Repair(e) ==
  /\ rpc[e] = "repair"
  /\ \E i \in todo[e] :
       /\ todo' = [todo EXCEPT ![e] = @ \ {i}]
       /\ IF Outdated(e, i) THEN Applied(Upsert(target, i, sourceRecords[e][i]))
                            ELSE UNCHANGED <<target, errors>>
  /\ UNCHANGED <<source, writes, rpc, snapshots>>

RepairsDone(e) ==
  /\ rpc[e] = "repair" /\ todo[e] = {}
  /\ rpc' = [rpc EXCEPT ![e] = "orphans"]
  /\ todo' = [todo EXCEPT ![e] = DOMAIN targetRecords[e]]
  /\ UNCHANGED <<stores, errors, snapshots>>

\* then those the source's snapshot does not have.
Orphan(e, i) == i \notin DOMAIN sourceRecords[e]

DeleteOrphan(e) ==
  /\ rpc[e] = "orphans"
  /\ \E i \in todo[e] :
       /\ todo' = [todo EXCEPT ![e] = @ \ {i}]
       /\ IF Orphan(e, i) THEN Applied(Delete(target, i)) ELSE UNCHANGED <<target, errors>>
  /\ UNCHANGED <<source, writes, rpc, snapshots>>

\* Reconcile returns its report.
Return(e) ==
  /\ rpc[e] = "orphans" /\ todo[e] = {}
  /\ rpc' = [rpc EXCEPT ![e] = "idle"]
  /\ sourceRecords' = [sourceRecords EXCEPT ![e] = Empty]
  /\ targetRecords' = [targetRecords EXCEPT ![e] = Empty]
  /\ UNCHANGED <<stores, errors, todo>>

ReconcileStep(e) ==
  ReadSource(e) \/ ReadTarget(e) \/ Repair(e) \/ RepairsDone(e) \/ DeleteOrphan(e) \/ Return(e)

RecordNext == WriteSource \/ \E e \in Runner : ReconcileStep(e) \/ ReadFails(e)

\* The engine is run periodically, as reconciliation.md tells its users to.
RecordFairness == \A e \in Runner : WF_recordVars(ReconcileStep(e))

RecordSpec == RecordInit /\ [][RecordNext]_recordVars /\ RecordFairness

-----------------------------------------------------------------------------
\* Every variable keeps its type.
SagaTypeOK ==
  /\ phase \in {"new", "forward", "backward", "succeeded", "compensated", "inconsistent"}
  /\ completedSteps \in Seq(1..Steps) /\ {effects, failures} \subseteq SUBSET (1..Steps)

\* All or nothing of what can be undone: a nil error means that every effect
\* stands, "successfully compensated" that none does, and after a failed
\* compensation exactly the steps whose compensation failed do.
Outcome ==
  /\ phase = "succeeded" => effects = 1..Steps
  /\ phase \in {"compensated", "inconsistent"} => effects \cap Compensable = failures

\* Effects are undone in the reverse of their order (line 26).
ReverseOrder ==
  \A s \in effects \ effects', t \in effects \cap Compensable : t > s => t \in failures

SagaAtomic == []Outcome /\ [][ReverseOrder]_sagaVars

\* Every variable keeps its type.
RecordTypeOK ==
  /\ DOMAIN source \subseteq Id /\ DOMAIN target \subseteq Id
  /\ writes \in 0..MaxWrites /\ errors \in 0..MaxErrors
  /\ \A e \in Runner :
       /\ rpc[e] \in {"idle", "target", "repair", "orphans"} /\ todo[e] \subseteq Id
       /\ DOMAIN sourceRecords[e] \subseteq Id /\ DOMAIN targetRecords[e] \subseteq Id

Converged ==
  /\ DOMAIN target = DOMAIN source
  /\ \A i \in DOMAIN source :
       target[i].data = source[i].data /\ target[i].version >= source[i].version

\* Once the source is left alone and its errors are over, the target comes to agree
\* with it and stays so, whatever had drifted and however the calls of Reconcile and
\* the writes overlapped: a repair from an old snapshot, which may overwrite or delete
\* a newer record, is itself repaired.
TargetConverges == <>[]Converged

=============================================================================
