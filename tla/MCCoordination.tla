---------------------------- MODULE MCCoordination ----------------------------
(***************************************************************************)
(* Leases, sagas, reconciliation, payments, transactions, rollouts and     *)
(* sessions: 16_distributed, the visibility queue of 24_backgroundjobs,    *)
(* the payment pipeline of 26_advanced, the stores of 04_persistence,      *)
(* 21_deployment with the probes of 01_lifecycle, the tokens of 12_auth,   *)
(* checked in one run.  They share no state, so a behaviour exercises one  *)
(* of them.                                                                *)
(***************************************************************************)
EXTENDS Leases, TLC

CONSTANTS Steps, Compensable,                                    \* of the saga
          Key, LosesAnswers, MaxCharges, NoResponse,             \* payments
          Updater, Wallet, Initial, MaxTx, MaxSales, MaxRetries, \* updates
          Id, Data, Runner, MaxWrites, MaxErrors,                \* reconciliation
          Pod, Request, DrainingDelay, ProbeTime, Propagation,   \* the rollout
          Family, MaxTokens,                                     \* token rotation
          Exercised

VARIABLES part,
          phase, completedSteps, effects, failures,                        \* the saga
          idempotency, inFlightKeys, pc, key, sm, charges,                 \* payments
          wallets, ledger, open, stagedWallets, stagedLedger, commits,     \* transactions
          seen, erased, item, copy, sold,                             \* and stock
          checkoutStage, attempt, qty, snapshot, inventory, savedOrders,   \* checkouts
          commitCount, orderCharges, unsure,
          source, target, writes, errors, rpc, sourceRecords,              \* reconciliation
          targetRecords, todo,
          canaryWeight, activeColor, color, podPhase, isReady, probe, waited, \* the rollout
          left, answer, endpoints, lag, at, to,
          current, used, revoked, held, call, fresh, mishaps,      \* token rotation
          presented, reused

P == INSTANCE PaymentPipeline
U == INSTANCE ConcurrentUpdates WITH
       Client <- Updater, stage <- checkoutStage, orders <- savedOrders,
       committed <- commitCount, charges <- orderCharges
R == INSTANCE Repairs
D == INSTANCE Rollout WITH phase <- podPhase
T == INSTANCE TokenRotation

ASSUME Parameters ==
  /\ ElectorParameters /\ VisibilityParameters /\ R!SagaParameters
  /\ P!PaymentParameters /\ U!UpdateParameters /\ R!ReconciliationParameters /\ D!RolloutParameters
  /\ T!RotationParameters

\* Values for the constants, of which the runs take some.
CONSTANTS n1, n2, n3, r1, r2, j1, j2, k1, k2

MCResource == {r1, r2}
MCClient == {n1, n2, n3}
MCTwo == {n1, n2}
MCOne == {n3}
MCJob == {j1, j2}
MCKey == {k1, k2}
MCOneKey == {k1}
MCOneFamily == {r1}
MCColor == CHOOSE f \in [Pod -> {"BLUE", "GREEN"}] : \E p \in Pod : f[p] = "BLUE"
MCCompensable == {1, 2, 4}
AllParts ==
  {"lock", "elector", "queue", "saga", "payments", "transactions", "stock", "checkout",
   "reconciliation", "rollout", "sessions"}
OnlyPayments == {"payments"}
OnlyTransactions == {"transactions"}

sagaVars == <<phase, completedSteps, effects, failures>>
paymentVars == <<idempotency, inFlightKeys, pc, key, sm, charges>>
updateVars == <<wallets, ledger, open, stagedWallets, stagedLedger, commits, seen,
                erased, item, copy, sold>>
checkoutVars == <<checkoutStage, attempt, qty, snapshot, inventory, savedOrders,
                  commitCount, orderCharges, unsure>>
recordVars == <<source, target, writes, errors, rpc, sourceRecords, targetRecords, todo>>
rolloutVars == <<canaryWeight, activeColor, color, podPhase, isReady, probe, waited, left,
                 answer, endpoints, lag, at, to>>
tokenVars == <<current, used, revoked, held, call, fresh, mishaps, presented, reused>>
suiteVars == <<part, lockVars, electorVars, queueVars, sagaVars, paymentVars, updateVars,
               checkoutVars, recordVars, rolloutVars, tokenVars>>

SuiteInit ==
  /\ part \in Exercised
  /\ LockInit /\ ElectorInit /\ QueueInit /\ R!SagaInit /\ R!RecordInit
  /\ P!Init /\ U!Init /\ D!Init /\ T!Init
  /\ part # "reconciliation" => source = R!Empty /\ target = R!Empty
  /\ part # "rollout" => color = MCColor

Rests(names, v) == IF part \in names THEN TRUE ELSE UNCHANGED v

SuiteNext ==
  /\ UNCHANGED part
  /\ \/ part = "lock" /\ LockNext
     \/ part = "elector" /\ ElectorNext
     \/ part = "queue" /\ QueueNext
     \/ part = "saga" /\ R!SagaNext
     \/ part = "payments" /\ P!Next
     \/ part = "transactions" /\ U!TxNext
     \/ part = "stock" /\ U!StockNext
     \/ part = "checkout" /\ U!CheckoutNext
     \/ part = "reconciliation" /\ R!RecordNext
     \/ part = "rollout" /\ D!Next
     \/ part = "sessions" /\ T!Next
  /\ Rests({"lock"}, lockVars) /\ Rests({"elector"}, electorVars)
  /\ Rests({"queue"}, queueVars) /\ Rests({"saga"}, sagaVars)
  /\ Rests({"payments"}, paymentVars) /\ Rests({"transactions", "stock"}, updateVars)
  /\ Rests({"checkout"}, checkoutVars)
  /\ Rests({"reconciliation"}, recordVars) /\ Rests({"rollout"}, rolloutVars)
  /\ Rests({"sessions"}, tokenVars)

SuiteOnly == SuiteInit /\ [][SuiteNext]_suiteVars

\* The fair steps of a part that nobody uses are disabled, but for the runs of the
\* reconciliation, which start by themselves.
SuiteSpec ==
  SuiteOnly /\ ElectorFairness /\ QueueFairness /\ (part = "reconciliation" => R!RecordFairness)

\* Every variable keeps its type.
SuiteTypeOK ==
  /\ LockTypeOK /\ ElectorTypeOK /\ QueueTypeOK /\ R!SagaTypeOK /\ P!TypeOK
  /\ U!TypeOK /\ R!RecordTypeOK /\ D!TypeOK /\ T!TypeOK

\* A lease is held by one: the lock's, the leader's and the one of a job that was
\* dequeued, through expiry, crashes, restarts and late calls.
OneHolderPerLease == OneLiveLease /\ OneBeliever /\ OneLiveReceipt

\* No update is lost but under a commit over a wallet that had changed, and a checkout
\* is charged and booked once, or not booked.
UpdatesKept == U!UpdatesKept /\ U!CheckoutAtomic

\* A lease whose holder dies is taken over: another leader leads, another worker
\* runs the job.  A target that is reconciled again and again catches up.
LostGroundRegained ==
  /\ LeaderReturns /\ JobsComplete
  /\ part = "reconciliation" => R!TargetConverges

\* The other properties, stated and explained in their modules.
SagaAtomic == R!SagaAtomic
PaidOnce == P!PaidOnce
ChargedOnce == P!ChargedOnce
NoLostUpdate == U!NoLostUpdate
ZeroDowntime == D!ZeroDowntime
RotationSound == T!RotationSound

=============================================================================
