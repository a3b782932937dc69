---------------------------- MODULE PaymentPipeline ----------------------------
(***************************************************************************)
(* IdempotentPaymentPipeline of 26_advanced/idempotent_payment_pipeline.go *)
(* with the PaymentStateMachine of 23_dataintegrity/state_machine.go, for  *)
(* clients that send the same keys again and again.                        *)
(***************************************************************************)
EXTENDS Integers, TLAPS

CONSTANTS Key, Client,
          LosesAnswers, \* may the gateway charge and the answer be lost?
          MaxCharges,   \* bound: charges per key
          NoResponse

PaymentParameters == MaxCharges \in Nat

VARIABLES idempotency,  \* idempotency[k]: the cached response, or NoResponse
          inFlightKeys,
          pc, key,      \* where a call of ProcessPayment is, and its key, if any
          sm,           \* the state machine of the call
          charges       \* of the gateway: how often key k was charged

vars == <<idempotency, inFlightKeys, pc, key, sm, charges>>

Init ==
  /\ idempotency = [k \in Key |-> NoResponse] /\ inFlightKeys = {}
  /\ pc = [c \in Client |-> "idle"] /\ key = [c \in Client |-> {}]
  /\ sm = [c \in Client |-> "PENDING"]
  /\ charges = [k \in Key |-> 0]

\* The table of the state machine; TransitionTo changes nothing when the
\* transition is not in it, and the pipeline ignores the error.
AllowedNoSuccess(s) ==
  CASE s = "PENDING" -> {"PROCESSING", "FAILED"}
    [] s = "PROCESSING" -> {"FAILED"}
    [] OTHER -> {}
Allowed(s) ==
  CASE s = "PENDING" -> {"PROCESSING", "FAILED"}
    [] s = "PROCESSING" -> {"SUCCEEDED", "FAILED"}
    [] s = "SUCCEEDED" -> {"REFUNDED"}
    [] OTHER -> {}

TransitionTo(s, t) == IF t \in Allowed(s) THEN t ELSE s

\* Is the key free for this call?
FreeUncached(k) == k \notin inFlightKeys
Free(k) == idempotency[k] = NoResponse /\ k \notin inFlightKeys

\* ProcessPayment locks the key, with a new state machine.  With a cached
\* response or the key in flight it returns and changes nothing.
ProcessPayment(c, k) ==
  /\ pc[c] = "idle" /\ Free(k)
  /\ inFlightKeys' = inFlightKeys \cup {k}
  /\ key' = [key EXCEPT ![c] = {k}]
  /\ sm' = [sm EXCEPT ![c] = TransitionTo("PENDING", "PROCESSING")]
  /\ pc' = [pc EXCEPT ![c] = "charging"]
  /\ UNCHANGED <<idempotency, charges>>

GatewayCharges(c) ==
  \E k \in key[c] : charges[k] < MaxCharges /\ charges' = [charges EXCEPT ![k] = @ + 1]

ChargeSucceeds(c) ==
  /\ pc[c] = "charging" /\ GatewayCharges(c)
  /\ sm' = [sm EXCEPT ![c] = TransitionTo(@, "SUCCEEDED")]
  /\ pc' = [pc EXCEPT ![c] = "charged"]
  /\ UNCHANGED <<idempotency, inFlightKeys, key>>

\* The call of the gateway fails: it did not charge, or its answer is lost.
ChargeFails(c) ==
  /\ pc[c] = "charging"
  /\ UNCHANGED charges \/ (LosesAnswers /\ GatewayCharges(c))
  /\ sm' = [sm EXCEPT ![c] = TransitionTo(@, "FAILED")]
  /\ pc' = [pc EXCEPT ![c] = "leaving"]
  /\ UNCHANGED <<idempotency, inFlightKeys, key>>

\* The response is cached; the key is still in flight.
CacheResponse(c) ==
  /\ pc[c] = "charged"
  /\ \E k \in key[c] :
       idempotency' = [idempotency EXCEPT ![k] = [payment |-> charges[k], status |-> sm[c]]]
  /\ pc' = [pc EXCEPT ![c] = "leaving"]
  /\ UNCHANGED <<inFlightKeys, key, sm, charges>>

\* The deferred function.
Leave(c) ==
  /\ pc[c] = "leaving"
  /\ inFlightKeys' = inFlightKeys \ key[c]
  /\ key' = [key EXCEPT ![c] = {}] /\ pc' = [pc EXCEPT ![c] = "idle"]
  /\ UNCHANGED <<idempotency, sm, charges>>

Next ==
  \E c \in Client :
    \/ \E k \in Key : ProcessPayment(c, k)
    \/ ChargeSucceeds(c) \/ ChargeFails(c) \/ CacheResponse(c) \/ Leave(c)

Spec == Init /\ [][Next]_vars

-----------------------------------------------------------------------------
\* Every variable keeps its type; a cached response is final.
TypeOK ==
  /\ idempotency \in [Key -> {NoResponse} \cup [payment : 1..MaxCharges, status : {"SUCCEEDED"}]]
  /\ inFlightKeys \subseteq Key
  /\ pc \in [Client -> {"idle", "charging", "charged", "leaving"}]
  /\ key \in [Client -> SUBSET Key] /\ charges \in [Key -> 0..MaxCharges]
  /\ sm \in [Client -> {"PENDING", "PROCESSING", "SUCCEEDED", "FAILED"}]

\* Requests with the same key "never trigger a second gateway charge"
\* (idempotent_payment_pipeline.md:49), however they overlap and repeat,
ChargedOnce == \A k \in Key : charges[k] <= 1

\* and what was answered once is answered for ever.
PaidOnce ==
  [][\A k \in Key :
       charges'[k] <= 1 /\ (idempotency[k] # NoResponse => idempotency'[k] = idempotency[k])]_vars

-----------------------------------------------------------------------------
\* What the gateway must grant: an error means that it did not charge; and a
\* response is told from no response.
AnswersArrive ==
  ~LosesAnswers /\ \A p, s : NoResponse # [payment |-> p, status |-> s]

\* The types that the argument needs.
Typed ==
  /\ pc \in [Client -> {"idle", "charging", "charged", "leaving"}]
  /\ key \in [Client -> SUBSET Key] /\ charges \in [Key -> Nat]
  /\ inFlightKeys \in SUBSET Key /\ DOMAIN idempotency = Key
  /\ DOMAIN sm = Client

\* A call between lock and deferred function has its key in flight, alone.
KeyLocked ==
  /\ \A c \in Client : key[c] \subseteq inFlightKeys
  /\ \A c, d \in Client : c # d => key[c] \cap key[d] = {}
  /\ \A c \in Client : pc[c] = "idle" => key[c] = {}
  /\ \A c \in Client : \A k, l \in key[c] : k = l

\* A key that was charged has its response cached, or is about to.
ChargeKnown ==
  \A k \in Key :
    /\ idempotency[k] = NoResponse =>
         \A c \in Client : k \in key[c] /\ pc[c] # "charged" => charges[k] = 0
    /\ idempotency[k] = NoResponse /\ k \notin inFlightKeys => charges[k] = 0
    /\ idempotency[k] # NoResponse =>
         \A c \in Client : k \in key[c] => pc[c] = "leaving"

IInv == Typed /\ KeyLocked /\ ChargeKnown /\ ChargedOnce

-----------------------------------------------------------------------------
\* Nothing is charged and nothing is in flight at first.
LEMMA InitLemma == Init => IInv
  BY DEF Init, IInv, Typed, KeyLocked, ChargeKnown, ChargedOnce

\* A key is locked when it is neither cached nor in flight.
LEMMA ProcessLemma ==
  ASSUME IInv, NEW c \in Client, NEW k \in Key, ProcessPayment(c, k)
  PROVE  IInv'
<1>1. Typed' /\ ChargedOnce'
  BY DEF IInv, Typed, ChargedOnce, ProcessPayment
<1>2. KeyLocked'
  BY DEF IInv, Typed, KeyLocked, ProcessPayment, Free
<1>3. ChargeKnown'
  BY DEF IInv, Typed, KeyLocked, ChargeKnown, ProcessPayment, Free
<1> QED BY <1>1, <1>2, <1>3 DEF IInv

\* The gateway charges a key that was not charged.
LEMMA ChargeLemma ==
  ASSUME IInv, NEW c \in Client, ChargeSucceeds(c)
  PROVE  IInv'
<1>1. PICK k \in key[c] : charges' = [charges EXCEPT ![k] = @ + 1]
  BY DEF ChargeSucceeds, GatewayCharges
<1>2. k \in Key /\ idempotency[k] = NoResponse /\ charges[k] = 0
  BY DEF IInv, Typed, ChargeKnown, ChargeSucceeds
<1>3. Typed' /\ ChargedOnce'
  BY <1>1, <1>2 DEF IInv, Typed, ChargedOnce, ChargeSucceeds
<1>4. KeyLocked'
  BY DEF IInv, Typed, KeyLocked, ChargeSucceeds
<1>5. ChargeKnown'
  BY <1>1, <1>2 DEF IInv, Typed, KeyLocked, ChargeKnown, ChargeSucceeds
<1> QED BY <1>3, <1>4, <1>5 DEF IInv

\* A failure means that nothing was charged.
LEMMA FailLemma ==
  ASSUME IInv, AnswersArrive, NEW c \in Client, ChargeFails(c)
  PROVE  IInv'
  BY DEF IInv, Typed, KeyLocked, ChargeKnown, ChargedOnce, ChargeFails, AnswersArrive

\* The response is cached before the key is let go.
LEMMA CacheLemma ==
  ASSUME IInv, AnswersArrive, NEW c \in Client, CacheResponse(c)
  PROVE  IInv'
<1>1. PICK k \in key[c] :
        idempotency' = [idempotency EXCEPT ![k] = [payment |-> charges[k], status |-> sm[c]]]
  BY DEF CacheResponse
<1>2. k \in Key /\ idempotency'[k] # NoResponse /\ (\A l \in Key \ {k} : idempotency'[l] = idempotency[l])
  BY <1>1 DEF IInv, Typed, AnswersArrive
<1>3. Typed' /\ ChargedOnce' /\ KeyLocked'
  BY <1>1 DEF IInv, Typed, KeyLocked, ChargedOnce, CacheResponse
<1>4. ChargeKnown'
  BY <1>2 DEF IInv, Typed, KeyLocked, ChargeKnown, CacheResponse
<1> QED BY <1>3, <1>4 DEF IInv

\* The deferred function lets the key go.
LEMMA LeaveLemma ==
  ASSUME IInv, NEW c \in Client, Leave(c)
  PROVE  IInv'
<1>1. Typed' /\ ChargedOnce' /\ KeyLocked'
  BY DEF IInv, Typed, KeyLocked, ChargedOnce, Leave
<1>2. ChargeKnown'
  BY DEF IInv, Typed, KeyLocked, ChargeKnown, Leave
<1> QED BY <1>1, <1>2 DEF IInv

-----------------------------------------------------------------------------
\* When the gateway's answers arrive, every step preserves the invariant.
LEMMA StepLemma ==
  ASSUME AnswersArrive
  PROVE  IInv /\ [Next]_vars => IInv'
<1> SUFFICES ASSUME IInv, [Next]_vars PROVE IInv'
  OBVIOUS
<1>1. CASE Next
  BY <1>1, ProcessLemma, ChargeLemma, FailLemma, CacheLemma, LeaveLemma DEF Next
<1>2. CASE UNCHANGED vars
  BY <1>2 DEF IInv, Typed, KeyLocked, ChargeKnown, ChargedOnce, vars
<1> QED BY <1>1, <1>2

\* A response is cached only where there was none; nothing is charged twice.
LEMMA StableLemma ==
  IInv /\ IInv' /\ [Next]_vars =>
    [\A k \in Key :
       charges'[k] <= 1 /\ (idempotency[k] # NoResponse => idempotency'[k] = idempotency[k])]_vars
<1> SUFFICES ASSUME IInv, IInv', Next, NEW k \in Key
             PROVE  charges'[k] <= 1
                    /\ (idempotency[k] # NoResponse => idempotency'[k] = idempotency[k])
  OBVIOUS
<1>0. charges'[k] <= 1
  BY DEF IInv, ChargedOnce
<1> SUFFICES ASSUME idempotency[k] # NoResponse PROVE idempotency'[k] = idempotency[k]
  BY <1>0
<1>1. ASSUME NEW c \in Client, CacheResponse(c) PROVE idempotency'[k] = idempotency[k]
  <2>1. k \notin key[c]
    BY <1>1 DEF IInv, ChargeKnown, CacheResponse
  <2> QED BY <1>1, <2>1 DEF CacheResponse, IInv, Typed
<1>2. CASE idempotency' = idempotency
  BY <1>2
<1> QED BY <1>1, <1>2 DEF Next, ProcessPayment, ChargeSucceeds, ChargeFails, Leave

\* However requests with one key overlap and repeat, the gateway charges it at
\* most once and the first response is answered for ever, provided that an error
\* of the gateway means that it did not charge.
THEOREM PaidOnceHolds ==
  ASSUME AnswersArrive
  PROVE  Spec => PaidOnce
<1>1. IInv /\ [Next]_vars => IInv'
  BY StepLemma
<1> QED BY <1>1, InitLemma, StableLemma, PTL DEF Spec, PaidOnce

-----------------------------------------------------------------------------
\* What the types need in addition, whatever the gateway does: a call that charges has
\* begun, with one key, and one that was charged has succeeded.
CallsKnown ==
  \A c \in Client :
    /\ \A k, l \in key[c] : k = l
    /\ pc[c] = "charging" => sm[c] = "PROCESSING"
    /\ pc[c] = "charged" => sm[c] = "SUCCEEDED" /\ \A k \in key[c] : charges[k] >= 1

\* The transitions that the pipeline makes are in the table.
LEMMA TransitionsLemma ==
  /\ TransitionTo("PENDING", "PROCESSING") = "PROCESSING"
  /\ TransitionTo("PROCESSING", "SUCCEEDED") = "SUCCEEDED"
  /\ TransitionTo("PROCESSING", "FAILED") = "FAILED"
  BY DEF TransitionTo, Allowed

\* No call caches what was not charged.
LEMMA TypesLemma ==
  ASSUME PaymentParameters, TypeOK, CallsKnown, [Next]_vars
  PROVE  TypeOK' /\ CallsKnown'
<1> USE DEF PaymentParameters, TypeOK, CallsKnown
<1>1. ASSUME NEW c \in Client, NEW k \in Key, ProcessPayment(c, k) PROVE TypeOK' /\ CallsKnown'
  BY <1>1, TransitionsLemma DEF ProcessPayment
<1>2. ASSUME NEW c \in Client, ChargeSucceeds(c) PROVE TypeOK' /\ CallsKnown'
  <2>1. PICK k \in key[c] : charges[k] < MaxCharges /\ charges' = [charges EXCEPT ![k] = @ + 1]
    BY <1>2 DEF ChargeSucceeds, GatewayCharges
  <2>2. /\ charges' \in [Key -> 0..MaxCharges] /\ charges'[k] >= 1
        /\ \A l \in Key : charges'[l] >= charges[l]
        /\ \A l \in key[c] : charges'[l] >= 1
    <3>1. k \in Key /\ charges[k] \in Nat
      BY <1>2
    <3>2. charges' \in [Key -> 0..MaxCharges] /\ charges'[k] >= 1
      BY <2>1, <3>1
    <3> QED BY <2>1, <3>1, <3>2
  <2>3. sm[c] = "PROCESSING" /\ sm' = [sm EXCEPT ![c] = "SUCCEEDED"]
    BY <1>2, TransitionsLemma DEF ChargeSucceeds
  <2> QED BY <1>2, <2>2, <2>3 DEF ChargeSucceeds
<1>3. ASSUME NEW c \in Client, ChargeFails(c) PROVE TypeOK' /\ CallsKnown'
  <2>1. /\ charges' \in [Key -> 0..MaxCharges]
        /\ \A k \in Key : charges'[k] >= charges[k]
    BY <1>3 DEF ChargeFails, GatewayCharges
  <2> QED BY <1>3, <2>1, TransitionsLemma DEF ChargeFails
<1>4. ASSUME NEW c \in Client, CacheResponse(c) PROVE TypeOK' /\ CallsKnown'
  <2>1. PICK k \in key[c] :
          idempotency' = [idempotency EXCEPT ![k] = [payment |-> charges[k], status |-> sm[c]]]
    BY <1>4 DEF CacheResponse
  <2>2. charges[k] \in 1..MaxCharges /\ sm[c] = "SUCCEEDED"
    BY <1>4 DEF CacheResponse
  <2> QED BY <1>4, <2>1, <2>2 DEF CacheResponse
<1>5. ASSUME NEW c \in Client, Leave(c) PROVE TypeOK' /\ CallsKnown'
  BY <1>5 DEF Leave
<1>6. CASE UNCHANGED vars
  BY <1>6 DEF vars
<1> QED BY <1>1, <1>2, <1>3, <1>4, <1>5, <1>6 DEF Next

\* Whatever the gateway loses: what is cached is the answer of a call that succeeded.
THEOREM TypesHold ==
  ASSUME PaymentParameters
  PROVE  Spec => []TypeOK
<1>1. Init => TypeOK /\ CallsKnown
  BY DEF PaymentParameters, Init, TypeOK, CallsKnown
<1>2. TypeOK /\ CallsKnown /\ [Next]_vars => TypeOK' /\ CallsKnown'
  BY TypesLemma
<1> QED BY <1>1, <1>2, PTL DEF Spec

=============================================================================
