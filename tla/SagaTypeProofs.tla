--------------------------- MODULE SagaTypeProofs ---------------------------
(***************************************************************************)
(* Type correctness of Saga, for any number of sagas and slots, any stock  *)
(* and demand, any bound on retries and any faults: one lemma per          *)
(* component and kind of step, each saying which types the step keeps.     *)
(***************************************************************************)
EXTENDS Saga, FiniteSetTheorems, WellFoundedInduction, TLAPS

-----------------------------------------------------------------------------
(* The tables. *)

(* The nine events of the saga table. *)
LEMMA EventNames ==
  SagaEvents =
    {"INVENTORY_RESERVED", "PAYMENT_SUCCEEDED", "NOTIFICATION_SENT",
     "INVENTORY_FAILED", "PAYMENT_FAILED", "PAYMENT_UNKNOWN",
     "INVENTORY_RELEASED", "INVENTORY_RELEASE_FAILED", "NOTIFICATION_FAILED"}
BY DEF SagaEvents, SagaTransitions

(* Every rule of the saga table names states and commands that exist. *)
LEMMA RuleTypes ==
  ASSUME NEW e \in SagaEvents
  PROVE  /\ SagaTransitions[e].to \in WorkflowStates
         /\ SagaTransitions[e].from \subseteq WorkflowStates
         /\ SagaTransitions[e].command \in Commands \cup {""}
<1>1. CASE e = "INVENTORY_RESERVED"
  BY <1>1 DEF SagaTransitions, Rule, WorkflowStates, Commands
<1>2. CASE e = "PAYMENT_SUCCEEDED"
  BY <1>2 DEF SagaTransitions, Rule, WorkflowStates, Commands
<1>3. CASE e = "NOTIFICATION_SENT"
  BY <1>3 DEF SagaTransitions, Rule, WorkflowStates, Commands
<1>4. CASE e = "INVENTORY_FAILED"
  BY <1>4 DEF SagaTransitions, Rule, WorkflowStates, Commands
<1>5. CASE e = "PAYMENT_FAILED"
  BY <1>5 DEF SagaTransitions, Rule, WorkflowStates, Commands
<1>6. CASE e = "PAYMENT_UNKNOWN"
  BY <1>6 DEF SagaTransitions, Rule, WorkflowStates, Commands
<1>7. CASE e = "INVENTORY_RELEASED"
  BY <1>7 DEF SagaTransitions, Rule, WorkflowStates, Commands
<1>8. CASE e = "INVENTORY_RELEASE_FAILED"
  BY <1>8 DEF SagaTransitions, Rule, WorkflowStates, Commands
<1>9. CASE e = "NOTIFICATION_FAILED"
  BY <1>9 DEF SagaTransitions, Rule, WorkflowStates, Commands
<1> QED
  BY EventNames, <1>1, <1>2, <1>3, <1>4, <1>5, <1>6, <1>7, <1>8, <1>9

(* The seven payment states. *)
LEMMA PaymentStateNames ==
  PaymentStates =
    {"CREATED", "PROCESSING", "UNKNOWN", "RECONCILING", "SUCCEEDED", "FAILED",
     "CANCELLED"}
BY DEF PaymentStates, PaymentTransitions

-----------------------------------------------------------------------------
(* Bus. *)

(* What a step may do to the message ring: add a row, claim one, let one   *)
(* go, inject a fault.                                                     *)
Sends == outbox' = outbox \/ \E c \in Saga, t \in MessageTypes : Enqueue(c, t)

BusStep ==
  /\ Sends
  /\ inbox' = inbox \/ \E r \in outbox : inbox' = inbox \cup {r}
  /\ retired' = retired \/ \E r \in outbox : retired' = retired \cup {r}
  /\ faults' = faults \/ (faults > 0 /\ faults' = faults - 1)

(* The names a handler may enqueue. *)
LEMMA MessageNames ==
  MessageTypes =
    {"INVENTORY_RESERVED", "PAYMENT_SUCCEEDED", "NOTIFICATION_SENT",
     "INVENTORY_FAILED", "PAYMENT_FAILED", "PAYMENT_UNKNOWN",
     "INVENTORY_RELEASED", "INVENTORY_RELEASE_FAILED", "NOTIFICATION_FAILED",
     "RESERVE_INVENTORY", "RELEASE_INVENTORY", "PROCESS_PAYMENT",
     "SEND_NOTIFICATION"}
BY EventNames DEF MessageTypes, Commands

(* emitSagaEvent and enqueueOutbox add a well-formed row and drop none. *)
LEMMA EnqueueType ==
  ASSUME BusTypeOK, Sends
  PROVE  /\ outbox' \subseteq Row
         /\ IsFiniteSet(outbox')
         /\ outbox \subseteq outbox'
<1>1. CASE outbox' = outbox
  BY <1>1 DEF BusTypeOK
<1>2. ASSUME NEW c \in Saga, NEW t \in MessageTypes, Enqueue(c, t)
      PROVE  /\ outbox' \subseteq Row
             /\ IsFiniteSet(outbox')
             /\ outbox \subseteq outbox'
  <2>1. IsFiniteSet(Sent(c, t))
    BY FS_Subset DEF Sent, BusTypeOK
  <2>2. Cardinality(Sent(c, t)) \in Nat
    BY <2>1, FS_CardinalityType
  <2>3. IsFiniteSet(outbox')
    BY <1>2, FS_AddElement DEF Enqueue, BusTypeOK
  <2> QED
    BY <1>2, <2>2, <2>3 DEF Enqueue, BusTypeOK, Row
<1> QED
  BY <1>1, <1>2 DEF Sends

(* The message ring keeps its types whatever a handler does with it. *)
LEMMA BusType ==
  ASSUME BusTypeOK, BusStep
  PROVE  BusTypeOK'
<1>1. /\ outbox' \subseteq Row
      /\ IsFiniteSet(outbox')
      /\ outbox \subseteq outbox'
  BY EnqueueType DEF BusStep
<1>2. inbox' \subseteq outbox' /\ retired' \subseteq outbox'
  BY <1>1 DEF BusStep, BusTypeOK
<1>3. faults' \in 0..MaxFaults
  BY BusAssumption DEF BusStep, BusTypeOK
<1> QED
  BY <1>1, <1>2, <1>3 DEF BusTypeOK

-----------------------------------------------------------------------------
(* The orchestrator and the notification service. *)

(* createSagaWorkflow keeps the types. *)
LEMMA CheckoutType ==
  ASSUME BusTypeOK, OrchestratorTypeOK, NEW c \in Saga, Checkout(c)
  PROVE  BusTypeOK' /\ OrchestratorTypeOK'
<1>1. BusStep
  BY MessageNames DEF Checkout, BusStep, Sends
<1>2. OrchestratorTypeOK'
  BY DEF Checkout, OrchestratorTypeOK, WorkflowStates
<1> QED
  BY <1>1, <1>2, BusType

(* applySagaEvent keeps the types, whether it accepts the event or not. *)
LEMMA ApplySagaEventType ==
  ASSUME BusTypeOK, OrchestratorTypeOK, NEW r \in outbox, ApplySagaEvent(r)
  PROVE  BusTypeOK' /\ OrchestratorTypeOK'
<1>1. r.corr \in Saga /\ r.type \in SagaEvents
  BY DEF BusTypeOK, Row, ApplySagaEvent
<1>2. CASE Accepts(r.corr, r.type)
  <2> DEFINE rule == SagaTransitions[r.type]
  <2>1. rule.to \in WorkflowStates /\ rule.command \in Commands \cup {""}
    BY <1>1, RuleTypes
  <2>2. /\ wf' = [wf EXCEPT ![r.corr] = rule.to]
        /\ IF rule.command = "" THEN outbox' = outbox
                                ELSE Enqueue(r.corr, rule.command)
        /\ notified' = notified
    BY <1>2 DEF ApplySagaEvent, Advance
  <2> HIDE DEF rule
  <2>3. OrchestratorTypeOK'
    BY <1>1, <2>1, <2>2 DEF OrchestratorTypeOK
  <2>4. Sends
    BY <1>1, <2>1, <2>2 DEF Sends, MessageTypes
  <2> QED
    BY <2>3, <2>4, BusType DEF ApplySagaEvent, WithInbox, BusStep
<1>3. CASE ~ Accepts(r.corr, r.type)
  BY <1>3, BusType
     DEF ApplySagaEvent, WithInbox, BusStep, Sends, OrchestratorTypeOK
<1> QED
  BY <1>2, <1>3

(* The notification handler keeps the types. *)
LEMMA NotifyType ==
  ASSUME BusTypeOK, OrchestratorTypeOK, NEW r \in outbox, Notify(r)
  PROVE  BusTypeOK' /\ OrchestratorTypeOK'
<1>1. r.corr \in Saga
  BY DEF BusTypeOK, Row
<1>2. BusStep
  BY <1>1, MessageNames DEF Notify, WithInbox, BusStep, Sends
<1>3. OrchestratorTypeOK'
  BY <1>1 DEF Notify, OrchestratorTypeOK
<1> QED
  BY <1>2, <1>3, BusType

-----------------------------------------------------------------------------
(* The inventory service. *)

(* Numbers: a non-empty set of them has a least element. *)
LEMMA LeastNatural ==
  ASSUME NEW T, T \subseteq Nat, T # {}
  PROVE  \E m \in T : \A n \in T : m <= n
<1> DEFINE Less == {ss \in Nat \X Nat : ss[1] < ss[2]}
<1>1. IsWellFoundedOn(Less, Nat)
  <2>1. OpToRel(<, Nat) = Less
    BY DEF OpToRel
  <2> QED
    BY <2>1, NatLessThanWellFounded
<1>2. PICK m \in T : \A n \in T : <<n, m>> \notin Less
  <2> HIDE DEF Less
  <2> QED
    BY <1>1, WFMin
<1>3. ASSUME NEW n \in T
      PROVE  m <= n
  <2>1. m \in Nat /\ n \in Nat /\ ~ n < m
    BY <1>2
  <2> QED
    BY <2>1
<1> QED
  BY <1>3

(* The running totals of an order, and zero, have a greatest one: a least  *)
(* number of lines without one would be refuted by the line before it.     *)
LEMMA GreatestOfTotals ==
  ASSUME NEW n \in Nat, NEW f \in [1..n -> Int]
  PROVE  LET S == {0} \cup {f[k] : k \in 1..n} IN
         Max(S) \in S /\ \A x \in S : x <= Max(S)
<1> DEFINE Upto(m) == {0} \cup {f[k] : k \in 1..m}
           HasMax(m) == \E x \in Upto(m) : \A y \in Upto(m) : x >= y
           Bad == {m \in 0..n : ~ HasMax(m)}
<1>1. HasMax(n)
  <2>1. SUFFICES ASSUME ~ HasMax(n) PROVE FALSE
    OBVIOUS
  <2>2. PICK m \in Bad : \A k \in Bad : m <= k
    <3>1. Bad \subseteq Nat
      OBVIOUS
    <3>2. n \in Bad
      <4> HIDE DEF HasMax
      <4> QED
        BY <2>1
    <3> HIDE DEF Bad
    <3> QED
      BY <3>1, <3>2, LeastNatural
  <2>3. m # 0
    <3>1. HasMax(0)
      OBVIOUS
    <3> HIDE DEF HasMax
    <3> QED
      BY <3>1
  <2>4. m \in 1..n /\ HasMax(m - 1) /\ ~ HasMax(m)
    <3> HIDE DEF HasMax
    <3> QED
      BY <2>2, <2>3
  <2>5. PICK x \in Upto(m - 1) : \A y \in Upto(m - 1) : x >= y
    BY <2>4
  <2>6. Upto(m) = Upto(m - 1) \cup {f[m]}
    <3>1. 1..m = 1..(m - 1) \cup {m}
      BY <2>4
    <3> QED
      BY <3>1
  <2>7. \A y \in Upto(m) : y \in Int
    BY <2>4
  <2>8. f[m] \in Int /\ x \in Int
    BY <2>6, <2>7
  <2>9. CASE x >= f[m]
    <3>1. \A y \in Upto(m) : x >= y
      <4> HIDE DEF Upto
      <4> QED
        BY <2>5, <2>6, <2>9
    <3> QED
      BY <2>4, <2>6, <3>1
  <2>10. CASE ~ x >= f[m]
    <3>1. \A y \in Upto(m) : f[m] >= y
      <4> HIDE DEF Upto
      <4> QED
        BY <2>5, <2>6, <2>7, <2>8, <2>10
    <3> QED
      BY <2>4, <2>6, <3>1
  <2> QED
    BY <2>8, <2>9, <2>10
<1>2. \A x \in Upto(n) : x \in Int
  OBVIOUS
<1>3. /\ Max(Upto(n)) \in Upto(n)
      /\ \A y \in Upto(n) : Max(Upto(n)) >= y
  <2> HIDE DEF Upto
  <2> QED
    BY <1>1 DEF Max
<1> QED
  BY <1>2, <1>3

(* An order has a number of lines, and the first k of them sum up.         *)
LEMMA TakenType ==
  ASSUME NEW c \in Saga, NEW k \in 0..LineCount(c), NEW s \in SKU
  PROVE  Taken(c, k, s) \in Int
<1>1. Demand[c] \in Seq([SKU -> Int])
  BY InventoryAssumption
<1>2. CASE k = 0
  BY <1>2 DEF Taken
<1>3. CASE k # 0
  <2>1. k \in 1..Len(Demand[c])
    BY <1>1, <1>3 DEF LineCount
  <2>2. Demand[c][k] \in [SKU -> Int]
    BY <1>1, <2>1
  <2> QED
    BY <1>3, <2>2 DEF Taken
<1> QED
  BY <1>2, <1>3

LEMMA LineCountType ==
  ASSUME NEW c \in Saga
  PROVE  LineCount(c) \in Nat \ {0} /\ LineCount(c) \in 1..LineCount(c)
<1>1. Demand[c] \in Seq([SKU -> Int]) /\ LineCount(c) > 0
  BY InventoryAssumption
<1>2. LineCount(c) \in Nat
  BY <1>1 DEF LineCount
<1> QED
  BY <1>1, <1>2

(* What the loop of release() cuts off is the greatest excess of what it   *)
(* has given back over what it found set aside, if there ever is one.      *)
LEMMA CutOffGreatest ==
  ASSUME InventoryTypeOK, NEW c \in Saga, NEW s \in SKU
  PROVE  /\ CutOff(c, s) \in Nat
         /\ \A k \in 1..LineCount(c) :
              Taken(c, k, s) - reserved[s] <= CutOff(c, s)
         /\ \/ CutOff(c, s) = 0
            \/ \E k \in 1..LineCount(c) :
                 CutOff(c, s) = Taken(c, k, s) - reserved[s]
<1> DEFINE n == LineCount(c)
           f == [k \in 1..n |-> Taken(c, k, s) - reserved[s]]
           S == {0} \cup {f[k] : k \in 1..n}
<1>1. n \in Nat
  BY LineCountType
<1>2. f \in [1..n -> Int]
  <2>1. ASSUME NEW k \in 1..n
        PROVE  Taken(c, k, s) - reserved[s] \in Int
    <3>1. Taken(c, k, s) \in Int
      BY <1>1, TakenType
    <3> QED
      BY <3>1 DEF InventoryTypeOK
  <2> QED
    BY <2>1
<1>3. CutOff(c, s) = Max(S)
  <2>1. {Taken(c, k, s) - reserved[s] : k \in 1..n} = {f[k] : k \in 1..n}
    OBVIOUS
  <2> QED
    BY <2>1 DEF CutOff
<1>4. Max(S) \in S /\ \A x \in S : x <= Max(S)
  <2> HIDE DEF n, f
  <2> QED
    BY <1>1, <1>2, GreatestOfTotals
<1>5. S \subseteq Int
  <2> HIDE DEF n, f
  <2> QED
    BY <1>2
<1> HIDE DEF S
<1>6. 0 \in S /\ \A k \in 1..n : Taken(c, k, s) - reserved[s] \in S
  BY DEF S
<1>7. Max(S) \in Int /\ 0 <= Max(S)
  BY <1>4, <1>5, <1>6
<1>8. \/ Max(S) = 0
      \/ \E k \in 1..n : Max(S) = Taken(c, k, s) - reserved[s]
  BY <1>4 DEF S
<1> QED
  BY <1>3, <1>4, <1>6, <1>7, <1>8

(* The guarded UPDATE and the CHECK of the table: reserve() takes neither   *)
(* column below zero.                                                      *)
LEMMA TakeLinesType ==
  ASSUME InventoryTypeOK, NEW c \in Saga, NEW k \in 0..LineCount(c),
         LinesDone(c, k), TakeLines(c, k)
  PROVE  available' \in [SKU -> Nat] /\ reserved' \in [SKU -> Nat]
<1>1. ASSUME NEW s \in SKU
      PROVE  /\ available[s] - Taken(c, k, s) \in Nat
             /\ reserved[s] + Taken(c, k, s) \in Nat
  <2>1. Taken(c, k, s) \in Int
    BY TakenType
  <2>2. available[s] \in Nat /\ reserved[s] \in Nat
    BY DEF InventoryTypeOK
  <2>3. CASE k = 0
    BY <2>2, <2>3 DEF Taken
  <2>4. CASE k # 0
    <3>1. k \in 1..k
      BY <2>4, LineCountType
    <3>2. Fits(c, k) /\ Allowed(c, k)
      BY <3>1 DEF LinesDone, Through
    <3> QED
      BY <2>1, <2>2, <3>2 DEF Fits, Allowed
  <2> QED
    BY <2>3, <2>4
<1> QED
  BY <1>1 DEF TakeLines

(* The reserve handler keeps the types. *)
LEMMA ReserveType ==
  ASSUME BusTypeOK, InventoryTypeOK, NEW r \in outbox, Reserve(r)
  PROVE  BusTypeOK' /\ InventoryTypeOK'
<1>1. r.corr \in Saga
  BY DEF BusTypeOK, Row
<1>2. CASE reservation[r.corr] # "NONE"
  <2>1. Enqueue(r.corr, "INVENTORY_RESERVED") /\ UNCHANGED stockVars
    BY <1>2 DEF Reserve
  <2>2. BusStep
    BY <1>1, <2>1, MessageNames DEF Reserve, WithInbox, BusStep, Sends
  <2> QED
    BY <2>1, <2>2, BusType DEF InventoryTypeOK, stockVars
<1>3. CASE ~ (reservation[r.corr] # "NONE")
  <2>1. PICK k \in 0..LineCount(r.corr) :
          /\ LinesDone(r.corr, k)
          /\ TakeLines(r.corr, k)
          /\ Enqueue(r.corr, IF k = LineCount(r.corr)
                               THEN "INVENTORY_RESERVED"
                               ELSE "INVENTORY_FAILED")
    BY <1>3 DEF Reserve
  <2>2. reservation' = [reservation EXCEPT ![r.corr] = "RESERVED"]
    BY <1>3 DEF Reserve
  <2>3. Sends
    BY <1>1, <2>1, MessageNames DEF Sends
  <2>4. BusStep
    BY <2>3 DEF Reserve, WithInbox, BusStep
  <2>5. available' \in [SKU -> Nat] /\ reserved' \in [SKU -> Nat]
    BY <1>1, <2>1, TakeLinesType
  <2> QED
    BY <2>2, <2>4, <2>5, BusType DEF InventoryTypeOK
<1> QED
  BY <1>2, <1>3

(* A message that is parked takes its row out of the ring. *)
LEMMA ReserveAbortsType ==
  ASSUME BusTypeOK, InventoryTypeOK, NEW r \in outbox, ReserveAborts(r)
  PROVE  BusTypeOK' /\ InventoryTypeOK'
<1>1. BusStep
  BY DEF ReserveAborts, BusStep, Sends
<1> QED
  BY <1>1, BusType DEF ReserveAborts, InventoryTypeOK, stockVars

(* release() keeps the types: available by its CHECK, and what is set      *)
(* aside by GREATEST.                                                      *)
LEMMA ReleaseType ==
  ASSUME BusTypeOK, InventoryTypeOK, NEW r \in outbox, Release(r)
  PROVE  BusTypeOK' /\ InventoryTypeOK'
<1> DEFINE c == r.corr
<1>1. c \in Saga
  BY DEF BusTypeOK, Row
<1>2. BusStep
  BY <1>1, MessageNames DEF Release, WithInbox, BusStep, Sends
<1>3. CASE MayRelease(c)
  <2>1. Creditable(c) /\ CreditLines(c)
    BY <1>3 DEF Release
  <2>2. ASSUME NEW s \in SKU
        PROVE  /\ available[s] + Taken(c, LineCount(c), s) \in Nat
               /\ reserved[s] - Taken(c, LineCount(c), s) + CutOff(c, s) \in Nat
    <3> DEFINE all == Taken(c, LineCount(c), s)
    <3>1. LineCount(c) \in 1..LineCount(c) /\ LineCount(c) \in 0..LineCount(c)
      BY <1>1, LineCountType
    <3>2. all \in Int
      BY <1>1, <3>1, TakenType
    <3>3. available[s] + all >= 0
      BY <2>1, <3>1 DEF Creditable
    <3>4. CutOff(c, s) \in Nat /\ all - reserved[s] <= CutOff(c, s)
      BY <1>1, <3>1, CutOffGreatest
    <3>5. available[s] \in Nat /\ reserved[s] \in Nat
      BY DEF InventoryTypeOK
    <3> HIDE DEF all
    <3> QED
      BY <3>2, <3>3, <3>4, <3>5 DEF all
  <2>3. available' \in [SKU -> Nat] /\ reserved' \in [SKU -> Nat]
    BY <2>1, <2>2 DEF CreditLines
  <2>4. reservation' \in [Saga -> {"NONE", "RESERVED", "RELEASED"}]
    BY <2>1 DEF CreditLines, InventoryTypeOK
  <2> QED
    BY <1>2, <2>3, <2>4, BusType DEF InventoryTypeOK
<1>4. CASE ~ MayRelease(c)
  BY <1>2, <1>4, BusType DEF Release, InventoryTypeOK, stockVars
<1> QED
  BY <1>3, <1>4

(* So does a release whose every delivery failed, acked or not. *)
LEMMA ReleaseFailsType ==
  ASSUME BusTypeOK, InventoryTypeOK, NEW r \in outbox,
         ReleaseExhausted(r) \/ ReleaseExhaustedUnacked(r)
  PROVE  BusTypeOK' /\ InventoryTypeOK'
<1>1. r.corr \in Saga
  BY DEF BusTypeOK, Row
<1>2. ReleaseFails(r)
  BY DEF ReleaseExhausted, ReleaseExhaustedUnacked
<1>3. Sends
  BY <1>1, <1>2, MessageNames DEF ReleaseFails, Sends
<1>4. BusStep
  BY <1>2, <1>3
     DEF ReleaseFails, ReleaseExhausted, ReleaseExhaustedUnacked, Fault,
         BusStep
<1> QED
  BY <1>2, <1>4, BusType DEF ReleaseFails, InventoryTypeOK, stockVars

-----------------------------------------------------------------------------
(* The provider and the exchanges with it. *)

(* A slot in use: what the types say of it beyond membership in Call. *)
SlotTypeOK(x) ==
  /\ x \in Call
  /\ x # NoCall => x.corr \in Saga
  /\ x.client # "idle" => x.attempt \in Attempts

CallTypeOK == call \in [Slot -> Call] /\ \A k \in Slot : SlotTypeOK(call[k])

(* The types of the worker and the provider, with those of the exchanges   *)
(* slot by slot.                                                           *)
LEMMA PaymentTypes ==
  /\ PaymentTypeOK <=> /\ ledger \in [Saga -> {"NONE", "APPROVED", "DECLINED"}]
                       /\ CallTypeOK
                       /\ payment \in [Saga -> PaymentStates \cup {"NONE"}]
                       /\ copies \in [Saga -> [Attempts -> Nat]]
  /\ PaymentTypeOK' <=>
       /\ ledger' \in [Saga -> {"NONE", "APPROVED", "DECLINED"}]
       /\ CallTypeOK'
       /\ payment' \in [Saga -> PaymentStates \cup {"NONE"}]
       /\ copies' \in [Saga -> [Attempts -> Nat]]
BY DEF PaymentTypeOK, ProviderTypeOK, CallTypeOK, SlotTypeOK

(* A step that changes one slot keeps the types if the new slot has them. *)
LEMMA SlotChange ==
  ASSUME CallTypeOK, NEW k \in Slot, NEW x, SlotTypeOK(x),
         call' = [call EXCEPT ![k] = x]
  PROVE  CallTypeOK'
<1>1. ASSUME NEW j \in Slot PROVE SlotTypeOK(call'[j])
  BY DEF CallTypeOK
<1> QED
  BY <1>1 DEF SlotTypeOK, CallTypeOK

(* So do new states for the two sides of a slot in use. *)
LEMMA SetSidesType ==
  ASSUME CallTypeOK, NEW k \in Slot, NEW client \in ClientStates,
         NEW server \in {"none", "arriving", "deciding"},
         client # "idle" => call[k].client # "idle",
         call[k] # NoCall, SetSides(k, client, server)
  PROVE  CallTypeOK'
<1> DEFINE x == [call[k] EXCEPT !.client = client, !.server = server]
           y == IF client = "idle" /\ server = "none" THEN NoCall ELSE x
<1>1. SlotTypeOK(call[k])
  BY DEF CallTypeOK
<1>2. SlotTypeOK(x)
  BY <1>1 DEF SlotTypeOK, Call
<1>3. SlotTypeOK(NoCall)
  BY DEF SlotTypeOK, Call, NoCall, ClientStates
<1>4. call' = [call EXCEPT ![k] = y]
  BY DEF SetSides
<1> HIDE DEF x
<1>5. SlotTypeOK(y)
  BY <1>2, <1>3
<1> HIDE DEF y
<1> QED
  BY <1>4, <1>5, SlotChange

(* In particular a client's next state, ... *)
LEMMA SetClientType ==
  ASSUME CallTypeOK, NEW k \in Slot, NEW state \in ClientStates,
         call[k].client # "idle", SetClient(k, state)
  PROVE  CallTypeOK'
<1>1. SlotTypeOK(call[k])
  BY DEF CallTypeOK
<1>2. call[k].server \in {"none", "arriving", "deciding"}
  BY <1>1 DEF SlotTypeOK, Call
<1>3. call[k] # NoCall
  BY DEF NoCall
<1> QED
  BY <1>2, <1>3, SetSidesType DEF SetClient

(* ... and the end of the request at the provider. *)
LEMMA ReplyType ==
  ASSUME CallTypeOK, NEW k \in Slot, NEW o \in Outcomes \cup {"none"},
         call[k].server # "none", Reply(k, o)
  PROVE  CallTypeOK'
<1> DEFINE y == IF call[k].client = "charging" /\ o # "none"
                  THEN o ELSE call[k].client
<1>1. SlotTypeOK(call[k])
  BY DEF CallTypeOK
<1>2. y \in ClientStates /\ (y # "idle" => call[k].client # "idle")
  BY <1>1 DEF SlotTypeOK, Call, ClientStates
<1>3. call[k] # NoCall
  BY DEF NoCall
<1>4. SetSides(k, y, "none")
  BY DEF Reply
<1> HIDE DEF y
<1> QED
  BY <1>2, <1>3, <1>4, SetSidesType

(* An exchange with the provider, and the step of it, keeps the types. *)
LEMMA ProviderServesType ==
  ASSUME PaymentTypeOK, NEW k \in Slot, ProviderServes(k)
  PROVE  CallTypeOK' /\ ledger' \in [Saga -> {"NONE", "APPROVED", "DECLINED"}]
<1> USE PaymentTypes
<1>1. CallTypeOK /\ ledger \in [Saga -> {"NONE", "APPROVED", "DECLINED"}]
  OBVIOUS
<1>2. CASE ReplayCharge(k)
  <2>1. LedgerOutcome(call[k].corr) \in Outcomes
    BY DEF LedgerOutcome, Outcomes
  <2> QED
    BY <1>1, <1>2, <2>1, ReplyType DEF ReplayCharge
<1>3. CASE AcceptCharge(k)
  <2>1. SlotTypeOK(call[k]) /\ call[k] # NoCall
    BY <1>1, <1>3 DEF AcceptCharge, CallTypeOK, NoCall
  <2>2. SlotTypeOK([call[k] EXCEPT !.server = "deciding"])
    BY <2>1 DEF SlotTypeOK, Call
  <2>3. call' = [call EXCEPT ![k] = [call[k] EXCEPT !.server = "deciding"]]
    BY <1>3 DEF AcceptCharge
  <2> QED
    BY <1>1, <1>3, <2>2, <2>3, SlotChange DEF AcceptCharge
<1>4. ASSUME NEW mode \in AllModes, DecideCharge(k, mode)
      PROVE  CallTypeOK' /\ ledger' \in [Saga -> {"NONE", "APPROVED", "DECLINED"}]
  <2>1. Answer(mode) \in Outcomes \cup {"none"}
    BY DEF Answer, Outcomes, AllModes
  <2>2. CallTypeOK'
    BY <1>1, <1>4, <2>1, ReplyType DEF DecideCharge
  <2>3. Recorded(mode) \in {"NONE", "APPROVED", "DECLINED"}
    BY DEF Recorded, AllModes
  <2> QED
    BY <1>1, <1>4, <2>2, <2>3 DEF DecideCharge, RecordTransaction
<1> QED
  BY <1>2, <1>3, <1>4 DEF ProviderServes

LEMMA ProviderType ==
  ASSUME BusTypeOK, PaymentTypeOK, UNCHANGED <<payment, copies>>,
         ProviderStep \/ ProviderFault
  PROVE  BusTypeOK' /\ PaymentTypeOK'
<1> USE PaymentTypes
<1>1. ASSUME NEW k \in Slot, ProviderServes(k), UNCHANGED busVars
      PROVE  BusTypeOK' /\ PaymentTypeOK'
  BY <1>1, ProviderServesType, BusType DEF BusStep, Sends, busVars
<1>2. ASSUME NEW k \in Slot, ClientTimeout(k) \/ ConnectionReset(k),
             UNCHANGED busVars
      PROVE  BusTypeOK' /\ PaymentTypeOK'
  <2>1. CallTypeOK'
    BY <1>2, SetClientType
       DEF ClientTimeout, ConnectionReset, ClientStates, Outcomes
  <2> QED
    BY <1>2, <2>1, BusType
       DEF ClientTimeout, ConnectionReset, BusStep, Sends, busVars
<1>3. ASSUME NEW k \in Slot, ConnectionRefused(k)
      PROVE  BusTypeOK' /\ PaymentTypeOK'
  <2>1. CallTypeOK'
    BY <1>3, ReplyType DEF ConnectionRefused, Outcomes
  <2> QED
    BY <1>3, <2>1, BusType DEF ConnectionRefused, BusStep, Sends, Fault
<1> QED
  BY <1>1, <1>2, <1>3 DEF ProviderStep, ProviderFault

-----------------------------------------------------------------------------
(* The payment worker. *)

(* Counting a message in or out of the queue keeps the counts natural. *)
LEMMA CopiesType ==
  ASSUME copies \in [Saga -> [Attempts -> Nat]], NEW c \in Saga, NEW a,
         AddCopy(c, a) \/ (a \in Attempts /\ RemoveCopy(c, a)) \/ UNCHANGED copies
  PROVE  copies' \in [Saga -> [Attempts -> Nat]]
<1>1. CASE AddCopy(c, a)
  <2> DEFINE row == [copies[c] EXCEPT ![a] = copies[c][a] + 1]
  <2>1. copies' = [copies EXCEPT ![c] = row]
    BY <1>1 DEF AddCopy
  <2>2. copies[c] \in [Attempts -> Nat]
    OBVIOUS
  <2>3. ASSUME NEW b \in Attempts PROVE row[b] \in Nat
    BY <2>2
  <2>4. row \in [Attempts -> Nat]
    BY <2>2, <2>3
  <2> HIDE DEF row
  <2> QED
    BY <2>1, <2>4
<1>2. CASE a \in Attempts /\ RemoveCopy(c, a)
  <2>1. copies[c][a] \in Nat /\ copies[c][a] > 0
    BY <1>2 DEF RemoveCopy
  <2>2. copies[c][a] - 1 \in Nat
    BY <2>1
  <2> QED
    BY <1>2, <2>2 DEF RemoveCopy
<1> QED
  BY <1>1, <1>2

(* The relay's publication keeps the types. *)
LEMMA PublishType ==
  ASSUME BusTypeOK, PaymentTypeOK, NEW r \in outbox,
         PublishOnce(r) \/ PublishUncommitted(r)
  PROVE  BusTypeOK' /\ PaymentTypeOK'
<1>1. Publish(r)
  BY DEF PublishOnce, PublishUncommitted
<1>2. r.corr \in Saga
  BY DEF BusTypeOK, Row
<1>3. copies' \in [Saga -> [Attempts -> Nat]]
  BY <1>1, <1>2, CopiesType DEF Publish, PaymentTypeOK
<1>4. BusStep
  BY <1>1 DEF Publish, PublishOnce, PublishUncommitted, Fault, BusStep, Sends
<1>5. CallTypeOK'
  BY <1>1, PaymentTypes DEF Publish, CallTypeOK
<1> QED
  BY <1>1, <1>3, <1>4, <1>5, BusType, PaymentTypes DEF Publish

(* Phase 1 keeps the types. *)
LEMMA DeliverType ==
  ASSUME BusTypeOK, PaymentTypeOK,
         NEW k \in Slot, NEW c \in Saga, NEW a \in Attempts,
         DeliverFinished(k, c, a) \/ DeliverUnknown(k, c, a)
           \/ DeliverCharge(k, c, a)
  PROVE  BusTypeOK' /\ PaymentTypeOK'
<1>1. PICK client \in {"acking", "charging"}, server \in {"none", "arriving"} :
        Deliver(k, c, a, client, server)
  BY DEF DeliverFinished, DeliverUnknown, DeliverCharge
<1> DEFINE x == [corr |-> c, attempt |-> a, client |-> client,
                 server |-> server, owned |-> TRUE]
<1>2. a \in Nat
  BY WorkerAssumption DEF Attempts
<1>3. SlotTypeOK(x)
  BY <1>2 DEF SlotTypeOK, Call, ClientStates
<1>4. call' = [call EXCEPT ![k] = x]
  BY <1>1 DEF Deliver
<1> HIDE DEF x
<1>5. CallTypeOK'
  BY <1>3, <1>4, SlotChange, PaymentTypes
<1>6. copies' \in [Saga -> [Attempts -> Nat]]
  BY <1>1, CopiesType DEF Deliver, PaymentTypeOK
<1>7. payment' \in [Saga -> PaymentStates \cup {"NONE"}]
  BY PaymentStateNames
     DEF DeliverFinished, DeliverUnknown, DeliverCharge, PaymentTypeOK
<1>8. Sends
  BY MessageNames DEF DeliverFinished, DeliverUnknown, DeliverCharge, Sends
<1>9. BusStep /\ UNCHANGED ledger
  BY <1>1, <1>8 DEF Deliver, BusStep
<1> QED
  BY <1>5, <1>6, <1>7, <1>9, BusType, PaymentTypes

(* A guarded UPDATE keeps the types. *)
LEMMA TransitionType ==
  ASSUME payment \in [Saga -> PaymentStates \cup {"NONE"}],
         NEW c, NEW from, NEW to \in PaymentStates, Transition(c, from, to)
  PROVE  payment' \in [Saga -> PaymentStates \cup {"NONE"}]
BY DEF Transition

(* Phase 3 keeps the types. *)
LEMMA HandlerType ==
  ASSUME BusTypeOK, PaymentTypeOK, NEW k \in Slot, HandlerStep(k)
  PROVE  BusTypeOK' /\ PaymentTypeOK'
<1> USE PaymentTypes
<1>1. ASSUME NEW to \in {"SUCCEEDED", "UNKNOWN", "FAILED"},
             NEW event \in {"PAYMENT_SUCCEEDED", "PAYMENT_UNKNOWN",
                            "PAYMENT_FAILED"},
             call[k].client \in {"approved", "unknown", "declined", "transient"},
             Finalize(k, to, event)
      PROVE  BusTypeOK' /\ PaymentTypeOK'
  <2>1. CallTypeOK'
    BY <1>1, SetClientType DEF Finalize, Commit, ClientStates
  <2>2. payment' \in [Saga -> PaymentStates \cup {"NONE"}]
    BY <1>1, TransitionType, PaymentStateNames DEF Finalize
  <2>3. call[k].corr \in Saga
    <3>1. call[k] # NoCall
      BY <1>1 DEF NoCall
    <3> QED
      BY <3>1 DEF CallTypeOK, SlotTypeOK
  <2>4. BusStep
    BY <1>1, <2>3, MessageNames DEF Finalize, Commit, BusStep, Sends
  <2> QED
    BY <1>1, <2>1, <2>2, <2>4, BusType DEF Finalize, Commit
<1>2. CASE FinishApproved(k)
  BY <1>1, <1>2 DEF FinishApproved
<1>3. CASE FinishUnknown(k)
  BY <1>1, <1>3 DEF FinishUnknown
<1>4. CASE FinishFailed(k)
  BY <1>1, <1>4 DEF FinishFailed
<1>5. CASE RollBack(k)
  <2>1. CallTypeOK'
    BY <1>5, SetClientType DEF RollBack, Commit, ClientStates
  <2>2. payment' \in [Saga -> PaymentStates \cup {"NONE"}]
    BY <1>5, TransitionType, PaymentStateNames DEF RollBack
  <2> QED
    BY <1>5, <2>1, <2>2, BusType DEF RollBack, Commit, BusStep, Sends
<1>6. CASE Ack(k)
  <2>1. CallTypeOK'
    BY <1>6, SetClientType DEF Ack, ClientStates
  <2>2. call[k].corr \in Saga
    <3>1. call[k] # NoCall
      BY <1>6 DEF Ack, NoCall
    <3> QED
      BY <3>1 DEF CallTypeOK, SlotTypeOK
  <2>3. copies' \in [Saga -> [Attempts -> Nat]]
    BY <1>6, <2>2, CopiesType DEF Ack
  <2> QED
    BY <1>6, <2>1, <2>3, BusType DEF Ack, BusStep, Sends, busVars
<1> QED
  BY <1>2, <1>3, <1>4, <1>5, <1>6 DEF HandlerStep

(* Crashes, lost channels and parked messages keep the types. *)
LEMMA WorkerFaultType ==
  ASSUME BusTypeOK, PaymentTypeOK, NEW k \in Slot,
         WorkerCrash(k) \/ ChannelLost(k) \/ CommitParked(k)
  PROVE  BusTypeOK' /\ PaymentTypeOK'
<1> USE PaymentTypes
<1>1. SlotTypeOK(call[k])
  BY DEF CallTypeOK
<1>2. call[k].client # "idle" /\ call[k] # NoCall
  BY DEF WorkerCrash, ChannelLost, CommitParked, Outcomes, NoCall
<1>3. call[k].corr \in Saga /\ call[k].attempt \in Attempts
  BY <1>1, <1>2 DEF SlotTypeOK
<1>4. BusStep /\ UNCHANGED <<ledger, payment>>
  BY DEF WorkerCrash, ChannelLost, CommitParked, Fault, BusStep, Sends
<1>5. copies' \in [Saga -> [Attempts -> Nat]]
  BY <1>3, CopiesType DEF WorkerCrash, ChannelLost, CommitParked, Redeliver
<1>6. CallTypeOK'
  <2>1. CASE WorkerCrash(k) \/ CommitParked(k)
    BY <1>2, <2>1, SetClientType DEF WorkerCrash, CommitParked, ClientStates
  <2>2. CASE ChannelLost(k)
    <3>1. SlotTypeOK([call[k] EXCEPT !.owned = FALSE])
      BY <1>1, <1>2 DEF SlotTypeOK, Call
    <3>2. call' = [call EXCEPT ![k] = [call[k] EXCEPT !.owned = FALSE]]
      BY <2>2 DEF ChannelLost
    <3> QED
      BY <3>1, <3>2, SlotChange
  <2> QED
    BY <2>1, <2>2
<1> QED
  BY <1>4, <1>5, <1>6, BusType

(* So does a claim whose transaction failed. *)
LEMMA ClaimParkedType ==
  ASSUME BusTypeOK, PaymentTypeOK, NEW c \in Saga, NEW a \in Attempts,
         ClaimParked(c, a)
  PROVE  BusTypeOK' /\ PaymentTypeOK'
<1>1. BusStep
  BY DEF ClaimParked, Fault, BusStep, Sends
<1>2. copies' \in [Saga -> [Attempts -> Nat]]
  BY CopiesType DEF ClaimParked, PaymentTypeOK
<1> QED
  BY <1>1, <1>2, BusType, PaymentTypes DEF ClaimParked, CallTypeOK

-----------------------------------------------------------------------------
(* The recovery jobs. *)

(* Reading a batch keeps the types of the jobs. *)
LEMMA SelectType ==
  ASSUME ReconcilerTypeOK, NEW job \in {"reconcile", "sweep", "compensate"},
         NEW eligible \in SUBSET Candidate, Select(job, eligible),
         job = "sweep" => \A x \in eligible : x.seen \in DOMAIN SweptTo
  PROVE  ReconcilerTypeOK'
BY DEF Select, ReconcilerTypeOK, Tasks

(* So does handling a candidate, at once or in two transactions. *)
LEMMA HandledType ==
  ASSUME ReconcilerTypeOK, NEW x \in batch,
         task \in {"reconcile", "sweep", "compensate"},
         \/ Handled(task, x)
         \/ task = "reconcile" /\ Continue("lookup", x)
         \/ task = "sweep" /\ Continue("mark", x)
  PROVE  /\ task' \in Tasks
         /\ subject' \in Saga \cup {NoSaga}
         /\ batch' \subseteq Candidate
         /\ task' \in {"lookup", "charged", "uncharged", "mark"}
              => subject' \in Saga
         /\ task' \in {"sweep", "mark"}
              => \A y \in batch' : y.seen \in DOMAIN SweptTo
<1>1. x.corr \in Saga
  BY DEF ReconcilerTypeOK, Candidate
<1> QED
  BY <1>1 DEF Handled, Continue, Unfinished, ReconcilerTypeOK, Tasks

(* reconcileUnknownPayments keeps the types. *)
LEMMA ReconcileType ==
  ASSUME BusTypeOK, OrchestratorTypeOK, PaymentTypeOK, ReconcilerTypeOK,
         UNCHANGED <<inbox, retired, faults>>,
         SelectUnknown \/ Lookup \/ Resolve \/ \E x \in batch : ClaimUnknown(x)
  PROVE  BusStep /\ ReconcilerTypeOK' /\ UNCHANGED wf
         /\ payment' \in [Saga -> PaymentStates \cup {"NONE"}]
<1> USE PaymentTypes, PaymentStateNames
<1>1. CASE SelectUnknown
  <2> DEFINE eligible == {[corr |-> c, seen |-> "UNKNOWN", attempts |-> 0] :
                            c \in {d \in Saga : payment[d] = "UNKNOWN"}}
  <2>1. eligible \in SUBSET Candidate
    BY DEF Candidate
  <2>2. Select("reconcile", eligible)
    BY <1>1 DEF SelectUnknown
  <2> HIDE DEF eligible
  <2>3. ReconcilerTypeOK'
    BY <2>1, <2>2, SelectType
  <2> QED
    BY <1>1, <2>3 DEF SelectUnknown, BusStep, Sends
<1>2. CASE Lookup
  BY <1>2 DEF Lookup, ReconcilerTypeOK, Tasks, BusStep, Sends
<1>3. CASE Resolve
  <2>1. subject \in Saga
    BY <1>3 DEF Resolve, ReconcilerTypeOK
  <2>2. payment' \in [Saga -> PaymentStates \cup {"NONE"}]
    BY <1>3, TransitionType DEF Resolve
  <2>3. Sends
    BY <1>3, <2>1, MessageNames DEF Resolve, Sends
  <2>4. ReconcilerTypeOK'
    BY <1>3 DEF Resolve, Resume, Unfinished, ReconcilerTypeOK, Tasks
  <2> QED
    BY <1>3, <2>2, <2>3, <2>4 DEF Resolve, BusStep
<1>4. ASSUME NEW x \in batch, ClaimUnknown(x)
      PROVE  BusStep /\ ReconcilerTypeOK' /\ UNCHANGED wf
             /\ payment' \in [Saga -> PaymentStates \cup {"NONE"}]
  <2>1. payment' \in [Saga -> PaymentStates \cup {"NONE"}]
    BY <1>4, TransitionType DEF ClaimUnknown
  <2>2. ReconcilerTypeOK'
    BY <1>4, HandledType DEF ClaimUnknown, ReconcilerTypeOK
  <2> QED
    BY <1>4, <2>1, <2>2 DEF ClaimUnknown, BusStep, Sends
<1> QED
  BY <1>1, <1>2, <1>3, <1>4

(* forceState moves a workflow to a state of the table. *)
LEMMA ForceStateType ==
  ASSUME OrchestratorTypeOK, NEW c, NEW from, NEW to \in WorkflowStates,
         ForceState(c, from, to)
  PROVE  wf' \in [Saga -> WorkflowStates \cup {"NONE"}]
BY DEF ForceState, OrchestratorTypeOK

(* sweepStuckWorkflows keeps the types. *)
LEMMA SweepType ==
  ASSUME BusTypeOK, OrchestratorTypeOK, PaymentTypeOK, ReconcilerTypeOK,
         UNCHANGED <<inbox, retired, faults>>,
         SelectStuck \/ MarkPaymentUnknown \/ \E x \in batch : Sweep(x)
  PROVE  BusStep /\ ReconcilerTypeOK'
         /\ wf' \in [Saga -> WorkflowStates \cup {"NONE"}]
         /\ payment' \in [Saga -> PaymentStates \cup {"NONE"}]
<1> USE PaymentTypes, PaymentStateNames
<1>1. CASE SelectStuck
  <2> DEFINE eligible ==
        {[corr |-> c, seen |-> wf[c], attempts |-> 0] :
           c \in {d \in Saga : wf[d] \in SlowSteps \cap DOMAIN SweptTo}}
  <2>1. eligible \in SUBSET Candidate
    BY ReconcilerAssumption DEF Candidate
  <2>2. Select("sweep", eligible)
    BY <1>1 DEF SelectStuck
  <2>3. \A x \in eligible : x.seen \in DOMAIN SweptTo
    OBVIOUS
  <2> HIDE DEF eligible
  <2>4. ReconcilerTypeOK'
    BY <2>1, <2>2, <2>3, SelectType
  <2> QED
    BY <1>1, <2>4 DEF SelectStuck, OrchestratorTypeOK, BusStep, Sends
<1>2. CASE MarkPaymentUnknown
  <2>1. payment' \in [Saga -> PaymentStates \cup {"NONE"}]
    BY <1>2, TransitionType DEF MarkPaymentUnknown
  <2>2. ReconcilerTypeOK'
    BY <1>2 DEF MarkPaymentUnknown, Resume, Unfinished, ReconcilerTypeOK, Tasks
  <2> QED
    BY <1>2, <2>1, <2>2
       DEF MarkPaymentUnknown, OrchestratorTypeOK, BusStep, Sends
<1>3. ASSUME NEW x \in batch, Sweep(x)
      PROVE  BusStep /\ ReconcilerTypeOK'
             /\ wf' \in [Saga -> WorkflowStates \cup {"NONE"}]
             /\ payment' \in [Saga -> PaymentStates \cup {"NONE"}]
  <2>1. x.seen \in DOMAIN SweptTo
    BY <1>3 DEF Sweep, ReconcilerTypeOK
  <2>2. SweptTo[x.seen] \in WorkflowStates
    BY <2>1 DEF SweptTo, WorkflowStates
  <2>3. wf' \in [Saga -> WorkflowStates \cup {"NONE"}]
    BY <1>3, <2>2, ForceStateType DEF Sweep
  <2>4. ReconcilerTypeOK'
    BY <1>3, HandledType DEF Sweep, ReconcilerTypeOK
  <2> QED
    BY <1>3, <2>3, <2>4 DEF Sweep, BusStep, Sends
<1> QED
  BY <1>1, <1>2, <1>3

(* retryFailedCompensation keeps the types. *)
LEMMA CompensateType ==
  ASSUME BusTypeOK, OrchestratorTypeOK, PaymentTypeOK, ReconcilerTypeOK,
         UNCHANGED <<inbox, retired, faults>>,
         SelectCompensating \/ \E x \in batch : GiveUp(x) \/ RetryCompensation(x)
  PROVE  BusStep /\ ReconcilerTypeOK' /\ UNCHANGED payment
         /\ wf' \in [Saga -> WorkflowStates \cup {"NONE"}]
<1>1. CASE SelectCompensating
  <2> DEFINE eligible ==
        {[corr |-> c, seen |-> wf[c], attempts |-> compAttempts[c]] :
           c \in {d \in Saga : wf[d] \in {"COMPENSATING_INVENTORY"}
                                          \cap SlowSteps}}
  <2>1. eligible \in SUBSET Candidate
    BY ReconcilerAssumption DEF Candidate, ReconcilerTypeOK
  <2>2. Select("compensate", eligible)
    BY <1>1 DEF SelectCompensating
  <2> HIDE DEF eligible
  <2>3. ReconcilerTypeOK'
    BY <2>1, <2>2, SelectType
  <2> QED
    BY <1>1, <2>3 DEF SelectCompensating, OrchestratorTypeOK, BusStep, Sends
<1>2. ASSUME NEW x \in batch, GiveUp(x)
      PROVE  BusStep /\ ReconcilerTypeOK' /\ UNCHANGED payment
             /\ wf' \in [Saga -> WorkflowStates \cup {"NONE"}]
  <2>1. wf' \in [Saga -> WorkflowStates \cup {"NONE"}]
    BY <1>2, ForceStateType DEF GiveUp, WorkflowStates
  <2>2. ReconcilerTypeOK'
    BY <1>2, HandledType DEF GiveUp, ReconcilerTypeOK
  <2> QED
    BY <1>2, <2>1, <2>2 DEF GiveUp, BusStep, Sends
<1>3. ASSUME NEW x \in batch, RetryCompensation(x)
      PROVE  BusStep /\ ReconcilerTypeOK' /\ UNCHANGED payment
             /\ wf' \in [Saga -> WorkflowStates \cup {"NONE"}]
  <2>1. x.corr \in Saga
    BY DEF ReconcilerTypeOK, Candidate
  <2>2. Sends
    BY <1>3, <2>1, MessageNames DEF RetryCompensation, Sends
  <2>3. compAttempts' \in [Saga -> Nat]
    BY <1>3, <2>1 DEF RetryCompensation, ReconcilerTypeOK
  <2>4. ReconcilerTypeOK'
    BY <1>3, <2>3, HandledType DEF RetryCompensation, ReconcilerTypeOK
  <2> QED
    BY <1>3, <2>2, <2>4 DEF RetryCompensation, BusStep, OrchestratorTypeOK
<1> QED
  BY <1>1, <1>2, <1>3

(* A failed lookup and a tick cut short keep the types. *)
LEMMA JobFaultType ==
  ASSUME BusTypeOK, PaymentTypeOK, ReconcilerTypeOK, JobFault
  PROVE  BusStep /\ ReconcilerTypeOK' /\ UNCHANGED wf
         /\ payment' \in [Saga -> PaymentStates \cup {"NONE"}]
<1> USE PaymentTypes, PaymentStateNames
<1>1. CASE LookupFails
  <2>1. payment' \in [Saga -> PaymentStates \cup {"NONE"}]
    BY <1>1, TransitionType DEF LookupFails
  <2>2. ReconcilerTypeOK'
    BY <1>1 DEF LookupFails, Resume, Unfinished, ReconcilerTypeOK, Tasks
  <2> QED
    BY <1>1, <2>1, <2>2 DEF LookupFails, Fault, BusStep, Sends
<1>2. CASE TickDies
  BY <1>2 DEF TickDies, ReconcilerTypeOK, Tasks, Fault, BusStep, Sends
<1> QED
  BY <1>1, <1>2 DEF JobFault

-----------------------------------------------------------------------------
(* The whole. *)

(* Every checkout starts from well-typed rows. *)
LEMMA InitType == Init => TypeOK
<1> SUFFICES ASSUME Init PROVE TypeOK
  OBVIOUS
<1>1. BusTypeOK
  BY FS_EmptySet, BusAssumption DEF Init, BusInit, BusTypeOK
<1>2. OrchestratorTypeOK
  BY DEF Init, OrchestratorInit, OrchestratorTypeOK
<1>3. InventoryTypeOK
  BY InventoryAssumption DEF Init, InventoryInit, InventoryTypeOK
<1>4. PaymentTypeOK
  <2>1. SlotTypeOK(NoCall)
    BY DEF SlotTypeOK, NoCall, Call, ClientStates
  <2>2. CallTypeOK
    BY <2>1 DEF Init, PaymentInit, ProviderInit, CallTypeOK, SlotTypeOK
  <2> QED
    BY <2>2, PaymentTypes DEF Init, PaymentInit, ProviderInit
<1>5. ReconcilerTypeOK
  BY DEF Init, ReconcilerInit, ReconcilerTypeOK, Tasks
<1> QED
  BY <1>1, <1>2, <1>3, <1>4, <1>5 DEF TypeOK

(* A component whose variables do not change keeps its types. *)
LEMMA UnchangedTypes ==
  /\ OrchestratorTypeOK /\ UNCHANGED <<wf, notified>> => OrchestratorTypeOK'
  /\ InventoryTypeOK /\ UNCHANGED stockVars => InventoryTypeOK'
  /\ PaymentTypeOK /\ UNCHANGED paymentVars => PaymentTypeOK'
  /\ ReconcilerTypeOK /\ UNCHANGED <<compAttempts, jobVars>>
       => ReconcilerTypeOK'
<1>1. PaymentTypeOK /\ UNCHANGED paymentVars => PaymentTypeOK'
  BY DEF PaymentTypeOK, ProviderTypeOK, paymentVars
<1> QED
  BY <1>1 DEF OrchestratorTypeOK, InventoryTypeOK, stockVars,
              ReconcilerTypeOK, jobVars

(* Every step keeps the types. *)
LEMMA NextType == TypeOK /\ [Next]_vars => TypeOK'
<1> SUFFICES ASSUME TypeOK, [Next]_vars PROVE TypeOK'
  OBVIOUS
<1> USE UnchangedTypes DEF TypeOK
<1>1. CASE API
  <2>1. PICK c \in Saga : Checkout(c)
    BY <1>1 DEF API
  <2> QED
    BY <1>1, <2>1, CheckoutType DEF API
<1>2. CASE Orchestration
  <2>1. PICK r \in outbox : ApplySagaEvent(r) \/ Notify(r)
    BY <1>2 DEF Orchestration, OrchestratorStep, NotificationStep
  <2> QED
    BY <1>2, <2>1, ApplySagaEventType, NotifyType DEF Orchestration
<1>3. CASE Inventory
  <2>1. PICK r \in outbox : \/ Reserve(r) \/ ReserveAborts(r)
                            \/ Release(r) \/ ReleaseExhausted(r)
    BY <1>3 DEF Inventory, InventoryStep
  <2> QED
    BY <1>3, <2>1, ReserveType, ReserveAbortsType, ReleaseType, ReleaseFailsType
       DEF Inventory
<1>4. CASE Payments
  <2>1. BusTypeOK' /\ PaymentTypeOK'
    BY <1>4, PublishType, DeliverType, HandlerType
       DEF Payments, WorkerStep, RelayStep, DeliverStep
  <2> QED
    BY <1>4, <2>1 DEF Payments
<1>5. CASE Exchanges
  BY <1>5, ProviderType DEF Exchanges
<1>6. ASSUME BusStep, ReconcilerTypeOK',
             wf' \in [Saga -> WorkflowStates \cup {"NONE"}],
             payment' \in [Saga -> PaymentStates \cup {"NONE"}],
             UNCHANGED <<notified, stockVars, ledger, call, copies>>
      PROVE  TypeOK'
  <2>1. PaymentTypeOK'
    BY <1>6, PaymentTypes DEF CallTypeOK
  <2> QED
    BY <1>6, <2>1, BusType DEF OrchestratorTypeOK
<1>7. wf \in [Saga -> WorkflowStates \cup {"NONE"}]
      /\ payment \in [Saga -> PaymentStates \cup {"NONE"}]
  BY DEF OrchestratorTypeOK, PaymentTypeOK
<1>8. CASE Recovery
  <2>1. UNCHANGED <<notified, stockVars, ledger, call, copies>>
        /\ UNCHANGED <<inbox, retired, faults>>
    BY <1>8 DEF Recovery, JobStep
  <2>2. CASE SelectUnknown \/ Lookup \/ Resolve
              \/ \E x \in batch : ClaimUnknown(x)
    BY <1>6, <1>7, <2>1, <2>2, ReconcileType
  <2>3. CASE SelectStuck \/ MarkPaymentUnknown \/ \E x \in batch : Sweep(x)
    BY <1>6, <1>7, <2>1, <2>3, SweepType
  <2>4. CASE SelectCompensating
              \/ \E x \in batch : GiveUp(x) \/ RetryCompensation(x)
    BY <1>6, <1>7, <2>1, <2>4, CompensateType
  <2> QED
    BY <1>8, <2>2, <2>3, <2>4 DEF Recovery, JobStep
<1>9. CASE Faults
  <2>1. CASE /\ \E r \in outbox : Park(r)
             /\ UNCHANGED <<wf, notified, stockVars, paymentVars,
                            compAttempts, jobVars>>
    <3>1. BusStep
      BY <2>1 DEF Park, Fault, BusStep, Sends
    <3> QED
      BY <2>1, <3>1, BusType
  <2>2. CASE /\ InventoryFault
             /\ UNCHANGED <<wf, notified, paymentVars, compAttempts, jobVars>>
    BY <2>2, ReleaseFailsType DEF InventoryFault
  <2>3. CASE /\ WorkerFault
             /\ UNCHANGED <<wf, notified, stockVars, compAttempts, jobVars>>
    <3>1. BusTypeOK' /\ PaymentTypeOK'
      BY <2>3, PublishType, WorkerFaultType, ClaimParkedType DEF WorkerFault
    <3> QED
      BY <2>3, <3>1
  <2>4. CASE /\ ProviderFault
             /\ UNCHANGED <<wf, notified, stockVars, payment, copies,
                            compAttempts, jobVars>>
    BY <2>4, ProviderType
  <2>5. CASE /\ JobFault
             /\ UNCHANGED <<notified, stockVars, ledger, call, copies>>
    BY <1>6, <1>7, <2>5, JobFaultType
  <2> QED
    BY <1>9, <2>1, <2>2, <2>3, <2>4, <2>5 DEF Faults
<1>10. CASE UNCHANGED vars
  <2>1. BusTypeOK'
    BY <1>10 DEF vars, busVars, BusTypeOK
  <2> QED
    BY <1>10, <2>1 DEF vars
<1> QED
  BY <1>1, <1>2, <1>3, <1>4, <1>5, <1>8, <1>9, <1>10 DEF Next

(* Type correctness: whatever is lost, repeated, late or cut short, every  *)
(* row and every message stays one the code can read.                      *)
THEOREM TypeCorrect == Spec => []TypeOK
<1>1. Init => TypeOK
  BY InitType
<1>2. TypeOK /\ [Next]_vars => TypeOK'
  BY NextType
<1> QED
  BY <1>1, <1>2, PTL DEF Spec
=============================================================================
