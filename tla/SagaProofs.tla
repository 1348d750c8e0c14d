----------------------------- MODULE SagaProofs -----------------------------
(***************************************************************************)
(* Safety of Saga, for any number of sagas and slots, any stock and        *)
(* demand, any bound on retries and any faults.                            *)
(*                                                                         *)
(* First what a step of anybody may do to each piece of the state that     *)
(* matters (WorkflowMoves, SentMoves, ReservationMoves, BatchMoves ...),   *)
(* read off the actions once; then each invariant from those.              *)
(***************************************************************************)
EXTENDS SagaTypeProofs

Has(c, t) == Sent(c, t) # {}

-----------------------------------------------------------------------------
(* The workflow. *)

(* Every way a workflow leaves a state, and the event it owes it to. *)
WorkflowMove(c) ==
  \/ wf'[c] = wf[c]
  \/ wf[c] = "NONE" /\ wf'[c] = "RESERVING_INVENTORY"
  \/ wf[c] = "RESERVING_INVENTORY" /\ wf'[c] = "FAILED"
  \/ /\ wf[c] = "RESERVING_INVENTORY" /\ wf'[c] = "PROCESSING_PAYMENT"
     /\ Has(c, "INVENTORY_RESERVED")
  \/ wf[c] = "PROCESSING_PAYMENT" /\ wf'[c] = "AWAITING_RECONCILIATION"
  \/ /\ wf[c] \in {"PROCESSING_PAYMENT", "AWAITING_RECONCILIATION"}
     /\ wf'[c] = "SENDING_NOTIFICATION"
     /\ Has(c, "PAYMENT_SUCCEEDED")
  \/ /\ wf[c] \in {"PROCESSING_PAYMENT", "AWAITING_RECONCILIATION"}
     /\ wf'[c] = "COMPENSATING_INVENTORY"
     /\ Has(c, "PAYMENT_FAILED")
  \/ wf[c] = "SENDING_NOTIFICATION" /\ wf'[c] = "COMPLETED"
  \/ /\ wf[c] = "COMPENSATING_INVENTORY" /\ wf'[c] = "COMPENSATED"
     /\ Has(c, "INVENTORY_RELEASED")
  \/ wf[c] = "COMPENSATING_INVENTORY" /\ wf'[c] = "COMPENSATION_FAILED"

(* The saga table allows exactly the moves of WorkflowMove. *)
LEMMA AdvanceMoves ==
  ASSUME TypeOK, NEW c \in Saga, NEW e \in SagaEvents, Has(c, e),
         Accepts(c, e), Advance(c, e)
  PROVE  WorkflowMove(c)
<1>1. wf \in [Saga -> WorkflowStates \cup {"NONE"}]
  BY DEF TypeOK, OrchestratorTypeOK
<1>2. wf[c] \in SagaTransitions[e].from /\ wf'[c] = SagaTransitions[e].to
  BY <1>1 DEF Accepts, Advance
<1>3. CASE e = "INVENTORY_RESERVED"
  BY <1>2, <1>3 DEF SagaTransitions, Rule, WorkflowMove
<1>4. CASE e = "PAYMENT_SUCCEEDED"
  BY <1>2, <1>4 DEF SagaTransitions, Rule, WorkflowMove
<1>5. CASE e = "NOTIFICATION_SENT"
  BY <1>2, <1>5 DEF SagaTransitions, Rule, WorkflowMove
<1>6. CASE e = "INVENTORY_FAILED"
  BY <1>2, <1>6 DEF SagaTransitions, Rule, WorkflowMove
<1>7. CASE e = "PAYMENT_FAILED"
  BY <1>2, <1>7 DEF SagaTransitions, Rule, WorkflowMove
<1>8. CASE e = "PAYMENT_UNKNOWN"
  BY <1>2, <1>8 DEF SagaTransitions, Rule, WorkflowMove
<1>9. CASE e = "INVENTORY_RELEASED"
  BY <1>2, <1>9 DEF SagaTransitions, Rule, WorkflowMove
<1>10. CASE e = "INVENTORY_RELEASE_FAILED"
  BY <1>2, <1>10 DEF SagaTransitions, Rule, WorkflowMove
<1>11. CASE e = "NOTIFICATION_FAILED"
  BY <1>2, <1>11 DEF SagaTransitions, Rule, WorkflowMove
<1> QED
  BY EventNames, <1>3, <1>4, <1>5, <1>6, <1>7, <1>8, <1>9, <1>10, <1>11

(* No step of the system moves a workflow in any other way. *)
LEMMA WorkflowMoves ==
  ASSUME TypeOK, [Next]_vars, NEW c \in Saga
  PROVE  WorkflowMove(c)
<1>1. wf \in [Saga -> WorkflowStates \cup {"NONE"}]
  BY DEF TypeOK, OrchestratorTypeOK
<1>2. CASE API
  BY <1>1, <1>2 DEF API, Checkout, WorkflowMove
<1>3. CASE Orchestration
  <2>1. CASE NotificationStep
    BY <2>1 DEF NotificationStep, Notify, WorkflowMove
  <2>2. ASSUME NEW r \in outbox, ApplySagaEvent(r)
        PROVE  WorkflowMove(c)
    <3>1. r.corr \in Saga /\ r.type \in SagaEvents
      BY <2>2 DEF TypeOK, BusTypeOK, Row, ApplySagaEvent
    <3>2. CASE r.corr = c /\ Accepts(c, r.type)
      <4>1. Has(c, r.type) /\ Advance(c, r.type)
        BY <2>2, <3>2 DEF ApplySagaEvent, Has, Sent
      <4> QED
        BY <3>1, <3>2, <4>1, AdvanceMoves
    <3>3. CASE ~ (r.corr = c /\ Accepts(c, r.type))
      BY <1>1, <2>2, <3>1, <3>3 DEF ApplySagaEvent, Advance, WorkflowMove
    <3> QED
      BY <3>2, <3>3
  <2> QED
    BY <1>3, <2>1, <2>2 DEF Orchestration, OrchestratorStep
<1>4. CASE Recovery
  <2>1. ASSUME NEW x \in batch, Sweep(x)
        PROVE  WorkflowMove(c)
    <3>1. x.seen \in DOMAIN SweptTo
      BY <2>1 DEF Sweep, TypeOK, ReconcilerTypeOK
    <3>2. wf' = [wf EXCEPT ![x.corr] = IF @ = x.seen THEN SweptTo[x.seen] ELSE @]
      BY <2>1 DEF Sweep, ForceState
    <3>3. CASE wf[c] = x.seen /\ wf'[c] = SweptTo[x.seen]
      BY <3>1, <3>3 DEF SweptTo, WorkflowMove
    <3> QED
      BY <1>1, <3>2, <3>3 DEF WorkflowMove
  <2>2. ASSUME NEW x \in batch, GiveUp(x)
        PROVE  WorkflowMove(c)
    BY <1>1, <2>2 DEF GiveUp, ForceState, WorkflowMove
  <2>3. CASE UNCHANGED wf
    BY <2>3 DEF WorkflowMove
  <2> QED
    BY <1>4, <2>1, <2>2, <2>3
       DEF Recovery, JobStep, SelectUnknown, Lookup, Resolve, SelectStuck,
           MarkPaymentUnknown, SelectCompensating, ClaimUnknown,
           RetryCompensation
<1>5. CASE Inventory \/ Payments \/ Exchanges \/ Faults \/ UNCHANGED vars
  <2>1. UNCHANGED wf
    BY <1>5 DEF Inventory, Payments, Exchanges, Faults, vars,
                JobFault, LookupFails, TickDies
  <2> QED
    BY <2>1 DEF WorkflowMove
<1> QED
  BY <1>2, <1>3, <1>4, <1>5 DEF Next

-----------------------------------------------------------------------------
(* The payment. *)

(* Every way a payment enters a status, and whom it owes it to. *)
PaymentMove(c) ==
  \/ payment'[c] = payment[c]
  \/ payment[c] = "NONE" /\ payment'[c] = "PROCESSING"
  \/ payment[c] = "CREATED" /\ payment'[c] = "PROCESSING"
  \/ /\ payment[c] = "PROCESSING" /\ payment'[c] = "SUCCEEDED"
     /\ \E k \in Slot : call[k].corr = c /\ call[k].client = "approved"
  \/ /\ payment[c] = "PROCESSING"
     /\ payment'[c] \in {"FAILED", "UNKNOWN", "CREATED"}
  \/ payment[c] = "UNKNOWN" /\ payment'[c] = "RECONCILING"
  \/ /\ payment[c] = "RECONCILING" /\ payment'[c] = "SUCCEEDED"
     /\ task = "charged" /\ subject = c
  \/ payment[c] = "RECONCILING" /\ payment'[c] \in {"FAILED", "UNKNOWN"}

(* What a guarded UPDATE does to each payment. *)
LEMMA TransitionMoves ==
  ASSUME payment \in [Saga -> PaymentStates \cup {"NONE"}], NEW c \in Saga,
         NEW d, NEW from, NEW to, Transition(d, from, to)
  PROVE  \/ payment'[c] = payment[c]
         \/ c = d /\ payment[c] = from /\ payment'[c] = to
BY DEF Transition

(* No step of the system moves a payment in any other way. *)
LEMMA PaymentMoves ==
  ASSUME TypeOK, [Next]_vars, NEW c \in Saga
  PROVE  PaymentMove(c)
<1>1. payment \in [Saga -> PaymentStates \cup {"NONE"}]
  BY DEF TypeOK, PaymentTypeOK
<1> USE TransitionMoves DEF PaymentMove
<1>2. CASE Payments
  <2>1. CASE RelayStep
    BY <2>1 DEF RelayStep, PublishOnce, Publish
  <2>2. ASSUME NEW k \in Slot, NEW d \in Saga, NEW a \in Attempts,
               DeliverFinished(k, d, a) \/ DeliverUnknown(k, d, a)
                 \/ DeliverCharge(k, d, a)
        PROVE  PaymentMove(c)
    BY <1>1, <2>2 DEF DeliverFinished, DeliverUnknown, DeliverCharge
  <2>3. ASSUME NEW k \in Slot, HandlerStep(k)
        PROVE  PaymentMove(c)
    BY <1>1, <2>3 DEF HandlerStep, FinishApproved, FinishUnknown, FinishFailed,
                      Finalize, RollBack, Ack
  <2> QED
    BY <1>2, <2>1, <2>2, <2>3 DEF Payments, WorkerStep, DeliverStep
<1>3. CASE Recovery
  <2>1. CASE Resolve
    BY <1>1, <2>1 DEF Resolve
  <2>2. CASE MarkPaymentUnknown
    BY <1>1, <2>2 DEF MarkPaymentUnknown
  <2>3. ASSUME NEW x \in batch, ClaimUnknown(x)
        PROVE  PaymentMove(c)
    BY <1>1, <2>3 DEF ClaimUnknown
  <2>4. CASE UNCHANGED payment
    BY <2>4
  <2> QED
    BY <1>3, <2>1, <2>2, <2>3, <2>4
       DEF Recovery, JobStep, SelectUnknown, Lookup, SelectStuck, Sweep,
           SelectCompensating, GiveUp, RetryCompensation
<1>4. CASE Faults
  <2>1. CASE LookupFails
    BY <1>1, <2>1 DEF LookupFails
  <2>2. CASE WorkerFault
    BY <2>2 DEF WorkerFault, PublishUncommitted, Publish, WorkerCrash,
                ChannelLost, CommitParked, ClaimParked
  <2>3. CASE UNCHANGED payment
    BY <2>3
  <2> QED
    BY <1>4, <2>1, <2>2, <2>3 DEF Faults, JobFault, TickDies, paymentVars
<1>5. CASE API \/ Orchestration \/ Inventory \/ Exchanges \/ UNCHANGED vars
  <2>1. UNCHANGED payment
    BY <1>5 DEF API, Orchestration, Inventory, Exchanges, vars, paymentVars
  <2> QED
    BY <2>1
<1> QED
  BY <1>2, <1>3, <1>4, <1>5 DEF Next

(* No job, retry, late answer or repeated message moves a payment or a     *)
(* workflow out of a terminal state.                                       *)
THEOREM VerdictsFinal == Spec => VerdictsAreFinal
<1> DEFINE Final ==
      \A c \in Saga :
        /\ payment[c] \in TerminalPaymentStates => payment'[c] = payment[c]
        /\ wf[c] \in TerminalWorkflowStates => wf'[c] = wf[c]
<1>1. TypeOK /\ [Next]_vars => [Final]_vars
  <2> SUFFICES ASSUME TypeOK, [Next]_vars, NEW c \in Saga
               PROVE  /\ payment[c] \in TerminalPaymentStates
                           => payment'[c] = payment[c]
                      /\ wf[c] \in TerminalWorkflowStates => wf'[c] = wf[c]
    OBVIOUS
  <2>1. payment[c] \in TerminalPaymentStates => payment'[c] = payment[c]
    BY PaymentMoves DEF PaymentMove, TerminalPaymentStates
  <2>2. wf[c] \in TerminalWorkflowStates => wf'[c] = wf[c]
    BY WorkflowMoves DEF WorkflowMove, TerminalWorkflowStates
  <2> QED
    BY <2>1, <2>2
<1> QED
  BY <1>1, TypeCorrect, PTL DEF Spec, VerdictsAreFinal

-----------------------------------------------------------------------------
(* The message ring. *)

(* Every row a step adds, and what it announces. *)
Added(c, t) == \E row : Sent(c, t)' = Sent(c, t) \cup {row}

Cause(c, t) ==
  /\ t = "INVENTORY_RESERVED" => reservation'[c] # "NONE"
  /\ t = "INVENTORY_RELEASED" =>
       /\ Has(c, "RELEASE_INVENTORY")
       /\ reservation'[c] = IF reservation[c] = "RESERVED"
                              THEN "RELEASED" ELSE reservation[c]
  /\ t = "RELEASE_INVENTORY" =>
       \/ /\ wf[c] \in {"PROCESSING_PAYMENT", "AWAITING_RECONCILIATION"}
          /\ wf'[c] = "COMPENSATING_INVENTORY"
       \/ /\ task = "compensate" /\ wf' = wf
          /\ \E x \in batch : x.corr = c /\ RetryCompensation(x)
  /\ t \in {"INVENTORY_RESERVED", "INVENTORY_FAILED"} =>
       \E r \in outbox : r.corr = c /\ Reserve(r)
  /\ t = "RESERVE_INVENTORY" =>
       wf[c] = "NONE" /\ wf'[c] = "RESERVING_INVENTORY"
  /\ t = "PROCESS_PAYMENT" =>
       wf[c] = "RESERVING_INVENTORY" /\ wf'[c] = "PROCESSING_PAYMENT"
  /\ t = "SEND_NOTIFICATION" =>
       /\ wf[c] \in {"PROCESSING_PAYMENT", "AWAITING_RECONCILIATION"}
       /\ wf'[c] = "SENDING_NOTIFICATION"
  /\ t = "PAYMENT_SUCCEEDED" =>
       \/ payment[c] = "SUCCEEDED"
       \/ \E k \in Slot : call[k].corr = c /\ call[k].client = "approved"
       \/ task = "charged" /\ subject = c

SentMove(c, t) == Sent(c, t)' = Sent(c, t) \/ (Added(c, t) /\ Cause(c, t))

(* Enqueue adds to the rows of one saga and one type, and to no other. *)
LEMMA EnqueueSent ==
  ASSUME NEW d, NEW u, Enqueue(d, u), NEW c, NEW t
  PROVE  \/ Sent(c, t)' = Sent(c, t)
         \/ c = d /\ t = u /\ Added(c, t)
<1> DEFINE row == [corr |-> d, type |-> u, n |-> Cardinality(Sent(d, u))]
<1>1. outbox' = outbox \cup {row} /\ row.corr = d /\ row.type = u
  BY DEF Enqueue
<1> HIDE DEF row
<1>2. CASE c = d /\ t = u
  <2>1. Sent(c, t)' = Sent(c, t) \cup {row}
    BY <1>1, <1>2 DEF Sent
  <2> QED
    BY <1>2, <2>1 DEF Added
<1>3. CASE ~ (c = d /\ t = u)
  <2>1. Sent(c, t)' = Sent(c, t)
    BY <1>1, <1>3 DEF Sent
  <2> QED
    BY <2>1
<1> QED
  BY <1>2, <1>3

(* A step that leaves the outbox alone leaves all of it alone. *)
LEMMA NothingSent ==
  ASSUME UNCHANGED outbox, NEW c, NEW t
  PROVE  SentMove(c, t)
BY DEF SentMove, Sent

(* The orchestrator's commands follow from the moves of the workflow. *)
LEMMA AdvanceSends ==
  ASSUME TypeOK, NEW d \in Saga, NEW e \in SagaEvents, Accepts(d, e),
         Advance(d, e), NEW c \in Saga, NEW t \in MessageTypes
  PROVE  SentMove(c, t)
<1>1. wf \in [Saga -> WorkflowStates \cup {"NONE"}]
  BY DEF TypeOK, OrchestratorTypeOK
<1> DEFINE rule == SagaTransitions[e]
<1>2. /\ wf[d] \in rule.from /\ wf'[d] = rule.to
      /\ IF rule.command = "" THEN outbox' = outbox ELSE Enqueue(d, rule.command)
  BY <1>1 DEF Accepts, Advance
<1>3. rule.command # "" => Cause(d, rule.command)
  <2>1. CASE e = "INVENTORY_RESERVED"
    BY <1>2, <2>1 DEF SagaTransitions, Rule, Cause
  <2>2. CASE e = "PAYMENT_SUCCEEDED"
    BY <1>2, <2>2 DEF SagaTransitions, Rule, Cause
  <2>3. CASE e = "PAYMENT_FAILED"
    BY <1>2, <2>3 DEF SagaTransitions, Rule, Cause
  <2>4. CASE e \notin {"INVENTORY_RESERVED", "PAYMENT_SUCCEEDED",
                       "PAYMENT_FAILED"}
    <3>1. CASE e = "NOTIFICATION_SENT"
      BY <3>1 DEF SagaTransitions, Rule
    <3>2. CASE e = "INVENTORY_FAILED"
      BY <3>2 DEF SagaTransitions, Rule
    <3>3. CASE e = "PAYMENT_UNKNOWN"
      BY <3>3 DEF SagaTransitions, Rule
    <3>4. CASE e = "INVENTORY_RELEASED"
      BY <3>4 DEF SagaTransitions, Rule
    <3>5. CASE e = "INVENTORY_RELEASE_FAILED"
      BY <3>5 DEF SagaTransitions, Rule
    <3>6. CASE e = "NOTIFICATION_FAILED"
      BY <3>6 DEF SagaTransitions, Rule
    <3> QED
      BY EventNames, <2>4, <3>1, <3>2, <3>3, <3>4, <3>5, <3>6
  <2> QED
    BY <2>1, <2>2, <2>3, <2>4
<1> HIDE DEF rule
<1>4. CASE rule.command = ""
  BY <1>2, <1>4, NothingSent
<1>5. CASE rule.command # ""
  <2>1. Enqueue(d, rule.command)
    BY <1>2, <1>5
  <2>2. \/ Sent(c, t)' = Sent(c, t)
        \/ c = d /\ t = rule.command /\ Added(c, t)
    BY <2>1, EnqueueSent
  <2>3. CASE c = d /\ t = rule.command /\ Added(c, t)
    <3>1. Cause(c, t)
      BY <1>3, <1>5, <2>3
    <3> QED
      BY <2>3, <3>1 DEF SentMove
  <2> QED
    BY <2>2, <2>3 DEF SentMove
<1> QED
  BY <1>4, <1>5

(* No step of the system adds a row without the cause that Cause names. *)
LEMMA SentMoves ==
  ASSUME TypeOK, [Next]_vars, NEW c \in Saga, NEW t \in MessageTypes
  PROVE  SentMove(c, t)
<1> USE NothingSent, EnqueueSent
<1>1. CASE API
  <2>1. wf \in [Saga -> WorkflowStates \cup {"NONE"}]
    BY DEF TypeOK, OrchestratorTypeOK
  <2>2. PICK d \in Saga : Checkout(d)
    BY <1>1 DEF API
  <2>3. Cause(d, "RESERVE_INVENTORY")
    BY <2>1, <2>2 DEF Checkout, Cause
  <2> QED
    BY <2>2, <2>3 DEF Checkout, SentMove
<1>2. CASE Orchestration
  <2>1. ASSUME NEW r \in outbox, Notify(r)
        PROVE  SentMove(c, t)
    BY <2>1 DEF Notify, SentMove, Cause
  <2>2. ASSUME NEW r \in outbox, ApplySagaEvent(r)
        PROVE  SentMove(c, t)
    <3>1. r.corr \in Saga /\ r.type \in SagaEvents
      BY <2>2 DEF TypeOK, BusTypeOK, Row, ApplySagaEvent
    <3>2. CASE Accepts(r.corr, r.type)
      <4>1. Advance(r.corr, r.type)
        BY <2>2, <3>2 DEF ApplySagaEvent
      <4> QED
        BY <3>1, <3>2, <4>1, AdvanceSends
    <3>3. CASE ~ Accepts(r.corr, r.type)
      BY <2>2, <3>3 DEF ApplySagaEvent
    <3> QED
      BY <3>2, <3>3
  <2> QED
    BY <1>2, <2>1, <2>2 DEF Orchestration, OrchestratorStep, NotificationStep
<1>3. reservation \in [Saga -> {"NONE", "RESERVED", "RELEASED"}]
  BY DEF TypeOK, InventoryTypeOK
<1>4. ASSUME NEW r \in outbox, ReleaseFails(r)
      PROVE  SentMove(c, t)
  BY <1>4 DEF ReleaseFails, SentMove, Cause
<1>5. CASE Inventory
  <2>1. ASSUME NEW r \in outbox, Reserve(r)
        PROVE  SentMove(c, t)
    <3>1. r.corr \in Saga
      BY DEF TypeOK, BusTypeOK, Row
    <3>2. reservation'[r.corr] # "NONE"
      BY <1>3, <2>1, <3>1 DEF Reserve, stockVars
    <3>3. PICK u \in {"INVENTORY_RESERVED", "INVENTORY_FAILED"} :
            Enqueue(r.corr, u)
      BY <2>1 DEF Reserve
    <3>4. Cause(r.corr, u)
      BY <2>1, <3>2 DEF Cause
    <3> QED
      BY <3>3, <3>4 DEF SentMove
  <2>2. ASSUME NEW r \in outbox, Release(r)
        PROVE  SentMove(c, t)
    <3>1. r.corr \in Saga /\ Has(r.corr, "RELEASE_INVENTORY")
      BY <2>2 DEF TypeOK, BusTypeOK, Row, Release, Has, Sent
    <3>2. reservation'[r.corr] = IF reservation[r.corr] = "RESERVED"
                                   THEN "RELEASED" ELSE reservation[r.corr]
      BY <1>3, <2>2, <3>1 DEF Release, MayRelease, CreditLines, stockVars
    <3>3. Enqueue(r.corr, "INVENTORY_RELEASED")
      BY <2>2 DEF Release
    <3> QED
      BY <3>1, <3>2, <3>3 DEF SentMove, Cause
  <2> QED
    BY <1>4, <1>5, <2>1, <2>2
       DEF Inventory, InventoryStep, ReserveAborts, ReleaseExhausted
<1>6. CASE Payments
  <2>1. CASE RelayStep
    BY <2>1 DEF RelayStep, PublishOnce, Publish
  <2>2. ASSUME NEW k \in Slot, NEW d \in Saga, NEW a \in Attempts,
               DeliverFinished(k, d, a) \/ DeliverUnknown(k, d, a)
                 \/ DeliverCharge(k, d, a)
        PROVE  SentMove(c, t)
    <3>1. CASE DeliverFinished(k, d, a)
      BY <3>1 DEF DeliverFinished, SentMove, Cause
    <3>2. CASE DeliverUnknown(k, d, a) \/ DeliverCharge(k, d, a)
      BY <3>2 DEF DeliverUnknown, DeliverCharge
    <3> QED
      BY <2>2, <3>1, <3>2
  <2>3. ASSUME NEW k \in Slot, HandlerStep(k)
        PROVE  SentMove(c, t)
    <3>1. CASE FinishApproved(k)
      BY <3>1 DEF FinishApproved, Finalize, SentMove, Cause
    <3>2. CASE FinishUnknown(k) \/ FinishFailed(k)
      BY <3>2 DEF FinishUnknown, FinishFailed, Finalize, SentMove, Cause
    <3>3. CASE RollBack(k) \/ Ack(k)
      BY <3>3 DEF RollBack, Ack, busVars
    <3> QED
      BY <2>3, <3>1, <3>2, <3>3 DEF HandlerStep
  <2> QED
    BY <1>6, <2>1, <2>2, <2>3 DEF Payments, WorkerStep, DeliverStep
<1>7. CASE Recovery
  <2>1. CASE Resolve
    BY <2>1 DEF Resolve, SentMove, Cause
  <2>2. ASSUME NEW x \in batch, RetryCompensation(x)
        PROVE  SentMove(c, t)
    <3>1. /\ task = "compensate" /\ UNCHANGED wf
          /\ Enqueue(x.corr, "RELEASE_INVENTORY")
      BY <2>2 DEF RetryCompensation
    <3>2. Cause(x.corr, "RELEASE_INVENTORY")
      BY <2>2, <3>1 DEF Cause
    <3> QED
      BY <3>1, <3>2 DEF SentMove
  <2>3. CASE UNCHANGED outbox
    BY <2>3
  <2> QED
    BY <1>7, <2>1, <2>2, <2>3
       DEF Recovery, JobStep, SelectUnknown, Lookup, SelectStuck, Sweep,
           SelectCompensating, GiveUp, MarkPaymentUnknown, ClaimUnknown
<1>8. CASE Faults
  <2>1. ASSUME NEW r \in outbox, ReleaseExhaustedUnacked(r)
        PROVE  SentMove(c, t)
    BY <1>4, <2>1 DEF ReleaseExhaustedUnacked
  <2>2. CASE WorkerFault
    BY <2>2 DEF WorkerFault, PublishUncommitted, Publish, WorkerCrash,
                ChannelLost, CommitParked, ClaimParked
  <2>3. CASE UNCHANGED outbox
    BY <2>3
  <2> QED
    BY <1>8, <2>1, <2>2, <2>3
       DEF Faults, Park, InventoryFault, ProviderFault, ConnectionRefused,
           JobFault, LookupFails, TickDies
<1>9. CASE Exchanges \/ UNCHANGED vars
  <2>1. UNCHANGED outbox
    BY <1>9 DEF Exchanges, ProviderStep, busVars, vars
  <2> QED
    BY <2>1
<1> QED
  BY <1>1, <1>2, <1>5, <1>6, <1>7, <1>8, <1>9 DEF Next

-----------------------------------------------------------------------------
(* The stock and the jobs. *)

(* Every way a reservation changes. *)
ReservationMove(c) ==
  \/ reservation'[c] = reservation[c]
  \/ reservation[c] = "NONE" /\ reservation'[c] = "RESERVED"
  \/ /\ reservation[c] = "RESERVED" /\ reservation'[c] = "RELEASED"
     /\ Has(c, "RELEASE_INVENTORY")

(* Only a release command gives stock back, and only once. *)
LEMMA ReservationMoves ==
  ASSUME TypeOK, [Next]_vars, NEW c \in Saga
  PROVE  ReservationMove(c)
<1>1. reservation \in [Saga -> {"NONE", "RESERVED", "RELEASED"}]
  BY DEF TypeOK, InventoryTypeOK
<1>2. CASE Inventory
  <2>1. ASSUME NEW r \in outbox, Reserve(r)
        PROVE  ReservationMove(c)
    BY <1>1, <2>1 DEF Reserve, stockVars, ReservationMove
  <2>2. ASSUME NEW r \in outbox, Release(r)
        PROVE  ReservationMove(c)
    <3>1. Has(r.corr, "RELEASE_INVENTORY")
      BY <2>2 DEF Release, Has, Sent
    <3> QED
      BY <1>1, <2>2, <3>1
         DEF Release, MayRelease, CreditLines, stockVars, ReservationMove
  <2>3. ASSUME NEW r \in outbox, ReserveAborts(r) \/ ReleaseExhausted(r)
        PROVE  ReservationMove(c)
    BY <2>3 DEF ReserveAborts, ReleaseExhausted, ReleaseFails, stockVars,
                ReservationMove
  <2> QED
    BY <1>2, <2>1, <2>2, <2>3 DEF Inventory, InventoryStep
<1>3. CASE ~ Inventory
  <2>1. UNCHANGED reservation
    BY <1>3 DEF Next, API, Orchestration, Payments, Exchanges, Recovery,
                Faults, InventoryFault, ReleaseExhaustedUnacked, ReleaseFails,
                stockVars, vars
  <2> QED
    BY <2>1 DEF ReservationMove
<1> QED
  BY <1>2, <1>3

(* A batch of compensations holds only workflows that were compensating    *)
(* when it was read.                                                       *)
LEMMA BatchMoves ==
  ASSUME TypeOK, [Next]_vars, task' = "compensate", NEW x \in batch'
  PROVE  \/ task = "compensate" /\ x \in batch
         \/ /\ x.corr \in Saga /\ wf[x.corr] = "COMPENSATING_INVENTORY"
            /\ x.seen = wf[x.corr] /\ x.attempts = compAttempts[x.corr]
            /\ UNCHANGED <<wf, compAttempts>>
<1>1. CASE Recovery
  <2>1. CASE SelectCompensating
    BY <2>1 DEF SelectCompensating, Select
  <2>2. ASSUME NEW y \in batch, GiveUp(y) \/ RetryCompensation(y)
        PROVE  task = "compensate" /\ x \in batch
    BY <2>2 DEF GiveUp, RetryCompensation, Handled
  <2>3. ASSUME SelectUnknown \/ SelectStuck
        PROVE  FALSE
    BY <2>3 DEF SelectUnknown, SelectStuck, Select
  <2>4. ASSUME Lookup \/ Resolve \/ MarkPaymentUnknown
        PROVE  FALSE
    BY <2>4 DEF Lookup, Resolve, MarkPaymentUnknown, Resume, Unfinished
  <2>5. ASSUME NEW y \in batch, ClaimUnknown(y) \/ Sweep(y)
        PROVE  FALSE
    BY <2>5 DEF ClaimUnknown, Sweep, Continue, Handled, Unfinished
  <2> QED
    BY <1>1, <2>1, <2>2, <2>3, <2>4, <2>5 DEF Recovery, JobStep
<1>2. CASE Faults
  <2>1. ASSUME JobFault
        PROVE  FALSE
    BY <2>1 DEF JobFault, LookupFails, TickDies, Resume, Unfinished
  <2> QED
    BY <1>2, <2>1 DEF Faults, jobVars
<1>3. CASE API \/ Orchestration \/ Inventory \/ Payments \/ Exchanges
           \/ UNCHANGED vars
  BY <1>3 DEF API, Orchestration, Inventory, Payments, Exchanges, vars, jobVars
<1> QED
  BY <1>1, <1>2, <1>3 DEF Next

-----------------------------------------------------------------------------
(* Undoing.  A release can be on its way, in a batch of the recovery job,  *)
(* delivered or repeated long after the step that asked for it; what makes *)
(* it harmless is that a workflow that has begun to undo never leaves      *)
(* these states.                                                           *)
Undoing == {"COMPENSATING_INVENTORY", "COMPENSATED", "COMPENSATION_FAILED"}

UndoInv ==
  \A c \in Saga :
    /\ Has(c, "INVENTORY_RESERVED") => reservation[c] # "NONE"
    /\ wf[c] \in Forward \cup Undoing => reservation[c] # "NONE"
    /\ Has(c, "RELEASE_INVENTORY") => wf[c] \in Undoing
    /\ task = "compensate" =>
         \A x \in batch : x.corr = c => wf[c] \in Undoing
    /\ reservation[c] = "RELEASED" => wf[c] \in Undoing
    /\ Has(c, "INVENTORY_RELEASED") => reservation[c] = "RELEASED"
    /\ wf[c] = "COMPENSATED" => reservation[c] = "RELEASED"

(* A workflow that has begun to undo goes on undoing. *)
LEMMA UndoingLasts ==
  ASSUME TypeOK, [Next]_vars, NEW c \in Saga, wf[c] \in Undoing
  PROVE  wf'[c] \in Undoing
BY WorkflowMoves DEF WorkflowMove, Undoing

(* Rows of a type a saga has come from rows it had or from their cause. *)
LEMMA HasMoves ==
  ASSUME TypeOK, [Next]_vars, NEW c \in Saga, NEW t \in MessageTypes, Has(c, t)'
  PROVE  Has(c, t) \/ Cause(c, t)
BY SentMoves DEF SentMove, Has

(* Rows stay. *)
LEMMA HasLasts ==
  ASSUME TypeOK, [Next]_vars, NEW c \in Saga, NEW t \in MessageTypes, Has(c, t)
  PROVE  Has(c, t)'
BY SentMoves DEF SentMove, Added, Has

(* The undo invariant holds from the start and is kept by every step. *)
LEMMA UndoInvariant == Spec => []UndoInv
<1>1. Init => UndoInv
  BY DEF Init, BusInit, OrchestratorInit, InventoryInit, ReconcilerInit,
         UndoInv, Has, Sent, Forward, Undoing
<1>2. TypeOK /\ UndoInv /\ [Next]_vars => UndoInv'
  <2> SUFFICES ASSUME TypeOK, UndoInv, [Next]_vars, NEW c \in Saga
               PROVE  /\ Has(c, "INVENTORY_RESERVED")' => reservation'[c] # "NONE"
                      /\ wf'[c] \in Forward \cup Undoing
                           => reservation'[c] # "NONE"
                      /\ Has(c, "RELEASE_INVENTORY")' => wf'[c] \in Undoing
                      /\ task' = "compensate" =>
                           \A x \in batch' : x.corr = c => wf'[c] \in Undoing
                      /\ reservation'[c] = "RELEASED" => wf'[c] \in Undoing
                      /\ Has(c, "INVENTORY_RELEASED")'
                           => reservation'[c] = "RELEASED"
                      /\ wf'[c] = "COMPENSATED" => reservation'[c] = "RELEASED"
    BY DEF UndoInv
  <2>1. ReservationMove(c) /\ WorkflowMove(c)
    BY ReservationMoves, WorkflowMoves
  <2>2. reservation[c] # "NONE" => reservation'[c] # "NONE"
    BY <2>1 DEF ReservationMove
  <2>3. reservation[c] = "RELEASED" => reservation'[c] = "RELEASED"
    BY <2>1 DEF ReservationMove
  <2>4. wf[c] \in Undoing => wf'[c] \in Undoing
    BY UndoingLasts
  <2>5. Has(c, "INVENTORY_RESERVED")' => reservation'[c] # "NONE"
    BY <2>2, HasMoves, MessageNames DEF UndoInv, Cause
  <2>6. wf'[c] \in Forward \cup Undoing => reservation'[c] # "NONE"
    BY <2>1, <2>2 DEF UndoInv, WorkflowMove, Forward, Undoing
  <2>7. Has(c, "RELEASE_INVENTORY")' => wf'[c] \in Undoing
    <3>1. SUFFICES ASSUME Has(c, "RELEASE_INVENTORY")'
                   PROVE  wf'[c] \in Undoing
      OBVIOUS
    <3>2. Has(c, "RELEASE_INVENTORY") \/ Cause(c, "RELEASE_INVENTORY")
      BY <3>1, HasMoves, MessageNames
    <3>3. CASE Has(c, "RELEASE_INVENTORY")
      BY <2>4, <3>3 DEF UndoInv
    <3>4. CASE Cause(c, "RELEASE_INVENTORY")
      BY <2>4, <3>4 DEF UndoInv, Cause, Undoing
    <3> QED
      BY <3>2, <3>3, <3>4
  <2>8. task' = "compensate" =>
          \A x \in batch' : x.corr = c => wf'[c] \in Undoing
    <3> SUFFICES ASSUME task' = "compensate", NEW x \in batch', x.corr = c
                 PROVE  wf'[c] \in Undoing
      OBVIOUS
    <3>1. CASE task = "compensate" /\ x \in batch
      BY <2>4, <3>1 DEF UndoInv
    <3>2. CASE wf' = wf /\ wf[x.corr] = "COMPENSATING_INVENTORY"
      BY <3>2 DEF Undoing
    <3> QED
      BY <3>1, <3>2, BatchMoves
  <2>9. reservation'[c] = "RELEASED" => wf'[c] \in Undoing
    BY <2>1, <2>4 DEF UndoInv, ReservationMove
  <2>10. Has(c, "INVENTORY_RELEASED")' => reservation'[c] = "RELEASED"
    <3>1. SUFFICES ASSUME Has(c, "INVENTORY_RELEASED")'
                   PROVE  reservation'[c] = "RELEASED"
      OBVIOUS
    <3>2. Has(c, "INVENTORY_RELEASED") \/ Cause(c, "INVENTORY_RELEASED")
      BY <3>1, HasMoves, MessageNames
    <3>3. CASE Has(c, "INVENTORY_RELEASED")
      BY <2>3, <3>3 DEF UndoInv
    <3>4. CASE Cause(c, "INVENTORY_RELEASED")
      <4>1. wf[c] \in Undoing /\ reservation[c] # "NONE"
        BY <3>4 DEF UndoInv, Cause
      <4>2. reservation[c] \in {"NONE", "RESERVED", "RELEASED"}
        BY DEF TypeOK, InventoryTypeOK
      <4> QED
        BY <3>4, <4>1, <4>2 DEF Cause
    <3> QED
      BY <3>2, <3>3, <3>4
  <2>11. wf'[c] = "COMPENSATED" => reservation'[c] = "RELEASED"
    BY <2>1, <2>3 DEF UndoInv, WorkflowMove
  <2> QED
    BY <2>5, <2>6, <2>7, <2>8, <2>9, <2>10, <2>11
<1> QED
  BY <1>1, <1>2, TypeCorrect, PTL DEF Spec

(* A saga reported COMPENSATED really gave its stock back. *)
THEOREM CompensationHonest == Spec => []CompensatedIsReleased
<1>1. UndoInv => CompensatedIsReleased
  BY DEF UndoInv, CompensatedIsReleased
<1> QED
  BY <1>1, UndoInvariant, PTL

(* From its reservation to its receipt an order holds its stock. *)
THEOREM ForwardHolds == Spec => []ForwardKeepsStock
<1>1. TypeOK /\ UndoInv => ForwardKeepsStock
  <2> SUFFICES ASSUME TypeOK, UndoInv, NEW c \in Saga, wf[c] \in Forward
               PROVE  reservation[c] = "RESERVED"
    BY DEF ForwardKeepsStock, Holds
  <2>1. reservation[c] \in {"NONE", "RESERVED", "RELEASED"}
    BY DEF TypeOK, InventoryTypeOK
  <2>2. wf[c] \notin Undoing
    BY DEF Forward, Undoing
  <2> QED
    BY <2>1, <2>2 DEF UndoInv
<1> QED
  BY <1>1, UndoInvariant, TypeCorrect, PTL

-----------------------------------------------------------------------------
(* Asking once.  The states a saga can be in once it has asked are never   *)
(* those from which it asks.                                               *)
AskInv ==
  \A c \in Saga :
    /\ Has(c, "PROCESS_PAYMENT") => wf[c] \notin {"NONE", "RESERVING_INVENTORY"}
    /\ Has(c, "SEND_NOTIFICATION")
         => wf[c] \in {"SENDING_NOTIFICATION", "COMPLETED"}
    /\ \A t \in {"PROCESS_PAYMENT", "SEND_NOTIFICATION"} :
         \E row : Sent(c, t) \subseteq {row}

(* What was asked for is asked for once, and stays behind the workflow. *)
LEMMA AskInvariant == Spec => []AskInv
<1>1. Init => AskInv
  BY DEF Init, BusInit, AskInv, Has, Sent
<1>2. TypeOK /\ AskInv /\ [Next]_vars => AskInv'
  <2> SUFFICES ASSUME TypeOK, AskInv, [Next]_vars, NEW c \in Saga
               PROVE  /\ Has(c, "PROCESS_PAYMENT")'
                           => wf'[c] \notin {"NONE", "RESERVING_INVENTORY"}
                      /\ Has(c, "SEND_NOTIFICATION")'
                           => wf'[c] \in {"SENDING_NOTIFICATION", "COMPLETED"}
                      /\ \A t \in {"PROCESS_PAYMENT", "SEND_NOTIFICATION"} :
                           \E row : Sent(c, t)' \subseteq {row}
    BY DEF AskInv
  <2>1. WorkflowMove(c)
    BY WorkflowMoves
  <2>2. Has(c, "PROCESS_PAYMENT")'
          => wf'[c] \notin {"NONE", "RESERVING_INVENTORY"}
    BY <2>1, HasMoves, MessageNames DEF AskInv, WorkflowMove, Cause
  <2>3. Has(c, "SEND_NOTIFICATION")'
          => wf'[c] \in {"SENDING_NOTIFICATION", "COMPLETED"}
    BY <2>1, HasMoves, MessageNames DEF AskInv, WorkflowMove, Cause
  <2>4. ASSUME NEW t \in {"PROCESS_PAYMENT", "SEND_NOTIFICATION"}
        PROVE  \E row : Sent(c, t)' \subseteq {row}
    <3>1. CASE Sent(c, t)' = Sent(c, t)
      BY <3>1 DEF AskInv
    <3>2. CASE Added(c, t) /\ Cause(c, t)
      <4>1. ~ Has(c, t)
        BY <3>2 DEF AskInv, Cause
      <4>2. PICK row : Sent(c, t)' = Sent(c, t) \cup {row}
        BY <3>2 DEF Added
      <4> QED
        BY <4>1, <4>2 DEF Has
    <3> QED
      BY <3>1, <3>2, SentMoves, MessageNames DEF SentMove
  <2> QED
    BY <2>2, <2>3, <2>4
<1> QED
  BY <1>1, <1>2, TypeCorrect, PTL DEF Spec

(* The saga asks for one charge and for one receipt. *)
THEOREM AskedOnce == Spec => []AsksOnce
<1>1. AskInv => AsksOnce
  <2> SUFFICES ASSUME AskInv, NEW c \in Saga,
                      NEW t \in {"PROCESS_PAYMENT", "SEND_NOTIFICATION"}
               PROVE  Cardinality(Sent(c, t)) <= 1
    BY DEF AsksOnce
  <2>1. PICK row : Sent(c, t) \subseteq {row}
    BY DEF AskInv
  <2>2. CASE Sent(c, t) = {}
    BY <2>2, FS_EmptySet
  <2>3. CASE Sent(c, t) = {row}
    BY <2>3, FS_Singleton
  <2> QED
    BY <2>1, <2>2, <2>3
<1> QED
  BY <1>1, AskInvariant, PTL

-----------------------------------------------------------------------------
(* Money.  A receipt rests on a chain of hearsay: the ledger's row, the    *)
(* reply or the lookup that read it, the payment's status, the event, the  *)
(* workflow, the command.  Each link is true of the ledger, which never    *)
(* takes an approval back.                                                 *)

(* The provider answers by its present mode also where the ledger already  *)
(* holds another outcome (mockProvider.js:186), so the row is known to be  *)
(* an approval only of an order it does not both decline and approve.      *)
Unmixed(c) == ~ ("ok" \in Modes[c] /\ "fail" \in Modes[c])

UnmixedModes == \A c \in Saga : Unmixed(c)

Backed(c) ==
  /\ ledger[c] # "NONE"
  /\ Unmixed(c) => ledger[c] = "APPROVED"

Approves(k, c) == call[k].corr = c /\ call[k].client = "approved"

Believed(c) ==
  \/ \E k \in Slot : Approves(k, c)
  \/ task = "charged" /\ subject = c
  \/ payment[c] = "SUCCEEDED"
  \/ Has(c, "PAYMENT_SUCCEEDED")
  \/ wf[c] \in {"SENDING_NOTIFICATION", "COMPLETED"}
  \/ Has(c, "SEND_NOTIFICATION")
  \/ c \in notified

MoneyInv ==
  \A c \in Saga :
    /\ ledger[c] = "DECLINED" => "fail" \in Modes[c]
    /\ Believed(c) => Backed(c)

(* The ledger's first row for a key is its last. *)
LedgerMove(c) ==
  \/ ledger'[c] = ledger[c]
  \/ ledger[c] = "NONE" /\ ledger'[c] = "APPROVED"
  \/ ledger[c] = "NONE" /\ ledger'[c] = "DECLINED" /\ "fail" \in Modes[c]

(* No step of the system changes it otherwise. *)
LEMMA LedgerMoves ==
  ASSUME TypeOK, [Next]_vars, NEW c \in Saga
  PROVE  LedgerMove(c)
<1>1. ledger \in [Saga -> {"NONE", "APPROVED", "DECLINED"}]
  BY DEF TypeOK, PaymentTypeOK, ProviderTypeOK
<1>2. CASE Exchanges
  <2>1. ASSUME NEW k \in Slot, NEW mode \in AllModes, DecideCharge(k, mode)
        PROVE  LedgerMove(c)
    <3>1. /\ Recorded(mode) \in {"NONE", "APPROVED", "DECLINED"}
          /\ Recorded(mode) = "DECLINED" => mode = "fail"
      BY DEF Recorded, AllModes
    <3>2. ledger' = [ledger EXCEPT ![call[k].corr] =
                       IF ledger[call[k].corr] = "NONE" THEN Recorded(mode)
                       ELSE ledger[call[k].corr]]
      BY <2>1 DEF DecideCharge, RecordTransaction
    <3>3. mode \in Modes[call[k].corr]
      BY <2>1 DEF DecideCharge
    <3> QED
      BY <1>1, <3>1, <3>2, <3>3 DEF LedgerMove
  <2>2. CASE UNCHANGED ledger
    BY <2>2 DEF LedgerMove
  <2> QED
    BY <1>2, <2>1, <2>2
       DEF Exchanges, ProviderStep, ProviderServes, ReplayCharge, AcceptCharge,
           ClientTimeout, ConnectionReset
<1>3. CASE ~ Exchanges
  <2>1. UNCHANGED ledger
    <3>1. Payments => UNCHANGED ledger
      BY DEF Payments, WorkerStep, RelayStep, DeliverStep, HandlerStep,
             PublishOnce, Publish, DeliverFinished, DeliverUnknown,
             DeliverCharge, Deliver, FinishApproved, FinishUnknown,
             FinishFailed, Finalize, RollBack, Commit, Ack
    <3>2. Faults => UNCHANGED ledger
      BY DEF Faults, WorkerFault, PublishUncommitted, Publish, WorkerCrash,
             ChannelLost, CommitParked, ClaimParked, ProviderFault,
             ConnectionRefused, paymentVars
    <3> QED
      BY <1>3, <3>1, <3>2
         DEF Next, API, Orchestration, Inventory, Recovery, paymentVars, vars
  <2> QED
    BY <2>1 DEF LedgerMove
<1> QED
  BY <1>2, <1>3

(* A step that sets the sides of one slot brings an approval to no other,  *)
(* and to that one only as the client state it sets.                       *)
LEMMA SidesApprove ==
  ASSUME CallTypeOK, NEW k \in Slot, NEW client, NEW server,
         SetSides(k, client, server), NEW j \in Slot, NEW c \in Saga,
         Approves(j, c)'
  PROVE  \/ Approves(j, c)
         \/ j = k /\ call[k].corr = c /\ client = "approved"
<1> DEFINE x == [call[k] EXCEPT !.client = client, !.server = server]
           y == IF client = "idle" /\ server = "none" THEN NoCall ELSE x
<1>1. call' = [call EXCEPT ![k] = y] /\ call \in [Slot -> Call]
  BY DEF SetSides, CallTypeOK
<1>2. call[k] \in Call
  BY <1>1
<1>3. x.corr = call[k].corr /\ x.client = client
  BY <1>2 DEF Call
<1>4. NoCall.client = "idle"
  BY DEF NoCall
<1> HIDE DEF x
<1>5. CASE j = k
  BY <1>1, <1>3, <1>4, <1>5 DEF Approves
<1>6. CASE j # k
  BY <1>1, <1>6 DEF Approves
<1> QED
  BY <1>5, <1>6

(* An approval reaches a client from the ledger's row, or from a decision  *)
(* that wrote it.                                                          *)
LEMMA ApprovalMoves ==
  ASSUME TypeOK, [Next]_vars, NEW j \in Slot, NEW c \in Saga, Approves(j, c)'
  PROVE  \/ Approves(j, c)
         \/ ledger[c] = "APPROVED"
         \/ /\ "ok" \in Modes[c]
            /\ ledger'[c] = IF ledger[c] = "NONE" THEN "APPROVED" ELSE ledger[c]
<1>1. CallTypeOK /\ ledger \in [Saga -> {"NONE", "APPROVED", "DECLINED"}]
  BY PaymentTypes DEF TypeOK
<1> DEFINE Goal ==
      \/ Approves(j, c)
      \/ ledger[c] = "APPROVED"
      \/ /\ "ok" \in Modes[c]
         /\ ledger'[c] = IF ledger[c] = "NONE" THEN "APPROVED" ELSE ledger[c]
<1>2. CASE UNCHANGED call
  BY <1>2 DEF Approves
<1>3. ASSUME NEW k \in Slot, NEW state, state # "approved", SetClient(k, state)
      PROVE  Goal
  BY <1>1, <1>3, SidesApprove DEF SetClient
<1>4. ASSUME NEW k \in Slot, NEW o, Reply(k, o), Goal \/ o # "approved"
      PROVE  Goal
  <2> DEFINE y == IF call[k].client = "charging" /\ o # "none"
                    THEN o ELSE call[k].client
  <2>1. SetSides(k, y, "none")
    BY <1>4 DEF Reply
  <2>2. \/ Approves(j, c)
        \/ j = k /\ call[k].corr = c /\ y = "approved"
    BY <1>1, <2>1, SidesApprove
  <2> QED
    BY <1>4, <2>2 DEF Approves
<1>5. CASE Exchanges
  <2>1. ASSUME NEW k \in Slot, ReplayCharge(k)
        PROVE  Goal
    <3> DEFINE o == LedgerOutcome(call[k].corr)
               y == IF call[k].client = "charging" /\ o # "none"
                      THEN o ELSE call[k].client
    <3>1. SetSides(k, y, "none")
      BY <2>1 DEF ReplayCharge, Reply
    <3>2. \/ Approves(j, c)
          \/ j = k /\ call[k].corr = c /\ y = "approved"
      BY <1>1, <3>1, SidesApprove
    <3> QED
      BY <3>2 DEF Approves, LedgerOutcome
  <2>2. ASSUME NEW k \in Slot, AcceptCharge(k)
        PROVE  Goal
    <3>1. call' = [call EXCEPT ![k] = [call[k] EXCEPT !.server = "deciding"]]
      BY <2>2 DEF AcceptCharge
    <3>2. call[k] \in Call /\ call \in [Slot -> Call]
      BY <1>1 DEF CallTypeOK
    <3>3. call'[j].client = call[j].client /\ call'[j].corr = call[j].corr
      BY <3>1, <3>2 DEF Call
    <3> QED
      BY <3>3 DEF Approves
  <2>3. ASSUME NEW k \in Slot, NEW mode \in AllModes, DecideCharge(k, mode)
        PROVE  Goal
    <3>1. Answer(mode) = "approved" => mode = "ok" /\ Recorded(mode) = "APPROVED"
      BY DEF Answer, Recorded, AllModes
    <3> DEFINE o == Answer(mode)
               y == IF call[k].client = "charging" /\ o # "none"
                      THEN o ELSE call[k].client
    <3>2. SetSides(k, y, "none")
      BY <2>3 DEF DecideCharge, Reply
    <3> HIDE DEF o
    <3>3. \/ Approves(j, c)
          \/ j = k /\ call[k].corr = c /\ y = "approved"
      BY <1>1, <3>2, SidesApprove
    <3>4. \/ Approves(j, c)
          \/ j = k /\ call[k].corr = c /\ o = "approved"
      BY <3>3 DEF Approves
    <3>5. /\ mode \in Modes[call[k].corr]
          /\ RecordTransaction(call[k].corr, Recorded(mode))
      BY <2>3 DEF DecideCharge
    <3> QED
      BY <1>1, <3>1, <3>4, <3>5 DEF o, RecordTransaction
  <2>4. ASSUME NEW k \in Slot, ClientTimeout(k) \/ ConnectionReset(k)
        PROVE  Goal
    BY <1>3, <2>4 DEF ClientTimeout, ConnectionReset
  <2> QED
    BY <1>5, <2>1, <2>2, <2>3, <2>4 DEF Exchanges, ProviderStep, ProviderServes
<1>6. CASE Payments
  <2>1. CASE RelayStep
    BY <1>2, <2>1 DEF RelayStep, PublishOnce, Publish
  <2>2. ASSUME NEW k \in Slot, NEW d \in Saga, NEW a \in Attempts,
               DeliverFinished(k, d, a) \/ DeliverUnknown(k, d, a)
                 \/ DeliverCharge(k, d, a)
        PROVE  Goal
    <3>1. PICK client \in {"acking", "charging"}, server \in {"none", "arriving"} :
            Deliver(k, d, a, client, server)
      BY <2>2 DEF DeliverFinished, DeliverUnknown, DeliverCharge
    <3> QED
      BY <1>1, <3>1 DEF Deliver, CallTypeOK, Approves
  <2>3. ASSUME NEW k \in Slot, HandlerStep(k)
        PROVE  Goal
    BY <1>3, <2>3 DEF HandlerStep, FinishApproved, FinishUnknown, FinishFailed,
                      Finalize, RollBack, Commit, Ack
  <2> QED
    BY <1>6, <2>1, <2>2, <2>3 DEF Payments, WorkerStep, DeliverStep
<1>7. CASE Faults
  <2>1. ASSUME NEW k \in Slot, WorkerCrash(k) \/ CommitParked(k)
        PROVE  Goal
    BY <1>3, <2>1 DEF WorkerCrash, CommitParked
  <2>2. ASSUME NEW k \in Slot, ChannelLost(k)
        PROVE  Goal
    <3>1. call' = [call EXCEPT ![k] = [call[k] EXCEPT !.owned = FALSE]]
      BY <2>2 DEF ChannelLost
    <3>2. call[k] \in Call /\ call \in [Slot -> Call]
      BY <1>1 DEF CallTypeOK
    <3>3. call'[j].client = call[j].client /\ call'[j].corr = call[j].corr
      BY <3>1, <3>2 DEF Call
    <3> QED
      BY <3>3 DEF Approves
  <2>3. ASSUME NEW k \in Slot, ConnectionRefused(k)
        PROVE  Goal
    BY <1>4, <2>3 DEF ConnectionRefused
  <2> QED
    BY <1>2, <1>7, <2>1, <2>2, <2>3
       DEF Faults, WorkerFault, PublishUncommitted, Publish, ClaimParked,
           ProviderFault, paymentVars
<1>8. CASE API \/ Orchestration \/ Inventory \/ Recovery \/ UNCHANGED vars
  BY <1>2, <1>8 DEF API, Orchestration, Inventory, Recovery, paymentVars, vars
<1> QED
  BY <1>5, <1>6, <1>7, <1>8 DEF Next

(* The reconciler believes in a charge because the ledger has it. *)
LEMMA ChargedMoves ==
  ASSUME TypeOK, [Next]_vars, task' = "charged"
  PROVE  /\ subject' = subject
         /\ task = "charged" \/ ledger[subject] = "APPROVED"
<1>1. CASE Recovery
  <2>1. CASE Lookup
    BY <2>1 DEF Lookup
  <2>2. ASSUME SelectUnknown \/ SelectStuck \/ SelectCompensating
               \/ Resolve \/ MarkPaymentUnknown
        PROVE  FALSE
    BY <2>2 DEF SelectUnknown, SelectStuck, SelectCompensating, Select,
                Resolve, MarkPaymentUnknown, Resume, Unfinished
  <2>3. ASSUME NEW x \in batch,
               ClaimUnknown(x) \/ Sweep(x) \/ GiveUp(x) \/ RetryCompensation(x)
        PROVE  FALSE
    BY <2>3 DEF ClaimUnknown, Sweep, GiveUp, RetryCompensation, Continue,
                Handled, Unfinished
  <2> QED
    BY <1>1, <2>1, <2>2, <2>3 DEF Recovery, JobStep
<1>2. CASE Faults
  <2>1. ASSUME JobFault
        PROVE  FALSE
    BY <2>1 DEF JobFault, LookupFails, TickDies, Resume, Unfinished
  <2> QED
    BY <1>2, <2>1 DEF Faults, jobVars
<1>3. CASE API \/ Orchestration \/ Inventory \/ Payments \/ Exchanges
           \/ UNCHANGED vars
  BY <1>3 DEF API, Orchestration, Inventory, Payments, Exchanges, vars, jobVars
<1> QED
  BY <1>1, <1>2, <1>3 DEF Next

(* A receipt is sent on the orchestrator's command. *)
LEMMA NotifiedMoves ==
  ASSUME TypeOK, [Next]_vars, NEW c \in notified'
  PROVE  c \in notified \/ Has(c, "SEND_NOTIFICATION")
<1>1. CASE NotificationStep
  <2>1. PICK r \in outbox : Notify(r)
    BY <1>1 DEF NotificationStep
  <2>2. Has(r.corr, "SEND_NOTIFICATION")
    BY <2>1 DEF Notify, Has, Sent
  <2> QED
    BY <2>1, <2>2 DEF Notify
<1>2. CASE UNCHANGED notified
  BY <1>2
<1> QED
  BY <1>1, <1>2
     DEF Next, API, Checkout, Orchestration, OrchestratorStep, ApplySagaEvent,
         Inventory, Payments, Exchanges, Recovery, Faults, vars

(* The chain holds from the start and no step breaks a link of it. *)
LEMMA MoneyInvariant == Spec => []MoneyInv
<1>1. Init => MoneyInv
  BY DEF Init, BusInit, OrchestratorInit, PaymentInit, ProviderInit, NoCall,
         ReconcilerInit, MoneyInv, Believed, Approves, Has, Sent
<1>2. TypeOK /\ MoneyInv /\ [Next]_vars => MoneyInv'
  <2> SUFFICES ASSUME TypeOK, MoneyInv, [Next]_vars, NEW c \in Saga
               PROVE  /\ ledger'[c] = "DECLINED" => "fail" \in Modes[c]
                      /\ Believed(c)' => Backed(c)'
    BY DEF MoneyInv
  <2>1. LedgerMove(c)
    BY LedgerMoves
  <2>2. ledger'[c] = "DECLINED" => "fail" \in Modes[c]
    BY <2>1 DEF LedgerMove, MoneyInv
  <2>3. ledger[c] = "APPROVED" => Backed(c)'
    BY <2>1 DEF LedgerMove, Backed, Unmixed
  <2>4. Believed(c) => Backed(c)'
    BY <2>1 DEF MoneyInv, LedgerMove, Backed, Unmixed
  <2>5. ASSUME NEW k \in Slot, Approves(k, c)'
        PROVE  Backed(c)'
    <3>1. CASE Approves(k, c)
      BY <2>4, <3>1 DEF Believed
    <3>2. CASE ledger[c] = "APPROVED"
      BY <2>3, <3>2
    <3>3. CASE /\ "ok" \in Modes[c]
               /\ ledger'[c] = IF ledger[c] = "NONE" THEN "APPROVED"
                               ELSE ledger[c]
      <4>1. ledger[c] \in {"NONE", "APPROVED", "DECLINED"}
        BY DEF TypeOK, PaymentTypeOK, ProviderTypeOK
      <4>2. Unmixed(c) => ledger[c] # "DECLINED"
        BY <3>3 DEF Unmixed, MoneyInv
      <4> QED
        BY <3>3, <4>1, <4>2 DEF Backed, Unmixed
    <3> QED
      BY <2>5, <3>1, <3>2, <3>3, ApprovalMoves
  <2>6. ASSUME task' = "charged", subject' = c
        PROVE  Backed(c)'
    BY <2>3, <2>4, <2>6, ChargedMoves DEF Believed
  <2>7. ASSUME payment'[c] = "SUCCEEDED"
        PROVE  Backed(c)'
    BY <2>4, <2>7, PaymentMoves DEF Believed, PaymentMove, Approves
  <2>8. ASSUME Has(c, "PAYMENT_SUCCEEDED")'
        PROVE  Backed(c)'
    <3>1. Has(c, "PAYMENT_SUCCEEDED") \/ Cause(c, "PAYMENT_SUCCEEDED")
      BY <2>8, HasMoves, MessageNames
    <3> QED
      BY <2>4, <3>1 DEF Believed, Cause, Approves
  <2>9. ASSUME wf'[c] \in {"SENDING_NOTIFICATION", "COMPLETED"}
        PROVE  Backed(c)'
    BY <2>4, <2>9, WorkflowMoves DEF Believed, WorkflowMove
  <2>10. ASSUME Has(c, "SEND_NOTIFICATION")'
         PROVE  Backed(c)'
    <3>1. Has(c, "SEND_NOTIFICATION") \/ Cause(c, "SEND_NOTIFICATION")
      BY <2>10, HasMoves, MessageNames
    <3> QED
      BY <2>4, <2>9, <3>1 DEF Believed, Cause
  <2>11. ASSUME c \in notified'
         PROVE  Backed(c)'
    BY <2>4, <2>11, NotifiedMoves DEF Believed
  <2> QED
    BY <2>2, <2>5, <2>6, <2>7, <2>8, <2>9, <2>10, <2>11 DEF Believed
<1> QED
  BY <1>1, <1>2, TypeCorrect, PTL DEF Spec

(* Whatever the provider does, a receipt rests on a row of its ledger.     *)
THEOREM ReceiptRecorded ==
  Spec => [](\A c \in Saga :
               wf[c] = "COMPLETED" \/ c \in notified => ledger[c] # "NONE")
<1>1. MoneyInv => \A c \in Saga :
                    wf[c] = "COMPLETED" \/ c \in notified => ledger[c] # "NONE"
  BY DEF MoneyInv, Believed, Backed
<1> QED
  BY <1>1, MoneyInvariant, PTL

(* A receipt goes only to a customer whose charge the provider approved.   *)
THEOREM ReceiptHonest ==
  ASSUME UnmixedModes
  PROVE  Spec => []ReceiptOnlyIfCharged
<1>1. MoneyInv => ReceiptOnlyIfCharged
  BY UnmixedModes DEF UnmixedModes, MoneyInv, Believed, Backed,
                      ReceiptOnlyIfCharged
<1> QED
  BY <1>1, MoneyInvariant, PTL
=============================================================================
