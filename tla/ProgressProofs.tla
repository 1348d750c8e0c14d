--------------------------- MODULE ProgressProofs ---------------------------
(***************************************************************************)
(* Why a checkout goes on, for any number of sagas and slots and any       *)
(* limits: no event is ignored before its time, whatever goes wrong; and   *)
(* unless a message, a channel or a tick of the jobs is lost, every        *)
(* unfinished saga has somebody who will move it on.                       *)
(***************************************************************************)
EXTENDS StockProofs, RecoveryProofs

-----------------------------------------------------------------------------
(* What is announced, and what is claimed. *)

PaymentEvents == {"PAYMENT_SUCCEEDED", "PAYMENT_FAILED", "PAYMENT_UNKNOWN"}

(* An outcome is announced of a payment that was asked for, an answer of a *)
(* command that was sent.  Nobody announces NOTIFICATION_FAILED.           *)
EventCause(c, t) ==
  /\ t \in PaymentEvents => Asked(c) \/ AtWork(c)
  /\ t = "NOTIFICATION_SENT" => Has(c, "SEND_NOTIFICATION")
  /\ t = "INVENTORY_RELEASE_FAILED" => Has(c, "RELEASE_INVENTORY")
  /\ t # "NOTIFICATION_FAILED"

(* What the saga table says of each event: where it is waited for, and     *)
(* that it is waited for no more where it leads.                           *)
LEMMA SagaTable ==
  ASSUME NEW e \in SagaEvents
  PROVE  /\ SagaTransitions[e].to \notin SagaTransitions[e].from
         /\ e \in {"INVENTORY_RESERVED", "INVENTORY_FAILED"}
              => SagaTransitions[e].from = {"RESERVING_INVENTORY"}
         /\ e \in {"PAYMENT_SUCCEEDED", "PAYMENT_FAILED"}
              => SagaTransitions[e].from =
                   {"PROCESSING_PAYMENT", "AWAITING_RECONCILIATION"}
         /\ e = "PAYMENT_UNKNOWN"
              => SagaTransitions[e].from = {"PROCESSING_PAYMENT"}
         /\ e \in {"NOTIFICATION_SENT", "NOTIFICATION_FAILED"}
              => SagaTransitions[e].from = {"SENDING_NOTIFICATION"}
         /\ e \in {"INVENTORY_RELEASED", "INVENTORY_RELEASE_FAILED"}
              => SagaTransitions[e].from = {"COMPENSATING_INVENTORY"}
<1> USE DEF SagaTransitions, Rule
<1>1. CASE e = "INVENTORY_RESERVED"
  BY <1>1
<1>2. CASE e = "PAYMENT_SUCCEEDED"
  BY <1>2
<1>3. CASE e = "NOTIFICATION_SENT"
  BY <1>3
<1>4. CASE e = "INVENTORY_FAILED"
  BY <1>4
<1>5. CASE e = "PAYMENT_FAILED"
  BY <1>5
<1>6. CASE e = "PAYMENT_UNKNOWN"
  BY <1>6
<1>7. CASE e = "INVENTORY_RELEASED"
  BY <1>7
<1>8. CASE e = "INVENTORY_RELEASE_FAILED"
  BY <1>8
<1>9. CASE e = "NOTIFICATION_FAILED"
  BY <1>9
<1> QED
  BY EventNames, <1>1, <1>2, <1>3, <1>4, <1>5, <1>6, <1>7, <1>8, <1>9

Announces == \E d, u : Enqueue(d, u) /\ EventCause(d, u)

(* A step announces nothing, or one thing that has a cause. *)
LEMMA StepAnnounces ==
  ASSUME TypeOK, [Next]_vars
  PROVE  UNCHANGED outbox \/ Announces
<1> USE DEF EventCause, PaymentEvents
<1>1. CASE API
  BY <1>1 DEF API, Checkout, Announces
<1>2. CASE Orchestration
  <2>1. ASSUME NEW r \in outbox, Notify(r)
        PROVE  Announces
    <3>1. Has(r.corr, "SEND_NOTIFICATION") /\ Enqueue(r.corr, "NOTIFICATION_SENT")
      BY <2>1 DEF Notify, Has, Sent
    <3> QED
      BY <3>1 DEF Announces
  <2>2. ASSUME NEW r \in outbox, ApplySagaEvent(r)
        PROVE  UNCHANGED outbox \/ Announces
    <3> DEFINE u == SagaTransitions[r.type].command
    <3>1. u \in {""} \cup Commands
      BY <2>2, RuleTypes DEF ApplySagaEvent
    <3>2. UNCHANGED outbox \/ (u # "" /\ Enqueue(r.corr, u))
      BY <2>2 DEF ApplySagaEvent, Advance
    <3> HIDE DEF u
    <3>3. u \in Commands => EventCause(r.corr, u)
      BY DEF Commands
    <3> QED
      BY <3>1, <3>2, <3>3 DEF Announces
  <2> QED
    BY <1>2, <2>1, <2>2 DEF Orchestration, OrchestratorStep, NotificationStep
<1>3. ASSUME NEW r \in outbox, ReleaseFails(r)
      PROVE  Announces
  <2>1. /\ Has(r.corr, "RELEASE_INVENTORY")
        /\ Enqueue(r.corr, "INVENTORY_RELEASE_FAILED")
    BY <1>3 DEF ReleaseFails, Has, Sent
  <2> QED
    BY <2>1 DEF Announces
<1>4. CASE Inventory
  <2>1. ASSUME NEW r \in outbox, Reserve(r)
        PROVE  Announces
    <3>1. PICK u \in {"INVENTORY_RESERVED", "INVENTORY_FAILED"} :
            Enqueue(r.corr, u)
      BY <2>1 DEF Reserve
    <3> QED
      BY <3>1 DEF Announces
  <2>2. ASSUME NEW r \in outbox, Release(r)
        PROVE  Announces
    BY <2>2 DEF Release, Announces
  <2> QED
    BY <1>3, <1>4, <2>1, <2>2
       DEF Inventory, InventoryStep, ReserveAborts, ReleaseExhausted
<1>5. CASE Payments
  <2>1. CASE RelayStep
    BY <2>1 DEF RelayStep, PublishOnce, Publish
  <2>2. ASSUME NEW k \in Slot, NEW c \in Saga, NEW a \in Attempts,
               DeliverFinished(k, c, a)
        PROVE  Announces
    <3>1. Asked(c)
      BY <2>2 DEF DeliverFinished, Deliver, RemoveCopy, Asked
    <3>2. PICK u \in PaymentEvents : Enqueue(c, u)
      BY <2>2 DEF DeliverFinished
    <3> QED
      BY <3>1, <3>2 DEF Announces
  <2>3. ASSUME NEW k \in Slot, FinishApproved(k) \/ FinishUnknown(k) \/ FinishFailed(k)
        PROVE  Announces
    <3>1. Asked(call[k].corr)
      BY DEF Asked
    <3>2. PICK u \in PaymentEvents : Enqueue(call[k].corr, u)
      BY <2>3 DEF FinishApproved, FinishUnknown, FinishFailed, Finalize
    <3> QED
      BY <3>1, <3>2 DEF Announces
  <2> QED
    BY <1>5, <2>1, <2>2, <2>3
       DEF Payments, WorkerStep, DeliverStep, DeliverUnknown, DeliverCharge,
           HandlerStep, RollBack, Ack, busVars
<1>6. CASE Recovery
  <2>1. CASE Resolve
    <3>1. AtWork(subject)
      BY <2>1 DEF Resolve, AtWork
    <3>2. PICK u \in PaymentEvents : Enqueue(subject, u)
      BY <2>1 DEF Resolve
    <3> QED
      BY <3>1, <3>2 DEF Announces
  <2>2. ASSUME NEW x \in batch, RetryCompensation(x)
        PROVE  Announces
    BY <2>2 DEF RetryCompensation, Announces
  <2> QED
    BY <1>6, <2>1, <2>2
       DEF Recovery, JobStep, SelectUnknown, Lookup, SelectStuck, Sweep,
           SelectCompensating, GiveUp, MarkPaymentUnknown, ClaimUnknown
<1>7. CASE Faults
  BY <1>3, <1>7
     DEF Faults, Park, InventoryFault, ReleaseExhaustedUnacked, WorkerFault,
         PublishUncommitted, Publish, WorkerCrash, ChannelLost, CommitParked,
         ClaimParked, ProviderFault, ConnectionRefused, JobFault, LookupFails,
         TickDies
<1>8. CASE Exchanges \/ UNCHANGED vars
  BY <1>8 DEF Exchanges, ProviderStep, busVars, vars
<1> QED
  BY <1>1, <1>2, <1>4, <1>5, <1>6, <1>7, <1>8 DEF Next

(* The first row of a type has a cause. *)
LEMMA FirstAnnounced ==
  ASSUME TypeOK, [Next]_vars, NEW c \in Saga, NEW t, ~ Has(c, t), Has(c, t)'
  PROVE  EventCause(c, t)
<1>1. Sent(c, t)' # Sent(c, t)
  BY DEF Has
<1>2. outbox' # outbox
  BY <1>1 DEF Sent
<1>3. PICK d, u : Enqueue(d, u) /\ EventCause(d, u)
  BY <1>2, StepAnnounces DEF Announces
<1>4. c = d /\ t = u
  BY <1>1, <1>3, EnqueueSent
<1> QED
  BY <1>3, <1>4

(* A row is claimed by the handler it is for, with the handler's work. *)
LEMMA Claims ==
  ASSUME [Next]_vars, NEW r \in inbox', r \notin inbox
  PROVE  /\ r \in outbox /\ Deliverable(r) /\ UNCHANGED retired
         /\ \/ ApplySagaEvent(r) \/ Notify(r)
            \/ Reserve(r) \/ Release(r)
<1>1. CASE Orchestration
  <2>1. PICK q \in outbox : ApplySagaEvent(q) \/ Notify(q)
    BY <1>1 DEF Orchestration, OrchestratorStep, NotificationStep
  <2>2. q = r
    BY <2>1 DEF ApplySagaEvent, Notify, WithInbox
  <2> QED
    BY <2>1, <2>2 DEF ApplySagaEvent, Notify, WithInbox
<1>2. CASE Inventory
  <2>1. PICK q \in outbox : Reserve(q) \/ Release(q)
    BY <1>2 DEF Inventory, InventoryStep, ReserveAborts, ReleaseExhausted,
                ReleaseFails
  <2>2. q = r
    BY <2>1 DEF Reserve, Release, WithInbox
  <2> QED
    BY <2>1, <2>2 DEF Reserve, Release, WithInbox
<1>3. CASE Payments
  BY <1>3
     DEF Payments, WorkerStep, RelayStep, DeliverStep, HandlerStep,
         PublishOnce, Publish, DeliverFinished, DeliverUnknown, DeliverCharge,
         Deliver, FinishApproved, FinishUnknown, FinishFailed, Finalize,
         RollBack, Commit, Ack, busVars
<1>4. CASE Faults
  BY <1>4
     DEF Faults, Park, InventoryFault, ReleaseExhaustedUnacked, ReleaseFails,
         WorkerFault, PublishUncommitted, Publish, WorkerCrash, ChannelLost,
         CommitParked, ClaimParked, ProviderFault, ConnectionRefused, JobFault,
         LookupFails, TickDies
<1>5. CASE API \/ Exchanges \/ Recovery \/ UNCHANGED vars
  BY <1>5 DEF API, Checkout, Exchanges, ProviderStep, Recovery, JobStep,
              busVars, vars
<1> QED
  BY <1>1, <1>2, <1>3, <1>4, <1>5 DEF Next

-----------------------------------------------------------------------------
(* Nothing ignored too early.  An event has a command behind it, and a     *)
(* command is sent by the move into the state that waits for its answers:  *)
(* when a workflow enters a state, none of the events it waits for there   *)
(* has been announced yet, unless it waited for them already.              *)
EventInv ==
  \A c \in Saga :
    /\ \A t \in {"INVENTORY_RESERVED", "INVENTORY_FAILED"} :
         Has(c, t) => wf[c] # "NONE"
    /\ \A t \in PaymentEvents : Has(c, t) => Has(c, "PROCESS_PAYMENT")
    /\ Has(c, "NOTIFICATION_SENT") => Has(c, "SEND_NOTIFICATION")
    /\ Has(c, "INVENTORY_RELEASE_FAILED") => Has(c, "RELEASE_INVENTORY")
    /\ ~ Has(c, "NOTIFICATION_FAILED")
    /\ payment[c] # "NONE" => Has(c, "PROCESS_PAYMENT")
    /\ AtWork(c) => payment[c] # "NONE"

(* A payment begins with a delivery of its command. *)
LEMMA FirstPayment ==
  ASSUME TypeOK, [Next]_vars, NEW c \in Saga,
         payment[c] = "NONE", payment'[c] # "NONE"
  PROVE  Asked(c)
<1>1. payment \in [Saga -> PaymentStates \cup {"NONE"}] /\ "NONE" \notin PaymentStates
  BY PaymentTypes DEF TypeOK, PaymentStates, PaymentTransitions
<1> USE TransitionMoves
<1>2. CASE Payments
  <2>1. ASSUME NEW k \in Slot, NEW d \in Saga, NEW a \in Attempts,
               DeliverFinished(k, d, a) \/ DeliverUnknown(k, d, a)
                 \/ DeliverCharge(k, d, a)
        PROVE  Asked(c)
    <3>1. d = c /\ DeliverCharge(k, d, a)
      BY <1>1, <2>1 DEF DeliverFinished, DeliverUnknown, DeliverCharge
    <3> QED
      BY <3>1 DEF DeliverCharge, Deliver, RemoveCopy, Asked
  <2>2. ASSUME NEW k \in Slot, HandlerStep(k)
        PROVE  FALSE
    BY <1>1, <2>2 DEF HandlerStep, FinishApproved, FinishUnknown, FinishFailed,
                      Finalize, RollBack, Ack
  <2> QED
    BY <1>2, <2>1, <2>2 DEF Payments, WorkerStep, DeliverStep, RelayStep,
                            PublishOnce, Publish
<1>3. CASE Recovery
  BY <1>1, <1>3
     DEF Recovery, JobStep, SelectUnknown, Lookup, Resolve, SelectStuck, Sweep,
         MarkPaymentUnknown, ClaimUnknown, SelectCompensating, GiveUp,
         RetryCompensation
<1>4. CASE Faults
  BY <1>1, <1>4
     DEF Faults, JobFault, LookupFails, TickDies, WorkerFault, Publish,
         PublishUncommitted, WorkerCrash, ChannelLost, CommitParked,
         ClaimParked, paymentVars
<1>5. CASE API \/ Orchestration \/ Inventory \/ Exchanges \/ UNCHANGED vars
  BY <1>5 DEF API, Orchestration, Inventory, Exchanges, vars, paymentVars
<1> QED
  BY <1>2, <1>3, <1>4, <1>5 DEF Next

(* The loop takes up no payment that has not begun. *)
LEMMA WorkBegins ==
  ASSUME TypeOK, [Next]_vars, NEW c \in Saga, ~ AtWork(c), AtWork(c)'
  PROVE  payment[c] = "UNKNOWN"
<1>1. CASE Recovery
  <2>1. ASSUME NEW x \in batch, ClaimUnknown(x)
        PROVE  payment[c] = "UNKNOWN"
    BY <2>1 DEF ClaimUnknown, Continue, Handled, Unfinished, AtWork
  <2>2. ASSUME NEW x \in batch, Sweep(x) \/ GiveUp(x) \/ RetryCompensation(x)
        PROVE  FALSE
    BY <2>2 DEF Sweep, GiveUp, RetryCompensation, Continue, Handled,
                Unfinished, AtWork
  <2>3. CASE Lookup
    BY <2>3 DEF Lookup, AtWork
  <2> QED
    BY <1>1, <2>1, <2>2, <2>3
       DEF Recovery, JobStep, SelectUnknown, SelectStuck, SelectCompensating,
           Select, Resolve, MarkPaymentUnknown, Resume, Unfinished, AtWork
<1>2. CASE Faults
  BY <1>2 DEF Faults, JobFault, LookupFails, TickDies, Resume, Unfinished,
              jobVars, AtWork
<1>3. CASE API \/ Orchestration \/ Inventory \/ Payments \/ Exchanges
           \/ UNCHANGED vars
  BY <1>3 DEF API, Orchestration, Inventory, Payments, Exchanges, vars,
              jobVars, AtWork
<1> QED
  BY <1>1, <1>2, <1>3 DEF Next

(* Events have their origin from the start and at every step. *)
LEMMA EventInvariant == Spec => []EventInv
<1>1. Init => EventInv
  BY DEF Init, BusInit, PaymentInit, ReconcilerInit, EventInv, AtWork, Has, Sent
<1>2. TypeOK /\ OriginInv /\ EventInv /\ [Next]_vars => EventInv'
  <2> SUFFICES ASSUME TypeOK, OriginInv, EventInv, [Next]_vars, NEW c \in Saga
               PROVE  /\ \A t \in {"INVENTORY_RESERVED", "INVENTORY_FAILED"} :
                           Has(c, t)' => wf'[c] # "NONE"
                      /\ \A t \in PaymentEvents :
                           Has(c, t)' => Has(c, "PROCESS_PAYMENT")'
                      /\ Has(c, "NOTIFICATION_SENT")'
                           => Has(c, "SEND_NOTIFICATION")'
                      /\ Has(c, "INVENTORY_RELEASE_FAILED")'
                           => Has(c, "RELEASE_INVENTORY")'
                      /\ ~ Has(c, "NOTIFICATION_FAILED")'
                      /\ payment'[c] # "NONE" => Has(c, "PROCESS_PAYMENT")'
                      /\ AtWork(c)' => payment'[c] # "NONE"
    BY DEF EventInv
  <2>1. ASSUME NEW t \in {"PROCESS_PAYMENT", "SEND_NOTIFICATION",
                          "RELEASE_INVENTORY"}, Has(c, t)
        PROVE  Has(c, t)'
    BY <2>1, HasLasts, MessageNames
  <2>2. ASSUME NEW t \in {"INVENTORY_RESERVED", "INVENTORY_FAILED"}, Has(c, t)'
        PROVE  wf'[c] # "NONE"
    <3>1. Has(c, t) \/ Cause(c, t)
      BY <2>2, HasMoves, MessageNames
    <3>2. Cause(c, t) => Has(c, "RESERVE_INVENTORY")
      BY DEF Cause, Reserve, Has, Sent
    <3>3. wf[c] # "NONE"
      BY <3>1, <3>2 DEF EventInv, OriginInv
    <3> QED
      BY <3>3, WorkflowMoves DEF WorkflowMove
  <2>3. Asked(c) \/ AtWork(c) => Has(c, "PROCESS_PAYMENT")
    BY DEF OriginInv, EventInv
  <2>4. ASSUME NEW t \in PaymentEvents, Has(c, t)'
        PROVE  Has(c, "PROCESS_PAYMENT")'
    BY <2>1, <2>3, <2>4, FirstAnnounced DEF EventCause, EventInv
  <2>5. Has(c, "NOTIFICATION_SENT")' => Has(c, "SEND_NOTIFICATION")'
    BY <2>1, FirstAnnounced DEF EventCause, EventInv
  <2>6. Has(c, "INVENTORY_RELEASE_FAILED")' => Has(c, "RELEASE_INVENTORY")'
    BY <2>1, FirstAnnounced DEF EventCause, EventInv
  <2>7. ~ Has(c, "NOTIFICATION_FAILED")'
    BY FirstAnnounced DEF EventCause, EventInv
  <2>8. payment'[c] # "NONE" => Has(c, "PROCESS_PAYMENT")'
    BY <2>1, <2>3, FirstPayment DEF EventInv
  <2>9. AtWork(c)' => payment'[c] # "NONE"
    BY WorkBegins, PaymentMoves DEF PaymentMove, EventInv
  <2> QED
    BY <2>2, <2>4, <2>5, <2>6, <2>7, <2>8, <2>9
<1> QED
  BY <1>1, <1>2, TypeCorrect, OriginInvariant, PTL DEF Spec

(* An event that is claimed while the workflow accepts it moves it where   *)
(* it does not accept it any more.                                         *)
LEMMA ClaimMovesOn ==
  ASSUME TypeOK, [Next]_vars, NEW c \in Saga, NEW e \in SagaEvents,
         NEW r \in Sent(c, e), r \notin inbox, r \in inbox', Accepts(c, e)
  PROVE  ~ Accepts(c, e)'
<1>1. r.corr = c /\ r.type = e
  BY DEF Sent
<1>2. wf \in [Saga -> WorkflowStates \cup {"NONE"}]
  BY DEF TypeOK, OrchestratorTypeOK
<1>3. ApplySagaEvent(r)
  BY <1>1, Claims, EventNames DEF Notify, Reserve, Release
<1>4. wf'[c] = SagaTransitions[e].to
  BY <1>1, <1>2, <1>3 DEF ApplySagaEvent, Advance
<1> QED
  BY <1>4, SagaTable DEF Accepts

(* A workflow enters a state before any event it waits for there.          *)
LEMMA EntersEarly ==
  ASSUME TypeOK, UndoInv, AskInv, OriginInv, EventInv, [Next]_vars,
         NEW c \in Saga, NEW e \in SagaEvents, ~ Accepts(c, e), Accepts(c, e)'
  PROVE  ~ Has(c, e)
<1>1. WorkflowMove(c)
  BY WorkflowMoves
<1>2. /\ wf[c] \notin SagaTransitions[e].from
      /\ wf'[c] \in SagaTransitions[e].from
  BY DEF Accepts
<1>3. wf'[c] # wf[c]
  BY <1>2
<1>4. CASE e \in {"INVENTORY_RESERVED", "INVENTORY_FAILED"}
  <2>1. wf'[c] = "RESERVING_INVENTORY"
    BY <1>2, <1>4, SagaTable
  <2>2. wf[c] = "NONE"
    BY <1>1, <1>3, <2>1 DEF WorkflowMove
  <2> QED
    BY <1>4, <2>2 DEF EventInv
<1>5. CASE e \in PaymentEvents
  <2>1. /\ wf[c] # "PROCESSING_PAYMENT"
        /\ wf'[c] \in {"PROCESSING_PAYMENT", "AWAITING_RECONCILIATION"}
    BY <1>2, <1>5, SagaTable DEF PaymentEvents
  <2>2. wf[c] = "RESERVING_INVENTORY"
    BY <1>1, <1>3, <2>1 DEF WorkflowMove
  <2> QED
    BY <1>5, <2>2 DEF EventInv, OriginInv
<1>6. CASE e \in {"NOTIFICATION_SENT", "NOTIFICATION_FAILED"}
  <2>1. wf'[c] = "SENDING_NOTIFICATION"
    BY <1>2, <1>6, SagaTable
  <2>2. wf[c] \in {"PROCESSING_PAYMENT", "AWAITING_RECONCILIATION"}
    BY <1>1, <1>3, <2>1 DEF WorkflowMove
  <2> QED
    BY <1>6, <2>2 DEF EventInv, AskInv
<1>7. CASE e \in {"INVENTORY_RELEASED", "INVENTORY_RELEASE_FAILED"}
  <2>1. wf'[c] = "COMPENSATING_INVENTORY"
    BY <1>2, <1>7, SagaTable
  <2>2. wf[c] \in {"PROCESSING_PAYMENT", "AWAITING_RECONCILIATION"}
    BY <1>1, <1>3, <2>1 DEF WorkflowMove
  <2>3. wf[c] \notin Undoing
    BY <2>2 DEF Undoing
  <2> QED
    BY <1>7, <2>3 DEF EventInv, UndoInv
<1> QED
  BY EventNames, <1>4, <1>5, <1>6, <1>7 DEF PaymentEvents

(* Whatever is lost, repeated, cut short or swept, no event is ignored     *)
(* that the workflow waits for now or will wait for later.                 *)
THEOREM NoneIgnoredTooEarly == Spec => []NothingIgnoredTooEarly
<1>1. Init => NothingIgnoredTooEarly
  BY DEF Init, BusInit, NothingIgnoredTooEarly
<1>2. TypeOK /\ UndoInv /\ AskInv /\ OriginInv /\ EventInv
        /\ NothingIgnoredTooEarly /\ [Next]_vars
        => NothingIgnoredTooEarly'
  <2> SUFFICES ASSUME TypeOK, UndoInv, AskInv, OriginInv, EventInv,
                      NothingIgnoredTooEarly, [Next]_vars, NEW c \in Saga,
                      NEW e \in SagaEvents, Accepts(c, e)',
                      NEW r \in Sent(c, e)', r \in inbox'
               PROVE  FALSE
    BY DEF NothingIgnoredTooEarly
  <2>1. r \in Sent(c, e)
    BY NewRowWaits DEF Sent
  <2>2. CASE Accepts(c, e)
    <3>1. r \notin inbox
      BY <2>1, <2>2 DEF NothingIgnoredTooEarly
    <3> QED
      BY <2>1, <2>2, <3>1, ClaimMovesOn
  <2>3. CASE ~ Accepts(c, e)
    <3>1. ~ Has(c, e)
      BY <2>3, EntersEarly
    <3> QED
      BY <2>1, <3>1 DEF Has
  <2> QED
    BY <2>2, <2>3
<1> QED
  BY <1>1, <1>2, TypeCorrect, UndoInvariant, AskInvariant, OriginInvariant,
     EventInvariant, PTL DEF Spec

-----------------------------------------------------------------------------
(* Nobody forgotten.  Three facts leave no gap between one party's work    *)
(* and the next one's: the step a workflow is in has its command, a        *)
(* command that was taken has an answer, and a payment with a verdict has  *)
(* the event that tells it.                                                *)
CommandInv ==
  \A c \in Saga :
    /\ wf[c] # "STARTED"
    /\ wf[c] = "RESERVING_INVENTORY" => Has(c, "RESERVE_INVENTORY")
    /\ wf[c] \in {"PROCESSING_PAYMENT", "AWAITING_RECONCILIATION"}
         => Has(c, "PROCESS_PAYMENT")
    /\ wf[c] = "SENDING_NOTIFICATION" => Has(c, "SEND_NOTIFICATION")
    /\ wf[c] = "COMPENSATING_INVENTORY" => Has(c, "RELEASE_INVENTORY")

Reservations == {"INVENTORY_RESERVED", "INVENTORY_FAILED"}
Releases == {"INVENTORY_RELEASED", "INVENTORY_RELEASE_FAILED"}

AnswerInv ==
  \A r \in outbox : r \in inbox \cup retired =>
    /\ r.type = "RESERVE_INVENTORY" => \E e \in Reservations : Has(r.corr, e)
    /\ r.type = "SEND_NOTIFICATION" => Has(r.corr, "NOTIFICATION_SENT")
    /\ r.type = "RELEASE_INVENTORY" => \E e \in Releases : Has(r.corr, e)
    /\ r \in retired => r.type \in {"PROCESS_PAYMENT", "RELEASE_INVENTORY"}

VerdictInv ==
  \A c \in Saga :
    /\ payment[c] # "CANCELLED"
    /\ payment[c] = "SUCCEEDED" => Has(c, "PAYMENT_SUCCEEDED")
    /\ payment[c] = "FAILED" => Has(c, "PAYMENT_FAILED")

(* The move into a step sends the command of the step. *)
Commissions(c) ==
  /\ wf'[c] # "STARTED"
  /\ wf'[c] = "RESERVING_INVENTORY" => Has(c, "RESERVE_INVENTORY")'
  /\ wf'[c] = "PROCESSING_PAYMENT" => Has(c, "PROCESS_PAYMENT")'
  /\ wf'[c] = "SENDING_NOTIFICATION" => Has(c, "SEND_NOTIFICATION")'
  /\ wf'[c] = "COMPENSATING_INVENTORY" => Has(c, "RELEASE_INVENTORY")'

LEMMA EntersWithCommand ==
  ASSUME TypeOK, [Next]_vars, NEW c \in Saga, wf'[c] # wf[c]
  PROVE  Commissions(c)
<1>1. wf \in [Saga -> WorkflowStates \cup {"NONE"}]
  BY DEF TypeOK, OrchestratorTypeOK
<1>2. CASE API
  <2>1. PICK d \in Saga : Checkout(d)
    BY <1>2 DEF API
  <2>2. d = c /\ wf'[c] = "RESERVING_INVENTORY"
    BY <1>1, <2>1 DEF Checkout
  <2>3. Sent(c, "RESERVE_INVENTORY")' # {}
    BY <2>1, <2>2, EnqueueHas DEF Checkout
  <2> QED
    BY <2>2, <2>3 DEF Commissions, Has
<1>3. CASE Orchestration
  <2>1. PICK r \in outbox : ApplySagaEvent(r)
    BY <1>3 DEF Orchestration, OrchestratorStep, NotificationStep, Notify
  <2>2. r.type \in SagaEvents /\ Advance(r.corr, r.type)
    BY <2>1 DEF ApplySagaEvent
  <2>3. r.corr = c
    BY <1>1, <2>2 DEF Advance
  <2> DEFINE e == r.type
             rule == SagaTransitions[e]
  <2>4. /\ wf'[c] = rule.to
        /\ rule.command # "" => Enqueue(c, rule.command)
    BY <1>1, <2>2, <2>3 DEF Advance
  <2> HIDE DEF rule
  <2>5. rule.command # "" => Has(c, rule.command)'
    BY <2>4, EnqueueHas DEF Has
  <2>6. /\ rule.to \notin {"STARTED", "RESERVING_INVENTORY"}
        /\ rule.to = "PROCESSING_PAYMENT" => rule.command = "PROCESS_PAYMENT"
        /\ rule.to = "SENDING_NOTIFICATION" => rule.command = "SEND_NOTIFICATION"
        /\ rule.to = "COMPENSATING_INVENTORY"
             => rule.command = "RELEASE_INVENTORY"
    BY <2>2, SagaTargets DEF rule
  <2> QED
    BY <2>4, <2>5, <2>6 DEF Commissions
<1>4. CASE Recovery
  <2>1. ASSUME NEW x \in batch, Sweep(x)
        PROVE  Commissions(c)
    <3>1. x.seen \in DOMAIN SweptTo
      BY <2>1 DEF Sweep, TypeOK, ReconcilerTypeOK
    <3>2. wf'[c] = SweptTo[x.seen]
      BY <1>1, <2>1 DEF Sweep, ForceState
    <3> QED
      BY <3>1, <3>2 DEF SweptTo, Commissions
  <2>2. ASSUME NEW x \in batch, GiveUp(x)
        PROVE  Commissions(c)
    BY <1>1, <2>2 DEF GiveUp, ForceState, Commissions
  <2> QED
    BY <1>4, <2>1, <2>2
       DEF Recovery, JobStep, SelectUnknown, Lookup, Resolve, SelectStuck,
           MarkPaymentUnknown, SelectCompensating, ClaimUnknown,
           RetryCompensation
<1>5. CASE Inventory \/ Payments \/ Exchanges \/ Faults \/ UNCHANGED vars
  BY <1>5 DEF Inventory, Payments, Exchanges, Faults, vars, JobFault,
              LookupFails, TickDies
<1> QED
  BY <1>2, <1>3, <1>4, <1>5 DEF Next

(* No step of a workflow is without its command. *)
LEMMA CommandInvariant == Spec => []CommandInv
<1>1. Init => CommandInv
  BY DEF Init, OrchestratorInit, CommandInv
<1>2. TypeOK /\ CommandInv /\ [Next]_vars => CommandInv'
  <2> SUFFICES ASSUME TypeOK, CommandInv, [Next]_vars, NEW c \in Saga
               PROVE  /\ Commissions(c)
                      /\ wf'[c] = "AWAITING_RECONCILIATION"
                           => Has(c, "PROCESS_PAYMENT")'
    BY DEF CommandInv, Commissions
  <2>1. WorkflowMove(c)
    BY WorkflowMoves
  <2>2. ASSUME NEW t \in {"RESERVE_INVENTORY", "PROCESS_PAYMENT",
                          "SEND_NOTIFICATION", "RELEASE_INVENTORY"}, Has(c, t)
        PROVE  Has(c, t)'
    BY <2>2, HasLasts, MessageNames
  <2>3. CASE wf'[c] = wf[c]
    BY <2>2, <2>3 DEF CommandInv, Commissions
  <2>4. CASE wf'[c] # wf[c]
    <3>1. Commissions(c)
      BY <2>4, EntersWithCommand
    <3>2. wf'[c] = "AWAITING_RECONCILIATION" => Has(c, "PROCESS_PAYMENT")'
      BY <2>1, <2>2, <2>4 DEF WorkflowMove, CommandInv
    <3> QED
      BY <3>1, <3>2
  <2> QED
    BY <2>3, <2>4
<1> QED
  BY <1>1, <1>2, TypeCorrect, PTL DEF Spec

(* Unless it is parked, a row is let go of only when it is published or    *)
(* when its failure is reported.                                           *)
LEMMA Retires ==
  ASSUME TypeOK, [Next]_vars, NothingDropped, ValidQuantities,
         NEW r \in retired', r \notin retired
  PROVE  PublishOnce(r) \/ ReleaseExhausted(r)
<1>1. CASE Payments
  <2>1. PICK q \in outbox : PublishOnce(q)
    BY <1>1 DEF Payments, WorkerStep, RelayStep, DeliverStep, HandlerStep,
                DeliverFinished, DeliverUnknown, DeliverCharge, Deliver,
                FinishApproved, FinishUnknown, FinishFailed, Finalize,
                RollBack, Commit, Ack, busVars
  <2>2. q = r
    BY <2>1 DEF PublishOnce
  <2> QED
    BY <2>1, <2>2
<1>2. CASE Inventory
  <2>1. ASSUME NEW q \in outbox
        PROVE  ValidLines(q.corr)
    BY DEF ValidQuantities, TypeOK, BusTypeOK, Row
  <2>2. PICK q \in outbox : ReleaseExhausted(q)
    BY <1>2, <2>1, NeverAborts DEF Inventory, InventoryStep, Reserve, Release,
                                   WithInbox
  <2>3. q = r
    BY <2>2 DEF ReleaseExhausted
  <2> QED
    BY <2>2, <2>3
<1>3. CASE Faults
  BY <1>3
     DEF Faults, Park, Fault, NothingDropped, InventoryFault,
         ReleaseExhaustedUnacked, WorkerFault, PublishUncommitted, WorkerCrash,
         ChannelLost, CommitParked, ClaimParked, ProviderFault,
         ConnectionRefused, JobFault, LookupFails, TickDies
<1>4. CASE API \/ Orchestration \/ Exchanges \/ Recovery \/ UNCHANGED vars
  BY <1>4 DEF API, Checkout, Orchestration, OrchestratorStep, NotificationStep,
              ApplySagaEvent, Notify, WithInbox, Exchanges, ProviderStep,
              Recovery, JobStep, busVars, vars
<1> QED
  BY <1>1, <1>2, <1>3, <1>4 DEF Next

(* A command is claimed, or given up, with an answer. *)
LEMMA AnswerInvariant ==
  ASSUME NothingDropped, ValidQuantities
  PROVE  Spec => []AnswerInv
<1>1. Init => AnswerInv
  BY DEF Init, BusInit, AnswerInv
<1>2. TypeOK /\ AnswerInv /\ [Next]_vars => AnswerInv'
  <2> SUFFICES ASSUME TypeOK, AnswerInv, [Next]_vars, NEW r \in outbox',
                      r \in inbox' \cup retired'
               PROVE  /\ r.type = "RESERVE_INVENTORY"
                           => \E e \in Reservations : Has(r.corr, e)'
                      /\ r.type = "SEND_NOTIFICATION"
                           => Has(r.corr, "NOTIFICATION_SENT")'
                      /\ r.type = "RELEASE_INVENTORY"
                           => \E e \in Releases : Has(r.corr, e)'
                      /\ r \in retired'
                           => r.type \in {"PROCESS_PAYMENT", "RELEASE_INVENTORY"}
    BY DEF AnswerInv
  <2> USE DEF Reservations, Releases
  <2>1. r \in outbox
    BY NewRowWaits
  <2>2. r.corr \in Saga
    BY <2>1 DEF TypeOK, BusTypeOK, Row
  <2>3. ASSUME NEW e \in {"INVENTORY_RESERVED", "INVENTORY_FAILED",
                          "NOTIFICATION_SENT", "INVENTORY_RELEASED",
                          "INVENTORY_RELEASE_FAILED"}, Has(r.corr, e)
        PROVE  Has(r.corr, e)'
    BY <2>2, <2>3, HasLasts, MessageNames
  <2>4. ASSUME NEW e, Enqueue(r.corr, e)
        PROVE  Has(r.corr, e)'
    BY <2>4, EnqueueHas DEF Has
  <2>5. CASE r \in inbox' /\ r \notin inbox
    <3>1. UNCHANGED retired /\ r \notin retired
      BY <2>5, Claims DEF Deliverable
    <3>2. CASE ApplySagaEvent(r)
      BY <3>1, <3>2, EventNames DEF ApplySagaEvent
    <3>3. CASE Notify(r)
      BY <2>4, <3>1, <3>3 DEF Notify
    <3>4. CASE Reserve(r)
      <4>1. r.type = "RESERVE_INVENTORY" /\ \E e \in Reservations : Enqueue(r.corr, e)
        BY <3>4 DEF Reserve
      <4> QED
        BY <2>4, <3>1, <4>1
    <3>5. CASE Release(r)
      BY <2>4, <3>1, <3>5 DEF Release
    <3> QED
      BY <2>5, <3>2, <3>3, <3>4, <3>5, Claims
  <2>6. CASE r \in retired' /\ r \notin retired
    <3>1. CASE PublishOnce(r)
      BY <3>1 DEF PublishOnce, Publish
    <3>2. CASE ReleaseExhausted(r)
      BY <2>4, <3>2 DEF ReleaseExhausted, ReleaseFails
    <3> QED
      BY <2>6, <3>1, <3>2, Retires
  <2>7. CASE /\ r \in inbox \cup retired
             /\ r \in retired' => r \in retired
    <3>1. /\ r.type = "RESERVE_INVENTORY"
               => \E e \in Reservations : Has(r.corr, e)
          /\ r.type = "SEND_NOTIFICATION" => Has(r.corr, "NOTIFICATION_SENT")
          /\ r.type = "RELEASE_INVENTORY" => \E e \in Releases : Has(r.corr, e)
          /\ r \in retired => r.type \in {"PROCESS_PAYMENT", "RELEASE_INVENTORY"}
      BY <2>1, <2>7 DEF AnswerInv
    <3> QED
      BY <2>3, <2>7, <3>1
  <2> QED
    BY <2>5, <2>6, <2>7
<1> QED
  BY <1>1, <1>2, TypeCorrect, PTL DEF Spec

(* A verdict is recorded together with the event that tells it. *)
LEMMA VerdictTold ==
  ASSUME TypeOK, [Next]_vars, NEW c \in Saga, payment'[c] # payment[c]
  PROVE  /\ payment'[c] = "SUCCEEDED" => Has(c, "PAYMENT_SUCCEEDED")'
         /\ payment'[c] = "FAILED" => Has(c, "PAYMENT_FAILED")'
<1> DEFINE Told ==
      /\ payment'[c] = "SUCCEEDED" => Has(c, "PAYMENT_SUCCEEDED")'
      /\ payment'[c] = "FAILED" => Has(c, "PAYMENT_FAILED")'
<1> SUFFICES Told
  OBVIOUS
<1>1. payment \in [Saga -> PaymentStates \cup {"NONE"}]
  BY PaymentTypes DEF TypeOK
<1> USE TransitionMoves
<1>2. ASSUME NEW e, Enqueue(c, e)
      PROVE  Has(c, e)'
  BY <1>2, EnqueueHas DEF Has
<1>3. CASE Payments
  <2>1. ASSUME NEW k \in Slot, FinishApproved(k)
        PROVE  Told
    BY <1>1, <1>2, <2>1 DEF FinishApproved, Finalize
  <2>2. ASSUME NEW k \in Slot, FinishFailed(k)
        PROVE  Told
    BY <1>1, <1>2, <2>2 DEF FinishFailed, Finalize
  <2>3. ASSUME NEW k \in Slot, FinishUnknown(k) \/ RollBack(k) \/ Ack(k)
        PROVE  payment'[c] \notin {"SUCCEEDED", "FAILED"}
    BY <1>1, <2>3 DEF FinishUnknown, Finalize, RollBack, Ack
  <2>4. ASSUME NEW k \in Slot, NEW d \in Saga, NEW a \in Attempts,
               DeliverFinished(k, d, a) \/ DeliverUnknown(k, d, a)
                 \/ DeliverCharge(k, d, a)
        PROVE  payment'[c] = "PROCESSING"
    BY <1>1, <2>4 DEF DeliverFinished, DeliverUnknown, DeliverCharge
  <2> QED
    BY <1>3, <2>1, <2>2, <2>3, <2>4
       DEF Payments, WorkerStep, DeliverStep, HandlerStep, RelayStep,
           PublishOnce, Publish
<1>4. CASE Recovery
  <2>1. CASE Resolve
    BY <1>1, <1>2, <2>1 DEF Resolve
  <2>2. CASE MarkPaymentUnknown
    BY <1>1, <2>2 DEF MarkPaymentUnknown
  <2>3. ASSUME NEW x \in batch, ClaimUnknown(x)
        PROVE  payment'[c] = "RECONCILING"
    BY <1>1, <2>3 DEF ClaimUnknown
  <2> QED
    BY <1>4, <2>1, <2>2, <2>3
       DEF Recovery, JobStep, SelectUnknown, Lookup, SelectStuck, Sweep,
           SelectCompensating, GiveUp, RetryCompensation
<1>5. CASE Faults
  <2>1. ASSUME LookupFails
        PROVE  payment'[c] = "UNKNOWN"
    BY <1>1, <2>1 DEF LookupFails
  <2> QED
    BY <1>5, <2>1
       DEF Faults, JobFault, TickDies, WorkerFault, PublishUncommitted,
           Publish, WorkerCrash, ChannelLost, CommitParked, ClaimParked,
           paymentVars
<1>6. CASE API \/ Orchestration \/ Inventory \/ Exchanges \/ UNCHANGED vars
  BY <1>6 DEF API, Orchestration, Inventory, Exchanges, vars, paymentVars
<1> QED
  BY <1>3, <1>4, <1>5, <1>6 DEF Next

(* No verdict is silent, and nobody cancels a payment. *)
LEMMA VerdictInvariant == Spec => []VerdictInv
<1>1. Init => VerdictInv
  BY DEF Init, PaymentInit, VerdictInv
<1>2. TypeOK /\ VerdictInv /\ [Next]_vars => VerdictInv'
  <2> SUFFICES ASSUME TypeOK, VerdictInv, [Next]_vars, NEW c \in Saga
               PROVE  /\ payment'[c] # "CANCELLED"
                      /\ payment'[c] = "SUCCEEDED" => Has(c, "PAYMENT_SUCCEEDED")'
                      /\ payment'[c] = "FAILED" => Has(c, "PAYMENT_FAILED")'
    BY DEF VerdictInv
  <2>1. payment'[c] # "CANCELLED"
    BY PaymentMoves DEF PaymentMove, VerdictInv
  <2>2. CASE payment'[c] = payment[c]
    BY <2>1, <2>2, HasLasts, MessageNames DEF VerdictInv
  <2>3. CASE payment'[c] # payment[c]
    BY <2>1, <2>3, VerdictTold
  <2> QED
    BY <2>2, <2>3
<1> QED
  BY <1>1, <1>2, TypeCorrect, PTL DEF Spec

(* As long as no message is parked, no channel lost and no tick cut short, *)
(* every saga that is not over has somebody who will move it on: whoever   *)
(* still gets an event it waits for, the participant that has the command  *)
(* of its step, the handlers of its payment, or the reconciler.  Quantities*)
(* are taken to be valid: a reservation the table's CHECK aborts is parked.*)
THEOREM NoSagaForgotten ==
  ASSUME FaultKinds \cap {"park", "channel", "tick"} = {}, ValidQuantities
  PROVE  Spec => []NoneForgotten
<1>1. TypeOK /\ NothingIgnoredTooEarly /\ CommandInv /\ AnswerInv /\ VerdictInv
        /\ PaymentInHand /\ ReconcilingIsClaimed
        => NoneForgotten
  <2> SUFFICES ASSUME TypeOK, NothingIgnoredTooEarly, CommandInv, AnswerInv,
                      VerdictInv, PaymentInHand, ReconcilingIsClaimed,
                      NEW c \in Saga,
                      wf[c] \notin {"NONE"} \cup TerminalWorkflowStates
               PROVE  Answered(c) \/ Commanded(c) \/ Settling(c)
    BY DEF NoneForgotten
  <2>1. /\ wf[c] \in WorkflowStates \ ({"STARTED"} \cup TerminalWorkflowStates)
        /\ payment[c] \in PaymentStates \cup {"NONE"}
    BY PaymentTypes DEF TypeOK, OrchestratorTypeOK, CommandInv
  <2>2. ASSUME NEW e \in SagaEvents, wf[c] \in SagaTransitions[e].from,
               Has(c, e), e \notin Commands
        PROVE  Answered(c)
    <3>1. PICK r \in Sent(c, e) : TRUE
      BY <2>2 DEF Has
    <3>2. Accepts(c, e)
      BY <2>2 DEF Accepts
    <3>3. r \notin inbox
      BY <3>1, <3>2 DEF NothingIgnoredTooEarly
    <3>4. r \in outbox /\ r.type = e
      BY <3>1 DEF Sent
    <3>5. r \notin retired
      BY <2>2, <3>4 DEF AnswerInv, Commands
    <3> QED
      BY <3>1, <3>2, <3>3, <3>4, <3>5 DEF Answered, Deliverable
  <2>3. ASSUME NEW t \in {"RESERVE_INVENTORY", "SEND_NOTIFICATION",
                          "RELEASE_INVENTORY"}, Has(c, t),
               wf[c] \in DOMAIN StepCommand, StepCommand[wf[c]] = t,
               ~ Commanded(c)
        PROVE  \E r \in outbox : /\ r.corr = c /\ r.type = t
                                 /\ r \in inbox \cup retired
    BY <2>3 DEF Has, Commanded, Deliverable, Sent
  <2>4. CASE wf[c] = "RESERVING_INVENTORY"
    <3>1. Commanded(c) \/ \E e \in Reservations : Has(c, e)
      BY <2>3, <2>4 DEF CommandInv, AnswerInv, StepCommand
    <3>2. ASSUME NEW e \in Reservations
          PROVE  /\ e \in SagaEvents /\ e \notin Commands
                 /\ wf[c] \in SagaTransitions[e].from
      <4>1. e \in SagaEvents /\ e \notin Commands
        BY EventNames DEF Reservations, Commands
      <4>2. SagaTransitions[e].from = {"RESERVING_INVENTORY"}
        BY <4>1, SagaTable DEF Reservations
      <4> QED
        BY <2>4, <4>1, <4>2
    <3> QED
      BY <2>2, <3>1, <3>2
  <2>5. CASE wf[c] = "SENDING_NOTIFICATION"
    <3>1. Commanded(c) \/ Has(c, "NOTIFICATION_SENT")
      BY <2>3, <2>5 DEF CommandInv, AnswerInv, StepCommand
    <3>2. /\ "NOTIFICATION_SENT" \in SagaEvents
          /\ "NOTIFICATION_SENT" \notin Commands
      BY EventNames DEF Commands
    <3>3. SagaTransitions["NOTIFICATION_SENT"].from = {"SENDING_NOTIFICATION"}
      BY <3>2, SagaTable
    <3> QED
      BY <2>2, <2>5, <3>1, <3>2, <3>3
  <2>6. CASE wf[c] = "COMPENSATING_INVENTORY"
    <3>1. Commanded(c) \/ \E e \in Releases : Has(c, e)
      BY <2>3, <2>6 DEF CommandInv, AnswerInv, StepCommand
    <3>2. ASSUME NEW e \in Releases
          PROVE  /\ e \in SagaEvents /\ e \notin Commands
                 /\ wf[c] \in SagaTransitions[e].from
      BY <2>6, SagaTable, EventNames DEF Releases, Commands
    <3> QED
      BY <2>2, <3>1, <3>2
  <2>7. CASE wf[c] \in {"PROCESSING_PAYMENT", "AWAITING_RECONCILIATION"}
    <3>1. CASE payment[c] \in {"NONE", "CREATED", "PROCESSING"}
      BY <2>7, <3>1 DEF CommandInv, PaymentInHand, Has, Settling
    <3>2. CASE payment[c] = "UNKNOWN"
      BY <2>7, <3>2 DEF Settling
    <3>3. CASE payment[c] = "RECONCILING"
      BY <2>7, <3>3 DEF ReconcilingIsClaimed, Settling
    <3>4. CASE payment[c] = "SUCCEEDED"
      <4>1. Has(c, "PAYMENT_SUCCEEDED")
        BY <3>4 DEF VerdictInv
      <4> QED
        BY <2>2, <2>7, <4>1, SagaTable, EventNames DEF Commands
    <3>5. CASE payment[c] = "FAILED"
      <4>1. Has(c, "PAYMENT_FAILED")
        BY <3>5 DEF VerdictInv
      <4> QED
        BY <2>2, <2>7, <4>1, SagaTable, EventNames DEF Commands
    <3>6. payment[c] # "CANCELLED"
      BY DEF VerdictInv
    <3> QED
      BY <2>1, <3>1, <3>2, <3>3, <3>4, <3>5, <3>6
         DEF PaymentStates, PaymentTransitions
  <2> QED
    BY <2>1, <2>4, <2>5, <2>6, <2>7 DEF WorkflowStates, TerminalWorkflowStates
<1>2. /\ NothingDropped /\ "tick" \notin FaultKinds
      /\ FaultKinds \cap {"park", "channel"} = {}
  BY DEF NothingDropped
<1> QED
  BY <1>1, <1>2, TypeCorrect, NoneIgnoredTooEarly, CommandInvariant,
     AnswerInvariant, VerdictInvariant, NoPaymentDropped, NoneLeftReconciling,
     PTL
=============================================================================
