-------------------------------- MODULE Saga --------------------------------
(***************************************************************************)
(* The whole checkout: the orchestrator and its recovery jobs, the         *)
(* inventory service, the payment worker, the provider and the message     *)
(* ring between them.  Every component owns its variables; the components  *)
(* share only the rows of the database, which is the variables of Bus and  *)
(* the payment row the worker and the reconciler both write.               *)
(***************************************************************************)
EXTENDS Reconciler, InventoryService

vars ==
  <<busVars, wf, notified, stockVars, paymentVars, compAttempts, jobVars>>

TypeOK ==
  /\ BusTypeOK
  /\ OrchestratorTypeOK
  /\ InventoryTypeOK
  /\ PaymentTypeOK
  /\ ReconcilerTypeOK

Init ==
  /\ BusInit
  /\ OrchestratorInit
  /\ InventoryInit
  /\ PaymentInit
  /\ ReconcilerInit

(***************************************************************************)
(* Each component's steps, with the variables of the others unchanged.     *)
(***************************************************************************)
API ==
  /\ \E c \in Saga : Checkout(c)
  /\ UNCHANGED <<stockVars, paymentVars, compAttempts, jobVars>>

Orchestration ==
  /\ OrchestratorStep \/ NotificationStep
  /\ UNCHANGED <<stockVars, paymentVars, compAttempts, jobVars>>

Inventory ==
  /\ InventoryStep
  /\ UNCHANGED <<wf, notified, paymentVars, compAttempts, jobVars>>

Payments ==
  /\ WorkerStep
  /\ UNCHANGED <<wf, notified, stockVars, compAttempts, jobVars>>

Exchanges ==
  /\ ProviderStep
  /\ UNCHANGED <<wf, notified, stockVars, payment, copies, compAttempts,
                 jobVars>>

Recovery ==
  /\ JobStep
  /\ UNCHANGED <<notified, stockVars, ledger, call, copies>>

Faults ==
  \/ /\ \E r \in outbox : Park(r)
     /\ UNCHANGED <<wf, notified, stockVars, paymentVars, compAttempts, jobVars>>
  \/ /\ InventoryFault
     /\ UNCHANGED <<wf, notified, paymentVars, compAttempts, jobVars>>
  \/ /\ WorkerFault
     /\ UNCHANGED <<wf, notified, stockVars, compAttempts, jobVars>>
  \/ /\ ProviderFault
     /\ UNCHANGED <<wf, notified, stockVars, payment, copies, compAttempts,
                    jobVars>>
  \/ /\ JobFault
     /\ UNCHANGED <<notified, stockVars, ledger, call, copies>>

Next ==
  \/ API
  \/ Orchestration
  \/ Inventory
  \/ Payments
  \/ Exchanges
  \/ Recovery
  \/ Faults

Spec == Init /\ [][Next]_vars

(* The processes keep running: consumers keep consuming and relays keep    *)
(* publishing, the provider or the client's timer ends every exchange, and *)
(* the loop of the recovery jobs keeps ticking.  Nobody has to check out,  *)
(* and no fault has to happen.                                             *)
Fairness ==
  /\ WF_vars(Orchestration)
  /\ WF_vars(Inventory)
  /\ WF_vars(Payments)
  /\ WF_vars(Exchanges)
  /\ WF_vars(Recovery)

FairSpec == Spec /\ Fairness

(***************************************************************************)
(* Safety.                                                                 *)
(***************************************************************************)
Holds(c) == reservation[c] = "RESERVED"

(* A saga reported COMPENSATED really gave its stock back, whatever was    *)
(* lost, repeated or retried on the way: no INVENTORY_RELEASED reaches a   *)
(* workflow from a release that did not happen.                            *)
CompensatedIsReleased ==
  \A c \in Saga : wf[c] = "COMPENSATED" => reservation[c] = "RELEASED"

Forward ==
  {"PROCESSING_PAYMENT", "AWAITING_RECONCILIATION", "SENDING_NOTIFICATION",
   "COMPLETED"}

(* From its reservation to its receipt an order holds its stock: a release *)
(* re-issued by the recovery job, delivered late or delivered twice never  *)
(* belongs to a saga that is still on its way, or through.                 *)
ForwardKeepsStock == \A c \in Saga : wf[c] \in Forward => Holds(c)

(* However often a command, an event or an announcement is repeated, the   *)
(* saga asks for one charge and for one receipt.                           *)
AsksOnce ==
  \A c \in Saga, t \in {"PROCESS_PAYMENT", "SEND_NOTIFICATION"} :
    Cardinality(Sent(c, t)) <= 1

(* A receipt goes only to a customer whose charge the provider approved.   *)
ReceiptOnlyIfCharged ==
  \A c \in Saga : wf[c] = "COMPLETED" \/ c \in notified
                    => ledger[c] = "APPROVED"

(* A payment is RECONCILING only while the reconciler is at work on it:    *)
(* every way out of reconcileUnknownPayments puts it somewhere else.       *)
ReconcilingIsClaimed ==
  \A c \in Saga :
    payment[c] = "RECONCILING"
      => subject = c /\ task \in {"lookup", "charged", "uncharged"}

(* Someone still answers for an unfinished payment: the command is in the  *)
(* outbox, on a queue, or with a handler that is at work on it or about to *)
(* send it back, on a channel that will carry its ack or its retry.        *)
InHand(c) ==
  \/ \E r \in Sent(c, "PROCESS_PAYMENT") : Deliverable(r)
  \/ \E a \in Attempts : copies[c][a] > 0
  \/ \E k \in Slot :
       /\ call[k].corr = c
       /\ call[k].client \notin {"idle", "acking"}
       /\ call[k].owned

(* No payment that was asked for and has no outcome yet is ever out of     *)
(* everybody's hands.                                                      *)
PaymentInHand ==
  \A c \in Saga :
    /\ Sent(c, "PROCESS_PAYMENT") # {}
    /\ payment[c] \in {"NONE", "CREATED", "PROCESSING"}
    => InHand(c)

(* An event that is claimed in a state that has no use for it is gone      *)
(* (IGNORED, and the message is acked).  None is lost that way that the    *)
(* workflow, wherever the events of the others and the jobs have moved it  *)
(* since, is waiting for now.                                              *)
NothingIgnoredTooEarly ==
  \A c \in Saga, e \in SagaEvents : Accepts(c, e) => Sent(c, e) \cap inbox = {}

(* Who can move the workflow on: an event it accepts and will still get,   *)
(* or the participant that still has the command of its step to carry out. *)
StepCommand ==
  [RESERVING_INVENTORY    |-> "RESERVE_INVENTORY",
   SENDING_NOTIFICATION   |-> "SEND_NOTIFICATION",
   COMPENSATING_INVENTORY |-> "RELEASE_INVENTORY"]

Answered(c) ==
  \E e \in SagaEvents :
    Accepts(c, e) /\ \E r \in Sent(c, e) : Deliverable(r)

Commanded(c) ==
  /\ wf[c] \in DOMAIN StepCommand
  /\ \E r \in Sent(c, StepCommand[wf[c]]) : Deliverable(r)

(* While the payment runs: the handlers, as long as it has no outcome; the *)
(* reconciler, once the outcome is unknown.                                *)
Settling(c) ==
  /\ wf[c] \in {"PROCESSING_PAYMENT", "AWAITING_RECONCILIATION"}
  /\ \/ payment[c] \in {"NONE", "CREATED", "PROCESSING"} /\ InHand(c)
     \/ payment[c] = "UNKNOWN"
     \/ /\ payment[c] = "RECONCILING" /\ subject = c
        /\ task \in {"lookup", "charged", "uncharged"}

(* No saga sits half-done with nobody responsible for noticing, whichever  *)
(* of its events and commands crossed on the way.                          *)
NoneForgotten ==
  \A c \in Saga :
    wf[c] \notin {"NONE"} \cup TerminalWorkflowStates
      => Answered(c) \/ Commanded(c) \/ Settling(c)

(* The recovery job re-issues a release a bounded number of times.         *)
ReleasesBounded ==
  \A c \in Saga :
    Cardinality(Sent(c, "RELEASE_INVENTORY")) <= MaxCompensationAttempts + 1

(* Verdicts are final: no job, retry, late answer or repeated message      *)
(* moves a payment or a workflow out of a terminal state.                  *)
VerdictsAreFinal ==
  [][\A c \in Saga :
       /\ payment[c] \in TerminalPaymentStates => payment'[c] = payment[c]
       /\ wf[c] \in TerminalWorkflowStates => wf'[c] = wf[c]]_vars

(***************************************************************************)
(* The saga implements the contract of a checkout.                         *)
(***************************************************************************)
ProgressIn ==
  [NONE                    |-> "none",
   STARTED                 |-> "none",
   RESERVING_INVENTORY     |-> "open",
   FAILED                  |-> "refused",
   PROCESSING_PAYMENT      |-> "paying",
   AWAITING_RECONCILIATION |-> "paying",
   SENDING_NOTIFICATION    |-> "paid",
   COMPLETED               |-> "done",
   COMPENSATING_INVENTORY  |-> "undoing",
   COMPENSATED             |-> "undone",
   COMPENSATION_FAILED     |-> "stuck"]

StockIn == [NONE |-> "none", RESERVED |-> "held", RELEASED |-> "returned"]

Progress == [c \in Saga |-> ProgressIn[wf[c]]]
StockOf == [c \in Saga |-> StockIn[reservation[c]]]
Charged == {c \in Saga : ledger[c] = "APPROVED"}

Contract ==
  INSTANCE CheckoutContract
    WITH Order <- Saga, progress <- Progress, stock <- StockOf,
         charged <- Charged

(* Stock, money and workflow are five services' tables; together they move *)
(* like one order: no money is asked for without stock, no receipt is sent *)
(* without money, no stock returned but of an order that is undone, and    *)
(* none reported returned that is not.                                     *)
ImplementsCheckout == Contract!Spec

(***************************************************************************)
(* Stock.                                                                  *)
(***************************************************************************)
(* No line of the order asks for less than nothing.  Nothing in the code   *)
(* ensures it.                                                             *)
ValidLines(c) ==
  \A s \in SKU : \A k \in 0..LineCount(c), j \in 0..LineCount(c) :
    j <= k => Taken(c, j, s) <= Taken(c, k, s)

ValidOrders == {c \in Saga : ValidLines(c)}

(* No order with a negative quantity has had stock so far.                 *)
ReservedValid == {c \in Saga : reservation[c] # "NONE"} \subseteq ValidOrders

(* Reserving and releasing never lose a unit, whatever the quantities; and *)
(* they mint none until an order with a negative quantity is reserved.     *)
StockConserved ==
  \A s \in SKU :
    /\ available[s] + reserved[s] >= Stock[s]
    /\ ReservedValid => available[s] + reserved[s] = Stock[s]

Owed(c, s) ==
  IF Holds(c) /\ Sent(c, "INVENTORY_FAILED") = {}
    THEN Taken(c, LineCount(c), s) ELSE 0

(* The units owed, each told apart by its order and its number there.      *)
Promised(s) == UNION {{c} \X (1..Owed(c, s)) : c \in Saga}

(* The units set aside cover what the orders holding a full reservation    *)
(* were promised, until an order with a negative quantity is reserved: it  *)
(* takes down what was set aside for others (SagaClaims!NeverOversold).    *)
StockCoversHolders ==
  ReservedValid => \A s \in SKU : Cardinality(Promised(s)) <= reserved[s]

(* Provided that no reservation outlasts its timeout, a FAILED workflow    *)
(* was refused by the inventory and never also promised its stock.  (The   *)
(* sweep fails a workflow whose command is still on its way; what that     *)
(* command then sets aside is never given back, reconciler.js:173.)        *)
FailedWasRefused ==
  "RESERVING_INVENTORY" \notin SlowSteps =>
    \A c \in Saga : wf[c] = "FAILED" =>
      /\ Sent(c, "INVENTORY_FAILED") # {}
      /\ Sent(c, "INVENTORY_RESERVED") = {}

(***************************************************************************)
(* Liveness.                                                               *)
(***************************************************************************)
Started(c) == wf[c] # "NONE"

(* Every checkout reaches a terminal state.                                *)
EveryCheckoutEnds ==
  \A c \in Saga : Started(c) ~> wf[c] \in TerminalWorkflowStates

(* Every payment gets a final status, the ones whose outcome the provider  *)
(* never told us included.                                                 *)
EveryPaymentEnds ==
  \A c \in Saga : payment[c] # "NONE" ~> payment[c] \in TerminalPaymentStates
=============================================================================
