---------------------------- MODULE StateMachine ----------------------------
(***************************************************************************)
(* The two transition tables of src/stateMachine.js: the payment status    *)
(* machine and the saga table that drives the orchestrator.  Constant      *)
(* level; every other module reads them.                                   *)
(***************************************************************************)

PaymentTransitions ==
  [CREATED     |-> {"PROCESSING", "CANCELLED"},
   PROCESSING  |-> {"SUCCEEDED", "FAILED", "CANCELLED", "UNKNOWN"},
   UNKNOWN     |-> {"RECONCILING"},
   RECONCILING |-> {"SUCCEEDED", "FAILED", "UNKNOWN"},
   SUCCEEDED   |-> {},
   FAILED      |-> {},
   CANCELLED   |-> {}]

PaymentStates == DOMAIN PaymentTransitions

TerminalPaymentStates == {"SUCCEEDED", "FAILED", "CANCELLED"}

(* STARTED is the column default and the "from" of the first audit row; no *)
(* workflow row is ever stored in it.                                      *)
WorkflowStates ==
  {"STARTED", "RESERVING_INVENTORY", "PROCESSING_PAYMENT",
   "SENDING_NOTIFICATION", "COMPENSATING_INVENTORY",
   "AWAITING_RECONCILIATION", "COMPENSATED", "COMPENSATION_FAILED",
   "COMPLETED", "FAILED"}

TerminalWorkflowStates ==
  {"COMPLETED", "FAILED", "COMPENSATED", "COMPENSATION_FAILED"}

(* On event e, a workflow in one of `from` moves to `to` and issues        *)
(* `command` ("" where the table has none).                                *)
Rule(from, to, command) == [from |-> from, to |-> to, command |-> command]

SagaTransitions ==
  [INVENTORY_RESERVED |->
     Rule({"RESERVING_INVENTORY"}, "PROCESSING_PAYMENT", "PROCESS_PAYMENT"),
   PAYMENT_SUCCEEDED |->
     Rule({"PROCESSING_PAYMENT", "AWAITING_RECONCILIATION"},
          "SENDING_NOTIFICATION", "SEND_NOTIFICATION"),
   NOTIFICATION_SENT |->
     Rule({"SENDING_NOTIFICATION"}, "COMPLETED", ""),
   INVENTORY_FAILED |->
     Rule({"RESERVING_INVENTORY"}, "FAILED", ""),
   PAYMENT_FAILED |->
     Rule({"PROCESSING_PAYMENT", "AWAITING_RECONCILIATION"},
          "COMPENSATING_INVENTORY", "RELEASE_INVENTORY"),
   PAYMENT_UNKNOWN |->
     Rule({"PROCESSING_PAYMENT"}, "AWAITING_RECONCILIATION", ""),
   INVENTORY_RELEASED |->
     Rule({"COMPENSATING_INVENTORY"}, "COMPENSATED", ""),
   INVENTORY_RELEASE_FAILED |->
     Rule({"COMPENSATING_INVENTORY"}, "COMPENSATION_FAILED", ""),
   NOTIFICATION_FAILED |->
     Rule({"SENDING_NOTIFICATION"}, "COMPLETED", "")]

SagaEvents == DOMAIN SagaTransitions

Commands ==
  {"RESERVE_INVENTORY", "RELEASE_INVENTORY", "PROCESS_PAYMENT",
   "SEND_NOTIFICATION"}
=============================================================================
