---------------------------- MODULE Orchestrator ----------------------------
(***************************************************************************)
(* src/orchestratorService.js with the handler of                          *)
(* src/services/orchestrator.js: the workflow row, the saga table that     *)
(* moves it, and the notification step (src/services/notificationService.js*)
(* ), the one participant that keeps nothing but the fact that it ran.     *)
(***************************************************************************)
EXTENDS Bus

VARIABLES
  wf,         \* workflow_executions.current_state, "NONE" without a row
  notified    \* sagas with a row in notifications

OrchestratorTypeOK ==
  /\ wf \in [Saga -> WorkflowStates \cup {"NONE"}]
  /\ notified \subseteq Saga

OrchestratorInit ==
  /\ wf = [c \in Saga |-> "NONE"]
  /\ notified = {}

(* createSagaWorkflow: the row and the first command in one transaction. *)
Checkout(c) ==
  /\ wf[c] = "NONE"
  /\ wf' = [wf EXCEPT ![c] = "RESERVING_INVENTORY"]
  /\ Enqueue(c, "RESERVE_INVENTORY")
  /\ UNCHANGED <<inbox, retired, faults, notified>>

\* mutants: the UPDATE without its guard on current_state, and with a guard
\* that only refuses to leave a terminal state
AcceptsAlways(c, e) == TRUE
AcceptsUnlessEnded(c, e) == wf[c] \notin TerminalWorkflowStates

Accepts(c, e) == wf[c] \in SagaTransitions[e].from

Advance(c, e) ==
  LET rule == SagaTransitions[e] IN
  /\ wf' = [wf EXCEPT ![c] = rule.to]
  /\ IF rule.command = "" THEN UNCHANGED outbox ELSE Enqueue(c, rule.command)

(* An event the workflow is in no state to accept is claimed and IGNORED. *)
ApplySagaEvent(r) ==
  /\ r.type \in SagaEvents
  /\ WithInbox(r)
  /\ IF Accepts(r.corr, r.type) THEN Advance(r.corr, r.type)
                                ELSE UNCHANGED <<wf, outbox>>
  /\ UNCHANGED notified

\* mutant: the UPDATE without "AND current_state = from"
ForceStateBlindly(c, from, to) == wf' = [wf EXCEPT ![c] = to]

(* Applied only while the workflow is still in the state the caller saw. *)
ForceState(c, from, to) ==
  wf' = [wf EXCEPT ![c] = IF @ = from THEN to ELSE @]

Notify(r) ==
  /\ r.type = "SEND_NOTIFICATION"
  /\ WithInbox(r)
  /\ notified' = notified \cup {r.corr}
  /\ Enqueue(r.corr, "NOTIFICATION_SENT")
  /\ UNCHANGED wf

OrchestratorStep == \E r \in outbox : ApplySagaEvent(r)

NotificationStep == \E r \in outbox : Notify(r)
=============================================================================
