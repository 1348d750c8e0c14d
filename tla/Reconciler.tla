----------------------------- MODULE Reconciler -----------------------------
(***************************************************************************)
(* src/jobs/reconciler.js: the three recovery jobs of the orchestrator's   *)
(* process.  One loop runs them one after the other; each job reads a      *)
(* batch of candidate rows and then handles them one by one, so a          *)
(* candidate is acted on as it was when the batch was read.                *)
(***************************************************************************)
EXTENDS Orchestrator, PaymentWorker

CONSTANTS
  SlowSteps,                \* workflow states that may outlast the timeout
  MaxCompensationAttempts

ASSUME ReconcilerAssumption ==
  /\ SlowSteps \subseteq WorkflowStates
  /\ MaxCompensationAttempts \in Nat

VARIABLES
  compAttempts,   \* workflow_executions.compensation_attempts
  task,           \* what the loop is doing
  subject,        \* the saga of a task that spans two transactions
  batch           \* candidates read and not yet handled

jobVars == <<task, subject, batch>>

Tasks ==
  {"idle", "reconcile", "lookup", "charged", "uncharged", "sweep", "mark",
   "compensate"}

\* mutant: a slow payment fails the workflow, as a slow reservation does
SweptToFailed ==
  [RESERVING_INVENTORY  |-> "FAILED",
   PROCESSING_PAYMENT   |-> "FAILED",
   SENDING_NOTIFICATION |-> "COMPLETED"]

(* Where sweepStuckWorkflows forces a workflow that outlasted its timeout. *)
SweptTo ==
  [RESERVING_INVENTORY  |-> "FAILED",
   PROCESSING_PAYMENT   |-> "AWAITING_RECONCILIATION",
   SENDING_NOTIFICATION |-> "COMPLETED"]

Candidate ==
  [corr : Saga, seen : WorkflowStates \cup {"UNKNOWN"}, attempts : Nat]

ReconcilerTypeOK ==
  /\ compAttempts \in [Saga -> Nat]
  /\ task \in Tasks
  /\ subject \in Saga \cup {NoSaga}
  /\ batch \subseteq Candidate
  /\ task \in {"lookup", "charged", "uncharged", "mark"} => subject \in Saga
  /\ task \in {"sweep", "mark"} => \A x \in batch : x.seen \in DOMAIN SweptTo

ReconcilerInit ==
  /\ compAttempts = [c \in Saga |-> 0]
  /\ task = "idle"
  /\ subject = NoSaga
  /\ batch = {}

(***************************************************************************)
(* The loop.  Whether a row's updated_at is old enough is left open: any   *)
(* non-empty part of the eligible rows may be the batch.                   *)
(***************************************************************************)
Select(job, eligible) ==
  /\ task = "idle"
  /\ \E chosen \in (SUBSET eligible) \ {{}} : batch' = chosen
  /\ task' = job
  /\ UNCHANGED <<subject, compAttempts>>

Unfinished(job, rest) == IF rest = {} THEN "idle" ELSE job

(* Done with candidate x. *)
Handled(job, x) ==
  /\ batch' = batch \ {x}
  /\ task' = Unfinished(job, batch \ {x})
  /\ UNCHANGED subject

(* Half done with candidate x: the task goes on in a second transaction. *)
Continue(next, x) ==
  /\ batch' = batch \ {x}
  /\ task' = next
  /\ subject' = x.corr

(* The second transaction is done. *)
Resume(job) ==
  /\ task' = Unfinished(job, batch)
  /\ subject' = NoSaga
  /\ UNCHANGED batch

(***************************************************************************)
(* reconcileUnknownPayments.                                               *)
(***************************************************************************)
SelectUnknown ==
  /\ Select("reconcile",
            {[corr |-> c, seen |-> "UNKNOWN", attempts |-> 0] :
               c \in {d \in Saga : payment[d] = "UNKNOWN"}})
  /\ UNCHANGED <<outbox, payment, wf>>

ClaimUnknown(x) ==
  /\ task = "reconcile"
  /\ x \in batch
  /\ Transition(x.corr, "UNKNOWN", "RECONCILING")
  /\ IF payment[x.corr] = "UNKNOWN" THEN Continue("lookup", x)
                                    ELSE Handled("reconcile", x)
  /\ UNCHANGED <<outbox, wf, compAttempts>>

\* mutants: no record read as charged, and any record read as charged
LookupOptimistic ==
  /\ task = "lookup"
  /\ task' = IF ledger[subject] = "DECLINED" THEN "uncharged" ELSE "charged"
  /\ UNCHANGED <<outbox, payment, wf, compAttempts, subject, batch>>
LookupFound ==
  /\ task = "lookup"
  /\ task' = IF ledger[subject] = "NONE" THEN "uncharged" ELSE "charged"
  /\ UNCHANGED <<outbox, payment, wf, compAttempts, subject, batch>>

(* GET /transactions: 404 when the ledger has no row for the key. *)
Lookup ==
  /\ task = "lookup"
  /\ task' = IF ledger[subject] = "APPROVED" THEN "charged" ELSE "uncharged"
  /\ UNCHANGED <<outbox, payment, wf, compAttempts, subject, batch>>

\* mutant: the verdict is recorded and not announced
ResolveSilently ==
  /\ task \in {"charged", "uncharged"}
  /\ Transition(subject, "RECONCILING",
                IF task = "charged" THEN "SUCCEEDED" ELSE "FAILED")
  /\ Resume("reconcile")
  /\ UNCHANGED <<outbox, wf, compAttempts>>

(* The event goes out whether or not the transition was applied. *)
Resolve ==
  /\ task \in {"charged", "uncharged"}
  /\ Transition(subject, "RECONCILING",
                IF task = "charged" THEN "SUCCEEDED" ELSE "FAILED")
  /\ Enqueue(subject, IF task = "charged" THEN "PAYMENT_SUCCEEDED"
                                          ELSE "PAYMENT_FAILED")
  /\ Resume("reconcile")
  /\ UNCHANGED <<wf, compAttempts>>

\* mutant: the failed lookup does not put the payment back
LookupFailsClaimed ==
  /\ Fault("lookup")
  /\ task = "lookup"
  /\ Resume("reconcile")
  /\ UNCHANGED <<outbox, inbox, retired, payment, wf, compAttempts>>

LookupFails ==
  /\ Fault("lookup")
  /\ task = "lookup"
  /\ Transition(subject, "RECONCILING", "UNKNOWN")
  /\ Resume("reconcile")
  /\ UNCHANGED <<outbox, inbox, retired, wf, compAttempts>>

(***************************************************************************)
(* sweepStuckWorkflows.  The query also returns COMPENSATING_INVENTORY     *)
(* rows, which no branch of the loop handles.                              *)
(***************************************************************************)
SelectStuck ==
  /\ Select("sweep",
            {[corr |-> c, seen |-> wf[c], attempts |-> 0] :
               c \in {d \in Saga : wf[d] \in SlowSteps \cap DOMAIN SweptTo}})
  /\ UNCHANGED <<outbox, payment, wf>>

Sweep(x) ==
  /\ task = "sweep"
  /\ x \in batch
  /\ ForceState(x.corr, x.seen, SweptTo[x.seen])
  /\ IF x.seen = "PROCESSING_PAYMENT" THEN Continue("mark", x)
                                      ELSE Handled("sweep", x)
  /\ UNCHANGED <<outbox, payment, compAttempts>>

(* Not told whether the workflow really was forced. *)
MarkPaymentUnknown ==
  /\ task = "mark"
  /\ Transition(subject, "PROCESSING", "UNKNOWN")
  /\ Resume("sweep")
  /\ UNCHANGED <<outbox, wf, compAttempts>>

(***************************************************************************)
(* retryFailedCompensation.                                                *)
(***************************************************************************)
SelectCompensating ==
  /\ Select("compensate",
            {[corr |-> c, seen |-> wf[c], attempts |-> compAttempts[c]] :
               c \in {d \in Saga : wf[d] \in {"COMPENSATING_INVENTORY"}
                                              \cap SlowSteps}})
  /\ UNCHANGED <<outbox, payment, wf>>

\* mutant: one attempt too many
AttemptsLeftOffByOne(x) == x.attempts <= MaxCompensationAttempts

AttemptsLeft(x) == x.attempts < MaxCompensationAttempts

GiveUp(x) ==
  /\ task = "compensate"
  /\ x \in batch
  /\ ~ AttemptsLeft(x)
  /\ ForceState(x.corr, "COMPENSATING_INVENTORY", "COMPENSATION_FAILED")
  /\ Handled("compensate", x)
  /\ UNCHANGED <<outbox, payment, compAttempts>>

(* Nothing checks that the workflow is still compensating. *)
RetryCompensation(x) ==
  /\ task = "compensate"
  /\ x \in batch
  /\ AttemptsLeft(x)
  /\ compAttempts' = [compAttempts EXCEPT ![x.corr] = @ + 1]
  /\ Enqueue(x.corr, "RELEASE_INVENTORY")
  /\ Handled("compensate", x)
  /\ UNCHANGED <<payment, wf>>

(* The orchestrator dies, or a query of the tick throws and tick() abandons*)
(* the rest of it, or a shutdown ends the pool under a tick nobody waits   *)
(* for.                                                                    *)
TickDies ==
  /\ Fault("tick")
  /\ task # "idle"
  /\ task' = "idle"
  /\ subject' = NoSaga
  /\ batch' = {}
  /\ UNCHANGED <<outbox, inbox, retired, payment, wf, compAttempts>>

JobStep ==
  /\ \/ SelectUnknown \/ Lookup \/ Resolve
     \/ SelectStuck \/ MarkPaymentUnknown
     \/ SelectCompensating
     \/ \E x \in batch : ClaimUnknown(x) \/ Sweep(x) \/ GiveUp(x)
                           \/ RetryCompensation(x)
  /\ UNCHANGED <<inbox, retired, faults>>

JobFault == LookupFails \/ TickDies
=============================================================================
