---------------------------- MODULE PaymentWorker ---------------------------
(***************************************************************************)
(* src/services/paymentWorker.js with src/paymentRepo.js and the retry     *)
(* policy of src/consumerRunner.js: phase 1 claims the payment in a        *)
(* transaction, phase 2 calls the provider outside any transaction,        *)
(* phase 3 classifies the outcome and commits it, and only then is the     *)
(* message acked or sent to the retry queue.  The worker has no inbox, so  *)
(* every copy of the command on its queues is handled.                     *)
(***************************************************************************)
EXTENDS Provider

CONSTANT MaxRetries     \* CONSUMER_MAX_RETRIES

ASSUME WorkerAssumption == MaxRetries \in Nat

VARIABLES
  payment,    \* payments.status of each saga, "NONE" without a row
  copies      \* PROCESS_PAYMENT messages queued: saga -> attempt -> number

paymentVars == <<ledger, call, payment, copies>>

Attempts == 1..(MaxRetries + 1)

PaymentTypeOK ==
  /\ ProviderTypeOK
  /\ payment \in [Saga -> PaymentStates \cup {"NONE"}]
  /\ copies \in [Saga -> [Attempts -> Nat]]
  /\ \A k \in Slot : call[k].client # "idle" => call[k].attempt \in Attempts

PaymentInit ==
  /\ ProviderInit
  /\ payment = [c \in Saga |-> "NONE"]
  /\ copies = [c \in Saga |-> [a \in Attempts |-> 0]]

(***************************************************************************)
(* The relay and the queue.                                                *)
(***************************************************************************)
AddCopy(c, a) == copies' = [copies EXCEPT ![c][a] = @ + 1]

RemoveCopy(c, a) ==
  /\ copies[c][a] > 0
  /\ copies' = [copies EXCEPT ![c][a] = @ - 1]

Publish(r) ==
  /\ r.type = "PROCESS_PAYMENT"
  /\ Deliverable(r)
  /\ AddCopy(r.corr, 1)
  /\ UNCHANGED <<outbox, inbox, ledger, call, payment>>

PublishOnce(r) ==
  /\ Publish(r)
  /\ retired' = retired \cup {r}
  /\ UNCHANGED faults

(* The relay dies after the broker's confirm and before its COMMIT: the    *)
(* row is PENDING again and will be published once more.                   *)
PublishUncommitted(r) ==
  /\ Publish(r)
  /\ Fault("relay")
  /\ UNCHANGED retired

(***************************************************************************)
(* Phase 1.                                                                *)
(***************************************************************************)
Deliver(k, c, a, client, server) ==
  /\ call[k] = NoCall
  /\ RemoveCopy(c, a)
  /\ call' = [call EXCEPT ![k] =
                [corr |-> c, attempt |-> a, client |-> client,
                 server |-> server, owned |-> TRUE]]
  /\ UNCHANGED <<inbox, retired, faults, ledger>>

(* Finished on an earlier delivery: announce the outcome again. *)
DeliverFinished(k, c, a) ==
  /\ payment[c] \in TerminalPaymentStates
  /\ Deliver(k, c, a, "acking", "none")
  /\ Enqueue(c, IF payment[c] = "SUCCEEDED" THEN "PAYMENT_SUCCEEDED"
                                            ELSE "PAYMENT_FAILED")
  /\ UNCHANGED payment

LeftAlone(status) == status = "UNKNOWN"

DeliverUnknown(k, c, a) ==
  /\ LeftAlone(payment[c])
  /\ Deliver(k, c, a, "acking", "none")
  /\ UNCHANGED <<outbox, payment>>

(* ensurePayment inserts the row CREATED when there is none, and the same  *)
(* transaction moves it to PROCESSING; any other status is kept.           *)
DeliverCharge(k, c, a) ==
  /\ payment[c] \notin TerminalPaymentStates
  /\ ~ LeftAlone(payment[c])
  /\ Deliver(k, c, a, "charging", "arriving")
  /\ payment' = [payment EXCEPT ![c] = IF @ \in {"NONE", "CREATED"}
                                         THEN "PROCESSING" ELSE @]
  /\ UNCHANGED outbox

(***************************************************************************)
(* Phase 3.                                                                *)
(***************************************************************************)
\* mutant: the UPDATE without "AND status = from"
TransitionUnguarded(c, from, to) == payment' = [payment EXCEPT ![c] = to]

(* paymentRepo.transition: UPDATE ... WHERE id = $4 AND status = from, so  *)
(* that a lost race changes nothing.  No caller looks at `applied`.        *)
Transition(c, from, to) ==
  payment' = [payment EXCEPT ![c] = IF @ = from THEN to ELSE @]

Commit(k, client) ==
  /\ SetClient(k, client)
  /\ UNCHANGED <<inbox, retired, faults, ledger, copies>>

(* finalize(): the transition and the saga event in one transaction. *)
Finalize(k, to, event) ==
  /\ Transition(call[k].corr, "PROCESSING", to)
  /\ Enqueue(call[k].corr, event)
  /\ Commit(k, "acking")

\* mutant: one retry more than the runner will grant
RetriesLeftOffByOne(k) == call[k].attempt <= MaxRetries + 1

RetriesLeft(k) == call[k].attempt <= MaxRetries

FinishApproved(k) ==
  /\ call[k].client = "approved"
  /\ Finalize(k, "SUCCEEDED", "PAYMENT_SUCCEEDED")

FinishUnknown(k) ==
  /\ call[k].client = "unknown"
  /\ Finalize(k, "UNKNOWN", "PAYMENT_UNKNOWN")

FinishFailed(k) ==
  /\ \/ call[k].client = "declined"
     \/ call[k].client = "transient" /\ ~ RetriesLeft(k)
  /\ Finalize(k, "FAILED", "PAYMENT_FAILED")

(* A plain UPDATE back to CREATED, outside paymentRepo. *)
RollBack(k) ==
  /\ call[k].client = "transient"
  /\ RetriesLeft(k)
  /\ Transition(call[k].corr, "PROCESSING", "CREATED")
  /\ Commit(k, "retrying")
  /\ UNCHANGED outbox

(* The runner acks, after sending the retry on the same channel.  On a     *)
(* channel that is gone neither reaches the broker.                        *)
Ack(k) ==
  /\ call[k].client \in {"acking", "retrying"}
  /\ IF call[k].client = "retrying" /\ call[k].owned
       THEN AddCopy(call[k].corr, call[k].attempt + 1)
       ELSE UNCHANGED copies
  /\ SetClient(k, "idle")
  /\ UNCHANGED <<busVars, ledger, payment>>

(***************************************************************************)
(* Failures.  Each slot may be a worker process of its own.                *)
(***************************************************************************)
\* mutant: deliveries are acked before they are handled
RedeliverNever(k) == UNCHANGED copies

(* The broker returns an unacked delivery to the queue. *)
Redeliver(k) ==
  IF call[k].owned THEN AddCopy(call[k].corr, call[k].attempt)
                   ELSE UNCHANGED copies

WorkerCrash(k) ==
  /\ Fault("crash")
  /\ call[k].client # "idle"
  /\ Redeliver(k)
  /\ SetClient(k, "idle")
  /\ UNCHANGED <<outbox, inbox, retired, ledger, payment>>

(* The connection drops and recovers under a running handler. *)
ChannelLost(k) ==
  /\ Fault("channel")
  /\ call[k].client # "idle"
  /\ call[k].owned
  /\ Redeliver(k)
  /\ call' = [call EXCEPT ![k].owned = FALSE]
  /\ UNCHANGED <<outbox, inbox, retired, ledger, payment>>

(* The transaction of phase 1, or of phase 3, fails: not a TransientError, *)
(* so the runner parks the message.                                        *)
ClaimParked(c, a) ==
  /\ Fault("park")
  /\ RemoveCopy(c, a)
  /\ UNCHANGED <<outbox, inbox, retired, ledger, call, payment>>

CommitParked(k) ==
  /\ Fault("park")
  /\ call[k].client \in Outcomes
  /\ SetClient(k, "idle")
  /\ UNCHANGED <<outbox, inbox, retired, ledger, payment, copies>>

RelayStep == \E r \in outbox : PublishOnce(r)

DeliverStep ==
  \E k \in Slot, c \in Saga, a \in Attempts :
    DeliverFinished(k, c, a) \/ DeliverUnknown(k, c, a) \/ DeliverCharge(k, c, a)

HandlerStep(k) ==
  FinishApproved(k) \/ FinishUnknown(k) \/ FinishFailed(k) \/ RollBack(k) \/ Ack(k)

WorkerStep == RelayStep \/ DeliverStep \/ \E k \in Slot : HandlerStep(k)

WorkerFault ==
  \/ \E r \in outbox : PublishUncommitted(r)
  \/ \E k \in Slot : WorkerCrash(k) \/ ChannelLost(k) \/ CommitParked(k)
  \/ \E c \in Saga, a \in Attempts : ClaimParked(c, a)
=============================================================================
