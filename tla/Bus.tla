-------------------------------- MODULE Bus ---------------------------------
(***************************************************************************)
(* The message ring seen from the handlers: a row of outbox_events is      *)
(* written in the transaction of the change it announces (src/outbox.js),  *)
(* reaches its consumer at least once and in any order (five relays, five  *)
(* or more handlers in flight per queue), and a consumer that uses the     *)
(* inbox commits its claim of the row with its own work (src/inbox.js).    *)
(*                                                                         *)
(* A second delivery of a claimed row commits nothing, so it is the        *)
(* stuttering step; a row not yet claimed stays deliverable until the      *)
(* broker has let go of it (`retired`).                                    *)
(***************************************************************************)
EXTENDS Naturals, FiniteSets, StateMachine

CONSTANTS
  Saga,        \* correlation ids: one workflow, payment, reservation each
  MaxFaults,   \* bound: how many faults are injected
  FaultKinds   \* and of which kinds

(* park     a message is lost to its consumer (DLQ, or a FAILED outbox row)*)
(* crash    a consumer's process dies between its commit and its ack       *)
(* channel  a consumer's channel is lost under a handler that runs on      *)
(* relay    a relay dies between the broker's confirm and its COMMIT       *)
(* refused  a connection to the provider is refused                        *)
(* lookup   a reconciliation lookup fails                                  *)
(* tick     a tick of the recovery jobs is cut short                       *)
AllFaultKinds ==
  {"park", "crash", "channel", "relay", "refused", "lookup", "tick"}

ASSUME BusAssumption ==
  /\ MaxFaults \in Nat
  /\ FaultKinds \subseteq AllFaultKinds

VARIABLES
  outbox,     \* rows written to outbox_events
  inbox,      \* rows claimed in processed_events by the consumer they target
  retired,    \* unclaimed rows the broker will not deliver any more
  faults      \* faults left to inject

busVars == <<outbox, inbox, retired, faults>>

MessageTypes == SagaEvents \cup Commands

Row == [corr : Saga, type : MessageTypes, n : Nat]

BusTypeOK ==
  /\ outbox \subseteq Row
  /\ IsFiniteSet(outbox)
  /\ inbox \subseteq outbox
  /\ retired \subseteq outbox
  /\ faults \in 0..MaxFaults

BusInit ==
  /\ outbox = {}
  /\ inbox = {}
  /\ retired = {}
  /\ faults = MaxFaults

Sent(c, t) == {r \in outbox : r.corr = c /\ r.type = t}

(* enqueueOutbox and emitSagaEvent: a fresh id, here the number of rows of *)
(* this type the saga already has.                                         *)
Enqueue(c, t) ==
  outbox' = outbox \cup {[corr |-> c, type |-> t, n |-> Cardinality(Sent(c, t))]}

Deliverable(r) == r \in outbox /\ r \notin inbox /\ r \notin retired

\* mutant: the claim is rolled back although the handler's work commits
WithInboxUnclaimed(r) ==
  /\ Deliverable(r)
  /\ UNCHANGED <<inbox, retired, faults>>

(* withInbox: the claim of the row commits with the work of the handler,   *)
(* which says what happens to outbox.                                      *)
WithInbox(r) ==
  /\ Deliverable(r)
  /\ inbox' = inbox \cup {r}
  /\ UNCHANGED <<retired, faults>>

Fault(kind) ==
  /\ kind \in FaultKinds
  /\ faults > 0
  /\ faults' = faults - 1

(* The row is lost to its consumer: the relay gave up on it (status FAILED *)
(* after MAX_PUBLISH_RETRIES), or its handler's transaction failed with an *)
(* error that is not a TransientError and the message was parked.          *)
Park(r) ==
  /\ Fault("park")
  /\ Deliverable(r)
  /\ retired' = retired \cup {r}
  /\ UNCHANGED <<outbox, inbox>>
=============================================================================
