--------------------------- MODULE ConsumerRunner ---------------------------
(***************************************************************************)
(* src/consumerRunner.js with src/inbox.js: the consume loop around a      *)
(* handler that does its work in withInbox.  A slot is a message in        *)
(* flight; a process has as many as its prefetch.  The handler's           *)
(* transaction begins with the claim of processed_events, which locks the  *)
(* key until the transaction ends; only after it ends does the loop ack,   *)
(* or send the message to the retry queue or the DLQ and then ack.         *)
(***************************************************************************)
EXTENDS Relay

CONSTANTS
  Slot,
  Host,     \* the process of each slot
  NoRow

ASSUME ConsumerAssumption ==
  /\ IsFiniteSet(Slot)
  /\ Host \in [Slot -> Proc]
  /\ NoRow \notin Row

VARIABLES
  flight,     \* the delivery in each slot
  inbox,      \* processed_events of the consumer
  effects,    \* committed business transactions, by row
  dlq         \* rows parked on the DLQ

consumerVars == <<flight, inbox, effects, dlq>>

(* begun: the handler runs; claimed: inside its transaction; retrying,     *)
(* parking: it failed; acking: all that is left is the ack.  owned: the    *)
(* channel it came on is still there.                                      *)
Phases == {"idle", "begun", "claimed", "retrying", "parking", "acking"}

Idle == [row |-> NoRow, attempt |-> 1, phase |-> "idle", owned |-> FALSE]

ConsumerTypeOK ==
  /\ flight \in [Slot -> [row : Row \cup {NoRow}, attempt : Attempts,
                          phase : Phases, owned : BOOLEAN]]
  /\ \A k \in Slot : flight[k].row = NoRow <=> flight[k].phase = "idle"
  /\ inbox \subseteq Row
  /\ effects \in [Row -> Nat]
  /\ dlq \subseteq Row

ConsumerInit ==
  /\ flight = [k \in Slot |-> Idle]
  /\ inbox = {}
  /\ effects = [r \in Row |-> 0]
  /\ dlq = {}

To(k, phase) == flight' = [flight EXCEPT ![k].phase = phase]

\* mutant: stop() drains without channel.cancel
ConsumingUncancelled(p) == stage[p] # "down"

(* Not after channel.cancel. *)
Consuming(p) == stage[p] = "up"

(* channel.consume with its prefetch. *)
Receive(k, r, a) ==
  /\ Consuming(Host[k])
  /\ flight[k] = Idle
  /\ queued[r][a] > 0
  /\ queued' = [queued EXCEPT ![r][a] = @ - 1]
  /\ flight' = [flight EXCEPT ![k] =
       [row |-> r, attempt |-> a, phase |-> "begun", owned |-> TRUE]]
  /\ UNCHANGED <<lifeVars, status, tries, loop, batch, inbox, effects, dlq>>

(* ON CONFLICT DO NOTHING found a committed claim. *)
IgnoreDuplicate(k) ==
  /\ flight[k].phase = "begun"
  /\ flight[k].row \in inbox
  /\ To(k, "acking")
  /\ UNCHANGED <<lifeVars, relayVars, inbox, effects, dlq>>

\* mutant: alreadyProcessed(), a look without a claim
ClaimableByLook(r) == r \notin inbox

(* The INSERT waits for a claim of the same key that has not committed. *)
Claimable(r) ==
  /\ r \notin inbox
  /\ ~ \E k \in Slot : flight[k].phase = "claimed" /\ flight[k].row = r

Claim(k) ==
  /\ flight[k].phase = "begun"
  /\ Claimable(flight[k].row)
  /\ To(k, "claimed")
  /\ UNCHANGED <<lifeVars, relayVars, inbox, effects, dlq>>

Commit(k) ==
  /\ flight[k].phase = "claimed"
  /\ inbox' = inbox \cup {flight[k].row}
  /\ effects' = [effects EXCEPT ![flight[k].row] = @ + 1]
  /\ To(k, "acking")
  /\ UNCHANGED <<lifeVars, relayVars, dlq>>

(* The transaction rolled back: with a TransientError, which is retried    *)
(* while attempts are left, or with any other.                             *)
HandlerFails(k) ==
  /\ flight[k].phase \in {"begun", "claimed"}
  /\ \/ To(k, "parking")
     \/ /\ flight[k].attempt <= MaxRetries
        /\ To(k, "retrying")
  /\ UNCHANGED <<lifeVars, relayVars, inbox, effects, dlq>>

Retry(k) ==
  /\ flight[k].phase = "retrying"
  /\ flight[k].owned
  /\ queued' =
       [queued EXCEPT ![flight[k].row][flight[k].attempt + 1] = @ + 1]
  /\ To(k, "acking")
  /\ UNCHANGED <<lifeVars, status, tries, loop, batch, inbox, effects, dlq>>

ParkOnDlq(k) ==
  /\ flight[k].phase = "parking"
  /\ flight[k].owned
  /\ dlq' = dlq \cup {flight[k].row}
  /\ To(k, "acking")
  /\ UNCHANGED <<lifeVars, relayVars, inbox, effects>>

\* mutant: the slot keeps its message
LeaveDirty(k) ==
  /\ To(k, "idle")
  /\ UNCHANGED <<lifeVars, relayVars, inbox, effects, dlq>>

Leave(k) ==
  /\ flight' = [flight EXCEPT ![k] = Idle]
  /\ UNCHANGED <<lifeVars, relayVars, inbox, effects, dlq>>

\* mutant: the message is acked as soon as its handler has thrown
AckEarly(k) ==
  /\ flight[k].phase \in {"acking", "retrying", "parking"}
  /\ Leave(k)

Ack(k) ==
  /\ flight[k].phase = "acking"
  /\ Leave(k)

(* On a channel that is gone ack, retry and parking throw. *)
LateAck(k) ==
  /\ flight[k].phase \in {"retrying", "parking"}
  /\ ~ flight[k].owned
  /\ Leave(k)

(* The broker returns the unacked deliveries of a process to the queue. *)
Redelivered(p, r, a) ==
  Cardinality({k \in Slot :
    /\ Host[k] = p
    /\ flight[k].owned
    /\ flight[k].row = r
    /\ flight[k].attempt = a})

Requeue(p) ==
  queued' = [r \in Row |-> [a \in Attempts |->
               queued[r][a] + Redelivered(p, r, a)]]

ConsumerStep(k) ==
  \/ \E r \in Row, a \in Attempts : Receive(k, r, a)
  \/ IgnoreDuplicate(k)
  \/ Claim(k)
  \/ Commit(k)
  \/ HandlerFails(k)
  \/ Retry(k)
  \/ ParkOnDlq(k)
  \/ Ack(k)
  \/ LateAck(k)
=============================================================================
