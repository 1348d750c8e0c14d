-------------------------------- MODULE Ring --------------------------------
(***************************************************************************)
(* The message ring between two services: the processes with their relays, *)
(* the broker's queue, and the consumers, through crashes, lost            *)
(* connections and shutdowns.                                              *)
(***************************************************************************)
EXTENDS ConsumerRunner

vars == <<lifeVars, relayVars, consumerVars>>

TypeOK ==
  /\ LifecycleTypeOK
  /\ RelayTypeOK
  /\ ConsumerTypeOK

Init ==
  /\ LifecycleInit
  /\ RelayInit
  /\ ConsumerInit

SlotsOf(p) == {k \in Slot : Host[k] = p}

(* A tick that has sent nothing may not have taken its channel yet. *)
NothingSent(p) ==
  batch[p].waiting \cup batch[p].sent \cup batch[p].unsent = {}

CloseChannel(p) ==
  \E open \in BOOLEAN :
    /\ open => NothingSent(p)
    /\ batch' = [batch EXCEPT ![p].open = open]

\* mutant: waits for the queue, not for the handlers
QuietQueue(p) == \A r \in Row, a \in Attempts : queued[r][a] = 0

Quiet(p) == \A k \in SlotsOf(p) : flight[k] = Idle

(* consumer.stop() returned: cancelled, and every handler in flight at     *)
(* that moment has settled.  Next closer: stopOutboxRelay, which closes    *)
(* the channel and does not wait for a running tick.                       *)
Drained(p) ==
  /\ stage[p] = "draining"
  /\ Quiet(p)
  /\ Enter(p, "closing")
  /\ CloseChannel(p)
  /\ UNCHANGED <<faults, status, tries, loop, queued, consumerVars>>

(* closeQueue() under a running tick: it loses its channel, or finds no    *)
(* connection to open one on and rolls back.                               *)
TickOvertaken(p) ==
  /\ stage[p] = "closing"
  /\ loop[p] = "ticking"
  /\ batch[p].open
  /\ \/ batch' = [batch EXCEPT ![p].open = FALSE] /\ UNCHANGED loop
     \/ /\ NothingSent(p)
        /\ batch' = [batch EXCEPT ![p] = NoBatch]
        /\ loop' = [loop EXCEPT ![p] = "waiting"]
  /\ UNCHANGED <<lifeVars, status, tries, queued, consumerVars>>

(* pool.end() waits for the client of a running tick; then the process     *)
(* exits.                                                                  *)
Exit(p) ==
  /\ stage[p] = "closing"
  /\ loop[p] # "ticking"
  /\ Enter(p, "down")
  /\ loop' = [loop EXCEPT ![p] = "waiting"]
  /\ batch' = [batch EXCEPT ![p] = NoBatch]
  /\ UNCHANGED <<faults, status, tries, queued, consumerVars>>

(* Killed at any point: open transactions roll back, the broker takes the  *)
(* unacked deliveries back.                                                *)
Crash(p) ==
  /\ Fault("crash")
  /\ stage[p] # "down"
  /\ Enter(p, "down")
  /\ loop' = [loop EXCEPT ![p] = "waiting"]
  /\ batch' = [batch EXCEPT ![p] = NoBatch]
  /\ Requeue(p)
  /\ flight' = [k \in Slot |-> IF Host[k] = p THEN Idle ELSE flight[k]]
  /\ UNCHANGED <<status, tries, inbox, effects, dlq>>

(* The connection drops under a process that runs on, and comes back.      *)
ConnectionLost(p) ==
  /\ Fault("connection")
  /\ stage[p] # "down"
  /\ CloseChannel(p)
  /\ Requeue(p)
  /\ flight' = [k \in Slot |-> IF Host[k] = p /\ flight[k].owned
                                 THEN [flight[k] EXCEPT !.owned = FALSE]
                                 ELSE flight[k]]
  /\ UNCHANGED <<stage, status, tries, loop, inbox, effects, dlq>>

Restarts(p) ==
  /\ Start(p)
  /\ UNCHANGED <<relayVars, consumerVars>>

Producers ==
  /\ \E r \in Row : Write(r)
  /\ UNCHANGED consumerVars

Relays(p) ==
  /\ RelayStep(p)
  /\ UNCHANGED consumerVars

Processes(p) == Restarts(p) \/ Drained(p) \/ TickOvertaken(p) \/ Exit(p)

Faults ==
  \E p \in Proc :
    \/ Crash(p)
    \/ ConnectionLost(p)
    \/ Sigterm(p) /\ UNCHANGED <<relayVars, consumerVars>>
    \/ RelayFault(p) /\ UNCHANGED consumerVars

Next ==
  \/ Producers
  \/ \E p \in Proc : Relays(p) \/ Processes(p)
  \/ \E k \in Slot : ConsumerStep(k)
  \/ Faults

Spec == Init /\ [][Next]_vars

(* Timers keep firing, handlers return, a stopped or killed container is   *)
(* started again, a shutdown goes on.  No fault has to happen and nothing  *)
(* has to be written.                                                      *)
Fairness ==
  /\ \A p \in Proc : WF_vars(Relays(p)) /\ WF_vars(Processes(p))
  /\ \A k \in Slot : WF_vars(ConsumerStep(k))

FairSpec == Spec /\ Fairness

(***************************************************************************)
(* The ring implements the contract.                                       *)
(***************************************************************************)
Written == {r \in Row : status[r] # "NONE"}

(* Something can still bring the row to its handler: the relay, a message, *)
(* a delivery the broker would take back, or a handler that runs on.       *)
OnItsWay(r) ==
  \/ status[r] = "PENDING"
  \/ \E a \in Attempts : queued[r][a] > 0
  \/ \E k \in Slot :
       /\ flight[k].row = r
       /\ flight[k].owned \/ flight[k].phase \in {"begun", "claimed"}

Lost == {r \in Written \ inbox : ~ OnItsWay(r)}

Contract ==
  INSTANCE Delivery WITH written <- Written, acted <- inbox, lost <- Lost

(* A row acts at most once and nothing that was given up comes back,       *)
(* through every crash, repetition and shutdown (inbox.js:6, outbox.js:5). *)
KeepsContract == Contract!Spec

(* The business transaction of a row commits once, however many copies are *)
(* handled at the same time (inbox.js:6).                                  *)
ActsOnce == \A r \in Row : effects[r] <= 1

(* "Nothing is ever dropped silently" (consumerRunner.js:18): what is lost *)
(* is on the DLQ, or its row says FAILED.                                  *)
LostIsVisible == \A r \in Lost : r \in dlq \/ status[r] = "FAILED"

Waiting(r) == {a \in Attempts : queued[r][a] > 0}

InHand(r) == {k \in Slot : flight[k].row = r /\ flight[k].phase # "acking"}

SingleCopy(r) ==
  /\ \A a \in Attempts : queued[r][a] <= 1
  /\ \A a, b \in Waiting(r) : a = b
  /\ \A j, k \in InHand(r) : j = k
  /\ Waiting(r) = {} \/ InHand(r) = {}

Unseen(r) == Waiting(r) = {} /\ InHand(r) = {} /\ r \notin inbox \cup dlq

Published(r) ==
  \/ status[r] \notin {"NONE", "PENDING"}
  \/ \E p \in Proc : r \in batch[p].waiting \cup batch[p].sent

(* "several relay instances drain the same table without ... publishing    *)
(* duplicates" (outboxRelay.js:40): only a fault makes a second copy.      *)
UnprovokedOnce ==
  faults = MaxFaults =>
    \A r \in Row : SingleCopy(r) /\ (~ Published(r) => Unseen(r))

(* "Skipping this is how you end up with unacked messages and              *)
(* half-finished transactions" (lifecycle.js:9): when the connection and   *)
(* the pool of a process close, none of its handlers is still at work, and *)
(* when it is gone no tick of it holds rows.                               *)
NothingOutlivesThePool ==
  \A p \in Proc :
    /\ stage[p] \in {"closing", "down"}
         => \A k \in Slot : Host[k] = p => flight[k] = Idle
    /\ stage[p] = "down" => batch[p] = NoBatch

(* Every message acts or is visibly lost. *)
EverySettles ==
  \A r \in Row : status[r] # "NONE" ~> Contract!Settled(r)

(* Every shutdown ends by itself: no closer waits for ever.                *)
EveryStopEnds == \A p \in Proc : stage[p] = "draining" ~> stage[p] = "down"
=============================================================================
