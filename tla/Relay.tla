-------------------------------- MODULE Relay --------------------------------
(***************************************************************************)
(* src/outboxRelay.js: every process drains the table outbox_events.  A    *)
(* tick locks a batch of PENDING rows, publishes them one by one on a      *)
(* confirm channel, and commits what became of each; until the COMMIT the  *)
(* table shows nothing.  RabbitMQ's queue is the other end (src/queue.js). *)
(*                                                                         *)
(* The times of next_attempt_at are not measured: a batch is any set of    *)
(* rows that are PENDING and not locked, which also covers LIMIT and the   *)
(* backoff.  A channel that is closed ends the wait for its confirms with  *)
(* an error.                                                               *)
(***************************************************************************)
EXTENDS Lifecycle

CONSTANTS
  Row,                 \* rows of outbox_events, all for one queue
  MaxRetries,          \* CONSUMER_MAX_RETRIES
  MaxPublishRetries    \* OUTBOX_MAX_RETRIES

ASSUME RelayAssumption == MaxRetries \in Nat /\ MaxPublishRetries \in Nat

VARIABLES
  status,     \* of each row, "NONE" until it is written
  tries,      \* retry_count
  loop,       \* of each process: "waiting", "ticking", "ended"
  batch,      \* of each process: its running tick
  queued      \* messages on the queue and its retry queue, by attempt

relayVars == <<status, tries, loop, batch, queued>>

Attempts == 1..(MaxRetries + 1)

(* todo: selected and not yet sent; waiting: sent, no confirm yet; sent,   *)
(* unsent: updated in the open transaction; open: the channel the tick     *)
(* holds is usable.                                                        *)
Batch ==
  [todo : SUBSET Row, waiting : SUBSET Row, sent : SUBSET Row,
   unsent : SUBSET Row, open : BOOLEAN]

NoBatch ==
  [todo |-> {}, waiting |-> {}, sent |-> {}, unsent |-> {}, open |-> TRUE]

RelayTypeOK ==
  /\ status \in [Row -> {"NONE", "PENDING", "PROCESSED", "FAILED"}]
  /\ tries \in [Row -> 0..(MaxPublishRetries + 1)]
  /\ loop \in [Proc -> {"waiting", "ticking", "ended"}]
  /\ batch \in [Proc -> Batch]
  /\ queued \in [Row -> [Attempts -> Nat]]

RelayInit ==
  /\ status = [r \in Row |-> "NONE"]
  /\ tries = [r \in Row |-> 0]
  /\ loop = [p \in Proc |-> "waiting"]
  /\ batch = [p \in Proc |-> NoBatch]
  /\ queued = [r \in Row |-> [a \in Attempts |-> 0]]

(* enqueueOutbox, in the transaction of whoever announces something. *)
Write(r) ==
  /\ status[r] = "NONE"
  /\ status' = [status EXCEPT ![r] = "PENDING"]
  /\ UNCHANGED <<lifeVars, tries, loop, batch, queued>>

Rows(b) == b.todo \cup b.waiting \cup b.sent \cup b.unsent

Locked == UNION {Rows(batch[p]) : p \in Proc}

\* mutants: SELECT without FOR UPDATE SKIP LOCKED, and of FAILED rows too
SelectableUnlocked == {r \in Row : status[r] = "PENDING"}
SelectableFailed == {r \in Row \ Locked : status[r] \in {"PENDING", "FAILED"}}

Selectable == {r \in Row \ Locked : status[r] = "PENDING"}

(* Relays go on publishing while the consumer of their process drains. *)
RelayRuns(p) == stage[p] \in {"up", "draining"}

TickBegins(p) ==
  /\ RelayRuns(p)
  /\ loop[p] = "waiting"
  /\ \E rows \in (SUBSET Selectable) \ {{}} :
       batch' = [batch EXCEPT ![p] = [NoBatch EXCEPT !.todo = rows]]
  /\ loop' = [loop EXCEPT ![p] = "ticking"]
  /\ UNCHANGED <<lifeVars, status, tries, queued>>

SendToQueue(p, r) ==
  /\ r \in batch[p].todo
  /\ batch[p].waiting = {}
  /\ batch[p].open
  /\ batch' = [batch EXCEPT ![p].todo = @ \ {r}, ![p].waiting = {r}]
  /\ queued' = [queued EXCEPT ![r][1] = @ + 1]
  /\ UNCHANGED <<lifeVars, status, tries, loop>>

(* sendToQueue throws on a closed channel. *)
SendFails(p, r) ==
  /\ r \in batch[p].todo
  /\ batch[p].waiting = {}
  /\ ~ batch[p].open
  /\ batch' = [batch EXCEPT ![p].todo = @ \ {r}, ![p].unsent = @ \cup {r}]
  /\ UNCHANGED <<lifeVars, status, tries, loop, queued>>

(* waitForConfirms: the broker has the row, or nobody knows. *)
Confirm(p) ==
  LET rows == batch[p].waiting IN
  /\ rows # {}
  /\ \/ /\ batch[p].open
        /\ batch' = [batch EXCEPT ![p].waiting = {}, ![p].sent = @ \cup rows]
     \/ /\ ~ batch[p].open
        /\ batch' = [batch EXCEPT ![p].waiting = {}, ![p].unsent = @ \cup rows]
  /\ UNCHANGED <<lifeVars, status, tries, loop, queued>>

Exhausted(r) == tries[r] + 1 > MaxPublishRetries

AfterFailure(r) == IF Exhausted(r) THEN "FAILED" ELSE "PENDING"

(* The COMMIT of the tick.  The next tick has a fresh channel. *)
TickCommits(p) ==
  LET b == batch[p] IN
  /\ loop[p] = "ticking"
  /\ b.todo = {} /\ b.waiting = {}
  /\ status' = [r \in Row |->
       IF r \in b.sent THEN "PROCESSED"
       ELSE IF r \in b.unsent THEN AfterFailure(r) ELSE status[r]]
  /\ tries' = [r \in Row |-> IF r \in b.unsent THEN tries[r] + 1 ELSE tries[r]]
  /\ loop' = [loop EXCEPT ![p] = "waiting"]
  /\ batch' = [batch EXCEPT ![p] = NoBatch]
  /\ UNCHANGED <<lifeVars, queued>>

\* mutant: `ticking = false` is not in the finally block
TickAbortsStuck(p) ==
  /\ Fault("abort")
  /\ loop[p] = "ticking"
  /\ loop' = [loop EXCEPT ![p] = "ended"]
  /\ batch' = [batch EXCEPT ![p] = NoBatch]
  /\ UNCHANGED <<stage, status, tries, queued>>

(* An UPDATE fails: the whole batch rolls back, published or not. *)
TickAborts(p) ==
  /\ Fault("abort")
  /\ loop[p] = "ticking"
  /\ loop' = [loop EXCEPT ![p] = "waiting"]
  /\ batch' = [batch EXCEPT ![p] = NoBatch]
  /\ UNCHANGED <<stage, status, tries, queued>>

(* pool.connect() is outside the try of tick(): its error leaves `ticking` *)
(* set and the timer callback rejected, and nothing is scheduled any more. *)
PoolConnectFails(p) ==
  /\ Fault("pool")
  /\ RelayRuns(p)
  /\ loop[p] = "waiting"
  /\ loop' = [loop EXCEPT ![p] = "ended"]
  /\ UNCHANGED <<stage, status, tries, batch, queued>>

RelayStep(p) ==
  \/ TickBegins(p)
  \/ \E r \in Row : SendToQueue(p, r) \/ SendFails(p, r)
  \/ Confirm(p)
  \/ TickCommits(p)

RelayFault(p) == TickAborts(p) \/ PoolConnectFails(p)
=============================================================================
