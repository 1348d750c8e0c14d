----------------------------- MODULE RingProofs -----------------------------
(***************************************************************************)
(* Safety of Ring, for any number of rows, processes and slots, any number *)
(* of retries and any faults.                                              *)
(*                                                                         *)
(* First the types, with the rows a running tick holds; then the inbox,    *)
(* the shutdown, and where a row is, from which follow that nothing is     *)
(* lost in silence, that a row is published once if no fault happens, and  *)
(* that the contract is kept.                                              *)
(***************************************************************************)
EXTENDS Ring, FiniteSetTheorems, TLAPS

(* A row in a batch is PENDING and in no other batch, a row that is not    *)
(* PROCESSED or FAILED has attempts left.                                  *)
LockInv ==
  /\ \A p \in Proc : \A r \in Rows(batch[p]) : status[r] = "PENDING"
  /\ \A p, q \in Proc : p # q => Rows(batch[p]) \cap Rows(batch[q]) = {}
  /\ \A r \in Row :
       status[r] \in {"NONE", "PENDING"} => tries[r] <= MaxPublishRetries

(* A message is retried only while attempts are left.                      *)
RetryInv ==
  \A k \in Slot :
    flight[k].phase = "retrying" => flight[k].attempt <= MaxRetries

-----------------------------------------------------------------------------
(* Kinds of steps, by what they leave alone.                               *)

(* A step of a process or its relay that no table and no message sees.     *)
Inward(p) ==
  \/ TickBegins(p) /\ UNCHANGED consumerVars
  \/ (\E r \in Row : SendFails(p, r)) /\ UNCHANGED consumerVars
  \/ Confirm(p) /\ UNCHANGED consumerVars
  \/ RelayFault(p) /\ UNCHANGED consumerVars
  \/ Processes(p)
  \/ Sigterm(p) /\ UNCHANGED <<relayVars, consumerVars>>

(* A step that writes the outbox.                                          *)
Recording ==
  \/ Producers
  \/ \E p \in Proc : TickCommits(p) /\ UNCHANGED consumerVars

Sending ==
  \E p \in Proc, r \in Row : SendToQueue(p, r) /\ UNCHANGED consumerVars

Breaking(p) == Crash(p) \/ ConnectionLost(p)

LEMMA Kinds ==
  ASSUME Next
  PROVE  \/ \E p \in Proc : Inward(p)
         \/ Recording
         \/ Sending
         \/ \E k \in Slot : ConsumerStep(k)
         \/ \E p \in Proc : Breaking(p)
BY DEF Next, Faults, Relays, RelayStep, Inward, Recording, Sending, Breaking

LEMMA InwardLeaves ==
  ASSUME NEW p \in Proc, Inward(p)
  PROVE  UNCHANGED <<status, tries, queued, consumerVars>>
BY DEF Inward, TickBegins, SendFails, Confirm, RelayFault, TickAborts,
       PoolConnectFails, Processes, Restarts, Start, Drained, TickOvertaken,
       Exit, Sigterm, relayVars

LEMMA RecordingLeaves ==
  ASSUME Recording
  PROVE  UNCHANGED <<lifeVars, queued, consumerVars>>
BY DEF Recording, Producers, Write, TickCommits

LEMMA SendingLeaves ==
  ASSUME Sending
  PROVE  UNCHANGED <<lifeVars, status, tries, loop, consumerVars>>
BY DEF Sending, SendToQueue

LEMMA ConsumerLeaves ==
  ASSUME NEW k \in Slot, ConsumerStep(k)
  PROVE  UNCHANGED <<lifeVars, status, tries, loop, batch>>
BY DEF ConsumerStep, Receive, IgnoreDuplicate, Claim, Commit, HandlerFails,
       Retry, ParkOnDlq, Ack, LateAck, Leave, relayVars

LEMMA BreakingLeaves ==
  ASSUME NEW p \in Proc, Breaking(p)
  PROVE  UNCHANGED <<status, tries, inbox, effects, dlq>>
BY DEF Breaking, Crash, ConnectionLost

-----------------------------------------------------------------------------
(* Types.                                                                  *)

LEMMA BatchShapes == NoBatch \in Batch /\ Rows(NoBatch) = {}
BY DEF NoBatch, Batch, Rows

(* What a step does to the batch of one process.  Once a tick has begun    *)
(* rows only leave its batch, and what counts as sent was just sent.       *)
Told(b) == b.waiting \cup b.sent

BatchMove(p) ==
  \/ batch'[p] = batch[p]
  \/ batch'[p] = NoBatch
  \/ /\ stage[p] # "down" \/ batch[p] # NoBatch
     /\ Rows(batch'[p]) \subseteq Rows(batch[p])
     /\ \A r \in Told(batch'[p]) :
          \/ r \in Told(batch[p])
          \/ r \in batch[p].todo /\ queued' = [queued EXCEPT ![r][1] = @ + 1]
  \/ /\ stage[p] # "down"
     /\ Rows(batch'[p]) \subseteq Selectable
     /\ Told(batch'[p]) = {}

BatchStep(p) ==
  /\ batch' \in [Proc -> Batch]
  /\ BatchMove(p)
  /\ \A q \in Proc \ {p} : batch'[q] = batch[q]

LEMMA BatchSet ==
  ASSUME TypeOK, NEW p \in Proc, NEW b \in Batch,
         batch' = [batch EXCEPT ![p] = b]
  PROVE  /\ batch' \in [Proc -> Batch]
         /\ batch'[p] = b
         /\ \A q \in Proc \ {p} : batch'[q] = batch[q]
BY DEF TypeOK, RelayTypeOK

LEMMA InwardBatch ==
  ASSUME TypeOK, NEW p \in Proc, Inward(p)
  PROVE  BatchStep(p)
<1> DEFINE b == batch[p]
<1>1. b \in Batch /\ batch \in [Proc -> Batch]
  BY DEF TypeOK, RelayTypeOK
<1>2. CASE TickBegins(p)
  <2>1. PICK rows \in SUBSET Selectable :
          batch' = [batch EXCEPT ![p] = [NoBatch EXCEPT !.todo = rows]]
    BY <1>2 DEF TickBegins
  <2> DEFINE c == [NoBatch EXCEPT !.todo = rows]
  <2>2. c \in Batch /\ Rows(c) = rows /\ Told(c) = {}
    BY DEF NoBatch, Batch, Selectable, Rows, Told
  <2>3. stage[p] # "down"
    BY <1>2 DEF TickBegins, RelayRuns
  <2> QED
    BY <2>1, <2>2, <2>3, BatchSet DEF BatchStep, BatchMove
<1>3. ASSUME NEW r \in Row, SendFails(p, r) PROVE BatchStep(p)
  <2> DEFINE c == [b EXCEPT !.todo = @ \ {r}, !.unsent = @ \cup {r}]
  <2>1. batch' = [batch EXCEPT ![p] = c] /\ r \in b.todo
    BY <1>3 DEF SendFails
  <2>2. c \in Batch /\ Rows(c) \subseteq Rows(b) /\ Told(c) = Told(b)
    BY <1>1, <2>1 DEF Batch, Rows, Told
  <2>3. b # NoBatch
    BY <2>1 DEF NoBatch
  <2> QED
    BY <2>1, <2>2, <2>3, BatchSet DEF BatchStep, BatchMove
<1>4. CASE Confirm(p)
  <2> DEFINE c == IF b.open
                    THEN [b EXCEPT !.waiting = {}, !.sent = @ \cup b.waiting]
                    ELSE [b EXCEPT !.waiting = {}, !.unsent = @ \cup b.waiting]
  <2>1. batch' = [batch EXCEPT ![p] = c] /\ b.waiting # {}
    BY <1>4 DEF Confirm
  <2>2. c \in Batch /\ Rows(c) \subseteq Rows(b) /\ Told(c) \subseteq Told(b)
    BY <1>1 DEF Batch, Rows, Told
  <2>3. b # NoBatch
    BY <2>1 DEF NoBatch
  <2> QED
    BY <2>1, <2>2, <2>3, BatchSet DEF BatchStep, BatchMove
<1>5. ASSUME NEW open \in BOOLEAN, stage[p] # "down",
             batch' = [batch EXCEPT ![p].open = open]
      PROVE  BatchStep(p)
  <2> DEFINE c == [b EXCEPT !.open = open]
  <2>1. c \in Batch /\ Rows(c) = Rows(b) /\ Told(c) = Told(b)
    BY <1>1 DEF Batch, Rows, Told
  <2> QED
    BY <1>5, <2>1, BatchSet DEF BatchStep, BatchMove
<1>6. CASE batch' = [batch EXCEPT ![p] = NoBatch]
  BY <1>6, BatchSet, BatchShapes DEF BatchStep, BatchMove
<1>7. CASE batch' = batch
  BY <1>1, <1>7 DEF BatchStep, BatchMove
<1> QED
  BY <1>2, <1>3, <1>4, <1>5, <1>6, <1>7
     DEF Inward, RelayFault, TickAborts, PoolConnectFails, Processes,
         Restarts, Start, Drained, CloseChannel, TickOvertaken, Exit,
         Sigterm, relayVars

LEMMA BreakingBatch ==
  ASSUME TypeOK, NEW p \in Proc, Breaking(p)
  PROVE  BatchStep(p)
<1> DEFINE b == batch[p]
<1>1. b \in Batch /\ batch \in [Proc -> Batch]
  BY DEF TypeOK, RelayTypeOK
<1>2. ASSUME NEW open \in BOOLEAN, stage[p] # "down",
             batch' = [batch EXCEPT ![p].open = open]
      PROVE  BatchStep(p)
  <2> DEFINE c == [b EXCEPT !.open = open]
  <2>1. c \in Batch /\ Rows(c) = Rows(b) /\ Told(c) = Told(b)
    BY <1>1 DEF Batch, Rows, Told
  <2> QED
    BY <1>2, <2>1, BatchSet DEF BatchStep, BatchMove
<1>3. CASE batch' = [batch EXCEPT ![p] = NoBatch]
  BY <1>3, BatchSet, BatchShapes DEF BatchStep, BatchMove
<1> QED
  BY <1>2, <1>3 DEF Breaking, Crash, ConnectionLost, CloseChannel

LEMMA SendingBatch ==
  ASSUME TypeOK, NEW p \in Proc, NEW r \in Row, SendToQueue(p, r)
  PROVE  BatchStep(p)
<1> DEFINE b == batch[p]
           c == [b EXCEPT !.todo = @ \ {r}, !.waiting = {r}]
<1>1. b \in Batch
  BY DEF TypeOK, RelayTypeOK
<1>2. /\ batch' = [batch EXCEPT ![p] = c] /\ r \in b.todo
      /\ queued' = [queued EXCEPT ![r][1] = @ + 1]
  BY DEF SendToQueue
<1>3. /\ c \in Batch /\ Rows(c) \subseteq Rows(b)
      /\ Told(c) \subseteq Told(b) \cup {r}
  BY <1>1, <1>2 DEF Batch, Rows, Told
<1>4. b # NoBatch
  BY <1>2 DEF NoBatch
<1> QED
  BY <1>2, <1>3, <1>4, BatchSet DEF BatchStep, BatchMove

LEMMA RecordingBatch ==
  ASSUME TypeOK, Recording
  PROVE  batch' = batch \/ \E p \in Proc : TickCommits(p) /\ BatchStep(p)
BY BatchSet, BatchShapes
   DEF Recording, Producers, Write, TickCommits, BatchStep, BatchMove

(* A slot that may be: of one of the types of flight.                      *)
Good(x) ==
  /\ x \in [row : Row \cup {NoRow}, attempt : Attempts,
            phase : Phases, owned : BOOLEAN]
  /\ x.row = NoRow <=> x.phase = "idle"
  /\ x.phase = "retrying" => x.attempt <= MaxRetries

LEMMA GoodSlots ==
  ASSUME ConsumerTypeOK, RetryInv, NEW k \in Slot
  PROVE  Good(flight[k])
BY DEF ConsumerTypeOK, RetryInv, Good

LEMMA IdleIsGood == Good(Idle)
BY RelayAssumption DEF Good, Idle, Attempts, Phases

LEMMA GoodFlight ==
  ASSUME DOMAIN flight' = Slot, flight' = [k \in Slot |-> flight'[k]],
         \A k \in Slot : Good(flight'[k]),
         inbox' \subseteq Row, effects' \in [Row -> Nat], dlq' \subseteq Row
  PROVE  ConsumerTypeOK' /\ RetryInv'
BY DEF ConsumerTypeOK, RetryInv, Good

(* One slot changes. *)
LEMMA SlotSet ==
  ASSUME ConsumerTypeOK, RetryInv, NEW k \in Slot, NEW x, Good(x),
         flight' = [flight EXCEPT ![k] = x],
         inbox' \subseteq Row, effects' \in [Row -> Nat], dlq' \subseteq Row
  PROVE  ConsumerTypeOK' /\ RetryInv'
<1>1. flight' = [j \in Slot |-> IF j = k THEN x ELSE flight[j]]
  BY DEF ConsumerTypeOK
<1>2. \A j \in Slot : Good(flight'[j])
  BY <1>1, GoodSlots
<1> QED
  BY <1>1, <1>2, GoodFlight

(* One phase changes. *)
LEMMA PhaseSet ==
  ASSUME ConsumerTypeOK, RetryInv, NEW k \in Slot, NEW ph \in Phases,
         To(k, ph), flight[k].phase # "idle", ph # "idle",
         ph = "retrying" => flight[k].attempt <= MaxRetries,
         inbox' \subseteq Row, effects' \in [Row -> Nat], dlq' \subseteq Row
  PROVE  ConsumerTypeOK' /\ RetryInv'
<1> DEFINE x == [flight[k] EXCEPT !.phase = ph]
<1>1. Good(flight[k])
  BY GoodSlots
<1>2. Good(x)
  BY <1>1 DEF Good
<1>3. flight' = [flight EXCEPT ![k] = x]
  BY DEF To
<1> QED
  BY <1>2, <1>3, SlotSet

(* Messages are counted. *)
LEMMA QueueSet ==
  ASSUME RelayTypeOK, NEW r \in Row, NEW a \in Attempts, NEW n \in Nat,
         queued' = [queued EXCEPT ![r][a] = n]
  PROVE  queued' \in [Row -> [Attempts -> Nat]]
BY DEF RelayTypeOK

LEMMA ConsumerTypes ==
  ASSUME TypeOK, RetryInv, NEW k \in Slot, ConsumerStep(k)
  PROVE  /\ ConsumerTypeOK' /\ RetryInv'
         /\ queued' \in [Row -> [Attempts -> Nat]]
<1>1. /\ ConsumerTypeOK /\ RelayTypeOK /\ Good(flight[k])
      /\ queued \in [Row -> [Attempts -> Nat]]
      /\ inbox \subseteq Row /\ effects \in [Row -> Nat] /\ dlq \subseteq Row
  BY GoodSlots DEF TypeOK, ConsumerTypeOK, RelayTypeOK
<1>2. ASSUME NEW r \in Row, NEW a \in Attempts, Receive(k, r, a)
      PROVE  /\ ConsumerTypeOK' /\ RetryInv'
             /\ queued' \in [Row -> [Attempts -> Nat]]
  <2> DEFINE x == [row |-> r, attempt |-> a, phase |-> "begun", owned |-> TRUE]
  <2>1. Good(x)
    BY ConsumerAssumption DEF Good, Phases
  <2>2. /\ flight' = [flight EXCEPT ![k] = x]
        /\ UNCHANGED <<inbox, effects, dlq>>
    BY <1>2 DEF Receive
  <2>3. queued[r][a] - 1 \in Nat
    BY <1>1, <1>2 DEF Receive
  <2>4. queued' = [queued EXCEPT ![r][a] = queued[r][a] - 1]
    BY <1>2 DEF Receive
  <2> QED
    BY <1>1, <2>1, <2>2, <2>3, <2>4, SlotSet, QueueSet
<1>3. CASE IgnoreDuplicate(k) \/ Claim(k)
  BY <1>1, <1>3, PhaseSet
     DEF IgnoreDuplicate, Claim, relayVars, Phases
<1>4. CASE Commit(k)
  <2>1. flight[k].row \in Row
    BY <1>1, <1>4 DEF Good, Commit
  <2>2. /\ inbox' \subseteq Row /\ effects' \in [Row -> Nat]
        /\ UNCHANGED <<relayVars, dlq>> /\ To(k, "acking")
    BY <1>1, <1>4, <2>1 DEF Commit
  <2> QED
    BY <1>1, <1>4, <2>2, PhaseSet DEF Commit, relayVars, Phases
<1>5. CASE HandlerFails(k)
  BY <1>1, <1>5, PhaseSet DEF HandlerFails, relayVars, Phases
<1>6. CASE Retry(k)
  <2>1. flight[k].row \in Row /\ flight[k].attempt + 1 \in Attempts
    BY <1>1, <1>6, RelayAssumption DEF Good, Retry, Attempts
  <2>2. queued' \in [Row -> [Attempts -> Nat]]
    BY <1>1, <1>6, <2>1 DEF Retry
  <2> QED
    BY <1>1, <1>6, <2>2, PhaseSet DEF Retry, Phases
<1>7. CASE ParkOnDlq(k)
  <2>1. flight[k].row \in Row
    BY <1>1, <1>7 DEF Good, ParkOnDlq
  <2> QED
    BY <1>1, <1>7, <2>1, PhaseSet DEF ParkOnDlq, relayVars, Phases
<1>8. CASE Leave(k)
  BY <1>1, <1>8, IdleIsGood, SlotSet DEF Leave, relayVars
<1> QED
  BY <1>2, <1>3, <1>4, <1>5, <1>6, <1>7, <1>8 DEF ConsumerStep, Ack, LateAck

(* What the broker takes back is finite. *)
LEMMA Counted ==
  ASSUME NEW p, NEW r, NEW a
  PROVE  Redelivered(p, r, a) \in Nat
<1> DEFINE S == {k \in Slot : /\ Host[k] = p /\ flight[k].owned
                              /\ flight[k].row = r /\ flight[k].attempt = a}
<1>1. IsFiniteSet(S)
  BY ConsumerAssumption, FS_Subset
<1> QED
  BY <1>1, FS_CardinalityType DEF Redelivered

LEMMA BreakingTypes ==
  ASSUME TypeOK, RetryInv, NEW p \in Proc, Breaking(p)
  PROVE  /\ ConsumerTypeOK' /\ RetryInv'
         /\ queued' \in [Row -> [Attempts -> Nat]]
<1>1. ConsumerTypeOK /\ queued \in [Row -> [Attempts -> Nat]]
  BY DEF TypeOK, RelayTypeOK
<1>2. queued' \in [Row -> [Attempts -> Nat]]
  BY <1>1, Counted DEF Breaking, Crash, ConnectionLost, Requeue
<1>3. /\ inbox' \subseteq Row /\ dlq' \subseteq Row
      /\ effects' \in [Row -> Nat]
  BY <1>1, BreakingLeaves DEF ConsumerTypeOK
<1>4. /\ DOMAIN flight' = Slot /\ flight' = [k \in Slot |-> flight'[k]]
  BY DEF Breaking, Crash, ConnectionLost
<1>5. ASSUME NEW k \in Slot PROVE Good(flight'[k])
  <2>1. Good(flight[k])
    BY <1>1, GoodSlots
  <2>2. Good([flight[k] EXCEPT !.owned = FALSE])
    BY <2>1 DEF Good
  <2>3. flight'[k] \in {flight[k], Idle, [flight[k] EXCEPT !.owned = FALSE]}
    BY DEF Breaking, Crash, ConnectionLost
  <2> QED
    BY <2>1, <2>2, <2>3, IdleIsGood
<1> QED
  BY <1>2, <1>3, <1>4, <1>5, GoodFlight

(* The life cycle and the loops. *)
LEMMA LoopTypes ==
  ASSUME TypeOK, [Next]_vars
  PROVE  /\ LifecycleTypeOK'
         /\ loop' \in [Proc -> {"waiting", "ticking", "ended"}]
<1> USE DEF TypeOK, LifecycleTypeOK, RelayTypeOK, Stages
<1>1. ASSUME NEW kind, Fault(kind)
      PROVE  faults' \in 0..MaxFaults
  BY <1>1, LifecycleAssumption DEF Fault
<1>2. ASSUME NEW p \in Proc, Inward(p)
      PROVE  LifecycleTypeOK'
             /\ loop' \in [Proc -> {"waiting", "ticking", "ended"}]
  BY <1>1, <1>2
     DEF Inward, TickBegins, SendFails, Confirm, RelayFault, TickAborts,
         PoolConnectFails, Processes, Restarts, Start, Drained, TickOvertaken,
         Exit, Sigterm, Enter, relayVars, lifeVars
<1>3. ASSUME NEW p \in Proc, Breaking(p)
      PROVE  LifecycleTypeOK'
             /\ loop' \in [Proc -> {"waiting", "ticking", "ended"}]
  BY <1>1, <1>3 DEF Breaking, Crash, ConnectionLost, Enter
<1>4. CASE Recording
  BY <1>4 DEF Recording, Producers, Write, TickCommits, lifeVars
<1>5. CASE Sending
  BY <1>5 DEF Sending, SendToQueue, lifeVars
<1>6. ASSUME NEW k \in Slot, ConsumerStep(k)
      PROVE  UNCHANGED <<lifeVars, loop>>
  BY <1>6, ConsumerLeaves
<1> QED
  BY <1>2, <1>3, <1>4, <1>5, <1>6, Kinds DEF vars, lifeVars, relayVars

(* What a step does to the row of the outbox. *)
RowMove(r) ==
  \/ status'[r] = status[r] /\ tries'[r] = tries[r]
  \/ /\ status[r] = "NONE" /\ status'[r] = "PENDING" /\ tries'[r] = tries[r]
  \/ \E p \in Proc :
       /\ TickCommits(p) /\ r \in batch[p].sent
       /\ status'[r] = "PROCESSED" /\ tries'[r] \in {tries[r], tries[r] + 1}
  \/ \E p \in Proc :
       /\ TickCommits(p) /\ r \in batch[p].unsent
       /\ status'[r] = AfterFailure(r)
       /\ tries'[r] = tries[r] + 1

LEMMA RowMoves ==
  ASSUME TypeOK, [Next]_vars
  PROVE  /\ \A r \in Row : RowMove(r)
         /\ DOMAIN status' = Row /\ status' = [r \in Row |-> status'[r]]
         /\ DOMAIN tries' = Row /\ tries' = [r \in Row |-> tries'[r]]
<1> USE DEF TypeOK, RelayTypeOK
<1>1. CASE UNCHANGED <<status, tries>>
  BY <1>1 DEF RowMove
<1>2. ASSUME NEW r \in Row, Write(r)
      PROVE  /\ \A q \in Row : RowMove(q)
             /\ DOMAIN status' = Row /\ status' = [q \in Row |-> status'[q]]
             /\ DOMAIN tries' = Row /\ tries' = [q \in Row |-> tries'[q]]
  BY <1>2 DEF Write, RowMove
<1>3. ASSUME NEW p \in Proc, TickCommits(p)
      PROVE  /\ \A r \in Row : RowMove(r)
             /\ DOMAIN status' = Row /\ status' = [r \in Row |-> status'[r]]
             /\ DOMAIN tries' = Row /\ tries' = [r \in Row |-> tries'[r]]
  BY <1>3 DEF TickCommits, RowMove
<1> QED
  BY <1>1, <1>2, <1>3, Kinds, InwardLeaves, SendingLeaves, ConsumerLeaves,
     BreakingLeaves
     DEF Recording, Producers, vars, relayVars

(* What a step does to the batches: one of them moves, or none. *)
LEMMA BatchMoves ==
  ASSUME TypeOK, [Next]_vars
  PROVE  batch' = batch \/ \E p \in Proc : BatchStep(p)
BY Kinds, InwardBatch, RecordingBatch, SendingBatch, ConsumerLeaves,
   BreakingBatch DEF vars, relayVars, Sending

LEMMA RelayTypes ==
  ASSUME TypeOK, LockInv, RetryInv, [Next]_vars
  PROVE  RelayTypeOK'
<1>1. status' \in [Row -> {"NONE", "PENDING", "PROCESSED", "FAILED"}]
  BY RowMoves DEF RowMove, AfterFailure, TypeOK, RelayTypeOK
<1>2. ASSUME NEW r \in Row PROVE tries'[r] \in 0..(MaxPublishRetries + 1)
  <2>1. tries[r] \in 0..(MaxPublishRetries + 1)
    BY DEF TypeOK, RelayTypeOK
  <2>2. ASSUME NEW p \in Proc, r \in batch[p].sent \cup batch[p].unsent
        PROVE  tries[r] <= MaxPublishRetries
    BY <2>2 DEF LockInv, Rows
  <2> QED
    BY <2>1, <2>2, RowMoves, RelayAssumption DEF RowMove
<1>3. tries' \in [Row -> 0..(MaxPublishRetries + 1)]
  BY <1>2, RowMoves
<1>4. batch' \in [Proc -> Batch]
  BY BatchMoves DEF BatchStep, TypeOK, RelayTypeOK
<1>5. queued' \in [Row -> [Attempts -> Nat]]
  <2>1. queued \in [Row -> [Attempts -> Nat]]
    BY DEF TypeOK, RelayTypeOK
  <2>2. ASSUME NEW p \in Proc, NEW r \in Row, SendToQueue(p, r)
        PROVE  queued' \in [Row -> [Attempts -> Nat]]
    BY <2>1, <2>2, RelayAssumption DEF SendToQueue, Attempts
  <2> QED
    BY <2>1, <2>2, Kinds, InwardLeaves, RecordingLeaves, ConsumerTypes,
       BreakingTypes DEF Sending, vars, relayVars
<1> QED
  BY <1>1, <1>3, <1>4, <1>5, LoopTypes DEF RelayTypeOK

LEMMA LockStep ==
  ASSUME TypeOK, LockInv, [Next]_vars
  PROVE  LockInv'
<1>1. ASSUME NEW r \in Row, status'[r] \in {"NONE", "PENDING"}
      PROVE  tries'[r] <= MaxPublishRetries
  <2>1. tries[r] \in Nat
    BY DEF TypeOK, RelayTypeOK
  <2> QED
    BY <1>1, <2>1, RowMoves, RelayAssumption DEF RowMove, AfterFailure,
       LockInv, Exhausted
<1>2. ASSUME NEW p \in Proc, NEW r \in Rows(batch'[p])
      PROVE  /\ status'[r] = "PENDING"
             /\ r \in Row
             /\ \A q \in Proc \ {p} : r \notin Rows(batch'[q])
  <2>1. batch \in [Proc -> Batch]
    BY DEF TypeOK, RelayTypeOK
  <2>2. CASE r \in Rows(batch[p])
    <3>1. r \in Row
      BY <2>1, <2>2 DEF Rows, Batch
    <3>2. status[r] = "PENDING"
      BY <2>2 DEF LockInv
    <3>3. ASSUME NEW q \in Proc, TickCommits(q), r \in Rows(batch[q])
          PROVE  FALSE
      <4>1. p = q
        BY <2>2, <3>3 DEF LockInv
      <4>2. batch'[p] = NoBatch
        BY <2>1, <3>3, <4>1 DEF TickCommits
      <4> QED
        BY <1>2, <4>2, BatchShapes
    <3>4. status'[r] = "PENDING"
      BY <3>1, <3>2, <3>3, RowMoves DEF RowMove, Rows
    <3>5. ASSUME NEW q \in Proc \ {p}, r \in Rows(batch'[q])
          PROVE  FALSE
      <4>1. r \notin Rows(batch[q]) /\ r \in Locked
        BY <2>2 DEF LockInv, Locked
      <4>2. BatchStep(q)
        BY <3>5, <4>1, BatchMoves DEF BatchStep
      <4> QED
        BY <3>5, <4>1, <4>2, BatchShapes DEF BatchStep, BatchMove, Selectable
    <3> QED
      BY <3>1, <3>4, <3>5
  <2>3. CASE r \notin Rows(batch[p])
    <3>1. BatchStep(p)
      BY <1>2, <2>3, BatchMoves DEF BatchStep
    <3>2. r \in Selectable
      BY <1>2, <2>3, <3>1, BatchShapes DEF BatchStep, BatchMove
    <3>3. r \in Row /\ status[r] = "PENDING" /\ r \notin Locked
      BY <3>2 DEF Selectable
    <3>4. \A q \in Proc : r \notin Rows(batch[q])
      BY <3>3 DEF Locked
    <3>5. status'[r] = "PENDING"
      BY <3>3, <3>4, RowMoves DEF RowMove, Rows
    <3>6. \A q \in Proc \ {p} : batch'[q] = batch[q]
      BY <3>1 DEF BatchStep
    <3> QED
      BY <3>3, <3>4, <3>5, <3>6
  <2> QED
    BY <2>2, <2>3
<1> QED
  BY <1>1, <1>2 DEF LockInv

(* The three hold together. *)
LEMMA RingInvariant == Spec => [](TypeOK /\ LockInv /\ RetryInv)
<1>1. Init => TypeOK /\ LockInv /\ RetryInv
  <2> SUFFICES ASSUME Init PROVE TypeOK /\ LockInv /\ RetryInv
    OBVIOUS
  <2>1. LifecycleTypeOK
    BY LifecycleAssumption DEF Init, LifecycleInit, LifecycleTypeOK, Stages
  <2>2. RelayTypeOK
    BY BatchShapes, RelayAssumption DEF Init, RelayInit, RelayTypeOK
  <2>3. ConsumerTypeOK /\ RetryInv
    BY IdleIsGood DEF Init, ConsumerInit, ConsumerTypeOK, RetryInv, Good
  <2>4. LockInv
    BY BatchShapes, RelayAssumption DEF Init, RelayInit, LockInv
  <2> QED
    BY <2>1, <2>2, <2>3, <2>4 DEF TypeOK
<1>2. TypeOK /\ LockInv /\ RetryInv /\ [Next]_vars
        => (TypeOK /\ LockInv /\ RetryInv)'
  <2> SUFFICES ASSUME TypeOK, LockInv, RetryInv, [Next]_vars
               PROVE  TypeOK' /\ LockInv' /\ RetryInv'
    OBVIOUS
  <2>1. UNCHANGED consumerVars => ConsumerTypeOK' /\ RetryInv'
    BY DEF consumerVars, TypeOK, ConsumerTypeOK, RetryInv
  <2>2. ConsumerTypeOK' /\ RetryInv'
    BY <2>1, Kinds, InwardLeaves, RecordingLeaves, SendingLeaves,
       ConsumerTypes, BreakingTypes DEF vars
  <2> QED
    BY <2>2, LoopTypes, RelayTypes, LockStep DEF TypeOK
<1> QED
  BY <1>1, <1>2, PTL DEF Spec

(* Every reachable state is well typed: rows have attempts left exactly    *)
(* while they are to be sent, messages are counted, and a slot is free or  *)
(* has a row and an attempt the loop knows (outboxRelay.js:31,             *)
(* consumerRunner.js:20).                                                  *)
THEOREM RingTyped == Spec => []TypeOK
BY RingInvariant, PTL

-----------------------------------------------------------------------------
(* The inbox.                                                              *)

(* A claim is exclusive until its transaction ends, and the committed      *)
(* effects of a row are counted by the inbox.                              *)
ClaimInv ==
  /\ \A k \in Slot : flight[k].phase = "claimed" => flight[k].row \notin inbox
  /\ \A j, k \in Slot :
       /\ flight[j].phase = "claimed" /\ flight[k].phase = "claimed"
       /\ flight[j].row = flight[k].row
       => j = k
  /\ \A r \in Row : effects[r] = IF r \in inbox THEN 1 ELSE 0

(* What a step does to a delivery, as far as the inbox can tell. *)
ClaimMove(k) ==
  \/ flight'[k].phase # "claimed"
  \/ flight[k].phase = "claimed" /\ flight'[k].row = flight[k].row
  \/ /\ Claimable(flight[k].row) /\ flight'[k].row = flight[k].row
     /\ \A j \in Slot \ {k} : flight'[j] = flight[j]
     /\ inbox' = inbox

CommitMove(k) ==
  /\ flight[k].phase = "claimed" /\ flight'[k].phase = "acking"
  /\ \A j \in Slot \ {k} : flight'[j] = flight[j]
  /\ inbox' = inbox \cup {flight[k].row}
  /\ effects' = [effects EXCEPT ![flight[k].row] = @ + 1]

LEMMA ClaimMoves ==
  ASSUME TypeOK, [Next]_vars
  PROVE  /\ \A k \in Slot : ClaimMove(k)
         /\ \/ UNCHANGED <<inbox, effects>>
            \/ \E k \in Slot : CommitMove(k)
<1> DEFINE P == /\ \A k \in Slot : ClaimMove(k)
                /\ \/ UNCHANGED <<inbox, effects>>
                   \/ \E k \in Slot : CommitMove(k)
<1> HIDE DEF P
<1>0. flight = [k \in Slot |-> flight[k]] /\ DOMAIN flight = Slot
  BY DEF TypeOK, ConsumerTypeOK
<1>1. CASE UNCHANGED consumerVars
  BY <1>1 DEF P, ClaimMove, consumerVars
<1>2. ASSUME NEW k \in Slot, ConsumerStep(k)
      PROVE  P
  <2> DEFINE Rests == /\ \A j \in Slot \ {k} : flight'[j] = flight[j]
                      /\ UNCHANGED <<inbox, effects>>
  <2>1. ASSUME NEW ph, To(k, ph)
        PROVE  /\ \A j \in Slot \ {k} : flight'[j] = flight[j]
               /\ flight'[k].row = flight[k].row /\ flight'[k].phase = ph
    BY <1>0, <2>1 DEF To, TypeOK, ConsumerTypeOK
  <2>2. ASSUME NEW ph, To(k, ph), ph # "claimed", UNCHANGED <<inbox, effects>>
        PROVE  P
    BY <2>1, <2>2 DEF P, ClaimMove
  <2>3. ASSUME NEW r \in Row, NEW a \in Attempts, Receive(k, r, a)
        PROVE  P
    <3>1. flight'[k].phase = "begun" /\ Rests
      BY <1>0, <2>3 DEF Receive
    <3> QED
      BY <3>1 DEF P, ClaimMove
  <2>4. CASE Claim(k)
    BY <2>1, <2>4 DEF Claim, P, ClaimMove
  <2>5. CASE Commit(k)
    BY <2>1, <2>5 DEF Commit, P, ClaimMove, CommitMove
  <2>6. CASE Leave(k)
    <3>1. flight'[k].phase = "idle" /\ Rests
      BY <1>0, <2>6 DEF Leave, Idle
    <3> QED
      BY <3>1 DEF P, ClaimMove
  <2> QED
    BY <1>2, <2>2, <2>3, <2>4, <2>5, <2>6
       DEF ConsumerStep, IgnoreDuplicate, HandlerFails, Retry, ParkOnDlq, Ack,
           LateAck
<1>3. ASSUME NEW p \in Proc, Breaking(p)
      PROVE  P
  <2>1. ASSUME NEW k \in Slot
        PROVE  \/ flight'[k].phase = "idle"
               \/ /\ flight'[k].phase = flight[k].phase
                  /\ flight'[k].row = flight[k].row
    BY <1>3 DEF Breaking, Crash, ConnectionLost, Idle, TypeOK, ConsumerTypeOK
  <2> QED
    BY <1>3, <2>1, BreakingLeaves DEF P, ClaimMove
<1> QED
  BY <1>1, <1>2, <1>3, Kinds, InwardLeaves, RecordingLeaves, SendingLeaves
     DEF P, vars

LEMMA ClaimInvariant == Spec => []ClaimInv
<1>1. Init => ClaimInv
  BY DEF Init, ConsumerInit, Idle, ClaimInv
<1>2. TypeOK /\ ClaimInv /\ [Next]_vars => ClaimInv'
  <2> SUFFICES ASSUME TypeOK, ClaimInv, [Next]_vars PROVE ClaimInv'
    OBVIOUS
  <2>1. \A k \in Slot : ClaimMove(k)
    BY ClaimMoves
  <2>2. ASSUME NEW k \in Slot, flight'[k].phase = "claimed",
               flight'[k].row \in inbox'
        PROVE  FALSE
    BY <2>1, <2>2, ClaimMoves DEF ClaimMove, CommitMove, ClaimInv, Claimable
  <2>3. ASSUME NEW j \in Slot, NEW k \in Slot, flight'[j].phase = "claimed",
               flight'[k].phase = "claimed", flight'[j].row = flight'[k].row
        PROVE  j = k
    BY <2>1, <2>3 DEF ClaimMove, ClaimInv, Claimable
  <2>4. ASSUME NEW r \in Row
        PROVE  effects'[r] = IF r \in inbox' THEN 1 ELSE 0
    <3>1. effects \in [Row -> Nat] /\ effects[r] = IF r \in inbox THEN 1 ELSE 0
      BY DEF TypeOK, ConsumerTypeOK, ClaimInv
    <3>2. CASE UNCHANGED <<inbox, effects>>
      BY <3>1, <3>2
    <3>3. ASSUME NEW k \in Slot, CommitMove(k)
          PROVE  effects'[r] = IF r \in inbox' THEN 1 ELSE 0
      <4>1. flight[k].row \notin inbox
        BY <3>3 DEF CommitMove, ClaimInv
      <4> QED
        BY <3>1, <3>3, <4>1 DEF CommitMove
    <3> QED
      BY <3>2, <3>3, ClaimMoves
  <2> QED
    BY <2>2, <2>3, <2>4 DEF ClaimInv
<1> QED
  BY <1>1, <1>2, RingInvariant, PTL DEF Spec

(* The business transaction of a row commits once, however many copies of  *)
(* the message are handled at the same time (inbox.js:6).                  *)
THEOREM RowsActOnce == Spec => []ActsOnce
<1>1. ClaimInv => ActsOnce
  BY DEF ClaimInv, ActsOnce
<1> QED
  BY <1>1, ClaimInvariant, PTL

-----------------------------------------------------------------------------
(* The shutdown.                                                           *)

(* How far a process is, and what is left of its tick when it is gone.     *)
StageMove(p) ==
  \/ stage'[p] = stage[p]
  \/ stage'[p] \in {"up", "draining"}
  \/ Drained(p) /\ stage'[p] = "closing"
  \/ Exit(p) /\ stage'[p] = "down" /\ batch'[p] = NoBatch
  \/ Crash(p) /\ stage'[p] = "down" /\ batch'[p] = NoBatch

LEMMA StageMoves ==
  ASSUME TypeOK, [Next]_vars, NEW p \in Proc
  PROVE  StageMove(p)
<1>1. stage \in [Proc -> Stages] /\ batch \in [Proc -> Batch]
  BY DEF TypeOK, LifecycleTypeOK, RelayTypeOK
<1>2. ASSUME NEW q \in Proc, Inward(q)
      PROVE  StageMove(p)
  BY <1>1, <1>2
     DEF Inward, TickBegins, SendFails, Confirm, RelayFault, TickAborts,
         PoolConnectFails, Processes, Restarts, Start, Drained, TickOvertaken,
         Exit, Sigterm, Enter, StageMove, lifeVars
<1>3. ASSUME NEW q \in Proc, Breaking(q)
      PROVE  StageMove(p)
  BY <1>1, <1>3 DEF Breaking, Crash, ConnectionLost, Enter, StageMove
<1> QED
  BY <1>2, <1>3, Kinds, RecordingLeaves, SendingLeaves, ConsumerLeaves
     DEF StageMove, vars, lifeVars

(* A slot of a process whose connection has closed stays free. *)
LEMMA ClosedStaysQuiet ==
  ASSUME TypeOK, [Next]_vars, NEW k \in Slot, flight[k] = Idle,
         stage[Host[k]] # "up"
  PROVE  flight'[k] = Idle
<1>1. flight = [j \in Slot |-> flight[j]] /\ DOMAIN flight = Slot
  BY DEF TypeOK, ConsumerTypeOK
<1>2. ASSUME NEW j \in Slot, ConsumerStep(j) PROVE flight'[k] = flight[k]
  <2>1. j # k
    BY <1>2 DEF ConsumerStep, Receive, Consuming, IgnoreDuplicate, Claim,
       Commit, HandlerFails, Retry, ParkOnDlq, Ack, LateAck, Idle
  <2> QED
    BY <1>1, <1>2, <2>1
       DEF ConsumerStep, Receive, IgnoreDuplicate, Claim, Commit,
           HandlerFails, Retry, ParkOnDlq, Ack, LateAck, Leave, To
<1>3. ASSUME NEW p \in Proc, Breaking(p) PROVE flight'[k] = Idle
  <2>1. ~ flight[k].owned
    BY DEF Idle
  <2> QED
    BY <1>3, <2>1 DEF Breaking, Crash, ConnectionLost
<1> QED
  BY <1>2, <1>3, Kinds, InwardLeaves, RecordingLeaves, SendingLeaves
     DEF vars, consumerVars

(* When the connection and the pool of a process close, none of its        *)
(* handlers is at work, and when it is gone no tick of it holds rows       *)
(* (lifecycle.js:9).                                                       *)
THEOREM NothingOutlives == Spec => []NothingOutlivesThePool
<1>1. Init => NothingOutlivesThePool
  BY DEF Init, LifecycleInit, NothingOutlivesThePool
<1>2. TypeOK /\ NothingOutlivesThePool /\ [Next]_vars
        => NothingOutlivesThePool'
  <2> SUFFICES ASSUME TypeOK, NothingOutlivesThePool, [Next]_vars,
                      NEW p \in Proc
               PROVE  /\ stage'[p] \in {"closing", "down"}
                           => \A k \in Slot : Host[k] = p => flight'[k] = Idle
                      /\ stage'[p] = "down" => batch'[p] = NoBatch
    BY DEF NothingOutlivesThePool
  <2>1. StageMove(p)
    BY StageMoves
  <2>2. ASSUME stage'[p] \in {"closing", "down"}, NEW k \in Slot, Host[k] = p
        PROVE  flight'[k] = Idle
    <3>1. CASE stage'[p] = stage[p]
      BY <2>2, <3>1, ClosedStaysQuiet DEF NothingOutlivesThePool
    <3>2. CASE Drained(p)
      BY <2>2, <3>2 DEF Drained, Quiet, SlotsOf, consumerVars
    <3>3. CASE Exit(p)
      BY <2>2, <3>3, ClosedStaysQuiet DEF Exit, NothingOutlivesThePool
    <3>4. CASE Crash(p)
      BY <2>2, <3>4 DEF Crash
    <3> QED
      BY <2>1, <2>2, <3>1, <3>2, <3>3, <3>4 DEF StageMove
  <2>3. ASSUME stage'[p] = "down", stage[p] = "down"
        PROVE  batch'[p] = NoBatch
    <3>1. batch[p] = NoBatch
      BY <2>3 DEF NothingOutlivesThePool
    <3>2. batch'[p] = batch[p] \/ BatchMove(p)
      BY BatchMoves DEF BatchStep
    <3> QED
      BY <2>3, <3>1, <3>2 DEF BatchMove
  <2> QED
    BY <2>1, <2>2, <2>3 DEF StageMove
<1> QED
  BY <1>1, <1>2, RingInvariant, PTL DEF Spec

-----------------------------------------------------------------------------
(* Where a row is.                                                         *)

Queued(r) == \E a \in Attempts : queued[r][a] > 0

(* A delivery that the broker would take back and that has something left  *)
(* to do but the ack.                                                      *)
Carried(r) ==
  \E k \in Slot :
    flight[k].row = r /\ flight[k].owned /\ flight[k].phase # "acking"

Secured(r) == Queued(r) \/ Carried(r) \/ r \in inbox \cup dlq

(* Only rows that were written are on the queue or in a slot. *)
WrittenInv ==
  /\ \A r \in Row : Queued(r) => r \in Written
  /\ \A k \in Slot : flight[k].row \in Written \cup {NoRow}

(* What no step may do to a row: forget it, bring it back once it is out   *)
(* of everybody's hands, or give it up without a trace.                    *)
Fate(r) ==
  /\ r \in Written => r \in Written'
  /\ r \in Written /\ OnItsWay(r)' => OnItsWay(r)
  /\ Secured(r) => Secured(r)'

(* One slot changes its phase. *)
LEMMA PhaseMoves ==
  ASSUME TypeOK, NEW k \in Slot, NEW ph, To(k, ph)
  PROVE  /\ \A j \in Slot \ {k} : flight'[j] = flight[j]
         /\ flight'[k].row = flight[k].row
         /\ flight'[k].owned = flight[k].owned
         /\ flight'[k].attempt = flight[k].attempt
         /\ flight'[k].phase = ph
BY DEF TypeOK, ConsumerTypeOK, To

LEMMA ConsumerFate ==
  ASSUME TypeOK, RetryInv, WrittenInv, NEW k \in Slot, ConsumerStep(k)
  PROVE  /\ \A r \in Row : Fate(r)
         /\ WrittenInv'
<1> DEFINE P == (\A r \in Row : Fate(r)) /\ WrittenInv'
<1>1. /\ flight \in [Slot -> [row : Row \cup {NoRow}, attempt : Attempts,
                              phase : Phases, owned : BOOLEAN]]
      /\ queued \in [Row -> [Attempts -> Nat]]
      /\ Good(flight[k])
  BY GoodSlots DEF TypeOK, ConsumerTypeOK, RelayTypeOK
<1>2. Written' = Written /\ status' = status
  BY ConsumerLeaves DEF Written
<1>3. ASSUME NEW r \in Row, NEW a \in Attempts, Receive(k, r, a)
      PROVE  P
  <2>1. /\ flight'[k].row = r /\ flight'[k].owned
        /\ flight'[k].phase = "begun"
        /\ \A j \in Slot \ {k} : flight'[j] = flight[j]
        /\ flight[k] = Idle /\ NoRow \notin Row
        /\ UNCHANGED <<inbox, dlq>>
    BY <1>1, <1>3, ConsumerAssumption DEF Receive
  <2>2. Queued(r) /\ r \in Written
    BY <1>3 DEF Receive, Queued, WrittenInv
  <2>3. ASSUME NEW q \in Row \ {r} PROVE Queued(q)' <=> Queued(q)
    BY <1>1, <1>3, <2>3 DEF Receive, Queued
  <2>4. ASSUME NEW q \in Row PROVE Fate(q)
    <3>1. CASE q = r
      BY <1>2, <2>1, <2>2, <3>1
         DEF Fate, OnItsWay, Queued, Secured, Carried
    <3>2. CASE q # r
      BY <1>2, <2>1, <2>3, <3>2
         DEF Fate, OnItsWay, Queued, Secured, Carried, Idle
    <3> QED
      BY <3>1, <3>2
  <2>5. WrittenInv'
    BY <1>2, <2>1, <2>2, <2>3 DEF WrittenInv
  <2> QED
    BY <2>4, <2>5
<1>4. ASSUME NEW ph, To(k, ph), queued' = queued, flight[k].phase # "idle",
             inbox \subseteq inbox', dlq \subseteq dlq',
             ph \in {"begun", "claimed"} =>
               flight[k].phase \in {"begun", "claimed"},
             ph = "acking" => flight[k].row \in inbox' \cup dlq'
      PROVE  P
  <2>1. /\ \A j \in Slot \ {k} : flight'[j] = flight[j]
        /\ flight'[k].row = flight[k].row
        /\ flight'[k].owned = flight[k].owned
        /\ flight'[k].phase = ph
    BY <1>4, PhaseMoves
  <2>2. \A q \in Row : Queued(q)' <=> Queued(q)
    BY <1>4 DEF Queued
  <2>3. ASSUME NEW q \in Row PROVE Fate(q)
    <3>1. OnItsWay(q)' => OnItsWay(q)
      BY <1>2, <1>4, <2>1 DEF OnItsWay
    <3>2. Carried(q) => Carried(q)' \/ q \in inbox' \cup dlq'
      BY <1>4, <2>1 DEF Carried
    <3> QED
      BY <1>2, <1>4, <2>2, <3>1, <3>2 DEF Fate, Secured
  <2>4. WrittenInv'
    BY <1>2, <2>1, <2>2 DEF WrittenInv
  <2> QED
    BY <2>3, <2>4
<1>5. CASE IgnoreDuplicate(k) \/ Claim(k) \/ HandlerFails(k)
  BY <1>4, <1>5
     DEF IgnoreDuplicate, Claim, HandlerFails, relayVars
<1>6. CASE Commit(k) \/ ParkOnDlq(k)
  BY <1>4, <1>6 DEF Commit, ParkOnDlq, relayVars
<1>7. CASE Retry(k)
  <2>0. flight[k].row \in Row /\ flight[k].attempt + 1 \in Attempts
    BY <1>1, <1>7, RelayAssumption DEF Good, Retry, Attempts
  <2> DEFINE a == flight[k].attempt + 1
  <2>1. PICK r \in Row : r = flight[k].row
    BY <2>0
  <2>2. /\ \A j \in Slot \ {k} : flight'[j] = flight[j]
        /\ flight'[k].row = r
        /\ flight'[k].owned = flight[k].owned
        /\ flight'[k].phase = "acking"
        /\ flight[k].owned
        /\ UNCHANGED <<inbox, dlq>>
    BY <1>7, <2>1, PhaseMoves DEF Retry
  <2>3. /\ Queued(r)'
        /\ \A q \in Row \ {r} : Queued(q)' <=> Queued(q)
    <3>1. queued' = [queued EXCEPT ![r][a] = queued[r][a] + 1]
      BY <1>7, <2>1 DEF Retry
    <3>2. queued[r][a] \in Nat
      BY <1>1, <2>0
    <3>3. /\ queued'[r][a] = queued[r][a] + 1
          /\ \A q \in Row \ {r} : queued'[q] = queued[q]
      BY <1>1, <2>0, <3>1
    <3> QED
      BY <2>0, <3>2, <3>3 DEF Queued
  <2>4. r \in Written
    BY <2>1, ConsumerAssumption DEF WrittenInv
  <2>5. ASSUME NEW q \in Row PROVE Fate(q)
    <3>1. CASE q = r
      BY <1>2, <2>1, <2>2, <2>3, <3>1 DEF Fate, OnItsWay, Secured
    <3>2. CASE q # r
      BY <1>2, <2>1, <2>2, <2>3, <3>2
         DEF Fate, OnItsWay, Queued, Secured, Carried
    <3> QED
      BY <3>1, <3>2
  <2>6. WrittenInv'
    BY <1>2, <2>1, <2>2, <2>3, <2>4 DEF WrittenInv
  <2> QED
    BY <2>5, <2>6
<1>8. CASE Ack(k) \/ LateAck(k)
  <2>1. /\ flight'[k] = Idle
        /\ \A j \in Slot \ {k} : flight'[j] = flight[j]
        /\ flight[k].phase = "acking" \/ ~ flight[k].owned
        /\ UNCHANGED <<queued, inbox, dlq>>
    BY <1>1, <1>8 DEF Ack, LateAck, Leave, relayVars
  <2>2. \A q \in Row : Queued(q)' <=> Queued(q)
    BY <2>1 DEF Queued
  <2>3. ASSUME NEW q \in Row PROVE Fate(q)
    BY <1>2, <2>1, <2>2, ConsumerAssumption
       DEF Fate, OnItsWay, Queued, Secured, Carried, Idle
  <2>4. WrittenInv'
    BY <1>2, <2>1, <2>2 DEF WrittenInv, Idle
  <2> QED
    BY <2>3, <2>4
<1> QED
  BY <1>3, <1>5, <1>6, <1>7, <1>8 DEF ConsumerStep

(* The broker takes a message back if and only if a delivery of it was     *)
(* unacked.                                                                *)
LEMMA TakenBack ==
  ASSUME NEW p, NEW r, NEW a
  PROVE  Redelivered(p, r, a) > 0 <=>
           \E k \in Slot : /\ Host[k] = p /\ flight[k].owned
                           /\ flight[k].row = r /\ flight[k].attempt = a
<1> DEFINE S == {k \in Slot : /\ Host[k] = p /\ flight[k].owned
                              /\ flight[k].row = r /\ flight[k].attempt = a}
<1>1. IsFiniteSet(S)
  BY ConsumerAssumption, FS_Subset
<1>2. Cardinality(S) \in Nat /\ (Cardinality(S) = 0 <=> S = {})
  BY <1>1, FS_CardinalityType, FS_EmptySet
<1>3. Redelivered(p, r, a) = Cardinality(S)
  BY DEF Redelivered
<1> HIDE DEF S
<1>4. Redelivered(p, r, a) > 0 <=> S # {}
  BY <1>2, <1>3
<1> QED
  BY <1>4 DEF S

LEMMA BreakingFate ==
  ASSUME TypeOK, WrittenInv, NEW p \in Proc, Breaking(p)
  PROVE  /\ \A r \in Row : Fate(r)
         /\ WrittenInv'
<1>1. /\ flight \in [Slot -> [row : Row \cup {NoRow}, attempt : Attempts,
                              phase : Phases, owned : BOOLEAN]]
      /\ queued \in [Row -> [Attempts -> Nat]]
  BY DEF TypeOK, ConsumerTypeOK, RelayTypeOK
<1>2. Written' = Written /\ UNCHANGED <<status, inbox, dlq>>
  BY BreakingLeaves DEF Written
<1>3. \A r \in Row, a \in Attempts :
        queued'[r][a] = queued[r][a] + Redelivered(p, r, a)
  BY DEF Breaking, Crash, ConnectionLost, Requeue
<1>4. ASSUME NEW k \in Slot
      PROVE  \/ flight'[k] = flight[k] /\ Host[k] # p
             \/ flight'[k].row = NoRow /\ Host[k] = p
             \/ /\ flight'[k].row = flight[k].row
                /\ flight'[k].phase = flight[k].phase
                /\ ~ flight'[k].owned /\ Host[k] = p
  BY <1>1 DEF Breaking, Crash, ConnectionLost, Idle
<1>5. ASSUME NEW r \in Row
      PROVE  /\ Queued(r) => Queued(r)'
             /\ Queued(r)' =>
                  \/ Queued(r)
                  \/ \E k \in Slot : flight[k].row = r /\ flight[k].owned
  <2>1. \A a \in Attempts :
          queued[r][a] \in Nat /\ Redelivered(p, r, a) \in Nat
    BY <1>1, Counted
  <2> QED
    BY <1>3, <2>1, TakenBack DEF Queued
<1>6. ASSUME NEW r \in Row PROVE Carried(r) => Secured(r)'
  <2> SUFFICES ASSUME NEW k \in Slot, flight[k].row = r, flight[k].owned,
                      flight[k].phase # "acking"
               PROVE  Secured(r)'
    BY DEF Carried
  <2>1. CASE Host[k] = p
    <3>1. flight[k].attempt \in Attempts
      BY <1>1
    <3>2. Redelivered(p, r, flight[k].attempt) > 0
      BY <2>1, TakenBack
    <3>3. queued'[r][flight[k].attempt] > 0
      BY <1>1, <1>3, <3>1, <3>2, Counted
    <3> QED
      BY <3>1, <3>3 DEF Secured, Queued
  <2>2. CASE Host[k] # p
    BY <1>4, <2>2 DEF Secured, Carried
  <2> QED
    BY <2>1, <2>2
<1>7. ASSUME NEW r \in Row PROVE Fate(r)
  <2>1. OnItsWay(r)' => OnItsWay(r)
    BY <1>2, <1>4, <1>5, ConsumerAssumption DEF OnItsWay, Queued
  <2>2. Secured(r) => Secured(r)'
    BY <1>2, <1>5, <1>6 DEF Secured
  <2> QED
    BY <1>2, <2>1, <2>2 DEF Fate
<1>8. WrittenInv'
  BY <1>2, <1>4, <1>5, ConsumerAssumption DEF WrittenInv
<1> QED
  BY <1>7, <1>8

LEMMA SendingFate ==
  ASSUME TypeOK, LockInv, WrittenInv, NEW p \in Proc, NEW r \in Row,
         SendToQueue(p, r), UNCHANGED consumerVars
  PROVE  /\ \A q \in Row : Fate(q)
         /\ WrittenInv'
         /\ Queued(r)'
<1>1. queued \in [Row -> [Attempts -> Nat]] /\ 1 \in Attempts
  BY RelayAssumption DEF TypeOK, RelayTypeOK, Attempts
<1>2. /\ Written' = Written /\ status' = status
      /\ UNCHANGED <<flight, inbox, dlq>>
  BY DEF SendToQueue, Written, consumerVars
<1>3. status[r] = "PENDING"
  BY DEF SendToQueue, LockInv, Rows
<1>4. /\ Queued(r)'
      /\ \A q \in Row : Queued(q) => Queued(q)'
      /\ \A q \in Row \ {r} : Queued(q)' => Queued(q)
  BY <1>1 DEF SendToQueue, Queued
<1>5. ASSUME NEW q \in Row PROVE Fate(q)
  <2>1. OnItsWay(q)' => OnItsWay(q)
    BY <1>2, <1>3, <1>4 DEF OnItsWay, Queued
  <2>2. Secured(q) => Secured(q)'
    BY <1>2, <1>4 DEF Secured, Carried
  <2> QED
    BY <1>2, <2>1, <2>2 DEF Fate
<1>6. WrittenInv'
  BY <1>2, <1>3, <1>4 DEF WrittenInv, Written
<1> QED
  BY <1>4, <1>5, <1>6

LEMMA RecordingFate ==
  ASSUME TypeOK, LockInv, WrittenInv, Recording
  PROVE  /\ \A r \in Row : Fate(r)
         /\ WrittenInv'
<1>1. [Next]_vars
  BY DEF Recording, Next, Relays, RelayStep
<1>2. UNCHANGED <<queued, flight, inbox, dlq>>
  BY RecordingLeaves DEF consumerVars
<1>3. ASSUME NEW r \in Row
      PROVE  /\ r \in Written => r \in Written'
             /\ r \in Written /\ status'[r] = "PENDING"
                  => status[r] = "PENDING"
  <2>1. RowMove(r)
    BY <1>1, RowMoves
  <2>2. \A p \in Proc : r \in batch[p].sent \cup batch[p].unsent
                          => status[r] = "PENDING"
    BY DEF LockInv, Rows
  <2> QED
    BY <2>1, <2>2 DEF RowMove, AfterFailure, Written
<1>4. \A r \in Row : Fate(r)
  BY <1>2, <1>3 DEF Fate, OnItsWay, Secured, Queued, Carried
<1>5. Written \subseteq Written'
  BY <1>3 DEF Written
<1>6. WrittenInv'
  BY <1>2, <1>5 DEF WrittenInv, Queued
<1> QED
  BY <1>4, <1>6

LEMMA Fates ==
  ASSUME TypeOK, LockInv, RetryInv, WrittenInv, [Next]_vars
  PROVE  /\ \A r \in Row : Fate(r)
         /\ WrittenInv'
<1>1. CASE UNCHANGED <<status, queued, flight, inbox, dlq>>
  BY <1>1
     DEF Fate, OnItsWay, Secured, Queued, Carried, Written, WrittenInv
<1> QED
  BY <1>1, Kinds, InwardLeaves, RecordingFate, SendingFate, ConsumerFate,
     BreakingFate DEF Sending, vars, relayVars, consumerVars

LEMMA WrittenInvariant == Spec => []WrittenInv
<1>1. Init => WrittenInv
  BY DEF Init, RelayInit, ConsumerInit, Idle, WrittenInv, Queued
<1>2. TypeOK /\ LockInv /\ RetryInv /\ WrittenInv /\ [Next]_vars => WrittenInv'
  BY Fates
<1> QED
  BY <1>1, <1>2, RingInvariant, PTL DEF Spec

-----------------------------------------------------------------------------
(* Nothing is lost in silence.                                             *)

(* A row that counts as sent, in the table or in a running tick, is there  *)
(* for the consumer, or is done with.                                      *)
SecuredInv ==
  \A r \in Row :
    \/ status[r] = "PROCESSED"
    \/ \E p \in Proc : r \in Told(batch[p])
    => Secured(r)

LEMMA SecuredInvariant == Spec => []SecuredInv
<1>1. Init => SecuredInv
  BY DEF Init, RelayInit, NoBatch, Told, SecuredInv
<1>2. TypeOK /\ LockInv /\ RetryInv /\ WrittenInv /\ SecuredInv /\ [Next]_vars
        => SecuredInv'
  <2> SUFFICES ASSUME TypeOK, LockInv, RetryInv, WrittenInv, SecuredInv,
                      [Next]_vars, NEW r \in Row,
                      \/ status'[r] = "PROCESSED"
                      \/ \E p \in Proc : r \in Told(batch'[p])
               PROVE  Secured(r)'
    BY DEF SecuredInv
  <2>1. Secured(r) => Secured(r)'
    BY Fates DEF Fate
  <2>2. CASE status'[r] = "PROCESSED"
    <3>1. RowMove(r)
      BY RowMoves
    <3>2. \/ status[r] = "PROCESSED"
          \/ \E p \in Proc : r \in Told(batch[p])
      BY <2>2, <3>1 DEF RowMove, AfterFailure, Told
    <3> QED
      BY <2>1, <3>2 DEF SecuredInv
  <2>3. ASSUME NEW p \in Proc, r \in Told(batch'[p]), r \notin Told(batch[p])
        PROVE  Secured(r)'
    <3>1. BatchMove(p)
      BY <2>3, BatchMoves DEF BatchStep
    <3>2. Told(NoBatch) = {}
      BY DEF Told, NoBatch
    <3>3. queued' = [queued EXCEPT ![r][1] = @ + 1]
      BY <2>3, <3>1, <3>2 DEF BatchMove
    <3>4. /\ queued \in [Row -> [Attempts -> Nat]] /\ 1 \in Attempts
      BY RelayAssumption DEF TypeOK, RelayTypeOK, Attempts
    <3>5. queued'[r][1] > 0
      BY <3>3, <3>4
    <3> QED
      BY <3>4, <3>5 DEF Secured, Queued
  <2> QED
    BY <2>1, <2>2, <2>3 DEF SecuredInv
<1> QED
  BY <1>1, <1>2, RingInvariant, WrittenInvariant, PTL DEF Spec

(* What is lost is on the DLQ, or its row says FAILED                      *)
(* (consumerRunner.js:18).                                                 *)
THEOREM NothingLostInSilence == Spec => []LostIsVisible
<1>1. TypeOK /\ SecuredInv => LostIsVisible
  <2> SUFFICES ASSUME TypeOK, SecuredInv, NEW r \in Lost
               PROVE  r \in dlq \/ status[r] = "FAILED"
    BY DEF LostIsVisible
  <2>1. r \in Row /\ status[r] # "NONE" /\ r \notin inbox /\ ~ OnItsWay(r)
    BY DEF Lost, Written
  <2>2. status[r] \in {"PROCESSED", "FAILED"}
    BY <2>1 DEF OnItsWay, TypeOK, RelayTypeOK
  <2>3. ~ Queued(r) /\ ~ Carried(r)
    BY <2>1 DEF OnItsWay, Queued, Carried
  <2> QED
    BY <2>1, <2>2, <2>3 DEF SecuredInv, Secured
<1> QED
  BY <1>1, RingInvariant, SecuredInvariant, PTL

-----------------------------------------------------------------------------
(* Without faults every row is published once.                             *)

(* A tick that no fault has touched, of a process that nobody has stopped. *)
CalmTick(p) ==
  /\ stage[p] = "up"
  /\ batch[p].open /\ batch[p].unsent = {}
  /\ batch[p].todo \cap Told(batch[p]) = {}
  /\ loop[p] = "waiting" => batch[p].todo \cup Told(batch[p]) = {}

CalmInv ==
  faults = MaxFaults =>
    /\ \A p \in Proc : CalmTick(p)
    /\ \A r \in Row : SingleCopy(r) /\ (~ Published(r) => Unseen(r))

(* The steps that are no fault, while every process is up.                 *)
LEMMA CalmSteps ==
  ASSUME TypeOK, [Next]_vars, CalmInv, faults' = MaxFaults
  PROVE  /\ faults = MaxFaults
         /\ \/ UNCHANGED vars
            \/ \E r \in Row : Write(r) /\ UNCHANGED consumerVars
            \/ \E p \in Proc : RelayStep(p) /\ UNCHANGED consumerVars
            \/ \E k \in Slot : ConsumerStep(k)
<1>1. faults \in 0..MaxFaults /\ MaxFaults \in Nat
  BY LifecycleAssumption DEF TypeOK, LifecycleTypeOK
<1>2. ASSUME NEW kind, Fault(kind) PROVE FALSE
  BY <1>1, <1>2 DEF Fault
<1>3. ~ Faults
  BY <1>2 DEF Faults, Crash, ConnectionLost, Sigterm, RelayFault, TickAborts,
     PoolConnectFails
<1>4. faults = MaxFaults
  BY <1>3 DEF Next, Producers, Write, Relays, RelayStep, TickBegins,
     SendToQueue, SendFails, Confirm, TickCommits, Processes, Restarts, Start,
     Drained, TickOvertaken, Exit, ConsumerStep, Receive, IgnoreDuplicate,
     Claim, Commit, HandlerFails, Retry, ParkOnDlq, Ack, LateAck, Leave, vars,
     lifeVars
<1>5. \A p \in Proc : ~ Processes(p)
  BY <1>4 DEF CalmInv, CalmTick, Processes, Restarts, Start, Drained,
     TickOvertaken, Exit
<1> QED
  BY <1>3, <1>4, <1>5 DEF Next, Producers, Relays

(* What such a step does to the ticks: a row is published when a relay     *)
(* that has it locked sends it, and stays so.                              *)
LEMMA CalmTicks ==
  ASSUME TypeOK, CalmInv, faults = MaxFaults, NEW p \in Proc, RelayStep(p)
  PROVE  /\ \A q \in Proc : CalmTick(q)'
         /\ \A r \in Row : Published(r) => Published(r)'
<1>1. /\ batch \in [Proc -> Batch]
      /\ loop \in [Proc -> {"waiting", "ticking", "ended"}]
      /\ status \in [Row -> {"NONE", "PENDING", "PROCESSED", "FAILED"}]
      /\ \A q \in Proc : CalmTick(q)
  BY DEF TypeOK, RelayTypeOK, CalmInv
<1>2. UNCHANGED stage
  BY DEF RelayStep, TickBegins, SendToQueue, SendFails, Confirm, TickCommits,
     lifeVars
<1> DEFINE b == batch[p]
<1>3. CASE TickBegins(p)
  <2>1. PICK rows \in SUBSET Selectable :
          batch' = [batch EXCEPT ![p] = [NoBatch EXCEPT !.todo = rows]]
    BY <1>3 DEF TickBegins
  <2> DEFINE c == [NoBatch EXCEPT !.todo = rows]
  <2>2. c.open /\ c.unsent = {} /\ Told(c) = {}
    BY DEF NoBatch, Told
  <2>3. /\ batch'[p] = c /\ \A q \in Proc \ {p} : batch'[q] = batch[q]
        /\ \A q \in Proc \ {p} : loop'[q] = loop[q]
        /\ loop'[p] = "ticking" /\ Told(b) = {} /\ UNCHANGED status
    BY <1>1, <1>3, <2>1 DEF TickBegins, CalmTick
  <2> HIDE DEF c
  <2>4. \A q \in Proc : CalmTick(q)'
    BY <1>1, <1>2, <2>2, <2>3 DEF CalmTick
  <2> QED
    BY <2>3, <2>4 DEF Published, Told
<1>4. ASSUME NEW r \in Row, SendToQueue(p, r)
      PROVE  /\ \A q \in Proc : CalmTick(q)'
             /\ \A q \in Row : Published(q) => Published(q)'
  <2> DEFINE c == [b EXCEPT !.todo = @ \ {r}, !.waiting = {r}]
  <2>1. /\ batch'[p] = c /\ \A q \in Proc \ {p} : batch'[q] = batch[q]
        /\ b.waiting = {} /\ r \in b.todo /\ UNCHANGED <<loop, status>>
    BY <1>1, <1>4 DEF SendToQueue
  <2>2. /\ c.open = b.open /\ c.unsent = b.unsent /\ c.todo = b.todo \ {r}
        /\ c.waiting = {r} /\ c.sent = b.sent
    BY <1>1 DEF Batch
  <2>3. /\ b.open /\ b.unsent = {} /\ b.todo \cap Told(b) = {}
        /\ loop[p] # "waiting"
    BY <1>1, <2>1 DEF CalmTick
  <2>4. Told(c) = Told(b) \cup {r} /\ Told(b) = b.sent
    BY <2>1, <2>2 DEF Told
  <2> HIDE DEF c
  <2>5. CalmTick(p)'
    BY <1>1, <1>2, <2>1, <2>2, <2>3, <2>4 DEF CalmTick
  <2>6. \A q \in Proc : CalmTick(q)'
    BY <1>1, <1>2, <2>1, <2>5 DEF CalmTick
  <2> QED
    BY <2>1, <2>4, <2>6 DEF Published, Told
<1>5. ASSUME NEW r \in Row, SendFails(p, r)
      PROVE  FALSE
  BY <1>1, <1>5 DEF SendFails, CalmTick
<1>6. CASE Confirm(p)
  <2> DEFINE c == [b EXCEPT !.waiting = {}, !.sent = @ \cup b.waiting]
  <2>1. /\ batch'[p] = c /\ \A q \in Proc \ {p} : batch'[q] = batch[q]
        /\ UNCHANGED <<loop, status>>
    BY <1>1, <1>6 DEF Confirm, CalmTick
  <2>2. /\ c.open = b.open /\ c.unsent = b.unsent /\ c.todo = b.todo
        /\ Told(c) = Told(b)
    BY <1>1 DEF Batch, Told
  <2> HIDE DEF c
  <2>3. CalmTick(p)'
    BY <1>1, <1>2, <2>1, <2>2 DEF CalmTick
  <2>4. \A q \in Proc : CalmTick(q)'
    BY <1>1, <1>2, <2>1, <2>3 DEF CalmTick
  <2> QED
    BY <2>1, <2>2, <2>4 DEF Told, Published
<1>7. CASE TickCommits(p)
  <2>1. /\ batch'[p] = NoBatch
        /\ \A q \in Proc \ {p} : batch'[q] = batch[q] /\ loop'[q] = loop[q]
    BY <1>1, <1>7 DEF TickCommits
  <2>2. /\ NoBatch.open /\ NoBatch.unsent = {}
        /\ NoBatch.todo = {} /\ Told(NoBatch) = {}
    BY DEF NoBatch, Told
  <2>3. \A q \in Proc : CalmTick(q)'
    BY <1>1, <1>2, <2>1, <2>2 DEF CalmTick
  <2>4. ASSUME NEW r \in Row, Published(r) PROVE Published(r)'
    <3>1. b.waiting = {} /\ b.unsent = {}
      BY <1>1, <1>7 DEF TickCommits, CalmTick
    <3>2. status'[r] = IF r \in b.sent THEN "PROCESSED" ELSE status[r]
      BY <1>7, <3>1 DEF TickCommits
    <3> QED
      BY <2>1, <2>4, <3>1, <3>2 DEF Published
  <2> QED
    BY <2>3, <2>4
<1> QED
  BY <1>3, <1>4, <1>5, <1>6, <1>7 DEF RelayStep

(* The only copy a relay makes is the first.                               *)
LEMMA FirstCopy ==
  ASSUME TypeOK, LockInv, CalmInv, faults = MaxFaults, NEW p \in Proc,
         RelayStep(p), UNCHANGED consumerVars, NEW r \in Row
  PROVE  SingleCopy(r)' /\ (~ Published(r)' => Unseen(r)')
<1>1. /\ SingleCopy(r) /\ (~ Published(r) => Unseen(r))
      /\ batch \in [Proc -> Batch] /\ 1 \in Attempts
      /\ queued \in [Row -> [Attempts -> Nat]]
  BY RelayAssumption DEF TypeOK, RelayTypeOK, CalmInv, Attempts
<1>2. Published(r) => Published(r)'
  BY CalmTicks
<1>3. InHand(r)' = InHand(r) /\ UNCHANGED <<inbox, dlq>>
  BY DEF InHand, consumerVars
<1>4. CASE queued'[r] = queued[r]
  <2>1. Waiting(r)' = Waiting(r)
    BY <1>4 DEF Waiting
  <2> QED
    BY <1>1, <1>2, <1>3, <1>4, <2>1 DEF SingleCopy, Unseen
<1>5. CASE SendToQueue(p, r)
  <2>1. /\ r \in batch[p].todo
        /\ queued' = [queued EXCEPT ![r][1] = queued[r][1] + 1]
        /\ batch'[p].waiting = {r}
    BY <1>1, <1>5 DEF SendToQueue, Batch
  <2>2. status[r] = "PENDING" /\ \A q \in Proc \ {p} : r \notin Told(batch[q])
    BY <2>1 DEF LockInv, Rows, Told
  <2>3. r \notin Told(batch[p])
    BY <2>1 DEF CalmInv, CalmTick
  <2>4. ~ Published(r)
    BY <2>2, <2>3 DEF Published, Told
  <2>5. \A a \in Attempts : queued[r][a] = 0
    BY <1>1, <2>4 DEF Unseen, Waiting
  <2>6. \A a \in Attempts : queued'[r][a] = IF a = 1 THEN 1 ELSE 0
    BY <1>1, <2>1, <2>5
  <2>7. Waiting(r)' = {1} /\ InHand(r)' = {}
    BY <1>1, <1>3, <2>4, <2>6 DEF Waiting, Unseen
  <2>8. Published(r)'
    BY <2>1 DEF Published
  <2> QED
    BY <2>6, <2>7, <2>8 DEF SingleCopy
<1>6. queued'[r] = queued[r] \/ SendToQueue(p, r)
  BY <1>1 DEF RelayStep, TickBegins, SendToQueue, SendFails, Confirm,
     TickCommits
<1> QED
  BY <1>4, <1>5, <1>6

(* A consumer takes the copy into its hands, puts it back, or is through.  *)
LEMMA OneCopy ==
  ASSUME TypeOK, RetryInv, CalmInv, faults = MaxFaults, NEW k \in Slot,
         ConsumerStep(k), NEW r \in Row
  PROVE  SingleCopy(r)' /\ (~ Published(r)' => Unseen(r)')
<1>1. /\ SingleCopy(r) /\ (~ Published(r) => Unseen(r))
      /\ queued \in [Row -> [Attempts -> Nat]]
      /\ flight \in [Slot -> [row : Row \cup {NoRow}, attempt : Attempts,
                              phase : Phases, owned : BOOLEAN]]
      /\ Good(flight[k])
  BY GoodSlots DEF TypeOK, RelayTypeOK, ConsumerTypeOK, CalmInv
<1>2. Published(r)' <=> Published(r)
  BY ConsumerLeaves DEF Published
<1>3. ASSUME NEW a \in Attempts, NEW q \in Row, Receive(k, q, a)
      PROVE  SingleCopy(r)' /\ (~ Published(r)' => Unseen(r)')
  <2>1. /\ flight'[k].row = q /\ flight'[k].phase = "begun"
        /\ \A j \in Slot \ {k} : flight'[j] = flight[j]
        /\ flight[k].row # r /\ UNCHANGED <<inbox, dlq>>
    BY <1>1, <1>3, ConsumerAssumption DEF Receive, Idle
  <2>2. queued' = [queued EXCEPT ![q][a] = queued[q][a] - 1]
    BY <1>3 DEF Receive
  <2>3. CASE q = r
    <3>1. a \in Waiting(r) /\ queued[r][a] = 1
      BY <1>1, <1>3, <2>3 DEF Receive, Waiting, SingleCopy
    <3>2. InHand(r) = {} /\ \A c \in Attempts \ {a} : queued[r][c] = 0
      BY <1>1, <3>1 DEF SingleCopy, Waiting
    <3>3. \A c \in Attempts : queued'[r][c] = 0
      BY <1>1, <2>2, <2>3, <3>1, <3>2
    <3>4. Waiting(r)' = {} /\ InHand(r)' = {k}
      BY <2>1, <2>3, <3>2, <3>3 DEF Waiting, InHand
    <3>5. Published(r)
      BY <1>1, <3>1 DEF Unseen
    <3> QED
      BY <1>2, <3>3, <3>4, <3>5 DEF SingleCopy
  <2>4. CASE q # r
    <3>1. queued'[r] = queued[r]
      BY <1>1, <2>2, <2>4
    <3>2. Waiting(r)' = Waiting(r) /\ InHand(r)' = InHand(r)
      BY <2>1, <2>4, <3>1 DEF Waiting, InHand
    <3> QED
      BY <1>1, <1>2, <2>1, <3>1, <3>2 DEF SingleCopy, Unseen
  <2> QED
    BY <2>3, <2>4
<1>4. ASSUME queued' = queued, InHand(r)' \subseteq InHand(r),
             r \in (inbox' \cup dlq') \ (inbox \cup dlq) => k \in InHand(r)
      PROVE  SingleCopy(r)' /\ (~ Published(r)' => Unseen(r)')
  <2>1. Waiting(r)' = Waiting(r)
    BY <1>4 DEF Waiting
  <2> QED
    BY <1>1, <1>2, <1>4, <2>1 DEF SingleCopy, Unseen
<1>5. ASSUME NEW ph, To(k, ph), flight[k].phase # "acking"
      PROVE  InHand(r)' \subseteq InHand(r)
  BY <1>5, PhaseMoves DEF InHand
<1>6. CASE IgnoreDuplicate(k) \/ Claim(k) \/ HandlerFails(k)
  BY <1>4, <1>5, <1>6 DEF IgnoreDuplicate, Claim, HandlerFails, relayVars
<1>7. CASE Commit(k) \/ ParkOnDlq(k)
  BY <1>4, <1>5, <1>7 DEF Commit, ParkOnDlq, relayVars, InHand
<1>8. CASE Retry(k)
  <2> DEFINE a == flight[k].attempt + 1
             q == flight[k].row
  <2>1. q \in Row /\ a \in Attempts
    BY <1>1, <1>8, RelayAssumption DEF Good, Retry, Attempts
  <2>2. /\ \A j \in Slot \ {k} : flight'[j] = flight[j]
        /\ flight'[k].row = q /\ flight'[k].phase = "acking"
        /\ flight[k].phase = "retrying"
        /\ queued' = [queued EXCEPT ![q][a] = queued[q][a] + 1]
        /\ UNCHANGED <<inbox, dlq>>
    BY <1>8, PhaseMoves DEF Retry
  <2>3. CASE q = r
    <3>1. k \in InHand(r)
      BY <2>2, <2>3 DEF InHand
    <3>2. InHand(r) = {k} /\ Waiting(r) = {} /\ Published(r)
      BY <1>1, <3>1 DEF SingleCopy, Unseen
    <3>3. \A c \in Attempts : queued[r][c] = 0
      BY <1>1, <3>2 DEF Waiting
    <3>4. \A c \in Attempts : queued'[r][c] = IF c = a THEN 1 ELSE 0
      BY <1>1, <2>1, <2>2, <2>3, <3>3
    <3>5. Waiting(r)' = {a} /\ InHand(r)' = {}
      BY <2>1, <2>2, <3>2, <3>4 DEF Waiting, InHand
    <3> QED
      BY <1>2, <3>2, <3>4, <3>5 DEF SingleCopy
  <2>4. CASE q # r
    <3>1. queued'[r] = queued[r]
      BY <1>1, <2>1, <2>2, <2>4
    <3>2. Waiting(r)' = Waiting(r) /\ InHand(r)' = InHand(r)
      BY <2>2, <2>4, <3>1 DEF Waiting, InHand
    <3> QED
      BY <1>1, <1>2, <2>2, <3>1, <3>2 DEF SingleCopy, Unseen
  <2> QED
    BY <2>3, <2>4
<1>9. CASE Leave(k)
  <2>1. /\ \A j \in Slot \ {k} : flight'[j] = flight[j]
        /\ flight'[k].row # r /\ UNCHANGED <<queued, inbox, dlq>>
    BY <1>1, <1>9, ConsumerAssumption DEF Leave, Idle, relayVars
  <2> QED
    BY <1>4, <2>1 DEF InHand
<1> QED
  BY <1>3, <1>6, <1>7, <1>8, <1>9 DEF ConsumerStep, Ack, LateAck

(* "several relay instances drain the same table without ... publishing    *)
(* duplicates" (outboxRelay.js:40): only a fault makes a second copy.      *)
THEOREM PublishedOnce == Spec => []UnprovokedOnce
<1>1. Init => CalmInv
  <2> SUFFICES ASSUME Init PROVE CalmInv
    OBVIOUS
  <2>1. \A p \in Proc : CalmTick(p)
    BY DEF Init, LifecycleInit, RelayInit, NoBatch, Told, CalmTick
  <2>2. ASSUME NEW r \in Row PROVE SingleCopy(r) /\ Unseen(r)
    <3>1. /\ \A a \in Attempts : queued[r][a] = 0
          /\ \A k \in Slot : flight[k].row # r
          /\ inbox = {} /\ dlq = {}
      BY ConsumerAssumption DEF Init, RelayInit, ConsumerInit, Idle
    <3>2. Waiting(r) = {} /\ InHand(r) = {}
      BY <3>1 DEF Waiting, InHand
    <3> QED
      BY <3>1, <3>2 DEF SingleCopy, Unseen
  <2> QED
    BY <2>1, <2>2 DEF CalmInv
<1>2. TypeOK /\ LockInv /\ RetryInv /\ CalmInv /\ [Next]_vars => CalmInv'
  <2> SUFFICES ASSUME TypeOK, LockInv, RetryInv, CalmInv, [Next]_vars,
                      faults' = MaxFaults
               PROVE  /\ \A p \in Proc : CalmTick(p)'
                      /\ \A r \in Row :
                           SingleCopy(r)' /\ (~ Published(r)' => Unseen(r)')
    BY DEF CalmInv
  <2>1. /\ faults = MaxFaults
        /\ \A p \in Proc : CalmTick(p)
        /\ \A r \in Row : SingleCopy(r) /\ (~ Published(r) => Unseen(r))
    BY CalmSteps DEF CalmInv
  <2>2. CASE UNCHANGED vars
    BY <2>1, <2>2 DEF vars, lifeVars, relayVars, consumerVars, CalmTick,
       SingleCopy, Published, Unseen, Waiting, InHand
  <2>3. ASSUME NEW r \in Row, Write(r), UNCHANGED consumerVars
        PROVE  /\ \A p \in Proc : CalmTick(p)'
               /\ \A q \in Row :
                    SingleCopy(q)' /\ (~ Published(q)' => Unseen(q)')
    <3>1. \A q \in Row : Published(q) => Published(q)'
      BY <2>3 DEF Write, Published, TypeOK, RelayTypeOK
    <3> QED
      BY <2>1, <2>3, <3>1 DEF Write, lifeVars, consumerVars, CalmTick,
         SingleCopy, Unseen, Waiting, InHand
  <2>4. ASSUME NEW k \in Slot, ConsumerStep(k)
        PROVE  \A p \in Proc : CalmTick(p)'
    BY <2>1, <2>4, ConsumerLeaves DEF CalmTick, lifeVars
  <2> QED
    BY <2>1, <2>2, <2>3, <2>4, CalmSteps, CalmTicks, FirstCopy, OneCopy
<1>3. CalmInv => UnprovokedOnce
  BY DEF CalmInv, UnprovokedOnce
<1> QED
  BY <1>1, <1>2, <1>3, RingInvariant, PTL DEF Spec

-----------------------------------------------------------------------------
(* The contract.                                                           *)

LEMMA OnlyCommitActs ==
  ASSUME [Next]_vars
  PROVE  inbox' = inbox \/ \E k \in Slot : Commit(k)
<1>1. ASSUME NEW k \in Slot, ConsumerStep(k)
      PROVE  inbox' = inbox \/ Commit(k)
  BY <1>1
     DEF ConsumerStep, Receive, IgnoreDuplicate, Claim, HandlerFails, Retry,
         ParkOnDlq, Ack, LateAck, Leave
<1> QED
  BY <1>1, Kinds, InwardLeaves, RecordingLeaves, SendingLeaves,
     BreakingLeaves DEF vars, consumerVars

(* A row that is new is on its way. *)
LEMMA NewRows ==
  ASSUME TypeOK, LockInv, [Next]_vars, NEW r \in Written', r \notin Written
  PROVE  OnItsWay(r)'
<1>1. r \in Row /\ status[r] = "NONE" /\ status'[r] # "NONE"
  BY DEF Written
<1>2. \A p \in Proc : r \notin batch[p].sent \cup batch[p].unsent
  BY <1>1 DEF LockInv, Rows
<1>3. status'[r] = "PENDING"
  BY <1>1, <1>2, RowMoves DEF RowMove
<1> QED
  BY <1>3 DEF OnItsWay

LEMMA CommitActs ==
  ASSUME TypeOK, LockInv, RetryInv, WrittenInv, ClaimInv, [Next]_vars,
         NEW k \in Slot, Commit(k)
  PROVE  Contract!Act
<1>1. /\ flight \in [Slot -> [row : Row \cup {NoRow}, attempt : Attempts,
                              phase : Phases, owned : BOOLEAN]]
      /\ Good(flight[k])
  BY GoodSlots DEF TypeOK, ConsumerTypeOK
<1>2. PICK r \in Row : r = flight[k].row
  BY <1>1 DEF Good, Commit
<1>3. r \in Written /\ r \notin inbox /\ OnItsWay(r)
  BY <1>2, ConsumerAssumption DEF WrittenInv, ClaimInv, Commit, OnItsWay
<1>4. r \in Contract!Open
  BY <1>3 DEF Contract!Open, Lost
<1>5. /\ inbox' = inbox \cup {r} /\ UNCHANGED <<status, queued>>
      /\ \A j \in Slot \ {k} : flight'[j] = flight[j]
      /\ flight'[k].row = r /\ flight'[k].phase = "acking"
      /\ flight'[k].owned = flight[k].owned
  BY <1>2, PhaseMoves DEF Commit, relayVars
<1>6. Written' = Written
  BY <1>5 DEF Written
<1>7. \A q \in Row \ {r} : OnItsWay(q)' <=> OnItsWay(q)
  BY <1>2, <1>5 DEF OnItsWay
<1>8. Lost' = Lost
  <2>1. Lost = {q \in Row \ {r} : /\ q \in Written /\ q \notin inbox
                                  /\ ~ OnItsWay(q)}
    BY <1>3 DEF Lost, Written
  <2>2. Lost' = {q \in Row \ {r} : /\ q \in Written' /\ q \notin inbox'
                                   /\ ~ OnItsWay(q)'}
    BY <1>5 DEF Lost, Written
  <2> QED
    BY <1>5, <1>6, <1>7, <2>1, <2>2
<1> QED
  BY <1>4, <1>5, <1>6, <1>8 DEF Contract!Act, Contract!Announce

LEMMA OthersWriteOrLose ==
  ASSUME TypeOK, LockInv, RetryInv, WrittenInv, [Next]_vars, inbox' = inbox
  PROVE  Contract!Lose
<1>1. \A r \in Row : Fate(r)
  BY Fates
<1>2. Written \subseteq Written' /\ Written \subseteq Row
  BY <1>1 DEF Fate, Written
<1>3. Lost \subseteq Lost'
  BY <1>1, <1>2 DEF Fate, Lost
<1>4. Lost' \ Lost \subseteq Contract!Open
  BY NewRows DEF Lost, Contract!Open
<1> QED
  BY <1>2, <1>3, <1>4 DEF Contract!Lose, Contract!Announce

(* A row acts at most once and nothing that was given up comes back,       *)
(* through every crash, repetition and shutdown (inbox.js:6, outbox.js:5). *)
THEOREM ContractKept == Spec => KeepsContract
<1>1. Init => Contract!Init
  BY DEF Init, RelayInit, ConsumerInit, Contract!Init, Written, Lost
<1>2. TypeOK /\ LockInv /\ RetryInv /\ WrittenInv /\ ClaimInv /\ [Next]_vars
        => [Contract!Next]_Contract!deliveryVars
  BY OnlyCommitActs, CommitActs, OthersWriteOrLose DEF Contract!Next
<1> QED
  BY <1>1, <1>2, RingInvariant, WrittenInvariant, ClaimInvariant, PTL
     DEF Spec, KeepsContract, Contract!Spec
=============================================================================
