--------------------------- MODULE CheckoutProofs ---------------------------
(***************************************************************************)
(* Saga implements CheckoutContract: every step of the five services, as   *)
(* seen by one order, is a step of the contract or leaves the order alone. *)
(***************************************************************************)
EXTENDS SagaProofs

-----------------------------------------------------------------------------
(* Nothing happens to an order before somebody asked for it.               *)
Asked(c) ==
  \/ Has(c, "PROCESS_PAYMENT")
  \/ \E k \in Slot : call[k].corr = c
  \/ \E a \in Attempts : copies[c][a] > 0

OriginInv ==
  \A c \in Saga :
    /\ wf[c] # "STARTED"
    /\ Has(c, "RESERVE_INVENTORY") => wf[c] # "NONE"
    /\ Has(c, "PROCESS_PAYMENT")
         => wf[c] \notin {"NONE", "RESERVING_INVENTORY", "FAILED"}
    /\ Asked(c) => Has(c, "PROCESS_PAYMENT")

(* A step that sets the sides of one slot brings its saga to no other. *)
LEMMA SidesCorr ==
  ASSUME CallTypeOK, NEW k \in Slot, NEW client, NEW server,
         SetSides(k, client, server), NEW j \in Slot, NEW c \in Saga,
         call'[j].corr = c
  PROVE  call[j].corr = c
<1> DEFINE x == [call[k] EXCEPT !.client = client, !.server = server]
           y == IF client = "idle" /\ server = "none" THEN NoCall ELSE x
<1>1. call' = [call EXCEPT ![k] = y] /\ call \in [Slot -> Call]
  BY DEF SetSides, CallTypeOK
<1>2. x.corr = call[k].corr
  BY <1>1 DEF Call
<1>3. NoCall.corr # c
  BY ProviderAssumption DEF NoCall
<1> HIDE DEF x
<1> QED
  BY <1>1, <1>2, <1>3

(* A copy on the queue is for the saga it was put there for. *)
LEMMA CopyAdded ==
  ASSUME copies \in [Saga -> [Attempts -> Nat]], NEW d, NEW b, AddCopy(d, b),
         NEW c \in Saga, NEW a \in Attempts, copies'[c][a] > 0
  PROVE  c = d \/ copies[c][a] > 0
BY DEF AddCopy

(* A copy taken off the queue was there, and no other comes of it. *)
LEMMA CopyRemoved ==
  ASSUME copies \in [Saga -> [Attempts -> Nat]], NEW d \in Saga,
         NEW b \in Attempts, RemoveCopy(d, b), NEW c \in Saga
  PROVE  /\ copies[d][b] > 0
         /\ \A a \in Attempts : copies'[c][a] > 0 => copies[c][a] > 0
BY DEF RemoveCopy

(* Queue and handlers get a saga's payment from the command that asks for  *)
(* it, and then only from each other.                                      *)
LEMMA AskedMoves ==
  ASSUME TypeOK, [Next]_vars, NEW c \in Saga,
         \/ \E k \in Slot : call'[k].corr = c
         \/ \E a \in Attempts : copies'[c][a] > 0
  PROVE  Asked(c)
<1>1. CallTypeOK /\ copies \in [Saga -> [Attempts -> Nat]]
  BY PaymentTypes DEF TypeOK
<1>2. CASE UNCHANGED <<call, copies>>
  BY <1>2 DEF Asked
<1>3. ASSUME NEW k \in Slot, NEW client, NEW server,
             SetSides(k, client, server),
             UNCHANGED copies \/ \E b : AddCopy(call[k].corr, b)
      PROVE  Asked(c)
  BY <1>1, <1>3, SidesCorr, CopyAdded DEF Asked
<1>4. ASSUME NEW r \in outbox, Publish(r)
      PROVE  Asked(c)
  <2>1. AddCopy(r.corr, 1) /\ UNCHANGED call
    BY <1>4 DEF Publish
  <2>2. r.corr = c => Has(c, "PROCESS_PAYMENT")
    BY <1>4 DEF Publish, Has, Sent
  <2> QED
    BY <1>1, <2>1, <2>2, CopyAdded DEF Asked
<1>5. CASE Exchanges
  <2>1. ASSUME NEW k \in Slot, AcceptCharge(k)
        PROVE  Asked(c)
    <3>1. call' = [call EXCEPT ![k] = [call[k] EXCEPT !.server = "deciding"]]
      BY <2>1 DEF AcceptCharge
    <3>2. \A j \in Slot : call'[j].corr = call[j].corr
      BY <1>1, <3>1 DEF CallTypeOK, Call
    <3> QED
      BY <1>5, <3>2 DEF Exchanges, Asked
  <2>2. ASSUME NEW k \in Slot, ReplayCharge(k) \/ ClientTimeout(k)
                                 \/ ConnectionReset(k)
        PROVE  Asked(c)
    BY <1>3, <1>5, <2>2 DEF Exchanges, ReplayCharge, ClientTimeout,
       ConnectionReset, Reply, SetClient
  <2>3. ASSUME NEW k \in Slot, NEW mode \in AllModes, DecideCharge(k, mode)
        PROVE  Asked(c)
    BY <1>3, <1>5, <2>3 DEF Exchanges, DecideCharge, Reply
  <2> QED
    BY <1>5, <2>1, <2>2, <2>3 DEF Exchanges, ProviderStep, ProviderServes
<1>6. CASE Payments
  <2>1. CASE RelayStep
    BY <1>4, <2>1 DEF RelayStep, PublishOnce
  <2>2. ASSUME NEW k \in Slot, NEW d \in Saga, NEW a \in Attempts,
               DeliverFinished(k, d, a) \/ DeliverUnknown(k, d, a)
                 \/ DeliverCharge(k, d, a)
        PROVE  Asked(c)
    <3>1. PICK client, server : Deliver(k, d, a, client, server)
      BY <2>2 DEF DeliverFinished, DeliverUnknown, DeliverCharge
    <3>2. RemoveCopy(d, a)
      BY <3>1 DEF Deliver
    <3>3. \A j \in Slot : call'[j].corr = c => c = d \/ call[j].corr = c
      BY <1>1, <3>1 DEF Deliver, CallTypeOK
    <3> QED
      BY <1>1, <3>2, <3>3, CopyRemoved DEF Asked
  <2>3. ASSUME NEW k \in Slot, HandlerStep(k)
        PROVE  Asked(c)
    BY <1>3, <2>3 DEF HandlerStep, FinishApproved, FinishUnknown, FinishFailed,
                      Finalize, RollBack, Commit, Ack, SetClient
  <2> QED
    BY <1>6, <2>1, <2>2, <2>3 DEF Payments, WorkerStep, DeliverStep
<1>7. CASE Faults
  <2>1. ASSUME NEW k \in Slot, WorkerCrash(k) \/ CommitParked(k)
        PROVE  Asked(c)
    BY <1>3, <2>1 DEF WorkerCrash, CommitParked, SetClient, Redeliver
  <2>2. ASSUME NEW k \in Slot, ChannelLost(k)
        PROVE  Asked(c)
    <3>1. call' = [call EXCEPT ![k] = [call[k] EXCEPT !.owned = FALSE]]
      BY <2>2 DEF ChannelLost
    <3>2. \A j \in Slot : call'[j].corr = call[j].corr
      BY <1>1, <3>1 DEF CallTypeOK, Call
    <3> QED
      BY <1>1, <2>2, <3>2, CopyAdded DEF ChannelLost, Redeliver, Asked
  <2>3. ASSUME NEW k \in Slot, ConnectionRefused(k), UNCHANGED copies
        PROVE  Asked(c)
    BY <1>3, <2>3 DEF ConnectionRefused, Reply
  <2>4. ASSUME NEW d \in Saga, NEW a \in Attempts, ClaimParked(d, a)
        PROVE  Asked(c)
    BY <1>1, <2>4, CopyRemoved DEF ClaimParked, Asked
  <2>5. ASSUME NEW r \in outbox, PublishUncommitted(r)
        PROVE  Asked(c)
    BY <1>4, <2>5 DEF PublishUncommitted
  <2> QED
    BY <1>2, <1>7, <2>1, <2>2, <2>3, <2>4, <2>5
       DEF Faults, WorkerFault, ProviderFault, paymentVars
<1>8. CASE API \/ Orchestration \/ Inventory \/ Recovery \/ UNCHANGED vars
  BY <1>2, <1>8 DEF API, Orchestration, Inventory, Recovery, paymentVars, vars
<1> QED
  BY <1>5, <1>6, <1>7, <1>8 DEF Next

(* Stock is first taken on the command that asks for it. *)
LEMMA FirstReservation ==
  ASSUME TypeOK, [Next]_vars, NEW c \in Saga,
         reservation[c] = "NONE", reservation'[c] # "NONE"
  PROVE  Has(c, "RESERVE_INVENTORY")
<1>1. reservation \in [Saga -> {"NONE", "RESERVED", "RELEASED"}]
  BY DEF TypeOK, InventoryTypeOK
<1>2. CASE Inventory
  <2>1. ASSUME NEW r \in outbox, Reserve(r)
        PROVE  Has(c, "RESERVE_INVENTORY")
    <3>1. r.corr = c
      BY <1>1, <2>1 DEF Reserve, stockVars
    <3> QED
      BY <2>1, <3>1 DEF Reserve, Has, Sent
  <2>2. ASSUME NEW r \in outbox,
               ReserveAborts(r) \/ Release(r) \/ ReleaseExhausted(r)
        PROVE  FALSE
    BY <1>1, <2>2 DEF ReserveAborts, Release, MayRelease, CreditLines,
                      stockVars, ReleaseExhausted, ReleaseFails
  <2> QED
    BY <1>2, <2>1, <2>2 DEF Inventory, InventoryStep
<1>3. CASE ~ Inventory
  BY <1>3 DEF Next, API, Orchestration, Payments, Exchanges, Recovery, Faults,
              InventoryFault, ReleaseExhaustedUnacked, ReleaseFails,
              stockVars, vars
<1> QED
  BY <1>2, <1>3

(* The origin of everything holds from the start and is kept. *)
LEMMA OriginInvariant == Spec => []OriginInv
<1>1. Init => OriginInv
  BY ProviderAssumption
     DEF Init, BusInit, OrchestratorInit, PaymentInit, ProviderInit, NoCall,
         OriginInv, Asked, Has, Sent
<1>2. TypeOK /\ OriginInv /\ [Next]_vars => OriginInv'
  <2> SUFFICES ASSUME TypeOK, OriginInv, [Next]_vars, NEW c \in Saga
               PROVE  /\ wf'[c] # "STARTED"
                      /\ Has(c, "RESERVE_INVENTORY")' => wf'[c] # "NONE"
                      /\ Has(c, "PROCESS_PAYMENT")' =>
                           wf'[c] \notin {"NONE", "RESERVING_INVENTORY", "FAILED"}
                      /\ Asked(c)' => Has(c, "PROCESS_PAYMENT")'
    BY DEF OriginInv
  <2>1. WorkflowMove(c)
    BY WorkflowMoves
  <2>2. wf'[c] # "STARTED"
    BY <2>1 DEF WorkflowMove, OriginInv
  <2>3. Has(c, "RESERVE_INVENTORY")' => wf'[c] # "NONE"
    BY <2>1, HasMoves, MessageNames DEF WorkflowMove, OriginInv, Cause
  <2>4. Has(c, "PROCESS_PAYMENT")'
          => wf'[c] \notin {"NONE", "RESERVING_INVENTORY", "FAILED"}
    BY <2>1, HasMoves, MessageNames DEF WorkflowMove, OriginInv, Cause
  <2>5. Asked(c)' => Has(c, "PROCESS_PAYMENT")'
    BY AskedMoves, HasLasts, MessageNames DEF OriginInv, Asked
  <2> QED
    BY <2>2, <2>3, <2>4, <2>5
<1> QED
  BY <1>1, <1>2, TypeCorrect, PTL DEF Spec

-----------------------------------------------------------------------------
(* The refinement. *)

(* No step touches two of the three tables the contract is about. *)
LEMMA OneTableMoves ==
  ASSUME [Next]_vars
  PROVE  \/ UNCHANGED <<wf, reservation>>
         \/ UNCHANGED <<wf, ledger>>
         \/ UNCHANGED <<reservation, ledger>>
<1>1. CASE API \/ Orchestration \/ Recovery
  BY <1>1 DEF API, Orchestration, Recovery, stockVars, paymentVars
<1>2. CASE Inventory
  BY <1>2 DEF Inventory, paymentVars
<1>3. CASE Exchanges \/ Payments \/ UNCHANGED vars
  BY <1>3 DEF Exchanges, Payments, stockVars, vars
<1>4. CASE Faults
  BY <1>4 DEF Faults, InventoryFault, ReleaseExhaustedUnacked, ReleaseFails,
              JobFault, LookupFails, TickDies, stockVars, paymentVars
<1> QED
  BY <1>1, <1>2, <1>3, <1>4 DEF Next

(* A charge is first approved for a saga with a request at the provider. *)
LEMMA FirstApproval ==
  ASSUME TypeOK, [Next]_vars, NEW c \in Saga,
         ledger[c] # "APPROVED", ledger'[c] = "APPROVED"
  PROVE  Asked(c)
<1>1. ledger \in [Saga -> {"NONE", "APPROVED", "DECLINED"}]
  BY DEF TypeOK, PaymentTypeOK, ProviderTypeOK
<1>2. CASE Exchanges
  <2>1. ASSUME NEW k \in Slot, NEW mode \in AllModes, DecideCharge(k, mode)
        PROVE  Asked(c)
    BY <1>1, <2>1 DEF DecideCharge, RecordTransaction, Asked
  <2> QED
    BY <1>2, <2>1
       DEF Exchanges, ProviderStep, ProviderServes, ReplayCharge, AcceptCharge,
           ClientTimeout, ConnectionReset
<1>3. CASE ~ Exchanges
  <2>1. Payments => UNCHANGED ledger
    BY DEF Payments, WorkerStep, RelayStep, DeliverStep, HandlerStep,
           PublishOnce, Publish, DeliverFinished, DeliverUnknown,
           DeliverCharge, Deliver, FinishApproved, FinishUnknown,
           FinishFailed, Finalize, RollBack, Commit, Ack
  <2>2. Faults => UNCHANGED ledger
    BY DEF Faults, WorkerFault, PublishUncommitted, Publish, WorkerCrash,
           ChannelLost, CommitParked, ClaimParked, ProviderFault,
           ConnectionRefused, paymentVars
  <2> QED
    BY <1>3, <2>1, <2>2
       DEF Next, API, Orchestration, Inventory, Recovery, paymentVars, vars
<1> QED
  BY <1>2, <1>3

(* What the contract sees of one order. *)
LEMMA Seen ==
  ASSUME NEW c \in Saga
  PROVE  /\ Progress[c] = ProgressIn[wf[c]] /\ StockOf[c] = StockIn[reservation[c]]
         /\ Progress'[c] = ProgressIn[wf'[c]]
         /\ StockOf'[c] = StockIn[reservation'[c]]
         /\ c \in Charged <=> ledger[c] = "APPROVED"
         /\ c \in Charged' <=> ledger'[c] = "APPROVED"
BY DEF Progress, StockOf, Charged

(* A move of the workflow is a move of the contract. *)
LEMMA WorkflowImplements ==
  ASSUME TypeOK, UndoInv, MoneyInv, [Next]_vars, NEW c \in Saga,
         Unmixed(c), UNCHANGED <<reservation, ledger>>
  PROVE  Contract!Step(c)
<1>1. wf[c] \in Forward => reservation[c] = "RESERVED"
  BY DEF TypeOK, InventoryTypeOK, UndoInv, Forward, Undoing
<1>2. /\ StockOf'[c] = StockOf[c]
      /\ c \in Charged' <=> c \in Charged
  BY Seen
<1>3. CASE wf'[c] = wf[c]
  BY <1>2, <1>3, Seen DEF Contract!Step, Contract!Rest
<1>4. CASE wf[c] = "NONE" /\ wf'[c] = "RESERVING_INVENTORY"
  BY <1>2, <1>4, Seen DEF ProgressIn, Contract!Step, Contract!Begin,
     Contract!Moves
<1>5. CASE wf[c] = "RESERVING_INVENTORY" /\ wf'[c] = "FAILED"
  BY <1>2, <1>5, Seen DEF ProgressIn, Contract!Step, Contract!Refuse,
     Contract!Moves
<1>6. CASE /\ wf[c] = "RESERVING_INVENTORY" /\ wf'[c] = "PROCESSING_PAYMENT"
           /\ Has(c, "INVENTORY_RESERVED")
  <2>1. reservation[c] = "RESERVED"
    BY <1>6 DEF TypeOK, InventoryTypeOK, UndoInv, Undoing
  <2> QED
    BY <1>2, <1>6, <2>1, Seen
       DEF ProgressIn, StockIn, Contract!Step, Contract!AskForMoney,
           Contract!Moves
<1>7. CASE wf[c] = "PROCESSING_PAYMENT" /\ wf'[c] = "AWAITING_RECONCILIATION"
  BY <1>2, <1>7, Seen DEF ProgressIn, Contract!Step, Contract!Rest
<1>8. CASE /\ wf[c] \in {"PROCESSING_PAYMENT", "AWAITING_RECONCILIATION"}
           /\ wf'[c] = "SENDING_NOTIFICATION"
           /\ Has(c, "PAYMENT_SUCCEEDED")
  <2>1. ledger[c] = "APPROVED" /\ reservation[c] = "RESERVED"
    BY <1>1, <1>8 DEF MoneyInv, Believed, Backed, Forward
  <2> QED
    BY <1>2, <1>8, <2>1, Seen
       DEF ProgressIn, StockIn, Contract!Step, Contract!SendReceipt,
           Contract!Moves
<1>9. CASE /\ wf[c] \in {"PROCESSING_PAYMENT", "AWAITING_RECONCILIATION"}
           /\ wf'[c] = "COMPENSATING_INVENTORY"
  <2>1. reservation[c] = "RESERVED"
    BY <1>1, <1>9 DEF Forward
  <2> QED
    BY <1>2, <1>9, <2>1, Seen
       DEF ProgressIn, StockIn, Contract!Step, Contract!Undo, Contract!Moves
<1>10. CASE wf[c] = "SENDING_NOTIFICATION" /\ wf'[c] = "COMPLETED"
  BY <1>2, <1>10, Seen DEF ProgressIn, Contract!Step, Contract!Finish,
     Contract!Moves
<1>11. CASE /\ wf[c] = "COMPENSATING_INVENTORY" /\ wf'[c] = "COMPENSATED"
            /\ Has(c, "INVENTORY_RELEASED")
  <2>1. reservation[c] = "RELEASED"
    BY <1>11 DEF UndoInv
  <2> QED
    BY <1>2, <1>11, <2>1, Seen
       DEF ProgressIn, StockIn, Contract!Step, Contract!Close, Contract!Moves
<1>12. CASE wf[c] = "COMPENSATING_INVENTORY" /\ wf'[c] = "COMPENSATION_FAILED"
  BY <1>2, <1>12, Seen
     DEF ProgressIn, Contract!Step, Contract!CallForHelp, Contract!Moves
<1> QED
  BY <1>3, <1>4, <1>5, <1>6, <1>7, <1>8, <1>9, <1>10, <1>11, <1>12,
     WorkflowMoves DEF WorkflowMove

(* So is a move of the reservation. *)
LEMMA ReservationImplements ==
  ASSUME TypeOK, UndoInv, OriginInv, [Next]_vars, NEW c \in Saga,
         UNCHANGED <<wf, ledger>>
  PROVE  Contract!Step(c)
<1>1. /\ Progress'[c] = Progress[c]
      /\ c \in Charged' <=> c \in Charged
  BY Seen
<1>2. CASE reservation'[c] = reservation[c]
  BY <1>1, <1>2, Seen DEF Contract!Step, Contract!Rest
<1>3. CASE reservation[c] = "NONE" /\ reservation'[c] = "RESERVED"
  <2>1. wf[c] \in {"RESERVING_INVENTORY", "FAILED"}
    <3>1. wf[c] \notin {"NONE", "STARTED"}
      BY <1>3, FirstReservation DEF OriginInv
    <3>2. wf[c] \notin Forward \cup Undoing
      BY <1>3 DEF UndoInv
    <3>3. wf[c] \in WorkflowStates \cup {"NONE"}
      BY DEF TypeOK, OrchestratorTypeOK
    <3> QED
      BY <3>1, <3>2, <3>3 DEF Forward, Undoing, WorkflowStates
  <2> QED
    BY <1>1, <1>3, <2>1, Seen
       DEF ProgressIn, StockIn, Contract!Step, Contract!Hold,
           Contract!StockMoves
<1>4. CASE /\ reservation[c] = "RESERVED" /\ reservation'[c] = "RELEASED"
           /\ Has(c, "RELEASE_INVENTORY")
  <2>1. wf[c] \in {"COMPENSATING_INVENTORY", "COMPENSATION_FAILED"}
    BY <1>4 DEF UndoInv, Undoing
  <2> QED
    BY <1>1, <1>4, <2>1, Seen
       DEF ProgressIn, StockIn, Contract!Step, Contract!Return,
           Contract!StockMoves
<1> QED
  BY <1>2, <1>3, <1>4, ReservationMoves DEF ReservationMove

(* And a row of the ledger: nobody is charged before or after the contract *)
(* allows it.                                                              *)
LEMMA ChargeImplements ==
  ASSUME TypeOK, MoneyInv, OriginInv, [Next]_vars, NEW c \in Saga,
         Unmixed(c), UNCHANGED <<wf, reservation>>
  PROVE  Contract!Step(c)
<1>1. Progress'[c] = Progress[c] /\ StockOf'[c] = StockOf[c]
  BY Seen
<1>2. CASE c \in Charged' <=> c \in Charged
  BY <1>1, <1>2 DEF Contract!Step, Contract!Rest
<1>3. CASE ~ (c \in Charged' <=> c \in Charged)
  <2>1. ledger[c] # "APPROVED" /\ ledger'[c] = "APPROVED"
    BY <1>3, Seen, LedgerMoves DEF LedgerMove
  <2>2. wf[c] \notin {"NONE", "STARTED", "RESERVING_INVENTORY", "FAILED"}
    BY <2>1, FirstApproval DEF OriginInv
  <2>3. wf[c] \notin {"SENDING_NOTIFICATION", "COMPLETED"}
    BY <2>1 DEF MoneyInv, Believed, Backed
  <2>4. wf[c] \in WorkflowStates \cup {"NONE"}
    BY DEF TypeOK, OrchestratorTypeOK
  <2>5. ProgressIn[wf[c]] \in {"paying", "undoing", "undone", "stuck"}
    BY <2>2, <2>3, <2>4 DEF WorkflowStates, ProgressIn
  <2> QED
    BY <1>1, <2>1, <2>5, Seen DEF Contract!Step, Contract!Charge
<1> QED
  BY <1>2, <1>3

(* Stock, money and workflow are five services' tables; together they move *)
(* like one order.                                                         *)
THEOREM CheckoutImplemented ==
  ASSUME UnmixedModes
  PROVE  Spec => ImplementsCheckout
<1>1. Init => Contract!Init
  BY DEF Init, OrchestratorInit, InventoryInit, PaymentInit, ProviderInit,
         Contract!Init, Progress, StockOf, Charged, ProgressIn, StockIn
<1>2. TypeOK /\ UndoInv /\ MoneyInv /\ OriginInv /\ [Next]_vars
        => [Contract!Next]_Contract!contractVars
  <2> SUFFICES ASSUME TypeOK, UndoInv, MoneyInv, OriginInv, [Next]_vars,
                      NEW c \in Saga
               PROVE  Contract!Step(c)
    BY DEF Contract!Next
  <2>1. Unmixed(c)
    BY UnmixedModes DEF UnmixedModes
  <2> QED
    BY <2>1, OneTableMoves, WorkflowImplements, ReservationImplements,
       ChargeImplements
<1> QED
  BY <1>1, <1>2, TypeCorrect, UndoInvariant, MoneyInvariant, OriginInvariant,
     PTL DEF Spec, ImplementsCheckout, Contract!Spec
=============================================================================
