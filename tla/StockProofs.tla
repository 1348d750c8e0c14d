---------------------------- MODULE StockProofs ----------------------------
(***************************************************************************)
(* The stock of Saga, for any number of orders, lines and SKUs.  No unit   *)
(* is ever lost.  Until an order with a negative quantity is reserved,     *)
(* none is minted either, and what is set aside covers what is owed.       *)
(*                                                                         *)
(* The latter two rest on one fact: a release gives back exactly what its  *)
(* order took.  An order refused at a later line has taken less than its   *)
(* lines say; what keeps it from being released is that an order is        *)
(* refused or reserved once and for all.                                   *)
(***************************************************************************)
EXTENDS CheckoutProofs

-----------------------------------------------------------------------------
(* An order is answered once.                                              *)

OnceInv ==
  \A c \in Saga :
    /\ \E row : Sent(c, "RESERVE_INVENTORY") \subseteq {row}
    /\ reservation[c] # "NONE" =>
         /\ Has(c, "RESERVE_INVENTORY")
         /\ Sent(c, "RESERVE_INVENTORY") \subseteq inbox
    /\ Has(c, "INVENTORY_FAILED") =>
         reservation[c] # "NONE" /\ ~ Has(c, "INVENTORY_RESERVED")
    /\ wf[c] \in Forward \cup Undoing => Has(c, "INVENTORY_RESERVED")

(* Claims stay. *)
LEMMA InboxLasts ==
  ASSUME [Next]_vars
  PROVE  inbox \subseteq inbox'
<1>1. CASE Orchestration \/ Inventory
  BY <1>1 DEF Orchestration, OrchestratorStep, NotificationStep,
              ApplySagaEvent, Notify, Inventory, InventoryStep, Reserve,
              ReserveAborts, Release, ReleaseExhausted, ReleaseFails, WithInbox
<1>2. CASE Payments
  BY <1>2 DEF Payments, WorkerStep, RelayStep, DeliverStep, HandlerStep,
              PublishOnce, Publish, DeliverFinished, DeliverUnknown,
              DeliverCharge, Deliver, FinishApproved, FinishUnknown,
              FinishFailed, Finalize, RollBack, Commit, Ack, busVars
<1>3. CASE Faults
  BY <1>3 DEF Faults, Park, InventoryFault, ReleaseExhaustedUnacked,
              ReleaseFails, WorkerFault, PublishUncommitted, Publish,
              WorkerCrash, ChannelLost, CommitParked, ClaimParked,
              ProviderFault, ConnectionRefused, JobFault, LookupFails, TickDies
<1>4. CASE API \/ Exchanges \/ Recovery \/ UNCHANGED vars
  BY <1>4 DEF API, Checkout, Exchanges, ProviderStep, Recovery, JobStep,
              busVars, vars
<1> QED
  BY <1>1, <1>2, <1>3, <1>4 DEF Next

(* The service answers a reservation with its row claimed, once.           *)
LEMMA ReserveClaims ==
  ASSUME NEW r \in outbox, Reserve(r)
  PROVE  /\ r \in Sent(r.corr, "RESERVE_INVENTORY")
         /\ r \notin inbox
         /\ r \in inbox'
BY DEF Reserve, WithInbox, Deliverable, Sent

(* Only the service's answer to a reservation takes an order's stock.      *)
LEMMA FirstTaken ==
  ASSUME TypeOK, [Next]_vars, NEW c \in Saga,
         reservation[c] = "NONE", reservation'[c] # "NONE"
  PROVE  \E r \in outbox : r.corr = c /\ Reserve(r)
<1>1. reservation \in [Saga -> {"NONE", "RESERVED", "RELEASED"}]
  BY DEF TypeOK, InventoryTypeOK
<1>2. CASE Inventory
  <2>1. ASSUME NEW r \in outbox, Reserve(r)
        PROVE  r.corr = c
    BY <1>1, <2>1 DEF Reserve, stockVars
  <2>2. ASSUME NEW r \in outbox,
               ReserveAborts(r) \/ Release(r) \/ ReleaseExhausted(r)
        PROVE  FALSE
    BY <1>1, <2>2 DEF ReserveAborts, Release, MayRelease, CreditLines,
                      stockVars, ReleaseExhausted, ReleaseFails
  <2> QED
    BY <1>2, <2>1, <2>2 DEF Inventory, InventoryStep
<1>3. CASE ~ Inventory
  BY <1>3 DEF Next, API, Orchestration, Payments, Exchanges, Recovery, Faults,
              InventoryFault, ReleaseExhaustedUnacked, ReleaseFails,
              stockVars, vars
<1> QED
  BY <1>2, <1>3

(* What the service answers to a reservation.                              *)
LEMMA OneAnswer ==
  ASSUME NEW r \in outbox, Reserve(r)
  PROVE  /\ Has(r.corr, "INVENTORY_RESERVED")'
              => \/ Has(r.corr, "INVENTORY_RESERVED")
                 \/ Sent(r.corr, "INVENTORY_FAILED")' =
                      Sent(r.corr, "INVENTORY_FAILED")
         /\ Has(r.corr, "INVENTORY_FAILED")'
              => \/ Has(r.corr, "INVENTORY_FAILED")
                 \/ reservation[r.corr] = "NONE"
<1>1. PICK u \in {"INVENTORY_RESERVED", "INVENTORY_FAILED"} : Enqueue(r.corr, u)
  BY DEF Reserve
<1>2. reservation[r.corr] # "NONE" => Enqueue(r.corr, "INVENTORY_RESERVED")
  BY DEF Reserve
<1>3. CASE u = "INVENTORY_RESERVED"
  <2>1. Sent(r.corr, "INVENTORY_FAILED")' = Sent(r.corr, "INVENTORY_FAILED")
    BY <1>1, <1>3, EnqueueSent
  <2> QED
    BY <2>1 DEF Has
<1>4. CASE u = "INVENTORY_FAILED"
  <2>1. Sent(r.corr, "INVENTORY_RESERVED")' = Sent(r.corr, "INVENTORY_RESERVED")
    BY <1>1, <1>4, EnqueueSent
  <2>2. reservation[r.corr] # "NONE"
          => Sent(r.corr, "INVENTORY_FAILED")' = Sent(r.corr, "INVENTORY_FAILED")
    BY <1>2, EnqueueSent
  <2> QED
    BY <2>1, <2>2 DEF Has
<1> QED
  BY <1>3, <1>4

(* One command, one claim, one answer: an order that was refused is never  *)
(* also reported as reserved, so nothing ever asks for its release.        *)
LEMMA OnceInvariant == Spec => []OnceInv
<1>1. Init => OnceInv
  BY DEF Init, BusInit, OrchestratorInit, InventoryInit, OnceInv, Has, Sent,
         Forward, Undoing
<1>2. TypeOK /\ UndoInv /\ OriginInv /\ OnceInv /\ [Next]_vars => OnceInv'
  <2> SUFFICES ASSUME TypeOK, UndoInv, OriginInv, OnceInv, [Next]_vars,
                      NEW c \in Saga
               PROVE  /\ \E row : Sent(c, "RESERVE_INVENTORY")' \subseteq {row}
                      /\ reservation'[c] # "NONE" =>
                           /\ Has(c, "RESERVE_INVENTORY")'
                           /\ Sent(c, "RESERVE_INVENTORY")' \subseteq inbox'
                      /\ Has(c, "INVENTORY_FAILED")' =>
                           /\ reservation'[c] # "NONE"
                           /\ ~ Has(c, "INVENTORY_RESERVED")'
                      /\ wf'[c] \in Forward \cup Undoing
                           => Has(c, "INVENTORY_RESERVED")'
    BY DEF OnceInv
  <2>1. reservation[c] # "NONE" => reservation'[c] # "NONE"
    BY ReservationMoves DEF ReservationMove
  <2>2. \/ Sent(c, "RESERVE_INVENTORY")' = Sent(c, "RESERVE_INVENTORY")
        \/ /\ Sent(c, "RESERVE_INVENTORY") = {}
           /\ \E row : Sent(c, "RESERVE_INVENTORY")' = {row}
    <3>1. SentMove(c, "RESERVE_INVENTORY")
      BY SentMoves, MessageNames
    <3>2. wf[c] = "NONE" => Sent(c, "RESERVE_INVENTORY") = {}
      BY DEF OriginInv, Has
    <3> QED
      BY <3>1, <3>2 DEF SentMove, Cause, Added
  <2>3. \E row : Sent(c, "RESERVE_INVENTORY")' \subseteq {row}
    BY <2>2 DEF OnceInv
  <2>4. ASSUME reservation'[c] # "NONE"
        PROVE  /\ Has(c, "RESERVE_INVENTORY")'
               /\ Sent(c, "RESERVE_INVENTORY")' \subseteq inbox'
    <3>1. CASE reservation[c] # "NONE"
      BY <2>2, <3>1, InboxLasts DEF OnceInv, Has
    <3>2. CASE reservation[c] = "NONE"
      <4>1. PICK r \in outbox : r.corr = c /\ Reserve(r)
        BY <2>4, <3>2, FirstTaken
      <4>2. r \in Sent(c, "RESERVE_INVENTORY") /\ r \in inbox'
        BY <4>1, ReserveClaims
      <4>3. Sent(c, "RESERVE_INVENTORY") = {r}
        BY <4>2 DEF OnceInv
      <4> QED
        BY <2>2, <4>2, <4>3 DEF Has
    <3> QED
      BY <3>1, <3>2
  <2>5. ASSUME NEW r \in outbox, r.corr = c, Reserve(r)
        PROVE  /\ reservation[c] = "NONE"
               /\ ~ Has(c, "INVENTORY_FAILED")
    <3>1. r \in Sent(c, "RESERVE_INVENTORY") /\ r \notin inbox
      BY <2>5, ReserveClaims
    <3> QED
      BY <3>1 DEF OnceInv
  <2>6. ASSUME Has(c, "INVENTORY_FAILED")'
        PROVE  reservation'[c] # "NONE" /\ ~ Has(c, "INVENTORY_RESERVED")'
    <3>1. CASE \E r \in outbox : r.corr = c /\ Reserve(r)
      <4>1. PICK r \in outbox : r.corr = c /\ Reserve(r)
        BY <3>1
      <4>2. reservation[c] = "NONE" /\ ~ Has(c, "INVENTORY_FAILED")
        BY <2>5, <4>1
      <4>3. reservation'[c] # "NONE"
        <5>1. reservation \in [Saga -> {"NONE", "RESERVED", "RELEASED"}]
          BY DEF TypeOK, InventoryTypeOK
        <5> QED
          BY <4>1, <4>2, <5>1 DEF Reserve
      <4>4. ~ Has(c, "INVENTORY_RESERVED")
        BY <4>2 DEF UndoInv
      <4> QED
        BY <2>6, <4>1, <4>2, <4>3, <4>4, OneAnswer DEF Has
    <3>2. CASE ~ \E r \in outbox : r.corr = c /\ Reserve(r)
      <4>1. \A t \in {"INVENTORY_RESERVED", "INVENTORY_FAILED"} :
              Sent(c, t)' = Sent(c, t)
        BY <3>2, SentMoves, MessageNames DEF SentMove, Cause
      <4> QED
        BY <2>1, <2>6, <4>1 DEF OnceInv, Has
    <3> QED
      BY <3>1, <3>2
  <2>7. wf'[c] \in Forward \cup Undoing => Has(c, "INVENTORY_RESERVED")'
    <3>1. wf'[c] \in Forward \cup Undoing => Has(c, "INVENTORY_RESERVED")
      BY WorkflowMoves DEF WorkflowMove, OnceInv, Forward, Undoing
    <3> QED
      BY <3>1, HasLasts, MessageNames
  <2> QED
    BY <2>3, <2>4, <2>6, <2>7
<1> QED
  BY <1>1, <1>2, TypeCorrect, UndoInvariant, OriginInvariant, PTL DEF Spec

-----------------------------------------------------------------------------
(* Counting units. *)

Units(f) == UNION {{c} \X (1..f[c]) : c \in Saga}

(* The units of one order. *)
LEMMA UnitsOfOne ==
  ASSUME NEW c, NEW n \in Nat
  PROVE  IsFiniteSet({c} \X (1..n)) /\ Cardinality({c} \X (1..n)) = n
<1>1. IsFiniteSet({c}) /\ Cardinality({c}) = 1
  BY FS_Singleton
<1>2. IsFiniteSet(1..n) /\ Cardinality(1..n) = n
  BY FS_Interval
<1>3. /\ IsFiniteSet({c} \X (1..n))
      /\ Cardinality({c} \X (1..n)) = Cardinality({c}) * Cardinality(1..n)
  BY <1>1, <1>2, FS_Product
<1> QED
  BY <1>1, <1>2, <1>3

(* The units of all change by as many as those of one order.               *)
LEMMA UnitsMove ==
  ASSUME NEW f \in [Saga -> Nat], NEW g \in [Saga -> Nat], NEW c \in Saga,
         \A d \in Saga \ {c} : g[d] = f[d], IsFiniteSet(Units(f))
  PROVE  /\ IsFiniteSet(Units(g))
         /\ Cardinality(Units(g)) = Cardinality(Units(f)) - f[c] + g[c]
         /\ f[c] <= Cardinality(Units(f))
<1> DEFINE Of(h) == {c} \X (1..h[c])
           Rest == Units(f) \ Of(f)
<1>1. /\ IsFiniteSet(Of(f)) /\ Cardinality(Of(f)) = f[c]
      /\ IsFiniteSet(Of(g)) /\ Cardinality(Of(g)) = g[c]
  BY UnitsOfOne
<1>2. Of(f) \subseteq Units(f)
  BY DEF Units
<1>3. /\ IsFiniteSet(Rest)
      /\ Cardinality(Rest) = Cardinality(Units(f)) - f[c]
      /\ f[c] <= Cardinality(Units(f))
  <2>1. IsFiniteSet(Rest)
    BY FS_Difference
  <2>2. Cardinality(Rest) = Cardinality(Units(f)) - Cardinality(Units(f) \cap Of(f))
    BY FS_Difference
  <2>3. Cardinality(Units(f) \cap Of(f)) = f[c]
    <3>1. Units(f) \cap Of(f) = Of(f)
      BY <1>2
    <3> QED
      BY <1>1, <3>1, Zenon
  <2>4. Cardinality(Units(f)) \in Nat /\ Cardinality(Rest) \in Nat
    BY <2>1, FS_CardinalityType
  <2> QED
    BY <1>1, <2>1, <2>2, <2>3, <2>4
<1>4. Units(g) = Rest \cup Of(g)
  <2>1. ASSUME NEW u \in Units(g)
        PROVE  u \in Rest \cup Of(g)
    <3>1. PICK d \in Saga : u \in {d} \X (1..g[d])
      BY <2>1 DEF Units
    <3>2. CASE d = c
      BY <3>1, <3>2
    <3>3. CASE d # c
      <4>1. u \in {d} \X (1..f[d])
        BY <3>1, <3>3
      <4>2. u \in Units(f)
        BY <4>1 DEF Units
      <4> QED
        BY <3>3, <4>1, <4>2
    <3> QED
      BY <3>2, <3>3
  <2>2. ASSUME NEW u \in Rest
        PROVE  u \in Units(g)
    <3>1. PICK d \in Saga : u \in {d} \X (1..f[d])
      BY <2>2 DEF Units
    <3>2. d # c
      BY <2>2, <3>1
    <3>3. u \in {d} \X (1..g[d])
      BY <3>1, <3>2
    <3> QED
      BY <3>3 DEF Units
  <2>3. Of(g) \subseteq Units(g)
    BY DEF Units
  <2> QED
    BY <2>1, <2>2, <2>3
<1>5. Rest \cap Of(g) = {}
  <2> SUFFICES ASSUME NEW u \in Rest, u \in Of(g)
               PROVE  FALSE
    OBVIOUS
  <2>1. PICK d \in Saga : u \in {d} \X (1..f[d])
    BY DEF Units
  <2> QED
    BY <2>1
<1>6. /\ IsFiniteSet(Rest \cup Of(g))
      /\ Cardinality(Rest \cup Of(g)) = Cardinality(Rest) + g[c]
  <2>1. /\ IsFiniteSet(Rest \cup Of(g))
        /\ Cardinality(Rest \cup Of(g)) =
             Cardinality(Rest) + Cardinality(Of(g)) - Cardinality(Rest \cap Of(g))
    BY <1>1, <1>3, FS_Union
  <2>2. Cardinality(Rest \cap Of(g)) = 0
    BY <1>5, FS_EmptySet
  <2>3. Cardinality(Rest) \in Nat
    BY <1>3, FS_CardinalityType
  <2> QED
    BY <1>1, <2>1, <2>2, <2>3
<1> QED
  BY <1>3, <1>4, <1>6

-----------------------------------------------------------------------------
(* The stock, with quantities that need not be valid. *)

(* Who touches the stock. *)
LEMMA StockKinds ==
  ASSUME [Next]_vars
  PROVE  \/ UNCHANGED stockVars
         \/ \E r \in outbox : Reserve(r) /\ reservation[r.corr] = "NONE"
         \/ \E r \in outbox : Release(r) /\ reservation[r.corr] = "RESERVED"
BY DEF Next, API, Orchestration, Payments, Exchanges, Recovery, Faults,
       Inventory, InventoryStep, Reserve, ReserveAborts, Release, MayRelease,
       ReleaseExhausted, InventoryFault, ReleaseExhaustedUnacked, ReleaseFails,
       stockVars, vars

NothingLost == \A s \in SKU : available[s] + reserved[s] >= Stock[s]

(* A reservation moves units, a release moves them back; what GREATEST     *)
(* cuts off while it does so adds to the sum.                              *)
LEMMA NothingLostInvariant == Spec => []NothingLost
<1>1. Init => NothingLost
  BY InventoryAssumption DEF Init, InventoryInit, NothingLost
<1>2. TypeOK /\ NothingLost /\ [Next]_vars => NothingLost'
  <2> SUFFICES ASSUME TypeOK, NothingLost, [Next]_vars, NEW s \in SKU
               PROVE  available'[s] + reserved'[s] >= Stock[s]
    BY DEF NothingLost
  <2>1. /\ available[s] \in Nat /\ reserved[s] \in Nat /\ Stock[s] \in Nat
        /\ available[s] + reserved[s] >= Stock[s]
    BY InventoryAssumption DEF TypeOK, InventoryTypeOK, NothingLost
  <2>2. CASE UNCHANGED stockVars
    BY <2>1, <2>2 DEF stockVars
  <2>3. ASSUME NEW r \in outbox, Reserve(r), reservation[r.corr] = "NONE"
        PROVE  available'[s] + reserved'[s] >= Stock[s]
    <3>1. r.corr \in Saga
      BY DEF TypeOK, BusTypeOK, Row
    <3>2. PICK k \in 0..LineCount(r.corr) : TakeLines(r.corr, k)
      BY <2>3 DEF Reserve
    <3>3. Taken(r.corr, k, s) \in Int
      BY <3>1, TakenType
    <3> QED
      BY <2>1, <3>2, <3>3 DEF TakeLines
  <2>4. ASSUME NEW r \in outbox, Release(r), reservation[r.corr] = "RESERVED"
        PROVE  available'[s] + reserved'[s] >= Stock[s]
    <3> DEFINE all == Taken(r.corr, LineCount(r.corr), s)
    <3>1. r.corr \in Saga
      BY DEF TypeOK, BusTypeOK, Row
    <3>2. all \in Int
      BY <3>1, LineCountType, TakenType
    <3>3. CutOff(r.corr, s) \in Nat
      BY <3>1, CutOffGreatest DEF TypeOK
    <3>4. CreditLines(r.corr)
      BY <2>4 DEF Release, MayRelease
    <3>5. /\ available'[s] = available[s] + all
          /\ reserved'[s] = reserved[s] - all + CutOff(r.corr, s)
      BY <3>4 DEF CreditLines
    <3> HIDE DEF all
    <3> QED
      BY <2>1, <3>2, <3>3, <3>5
  <2> QED
    BY <2>2, <2>3, <2>4, StockKinds
<1> QED
  BY <1>1, <1>2, TypeCorrect, PTL DEF Spec

-----------------------------------------------------------------------------
(* The stock, with valid quantities. *)

Debt(s) == [c \in Saga |-> Owed(c, s)]

SingleLines == \A c \in Saga : LineCount(c) = 1

(* What is set aside is at least what is owed, and no more than that if no *)
(* order can be refused half way.                                          *)
Covers(held, owed) == owed <= held /\ (SingleLines => owed = held)

Balanced ==
  \A s \in SKU :
    /\ available[s] + reserved[s] = Stock[s]
    /\ IsFiniteSet(Units(Debt(s)))
    /\ Covers(reserved[s], Cardinality(Units(Debt(s))))

StockInv == ReservedValid => Balanced

ValidQuantities == \A c \in Saga : ValidLines(c)

(* No row of reservations is ever deleted, so what is reserved now with a  *)
(* negative quantity will have been then.                                  *)
LEMMA ValidBefore ==
  ASSUME [Next]_vars, TypeOK, ReservedValid'
  PROVE  ReservedValid
<1>1. \A c \in Saga : reservation[c] # "NONE" => reservation'[c] # "NONE"
  BY ReservationMoves DEF ReservationMove
<1> QED
  BY <1>1 DEF ReservedValid, ValidOrders, ValidLines

(* The lines of an order sum up to a number of units, each to more.        *)
LEMMA TakenNat ==
  ASSUME NEW c \in Saga, ValidLines(c), NEW k \in 0..LineCount(c),
         NEW s \in SKU
  PROVE  /\ Taken(c, k, s) \in Nat
         /\ Taken(c, k, s) <= Taken(c, LineCount(c), s)
<1>1. LineCount(c) \in Nat
  BY LineCountType
<1>2. 0 \in 0..LineCount(c) /\ LineCount(c) \in 0..LineCount(c)
  BY <1>1
<1>3. 0 <= k /\ k <= LineCount(c)
  BY <1>1
<1>4. /\ Taken(c, 0, s) <= Taken(c, k, s)
      /\ Taken(c, k, s) <= Taken(c, LineCount(c), s)
  BY <1>2, <1>3 DEF ValidLines
<1>5. Taken(c, k, s) \in Int /\ Taken(c, 0, s) = 0
  BY TakenType DEF Taken
<1> QED
  BY <1>4, <1>5

LEMMA WholeOrder ==
  ASSUME NEW c \in Saga, ValidLines(c), NEW s \in SKU
  PROVE  Taken(c, LineCount(c), s) \in Nat
BY LineCountType, TakenNat

(* The table's CHECK never stops a reservation. *)
LEMMA NeverAborts ==
  ASSUME TypeOK, NEW r \in outbox, ValidLines(r.corr)
  PROVE  ~ ReserveAborts(r)
<1>1. r.corr \in Saga
  BY DEF TypeOK, BusTypeOK, Row
<1>2. ASSUME NEW k \in 1..LineCount(r.corr)
      PROVE  Allowed(r.corr, k)
  <2>1. k \in 0..LineCount(r.corr)
    BY <1>1, LineCountType
  <2>2. ASSUME NEW s \in SKU
        PROVE  reserved[s] + Taken(r.corr, k, s) >= 0
    <3>1. Taken(r.corr, k, s) \in Nat
      BY <1>1, <2>1, TakenNat
    <3> QED
      BY <3>1 DEF TypeOK, InventoryTypeOK
  <2> QED
    BY <2>2 DEF Allowed
<1> QED
  BY <1>2 DEF ReserveAborts

(* What is owed of an SKU, order by order, before and after a step. *)
LEMMA DebtType ==
  ASSUME NEW s \in SKU
  PROVE  /\ ReservedValid => Debt(s) \in [Saga -> Nat]
         /\ ReservedValid' => Debt(s)' \in [Saga -> Nat]
<1>1. ASSUME ReservedValid, NEW c \in Saga
      PROVE  Owed(c, s) \in Nat
  BY <1>1, WholeOrder DEF ReservedValid, ValidOrders, Owed, Holds
<1>2. ASSUME ReservedValid', NEW c \in Saga
      PROVE  Owed(c, s)' \in Nat
  <2>1. CASE reservation'[c] = "RESERVED"
    <3>1. ValidLines(c)
      BY <1>2, <2>1 DEF ReservedValid, ValidOrders, ValidLines
    <3> QED
      BY <3>1, WholeOrder DEF Owed
  <2>2. CASE reservation'[c] # "RESERVED"
    BY <2>2 DEF Owed, Holds
  <2> QED
    BY <2>1, <2>2
<1> QED
  BY <1>1, <1>2 DEF Debt

(* An order whose reservation stands is owed what it was owed.             *)
LEMMA DebtStands ==
  ASSUME TypeOK, [Next]_vars, NEW c \in Saga, NEW s \in SKU,
         reservation'[c] = reservation[c]
  PROVE  Debt(s)'[c] = Debt(s)[c]
<1>1. CASE reservation[c] # "RESERVED"
  BY <1>1 DEF Debt, Owed, Holds
<1>2. CASE reservation[c] = "RESERVED"
  <2>1. Has(c, "INVENTORY_FAILED") => Has(c, "INVENTORY_FAILED")'
    BY HasLasts, MessageNames
  <2>2. Has(c, "INVENTORY_FAILED")' => Has(c, "INVENTORY_FAILED")
    <3>1. SUFFICES ASSUME Has(c, "INVENTORY_FAILED")',
                          ~ Has(c, "INVENTORY_FAILED")
                   PROVE  FALSE
      OBVIOUS
    <3>2. PICK r \in outbox : r.corr = c /\ Reserve(r)
      BY <3>1, HasMoves, MessageNames DEF Cause
    <3> QED
      BY <1>2, <3>1, <3>2, OneAnswer
  <2> QED
    BY <1>2, <2>1, <2>2 DEF Debt, Owed, Holds, Has
<1> QED
  BY <1>1, <1>2

(* What is enqueued is there. *)
LEMMA EnqueueHas ==
  ASSUME NEW c, NEW t, Enqueue(c, t)
  PROVE  Sent(c, t)' # {}
<1> DEFINE row == [corr |-> c, type |-> t, n |-> Cardinality(Sent(c, t))]
<1>1. row \in outbox' /\ row.corr = c /\ row.type = t
  BY DEF Enqueue
<1> HIDE DEF row
<1> QED
  BY <1>1 DEF Sent

(* A new reservation sets aside at least what it is owed. *)
LEMMA ReserveKeepsStock ==
  ASSUME TypeOK, OnceInv, Balanced, ReservedValid, ReservedValid', [Next]_vars,
         NEW r \in outbox, Reserve(r), reservation[r.corr] = "NONE"
  PROVE  Balanced'
<1> DEFINE c == r.corr
<1> SUFFICES ASSUME NEW s \in SKU
             PROVE  /\ available'[s] + reserved'[s] = Stock[s]
                    /\ IsFiniteSet(Units(Debt(s)'))
                    /\ Covers(reserved'[s], Cardinality(Units(Debt(s)')))
  BY DEF Balanced, Units
<1>1. c \in Saga /\ ValidLines(c)
  <2>1. c \in Saga /\ reservation'[c] = "RESERVED"
    BY DEF Reserve, TypeOK, BusTypeOK, Row, InventoryTypeOK
  <2> QED
    BY <2>1 DEF ReservedValid, ValidOrders, ValidLines
<1>2. PICK k \in 0..LineCount(c) :
        /\ TakeLines(c, k)
        /\ Enqueue(c, IF k = LineCount(c) THEN "INVENTORY_RESERVED"
                                          ELSE "INVENTORY_FAILED")
  BY DEF Reserve
<1>3. available[s] \in Nat /\ reserved[s] \in Nat /\ Taken(c, k, s) \in Nat
  BY <1>1, TakenNat DEF TypeOK, InventoryTypeOK
<1>4. /\ available'[s] = available[s] - Taken(c, k, s)
      /\ reserved'[s] = reserved[s] + Taken(c, k, s)
  BY <1>2 DEF TakeLines
<1>5. Debt(s)[c] = 0
  BY <1>1 DEF Debt, Owed, Holds
<1>6. Covers(Taken(c, k, s), Debt(s)'[c])
  <2>1. CASE k = LineCount(c)
    <3>1. Enqueue(c, "INVENTORY_RESERVED")
      BY <1>2, <2>1
    <3>2. Sent(c, "INVENTORY_FAILED")' = {}
      BY <1>1, <3>1, EnqueueSent DEF OnceInv, Has
    <3>3. Holds(c)'
      BY <1>1 DEF Reserve, Holds, TypeOK, InventoryTypeOK
    <3> QED
      BY <1>1, <1>3, <2>1, <3>2, <3>3 DEF Debt, Owed, Covers
  <2>2. CASE k # LineCount(c)
    <3>1. Enqueue(c, "INVENTORY_FAILED")
      BY <1>2, <2>2
    <3>2. Sent(c, "INVENTORY_FAILED")' # {}
      BY <3>1, EnqueueHas
    <3>3. SingleLines => Taken(c, k, s) = 0
      BY <1>1, <2>2 DEF SingleLines, Taken
    <3> QED
      BY <1>1, <1>3, <3>2, <3>3 DEF Debt, Owed, Covers
  <2> QED
    BY <2>1, <2>2
<1>7. \A d \in Saga \ {c} : Debt(s)'[d] = Debt(s)[d]
  <2>1. \A d \in Saga \ {c} : reservation'[d] = reservation[d]
    BY <1>1 DEF Reserve, TypeOK, InventoryTypeOK
  <2> QED
    BY <2>1, DebtStands
<1>8. /\ IsFiniteSet(Units(Debt(s)))
      /\ Covers(reserved[s], Cardinality(Units(Debt(s))))
      /\ available[s] + reserved[s] = Stock[s]
  BY DEF Balanced
<1>9. /\ IsFiniteSet(Units(Debt(s)'))
      /\ Cardinality(Units(Debt(s)')) =
           Cardinality(Units(Debt(s))) - Debt(s)[c] + Debt(s)'[c]
  BY <1>1, <1>7, <1>8, DebtType, UnitsMove
<1>10. Cardinality(Units(Debt(s))) \in Nat /\ Debt(s)'[c] \in Nat
  BY <1>1, <1>8, DebtType, FS_CardinalityType
<1> QED
  BY <1>3, <1>4, <1>5, <1>6, <1>8, <1>9, <1>10 DEF Covers

(* As long as an order's lines are set aside, its release cuts nothing off.*)
LEMMA NothingCutOff ==
  ASSUME TypeOK, NEW c \in Saga, ValidLines(c), NEW s \in SKU,
         Taken(c, LineCount(c), s) <= reserved[s]
  PROVE  CutOff(c, s) = 0
<1>1. CutOff(c, s) \in Nat
  BY CutOffGreatest DEF TypeOK
<1>2. ASSUME NEW k \in 1..LineCount(c),
             CutOff(c, s) = Taken(c, k, s) - reserved[s]
      PROVE  CutOff(c, s) = 0
  <2>1. k \in 0..LineCount(c)
    BY LineCountType
  <2>2. /\ Taken(c, k, s) \in Nat
        /\ Taken(c, k, s) <= Taken(c, LineCount(c), s)
    BY <2>1, TakenNat
  <2>3. Taken(c, LineCount(c), s) \in Nat /\ reserved[s] \in Nat
    BY WholeOrder DEF TypeOK, InventoryTypeOK
  <2> QED
    BY <1>1, <1>2, <2>2, <2>3
<1> QED
  BY <1>2, CutOffGreatest DEF TypeOK

(* A release gives back what the order took, and no more than is there.    *)
LEMMA ReleaseKeepsStock ==
  ASSUME TypeOK, UndoInv, OnceInv, Balanced, ReservedValid, ReservedValid',
         [Next]_vars,
         NEW r \in outbox, Release(r), reservation[r.corr] = "RESERVED"
  PROVE  Balanced'
<1> DEFINE c == r.corr
<1> SUFFICES ASSUME NEW s \in SKU
             PROVE  /\ available'[s] + reserved'[s] = Stock[s]
                    /\ IsFiniteSet(Units(Debt(s)'))
                    /\ Covers(reserved'[s], Cardinality(Units(Debt(s)')))
  BY DEF Balanced, Units
<1> DEFINE all == Taken(c, LineCount(c), s)
<1>1. c \in Saga /\ ValidLines(c)
  BY DEF TypeOK, BusTypeOK, Row, ReservedValid, ValidOrders
<1>2. available[s] \in Nat /\ reserved[s] \in Nat /\ all \in Nat
  BY <1>1, WholeOrder DEF TypeOK, InventoryTypeOK
<1>3. CreditLines(c)
  BY DEF Release, MayRelease
<1>4. /\ available'[s] = available[s] + all
      /\ reserved'[s] = reserved[s] - all + CutOff(c, s)
      /\ reservation' = [reservation EXCEPT ![c] = "RELEASED"]
  BY <1>3 DEF CreditLines
<1>5. Debt(s)[c] = all
  <2>1. Has(c, "RELEASE_INVENTORY")
    BY DEF Release, Has, Sent
  <2>2. ~ Has(c, "INVENTORY_FAILED")
    BY <1>1, <2>1 DEF UndoInv, OnceInv
  <2> QED
    BY <1>1, <2>2 DEF Debt, Owed, Holds, Has
<1>6. Debt(s)'[c] = 0
  BY <1>1, <1>4 DEF Debt, Owed, Holds, TypeOK, InventoryTypeOK
<1>7. \A d \in Saga \ {c} : Debt(s)'[d] = Debt(s)[d]
  <2>1. \A d \in Saga \ {c} : reservation'[d] = reservation[d]
    BY <1>1, <1>4 DEF TypeOK, InventoryTypeOK
  <2> QED
    BY <2>1, DebtStands
<1>8. /\ IsFiniteSet(Units(Debt(s)))
      /\ Covers(reserved[s], Cardinality(Units(Debt(s))))
      /\ available[s] + reserved[s] = Stock[s]
  BY DEF Balanced
<1>9. /\ IsFiniteSet(Units(Debt(s)'))
      /\ Cardinality(Units(Debt(s)')) =
           Cardinality(Units(Debt(s))) - Debt(s)[c] + Debt(s)'[c]
      /\ Debt(s)[c] <= Cardinality(Units(Debt(s)))
  BY <1>1, <1>7, <1>8, DebtType, UnitsMove
<1>10. Cardinality(Units(Debt(s))) \in Nat
  BY <1>8, FS_CardinalityType
<1>11. reserved'[s] = reserved[s] - all
  <2>1. all <= reserved[s]
    BY <1>2, <1>5, <1>8, <1>9, <1>10 DEF Covers
  <2>2. CutOff(c, s) = 0
    BY <1>1, <2>1, NothingCutOff
  <2> QED
    BY <1>2, <1>4, <2>2
<1> QED
  BY <1>2, <1>4, <1>5, <1>6, <1>8, <1>9, <1>10, <1>11 DEF Covers

(* Every step keeps the books: StockInv is inductive, given that refused   *)
(* orders are not released.                                                *)
LEMMA StockInvariant == Spec => []StockInv
<1>1. Init => StockInv
  <2> SUFFICES ASSUME Init, NEW s \in SKU
               PROVE  /\ available[s] + reserved[s] = Stock[s]
                      /\ IsFiniteSet(Units(Debt(s)))
                      /\ Covers(reserved[s], Cardinality(Units(Debt(s))))
    BY DEF StockInv, Balanced
  <2>1. available[s] = Stock[s] /\ reserved[s] = 0 /\ Stock[s] \in Nat
    BY InventoryAssumption DEF Init, InventoryInit
  <2>2. \A c \in Saga : Debt(s)[c] = 0
    BY DEF Init, InventoryInit, Debt, Owed, Holds
  <2>3. Units(Debt(s)) = {}
    BY <2>2 DEF Units
  <2> QED
    BY <2>1, <2>3, FS_EmptySet DEF Covers
<1>2. TypeOK /\ UndoInv /\ OnceInv /\ StockInv /\ [Next]_vars => StockInv'
  <2> SUFFICES ASSUME TypeOK, UndoInv, OnceInv, StockInv, [Next]_vars,
                      ReservedValid'
               PROVE  Balanced'
    BY DEF StockInv
  <2>0. ReservedValid /\ Balanced
    BY ValidBefore DEF StockInv
  <2>1. CASE UNCHANGED stockVars
    <3>1. ASSUME NEW s \in SKU
          PROVE  Debt(s)' = Debt(s)
      <4>1. \A c \in Saga : Debt(s)'[c] = Debt(s)[c]
        BY <2>1, DebtStands DEF stockVars
      <4> QED
        BY <2>0, <4>1, DebtType
    <3> QED
      BY <2>0, <2>1, <3>1 DEF Balanced, Units, stockVars
  <2> QED
    BY <2>0, <2>1, StockKinds, ReserveKeepsStock, ReleaseKeepsStock
<1> QED
  BY <1>1, <1>2, TypeCorrect, UndoInvariant, OnceInvariant, PTL DEF Spec

(* Reserving and releasing lose no unit, whatever the quantities.  They    *)
(* mint none until an order with a negative one is reserved: a release     *)
(* takes down what its order set aside, never less (the GREATEST of        *)
(* inventoryService.js:103 cuts nothing off).                              *)
THEOREM StockKept == Spec => []StockConserved
<1>1. NothingLost /\ StockInv => StockConserved
  BY DEF NothingLost, StockInv, Balanced, StockConserved
<1> QED
  BY <1>1, NothingLostInvariant, StockInvariant, PTL

LEMMA PromisedUnits ==
  ASSUME NEW s \in SKU
  PROVE  Promised(s) = Units(Debt(s))
BY DEF Promised, Units, Debt

(* Until an order with a negative quantity is reserved, the units set      *)
(* aside cover what the orders holding a full reservation were promised.   *)
THEOREM StockCovered == Spec => []StockCoversHolders
<1>1. StockInv => StockCoversHolders
  BY PromisedUnits DEF StockInv, Balanced, Covers, StockCoversHolders
<1> QED
  BY <1>1, StockInvariant, PTL

(* Where no order has a second line no unit leaks: what is set aside is    *)
(* what is promised, to the unit, whatever is retried, released late or    *)
(* swept, until an order with a negative quantity is reserved.  Before     *)
(* that, the loss that RefusedTookNothing shows is that of the lines       *)
(* before the one without stock and of nothing else.                       *)
THEOREM NoUnitLeaks ==
  ASSUME SingleLines
  PROVE  Spec => [](ReservedValid =>
                      \A s \in SKU : reserved[s] = Cardinality(Promised(s)))
<1>1. StockInv =>
        (ReservedValid => \A s \in SKU : reserved[s] = Cardinality(Promised(s)))
  BY SingleLines, PromisedUnits DEF StockInv, Balanced, Covers
<1> QED
  BY <1>1, StockInvariant, PTL

-----------------------------------------------------------------------------
(* Orders that failed.  The sweep handles what its query selected, so it   *)
(* never fails a reservation that keeps to its timeout.                    *)
SweepInv ==
  task \in {"sweep", "mark"} => \A x \in batch : x.seen \in SlowSteps

FailedInv ==
  \A c \in Saga : wf[c] = "FAILED" => Has(c, "INVENTORY_FAILED")

(* The candidates of a sweep are chosen by its query and only used up.     *)
LEMMA SweepInvariant == Spec => []SweepInv
<1>1. Init => SweepInv
  BY DEF Init, ReconcilerInit, SweepInv
<1>2. SweepInv /\ [Next]_vars => SweepInv'
  <2> SUFFICES ASSUME SweepInv, [Next]_vars, task' \in {"sweep", "mark"},
                      NEW x \in batch'
               PROVE  x.seen \in SlowSteps
    BY DEF SweepInv
  <2>1. CASE SelectStuck
    BY <2>1 DEF SelectStuck, Select
  <2>2. ASSUME SelectUnknown \/ SelectCompensating \/ Lookup
               \/ (\E y \in batch : \/ ClaimUnknown(y) \/ GiveUp(y)
                                    \/ RetryCompensation(y))
        PROVE  FALSE
    BY <2>2 DEF SelectUnknown, SelectCompensating, Select, Lookup,
                ClaimUnknown, GiveUp, RetryCompensation, Continue, Handled,
                Unfinished
  <2>3. ASSUME Resolve \/ LookupFails \/ TickDies
        PROVE  FALSE
    BY <2>3 DEF Resolve, LookupFails, TickDies, Resume, Unfinished
  <2>4. ASSUME MarkPaymentUnknown \/ (\E y \in batch : Sweep(y))
        PROVE  x \in batch /\ task \in {"sweep", "mark"}
    BY <2>4 DEF MarkPaymentUnknown, Resume, Sweep, Continue, Handled
  <2>5. CASE UNCHANGED jobVars
    BY <2>5 DEF SweepInv, jobVars
  <2> QED
    BY <2>1, <2>2, <2>3, <2>4, <2>5
       DEF SweepInv, Next, API, Orchestration, Inventory, Payments, Exchanges,
           Recovery, JobStep, Faults, JobFault, vars
<1> QED
  BY <1>1, <1>2, PTL DEF Spec

(* The states the saga table leads to, with the commands it sends there.   *)
LEMMA SagaTargets ==
  ASSUME NEW e \in SagaEvents
  PROVE  LET rule == SagaTransitions[e] IN
         /\ rule.to \notin {"STARTED", "RESERVING_INVENTORY"}
         /\ rule.to = "FAILED" => e = "INVENTORY_FAILED"
         /\ rule.to = "PROCESSING_PAYMENT" => rule.command = "PROCESS_PAYMENT"
         /\ rule.to = "SENDING_NOTIFICATION"
              => rule.command = "SEND_NOTIFICATION"
         /\ rule.to = "COMPENSATING_INVENTORY"
              => rule.command = "RELEASE_INVENTORY"
<1> USE DEF SagaTransitions, Rule
<1>1. CASE e = "INVENTORY_RESERVED"
  BY <1>1
<1>2. CASE e = "PAYMENT_SUCCEEDED"
  BY <1>2
<1>3. CASE e = "NOTIFICATION_SENT"
  BY <1>3
<1>4. CASE e = "INVENTORY_FAILED"
  BY <1>4
<1>5. CASE e = "PAYMENT_FAILED"
  BY <1>5
<1>6. CASE e = "PAYMENT_UNKNOWN"
  BY <1>6
<1>7. CASE e = "INVENTORY_RELEASED"
  BY <1>7
<1>8. CASE e = "INVENTORY_RELEASE_FAILED"
  BY <1>8
<1>9. CASE e = "NOTIFICATION_FAILED"
  BY <1>9
<1> QED
  BY EventNames, <1>1, <1>2, <1>3, <1>4, <1>5, <1>6, <1>7, <1>8, <1>9

(* A workflow fails on its event, or because it was swept. *)
LEMMA Fails ==
  ASSUME TypeOK, SweepInv, [Next]_vars, NEW c \in Saga,
         "RESERVING_INVENTORY" \notin SlowSteps,
         wf[c] # "FAILED", wf'[c] = "FAILED"
  PROVE  Has(c, "INVENTORY_FAILED")
<1>1. wf \in [Saga -> WorkflowStates \cup {"NONE"}]
  BY DEF TypeOK, OrchestratorTypeOK
<1>2. CASE Orchestration
  <2>1. PICK r \in outbox : ApplySagaEvent(r)
    BY <1>2 DEF Orchestration, OrchestratorStep, NotificationStep, Notify
  <2>2. r.corr = c /\ r.type \in SagaEvents
        /\ SagaTransitions[r.type].to = "FAILED"
    BY <1>1, <2>1 DEF ApplySagaEvent, Advance
  <2>3. r.type = "INVENTORY_FAILED"
    BY <2>2, SagaTargets
  <2> QED
    BY <2>2, <2>3 DEF Has, Sent
<1>3. CASE Recovery
  <2>1. ASSUME NEW x \in batch, Sweep(x)
        PROVE  FALSE
    <3>1. x.seen \in DOMAIN SweptTo /\ x.seen \in SlowSteps
      BY <2>1 DEF Sweep, TypeOK, ReconcilerTypeOK, SweepInv
    <3>2. SweptTo[x.seen] = "FAILED"
      BY <1>1, <2>1 DEF Sweep, ForceState
    <3> QED
      BY <3>1, <3>2 DEF SweptTo
  <2>2. ASSUME NEW x \in batch, GiveUp(x)
        PROVE  FALSE
    BY <1>1, <2>2 DEF GiveUp, ForceState
  <2> QED
    BY <1>3, <2>1, <2>2
       DEF Recovery, JobStep, SelectUnknown, Lookup, Resolve, SelectStuck,
           MarkPaymentUnknown, SelectCompensating, ClaimUnknown,
           RetryCompensation
<1>4. CASE API
  BY <1>1, <1>4 DEF API, Checkout
<1>5. CASE Inventory \/ Payments \/ Exchanges \/ Faults \/ UNCHANGED vars
  BY <1>5 DEF Inventory, Payments, Exchanges, Faults, vars, JobFault,
              LookupFails, TickDies
<1> QED
  BY <1>2, <1>3, <1>4, <1>5 DEF Next

(* As long as no reservation outlasts its timeout, an order fails only     *)
(* because it was refused, and it is refused only if it was not promised   *)
(* anything: that a FAILED order is owed its units is the doing of the     *)
(* sweep, of no other party.                                               *)
THEOREM FailedOnlyIfRefused == Spec => []FailedWasRefused
<1>1. CASE "RESERVING_INVENTORY" \in SlowSteps
  <2>1. FailedWasRefused
    BY <1>1 DEF FailedWasRefused
  <2> QED
    BY <2>1, PTL
<1>2. CASE "RESERVING_INVENTORY" \notin SlowSteps
  <2>1. Init => FailedInv
    BY DEF Init, OrchestratorInit, FailedInv
  <2>2. TypeOK /\ SweepInv /\ FailedInv /\ [Next]_vars => FailedInv'
    <3> SUFFICES ASSUME TypeOK, SweepInv, FailedInv, [Next]_vars,
                        NEW c \in Saga, wf'[c] = "FAILED"
                 PROVE  Has(c, "INVENTORY_FAILED")'
      BY DEF FailedInv
    <3>1. Has(c, "INVENTORY_FAILED")
      BY <1>2, Fails DEF FailedInv
    <3> QED
      BY <3>1, HasLasts, MessageNames
  <2>3. FailedInv /\ OnceInv => FailedWasRefused
    BY DEF FailedInv, OnceInv, FailedWasRefused, Has
  <2> QED
    BY <2>1, <2>2, <2>3, TypeCorrect, SweepInvariant, OnceInvariant, PTL
       DEF Spec
<1> QED
  BY <1>1, <1>2
=============================================================================
