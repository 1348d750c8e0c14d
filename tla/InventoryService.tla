-------------------------- MODULE InventoryService --------------------------
(***************************************************************************)
(* src/services/inventoryService.js: RESERVE_INVENTORY and its             *)
(* compensation RELEASE_INVENTORY over the tables inventory and            *)
(* reservations.  Each handler is one transaction.                         *)
(*                                                                         *)
(* An order's lines are given as running totals: Demand[c][k][s] is the    *)
(* quantity of SKU s in the first k lines of order c, so line k finds its  *)
(* stock, after the k-1 lines before it, exactly when Demand[c][k] fits.   *)
(* POST /checkout does not look at the items and normalizeItems only       *)
(* converts them, so a quantity is any integer, a negative one included.   *)
(* A line of an SKU that has no row is a positive quantity of one whose    *)
(* stock is 0 (refused); a quantity PostgreSQL cannot read as an INT is -1 *)
(* of such an SKU (the UPDATE throws).                                     *)
(***************************************************************************)
EXTENDS Integers, Sequences, FiniteSetsExt, Bus

CONSTANTS
  SKU,
  Stock,            \* the seeded column `available`
  Demand,
  ReleaseCanFail    \* INVENTORY_FAIL_RELEASE, or a database that keeps failing

LineCount(c) == Len(Demand[c])

(* What the first k lines of the order take from s.                        *)
Taken(c, k, s) == IF k = 0 THEN 0 ELSE Demand[c][k][s]

(* A line names one SKU, and an order has one line at least.               *)
ASSUME InventoryAssumption ==
  /\ Stock \in [SKU -> Nat]
  /\ Demand \in [Saga -> Seq([SKU -> Int])]
  /\ \A c \in Saga :
       /\ LineCount(c) > 0
       /\ \A k \in 1..LineCount(c) : \E s \in SKU : \A u \in SKU \ {s} :
            Taken(c, k, u) = Taken(c, k - 1, u)
  /\ ReleaseCanFail \in BOOLEAN

VARIABLES
  available,
  reserved,
  reservation     \* status of the row of each saga, "NONE" when absent

stockVars == <<available, reserved, reservation>>

InventoryTypeOK ==
  /\ available \in [SKU -> Nat]
  /\ reserved \in [SKU -> Nat]
  /\ reservation \in [Saga -> {"NONE", "RESERVED", "RELEASED"}]

InventoryInit ==
  /\ available = Stock
  /\ reserved = [s \in SKU |-> 0]
  /\ reservation = [c \in Saga |-> "NONE"]

(* The WHERE clause of line k: available >= $1.                            *)
Fits(c, k) == \A s \in SKU : Taken(c, k, s) <= available[s]

(* The table's CHECK (reserved >= 0), which line k may break.              *)
Allowed(c, k) == \A s \in SKU : reserved[s] + Taken(c, k, s) >= 0

Through(c, k) == \A j \in 1..k : Fits(c, j) /\ Allowed(c, j)

\* mutant: an UPDATE without "AND available >= $1"
LinesDoneUnchecked(c, k) == k = LineCount(c)

(* The loop of reserve() stops at the first line without stock and returns *)
(* { ok: false }; nothing throws, so withInbox commits and the k lines     *)
(* before it stay decremented under a row marked RESERVED.                 *)
LinesDone(c, k) ==
  /\ Through(c, k)
  /\ k < LineCount(c) => ~ Fits(c, k + 1)

TakeLines(c, k) ==
  /\ available' = [s \in SKU |-> available[s] - Taken(c, k, s)]
  /\ reserved' = [s \in SKU |-> reserved[s] + Taken(c, k, s)]

Reserve(r) ==
  LET c == r.corr IN
  /\ r.type = "RESERVE_INVENTORY"
  /\ WithInbox(r)
  /\ IF reservation[c] # "NONE"
       THEN /\ Enqueue(c, "INVENTORY_RESERVED")
            /\ UNCHANGED stockVars
       ELSE /\ reservation' = [reservation EXCEPT ![c] = "RESERVED"]
            /\ \E k \in 0..LineCount(c) :
                 /\ LinesDone(c, k)
                 /\ TakeLines(c, k)
                 /\ Enqueue(c, IF k = LineCount(c) THEN "INVENTORY_RESERVED"
                                                   ELSE "INVENTORY_FAILED")

(* A line the table does not allow: the UPDATE throws, withInbox rolls the *)
(* lines before it and the claim back, and as the error is no              *)
(* TransientError the message is parked at once.                           *)
ReserveAborts(r) ==
  LET c == r.corr IN
  /\ r.type = "RESERVE_INVENTORY"
  /\ Deliverable(r)
  /\ reservation[c] = "NONE"
  /\ \E k \in 1..LineCount(c) :
       Through(c, k - 1) /\ Fits(c, k) /\ ~ Allowed(c, k)
  /\ retired' = retired \cup {r}
  /\ UNCHANGED <<outbox, inbox, faults, stockVars>>

\* mutant: the WHERE clause forgets the status
MayReleaseTwice(c) == reservation[c] # "NONE"

(* The UPDATE's WHERE clause: only a row still RESERVED is released.       *)
MayRelease(c) == reservation[c] = "RESERVED"


(* What GREATEST(reserved - $1, 0), line after line, cuts off: by so much  *)
(* the units given back exceed the units found set aside.                  *)
CutOff(c, s) ==
  Max({0} \cup {Taken(c, k, s) - reserved[s] : k \in 1..LineCount(c)})

\* mutant: the stock set aside is never taken down
CreditLinesTwice(c) ==
  /\ reservation' = [reservation EXCEPT ![c] = "RELEASED"]
  /\ available' = [s \in SKU |-> available[s] + Taken(c, LineCount(c), s)]
  /\ UNCHANGED reserved

CreditLines(c) ==
  /\ reservation' = [reservation EXCEPT ![c] = "RELEASED"]
  /\ available' = [s \in SKU |-> available[s] + Taken(c, LineCount(c), s)]
  /\ reserved' =
       [s \in SKU |-> reserved[s] - Taken(c, LineCount(c), s) + CutOff(c, s)]

(* The table's CHECK (available >= 0), which a line may break.             *)
Creditable(c) ==
  \A k \in 1..LineCount(c), s \in SKU : available[s] + Taken(c, k, s) >= 0

Release(r) ==
  /\ r.type = "RELEASE_INVENTORY"
  /\ WithInbox(r)
  /\ Enqueue(r.corr, "INVENTORY_RELEASED")
  /\ IF MayRelease(r.corr)
       THEN Creditable(r.corr) /\ CreditLines(r.corr)
       ELSE UNCHANGED stockVars

(* release() throws.                                                       *)
ReleaseThrows(c) ==
  ReleaseCanFail \/ (MayRelease(c) /\ ~ Creditable(c))

\* mutant: the catch block reports success
ReleaseFailsQuietly(r) ==
  /\ ReleaseThrows(r.corr)
  /\ r.type = "RELEASE_INVENTORY"
  /\ Deliverable(r)
  /\ Enqueue(r.corr, "INVENTORY_RELEASED")
  /\ UNCHANGED <<inbox, stockVars>>

(* Every delivery of the row failed and rolled back its claim; the last    *)
(* one, past maxRetries, reports the failure in a transaction of its own   *)
(* and the message is acked.                                               *)
ReleaseFails(r) ==
  /\ ReleaseThrows(r.corr)
  /\ r.type = "RELEASE_INVENTORY"
  /\ Deliverable(r)
  /\ Enqueue(r.corr, "INVENTORY_RELEASE_FAILED")
  /\ UNCHANGED <<inbox, stockVars>>

ReleaseExhausted(r) ==
  /\ ReleaseFails(r)
  /\ retired' = retired \cup {r}
  /\ UNCHANGED faults

(* The same, and the service dies before the ack: the broker delivers the  *)
(* row again, still unclaimed.                                             *)
ReleaseExhaustedUnacked(r) ==
  /\ ReleaseFails(r)
  /\ Fault("crash")
  /\ UNCHANGED retired

InventoryStep ==
  \E r \in outbox :
    Reserve(r) \/ ReserveAborts(r) \/ Release(r) \/ ReleaseExhausted(r)

InventoryFault == \E r \in outbox : ReleaseExhaustedUnacked(r)
=============================================================================
