----------------------------- MODULE SagaClaims -----------------------------
(***************************************************************************)
(* What comments of the source promise and Saga does not keep.  Each is    *)
(* refuted by a run of its own on the smallest instance that shows it.     *)
(***************************************************************************)
EXTENDS Saga

(* "the surrounding transaction rolls back the lines already decremented"  *)
(* (inventoryService.js:69): an order told INVENTORY_FAILED took nothing.  *)
RefusedTookNothing ==
  \A c \in Saga : Sent(c, "INVENTORY_FAILED") # {} => ~ Holds(c)

(* "overselling is impossible because the decrement only applies if the    *)
(* stock is actually there" (inventoryService.js:58): the orders holding a *)
(* full reservation were not promised more units than there are.           *)
NeverOversold == \A s \in SKU : Cardinality(Promised(s)) <= Stock[s]

(* "Authoritative ... safe to treat as not charged" (mockProvider.js:102): *)
(* a saga that was undone was not charged.                                 *)
UndoneIsUncharged ==
  \A c \in Saga : wf[c] = "COMPENSATED" => ledger[c] # "APPROVED"

(* "UNKNOWN is not terminal: the reconciler picks it up and resolves it"   *)
(* (stateMachine.js:28).                                                   *)
UnknownIsResolved ==
  \A c \in Saga : payment[c] = "UNKNOWN" ~> payment[c] \in TerminalPaymentStates
=============================================================================
