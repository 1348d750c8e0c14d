--------------------------- MODULE CheckoutContract ---------------------------
(***************************************************************************)
(* What a checkout promises, whoever carries it out: three facts about an  *)
(* order (how far it is, its stock, its money) and the order in which they *)
(* may come true.  Saga implements it.  Two freedoms are there because the *)
(* code has them: stock may still be taken for an order that was refused,  *)
(* and an order that is undone may still be charged (see SagaClaims).      *)
(***************************************************************************)
CONSTANT Order

VARIABLES
  progress,   \* of each order
  stock,      \* "none", "held" or "returned"
  charged     \* orders the provider has approved a charge for

contractVars == <<progress, stock, charged>>

Init ==
  /\ progress = [c \in Order |-> "none"]
  /\ stock = [c \in Order |-> "none"]
  /\ charged = {}

Moves(c, from, to) ==
  /\ progress[c] = from /\ progress'[c] = to
  /\ stock'[c] = stock[c]
  /\ c \in charged' <=> c \in charged

StockMoves(c, from, to) ==
  /\ stock[c] = from /\ stock'[c] = to
  /\ progress'[c] = progress[c]
  /\ c \in charged' <=> c \in charged

Begin(c) == Moves(c, "none", "open")

Hold(c) == progress[c] \in {"open", "refused"} /\ StockMoves(c, "none", "held")

Refuse(c) == Moves(c, "open", "refused")

AskForMoney(c) == stock[c] = "held" /\ Moves(c, "open", "paying")

Charge(c) ==
  /\ progress[c] \in {"paying", "undoing", "undone", "stuck"}
  /\ c \notin charged /\ c \in charged'
  /\ progress'[c] = progress[c]
  /\ stock'[c] = stock[c]

SendReceipt(c) ==
  /\ c \in charged /\ stock[c] = "held"
  /\ Moves(c, "paying", "paid")

Finish(c) == Moves(c, "paid", "done")

Undo(c) == stock[c] = "held" /\ Moves(c, "paying", "undoing")

Return(c) ==
  /\ progress[c] \in {"undoing", "stuck"}
  /\ StockMoves(c, "held", "returned")

Close(c) == stock[c] = "returned" /\ Moves(c, "undoing", "undone")

CallForHelp(c) == Moves(c, "undoing", "stuck")

Rest(c) ==
  /\ progress'[c] = progress[c]
  /\ stock'[c] = stock[c]
  /\ c \in charged' <=> c \in charged

Step(c) ==
  \/ Rest(c)
  \/ Begin(c) \/ Hold(c) \/ Refuse(c)
  \/ AskForMoney(c) \/ Charge(c) \/ SendReceipt(c) \/ Finish(c)
  \/ Undo(c) \/ Return(c) \/ Close(c) \/ CallForHelp(c)

(* Orders do not wait for each other. *)
Next == \A c \in Order : Step(c)

Spec == Init /\ [][Next]_contractVars
=============================================================================
