------------------------------- MODULE MCSaga -------------------------------
(***************************************************************************)
(* Instances of Saga for TLC: the values a cfg cannot write down.  Orders  *)
(* here have one line of one unit and differ in nothing, and neither do    *)
(* the slots; see MCStock for orders that compete.                         *)
(***************************************************************************)
EXTENDS SagaClaims, TLC

CONSTANTS ProviderModes, StockOfEach

GivenModes == [c \in Saga |-> ProviderModes]
GivenStock == [s \in SKU |-> StockOfEach]
OneLine == [c \in Saga |-> <<[s \in SKU |-> 1]>>]

SlotSymmetry == Permutations(Slot)
=============================================================================
