------------------------------- MODULE MCRing -------------------------------
(***************************************************************************)
(* Instances of Ring for TLC: the API, which only relays, and one service, *)
(* which relays and consumes with a prefetch of all the slots.             *)
(***************************************************************************)
EXTENDS RingClaims, TLC

CONSTANTS Api, Service

OnService == [k \in Slot |-> Service]

Interchangeable == Permutations(Row) \cup Permutations(Slot)
=============================================================================
