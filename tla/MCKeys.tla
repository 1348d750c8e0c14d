------------------------------- MODULE MCKeys -------------------------------
(***************************************************************************)
(* Requests for TLC: a client that repeats its request under one key, from *)
(* the second time on with a correlation id of its own, reuses the key for *)
(* another order, and under another key corrects a body that was refused,  *)
(* with the correlation id of the repetitions.                             *)
(***************************************************************************)
EXTENDS IdempotencyClaims, TLC

CONSTANTS a1, a2, a3, b1, c1, c2, k1, k2, order, other, refused, t

Keyed == [r \in Request |-> IF r \in {c1, c2} THEN k2 ELSE k1]
Sent ==
  [r \in Request |-> CASE r = b1 -> other
                        [] r = c1 -> refused
                        [] OTHER -> order]
Traced == [r \in Request |-> IF r \in {a2, a3, c2} THEN t ELSE r]
OwnTrace == [r \in Request |-> r]

Repeats == Permutations({a2, a3})
=============================================================================
