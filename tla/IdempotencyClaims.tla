-------------------------- MODULE IdempotencyClaims --------------------------
(***************************************************************************)
(* What a comment promises of the idempotency key and Idempotency does not *)
(* keep.                                                                   *)
(***************************************************************************)
EXTENDS Idempotency

(* "Concurrent duplicates race on the primary key, so exactly one wins"    *)
(* (idempotency.js:33), and "completed -> replay the stored response byte  *)
(* for byte" (:12): all who are told 202 under one key are told of the     *)
(* same saga.                                                              *)
CompletedReplays ==
  \A r, s \in Request :
    /\ KeyOf[r] = KeyOf[s]
    /\ answer[r].code = 202
    /\ answer[s].code = 202
    => answer[r].trace = answer[s].trace
=============================================================================
