----------------------------- MODULE RingClaims -----------------------------
(***************************************************************************)
(* What the documentation promises of the relay and Ring does not keep.    *)
(***************************************************************************)
EXTENDS Ring

(* "the relay retries until the broker confirms" (README.md:153): a row    *)
(* that was written is published in the end.                               *)
RetriesUntilConfirmed ==
  \A r \in Row : status[r] = "PENDING" ~> status[r] = "PROCESSED"
=============================================================================
