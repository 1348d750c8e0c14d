------------------------------ MODULE Delivery ------------------------------
(***************************************************************************)
(* What the message ring promises its users, as the headers of             *)
(* src/outbox.js and src/inbox.js state it: a message is written with the  *)
(* change it announces, acts at most once, and is let go of without having *)
(* acted only for good.  Ring implements it.                               *)
(***************************************************************************)
VARIABLES
  written,    \* messages committed to the outbox
  acted,      \* messages whose business transaction committed
  lost        \* messages that will not be handled any more

deliveryVars == <<written, acted, lost>>

Open == written \ (acted \cup lost)

Init ==
  /\ written = {}
  /\ acted = {}
  /\ lost = {}

(* Any transaction may announce something, also the ones below. *)
Announce == written \subseteq written'

Write ==
  /\ Announce
  /\ UNCHANGED <<acted, lost>>

(* The handler's transaction: one open message acts. *)
Act ==
  /\ Announce
  /\ \E r \in Open : acted' = acted \cup {r}
  /\ UNCHANGED lost

(* Some open messages are given up. *)
Lose ==
  /\ Announce
  /\ lost \subseteq lost'
  /\ lost' \ lost \subseteq Open
  /\ UNCHANGED acted

Next == Write \/ Act \/ Lose

Spec == Init /\ [][Next]_deliveryVars

(* Nothing stays on its way for ever. *)
Settled(r) == r \in acted \cup lost
=============================================================================
