--------------------------- MODULE RecoveryProofs ---------------------------
(***************************************************************************)
(* What the recovery of Saga keeps within bounds and in hand, for any      *)
(* number of sagas and slots and any limits: releases are re-issued a      *)
(* bounded number of times; a payment is not left RECONCILING unless a     *)
(* tick is cut short; and it is not dropped unless a message or a channel  *)
(* is lost.                                                                *)
(***************************************************************************)
EXTENDS CheckoutProofs

-----------------------------------------------------------------------------
(* Re-issued releases. *)

(* The attempts a candidate was read with are still those of its saga: the *)
(* job that counts them is the only one that does.                         *)
CountInv ==
  /\ \A c \in Saga :
       /\ compAttempts[c] <= MaxCompensationAttempts
       /\ Cardinality(Sent(c, "RELEASE_INVENTORY")) <= compAttempts[c] + 1
  /\ task = "compensate" =>
       \A x \in batch : /\ x.seen = "COMPENSATING_INVENTORY"
                        /\ x.attempts = compAttempts[x.corr]

(* Attempts are counted by a re-issue, and by nothing else. *)
LEMMA AttemptsMove ==
  ASSUME [Next]_vars
  PROVE  \/ UNCHANGED compAttempts
         \/ \E x \in batch : RetryCompensation(x)
<1>1. CASE Recovery
  BY <1>1 DEF Recovery, JobStep, SelectUnknown, ClaimUnknown, Lookup, Resolve,
              SelectStuck, Sweep, MarkPaymentUnknown, SelectCompensating,
              Select, GiveUp
<1>2. CASE ~ Recovery
  BY <1>2 DEF Next, API, Orchestration, Inventory, Payments, Exchanges, Faults,
              JobFault, LookupFails, TickDies, vars
<1> QED
  BY <1>1, <1>2

(* A re-issue counts one attempt of its saga and takes its candidate off.  *)
LEMMA Reissue ==
  ASSUME TypeOK, NEW x \in batch, RetryCompensation(x)
  PROVE  /\ task = "compensate" /\ UNCHANGED wf
         /\ batch' = batch \ {x}
         /\ x.attempts < MaxCompensationAttempts
         /\ x.corr \in Saga
         /\ compAttempts'[x.corr] = compAttempts[x.corr] + 1
         /\ \A c \in Saga \ {x.corr} : compAttempts'[c] = compAttempts[c]
<1>1. x \in Candidate /\ compAttempts \in [Saga -> Nat]
  BY DEF TypeOK, ReconcilerTypeOK
<1> QED
  BY <1>1 DEF RetryCompensation, Handled, AttemptsLeft, Candidate

(* A row more is one row more. *)
LEMMA OneMore ==
  ASSUME TypeOK, NEW c, NEW t, Added(c, t)
  PROVE  /\ Cardinality(Sent(c, t)) \in Nat
         /\ Cardinality(Sent(c, t)') <= Cardinality(Sent(c, t)) + 1
<1>1. IsFiniteSet(Sent(c, t))
  BY FS_Subset DEF TypeOK, BusTypeOK, Sent
<1>2. Cardinality(Sent(c, t)) \in Nat
  BY <1>1, FS_CardinalityType
<1>3. PICK row : Sent(c, t)' = Sent(c, t) \cup {row}
  BY DEF Added
<1>4. \/ Cardinality(Sent(c, t)') = Cardinality(Sent(c, t))
      \/ Cardinality(Sent(c, t)') = Cardinality(Sent(c, t)) + 1
  BY <1>1, <1>3, FS_AddElement
<1> QED
  BY <1>2, <1>4

(* Both bounds, and what a candidate was read with, are kept. *)
LEMMA CountInvariant == Spec => []CountInv
<1>1. Init => CountInv
  <2> SUFFICES ASSUME Init, NEW c \in Saga
               PROVE  /\ compAttempts[c] <= MaxCompensationAttempts
                      /\ Cardinality(Sent(c, "RELEASE_INVENTORY"))
                           <= compAttempts[c] + 1
    BY DEF Init, ReconcilerInit, CountInv
  <2>1. Sent(c, "RELEASE_INVENTORY") = {}
    BY DEF Init, BusInit, Sent
  <2> QED
    BY <2>1, FS_EmptySet, ReconcilerAssumption DEF Init, ReconcilerInit
<1>2. TypeOK /\ UndoInv /\ CountInv /\ [Next]_vars => CountInv'
  <2> SUFFICES ASSUME TypeOK, UndoInv, CountInv, [Next]_vars
               PROVE  CountInv'
    OBVIOUS
  <2>1. compAttempts \in [Saga -> Nat] /\ MaxCompensationAttempts \in Nat
    BY ReconcilerAssumption DEF TypeOK, ReconcilerTypeOK
  <2>2. ASSUME NEW c \in Saga
        PROVE  /\ compAttempts'[c] \in Nat
               /\ compAttempts[c] <= compAttempts'[c]
               /\ compAttempts'[c] <= MaxCompensationAttempts
    <3>1. CASE UNCHANGED compAttempts
      BY <2>1, <3>1 DEF CountInv
    <3>2. ASSUME NEW x \in batch, RetryCompensation(x)
          PROVE  /\ compAttempts'[c] \in Nat
                 /\ compAttempts[c] <= compAttempts'[c]
                 /\ compAttempts'[c] <= MaxCompensationAttempts
      <4>1. x.attempts = compAttempts[x.corr]
        BY <3>2, Reissue DEF CountInv
      <4> QED
        BY <2>1, <3>2, <4>1, Reissue DEF CountInv
    <3> QED
      BY <3>1, <3>2, AttemptsMove
  <2>3. ASSUME NEW c \in Saga
        PROVE  Cardinality(Sent(c, "RELEASE_INVENTORY")') <= compAttempts'[c] + 1
    <3> DEFINE rows == Sent(c, "RELEASE_INVENTORY")
    <3>1. SentMove(c, "RELEASE_INVENTORY")
      BY SentMoves, MessageNames
    <3>2. IsFiniteSet(rows) /\ Cardinality(rows) \in Nat
      BY FS_Subset, FS_CardinalityType DEF TypeOK, BusTypeOK, Sent
    <3>3. Cardinality(rows) <= compAttempts[c] + 1
      BY DEF CountInv
    <3>4. CASE rows' = rows
      BY <2>1, <2>2, <3>2, <3>3, <3>4
    <3>5. CASE Added(c, "RELEASE_INVENTORY") /\ Cause(c, "RELEASE_INVENTORY")
      <4>1. Cardinality(rows') <= Cardinality(rows) + 1
        BY <3>5, OneMore
      <4>2. Cardinality(rows') \in Nat
        <5>1. PICK row : rows' = rows \cup {row}
          BY <3>5 DEF Added
        <5>2. IsFiniteSet(rows')
          BY <3>2, <5>1, FS_AddElement
        <5> QED
          BY <5>2, FS_CardinalityType
      <4>3. CASE wf[c] \in {"PROCESSING_PAYMENT", "AWAITING_RECONCILIATION"}
        <5>1. rows = {}
          BY <4>3 DEF UndoInv, Undoing, Has
        <5>2. Cardinality(rows) = 0
          BY <5>1, FS_EmptySet
        <5> QED
          BY <2>2, <4>1, <4>2, <5>2
      <4>4. CASE \E x \in batch : x.corr = c /\ RetryCompensation(x)
        <5>1. compAttempts'[c] = compAttempts[c] + 1
          BY <4>4, Reissue
        <5> QED
          BY <2>1, <3>2, <3>3, <4>1, <4>2, <5>1
      <4> QED
        BY <3>5, <4>3, <4>4 DEF Cause
    <3> QED
      BY <3>1, <3>4, <3>5 DEF SentMove
  <2>4. ASSUME task' = "compensate", NEW x \in batch'
        PROVE  /\ x.seen = "COMPENSATING_INVENTORY"
               /\ x.attempts = compAttempts'[x.corr]
    <3>1. CASE task = "compensate" /\ x \in batch
      <4>1. /\ x.seen = "COMPENSATING_INVENTORY"
            /\ x.attempts = compAttempts[x.corr]
        BY <3>1 DEF CountInv
      <4>2. ASSUME NEW y \in batch, RetryCompensation(y)
            PROVE  x.corr # y.corr
        <5>1. x \in Candidate /\ y \in Candidate
          BY <3>1 DEF TypeOK, ReconcilerTypeOK
        <5>2. /\ y.seen = "COMPENSATING_INVENTORY"
              /\ y.attempts = compAttempts[y.corr]
          BY <4>2, Reissue DEF CountInv
        <5>3. x # y
          BY <2>4, <4>2, Reissue
        <5> QED
          BY <4>1, <5>1, <5>2, <5>3 DEF Candidate
      <4>3. x.corr \in Saga
        BY <3>1 DEF TypeOK, ReconcilerTypeOK, Candidate
      <4> QED
        BY <4>1, <4>2, <4>3, AttemptsMove, Reissue
    <3>2. CASE ~ (task = "compensate" /\ x \in batch)
      BY <2>4, <3>2, BatchMoves
    <3> QED
      BY <3>1, <3>2
  <2> QED
    BY <2>2, <2>3, <2>4 DEF CountInv
<1> QED
  BY <1>1, <1>2, TypeCorrect, UndoInvariant, PTL DEF Spec

(* The release of an order is re-issued at most MaxCompensationAttempts    *)
(* times (reconciler.js:235), whatever failed, crashed or was repeated.    *)
THEOREM ReleasesAreBounded == Spec => []ReleasesBounded
<1>1. TypeOK /\ CountInv => ReleasesBounded
  <2> SUFFICES ASSUME TypeOK, CountInv, NEW c \in Saga
               PROVE  Cardinality(Sent(c, "RELEASE_INVENTORY"))
                        <= MaxCompensationAttempts + 1
    BY DEF ReleasesBounded
  <2>1. IsFiniteSet(Sent(c, "RELEASE_INVENTORY"))
    BY FS_Subset DEF TypeOK, BusTypeOK, Sent
  <2>2. /\ Cardinality(Sent(c, "RELEASE_INVENTORY")) \in Nat
        /\ compAttempts[c] \in Nat /\ MaxCompensationAttempts \in Nat
    BY <2>1, FS_CardinalityType, ReconcilerAssumption
       DEF TypeOK, ReconcilerTypeOK
  <2> QED
    BY <2>2 DEF CountInv
<1> QED
  BY <1>1, CountInvariant, TypeCorrect, PTL

-----------------------------------------------------------------------------
(* Reconciliations. *)

AtWork(c) == subject = c /\ task \in {"lookup", "charged", "uncharged"}

(* A payment becomes RECONCILING only when the loop takes it up. *)
LEMMA TakenUp ==
  ASSUME TypeOK, [Next]_vars, NEW c \in Saga,
         payment[c] # "RECONCILING", payment'[c] = "RECONCILING"
  PROVE  AtWork(c)'
<1>1. payment \in [Saga -> PaymentStates \cup {"NONE"}]
  BY PaymentTypes DEF TypeOK
<1> USE TransitionMoves
<1>2. CASE Recovery
  <2>1. ASSUME NEW x \in batch, ClaimUnknown(x)
        PROVE  AtWork(c)'
    <3>1. c = x.corr /\ payment[x.corr] = "UNKNOWN"
      BY <1>1, <2>1 DEF ClaimUnknown
    <3> QED
      BY <2>1, <3>1 DEF ClaimUnknown, Continue, AtWork
  <2>2. ASSUME Resolve \/ MarkPaymentUnknown
        PROVE  FALSE
    BY <1>1, <2>2 DEF Resolve, MarkPaymentUnknown
  <2> QED
    BY <1>2, <2>1, <2>2
       DEF Recovery, JobStep, SelectUnknown, Lookup, SelectStuck, Sweep,
           SelectCompensating, GiveUp, RetryCompensation
<1>3. CASE Payments
  <2>1. ASSUME NEW k \in Slot, HandlerStep(k)
        PROVE  FALSE
    BY <1>1, <2>1 DEF HandlerStep, FinishApproved, FinishUnknown, FinishFailed,
                      Finalize, RollBack, Ack
  <2>2. ASSUME NEW k \in Slot, NEW d \in Saga, NEW a \in Attempts,
               DeliverFinished(k, d, a) \/ DeliverUnknown(k, d, a)
                 \/ DeliverCharge(k, d, a)
        PROVE  FALSE
    BY <1>1, <2>2 DEF DeliverFinished, DeliverUnknown, DeliverCharge
  <2> QED
    BY <1>3, <2>1, <2>2 DEF Payments, WorkerStep, DeliverStep, RelayStep,
                            PublishOnce, Publish
<1>4. CASE Faults
  <2>1. ASSUME LookupFails
        PROVE  FALSE
    BY <1>1, <2>1 DEF LookupFails
  <2> QED
    BY <1>4, <2>1 DEF Faults, JobFault, TickDies, WorkerFault, Publish,
                      PublishUncommitted, WorkerCrash, ChannelLost,
                      CommitParked, ClaimParked, paymentVars
<1>5. CASE API \/ Orchestration \/ Inventory \/ Exchanges \/ UNCHANGED vars
  BY <1>5 DEF API, Orchestration, Inventory, Exchanges, vars, paymentVars
<1> QED
  BY <1>2, <1>3, <1>4, <1>5 DEF Next

(* The loop puts a reconciliation down only with the payment moved on, or  *)
(* when its tick dies.                                                     *)
LEMMA PutDown ==
  ASSUME TypeOK, [Next]_vars, NEW c \in Saga, AtWork(c),
         payment[c] = "RECONCILING", payment'[c] = "RECONCILING",
         "tick" \notin FaultKinds
  PROVE  AtWork(c)'
<1>1. payment \in [Saga -> PaymentStates \cup {"NONE"}]
  BY PaymentTypes DEF TypeOK
<1>2. CASE Recovery
  <2>1. CASE Lookup
    BY <2>1 DEF Lookup, AtWork
  <2>2. ASSUME Resolve
        PROVE  FALSE
    BY <1>1, <2>2 DEF Resolve, Transition, AtWork
  <2> QED
    BY <1>2, <2>1, <2>2
       DEF Recovery, JobStep, SelectUnknown, SelectStuck, SelectCompensating,
           Select, ClaimUnknown, Sweep, MarkPaymentUnknown, GiveUp,
           RetryCompensation, AtWork
<1>3. CASE Faults
  <2>1. ASSUME LookupFails
        PROVE  FALSE
    BY <1>1, <2>1 DEF LookupFails, Transition, AtWork
  <2>2. ASSUME TickDies
        PROVE  FALSE
    BY <2>2 DEF TickDies, Fault
  <2> QED
    BY <1>3, <2>1, <2>2 DEF Faults, JobFault, jobVars, AtWork
<1>4. CASE ~ Recovery /\ ~ Faults
  BY <1>4 DEF Next, API, Orchestration, Inventory, Payments, Exchanges, vars,
              jobVars, AtWork
<1> QED
  BY <1>2, <1>3, <1>4

(* As long as no tick is cut short, no payment is left RECONCILING.        *)
THEOREM NoneLeftReconciling ==
  ASSUME "tick" \notin FaultKinds
  PROVE  Spec => []ReconcilingIsClaimed
<1>1. Init => ReconcilingIsClaimed
  BY DEF Init, PaymentInit, ReconcilingIsClaimed
<1>2. TypeOK /\ ReconcilingIsClaimed /\ [Next]_vars => ReconcilingIsClaimed'
  <2> SUFFICES ASSUME TypeOK, ReconcilingIsClaimed, [Next]_vars,
                      NEW c \in Saga, payment'[c] = "RECONCILING"
               PROVE  AtWork(c)'
    BY DEF ReconcilingIsClaimed, AtWork
  <2>1. CASE payment[c] = "RECONCILING"
    <3>1. AtWork(c)
      BY <2>1 DEF ReconcilingIsClaimed, AtWork
    <3> QED
      BY <2>1, <3>1, PutDown
  <2>2. CASE payment[c] # "RECONCILING"
    BY <2>2, TakenUp
  <2> QED
    BY <2>1, <2>2
<1> QED
  BY <1>1, <1>2, TypeCorrect, PTL DEF Spec

-----------------------------------------------------------------------------
(* Payments in hand. *)

(* A delivery between its claim of the payment and its verdict. *)
Alive(k, c) ==
  call[k].corr = c /\ call[k].client \in {"charging"} \cup Outcomes

Retrying(k, c) == call[k].corr = c /\ call[k].client = "retrying"

(* The command will be delivered again. *)
Again(c) ==
  \/ \E r \in Sent(c, "PROCESS_PAYMENT") : Deliverable(r)
  \/ \E a \in Attempts : copies[c][a] > 0
  \/ \E k \in Slot : Retrying(k, c)

(* While no channel is lost every handler owns its delivery, and it is     *)
(* retried only while attempts are left.                                   *)
SlotInv ==
  \A k \in Slot :
    /\ call[k].client # "idle" => call[k].owned
    /\ call[k].client = "retrying" => call[k].attempt <= MaxRetries

(* While a payment is PROCESSING a delivery may be all there is of its     *)
(* command; before and after that it is not enough.                        *)
HandInv ==
  \A c \in Saga : Has(c, "PROCESS_PAYMENT") =>
    /\ payment[c] \in {"NONE", "CREATED"} => Again(c)
    /\ payment[c] = "PROCESSING" => Again(c) \/ \E k \in Slot : Alive(k, c)

NothingDropped == FaultKinds \cap {"park", "channel"} = {}

(* A step that sets the sides of a slot leaves the rest of it, and every   *)
(* other slot, alone; a slot both of whose sides have ended is idle.       *)
LEMMA SidesSet ==
  ASSUME CallTypeOK, NEW k \in Slot, NEW client, NEW server,
         SetSides(k, client, server)
  PROVE  /\ \A j \in Slot \ {k} : call'[j] = call[j]
         /\ call'[k].client = client
         /\ client # "idle" => /\ call'[k].corr = call[k].corr
                               /\ call'[k].attempt = call[k].attempt
                               /\ call'[k].owned = call[k].owned
<1> DEFINE x == [call[k] EXCEPT !.client = client, !.server = server]
           y == IF client = "idle" /\ server = "none" THEN NoCall ELSE x
<1>1. call' = [call EXCEPT ![k] = y] /\ call \in [Slot -> Call]
  BY DEF SetSides, CallTypeOK
<1>2. /\ x.client = client /\ x.corr = call[k].corr
      /\ x.attempt = call[k].attempt /\ x.owned = call[k].owned
  BY <1>1 DEF Call
<1>3. y = x \/ (client = "idle" /\ y = NoCall)
  OBVIOUS
<1>4. NoCall.client = "idle"
  BY DEF NoCall
<1> HIDE DEF x, y
<1> QED
  BY <1>1, <1>2, <1>3, <1>4

(* What a step may do to a slot. *)
Kept(k) ==
  /\ call'[k].corr = call[k].corr
  /\ call'[k].attempt = call[k].attempt
  /\ call'[k].owned = call[k].owned

SlotMove(k) ==
  \/ /\ call'[k].client = call[k].client
     /\ Kept(k) \/ call[k].client = "idle"
  \/ /\ Kept(k) /\ call[k].client = "charging"
     /\ call'[k].client \in Outcomes
  \/ FinishApproved(k) \/ FinishUnknown(k) \/ FinishFailed(k)
  \/ RollBack(k) \/ Ack(k) \/ WorkerCrash(k)
  \/ \E c \in Saga, a \in Attempts :
       DeliverFinished(k, c, a) \/ DeliverUnknown(k, c, a)
         \/ DeliverCharge(k, c, a)

(* The provider answers a delivery that waits for it, and no other. *)
LEMMA ReplyMove ==
  ASSUME CallTypeOK, NEW k \in Slot, NEW o \in Outcomes \cup {"none"},
         call[k].server # "none", Reply(k, o), NEW j \in Slot
  PROVE  SlotMove(j)
<1> DEFINE y == IF call[k].client = "charging" /\ o # "none"
                  THEN o ELSE call[k].client
<1>1. SetSides(k, y, "none")
  BY DEF Reply
<1>2. y = call[k].client \/ (call[k].client = "charging" /\ y \in Outcomes)
  OBVIOUS
<1> HIDE DEF y
<1>3. CASE j # k
  BY <1>1, <1>3, SidesSet DEF SlotMove, Kept
<1>4. CASE j = k
  <2>1. CASE y # "idle"
    BY <1>1, <1>2, <1>4, <2>1, SidesSet DEF SlotMove, Kept
  <2>2. CASE y = "idle"
    BY <1>1, <1>2, <1>4, <2>2, SidesSet DEF SlotMove, Kept, Outcomes
  <2> QED
    BY <2>1, <2>2
<1> QED
  BY <1>3, <1>4

(* Every way a slot moves.  Messages that are parked and channels that are *)
(* lost would be others.                                                   *)
LEMMA SlotMoves ==
  ASSUME TypeOK, [Next]_vars, NothingDropped, NEW j \in Slot
  PROVE  SlotMove(j)
<1>1. CallTypeOK
  BY PaymentTypes DEF TypeOK
<1>2. ASSUME UNCHANGED call
      PROVE  SlotMove(j)
  BY <1>2 DEF SlotMove, Kept
<1>3. ASSUME NEW k \in Slot, k # j, NEW client, NEW server,
             SetSides(k, client, server)
      PROVE  SlotMove(j)
  BY <1>1, <1>3, SidesSet DEF SlotMove, Kept
<1>4. ASSUME NEW k \in Slot, k # j, NEW client, SetClient(k, client)
      PROVE  SlotMove(j)
  BY <1>3, <1>4 DEF SetClient
<1>5. CASE Payments
  <2>1. CASE RelayStep
    BY <1>2, <2>1 DEF RelayStep, PublishOnce, Publish
  <2>2. ASSUME NEW k \in Slot, NEW c \in Saga, NEW a \in Attempts,
               DeliverFinished(k, c, a) \/ DeliverUnknown(k, c, a)
                 \/ DeliverCharge(k, c, a)
        PROVE  SlotMove(j)
    <3>1. CASE k = j
      BY <2>2, <3>1 DEF SlotMove
    <3>2. CASE k # j
      <4>1. call'[j] = call[j]
        BY <1>1, <2>2, <3>2 DEF DeliverFinished, DeliverUnknown, DeliverCharge,
                                Deliver, CallTypeOK
      <4> QED
        BY <4>1 DEF SlotMove, Kept
    <3> QED
      BY <3>1, <3>2
  <2>3. ASSUME NEW k \in Slot, HandlerStep(k)
        PROVE  SlotMove(j)
    <3>1. CASE k = j
      BY <2>3, <3>1 DEF HandlerStep, SlotMove
    <3>2. CASE k # j
      BY <1>4, <2>3, <3>2
         DEF HandlerStep, FinishApproved, FinishUnknown, FinishFailed,
             Finalize, RollBack, Commit, Ack
    <3> QED
      BY <3>1, <3>2
  <2> QED
    BY <1>5, <2>1, <2>2, <2>3 DEF Payments, WorkerStep, DeliverStep
<1>6. CASE Exchanges
  <2>1. PICK k \in Slot : \/ ProviderServes(k)
                          \/ ClientTimeout(k) \/ ConnectionReset(k)
    BY <1>6 DEF Exchanges, ProviderStep
  <2>2. CASE ReplayCharge(k)
    <3>1. LedgerOutcome(call[k].corr) \in Outcomes
      BY DEF LedgerOutcome, Outcomes
    <3> QED
      BY <1>1, <2>2, <3>1, ReplyMove DEF ReplayCharge
  <2>3. CASE AcceptCharge(k)
    <3>1. /\ call' = [call EXCEPT ![k].server = "deciding"]
          /\ call \in [Slot -> Call]
      BY <1>1, <2>3 DEF AcceptCharge, CallTypeOK
    <3> QED
      BY <3>1 DEF Call, SlotMove, Kept
  <2>4. ASSUME NEW mode \in AllModes, DecideCharge(k, mode)
        PROVE  SlotMove(j)
    <3>1. Answer(mode) \in Outcomes \cup {"none"}
      BY DEF AllModes, Answer, Outcomes
    <3> QED
      BY <1>1, <2>4, <3>1, ReplyMove DEF DecideCharge
  <2>5. CASE ClientTimeout(k) \/ ConnectionReset(k)
    <3>1. PICK o \in {"unknown", "transient"} :
            SetSides(k, o, call[k].server) /\ call[k].client = "charging"
      BY <2>5 DEF ClientTimeout, ConnectionReset, SetClient
    <3>2. CASE k = j
      BY <1>1, <3>1, <3>2, SidesSet DEF SlotMove, Kept, Outcomes
    <3> QED
      BY <1>3, <3>1, <3>2
  <2> QED
    BY <2>1, <2>2, <2>3, <2>4, <2>5 DEF ProviderServes
<1>7. CASE Faults
  <2>1. ASSUME NEW k \in Slot, WorkerCrash(k)
        PROVE  SlotMove(j)
    <3>1. CASE k = j
      BY <2>1, <3>1 DEF SlotMove
    <3> QED
      BY <1>4, <2>1, <3>1 DEF WorkerCrash
  <2>2. ASSUME NEW k \in Slot, ChannelLost(k) \/ CommitParked(k)
        PROVE  FALSE
    BY <2>2 DEF ChannelLost, CommitParked, Fault, NothingDropped
  <2>3. CASE WorkerFault
    BY <1>2, <2>1, <2>2, <2>3
       DEF WorkerFault, PublishUncommitted, Publish, ClaimParked
  <2>4. ASSUME NEW k \in Slot, ConnectionRefused(k)
        PROVE  SlotMove(j)
    <3>1. /\ Reply(k, "transient") /\ call[k].server # "none"
          /\ "transient" \in Outcomes
      BY <2>4 DEF ConnectionRefused, Outcomes
    <3> QED
      BY <1>1, <3>1, ReplyMove
  <2>5. CASE UNCHANGED call
    BY <1>2, <2>5
  <2> QED
    BY <1>7, <2>3, <2>4, <2>5 DEF Faults, ProviderFault, paymentVars
<1>8. CASE API \/ Orchestration \/ Inventory \/ Recovery \/ UNCHANGED vars
  BY <1>2, <1>8 DEF API, Orchestration, Inventory, Recovery, vars, paymentVars
<1> QED
  BY <1>5, <1>6, <1>7, <1>8 DEF Next

(* A handler owns its delivery, and retries it only with attempts left. *)
LEMMA SlotInvariant ==
  ASSUME NothingDropped
  PROVE  Spec => []SlotInv
<1>1. Init => SlotInv
  BY DEF Init, PaymentInit, ProviderInit, NoCall, SlotInv
<1>2. TypeOK /\ SlotInv /\ [Next]_vars => SlotInv'
  <2> SUFFICES ASSUME TypeOK, SlotInv, [Next]_vars, NEW k \in Slot
               PROVE  /\ call'[k].client # "idle" => call'[k].owned
                      /\ call'[k].client = "retrying"
                           => call'[k].attempt <= MaxRetries
    BY DEF SlotInv
  <2>1. CallTypeOK
    BY PaymentTypes DEF TypeOK
  <2>2. SlotMove(k)
    BY SlotMoves
  <2>3. CASE /\ call'[k].client = call[k].client
             /\ Kept(k) \/ call[k].client = "idle"
    BY <2>3 DEF SlotInv, Kept
  <2>4. CASE /\ Kept(k) /\ call[k].client = "charging"
             /\ call'[k].client \in Outcomes
    BY <2>4 DEF SlotInv, Kept, Outcomes
  <2>5. CASE FinishApproved(k) \/ FinishUnknown(k) \/ FinishFailed(k)
    <3>1. SetSides(k, "acking", call[k].server) /\ call[k].client # "idle"
      BY <2>5 DEF FinishApproved, FinishUnknown, FinishFailed, Finalize,
                  Commit, SetClient
    <3> QED
      BY <2>1, <3>1, SidesSet DEF SlotInv
  <2>6. CASE RollBack(k)
    <3>1. /\ SetSides(k, "retrying", call[k].server)
          /\ call[k].client # "idle" /\ RetriesLeft(k)
      BY <2>6 DEF RollBack, Commit, SetClient
    <3> QED
      BY <2>1, <3>1, SidesSet DEF SlotInv, RetriesLeft
  <2>7. CASE Ack(k) \/ WorkerCrash(k)
    <3>1. SetSides(k, "idle", call[k].server)
      BY <2>7 DEF Ack, WorkerCrash, SetClient
    <3> QED
      BY <2>1, <3>1, SidesSet
  <2>8. ASSUME NEW c \in Saga, NEW a \in Attempts,
               DeliverFinished(k, c, a) \/ DeliverUnknown(k, c, a)
                 \/ DeliverCharge(k, c, a)
        PROVE  call'[k].owned /\ call'[k].client # "retrying"
    BY <2>1, <2>8 DEF DeliverFinished, DeliverUnknown, DeliverCharge, Deliver,
                      CallTypeOK
  <2> QED
    BY <2>2, <2>3, <2>4, <2>5, <2>6, <2>7, <2>8 DEF SlotMove
<1> QED
  BY <1>1, <1>2, TypeCorrect, PTL DEF Spec

(* A command that was taken off is on the queue or with a handler.         *)
Queued(c) == \E a \in Attempts : copies[c][a] > 0

(* A copy that is added is on the queue.                                   *)
LEMMA CopyQueued ==
  ASSUME copies \in [Saga -> [Attempts -> Nat]], NEW c \in Saga,
         NEW a \in Attempts, AddCopy(c, a)
  PROVE  Queued(c)'
<1>1. copies'[c][a] > 0
  BY DEF AddCopy
<1> QED
  BY <1>1 DEF Queued

(* A row that asks for a payment is not claimed: it waits to be published. *)
LEMMA RowEnds ==
  ASSUME TypeOK, [Next]_vars, NothingDropped, NEW c \in Saga,
         NEW r \in Sent(c, "PROCESS_PAYMENT"), Deliverable(r)
  PROVE  Again(c)'
<1>1. copies \in [Saga -> [Attempts -> Nat]]
  BY PaymentTypes DEF TypeOK
<1>2. r \in outbox /\ r.corr = c /\ r.type = "PROCESS_PAYMENT"
  BY DEF Sent
<1>3. r \in Sent(c, "PROCESS_PAYMENT")'
  <2>1. SentMove(c, "PROCESS_PAYMENT")
    BY SentMoves, MessageNames
  <2> QED
    BY <2>1 DEF SentMove, Added
<1>4. r \notin inbox'
  <2>1. CASE Orchestration \/ Inventory
    BY <1>2, <2>1, EventNames
       DEF Orchestration, OrchestratorStep, NotificationStep, ApplySagaEvent,
           Notify, Inventory, InventoryStep, Reserve, ReserveAborts, Release,
           ReleaseExhausted, ReleaseFails, WithInbox, Deliverable
  <2>2. CASE ~ (Orchestration \/ Inventory)
    <3>1. UNCHANGED inbox
      BY <2>2 DEF Next, API, Checkout, Payments, WorkerStep, RelayStep,
           DeliverStep, HandlerStep, PublishOnce, Publish, DeliverFinished,
           DeliverUnknown, DeliverCharge, Deliver, FinishApproved,
           FinishUnknown, FinishFailed, Finalize, RollBack, Commit, Ack,
           Exchanges, ProviderStep, Recovery, JobStep, Faults, Park,
           InventoryFault, ReleaseExhaustedUnacked, ReleaseFails, WorkerFault,
           PublishUncommitted, WorkerCrash, ChannelLost, CommitParked,
           ClaimParked, ProviderFault, ConnectionRefused, JobFault,
           LookupFails, TickDies, busVars, vars
    <3> QED
      BY <3>1 DEF Deliverable
  <2> QED
    BY <2>1, <2>2
<1>5. CASE r \notin retired'
  BY <1>3, <1>4, <1>5 DEF Again, Deliverable, Sent
<1>6. CASE r \in retired'
  <2>1. r \notin retired
    BY DEF Deliverable
  <2>2. ASSUME NEW q \in outbox, PublishOnce(q)
        PROVE  Again(c)'
    <3>1. q = r
      BY <1>6, <2>1, <2>2 DEF PublishOnce
    <3>2. AddCopy(c, 1) /\ 1 \in Attempts
      BY <1>2, <2>2, <3>1, WorkerAssumption DEF PublishOnce, Publish, Attempts
    <3> QED
      BY <1>1, <3>2, CopyQueued DEF Again, Queued
  <2>3. ASSUME NEW q \in outbox, ReserveAborts(q) \/ ReleaseExhausted(q)
        PROVE  FALSE
    BY <1>2, <1>6, <2>1, <2>3 DEF ReserveAborts, ReleaseExhausted, ReleaseFails
  <2>4. ASSUME NEW q \in outbox, Park(q)
        PROVE  FALSE
    BY <2>4 DEF Park, Fault, NothingDropped
  <2>5. CASE UNCHANGED retired
    BY <1>6, <2>1, <2>5
  <2>6. CASE Orchestration \/ Inventory \/ Faults
    BY <2>3, <2>4, <2>5, <2>6
       DEF Orchestration, OrchestratorStep, NotificationStep, ApplySagaEvent,
           Notify, Inventory, InventoryStep, Reserve, Release, WithInbox,
           Faults, InventoryFault, ReleaseExhaustedUnacked, WorkerFault,
           PublishUncommitted, WorkerCrash, ChannelLost, CommitParked,
           ClaimParked, ProviderFault, ConnectionRefused, JobFault,
           LookupFails, TickDies
  <2>7. CASE Payments
    BY <2>2, <2>5, <2>7
       DEF Payments, WorkerStep, RelayStep, DeliverStep, HandlerStep,
           DeliverFinished, DeliverUnknown, DeliverCharge, Deliver,
           FinishApproved, FinishUnknown, FinishFailed, Finalize, RollBack,
           Commit, Ack, busVars
  <2>8. CASE API \/ Exchanges \/ Recovery \/ UNCHANGED vars
    BY <2>5, <2>8 DEF API, Checkout, Exchanges, ProviderStep, Recovery,
                      JobStep, busVars, vars
  <2> QED
    BY <2>6, <2>7, <2>8 DEF Next
<1> QED
  BY <1>5, <1>6

(* A copy is taken off the queue by a delivery. *)
LEMMA CopyEnds ==
  ASSUME TypeOK, [Next]_vars, NothingDropped, NEW c \in Saga, Queued(c)
  PROVE  \/ Queued(c)'
         \/ \E k \in Slot, a \in Attempts :
              DeliverFinished(k, c, a) \/ DeliverUnknown(k, c, a)
                \/ DeliverCharge(k, c, a)
<1>1. copies \in [Saga -> [Attempts -> Nat]]
  BY PaymentTypes DEF TypeOK
<1>2. PICK a \in Attempts : copies[c][a] > 0
  BY DEF Queued
<1>3. ASSUME UNCHANGED copies
      PROVE  Queued(c)'
  BY <1>2, <1>3 DEF Queued
<1>4. ASSUME \E d, b : AddCopy(d, b)
      PROVE  Queued(c)'
  <2>1. copies'[c][a] > 0
    BY <1>1, <1>2, <1>4 DEF AddCopy
  <2> QED
    BY <2>1 DEF Queued
<1>5. ASSUME NEW d \in Saga, NEW b \in Attempts, RemoveCopy(d, b), d # c
      PROVE  Queued(c)'
  <2>1. copies'[c][a] > 0
    BY <1>1, <1>2, <1>5 DEF RemoveCopy
  <2> QED
    BY <2>1 DEF Queued
<1>6. CASE Payments
  <2>1. ASSUME NEW k \in Slot, NEW d \in Saga, NEW b \in Attempts,
               DeliverFinished(k, d, b) \/ DeliverUnknown(k, d, b)
                 \/ DeliverCharge(k, d, b)
        PROVE  Queued(c)' \/ d = c
    BY <1>5, <2>1 DEF DeliverFinished, DeliverUnknown, DeliverCharge, Deliver
  <2>2. ASSUME NEW k \in Slot, HandlerStep(k)
        PROVE  Queued(c)'
    <3>1. UNCHANGED copies \/ \E d, b : AddCopy(d, b)
      BY <2>2 DEF HandlerStep, FinishApproved, FinishUnknown, FinishFailed,
                  Finalize, RollBack, Commit, Ack
    <3> QED
      BY <1>3, <1>4, <3>1
  <2>3. CASE RelayStep
    BY <1>4, <2>3 DEF RelayStep, PublishOnce, Publish
  <2> QED
    BY <1>6, <2>1, <2>2, <2>3 DEF Payments, WorkerStep, DeliverStep
<1>7. CASE Faults
  <2>1. ASSUME NEW k \in Slot, WorkerCrash(k) \/ ChannelLost(k) \/ CommitParked(k)
        PROVE  Queued(c)'
    <3>1. UNCHANGED copies \/ \E d, b : AddCopy(d, b)
      BY <2>1 DEF WorkerCrash, ChannelLost, CommitParked, Redeliver
    <3> QED
      BY <1>3, <1>4, <3>1
  <2>2. ASSUME NEW d \in Saga, NEW b \in Attempts, ClaimParked(d, b)
        PROVE  FALSE
    BY <2>2 DEF ClaimParked, Fault, NothingDropped
  <2>3. CASE WorkerFault
    BY <1>4, <2>1, <2>2, <2>3 DEF WorkerFault, PublishUncommitted, Publish
  <2> QED
    BY <1>3, <1>7, <2>3 DEF Faults, paymentVars
<1>8. CASE API \/ Orchestration \/ Inventory \/ Exchanges \/ Recovery
           \/ UNCHANGED vars
  BY <1>3, <1>8 DEF API, Orchestration, Inventory, Exchanges, Recovery, vars,
                    paymentVars
<1> QED
  BY <1>6, <1>7, <1>8 DEF Next

(* A crash puts the delivery in hand back on the queue. *)
LEMMA CrashReturns ==
  ASSUME TypeOK, SlotInv, NEW k \in Slot, NEW c \in Saga, call[k].corr = c,
         WorkerCrash(k)
  PROVE  Queued(c)'
<1>1. CallTypeOK /\ copies \in [Saga -> [Attempts -> Nat]]
  BY PaymentTypes DEF TypeOK
<1>2. call[k].owned /\ call[k].attempt \in Attempts
  BY <1>1 DEF WorkerCrash, SlotInv, CallTypeOK, SlotTypeOK
<1>3. AddCopy(c, call[k].attempt)
  BY <1>2 DEF WorkerCrash, Redeliver
<1> QED
  BY <1>1, <1>2, <1>3, CopyQueued

(* A handler that retries sends its message back before it acks. *)
LEMMA RetryingEnds ==
  ASSUME TypeOK, SlotInv, [Next]_vars, NothingDropped, NEW k \in Slot,
         NEW c \in Saga, Retrying(k, c)
  PROVE  Retrying(k, c)' \/ Queued(c)'
<1>1. CallTypeOK /\ copies \in [Saga -> [Attempts -> Nat]]
  BY PaymentTypes DEF TypeOK
<1>2. SlotMove(k)
  BY SlotMoves
<1>3. CASE Ack(k)
  <2>1. call[k].owned /\ call[k].attempt <= MaxRetries
    BY DEF SlotInv, Retrying
  <2>2. call[k].attempt \in Attempts
    BY <1>1 DEF CallTypeOK, SlotTypeOK, Retrying
  <2>3. call[k].attempt + 1 \in Attempts
    BY <2>1, <2>2, WorkerAssumption DEF Attempts
  <2>4. AddCopy(c, call[k].attempt + 1)
    BY <1>3, <2>1 DEF Ack, Retrying
  <2> QED
    BY <1>1, <2>3, <2>4, CopyQueued
<1>4. CASE WorkerCrash(k)
  BY <1>4, CrashReturns DEF Retrying
<1>5. ASSUME NEW d \in Saga, NEW a \in Attempts,
             DeliverFinished(k, d, a) \/ DeliverUnknown(k, d, a)
               \/ DeliverCharge(k, d, a)
      PROVE  FALSE
  BY <1>5 DEF DeliverFinished, DeliverUnknown, DeliverCharge, Deliver, NoCall,
              Retrying
<1> QED
  BY <1>2, <1>3, <1>4, <1>5
     DEF SlotMove, Kept, Retrying, FinishApproved, FinishUnknown, FinishFailed,
         RollBack

(* A delivery at work ends with a verdict or with its command on the way   *)
(* again.                                                                  *)
LEMMA AliveEnds ==
  ASSUME TypeOK, SlotInv, [Next]_vars, NothingDropped, NEW k \in Slot,
         NEW c \in Saga, Alive(k, c), payment[c] = "PROCESSING"
  PROVE  \/ Alive(k, c)' \/ Retrying(k, c)' \/ Queued(c)'
         \/ payment'[c] \in {"SUCCEEDED", "FAILED", "UNKNOWN"}
<1>1. CallTypeOK /\ payment \in [Saga -> PaymentStates \cup {"NONE"}]
  BY PaymentTypes DEF TypeOK
<1>2. SlotMove(k)
  BY SlotMoves
<1>3. CASE FinishApproved(k) \/ FinishUnknown(k) \/ FinishFailed(k)
  BY <1>1, <1>3 DEF FinishApproved, FinishUnknown, FinishFailed, Finalize,
                    Transition, Alive
<1>4. CASE RollBack(k)
  <2>1. SetSides(k, "retrying", call[k].server)
    BY <1>4 DEF RollBack, Commit, SetClient
  <2> QED
    BY <1>1, <2>1, SidesSet DEF Alive, Retrying
<1>5. CASE WorkerCrash(k)
  BY <1>5, CrashReturns DEF Alive
<1>6. ASSUME Ack(k)
      PROVE  FALSE
  BY <1>6 DEF Ack, Alive, Outcomes
<1>7. ASSUME NEW d \in Saga, NEW a \in Attempts,
             DeliverFinished(k, d, a) \/ DeliverUnknown(k, d, a)
               \/ DeliverCharge(k, d, a)
      PROVE  FALSE
  BY <1>7 DEF DeliverFinished, DeliverUnknown, DeliverCharge, Deliver, NoCall,
              Alive, Outcomes
<1>8. CASE /\ call'[k].client = call[k].client
           /\ Kept(k) \/ call[k].client = "idle"
  BY <1>8 DEF Kept, Alive, Outcomes
<1>9. CASE /\ Kept(k) /\ call[k].client = "charging"
           /\ call'[k].client \in Outcomes
  BY <1>9 DEF Kept, Alive
<1> QED
  BY <1>2, <1>3, <1>4, <1>5, <1>6, <1>7, <1>8, <1>9 DEF SlotMove

(* A command on its way is delivered, and is then a handler's, or its      *)
(* payment is not the handlers' any more.                                  *)
LEMMA AgainLasts ==
  ASSUME TypeOK, SlotInv, [Next]_vars, NothingDropped, NEW c \in Saga, Again(c)
  PROVE  \/ Again(c)'
         \/ payment'[c] \notin {"NONE", "CREATED", "PROCESSING"}
         \/ payment'[c] = "PROCESSING" /\ \E k \in Slot : Alive(k, c)'
<1>1. CallTypeOK /\ payment \in [Saga -> PaymentStates \cup {"NONE"}]
  BY PaymentTypes DEF TypeOK
<1>2. CASE \E r \in Sent(c, "PROCESS_PAYMENT") : Deliverable(r)
  BY <1>2, RowEnds
<1>3. CASE \E k \in Slot : Retrying(k, c)
  BY <1>3, RetryingEnds DEF Again, Queued
<1>4. CASE Queued(c)
  <2>1. CASE Queued(c)'
    BY <2>1 DEF Again, Queued
  <2>2. ASSUME NEW k \in Slot, NEW a \in Attempts,
               DeliverFinished(k, c, a) \/ DeliverUnknown(k, c, a)
        PROVE  payment'[c] \notin {"NONE", "CREATED", "PROCESSING"}
    BY <2>2 DEF DeliverFinished, DeliverUnknown, LeftAlone,
                TerminalPaymentStates
  <2>3. ASSUME NEW k \in Slot, NEW a \in Attempts, DeliverCharge(k, c, a)
        PROVE  Alive(k, c)' /\ payment'[c] \notin {"NONE", "CREATED"}
    <3>1. Alive(k, c)'
      BY <1>1, <2>3 DEF DeliverCharge, Deliver, CallTypeOK, Alive
    <3>2. payment'[c] \notin {"NONE", "CREATED"}
      BY <1>1, <2>3 DEF DeliverCharge
    <3> QED
      BY <3>1, <3>2
  <2> QED
    BY <1>4, <2>1, <2>2, <2>3, CopyEnds
<1> QED
  BY <1>2, <1>3, <1>4 DEF Again, Queued

(* Only a handler that is about to retry puts a payment back to CREATED. *)
LEMMA RolledBack ==
  ASSUME TypeOK, [Next]_vars, NEW c \in Saga, payment[c] = "PROCESSING",
         payment'[c] = "CREATED"
  PROVE  \E k \in Slot : Retrying(k, c)'
<1>1. CallTypeOK /\ payment \in [Saga -> PaymentStates \cup {"NONE"}]
  BY PaymentTypes DEF TypeOK
<1> USE TransitionMoves
<1>2. CASE Payments
  <2>1. ASSUME NEW k \in Slot, RollBack(k)
        PROVE  Retrying(k, c)'
    <3>1. call[k].corr = c
      BY <1>1, <2>1 DEF RollBack
    <3>2. SetSides(k, "retrying", call[k].server)
      BY <2>1 DEF RollBack, Commit, SetClient
    <3> QED
      BY <1>1, <3>1, <3>2, SidesSet DEF Retrying
  <2>2. ASSUME NEW k \in Slot, HandlerStep(k), ~ RollBack(k)
        PROVE  FALSE
    BY <1>1, <2>2 DEF HandlerStep, FinishApproved, FinishUnknown, FinishFailed,
                      Finalize, Ack
  <2>3. ASSUME NEW k \in Slot, NEW d \in Saga, NEW a \in Attempts,
               DeliverFinished(k, d, a) \/ DeliverUnknown(k, d, a)
                 \/ DeliverCharge(k, d, a)
        PROVE  FALSE
    BY <1>1, <2>3 DEF DeliverFinished, DeliverUnknown, DeliverCharge
  <2> QED
    BY <1>2, <2>1, <2>2, <2>3 DEF Payments, WorkerStep, DeliverStep, RelayStep,
                                  PublishOnce, Publish
<1>3. CASE Recovery
  BY <1>1, <1>3
     DEF Recovery, JobStep, SelectUnknown, Lookup, Resolve, SelectStuck, Sweep,
         MarkPaymentUnknown, ClaimUnknown, SelectCompensating, GiveUp,
         RetryCompensation
<1>4. CASE Faults
  BY <1>1, <1>4
     DEF Faults, JobFault, LookupFails, TickDies, WorkerFault, Publish,
         PublishUncommitted, WorkerCrash, ChannelLost, CommitParked,
         ClaimParked, paymentVars
<1>5. CASE API \/ Orchestration \/ Inventory \/ Exchanges \/ UNCHANGED vars
  BY <1>5 DEF API, Orchestration, Inventory, Exchanges, vars, paymentVars
<1> QED
  BY <1>2, <1>3, <1>4, <1>5 DEF Next

(* No step claims, or lets go of, a row that is not there yet. *)
LEMMA NewRowWaits ==
  ASSUME TypeOK, [Next]_vars
  PROVE  inbox' \subseteq outbox /\ retired' \subseteq outbox
<1>1. inbox \subseteq outbox /\ retired \subseteq outbox
  BY DEF TypeOK, BusTypeOK
<1>2. CASE Orchestration \/ Inventory
  BY <1>1, <1>2
     DEF Orchestration, OrchestratorStep, NotificationStep, ApplySagaEvent,
         Notify, Inventory, InventoryStep, Reserve, ReserveAborts, Release,
         ReleaseExhausted, ReleaseFails, WithInbox
<1>3. CASE Payments
  BY <1>1, <1>3
     DEF Payments, WorkerStep, RelayStep, DeliverStep, HandlerStep,
         PublishOnce, Publish, DeliverFinished, DeliverUnknown, DeliverCharge,
         Deliver, FinishApproved, FinishUnknown, FinishFailed, Finalize,
         RollBack, Commit, Ack, busVars
<1>4. CASE Faults
  BY <1>1, <1>4
     DEF Faults, Park, InventoryFault, ReleaseExhaustedUnacked, ReleaseFails,
         WorkerFault, PublishUncommitted, Publish, WorkerCrash, ChannelLost,
         CommitParked, ClaimParked, ProviderFault, ConnectionRefused, JobFault,
         LookupFails, TickDies
<1>5. CASE API \/ Exchanges \/ Recovery \/ UNCHANGED vars
  BY <1>1, <1>5 DEF API, Checkout, Exchanges, ProviderStep, Recovery, JobStep,
                    busVars, vars
<1> QED
  BY <1>2, <1>3, <1>4, <1>5 DEF Next

(* The command that asks for a payment starts out waiting for its relay. *)
LEMMA NewCommand ==
  ASSUME TypeOK, [Next]_vars, NEW c \in Saga, ~ Has(c, "PROCESS_PAYMENT"),
         Has(c, "PROCESS_PAYMENT")'
  PROVE  Again(c)'
<1>1. PICK r \in outbox' : r.corr = c /\ r.type = "PROCESS_PAYMENT"
  BY DEF Has, Sent
<1>2. r \notin outbox
  BY <1>1 DEF Has, Sent
<1>3. Deliverable(r)'
  BY <1>1, <1>2, NewRowWaits DEF Deliverable
<1> QED
  BY <1>1, <1>3 DEF Again, Sent

(* Somebody is always left to answer. *)
LEMMA HandInvariant ==
  ASSUME NothingDropped
  PROVE  Spec => []HandInv
<1>1. Init => HandInv
  BY DEF Init, BusInit, HandInv, Has, Sent
<1>2. TypeOK /\ SlotInv /\ HandInv /\ [Next]_vars => HandInv'
  <2> SUFFICES ASSUME TypeOK, SlotInv, HandInv, [Next]_vars, NEW c \in Saga,
                      Has(c, "PROCESS_PAYMENT")'
               PROVE  /\ payment'[c] \in {"NONE", "CREATED"} => Again(c)'
                      /\ payment'[c] = "PROCESSING"
                           => Again(c)' \/ \E k \in Slot : Alive(k, c)'
    BY DEF HandInv
  <2>1. CASE ~ Has(c, "PROCESS_PAYMENT")
    BY <2>1, NewCommand
  <2>2. CASE Again(c)
    BY <2>2, AgainLasts
  <2>3. CASE Has(c, "PROCESS_PAYMENT") /\ ~ Again(c)
    <3>1. PaymentMove(c)
      BY PaymentMoves
    <3>2. CASE payment[c] = "PROCESSING"
      <4>1. PICK k \in Slot : Alive(k, c)
        BY <2>3, <3>2 DEF HandInv
      <4>2. CASE payment'[c] = "CREATED"
        BY <3>2, <4>2, RolledBack DEF Again
      <4>3. CASE payment'[c] # "CREATED"
        <5>1. payment'[c] # "NONE"
          BY <3>1, <3>2 DEF PaymentMove
        <5>2. \/ Alive(k, c)' \/ Again(c)'
              \/ payment'[c] \in {"SUCCEEDED", "FAILED", "UNKNOWN"}
          BY <3>2, <4>1, AliveEnds DEF Again, Queued
        <5> QED
          BY <4>3, <5>1, <5>2
      <4> QED
        BY <4>2, <4>3
    <3>3. CASE payment[c] # "PROCESSING"
      <4>1. payment[c] \notin {"NONE", "CREATED", "PROCESSING"}
        BY <2>3, <3>3 DEF HandInv
      <4>2. payment'[c] \notin {"NONE", "CREATED", "PROCESSING"}
        BY <3>1, <4>1 DEF PaymentMove
      <4> QED
        BY <4>2
    <3> QED
      BY <3>2, <3>3
  <2> QED
    BY <2>1, <2>2, <2>3
<1> QED
  BY <1>1, <1>2, TypeCorrect, SlotInvariant, PTL DEF Spec

(* As long as no message is parked and no channel is lost, a payment that  *)
(* was asked for and has no outcome is on its way to a handler or with one *)
(* whose ack or retry will count, whatever crashes.                        *)
THEOREM NoPaymentDropped ==
  ASSUME FaultKinds \cap {"park", "channel"} = {}
  PROVE  Spec => []PaymentInHand
<1>1. SlotInv /\ HandInv => PaymentInHand
  <2> SUFFICES ASSUME SlotInv, HandInv, NEW c \in Saga,
                      Has(c, "PROCESS_PAYMENT"),
                      payment[c] \in {"NONE", "CREATED", "PROCESSING"}
               PROVE  InHand(c)
    BY DEF PaymentInHand, Has
  <2>1. Again(c) \/ \E k \in Slot : Alive(k, c)
    BY DEF HandInv
  <2>2. ASSUME NEW k \in Slot, Alive(k, c) \/ Retrying(k, c)
        PROVE  InHand(c)
    BY <2>2 DEF SlotInv, Alive, Retrying, Outcomes, InHand
  <2> QED
    BY <2>1, <2>2 DEF Again, InHand
<1>2. NothingDropped
  BY DEF NothingDropped
<1> QED
  BY <1>1, <1>2, SlotInvariant, HandInvariant, PTL
=============================================================================
