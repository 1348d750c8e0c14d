-------------------------- MODULE IdempotencyProofs --------------------------
(***************************************************************************)
(* Safety of Idempotency, for any number of requests, keys and bodies, any *)
(* correlation ids and any faults.                                         *)
(*                                                                         *)
(* First what a step may do to one key, one request and the sagas          *)
(* (StepMoves), read off the actions once; then each invariant from that.  *)
(***************************************************************************)
EXTENDS Idempotency, FiniteSetTheorems, TLAPS

Mine(r) == [trace |-> Trace[r], key |-> KeyOf[r], body |-> BodyOf[r]]

(* The four shapes of a row of idempotency_keys. *)
Shape(rec) ==
  \/ rec = Unclaimed
  \/ rec.status = "PROCESSING" /\ rec.body \in Body /\ rec = Claimed(rec.body)
  \/ rec.status = "FAILED" /\ rec.body \in Body /\ rec = Failed(rec.body)
  \/ /\ rec.status = "COMPLETED" /\ rec.body \in Body /\ rec.trace \in TraceIds
     /\ rec = Completed(rec.body, rec.trace)

(* Every row has one of them. *)
LEMMA RecordShapes ==
  ASSUME NEW rec
  PROVE  rec \in Records <=> Shape(rec)
<1>1. ASSUME rec \in Records PROVE Shape(rec)
  BY <1>1 DEF Records, Shape, Unclaimed, Claimed, Failed, Completed
<1>2. ASSUME Shape(rec) PROVE rec \in Records
  BY <1>2 DEF Records, Shape
<1> QED
  BY <1>1, <1>2

(* What the fields of a row say. *)
LEMMA Fields ==
  ASSUME NEW b, NEW t
  PROVE  /\ Unclaimed.status = "NONE"
         /\ Claimed(b).status = "PROCESSING" /\ Claimed(b).body = b
         /\ Failed(b).status = "FAILED" /\ Failed(b).body = b
         /\ Completed(b, t).status = "COMPLETED"
         /\ Completed(b, t).body = b /\ Completed(b, t).trace = t
BY DEF Unclaimed, Claimed, Failed, Completed

(* What the code of an answer says. *)
LEMMA Codes ==
  ASSUME NEW c, NEW t
  PROVE  /\ NoAnswer.code = 0
         /\ Refusal(c).code = c
         /\ Accepted(t).code = 202 /\ Accepted(t).trace = t
BY DEF NoAnswer, Refusal, Accepted

-----------------------------------------------------------------------------
(* The steps. *)

Claimant(r) ==
  \/ phase'[r] = "handling"
  \/ phase'[r] = "answered" /\ answer'[r] = Refusal(500)

(* A row changes only under a request that is at the query that does it.   *)
KeyMove(k) ==
  \/ keys'[k] = keys[k]
  \/ \E r \in Request :
       /\ KeyOf[r] = k
       /\ \/ /\ phase[r] = "new" /\ keys[k] = Unclaimed
             /\ keys'[k] = Claimed(BodyOf[r])
             /\ Claimant(r)
          \/ /\ phase[r] = "takeover"
             /\ keys'[k] = Claimed(keys[k].body)
             /\ Claimant(r)
          \/ /\ phase[r] \in {"handling", "erring"}
             /\ keys'[k] = Failed(keys[k].body)
             /\ k \in released'
          \/ /\ phase[r] = "started"
             /\ keys'[k] = Completed(keys[k].body, Trace[r])

(* Everything a request goes through. *)
RequestMove(r) ==
  \/ phase'[r] = phase[r] /\ answer'[r] = answer[r]
  \/ /\ phase[r] = "new" /\ phase'[r] = "handling"
     /\ Record(r) = Unclaimed /\ keys'[KeyOf[r]] = Claimed(BodyOf[r])
     /\ answer'[r] = answer[r]
  \/ /\ phase[r] = "new" /\ phase'[r] = "conflict"
     /\ Record(r) # Unclaimed
     /\ answer'[r] = answer[r]
  \/ /\ phase[r] = "conflict" /\ phase'[r] = "takeover"
     /\ Record(r).status = "FAILED" /\ Record(r).body = BodyOf[r]
     /\ answer'[r] = answer[r]
  \/ /\ phase[r] = "conflict" /\ phase'[r] = "answered"
     /\ Record(r).status = "COMPLETED" /\ Record(r).body = BodyOf[r]
     /\ answer'[r] = Accepted(Record(r).trace)
  \/ /\ phase[r] = "takeover" /\ phase'[r] = "handling"
     /\ answer'[r] = answer[r]
  \/ /\ phase[r] = "handling" /\ phase'[r] = "started"
     /\ Mine(r) \in workflows'
     /\ answer'[r] = answer[r]
  \/ /\ phase[r] \in {"handling", "started"} /\ phase'[r] = "erring"
     /\ answer'[r] = answer[r]
  \/ /\ phase[r] = "started" /\ phase'[r] = "answered"
     /\ answer'[r] = Accepted(Trace[r])
     /\ keys'[KeyOf[r]] = Completed(Record(r).body, Trace[r])
  \/ /\ phase[r] \in {"handling", "erring"} /\ phase'[r] = "answered"
     /\ keys'[KeyOf[r]] = Failed(Record(r).body)
     /\ answer'[r] \in {Refusal(400), Refusal(500)}
  \/ /\ phase[r] \notin {"answered", "gone"} /\ phase'[r] = "answered"
     /\ answer'[r] = Refusal(500)
  \/ /\ phase[r] = "conflict" /\ phase'[r] = "answered"
     /\ answer'[r] \in {Refusal(409), Refusal(422)}
  \/ /\ phase[r] \notin {"new", "answered"} /\ phase'[r] = "gone"
     /\ answer'[r] = answer[r]

(* A saga is added only by a request that handles its key. *)
SagaMove ==
  \/ workflows' = workflows
  \/ \E r \in Request :
       /\ phase[r] = "handling" /\ phase'[r] \in {"started", "erring"}
       /\ workflows' = workflows \cup {Mine(r)}

OthersRest(r) ==
  \A s \in Request \ {r} : phase'[s] = phase[s] /\ answer'[s] = answer[s]

(* A request's row is the only one its query writes. *)
LEMMA RowWritten ==
  ASSUME TypeOK, NEW r \in Request, NEW rec, SetRecord(r, rec), NEW k \in Key
  PROVE  keys'[k] = IF k = KeyOf[r] THEN rec ELSE keys[k]
BY IdempotencyAssumption DEF TypeOK, SetRecord

(* A request moves itself only. *)
LEMMA MovedAlone ==
  ASSUME TypeOK, NEW r \in Request, NEW p, NEW a
  PROVE  /\ To(r, p) => /\ phase'[r] = p /\ answer'[r] = answer[r]
                        /\ OthersRest(r)
         /\ Respond(r, a) => /\ phase'[r] = "answered" /\ answer'[r] = a
                             /\ OthersRest(r)
BY DEF TypeOK, To, Respond, OthersRest

(* The request whose step it is moves as RequestMove says. *)
Mover(r) ==
  /\ RequestMove(r) /\ OthersRest(r)
  /\ \A k \in Key : KeyMove(k)
  /\ SagaMove

(* The steps of the code, one by one. *)
LEMMA StepMoves ==
  ASSUME TypeOK, NEW r \in Request, Step(r)
  PROVE  Mover(r)
<1> USE MovedAlone
<1>1. KeyOf[r] \in Key
  BY IdempotencyAssumption
<1>2. CASE Claim(r)
  <2>1. CASE Record(r) = Unclaimed
    <3>1. /\ phase[r] = "new" /\ phase'[r] = "handling"
          /\ answer'[r] = answer[r] /\ OthersRest(r)
          /\ SetRecord(r, Claimed(BodyOf[r])) /\ workflows' = workflows
      BY <1>2, <2>1 DEF Claim, InsertKey
    <3>2. \A k \in Key :
            keys'[k] = IF k = KeyOf[r] THEN Claimed(BodyOf[r]) ELSE keys[k]
      BY <3>1, RowWritten
    <3>3. \A k \in Key : KeyMove(k)
      BY <2>1, <3>1, <3>2 DEF KeyMove, Claimant, Record
    <3> QED
      BY <1>1, <2>1, <3>1, <3>2, <3>3 DEF Mover, RequestMove, SagaMove
  <2>2. CASE Record(r) # Unclaimed
    BY <1>2, <2>2
       DEF Claim, InsertKey, Mover, RequestMove, KeyMove,
         Claimant, SagaMove
  <2> QED
    BY <2>1, <2>2
<1>3. CASE LookAtRecord(r)
  <2>1. RequestMove(r) /\ OthersRest(r)
    <3>1. CASE Reuse(r) \/ StillProcessing(r)
      BY <1>3, <3>1 DEF LookAtRecord, Reuse, StillProcessing, RequestMove
    <3>2. CASE ~ OtherBody(r) /\ Replay(r)
      BY <1>3, <3>2 DEF LookAtRecord, OtherBody, Replay, RequestMove
    <3>3. CASE ~ OtherBody(r) /\ FindFailed(r)
      BY <1>3, <3>3 DEF LookAtRecord, OtherBody, FindFailed, RequestMove
    <3> QED
      BY <1>3, <3>1, <3>2, <3>3 DEF LookAtRecord
  <2> QED
    BY <1>3, <2>1 DEF LookAtRecord, NoQuery, Mover, KeyMove, Claimant, SagaMove
<1>4. CASE TakeOver(r)
  BY <1>1, <1>4, RowWritten
     DEF TakeOver, ReclaimKey, Record, Mover, RequestMove, KeyMove,
         Claimant, SagaMove
<1>5. CASE RefuseBody(r) \/ GiveUp(r)
  BY <1>1, <1>5, RowWritten
     DEF RefuseBody, GiveUp, ReleaseKey, Record, Mover, RequestMove, KeyMove,
         SagaMove
<1>6. CASE CreateSaga(r)
  <2>1. CASE TraceTaken(r)
    BY <1>6, <2>1
       DEF CreateSaga, NoQuery, Mover, RequestMove, KeyMove,
         Claimant, SagaMove
  <2>2. CASE ~ TraceTaken(r)
    BY <1>6, <2>2
       DEF CreateSaga, InsertWorkflow, Mine, Mover, RequestMove, KeyMove,
           SagaMove
  <2> QED
    BY <2>1, <2>2
<1>7. CASE Complete(r)
  BY <1>1, <1>7, RowWritten
     DEF Complete, StoreResponse, Record, Mover, RequestMove, KeyMove,
         Claimant, SagaMove
<1> QED
  BY <1>2, <1>3, <1>4, <1>5, <1>6, <1>7 DEF Step

(* A query that fails, executed or not. *)
LEMMA FailureMoves ==
  ASSUME TypeOK, NEW r \in Request, QueryFails(r)
  PROVE  Mover(r)
<1> USE MovedAlone
<1>1. KeyOf[r] \in Key /\ phase[r] \in Phases
  BY IdempotencyAssumption DEF TypeOK
<1>2. RequestMove(r) /\ OthersRest(r)
  <2>1. CASE Uncaught(r)
    BY <1>1, <2>1 DEF QueryFails, RequestMove
  <2>2. CASE ~ Uncaught(r)
    BY <1>1, <2>2 DEF QueryFails, Uncaught, RequestMove, Phases, AtWork
  <2> QED
    BY <2>1, <2>2
<1>3. CASE NoQuery
  BY <1>2, <1>3 DEF NoQuery, Mover, KeyMove, Claimant, SagaMove
<1>4. CASE phase[r] = "new" /\ InsertKey(r)
  <2>1. phase'[r] = "answered" /\ answer'[r] = Refusal(500)
    BY <1>4 DEF QueryFails, Uncaught
  <2>2. CASE Record(r) = Unclaimed
    BY <1>1, <1>2, <1>4, <2>1, <2>2, RowWritten
       DEF InsertKey, Record, Mover, KeyMove, Claimant, SagaMove
  <2>3. CASE Record(r) # Unclaimed
    BY <1>2, <1>4, <2>3 DEF InsertKey, Mover, KeyMove, Claimant, SagaMove
  <2> QED
    BY <2>2, <2>3
<1>5. CASE phase[r] = "takeover" /\ ReclaimKey(r)
  <2>1. phase'[r] = "answered" /\ answer'[r] = Refusal(500)
    BY <1>5 DEF QueryFails, Uncaught
  <2> QED
    BY <1>1, <1>2, <1>5, <2>1, RowWritten
       DEF ReclaimKey, Record, Mover, KeyMove, Claimant, SagaMove
<1>6. CASE phase[r] \in {"handling", "erring"} /\ ReleaseKey(r)
  BY <1>1, <1>2, <1>6, RowWritten
     DEF ReleaseKey, Record, Mover, KeyMove, Claimant, SagaMove
<1>7. CASE phase[r] = "handling" /\ Valid(r) /\ InsertWorkflow(r)
  <2>1. phase'[r] = "erring"
    BY <1>7 DEF QueryFails, Uncaught
  <2> QED
    BY <1>2, <1>7, <2>1 DEF InsertWorkflow, Mine, Mover, KeyMove, Claimant,
                                 SagaMove
<1>8. CASE phase[r] = "started" /\ StoreResponse(r)
  BY <1>1, <1>2, <1>8, RowWritten
     DEF StoreResponse, Record, Mover, KeyMove, Claimant, SagaMove
<1> QED
  BY <1>3, <1>4, <1>5, <1>6, <1>7, <1>8 DEF QueryFails, ExecuteQuery

(* Every step, seen by one request, one key and the sagas. *)
LEMMA Moves ==
  ASSUME TypeOK, [Next]_vars
  PROVE  /\ \A r \in Request : RequestMove(r)
         /\ \A k \in Key : KeyMove(k)
         /\ SagaMove
         /\ \A r, s \in Request :
              /\ phase'[r] # phase[r] /\ phase'[s] # phase[s]
              /\ phase'[r] # "gone"
              => r = s
<1>1. ASSUME NEW r \in Request, Step(r) \/ QueryFails(r)
      PROVE  Mover(r)
  BY <1>1, StepMoves, FailureMoves
<1>2. CASE \E r \in Request : Step(r) \/ QueryFails(r)
  BY <1>1, <1>2 DEF Mover, OthersRest, RequestMove
<1>3. CASE Crash
  <2>1. UNCHANGED <<keys, workflows, released, answer>>
    BY <1>3 DEF Crash, NoQuery
  <2>2. \A r \in Request :
          \/ phase'[r] = phase[r]
          \/ phase[r] \notin {"new", "answered"} /\ phase'[r] = "gone"
    BY <1>3 DEF Crash
  <2> QED
    BY <2>1, <2>2 DEF RequestMove, KeyMove,
         Claimant, SagaMove
<1>4. CASE UNCHANGED vars
  BY <1>4 DEF vars, RequestMove, KeyMove,
         Claimant, SagaMove
<1> QED
  BY <1>2, <1>3, <1>4 DEF Next

-----------------------------------------------------------------------------
(* The types, and what a claim is good for: a key in the hands of a        *)
(* request, or with a saga to its name, has its fingerprint for good.      *)
Owners == {"takeover"} \cup AtWork

ClaimInv ==
  /\ \A r \in Request : phase[r] \in {"conflict"} \cup Owners
                          => Record(r) # Unclaimed
  /\ \A r \in Request : phase[r] \in Owners => Record(r).body = BodyOf[r]
  /\ \A w \in workflows : keys[w.key] # Unclaimed /\ keys[w.key].body = w.body

(* The tables stay functions, released keys stay released.                 *)
LEMMA MoveDomains ==
  ASSUME TypeOK, [Next]_vars
  PROVE  /\ keys' = [k \in Key |-> keys'[k]]
         /\ phase' = [r \in Request |-> phase'[r]]
         /\ answer' = [r \in Request |-> answer'[r]]
         /\ released \subseteq released' /\ released' \subseteq Key
         /\ faults' \in 0..MaxFaults
<1>1. MaxFaults \in Nat /\ KeyOf \in [Request -> Key]
  BY IdempotencyAssumption
<1> DEFINE Domains ==
      /\ keys' = [k \in Key |-> keys'[k]]
      /\ released \subseteq released' /\ released' \subseteq Key
<1>2. ASSUME NEW r \in Request,
             \/ InsertKey(r) \/ ReclaimKey(r) \/ StoreResponse(r)
             \/ ReleaseKey(r) \/ InsertWorkflow(r) \/ NoQuery
      PROVE  Domains
  BY <1>1, <1>2
     DEF TypeOK, InsertKey, ReclaimKey, StoreResponse, ReleaseKey,
         InsertWorkflow, NoQuery, SetRecord
<1>3. ASSUME NEW r \in Request, NEW p, NEW a, To(r, p) \/ Respond(r, a)
      PROVE  /\ phase' = [s \in Request |-> phase'[s]]
             /\ answer' = [s \in Request |-> answer'[s]]
  BY <1>3 DEF TypeOK, To, Respond
<1>4. ASSUME NEW r \in Request, Step(r)
      PROVE  /\ Domains
             /\ phase' = [s \in Request |-> phase'[s]]
             /\ answer' = [s \in Request |-> answer'[s]]
  <2>1. Domains
    BY <1>2, <1>4
       DEF Step, Claim, LookAtRecord, TakeOver, RefuseBody, CreateSaga,
           Complete, GiveUp
  <2>2. \E p, a : To(r, p) \/ Respond(r, a)
    BY <1>4
       DEF Step, Claim, LookAtRecord, Reuse, StillProcessing, Replay,
           FindFailed, TakeOver, RefuseBody, CreateSaga, Complete, GiveUp
  <2> QED
    BY <1>3, <2>1, <2>2
<1>5. ASSUME NEW r \in Request, QueryFails(r)
      PROVE  /\ Domains
             /\ phase' = [s \in Request |-> phase'[s]]
             /\ answer' = [s \in Request |-> answer'[s]]
  BY <1>2, <1>3, <1>5 DEF QueryFails, ExecuteQuery
<1>6. CASE \E r \in Request : Step(r)
  BY <1>4, <1>6 DEF Step, TypeOK
<1>7. CASE \E r \in Request : QueryFails(r)
  <2>1. faults' \in 0..MaxFaults
    BY <1>1, <1>7 DEF QueryFails, Fault, TypeOK
  <2> QED
    BY <1>5, <1>7, <2>1
<1>8. CASE Crash
  BY <1>1, <1>8 DEF Crash, NoQuery, Fault, TypeOK
<1>9. CASE UNCHANGED vars
  BY <1>9 DEF vars, TypeOK
<1> QED
  BY <1>6, <1>7, <1>8, <1>9 DEF Next

(* A claimed key keeps its fingerprint. *)
LEMMA ClaimsLast ==
  ASSUME NEW k \in Key, KeyMove(k), keys[k] # Unclaimed
  PROVE  keys'[k] # Unclaimed /\ keys'[k].body = keys[k].body
BY Fields DEF KeyMove

(* No step spoils the types or a claim. *)
LEMMA NextClaims == TypeOK /\ ClaimInv /\ [Next]_vars => TypeOK' /\ ClaimInv'
<1> SUFFICES ASSUME TypeOK, ClaimInv, [Next]_vars
             PROVE  TypeOK' /\ ClaimInv'
  OBVIOUS
<1>1. /\ \A r \in Request :
            RequestMove(r) /\ KeyOf[r] \in Key /\ BodyOf[r] \in Body
      /\ \A k \in Key : KeyMove(k)
      /\ SagaMove
  BY Moves, IdempotencyAssumption
<1>2. \A r \in Request : Trace[r] \in TraceIds /\ Mine(r) \in Workflow
  BY <1>1 DEF TraceIds, Mine, Workflow
<1>3. ASSUME NEW k \in Key
      PROVE  keys'[k] \in Records
  <2>1. CASE keys'[k] = keys[k]
    BY <2>1 DEF TypeOK
  <2>2. CASE \E r \in Request : keys'[k] = Claimed(BodyOf[r])
    BY <1>1, <2>2 DEF Records
  <2>3. CASE keys[k] # Unclaimed
    <3>1. Shape(keys[k])
      BY RecordShapes DEF TypeOK
    <3>2. keys[k].body \in Body
      BY <2>3, <3>1 DEF Shape
    <3> QED
      BY <1>1, <1>2, <3>2 DEF KeyMove, Records, TypeOK
  <2>4. \A r \in Request :
          KeyOf[r] = k /\ phase[r] \in Owners => keys[k] # Unclaimed
    BY DEF ClaimInv, Record
  <2> QED
    BY <1>1, <2>1, <2>2, <2>3, <2>4 DEF KeyMove, Owners, AtWork
<1>4. ASSUME NEW r \in Request
      PROVE  phase'[r] \in Phases /\ answer'[r] \in Answers
  <2>1. phase[r] \in Phases /\ answer[r] \in Answers
    BY DEF TypeOK
  <2>2. phase'[r] \in Phases
    BY <1>1, <2>1 DEF RequestMove, Phases, AtWork
  <2>3. \A c \in {400, 409, 422, 500} : Refusal(c) \in Answers
    BY DEF Answers
  <2>4. \A t \in TraceIds : Accepted(t) \in Answers
    BY DEF Answers
  <2>5. Record(r).status = "COMPLETED" => Record(r).trace \in TraceIds
    <3>1. Shape(Record(r))
      BY <1>1, RecordShapes DEF TypeOK, Record
    <3> QED
      BY <3>1, Fields DEF Shape
  <2>6. answer'[r] \in Answers
    BY <1>1, <1>2, <2>1, <2>3, <2>4, <2>5 DEF RequestMove
  <2> QED
    BY <2>2, <2>6
<1>5. TypeOK'
  <2>1. workflows' \subseteq Workflow
    BY <1>1, <1>2 DEF SagaMove, TypeOK
  <2> QED
    BY <1>3, <1>4, <2>1, MoveDomains DEF TypeOK
<1>6. \A k \in Key : keys[k] # Unclaimed
                      => keys'[k] # Unclaimed /\ keys'[k].body = keys[k].body
  BY <1>1, ClaimsLast
<1>7. ASSUME NEW r \in Request, phase'[r] \in {"conflict"} \cup Owners
      PROVE  Record(r)' # Unclaimed
  <2>1. CASE phase[r] \in {"conflict"} \cup Owners
    BY <1>1, <1>6, <2>1 DEF ClaimInv, Record
  <2>2. CASE phase[r] = "new"
    BY <1>1, <1>6, <1>7, <2>2, Fields DEF RequestMove, Record, Owners, AtWork
  <2> QED
    BY <1>1, <1>7, <2>1, <2>2 DEF RequestMove, Owners, AtWork
<1>8. ASSUME NEW r \in Request, phase'[r] \in Owners
      PROVE  Record(r)'.body = BodyOf[r]
  <2>1. CASE phase[r] \in Owners
    BY <1>1, <1>6, <2>1 DEF ClaimInv, Record
  <2>2. CASE phase[r] = "new"
    BY <1>1, <1>8, <2>2, Fields DEF RequestMove, Record, Owners, AtWork
  <2>3. CASE phase[r] = "conflict"
    <3>1. Record(r) # Unclaimed /\ Record(r).body = BodyOf[r]
      BY <1>1, <1>8, <2>3 DEF ClaimInv, RequestMove, Owners, AtWork
    <3> QED
      BY <1>1, <1>6, <3>1 DEF Record
  <2> QED
    BY <1>1, <1>8, <2>1, <2>2, <2>3 DEF RequestMove, Owners, AtWork
<1>9. ASSUME NEW w \in workflows'
      PROVE  keys'[w.key] # Unclaimed /\ keys'[w.key].body = w.body
  <2>1. CASE w \in workflows
    <3>1. w.key \in Key
      BY <2>1 DEF TypeOK, Workflow
    <3> QED
      BY <1>6, <2>1, <3>1 DEF ClaimInv
  <2>2. ASSUME NEW r \in Request, phase[r] = "handling", w = Mine(r)
        PROVE  keys'[w.key] # Unclaimed /\ keys'[w.key].body = w.body
    <3>1. Record(r) # Unclaimed /\ Record(r).body = BodyOf[r]
      BY <2>2 DEF ClaimInv, Owners, AtWork
    <3> QED
      BY <1>1, <1>6, <2>2, <3>1 DEF Record, Mine
  <2> QED
    BY <1>1, <1>9, <2>1, <2>2 DEF SagaMove
<1> QED
  BY <1>5, <1>7, <1>8, <1>9 DEF ClaimInv

(* Types and claims hold. *)
LEMMA ClaimsHold == Spec => [](TypeOK /\ ClaimInv)
<1>1. Init => TypeOK /\ ClaimInv
  BY IdempotencyAssumption
     DEF Init, TypeOK, ClaimInv, Owners, AtWork, Phases, Answers, Records
<1> QED
  BY <1>1, NextClaims, PTL DEF Spec

(* Every variable keeps its type. *)
THEOREM KeysTyped == Spec => []TypeOK
BY ClaimsHold, PTL

(* One key never starts sagas for two different bodies. *)
THEOREM OneBody == Spec => []OneBodyPerKey
<1>1. ClaimInv => OneBodyPerKey
  BY DEF ClaimInv, OneBodyPerKey, Under
<1> QED
  BY <1>1, ClaimsHold, PTL

-----------------------------------------------------------------------------
(* The answer.  A 202 is told by the request that started the saga, or is  *)
(* read off a row that such a request wrote.                               *)
AnswerInv ==
  /\ \A k \in Key :
       keys[k].status = "COMPLETED" =>
         [trace |-> keys[k].trace, key |-> k, body |-> keys[k].body]
           \in workflows
  /\ \A r \in Request : phase[r] = "started" => Mine(r) \in workflows
  /\ AcceptedIsStarted

(* A 202, fresh or replayed, names a saga that was committed, for the very *)
(* key and body of the request that is told so.                            *)
THEOREM AcceptedHonest == Spec => []AcceptedIsStarted
<1>1. Init => AnswerInv
  BY Fields, Codes DEF Init, AnswerInv, AcceptedIsStarted
<1>2. TypeOK /\ ClaimInv /\ AnswerInv /\ [Next]_vars => AnswerInv'
  <2> SUFFICES ASSUME TypeOK, ClaimInv, AnswerInv, [Next]_vars
               PROVE  AnswerInv'
    OBVIOUS
  <2>1. /\ \A r \in Request : RequestMove(r) /\ KeyOf[r] \in Key
        /\ \A k \in Key : KeyMove(k)
        /\ SagaMove
    BY Moves, IdempotencyAssumption
  <2>2. workflows \subseteq workflows'
    BY <2>1 DEF SagaMove
  <2>3. \A r \in Request : phase[r] = "started" =>
          /\ [trace |-> Trace[r], key |-> KeyOf[r], body |-> Record(r).body]
               \in workflows
          /\ Mine(r) \in workflows
    BY DEF AnswerInv, ClaimInv, Owners, AtWork, Mine
  <2>4. ASSUME NEW k \in Key, keys'[k].status = "COMPLETED"
        PROVE  [trace |-> keys'[k].trace, key |-> k, body |-> keys'[k].body]
                 \in workflows'
    <3>1. CASE keys'[k] = keys[k]
      BY <2>2, <2>4, <3>1 DEF AnswerInv
    <3>2. ASSUME NEW r \in Request, KeyOf[r] = k, phase[r] = "started",
                 keys'[k] = Completed(keys[k].body, Trace[r])
          PROVE  [trace |-> keys'[k].trace, key |-> k, body |-> keys'[k].body]
                   \in workflows'
      BY <2>2, <2>3, <3>2, Fields DEF Record
    <3> QED
      BY <2>1, <2>4, <3>1, <3>2, Fields DEF KeyMove
  <2>5. ASSUME NEW r \in Request, phase'[r] = "started"
        PROVE  Mine(r) \in workflows'
    BY <2>1, <2>2, <2>3, <2>5 DEF RequestMove
  <2>6. ASSUME NEW r \in Request, answer'[r].code = 202
        PROVE  [trace |-> answer'[r].trace, key |-> KeyOf[r],
                body |-> BodyOf[r]] \in workflows'
    <3>1. CASE answer'[r] = answer[r]
      BY <2>2, <2>6, <3>1 DEF AnswerInv, AcceptedIsStarted
    <3>2. CASE /\ Record(r).status = "COMPLETED" /\ Record(r).body = BodyOf[r]
               /\ answer'[r] = Accepted(Record(r).trace)
      BY <2>1, <2>2, <3>2, Codes DEF AnswerInv, Record
    <3>3. CASE phase[r] = "started" /\ answer'[r] = Accepted(Trace[r])
      <4>1. answer'[r].trace = Trace[r]
        BY <3>3, Codes
      <4>2. [trace |-> answer'[r].trace, key |-> KeyOf[r], body |-> BodyOf[r]]
              = Mine(r)
        BY <4>1 DEF Mine
      <4> QED
        BY <2>2, <2>3, <3>3, <4>2
    <3>4. CASE answer'[r] \in {Refusal(c) : c \in {400, 409, 422, 500}}
      BY <2>6, <3>4, Codes
    <3> QED
      BY <2>1, <3>1, <3>2, <3>3, <3>4 DEF RequestMove
  <2> QED
    BY <2>4, <2>5, <2>6 DEF AnswerInv, AcceptedIsStarted
<1>3. AnswerInv => AcceptedIsStarted
  BY DEF AnswerInv
<1> QED
  BY <1>1, <1>2, <1>3, ClaimsHold, PTL DEF Spec

-----------------------------------------------------------------------------
(* One saga.  As long as a key was never released only the request that    *)
(* inserted its row has ever been at work on it.                           *)
OneAtWork(k) ==
  \A r, s \in Request :
    /\ KeyOf[r] = k /\ KeyOf[s] = k
    /\ phase[r] \in AtWork /\ phase[s] \in AtWork
    => r = s

SingleInv ==
  \A k \in Key \ released :
    /\ keys[k].status # "FAILED"
    /\ \A r \in Request : KeyOf[r] = k => phase[r] # "takeover"
    /\ OneAtWork(k)
    /\ \A r \in Request :
         KeyOf[r] = k /\ phase[r] = "handling" => Under(k) = {}
    /\ \E w : Under(k) \subseteq {w}

(* As long as a key is not released it starts one saga: retries, races and *)
(* crashes of the API never double a checkout by themselves.               *)
THEOREM OneSaga == Spec => []OneSagaUnlessReleased
<1>1. Init => SingleInv
  BY Fields DEF Init, SingleInv, OneAtWork, AtWork, Under
<1>2. TypeOK /\ ClaimInv /\ SingleInv /\ [Next]_vars => SingleInv'
  <2> SUFFICES ASSUME TypeOK, ClaimInv, SingleInv, [Next]_vars,
                      NEW k \in Key \ released'
               PROVE  /\ keys'[k].status # "FAILED"
                      /\ \A r \in Request :
                           KeyOf[r] = k => phase'[r] # "takeover"
                      /\ OneAtWork(k)'
                      /\ \A r \in Request :
                           KeyOf[r] = k /\ phase'[r] = "handling"
                             => Under(k)' = {}
                      /\ \E w : Under(k)' \subseteq {w}
    BY DEF SingleInv
  <2>1. k \in Key \ released
    BY MoveDomains
  <2>2. /\ \A r \in Request : RequestMove(r)
        /\ KeyMove(k)
        /\ SagaMove
        /\ \A r, s \in Request :
             /\ phase'[r] # phase[r] /\ phase'[s] # phase[s]
             /\ phase'[r] # "gone"
             => r = s
    BY <2>1, Moves
  <2>3. keys'[k].status # "FAILED"
    BY <2>1, <2>2, Fields DEF KeyMove, SingleInv
  <2>4. \A r \in Request : KeyOf[r] = k => phase'[r] # "takeover"
    BY <2>1, <2>2 DEF RequestMove, SingleInv, Record
  <2>5. \A r \in Request : KeyOf[r] = k /\ phase'[r] \in AtWork =>
          \/ phase[r] \in AtWork
          \/ /\ phase[r] = "new" /\ phase'[r] = "handling"
             /\ keys[k] = Unclaimed
    BY <2>1, <2>2 DEF RequestMove, SingleInv, AtWork, Record
  <2>6. keys[k] = Unclaimed =>
          /\ Under(k) = {}
          /\ \A r \in Request : KeyOf[r] = k => phase[r] \notin AtWork
    BY DEF ClaimInv, Under, Record, Owners
  <2>7. OneAtWork(k)'
    <3> SUFFICES ASSUME NEW r \in Request, NEW s \in Request,
                        KeyOf[r] = k, KeyOf[s] = k,
                        phase'[r] \in AtWork, phase'[s] \in AtWork
                 PROVE  r = s
      BY DEF OneAtWork
    <3>1. CASE phase[r] \in AtWork /\ phase[s] \in AtWork
      BY <2>1, <3>1 DEF SingleInv, OneAtWork
    <3>2. CASE keys[k] = Unclaimed
      BY <2>2, <2>5, <2>6, <3>2 DEF AtWork
    <3> QED
      BY <2>5, <3>1, <3>2
  <2>8. ASSUME NEW r \in Request, KeyOf[r] = k, phase[r] = "handling",
               phase'[r] \in {"started", "erring"},
               workflows' = workflows \cup {Mine(r)}
        PROVE  Under(k) = {} /\ Under(k)' = {Mine(r)}
    <3>1. Under(k) = {}
      BY <2>1, <2>8 DEF SingleInv
    <3> QED
      BY <2>8, <3>1 DEF Under, Mine
  <2>9. Under(k)' = Under(k)
        \/ \E r \in Request :
             /\ KeyOf[r] = k /\ phase[r] = "handling"
             /\ phase'[r] \in {"started", "erring"}
             /\ workflows' = workflows \cup {Mine(r)}
    <3>1. CASE workflows' = workflows
      BY <3>1 DEF Under
    <3>2. ASSUME NEW r \in Request, KeyOf[r] # k,
                 workflows' = workflows \cup {Mine(r)}
          PROVE  Under(k)' = Under(k)
      BY <3>2 DEF Under, Mine
    <3> QED
      BY <2>2, <3>1, <3>2 DEF SagaMove
  <2>10. ASSUME NEW r \in Request, KeyOf[r] = k, phase'[r] = "handling"
         PROVE  Under(k)' = {}
    <3>1. Under(k) = {}
      BY <2>1, <2>2, <2>4, <2>6, <2>10 DEF RequestMove, SingleInv, Record
    <3>2. ASSUME NEW s \in Request, KeyOf[s] = k, phase[s] = "handling",
                 phase'[s] \in {"started", "erring"}
          PROVE  FALSE
      <4>1. phase[s] \in AtWork /\ phase'[s] \in AtWork /\ phase'[r] \in AtWork
        BY <2>10, <3>2 DEF AtWork
      <4>2. r = s
        BY <2>7, <2>10, <3>2, <4>1 DEF OneAtWork
      <4> QED
        BY <2>10, <3>2, <4>2
    <3> QED
      BY <2>9, <3>1, <3>2
  <2>11. \E w : Under(k)' \subseteq {w}
    BY <2>1, <2>8, <2>9 DEF SingleInv
  <2> QED
    BY <2>3, <2>4, <2>7, <2>10, <2>11
<1>3. SingleInv => OneSagaUnlessReleased
  <2> SUFFICES ASSUME SingleInv, NEW k \in Key \ released
               PROVE  Cardinality(Under(k)) <= 1
    BY DEF OneSagaUnlessReleased
  <2>1. PICK w : Under(k) \subseteq {w}
    BY DEF SingleInv
  <2>2. CASE Under(k) = {}
    BY <2>2, FS_EmptySet
  <2>3. CASE Under(k) = {w}
    BY <2>3, FS_Singleton
  <2> QED
    BY <2>1, <2>2, <2>3
<1> QED
  BY <1>1, <1>2, <1>3, ClaimsHold, PTL DEF Spec

-----------------------------------------------------------------------------
(* A key that says "processing" with nobody at work on it is the trace of  *)
(* a request that died or was answered 500.                                *)
THEOREM ProcessingServed == Spec => []ProcessingIsServed
<1> DEFINE Serves(r) ==
      \/ phase[r] \in AtWork \cup {"gone"}
      \/ phase[r] = "answered" /\ answer[r] = Refusal(500)
    ServedInv ==
      \A k \in Key :
        keys[k].status = "PROCESSING" =>
          \E r \in Request : KeyOf[r] = k /\ Serves(r)
<1>1. Init => ServedInv
  BY Fields DEF Init
<1>2. TypeOK /\ ServedInv /\ [Next]_vars => ServedInv'
  <2> SUFFICES ASSUME TypeOK, ServedInv, [Next]_vars, NEW k \in Key,
                      keys'[k].status = "PROCESSING"
               PROVE  \E r \in Request : KeyOf[r] = k /\ Serves(r)'
    OBVIOUS
  <2>1. (\A r \in Request : RequestMove(r)) /\ KeyMove(k)
    BY Moves
  <2>2. CASE keys'[k] = keys[k]
    <3>1. PICK r \in Request : KeyOf[r] = k /\ Serves(r)
      BY <2>2
    <3>2. Serves(r)'
      BY <2>1, <3>1, Fields DEF RequestMove, AtWork
    <3> QED
      BY <3>1, <3>2
  <2>3. ASSUME NEW r \in Request, KeyOf[r] = k, Claimant(r)
        PROVE  Serves(r)'
    BY <2>3 DEF Claimant, AtWork
  <2> QED
    BY <2>1, <2>2, <2>3, Fields DEF KeyMove
<1>3. ServedInv => ProcessingIsServed
  BY Codes DEF ProcessingIsServed
<1> QED
  BY <1>1, <1>2, <1>3, ClaimsHold, PTL DEF Spec
=============================================================================
