----------------------------- MODULE Idempotency -----------------------------
(***************************************************************************)
(* src/idempotency.js and POST /checkout of src/route.js: a request claims *)
(* its idempotency key, starts a saga and stores its response against the  *)
(* key.  Every query is a step of its own and requests interleave between  *)
(* them; a query that fails may have been executed all the same.           *)
(***************************************************************************)
EXTENDS Naturals, FiniteSets

CONSTANTS
  Request,      \* requests, a client's retries included
  Key,
  Body,
  KeyOf,
  BodyOf,       \* the body of each request, hashBody's fingerprint
  ValidBody,    \* bodies with an order, a positive amount and a currency
  Trace,        \* x-correlation-id of a request, unique to it if it has none
  MaxFaults,    \* bound: how many faults are injected
  FaultKinds    \* and of which kinds

(* query   a query fails before it is executed                             *)
(* answer  a query is executed and its answer lost                         *)
(* crash   the API process dies with its requests                          *)
ASSUME IdempotencyAssumption ==
  /\ KeyOf \in [Request -> Key]
  /\ BodyOf \in [Request -> Body]
  /\ ValidBody \subseteq Body
  /\ MaxFaults \in Nat
  /\ FaultKinds \subseteq {"query", "answer", "crash"}

VARIABLES
  keys,         \* idempotency_keys
  phase,        \* how far each request is
  answer,       \* the response each request got
  workflows,    \* workflows started, with the key and body they came from
  released,     \* history: keys that were ever released
  faults

vars == <<keys, phase, answer, workflows, released, faults>>

TraceIds == {Trace[r] : r \in Request}

(* trace: what the stored response body names. *)
Unclaimed == [status |-> "NONE"]
Claimed(b) == [status |-> "PROCESSING", body |-> b]
Completed(b, t) == [status |-> "COMPLETED", body |-> b, trace |-> t]
Failed(b) == [status |-> "FAILED", body |-> b]

Records ==
  {Unclaimed} \cup {Claimed(b) : b \in Body} \cup {Failed(b) : b \in Body}
    \cup {Completed(b, t) : b \in Body, t \in TraceIds}

NoAnswer == [code |-> 0]
Refusal(code) == [code |-> code]
Accepted(t) == [code |-> 202, trace |-> t]

Answers ==
  {NoAnswer} \cup {Refusal(c) : c \in {400, 409, 422, 500}}
    \cup {Accepted(t) : t \in TraceIds}

Workflow == [trace : TraceIds, key : Key, body : Body]

(* conflict: lost the claim; takeover: read a FAILED record; handling: the *)
(* key is this request's; started: its saga is committed; erring: in the   *)
(* catch of the handler.                                                   *)
AtWork == {"handling", "started", "erring"}
Phases ==
  {"new", "conflict", "takeover", "answered", "gone"} \cup AtWork

TypeOK ==
  /\ keys \in [Key -> Records]
  /\ phase \in [Request -> Phases]
  /\ answer \in [Request -> Answers]
  /\ workflows \subseteq Workflow
  /\ released \subseteq Key
  /\ faults \in 0..MaxFaults

Init ==
  /\ keys = [k \in Key |-> Unclaimed]
  /\ phase = [r \in Request |-> "new"]
  /\ answer = [r \in Request |-> NoAnswer]
  /\ workflows = {}
  /\ released = {}
  /\ faults = MaxFaults

Record(r) == keys[KeyOf[r]]

SetRecord(r, rec) == keys' = [keys EXCEPT ![KeyOf[r]] = rec]

To(r, p) ==
  /\ phase' = [phase EXCEPT ![r] = p]
  /\ UNCHANGED answer

Respond(r, a) ==
  /\ phase' = [phase EXCEPT ![r] = "answered"]
  /\ answer' = [answer EXCEPT ![r] = a]

Fault(kind) ==
  /\ kind \in FaultKinds
  /\ faults > 0
  /\ faults' = faults - 1

(***************************************************************************)
(* The queries: what each does to the tables.                              *)
(***************************************************************************)
(* INSERT ... ON CONFLICT DO NOTHING. *)
InsertKey(r) ==
  /\ IF Record(r) = Unclaimed THEN SetRecord(r, Claimed(BodyOf[r]))
                              ELSE UNCHANGED keys
  /\ UNCHANGED <<workflows, released>>

(* The UPDATE of the take-over looks at nothing but the key. *)
ReclaimKey(r) ==
  /\ SetRecord(r, Claimed(Record(r).body))
  /\ UNCHANGED <<workflows, released>>

\* mutant: the arguments of markIdempotencyCompleted in the wrong order
StoreResponseSwapped(r) ==
  /\ SetRecord(r, Completed(Record(r).body, KeyOf[r]))
  /\ UNCHANGED <<workflows, released>>

StoreResponse(r) ==
  /\ SetRecord(r, Completed(Record(r).body, Trace[r]))
  /\ UNCHANGED <<workflows, released>>

ReleaseKey(r) ==
  /\ SetRecord(r, Failed(Record(r).body))
  /\ released' = released \cup {KeyOf[r]}
  /\ UNCHANGED workflows

(* createSagaWorkflow; correlation_id is unique. *)
TraceTaken(r) == \E w \in workflows : w.trace = Trace[r]

InsertWorkflow(r) ==
  /\ workflows' = workflows \cup
       {[trace |-> Trace[r], key |-> KeyOf[r], body |-> BodyOf[r]]}
  /\ UNCHANGED <<keys, released>>

NoQuery == UNCHANGED <<keys, workflows, released>>

(***************************************************************************)
(* handleIdempotency.                                                      *)
(***************************************************************************)
Claim(r) ==
  /\ phase[r] = "new"
  /\ InsertKey(r)
  /\ To(r, IF Record(r) = Unclaimed THEN "handling" ELSE "conflict")

\* mutant: the fingerprint is not compared
OtherBodyNever(r) == FALSE

OtherBody(r) == Record(r).body # BodyOf[r]

InFlight(r) == Record(r).status = "PROCESSING"

(* The lost claim: 422, 409, a replay, or a FAILED key to take over. *)
Reuse(r) == OtherBody(r) /\ Respond(r, Refusal(422))

StillProcessing(r) == InFlight(r) /\ Respond(r, Refusal(409))

Replay(r) ==
  /\ Record(r).status = "COMPLETED"
  /\ Respond(r, Accepted(Record(r).trace))

\* mutant: a key that is in flight may be taken over as well
FindUnfinished(r) == Record(r).status # "COMPLETED" /\ To(r, "takeover")

FindFailed(r) == Record(r).status = "FAILED" /\ To(r, "takeover")

LookAtRecord(r) ==
  /\ phase[r] = "conflict"
  /\ \/ Reuse(r)
     \/ ~ OtherBody(r) /\ (StillProcessing(r) \/ Replay(r) \/ FindFailed(r))
  /\ NoQuery

TakeOver(r) ==
  /\ phase[r] = "takeover"
  /\ ReclaimKey(r)
  /\ To(r, "handling")

(***************************************************************************)
(* POST /checkout.                                                         *)
(***************************************************************************)
Valid(r) == BodyOf[r] \in ValidBody

\* mutant: the key of a refused request is not released
RefuseBodyClaimed(r) ==
  /\ phase[r] = "handling"
  /\ ~ Valid(r)
  /\ NoQuery
  /\ Respond(r, Refusal(400))

RefuseBody(r) ==
  /\ phase[r] = "handling"
  /\ ~ Valid(r)
  /\ ReleaseKey(r)
  /\ Respond(r, Refusal(400))

\* mutant: ON CONFLICT (correlation_id) DO NOTHING
CreateSagaOnce(r) ==
  /\ phase[r] = "handling"
  /\ Valid(r)
  /\ IF TraceTaken(r) THEN NoQuery ELSE InsertWorkflow(r)
  /\ To(r, "started")

CreateSaga(r) ==
  /\ phase[r] = "handling"
  /\ Valid(r)
  /\ IF TraceTaken(r) THEN NoQuery /\ To(r, "erring")
                      ELSE InsertWorkflow(r) /\ To(r, "started")

Complete(r) ==
  /\ phase[r] = "started"
  /\ StoreResponse(r)
  /\ Respond(r, Accepted(Trace[r]))

GiveUp(r) ==
  /\ phase[r] = "erring"
  /\ ReleaseKey(r)
  /\ Respond(r, Refusal(500))

(***************************************************************************)
(* Failures.                                                               *)
(***************************************************************************)
(* In the middleware, the validation branch and the catch itself an error  *)
(* is answered with 500, in the rest of the handler it leads to the catch. *)
Uncaught(r) ==
  \/ phase[r] \in {"new", "conflict", "takeover", "erring"}
  \/ phase[r] = "handling" /\ ~ Valid(r)

(* The query a request is at. *)
ExecuteQuery(r) ==
  \/ phase[r] = "new" /\ InsertKey(r)
  \/ phase[r] = "takeover" /\ ReclaimKey(r)
  \/ phase[r] = "handling" /\ ~ Valid(r) /\ ReleaseKey(r)
  \/ phase[r] = "handling" /\ Valid(r) /\ ~ TraceTaken(r) /\ InsertWorkflow(r)
  \/ phase[r] = "started" /\ StoreResponse(r)
  \/ phase[r] = "erring" /\ ReleaseKey(r)

QueryFails(r) ==
  /\ phase[r] \notin {"answered", "gone"}
  /\ \/ Fault("query") /\ NoQuery
     \/ Fault("answer") /\ ExecuteQuery(r)
  /\ IF Uncaught(r) THEN Respond(r, Refusal(500)) ELSE To(r, "erring")

Crash ==
  /\ Fault("crash")
  /\ phase' = [r \in Request |-> IF phase[r] \in {"new", "answered"}
                                   THEN phase[r] ELSE "gone"]
  /\ NoQuery
  /\ UNCHANGED answer

Step(r) ==
  /\ \/ Claim(r) \/ LookAtRecord(r) \/ TakeOver(r)
     \/ RefuseBody(r) \/ CreateSaga(r) \/ Complete(r) \/ GiveUp(r)
  /\ UNCHANGED faults

Next ==
  \/ \E r \in Request : Step(r) \/ QueryFails(r)
  \/ Crash

Spec == Init /\ [][Next]_vars

(***************************************************************************)
(* Properties.                                                             *)
(***************************************************************************)
Under(k) == {w \in workflows : w.key = k}

(* One key never starts sagas for two different bodies, whoever takes it   *)
(* over (the reason for the fingerprint, idempotency.js:15).               *)
OneBodyPerKey ==
  \A k \in Key : \A w1, w2 \in Under(k) : w1.body = w2.body

(* A 202, fresh or replayed, names a saga that was committed, for the very *)
(* key and body of the request that is told so.                            *)
AcceptedIsStarted ==
  \A r \in Request :
    answer[r].code = 202 =>
      [trace |-> answer[r].trace, key |-> KeyOf[r], body |-> BodyOf[r]]
        \in workflows

(* As long as a key is not released it starts one saga: retries, races and *)
(* crashes of the API never double a checkout by themselves.               *)
OneSagaUnlessReleased ==
  \A k \in Key \ released : Cardinality(Under(k)) <= 1

(* A key that says "processing" with nobody at work on it is the trace of  *)
(* a request that died or was answered 500.                                *)
ProcessingIsServed ==
  \A k \in Key :
    keys[k].status = "PROCESSING" =>
      \E r \in Request :
        /\ KeyOf[r] = k
        /\ phase[r] \in AtWork \/ phase[r] = "gone" \/ answer[r].code = 500
=============================================================================
