------------------------------ MODULE Provider ------------------------------
(***************************************************************************)
(* The card processor of src/services/mockProvider.js and the HTTP         *)
(* exchange with it (src/providerClient.js).  A slot of `call` is one      *)
(* exchange: what the worker's side is doing (client) and where the        *)
(* request is on the provider's side (server).  The two end separately: a  *)
(* client that gave up leaves its request running at the provider.         *)
(***************************************************************************)
EXTENDS Bus

CONSTANTS
  Slot,      \* exchanges that can be live at once
  NoSaga,    \* the saga of a slot not in use
  Modes      \* the behaviours the provider may show for each saga

(* "ok" is also the mode slow; "flaky" is also an injected failureRate.    *)
(* "reset" is not a mode of the code but of its host: the process or its   *)
(* connection dies, after the INSERT of an approved charge and before the  *)
(* reply, or while the handler has not decided yet (ConnectionReset).      *)
AllModes == {"ok", "fail", "flaky", "timeout", "lost", "reset"}

ASSUME ProviderAssumption ==
  /\ NoSaga \notin Saga
  /\ Modes \in [Saga -> SUBSET AllModes]

VARIABLES
  ledger,    \* provider_transactions: outcome by idempotency key
  call

Outcomes == {"approved", "declined", "transient", "unknown"}

ClientStates == {"idle", "charging", "acking", "retrying"} \cup Outcomes

(* owned: the delivery's channel is alive, so its ack or retry will count. *)
Call ==
  [corr : Saga \cup {NoSaga}, attempt : Nat, client : ClientStates,
   server : {"none", "arriving", "deciding"}, owned : BOOLEAN]

NoCall ==
  [corr |-> NoSaga, attempt |-> 0, client |-> "idle", server |-> "none",
   owned |-> FALSE]

ProviderTypeOK ==
  /\ ledger \in [Saga -> {"NONE", "APPROVED", "DECLINED"}]
  /\ call \in [Slot -> Call]
  /\ \A k \in Slot : call[k] # NoCall => call[k].corr \in Saga

ProviderInit ==
  /\ ledger = [c \in Saga |-> "NONE"]
  /\ call = [k \in Slot |-> NoCall]

(* A slot both of whose sides have ended can serve another exchange. *)
SetSides(k, client, server) ==
  call' = [call EXCEPT ![k] =
             IF client = "idle" /\ server = "none" THEN NoCall
             ELSE [call[k] EXCEPT !.client = client, !.server = server]]

SetClient(k, state) == SetSides(k, state, call[k].server)

(* The provider is done with the request; o = "none" when it never replies,*)
(* and nobody listens to a reply after the client gave up.                 *)
Reply(k, o) ==
  SetSides(k, IF call[k].client = "charging" /\ o # "none"
                THEN o ELSE call[k].client, "none")

LedgerOutcome(c) == IF ledger[c] = "APPROVED" THEN "approved" ELSE "declined"

(* POST /charge with a key the ledger already has: replayed verbatim. *)
ReplayCharge(k) ==
  /\ call[k].server = "arriving"
  /\ ledger[call[k].corr] # "NONE"
  /\ Reply(k, LedgerOutcome(call[k].corr))
  /\ UNCHANGED ledger

(* POST /charge with an unknown key: the SELECT has found nothing and the  *)
(* handler sleeps for latencyMs before it decides.                         *)
AcceptCharge(k) ==
  /\ call[k].server = "arriving"
  /\ ledger[call[k].corr] = "NONE"
  /\ call' = [call EXCEPT ![k].server = "deciding"]
  /\ UNCHANGED ledger

Recorded(mode) ==
  CASE mode \in {"ok", "lost", "reset"} -> "APPROVED"
    [] mode = "fail" -> "DECLINED"
    [] OTHER -> "NONE"

Answer(mode) ==
  CASE mode = "ok" -> "approved"
    [] mode = "fail" -> "declined"
    [] mode \in {"flaky", "reset"} -> "transient"
    [] OTHER -> "none"

(* recordTransaction: ON CONFLICT (idempotency_key) DO NOTHING.  The       *)
(* stored row it returns on a conflict is used for its txn_id only: the    *)
(* reply is the mode's, whatever outcome that row holds.                   *)
RecordTransaction(c, outcome) ==
  ledger' = [ledger EXCEPT ![c] = IF @ = "NONE" THEN outcome ELSE @]

DecideCharge(k, mode) ==
  /\ call[k].server = "deciding"
  /\ mode \in Modes[call[k].corr]
  /\ RecordTransaction(call[k].corr, Recorded(mode))
  /\ Reply(k, Answer(mode))

(* ECONNREFUSED, ENOTFOUND, EAI_AGAIN: the request never arrived. *)
ConnectionRefused(k) ==
  /\ Fault("refused")
  /\ call[k].client = "charging"
  /\ call[k].server = "arriving"
  /\ Reply(k, "transient")
  /\ UNCHANGED <<ledger, outbox, inbox, retired>>

(* The AbortController fires, or the call fails mid-flight: whatever the   *)
(* provider is doing, it goes on doing.                                    *)
ClientTimeout(k) ==
  /\ call[k].client = "charging"
  /\ SetClient(k, "unknown")
  /\ UNCHANGED ledger

(* ECONNRESET under a running handler, which does not notice and goes on:  *)
(* the client takes the error for a request that never arrived.            *)
ConnectionReset(k) ==
  /\ call[k].client = "charging"
  /\ "reset" \in Modes[call[k].corr]
  /\ SetClient(k, "transient")
  /\ UNCHANGED ledger

ProviderServes(k) ==
  \/ ReplayCharge(k)
  \/ AcceptCharge(k)
  \/ \E mode \in AllModes : DecideCharge(k, mode)

ProviderStep ==
  /\ \E k \in Slot : ProviderServes(k) \/ ClientTimeout(k) \/ ConnectionReset(k)
  /\ UNCHANGED busVars

ProviderFault == \E k \in Slot : ConnectionRefused(k)
=============================================================================
