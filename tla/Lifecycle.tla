------------------------------ MODULE Lifecycle ------------------------------
(***************************************************************************)
(* src/lifecycle.js: the processes, their start and their shutdown.  Every *)
(* service registers its closers so that they run in this order: the       *)
(* consumer drains, the relay stops, the broker connection and the         *)
(* database pool close.  The order of the stages is that order.            *)
(***************************************************************************)
EXTENDS Naturals, FiniteSets

CONSTANTS
  Proc,        \* processes: each has a relay, some host consumers
  MaxFaults,   \* bound: how many faults are injected
  FaultKinds   \* and of which kinds

(* crash       a process is killed (also: its shutdown timed out)          *)
(* stop        a process is told to shut down (SIGTERM)                    *)
(* connection  a process loses its connection to the broker                *)
(* abort       the transaction of a relay's tick fails                     *)
(* pool        pool.connect() fails at the start of a relay's tick         *)
AllRingFaults == {"crash", "stop", "connection", "abort", "pool"}

ASSUME LifecycleAssumption ==
  /\ MaxFaults \in Nat
  /\ FaultKinds \subseteq AllRingFaults

VARIABLES
  stage,      \* of each process
  faults      \* faults left to inject

lifeVars == <<stage, faults>>

Stages == {"down", "up", "draining", "closing"}

LifecycleTypeOK ==
  /\ stage \in [Proc -> Stages]
  /\ faults \in 0..MaxFaults

LifecycleInit ==
  /\ stage = [p \in Proc |-> "up"]
  /\ faults = MaxFaults

Fault(kind) ==
  /\ kind \in FaultKinds
  /\ faults > 0
  /\ faults' = faults - 1

Enter(p, s) == stage' = [stage EXCEPT ![p] = s]

(* main() of a service: waitForDependencies, connect, start the loops.     *)
(* A start that fails exits and is tried again.                            *)
Start(p) ==
  /\ stage[p] = "down"
  /\ Enter(p, "up")
  /\ UNCHANGED faults

(* shutdown(); a second signal finds shuttingDown set. *)
Sigterm(p) ==
  /\ stage[p] = "up"
  /\ Fault("stop")
  /\ Enter(p, "draining")
=============================================================================
