------------------------- MODULE MCTaskDagEngineFleet -------------------------
(***************************************************************************)
(* TaskDagEngine with two dispatchers on one node, in three set-ups that   *)
(* an initial state chooses from: an agent node whose run is terminated    *)
(* and whose dispatchers crash, an automation node with retries, and an    *)
(* agent node whose completion meets store errors.                         *)
(***************************************************************************)
EXTENDS TaskDagEngine, TLC

CONSTANTS r, x

VARIABLE setup

OneDependsOn == r :> {}
OneAssignee == r :> x
NoStrategy == [n \in Node |-> "none"]

Symmetry == Permutations(Thread) \cup Permutations(Worker)

Automated == INSTANCE TaskDagEngine WITH
                 Automation <- {r}, MaxAttempts <- 2, DefaultAttempts <- 2,
                 PolicyAttempts <- 2, BatchSize <- 2,
                 FailureClasses <- {"soft", "hard"}, Tools <- {"dispatch"}

Repaired == INSTANCE TaskDagEngine WITH
                FaultNode <- {r}, DefaultAttempts <- 2, FailureClasses <- {"soft"},
                Faults <- {"output"}, Tools <- {"dispatch"}

FleetInit ==
    /\ setup \in {"agent", "automation", "repair"}
    /\ setup = "agent" => EngineInit
    /\ setup = "automation" => Automated!EngineInit
    /\ setup = "repair" => Repaired!EngineInit

FleetNext ==
    /\ \/ setup = "agent" /\ EngineNext
       \/ setup = "automation" /\ Automated!EngineNext
       \/ setup = "repair" /\ Repaired!EngineNext
    /\ UNCHANGED setup

FleetSpec == FleetInit /\ [][FleetNext]_<<vars, setup>>

\* NoStrayThread where nothing crashes: a launched thread without a prompt is in
\* the hands of its dispatcher (LaunchAgentWithSpawnRecord and its clean-up).
NoThreadLeftOver == setup = "repair" => NoStrayThread

=============================================================================
