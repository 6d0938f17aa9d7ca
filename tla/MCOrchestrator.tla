---------------------------- MODULE MCOrchestrator ----------------------------
(* Instances of Orchestrator for TLC: tickets that depend on nothing, or    *)
(* where ticket 2 depends on ticket 1 although its priority is higher.      *)
EXTENDS OrchestratorInductive, TLC

MCNoDeps == [t \in Tickets |-> {}]
MCChain == [t \in Tickets |-> IF t = 2 THEN {1} ELSE {}]
MCPriority == [t \in Tickets |-> IF t = 1 THEN 2 ELSE 1]

(* Commits are only compared with each other.                               *)
MCSymmetry == Permutations(Commits)
=============================================================================
