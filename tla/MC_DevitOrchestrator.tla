------------------------ MODULE MC_DevitOrchestrator ------------------------
(* Instances of DevitOrchestrator for TLC.                                  *)
EXTENDS DevitOrchestratorHistory, TLC

\* Tasks are interchangeable (safety run).
TaskSymmetry == Permutations(Tasks)
=============================================================================
