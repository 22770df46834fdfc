-------------------------- MODULE MC_DevitProcesses --------------------------
(* Two pids and the two DevitExec instances of one mcp server.              *)
EXTENDS DevitProcesses, TLC

MCTools == {"devit_exec", "devit_shell"}
Symmetry == Permutations(Pids)
=============================================================================
