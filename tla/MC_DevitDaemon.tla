---------------------------- MODULE MC_DevitDaemon ----------------------------
(* Instances of DevitDaemon for TLC.                                        *)
EXTENDS DevitDaemonTasks, TLC

\* Tasks are interchangeable (safety runs only).
TaskSymmetry == Permutations(Tasks)
=============================================================================
