---------------------- MODULE MC_DevitOrchestrator_http ----------------------
(* Two calls side by side, as over HTTP.                                    *)
EXTENDS DevitOrchestrator
=============================================================================
