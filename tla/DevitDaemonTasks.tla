-------------------------- MODULE DevitDaemonTasks --------------------------
(***************************************************************************)
(* DevitDaemon implements DevitTasks, seen from any client that delegates. *)
(***************************************************************************)
EXTENDS DevitDaemon

CONSTANT Me    \* one of the clients that delegate

ASSUME MeAssumption == Me \in Delegators

Undecided(t) == t \in pending_approvals \/ handler[t] # "none"

stageView ==
  [t \in Tasks |-> IF msg[t] = NoMsg THEN "new"
                   ELSE IF Undecided(t) THEN "owed" ELSE "dealt"]

View ==
  INSTANCE DevitTasks WITH
    stage <- stageView, active <- tasks_active, ended <- tasks_completed,
    queue <- pending_notifications[Me]

\* Whatever happens among leases, approvals, workers and the cleanup, a client
\* that delegates sees the task life of DevitTasks: a DELEGATE is taken on at
\* most once, a status changes by a report, a refusal or an acceptance only, a
\* result is dropped only when another one is recorded, and its queue grows by
\* what happened in that step and is emptied as a whole.
ImplementsTasks == View!Spec
=============================================================================
