------------------------------- MODULE DevitLocal -------------------------------
(***************************************************************************)
(* LocalBackend (orchestration/src/local.rs): the tasks of a process that  *)
(* has no daemon. Two maps, active and completed, under one mutex; a       *)
(* terminal notification moves a task from one to the other, cleanup drops *)
(* completed tasks without activity for Keep (two hours), at most once     *)
(* every CleanupPeriod. Times are in units in which both are small.        *)
(***************************************************************************)
EXTENDS Naturals, FiniteSets

CONSTANTS LocalTasks, MaxConcurrent, Keep, CleanupPeriod,
          MaxTime       \* bound: the clock

ASSUME LocalAssumption ==
    IsFiniteSet(LocalTasks) /\ {MaxConcurrent, Keep, CleanupPeriod, MaxTime} \subseteq Nat

Never == 0
Ends == {"Completed", "Failed", "Cancelled"}

VARIABLES time,
          active_tasks, completed_tasks,   \* task -> its status, or "absent"
          last_activity, created,
          last_cleanup,                    \* Never before the first
          \* history
          outcome, ended                   \* what was reported of each task, and when

localVars == <<time, active_tasks, completed_tasks, last_activity, created, last_cleanup,
               outcome, ended>>

LocalInit ==
    /\ time = 1
    /\ active_tasks = [t \in LocalTasks |-> "absent"]
    /\ completed_tasks = [t \in LocalTasks |-> "absent"]
    /\ last_activity = [t \in LocalTasks |-> Never] /\ created = [t \in LocalTasks |-> Never]
    /\ last_cleanup = Never
    /\ outcome = [t \in LocalTasks |-> "absent"] /\ ended = [t \in LocalTasks |-> Never]

ActiveHere == {t \in LocalTasks : active_tasks[t] # "absent"}

Delegate(t) ==
    /\ created[t] = Never
    /\ Cardinality(ActiveHere) < MaxConcurrent
    /\ active_tasks' = [active_tasks EXCEPT ![t] = "Pending"]
    /\ last_activity' = [last_activity EXCEPT ![t] = time]
    /\ created' = [created EXCEPT ![t] = time]
    /\ UNCHANGED <<time, completed_tasks, last_cleanup, outcome, ended>>

\* notify; an ACK and a notification of a task that is not active change nothing.
NotifyLocal(t, status) ==
    /\ active_tasks[t] # "absent"
    /\ last_activity' = [last_activity EXCEPT ![t] = time]
    /\ IF status \in Ends
       THEN /\ active_tasks' = [active_tasks EXCEPT ![t] = "absent"]
            /\ completed_tasks' = [completed_tasks EXCEPT ![t] = status]
            /\ outcome' = [outcome EXCEPT ![t] = status]
            /\ ended' = [ended EXCEPT ![t] = time]
       ELSE /\ active_tasks' = [active_tasks EXCEPT ![t] = "InProgress"]
            /\ UNCHANGED <<completed_tasks, outcome, ended>>
    /\ UNCHANGED <<time, created, last_cleanup>>

\* A slip: the age of a task instead of the time since its last activity.
ByAge(t) == time - created[t] >= Keep

Inactive(t) == time - last_activity[t] >= Keep

CleanupExpired ==
    /\ last_cleanup = Never \/ time - last_cleanup >= CleanupPeriod
    /\ last_cleanup' = time
    /\ completed_tasks' = [t \in LocalTasks |-> IF Inactive(t) THEN "absent" ELSE completed_tasks[t]]
    /\ UNCHANGED <<time, active_tasks, last_activity, created, outcome, ended>>

PassTime ==
    /\ time < MaxTime /\ time' = time + 1
    /\ UNCHANGED <<active_tasks, completed_tasks, last_activity, created, last_cleanup, outcome, ended>>

LocalNext ==
    \/ \E t \in LocalTasks : Delegate(t) \/ \E s \in Ends \cup {"progress"} : NotifyLocal(t, s)
    \/ CleanupExpired \/ PassTime

LocalSpec == LocalInit /\ [][LocalNext]_localVars

\* get_task: the active map first.
Found(t) == IF active_tasks[t] # "absent" THEN active_tasks[t] ELSE completed_tasks[t]

-----------------------------------------------------------------------------
(* Properties.                                                             *)

\* The first reported outcome of a task is what get_task finds for two hours
\* after it, whatever is notified and cleaned up meanwhile; later it finds the
\* same or nothing (local.rs:52, 86). A task without an outcome is never lost.
OutcomeKept ==
    \A t \in LocalTasks :
        /\ outcome[t] # "absent"
           => Found(t) = outcome[t] \/ (Found(t) = "absent" /\ time - ended[t] >= Keep)
        /\ created[t] # Never /\ outcome[t] = "absent" => Found(t) \in {"Pending", "InProgress"}
=============================================================================
