---------------------- MODULE DevitOrchestratorHistory ----------------------
(***************************************************************************)
(* DevitOrchestrator with history variables, to say what its cache has to  *)
(* do with the past of the daemon's tasks.                                 *)
(***************************************************************************)
EXTENDS DevitOrchestrator

VARIABLES
  held,    \* statuses each task has had at the daemon, or that devit_notify
           \* was called with
  fresh,   \* callers whose snapshot is later than any change
  quiet    \* whole refreshes since anything last changed, up to 2

HistoryInit ==
  OrchestratorInit /\ held = [t \in Tasks |-> {}] /\ fresh = {} /\ quiet = 0

\* Anything that changes a task or its notes, or fills the cache by
\* hand, starts the count again.  A refresh counts when its snapshot was taken
\* after that and it went on until the queue was empty.
Changes ==
  \/ <<active, ended>>' # <<active, ended>> \/ Len(queue') > Len(queue)
  \/ \E c \in Callers : at[c] \in {"record", "notified"} /\ at'[c] = "idle"

History ==
  /\ held' = [t \in Tasks |-> held[t] \cup ({active'[t], ended'[t]} \ {"none"})
                \cup {map_status(reply'[c].status) :
                        c \in {d \in Callers : at'[d] = "notified" /\ task'[d] = t}}]
  /\ fresh' = IF Changes THEN {}
              ELSE {c \in Callers : \/ at[c] = "snapshot" /\ at'[c] = "apply"
                                    \/ c \in fresh /\ at'[c] \notin {"idle", "snapshot"}}
  /\ quiet' = IF Changes THEN 0
              ELSE IF /\ quiet < 2 /\ queue' = <<>>
                      /\ \E c \in fresh : at[c] = "poll" /\ at'[c] \in {"idle", "read"}
                   THEN quiet + 1 ELSE quiet

HistorySpec ==
  HistoryInit /\ [][OrchestratorNext /\ History]_<<vars, held, fresh, quiet>>

-----------------------------------------------------------------------------
\* The orchestrator never shows a status that the task did not have at the
\* daemon at some time, apart from the Pending it starts with and what it
\* reported itself (record_task, record_notification, process_snapshot): a lost
\* reply or a late note may make it show an old status, and never a wrong one.
NoInventedOutcome ==
  \A t \in Tasks :
    {cached_active[t], cached_completed[t]} \subseteq held[t] \cup {"none", "Pending"}

\* Calls one after the other: two whole refreshes after the last change the
\* cache is what the daemon has, task by task (refresh_notifications).  The
\* first one may be undone by an older note that it finds in the queue.
TwoRefreshesSuffice == quiet = 2 => cache = <<active, ended>>
=============================================================================
