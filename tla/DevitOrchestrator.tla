-------------------------- MODULE DevitOrchestrator --------------------------
(***************************************************************************)
(* The side that delegates: DaemonBackend (crates/orchestration/src/       *)
(* daemon.rs) with its cache of the daemon's tasks, and the tools          *)
(* devit_delegate, devit_notify, devit_orchestration_status and            *)
(* devit_task_result that use it.  The daemon is DevitTasks.               *)
(*                                                                         *)
(* Each exchange is one request on its own connection: the daemon handles  *)
(* it in one step and the client applies the reply in a later one; the     *)
(* request or the reply may be lost, or the connection refused.  Calls run *)
(* one after the other over stdio and side by side over HTTP (Callers).    *)
(* A task's list of notifications is abstracted to "may be non-empty".     *)
(***************************************************************************)
EXTENDS DevitTasks, Naturals, FiniteSets

CONSTANTS
  Callers,     \* tool calls that run at the same time
  Asker,       \* one of them that is fair: see Fairness
  NoTask,
  Reports,     \* status strings that are reported
  QueueBound   \* bound on the client's queue (model checking only)

ASSUME OrchestratorAssumption ==
  /\ Asker \in Callers
  /\ NoTask \notin Tasks
  /\ Reports \subseteq StatusStrings
  /\ QueueBound \in Nat

VARIABLES
  cached_active,      \* DaemonState.active: task -> status, or "none"
  cached_completed,   \* DaemonState.completed
  sent,               \* tasks whose DELEGATE was sent
  at,                 \* caller -> where its call stands
  task,               \* caller -> the task_id of its call, or NoTask
  reply               \* caller -> what it received and has not applied yet

cache == <<cached_active, cached_completed>>
client == <<cached_active, cached_completed, sent, at, task, reply>>
vars == <<taskvars, client>>

NoReply == [kind |-> "nothing"]
Snapshot == [kind |-> "snapshot", active |-> active, ended |-> ended]
Labels == {"idle", "record", "notified", "snapshot", "apply", "heartbeat",
           "note", "poll", "read"}

OrchestratorInit ==
  /\ Init
  /\ cached_active = Nothing /\ cached_completed = Nothing
  /\ sent = {}
  /\ at = [c \in Callers |-> "idle"]
  /\ task = [c \in Callers |-> NoTask]
  /\ reply = [c \in Callers |-> NoReply]

GoTo(c, label) == at' = [at EXCEPT ![c] = label]
Call(c, t, label) == at[c] = "idle" /\ GoTo(c, label) /\ task' = [task EXCEPT ![c] = t]
Return(c) == GoTo(c, "idle") /\ task' = [task EXCEPT ![c] = NoTask]

-----------------------------------------------------------------------------
(* The cache.                                                              *)

\* record_notification: out of active, or else out of completed, and back in by
\* the new status.
record_notification(t, s) ==
  IF map_status(s) \in Terminal
  THEN /\ cached_active' = [cached_active EXCEPT ![t] = "none"]
       /\ cached_completed' = [cached_completed EXCEPT ![t] = map_status(s)]
  ELSE /\ cached_active' = [cached_active EXCEPT ![t] = map_status(s)]
       /\ cached_completed' = IF cached_active[t] # "none" THEN cached_completed
                              ELSE [cached_completed EXCEPT ![t] = "none"]

\* get_task looks into active first.
get_task(t) == IF cached_active[t] # "none" THEN cached_active[t] ELSE cached_completed[t]

-----------------------------------------------------------------------------
(* devit_delegate.                                                         *)

\* Sent; or it fails, and the daemon may have it all the same.
DelegateSend(c, t) ==
  /\ t \notin sent
  /\ \/ Call(c, t, "record") /\ sent' = sent \cup {t}
     \/ at[c] = "idle" /\ UNCHANGED <<at, task>> /\ sent' = sent \cup {t}
  /\ UNCHANGED <<taskvars, cache, reply>>

\* Whatever the daemon answered, ERR included.
record_task(c) ==
  /\ at[c] = "record"
  /\ cached_active' = [cached_active EXCEPT ![task[c]] = "Pending"]
  /\ Return(c)
  /\ UNCHANGED <<taskvars, cached_completed, sent, reply>>

-----------------------------------------------------------------------------
(* devit_notify.  return_to is the client itself, which gets the note back. *)

NotifySend(c, t, s) ==
  /\ t \in sent /\ Call(c, t, "notified")
  /\ reply' = [reply EXCEPT ![c] = Note("NOTIFY", t, s)]
  /\ \/ Len(queue) < QueueBound /\ Report(t, s, TRUE)
     \/ UNCHANGED taskvars
  /\ UNCHANGED <<cache, sent>>

NotifyRecord(c) ==
  /\ at[c] = "notified"
  /\ record_notification(task[c], reply[c].status)
  /\ reply' = [reply EXCEPT ![c] = NoReply]
  /\ Return(c)
  /\ UNCHANGED <<taskvars, sent>>

-----------------------------------------------------------------------------
(* refresh_notifications: a snapshot, a heartbeat, then polls until one     *)
(* brings nothing.  status goes on with what it has when one of them fails. *)

\* The end of the refresh: of devit_orchestration_status, or on to get_task.
Refreshed(c) == IF task[c] = NoTask THEN Return(c) ELSE GoTo(c, "read") /\ UNCHANGED task

status_snapshot(c) ==
  /\ at[c] = "snapshot"
  /\ reply' = [reply EXCEPT ![c] = Snapshot]
  /\ GoTo(c, "apply")
  /\ UNCHANGED <<taskvars, cache, sent, task>>

\* No answer within a second: on to the heartbeat.
SnapshotLost(c) ==
  /\ at[c] = "snapshot"
  /\ GoTo(c, "heartbeat")
  /\ UNCHANGED <<taskvars, cache, sent, task, reply>>

\* Slips: the snapshot is merged into the cache instead of replacing it; only
\* the active tasks are taken from it.
SnapshotMerges(c) ==
  /\ at[c] = "apply"
  /\ cached_active' = [t \in Tasks |-> IF cached_active[t] = "none"
                                       THEN reply[c].active[t] ELSE cached_active[t]]
  /\ cached_completed' = [t \in Tasks |-> IF cached_completed[t] = "none"
                                          THEN reply[c].ended[t] ELSE cached_completed[t]]
  /\ reply' = [reply EXCEPT ![c] = NoReply]
  /\ GoTo(c, "heartbeat")
  /\ UNCHANGED <<taskvars, sent, task>>
SnapshotActiveOnly(c) ==
  /\ at[c] = "apply"
  /\ cached_active' = reply[c].active
  /\ reply' = [reply EXCEPT ![c] = NoReply]
  /\ GoTo(c, "heartbeat")
  /\ UNCHANGED <<taskvars, cached_completed, sent, task>>

process_snapshot(c) ==
  /\ at[c] = "apply"
  /\ cached_active' = reply[c].active
  /\ cached_completed' = reply[c].ended
  /\ reply' = [reply EXCEPT ![c] = NoReply]
  /\ GoTo(c, "heartbeat")
  /\ UNCHANGED <<taskvars, sent, task>>

\* HEARTBEAT or POLL: the queue is taken as a whole and its head is the reply,
\* which may be lost; without one the loop ends.
Fetch(c) ==
  /\ at[c] \in {"heartbeat", "poll"}
  /\ TakeQueue
  /\ \/ /\ queue # <<>>
        /\ reply' = [reply EXCEPT ![c] = Head(queue)]
        /\ GoTo(c, "note") /\ UNCHANGED task
     \/ /\ UNCHANGED reply
        /\ IF at[c] = "heartbeat" THEN GoTo(c, "poll") /\ UNCHANGED task
           ELSE Refreshed(c)
  /\ UNCHANGED <<cache, sent>>

\* Slip: any message is taken for a NOTIFY.
NoteOfAnyKind(c) ==
  /\ at[c] = "note"
  /\ record_notification(reply[c].task, reply[c].status)
  /\ reply' = [reply EXCEPT ![c] = NoReply]
  /\ GoTo(c, "poll")
  /\ UNCHANGED <<taskvars, sent, task>>

process_notification(c) ==
  /\ at[c] = "note"
  /\ IF reply[c].kind = "NOTIFY" THEN record_notification(reply[c].task, reply[c].status)
     ELSE UNCHANGED cache
  /\ reply' = [reply EXCEPT ![c] = NoReply]
  /\ GoTo(c, "poll")
  /\ UNCHANGED <<taskvars, sent, task>>

\* One of the requests fails: the client is invalidated and the error logged.
RefreshFails(c) ==
  /\ at[c] \in {"snapshot", "heartbeat", "poll"}
  /\ Refreshed(c)
  /\ UNCHANGED <<taskvars, cache, sent, reply>>

devit_orchestration_status(c) ==
  Call(c, NoTask, "snapshot") /\ UNCHANGED <<taskvars, cache, sent, reply>>

-----------------------------------------------------------------------------
(* devit_task_result: read, and refresh as long as there is nothing to      *)
(* tell, up to MAX_ATTEMPTS.                                               *)

devit_task_result(c, t) ==
  t \in sent /\ Call(c, t, "read") /\ UNCHANGED <<taskvars, cache, sent, reply>>

\* A terminal task is the answer; so is one that has notifications.
ReadAnswers(c) ==
  /\ at[c] = "read" /\ get_task(task[c]) # "none"
  /\ Return(c)
  /\ UNCHANGED <<taskvars, cache, sent, reply>>

\* Nothing to tell yet: refresh and read again, or give up.
ReadRetries(c) ==
  /\ at[c] = "read" /\ get_task(task[c]) \notin Terminal
  /\ \/ GoTo(c, "snapshot") /\ UNCHANGED task
     \/ Return(c)
  /\ UNCHANGED <<taskvars, cache, sent, reply>>

-----------------------------------------------------------------------------
(* The daemon on its own: what it does with a DELEGATE that was sent, the   *)
(* reports of workers and of the clock, and its restart.                   *)

Daemon ==
  /\ \/ \E t \in sent, told \in BOOLEAN :
          /\ told => Len(queue) < QueueBound
          /\ \/ Hold(t, told) \/ Refuse(t, told)
             \/ \E s \in Reports : Report(t, s, told)
     \/ \E t \in sent : Forget(t) \/ \E s \in Open : Accept(t, s)
     \/ queue # <<>> /\ TakeQueue
     \/ Restart
  /\ UNCHANGED client

Tool(c) ==
  \/ \E t \in Tasks : DelegateSend(c, t) \/ devit_task_result(c, t)
  \/ \E t \in Tasks, s \in Reports : NotifySend(c, t, s)
  \/ record_task(c) \/ NotifyRecord(c)
  \/ devit_orchestration_status(c)
  \/ ReadAnswers(c) \/ ReadRetries(c)

refresh_notifications(c) ==
  \/ status_snapshot(c) \/ SnapshotLost(c) \/ process_snapshot(c)
  \/ Fetch(c) \/ process_notification(c) \/ RefreshFails(c)

OrchestratorNext ==
  \/ Daemon
  \/ \E c \in Callers : Tool(c) \/ refresh_notifications(c)

OrchestratorSpec == OrchestratorInit /\ [][OrchestratorNext]_vars

\* Fairness: one caller asks for the status again and again and its calls go on;
\* not every snapshot is lost and not every poll finds a new note.
Fairness ==
  /\ SF_vars(devit_orchestration_status(Asker))
  /\ SF_vars(status_snapshot(Asker))
  /\ SF_vars(Fetch(Asker) /\ at'[Asker] # "note")
  /\ WF_vars(\/ record_task(Asker) \/ NotifyRecord(Asker)
               \/ process_snapshot(Asker) \/ process_notification(Asker)
               \/ ReadAnswers(Asker) \/ ReadRetries(Asker))

FairSpec == OrchestratorSpec /\ Fairness

-----------------------------------------------------------------------------
TypeOK ==
  /\ stage \in [Tasks -> {"new", "owed", "dealt"}]
  /\ active \in [Tasks -> Open \cup {"none"}]
  /\ ended \in [Tasks -> Terminal \cup {"none"}]
  /\ cached_active \in [Tasks -> Open \cup {"none"}]
  /\ cached_completed \in [Tasks -> Terminal \cup {"none"}]
  /\ sent \subseteq Tasks /\ \A t \in Tasks \ sent : stage[t] = "new"
  /\ at \in [Callers -> Labels]
  /\ task \in [Callers -> Tasks \cup {NoTask}]
  /\ \A c \in Callers :
       reply[c].kind = CASE at[c] = "apply" -> "snapshot"
                         [] at[c] = "notified" -> "NOTIFY"
                         [] at[c] = "note" -> reply[c].kind
                         [] OTHER -> "nothing"

\* A task that has ended for good is seen so for good, whatever was lost, and
\* in whatever order snapshots and notes were applied.
Settled(t, s) ==
  /\ active[t] = "none" /\ ended[t] = s
  /\ \A c \in Callers : ~(at[c] \in {"record", "notified"} /\ task[c] = t)
SettledIsSeen ==
  \A t \in Tasks : \A s \in Terminal : <>[]Settled(t, s) => <>[](get_task(t) = s)
=============================================================================
