----------------------------- MODULE DevitDaemon -----------------------------
(***************************************************************************)
(* devitd, the orchestration daemon (devitd/src/main.rs): the State behind   *)
(* its mutex, one action per critical section of the message handlers, the *)
(* periodic cleanup, the subprocess workers, idle shutdown and restart.    *)
(*                                                                         *)
(* A task id is the msg_id of the DELEGATE that created it, a UUID made    *)
(* fresh by DevitClient::delegate, so what a Lease or a PendingApproval    *)
(* copies out of that message is looked up in msg[t].  Wall-clock tests    *)
(* (lease deadline, heartbeat age, idle time) are states that time moves.  *)
(***************************************************************************)
EXTENDS Naturals, Sequences, FiniteSets

CONSTANTS
  Delegators,           \* idents of the clients that delegate tasks
  Pollers,              \* idents of workers that poll the daemon
  Configured,           \* workers with a [workers.<id>] entry: run as subprocess
  Approver,             \* approver_target
  Tasks,                \* message ids of DELEGATE messages
  NoMsg,                \* no DELEGATE with this id was sent yet
  NoIdent,              \* a NOTIFY without return_to
  Reports,              \* status strings that clients put in a NOTIFY
  MAX_COMPLETED_TASKS,
  QueueBound,           \* bound on a notification queue (model checking only)
  Stops                 \* whether the daemon process may stop and be restarted

Idents == Delegators \cup Pollers \cup Configured \cup {Approver}
Workers == Pollers \cup Configured
StatusStrings == {"completed", "failed", "cancelled", "pending", "progress"}
Verdicts == {"Allow", "Deny", "NeedApproval"}       \* policy::PolicyAction

Msg == [from : Delegators, to : Workers, return_to : Delegators,
        verdict : Verdicts]
Note == [kind : {"DELEGATE", "NOTIFY", "APPROVAL"}, task : Tasks,
         status : StatusStrings \cup {"none"}]
Events == {"DELEGATE", "NOTIFY", "deny", "request_approval", "granted", "denied"}
TaskStatus == {"Pending", "InProgress", "Completed", "Failed", "Cancelled"}
\* Slip: finalize_task without the Cancelled arm.
TerminalWithoutCancelled == {"Completed", "Failed"}
Terminal == {"Completed", "Failed", "Cancelled"}

ASSUME DaemonAssumption ==
  /\ NoMsg \notin Msg
  /\ NoIdent \notin Idents
  /\ Pollers \cap Configured = {}
  /\ Delegators \cap Workers = {}
  /\ Reports \subseteq StatusStrings
  /\ MAX_COMPLETED_TASKS \in Nat \ {0}
  /\ QueueBound \in Nat
  /\ Stops \in BOOLEAN

VARIABLES
  \* State, as devitd/src/main.rs names its fields
  clients,               \* ident -> "absent", "alive" or "stale" (no heartbeat
                         \* for HEARTBEAT_TIMEOUT)
  leases,                \* task -> "none", "running" or "due" (deadline passed)
  expired_leases,        \* tasks whose lease was kept after its timeout
  pending_notifications, \* ident -> queue of Notes
  pending_approvals,     \* tasks waiting for a decision
  tasks_active,          \* task -> TaskStatus or "none"
  tasks_completed,       \* task -> TaskStatus or "none"
  older,                 \* task -> completed tasks with an older last_activity
  \* the rest of the process
  handler,               \* task -> where a handler stands that left the lock
  running,               \* tasks a subprocess worker is executing
  sweeping,              \* cleanup_expired holds the lock
  phase,                 \* the process: up, about to exit, or gone
  idle,                  \* idle_since is set in spawn_idle_shutdown_task
  \* the outside world and history
  msg,                   \* task -> its DELEGATE message, or NoMsg
  received,              \* ident -> Notes that reached that client
  journal                \* <<event, id>> pairs given to Journal::append

state == <<clients, leases, expired_leases, pending_notifications,
           pending_approvals, tasks_active, tasks_completed, older>>
vars == <<state, handler, running, sweeping, phase, idle, msg, received, journal>>

-----------------------------------------------------------------------------
(* Helpers of impl State.                                                   *)

map_status(s) ==
  CASE s = "completed" -> "Completed"
    [] s = "failed"    -> "Failed"
    [] s = "cancelled" -> "Cancelled"
    [] s = "pending"   -> "Pending"
    [] OTHER           -> "InProgress"

NoteOf(kind, t, s) == [kind |-> kind, task |-> t, status |-> s]

\* add_notification: queues are unbounded in the code.
HasRoom(c) == Len(pending_notifications[c]) < QueueBound
add_notification(c, n) ==
  pending_notifications' = [pending_notifications EXCEPT ![c] = Append(@, n)]

has_live_clients == \E c \in Idents : clients[c] = "alive"
has_inflight_work ==
  \/ \E t \in Tasks : tasks_active[t] # "none"
  \/ \E t \in Tasks : leases[t] # "none"
  \/ pending_approvals # {}

InCompleted == {t \in Tasks : tasks_completed[t] # "none"}

\* last_activity of t becomes now: every completed task but t is older than t.
Touched(t, done) ==
  [u \in Tasks |-> IF u = t THEN done \ {t} ELSE older[u] \ {t}]

\* Slips: one task too many is kept; the sort is the wrong way round.
PruneKeepsOneMore(done, age) ==
  {t \in done : Cardinality({u \in done : t \in age[u]}) <= MAX_COMPLETED_TASKS}
PruneDropsNewest(done, age) ==
  {t \in done : Cardinality(done \cap age[t]) < MAX_COMPLETED_TASKS}

\* prune_completed: with the tasks sorted by last_activity, those that have
\* MAX_COMPLETED_TASKS or more newer ones are dropped.
prune_completed(done, age) ==
  {t \in done : Cardinality({u \in done : t \in age[u]}) < MAX_COMPLETED_TASKS}

\* finalize_task with a terminal status: insert and prune.
Complete(t, s) ==
  LET done == InCompleted \cup {t}
      age  == Touched(t, done)
      kept == prune_completed(done, age)
  IN  /\ tasks_completed' = [u \in Tasks |-> IF u \notin kept THEN "none"
                                             ELSE IF u = t THEN s
                                             ELSE tasks_completed[u]]
      /\ older' = [u \in Tasks |-> IF u \in kept THEN age[u] \cap kept ELSE {}]

\* Take the task out of tasks_active, or else out of tasks_completed, give it
\* status s and finalize_task it (handle_notify and cleanup_expired).
UpdateTask(t, s) ==
  IF s \in Terminal
  THEN /\ tasks_active' = [tasks_active EXCEPT ![t] = "none"]
       /\ Complete(t, s)
  ELSE /\ tasks_active' = [tasks_active EXCEPT ![t] = s]
       /\ IF tasks_active[t] = "none"
          THEN /\ tasks_completed' = [tasks_completed EXCEPT ![t] = "none"]
               /\ older' = [u \in Tasks |-> IF u = t THEN {} ELSE older[u] \ {t}]
          ELSE UNCHANGED <<tasks_completed, older>>

\* record_immediate_failure, then queue_failure_notification for the sender
\* when it is not the return target.  tasks_active is not consulted.
record_immediate_failure(t, m) ==
  LET n == NoteOf("NOTIFY", t, "failed") IN
  /\ pending_notifications' =
       [c \in Idents |-> IF c \in {m.return_to, m.from}
                         THEN Append(pending_notifications[c], n)
                         ELSE pending_notifications[c]]
  /\ Complete(t, "Failed")

\* A handler can take the state lock.
CanLock == ~sweeping /\ phase # "exited"

Journaled(event, t) == journal' = journal \cup {<<event, t>>}

-----------------------------------------------------------------------------
EmptyState ==
  [clients |-> [c \in Idents |-> "absent"], leases |-> [t \in Tasks |-> "none"],
   queues  |-> [c \in Idents |-> <<>>],     tasks  |-> [t \in Tasks |-> "none"],
   older   |-> [t \in Tasks |-> {}]]

Init ==
  /\ clients = EmptyState.clients
  /\ leases = EmptyState.leases
  /\ expired_leases = {}
  /\ pending_notifications = EmptyState.queues
  /\ pending_approvals = {}
  /\ tasks_active = EmptyState.tasks
  /\ tasks_completed = EmptyState.tasks
  /\ older = EmptyState.older
  /\ handler = [t \in Tasks |-> "none"]
  /\ running = {}
  /\ sweeping = FALSE
  /\ phase = "up"
  /\ idle = FALSE
  /\ msg = [t \in Tasks |-> NoMsg]
  /\ received = [c \in Idents |-> {}]
  /\ journal = {}

process == <<handler, running, sweeping, phase, idle>>
tasks == <<leases, expired_leases, tasks_active, tasks_completed, older>>

-----------------------------------------------------------------------------
(* REGISTER, HEARTBEAT, POLL.                                              *)

handle_register(c) ==
  /\ CanLock
  /\ clients' = [clients EXCEPT ![c] = "alive"]
  /\ Journaled("REGISTER", c)
  /\ UNCHANGED <<tasks, pending_notifications, pending_approvals, process,
                 msg, received>>

\* get_notifications takes the whole queue; only the first one is the reply,
\* and the client may have given up on the reply (1 s) before it arrives.
Deliver(c) ==
  /\ pending_notifications' = [pending_notifications EXCEPT ![c] = <<>>]
  /\ \/ /\ pending_notifications[c] # <<>>
        /\ received' = [received EXCEPT ![c] =
                          @ \cup {Head(pending_notifications[c])}]
     \/ UNCHANGED received

\* A client that is not (or no longer) registered is not put back.
handle_heartbeat(c) ==
  /\ CanLock
  /\ clients' = [clients EXCEPT ![c] = IF @ = "absent" THEN @ ELSE "alive"]
  /\ Deliver(c)
  /\ UNCHANGED <<tasks, pending_approvals, process, msg, journal>>

handle_poll(c) ==
  /\ CanLock
  /\ Deliver(c)
  /\ UNCHANGED <<clients, tasks, pending_approvals, process, msg, journal>>

-----------------------------------------------------------------------------
(* DELEGATE, by the verdict of Policy::eval and the kind of worker.        *)

Sent(t, m) == msg[t] = NoMsg /\ msg' = [msg EXCEPT ![t] = m]

DelegateDenied(t, m) ==
  /\ CanLock /\ Sent(t, m)
  /\ m.verdict = "Deny"
  /\ record_immediate_failure(t, m)
  /\ Journaled("deny", t)
  /\ UNCHANGED <<clients, leases, expired_leases, pending_approvals,
                 tasks_active, process, received>>

handle_approval_request(t, m) ==
  /\ CanLock /\ Sent(t, m)
  /\ m.verdict = "NeedApproval"
  /\ pending_approvals' = pending_approvals \cup {t}
  /\ add_notification(Approver, NoteOf("APPROVAL", t, "none"))
  /\ Journaled("request_approval", t)
  /\ UNCHANGED <<clients, tasks, process, received>>

\* Slip: the task is recorded without a lease.
ProceedWithoutLease(t, m, notify_worker) ==
  /\ tasks_active' = [tasks_active EXCEPT ![t] =
                        IF notify_worker THEN "Pending" ELSE "InProgress"]
  /\ IF notify_worker THEN add_notification(m.to, NoteOf("DELEGATE", t, "none"))
                      ELSE UNCHANGED pending_notifications
  /\ Journaled("DELEGATE", t)
  /\ UNCHANGED <<clients, leases, expired_leases, pending_approvals,
                 tasks_completed, older, received>>

\* The critical section of proceed_with_delegation.
proceed_with_delegation(t, m, notify_worker) ==
  /\ leases' = [leases EXCEPT ![t] = "running"]
  /\ tasks_active' = [tasks_active EXCEPT ![t] =
                        IF notify_worker THEN "Pending" ELSE "InProgress"]
  /\ IF notify_worker THEN add_notification(m.to, NoteOf("DELEGATE", t, "none"))
                      ELSE UNCHANGED pending_notifications
  /\ Journaled("DELEGATE", t)
  /\ UNCHANGED <<clients, expired_leases, pending_approvals, tasks_completed,
                 older, received>>

\* A configured worker: recorded, then spawned.
DelegateSubprocess(t, m) ==
  /\ CanLock /\ Sent(t, m)
  /\ m.verdict = "Allow" /\ m.to \in Configured
  /\ proceed_with_delegation(t, m, FALSE)
  /\ running' = running \cup {t}
  /\ UNCHANGED <<handler, sweeping, phase, idle>>

\* A polling worker: is_client_alive is read under the lock and the lock is
\* released; a task for a worker that is not there is forgotten.
DelegatePolling(t, m) ==
  /\ CanLock /\ Sent(t, m)
  /\ m.verdict = "Allow" /\ m.to \in Pollers
  /\ handler' = [handler EXCEPT ![t] = IF clients[m.to] = "alive" THEN "admitted"
                                       ELSE @]
  /\ UNCHANGED <<state, running, sweeping, phase, idle, received, journal>>

\* ... and taken again: the rest of the handler.
Proceed(t) ==
  /\ CanLock /\ handler[t] = "admitted"
  /\ proceed_with_delegation(t, msg[t], TRUE)
  /\ handler' = [handler EXCEPT ![t] = "none"]
  /\ UNCHANGED <<running, sweeping, phase, idle, msg>>

handle_delegate(t, m) ==
  \/ DelegateDenied(t, m)
  \/ handle_approval_request(t, m)
  \/ DelegateSubprocess(t, m)
  \/ DelegatePolling(t, m)

-----------------------------------------------------------------------------
(* APPROVAL_DECISION: three critical sections.                             *)

\* Slip: the request is looked up with get, not remove.
DecisionKeepsRequest(t, status) ==
  /\ CanLock
  /\ NoteOf("APPROVAL", t, "none") \in received[Approver]
  /\ t \in pending_approvals
  /\ handler' = [handler EXCEPT ![t] = status]
  /\ UNCHANGED <<state, running, sweeping, phase, idle, msg, received, journal>>

\* The request is removed; a status that is neither "granted" nor "denied"
\* ends there.
handle_approval_decision(t, status) ==
  /\ CanLock
  /\ NoteOf("APPROVAL", t, "none") \in received[Approver]
  /\ t \in pending_approvals
  /\ pending_approvals' = pending_approvals \ {t}
  /\ handler' = [handler EXCEPT ![t] = status]
  /\ UNCHANGED <<clients, tasks, pending_notifications, running, sweeping, phase,
                 idle, msg, received, journal>>

\* Granted: journaled, and on to proceed_with_delegation (notify_worker = true).
Granted(t) ==
  /\ CanLock /\ handler[t] = "granted"
  /\ handler' = [handler EXCEPT ![t] = "admitted"]
  /\ Journaled("granted", t)
  /\ UNCHANGED <<state, running, sweeping, phase, idle, msg, received>>

\* Slip: the "denied" arm goes on to proceed_with_delegation.
DeniedFallsThrough(t) ==
  /\ CanLock /\ handler[t] = "denied"
  /\ handler' = [handler EXCEPT ![t] = "admitted"]
  /\ Journaled("denied", t)
  /\ UNCHANGED <<state, running, sweeping, phase, idle, msg, received>>

Denied(t) ==
  /\ CanLock /\ handler[t] = "denied"
  /\ handler' = [handler EXCEPT ![t] = "none"]
  /\ record_immediate_failure(t, msg[t])
  /\ Journaled("denied", t)
  /\ UNCHANGED <<clients, leases, expired_leases, pending_approvals, tasks_active,
                 running, sweeping, phase, idle, msg, received>>

-----------------------------------------------------------------------------
(* NOTIFY (any status but "ack").                                          *)

\* Slip: the lease is looked up with get, not remove.
NotifyKeepsLease(c, t, s, return_to) ==
  LET leased == leases[t] # "none" \/ t \in expired_leases
      target == IF return_to # NoIdent THEN return_to
                ELSE IF leased THEN msg[t].from ELSE c
  IN  /\ CanLock
      /\ UpdateTask(t, map_status(s))
      /\ add_notification(target, NoteOf("NOTIFY", t, s))
      /\ Journaled("NOTIFY", t)
      /\ UNCHANGED <<clients, leases, expired_leases, pending_approvals, handler,
                     sweeping, phase, idle, msg, received>>

\* The body of handle_notify.  The lease ends, whatever the status; without
\* return_to the note goes to the lease's original_from or, late, to the sender.
handle_notify(c, t, s, return_to) ==
  LET leased == leases[t] # "none" \/ t \in expired_leases
      target == IF return_to # NoIdent THEN return_to
                ELSE IF leased THEN msg[t].from ELSE c
  IN  /\ CanLock
      /\ leases' = [leases EXCEPT ![t] = "none"]
      /\ expired_leases' = IF leases[t] = "none" THEN expired_leases \ {t}
                           ELSE expired_leases
      /\ UpdateTask(t, map_status(s))
      /\ add_notification(target, NoteOf("NOTIFY", t, s))
      /\ Journaled("NOTIFY", t)
      /\ UNCHANGED <<clients, pending_approvals, handler, sweeping, phase, idle,
                     msg, received>>

\* A worker reports on a task it was given, or the delegator on its own task.
\* return_to is left out (WorkerBridge), the sender itself (DaemonBackend) or
\* the one of the task (devit-worker).
Notify(c, t, s, return_to) ==
  /\ msg[t] # NoMsg
  /\ \/ c = msg[t].from
     \/ NoteOf("DELEGATE", t, "none") \in received[c]
  /\ return_to \in {NoIdent, c, msg[t].return_to}
  /\ \A d \in Idents : HasRoom(d)
  /\ handle_notify(c, t, s, return_to)
  /\ UNCHANGED running

\* A subprocess ends; the spawned task calls handle_notify itself.
SubprocessDone(t, s) ==
  /\ t \in running
  /\ handle_notify(msg[t].to, t, s, msg[t].return_to)
  /\ running' = running \ {t}

-----------------------------------------------------------------------------
(* Time and cleanup_expired, which keeps the lock until EndSweep.          *)

LeaseDeadline(t) ==
  /\ ~sweeping /\ leases[t] = "running"
  /\ leases' = [leases EXCEPT ![t] = "due"]
  /\ UNCHANGED <<clients, expired_leases, pending_notifications, pending_approvals,
                 tasks_active, tasks_completed, older, process, msg, received,
                 journal>>

HeartbeatLapse(c) ==
  /\ clients[c] = "alive"
  /\ clients' = [clients EXCEPT ![c] = "stale"]
  /\ UNCHANGED <<tasks, pending_notifications, pending_approvals, process, msg,
                 received, journal>>

\* Slips: the expired task stays in tasks_active; nobody is told; the timeout
\* is not journaled; a worker that is there is spared.
ExpireKeepsTask(t) ==
  /\ phase # "exited" /\ leases[t] = "due"
  /\ sweeping' = TRUE
  /\ leases' = [leases EXCEPT ![t] = "none"]
  /\ expired_leases' = expired_leases \cup {t}
  /\ add_notification(msg[t].return_to, NoteOf("NOTIFY", t, "failed"))
  /\ Journaled("NOTIFY", t)
  /\ UNCHANGED <<clients, pending_approvals, tasks_active, tasks_completed, older,
                 handler, running, phase, idle, msg, received>>
ExpireSilently(t) ==
  /\ phase # "exited" /\ leases[t] = "due"
  /\ sweeping' = TRUE
  /\ leases' = [leases EXCEPT ![t] = "none"]
  /\ expired_leases' = expired_leases \cup {t}
  /\ UpdateTask(t, "Failed")
  /\ Journaled("NOTIFY", t)
  /\ UNCHANGED <<clients, pending_approvals, pending_notifications, handler, running,
                 phase, idle, msg, received>>
ExpireUnjournaled(t) ==
  /\ phase # "exited" /\ leases[t] = "due"
  /\ sweeping' = TRUE
  /\ leases' = [leases EXCEPT ![t] = "none"]
  /\ expired_leases' = expired_leases \cup {t}
  /\ UpdateTask(t, "Failed")
  /\ add_notification(msg[t].return_to, NoteOf("NOTIFY", t, "failed"))
  /\ UNCHANGED <<clients, pending_approvals, handler, running, phase, idle, msg,
                 received, journal>>
ExpireOfTheDead(t) ==
  /\ phase # "exited" /\ leases[t] = "due" /\ clients[msg[t].to] # "alive"
  /\ sweeping' = TRUE
  /\ leases' = [leases EXCEPT ![t] = "none"]
  /\ expired_leases' = expired_leases \cup {t}
  /\ UpdateTask(t, "Failed")
  /\ add_notification(msg[t].return_to, NoteOf("NOTIFY", t, "failed"))
  /\ Journaled("NOTIFY", t)
  /\ UNCHANGED <<clients, pending_approvals, handler, running, phase, idle, msg,
                 received>>

ExpireLease(t) ==
  /\ phase # "exited" /\ leases[t] = "due"
  /\ sweeping' = TRUE
  /\ leases' = [leases EXCEPT ![t] = "none"]
  /\ expired_leases' = expired_leases \cup {t}
  /\ UpdateTask(t, "Failed")
  /\ add_notification(msg[t].return_to, NoteOf("NOTIFY", t, "failed"))
  /\ Journaled("NOTIFY", t)
  /\ UNCHANGED <<clients, pending_approvals, handler, running, phase, idle, msg,
                 received>>

\* After the due leases, the clients whose heartbeat lapsed go, and with them
\* what was queued for them.
EndSweep ==
  LET dead_clients == {c \in Idents : clients[c] = "stale"} IN
  /\ phase # "exited"
  /\ \A t \in Tasks : leases[t] # "due"
  /\ sweeping' = FALSE
  /\ clients' = [c \in Idents |-> IF c \in dead_clients THEN "absent" ELSE clients[c]]
  /\ pending_notifications' = [c \in Idents |-> IF c \in dead_clients THEN <<>>
                                                ELSE pending_notifications[c]]
  /\ UNCHANGED <<tasks, pending_approvals, handler, running, phase, idle, msg,
                 received, journal>>

-----------------------------------------------------------------------------
(* The life of the process.                                                *)

\* One tick of spawn_idle_shutdown_task; the second idle one may be the last.
IdleTick ==
  /\ Stops /\ CanLock /\ phase = "up"
  /\ idle' = ~(has_live_clients \/ has_inflight_work)
  /\ \/ UNCHANGED phase
     \/ idle /\ idle' /\ phase' = "idle_exit"
  /\ UNCHANGED <<state, handler, running, sweeping, msg, received, journal>>

\* Ctrl+C or SIGTERM, for the first caller of shutdown_daemon.
Signal ==
  /\ Stops /\ phase = "up"
  /\ phase' = "signal_exit"
  /\ UNCHANGED <<state, handler, running, sweeping, idle, msg, received, journal>>

\* 200 ms later, in which the handlers went on.
Exit ==
  /\ phase \in {"idle_exit", "signal_exit"}
  /\ phase' = "exited"
  /\ UNCHANGED <<state, handler, running, sweeping, idle, msg, received, journal>>

\* State::new in a new process.
Restart ==
  /\ phase = "exited"
  /\ clients' = EmptyState.clients
  /\ leases' = EmptyState.leases
  /\ expired_leases' = {}
  /\ pending_notifications' = EmptyState.queues
  /\ pending_approvals' = {}
  /\ tasks_active' = EmptyState.tasks
  /\ tasks_completed' = EmptyState.tasks
  /\ older' = EmptyState.older
  /\ handler' = [t \in Tasks |-> "none"]
  /\ running' = {}
  /\ sweeping' = FALSE
  /\ phase' = "up"
  /\ idle' = FALSE
  /\ UNCHANGED <<msg, received, journal>>

-----------------------------------------------------------------------------
handle_message ==
  \/ \E c \in Idents \ Configured :
       handle_register(c) \/ handle_heartbeat(c) \/ handle_poll(c)
  \/ \E t \in Tasks :
       \/ \E m \in Msg : handle_delegate(t, m)
       \/ \E s \in {"granted", "denied", "none"} : handle_approval_decision(t, s)
       \/ \E s \in Reports, c \in Idents, return_to \in Idents \cup {NoIdent} :
            Notify(c, t, s, return_to)

Background ==
  \/ \E t \in Tasks :
       \/ Proceed(t) \/ Granted(t) \/ Denied(t)
       \/ \E s \in {"completed", "failed"} : SubprocessDone(t, s)
       \/ LeaseDeadline(t) \/ ExpireLease(t)
  \/ \E c \in Idents : HeartbeatLapse(c)
  \/ EndSweep

Process == IdleTick \/ Signal \/ Exit \/ Restart

Next == handle_message \/ Background \/ Process

Spec == Init /\ [][Next]_vars

\* Fairness: deadlines pass, the cleanup task ticks every 10 s and runs to its
\* end, and a handler that holds or waits for the lock goes on. A subprocess ends
\* or is ended by the smaller of its two timeouts, and its task then reports.
Fairness ==
  /\ \A t \in Tasks : /\ WF_vars(LeaseDeadline(t)) /\ WF_vars(ExpireLease(t))
                      /\ WF_vars(Proceed(t)) /\ WF_vars(Granted(t))
                      /\ WF_vars(Denied(t))
                      /\ WF_vars(\E s \in {"completed", "failed"} : SubprocessDone(t, s))
  /\ WF_vars(EndSweep)

FairSpec == Spec /\ Fairness

-----------------------------------------------------------------------------
TypeOK ==
  /\ clients \in [Idents -> {"absent", "alive", "stale"}]
  /\ leases \in [Tasks -> {"none", "running", "due"}]
  /\ expired_leases \subseteq Tasks
  /\ pending_notifications \in [Idents -> Seq(Note)]
  /\ pending_approvals \subseteq Tasks
  /\ tasks_active \in [Tasks -> {"none", "Pending", "InProgress"}]
  /\ tasks_completed \in [Tasks -> Terminal \cup {"none"}]
  /\ older \in [Tasks -> SUBSET Tasks]
  /\ handler \in [Tasks -> {"none", "admitted", "granted", "denied"}]
  /\ running \subseteq Tasks
  /\ sweeping \in BOOLEAN /\ idle \in BOOLEAN
  /\ phase \in {"up", "idle_exit", "signal_exit", "exited"}
  /\ msg \in [Tasks -> Msg \cup {NoMsg}]
  /\ received \in [Idents -> SUBSET Note]
  /\ journal \subseteq (Events \X Tasks) \cup ({"REGISTER"} \X Idents)

\* A task that holds a lease is in tasks_active, and one whose lease expired is
\* neither leased nor active (handle_notify, cleanup_expired and
\* proceed_with_delegation keep three maps in step).
LeasedIsActive ==
  /\ \A t \in Tasks : leases[t] # "none" => tasks_active[t] # "none"
  /\ \A t \in expired_leases : leases[t] = "none" /\ tasks_active[t] = "none"

\* When workers report final statuses only, an active task always has a lease,
\* so that its timeout is still to come (cleanup_expired looks at leases only).
ActiveIsLeased ==
  Reports \subseteq {"completed", "failed", "cancelled"} =>
    \A t \in Tasks : tasks_active[t] # "none" => leases[t] # "none"

\* No worker is given, or runs, a task that the policy denied or that nobody
\* approved (handle_delegate, handle_approval_decision).
Authorized(t) ==
  /\ msg[t] # NoMsg
  /\ \/ msg[t].verdict = "Allow"
     \/ msg[t].verdict = "NeedApproval" /\ <<"granted", t>> \in journal
Handed(t) ==
  \/ leases[t] # "none" \/ t \in running
  \/ \E c \in Idents : NoteOf("DELEGATE", t, "none") \in received[c]
  \/ \E c \in Idents : \E i \in DOMAIN pending_notifications[c] :
       pending_notifications[c][i] = NoteOf("DELEGATE", t, "none")
NoUnapprovedWork == \A t \in Tasks : Handed(t) => Authorized(t)

\* However often the approver answers, a request is decided once
\* (handle_approval_decision works in three critical sections).
DecidedOnce ==
  \A t \in Tasks : ~({<<"granted", t>>, <<"denied", t>>} \subseteq journal)

\* tasks_completed never holds more than MAX_COMPLETED_TASKS (prune_completed).
CompletedBounded == Cardinality(InCompleted) <= MAX_COMPLETED_TASKS

\* A task leaves tasks_active only for tasks_completed: however full that is,
\* the result just recorded is not what prune_completed drops.
FreshResultKept ==
  [][\A t \in Tasks :
       tasks_active[t] # "none" /\ tasks_active'[t] = "none" /\ phase # "exited"
         => tasks_completed'[t] # "none"]_vars

\* Whenever a lease ends somebody is told: a NOTIFY is queued in the same step
\* (handle_notify, cleanup_expired).
NoSilentEnd ==
  [][\A t \in Tasks :
       leases[t] # "none" /\ leases'[t] = "none" /\ phase # "exited" =>
         \E c \in Idents : \E i \in DOMAIN pending_notifications'[c] :
           /\ pending_notifications'[c][i].kind = "NOTIFY"
           /\ pending_notifications'[c][i].task = t]_vars

\* The journal tells the whole story of a task that was handed out: DELEGATE as
\* long as it is leased, and NOTIFY once it is no longer active.
AuditComplete ==
  \A t \in Tasks :
    /\ leases[t] # "none" => <<"DELEGATE", t>> \in journal
    /\ ~Stops /\ <<"DELEGATE", t>> \in journal /\ tasks_active[t] = "none"
         => <<"NOTIFY", t>> \in journal

\* Every lease ends, by a report or by cleanup_expired, unless the process does
\* (LEASE_TTL).  With ActiveIsLeased, every task that gets no progress report
\* ends.
LeaseEnds ==
  \A t \in Tasks : leases[t] # "none" ~> (leases[t] = "none" \/ phase = "exited")

-----------------------------------------------------------------------------
(* What the documents and comments say and the code does not do.           *)

\* "lease duration in seconds; the daemon enforces the lower of worker and task
\* timeouts" (docs/MCP_TOOLS.md): a task that was leased does not stay active
\* for ever (handle_notify ends the lease of a task that goes on).
LeaseBoundsTask ==
  \A t \in Tasks : leases[t] # "none" ~> tasks_active[t] = "none"
=============================================================================
