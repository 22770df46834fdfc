-------------------------- MODULE DevitDaemonProofs --------------------------
(***************************************************************************)
(* For any number of clients, workers and tasks: devitd's state is well    *)
(* typed, its task maps stay in step, a request is decided once, no worker *)
(* is handed a task that was not allowed or approved, every end is told    *)
(* and journaled, results are bounded with the newest one kept, and a      *)
(* client that delegates sees what DevitTasks promises.                    *)
(***************************************************************************)
EXTENDS DevitDaemonTasks, FiniteSetTheorems, TLAPS

Journals(event, t) == <<event, t>> \in journal

\* Nothing has happened to an id before its DELEGATE is sent.
Fresh(t) ==
  msg[t] = NoMsg => /\ t \notin pending_approvals /\ handler[t] = "none"
                    /\ ~Journals("DELEGATE", t)
                    /\ ~Journals("granted", t) /\ ~Journals("denied", t)

\* A task whose approval is still open: undecided, and not handed out.
Open(t) ==
  t \in pending_approvals \/ handler[t] \in {"granted", "denied"} =>
    /\ msg[t] # NoMsg /\ msg[t].verdict = "NeedApproval"
    /\ ~Journals("DELEGATE", t)
    /\ ~Journals("granted", t) /\ ~Journals("denied", t)

\* pending_approvals.remove hands a request to one handler.
Taken(t) == t \in pending_approvals => handler[t] = "none"

\* A handler on its way to proceed_with_delegation.
Admitted(t) ==
  handler[t] = "admitted" => Authorized(t) /\ ~Journals("DELEGATE", t)

\* Whatever was handed out is journaled, and what is journaled was authorized.
Tracked(t) ==
  /\ leases[t] # "none" \/ t \in expired_leases \/ t \in running
       => Journals("DELEGATE", t)
  /\ Journals("DELEGATE", t) => Authorized(t)

\* LeasedIsActive, task by task.
InStep(t) ==
  /\ leases[t] # "none" => tasks_active[t] # "none"
  /\ t \in expired_leases => leases[t] = "none" /\ tasks_active[t] = "none"

Once(t) == ~(Journals("granted", t) /\ Journals("denied", t))

TaskInv(t) == Fresh(t) /\ Open(t) /\ Taken(t) /\ Admitted(t) /\ Tracked(t)
              /\ InStep(t) /\ Once(t)

\* DELEGATE notes exist for journaled tasks only.
QueuesInv ==
  \A c \in Idents : \A i \in DOMAIN pending_notifications[c] :
    pending_notifications[c][i].kind = "DELEGATE"
      => Journals("DELEGATE", pending_notifications[c][i].task)
ReceivedInv ==
  \A c \in Idents : \A n \in received[c] :
    n.kind = "DELEGATE" => Journals("DELEGATE", n.task)

IInv == TypeOK /\ (\A t \in Tasks : TaskInv(t)) /\ QueuesInv /\ ReceivedInv

-----------------------------------------------------------------------------
(* What the helpers of State do.                                           *)

\* A message names clients of the daemon.
LEMMA MsgIdents ==
  ASSUME NEW m \in Msg
  PROVE  m.from \in Idents /\ m.to \in Idents /\ m.return_to \in Idents
  BY DEF Msg, Idents, Workers

LEMMA NoteType ==
  ASSUME NEW k \in {"DELEGATE", "NOTIFY", "APPROVAL"}, NEW t \in Tasks,
         NEW s \in StatusStrings \cup {"none"}
  PROVE  /\ NoteOf(k, t, s) \in Note
         /\ NoteOf(k, t, s).kind = k /\ NoteOf(k, t, s).task = t
  BY DEF NoteOf, Note

\* add_notification puts the note at the end of one queue (State::add_notification).
LEMMA AddNotification ==
  ASSUME NEW c \in Idents, NEW n \in Note,
         pending_notifications \in [Idents -> Seq(Note)],
         add_notification(c, n)
  PROVE  /\ pending_notifications' \in [Idents -> Seq(Note)]
         /\ \A d \in Idents : \A i \in DOMAIN pending_notifications'[d] :
              \/ pending_notifications'[d][i] = n
              \/ /\ i \in DOMAIN pending_notifications[d]
                 /\ pending_notifications'[d][i] = pending_notifications[d][i]
<1>1. pending_notifications' =
        [pending_notifications EXCEPT ![c] = Append(pending_notifications[c], n)]
  BY DEF add_notification
<1>2. Append(pending_notifications[c], n) \in Seq(Note)
  OBVIOUS
<1>3. pending_notifications' \in [Idents -> Seq(Note)]
  BY <1>1, <1>2
<1>4. ASSUME NEW d \in Idents, NEW i \in DOMAIN pending_notifications'[d]
      PROVE  \/ pending_notifications'[d][i] = n
             \/ /\ i \in DOMAIN pending_notifications[d]
                /\ pending_notifications'[d][i] = pending_notifications[d][i]
  <2> DEFINE q == pending_notifications[d]
  <2>1. q \in Seq(Note)
    OBVIOUS
  <2>2. CASE d = c
    <3>1. pending_notifications'[d] = Append(q, n)
      BY <1>1, <2>2
    <3> HIDE DEF q
    <3>2. i \in 1..Len(q)+1
      BY <1>4, <2>1, <3>1
    <3>3. CASE i \in 1..Len(q)
      BY <2>1, <3>1, <3>3 DEF q
    <3>4. CASE i = Len(q) + 1
      BY <2>1, <3>1, <3>4
    <3> QED
      BY <2>1, <3>2, <3>3, <3>4
  <2>3. CASE d # c
    BY <1>1, <1>4, <2>3
  <2> QED
    BY <2>2, <2>3
<1> QED
  BY <1>3, <1>4

\* finalize_task with a final status keeps the types (State::finalize_task).
LEMMA CompleteType ==
  ASSUME TypeOK, NEW t \in Tasks, NEW s \in Terminal, Complete(t, s)
  PROVE  /\ tasks_completed' \in [Tasks -> Terminal \cup {"none"}]
         /\ older' \in [Tasks -> SUBSET Tasks]
<1> DEFINE done == InCompleted \cup {t}
           age  == Touched(t, done)
           kept == prune_completed(done, age)
<1>1. done \subseteq Tasks
  BY DEF InCompleted
<1>2. \A u \in Tasks : age[u] \subseteq Tasks
  BY <1>1 DEF Touched, TypeOK
<1>3. /\ tasks_completed' = [u \in Tasks |-> IF u \notin kept THEN "none"
                                             ELSE IF u = t THEN s
                                             ELSE tasks_completed[u]]
      /\ older' = [u \in Tasks |-> IF u \in kept THEN age[u] \cap kept ELSE {}]
  BY DEF Complete
<1> HIDE DEF done, age, kept
<1> QED
  BY <1>2, <1>3 DEF TypeOK

\* What a report or a timeout does to the task maps (handle_notify,
\* State::cleanup_expired).
LEMMA UpdateTaskType ==
  ASSUME TypeOK, NEW t \in Tasks, NEW s \in TaskStatus, UpdateTask(t, s)
  PROVE  /\ tasks_active' = [tasks_active EXCEPT ![t] = IF s \in Terminal THEN "none"
                                                        ELSE s]
         /\ tasks_active' \in [Tasks -> {"none", "Pending", "InProgress"}]
         /\ tasks_completed' \in [Tasks -> Terminal \cup {"none"}]
         /\ older' \in [Tasks -> SUBSET Tasks]
<1>1. CASE s \in Terminal
  <2>1. tasks_active' = [tasks_active EXCEPT ![t] = "none"] /\ Complete(t, s)
    BY <1>1 DEF UpdateTask
  <2> QED
    BY <1>1, <2>1, CompleteType DEF TypeOK
<1>2. CASE s \notin Terminal
  <2>1. s \in {"Pending", "InProgress"}
    BY <1>2 DEF TaskStatus, Terminal
  <2>2. tasks_active' = [tasks_active EXCEPT ![t] = s]
    BY <1>2 DEF UpdateTask
  <2>3. \/ tasks_completed' = [tasks_completed EXCEPT ![t] = "none"]
        \/ tasks_completed' = tasks_completed
    BY <1>2 DEF UpdateTask
  <2>4. \/ older' = [u \in Tasks |-> IF u = t THEN {} ELSE older[u] \ {t}]
        \/ older' = older
    BY <1>2 DEF UpdateTask
  <2>5. older' \in [Tasks -> SUBSET Tasks]
    <3>1. older \in [Tasks -> SUBSET Tasks] /\ \A u \in Tasks : older[u] \subseteq Tasks
      BY DEF TypeOK
    <3>2. \A u \in Tasks : older[u] \ {t} \in SUBSET Tasks
      BY <3>1
    <3> QED
      BY <2>4, <3>1, <3>2
  <2> QED
    BY <1>2, <2>1, <2>2, <2>3, <2>5 DEF TypeOK
<1> QED
  BY <1>1, <1>2

LEMMA MapStatusType ==
  ASSUME NEW s \in StatusStrings
  PROVE  map_status(s) \in TaskStatus
  BY DEF map_status, StatusStrings, TaskStatus

\* record_immediate_failure only adds NOTIFY notes and a completed task.
LEMMA ImmediateFailure ==
  ASSUME TypeOK, NEW t \in Tasks, NEW m \in Msg, record_immediate_failure(t, m)
  PROVE  /\ pending_notifications' \in [Idents -> Seq(Note)]
         /\ \A d \in Idents : \A i \in DOMAIN pending_notifications'[d] :
              \/ pending_notifications'[d][i].kind = "NOTIFY"
              \/ /\ i \in DOMAIN pending_notifications[d]
                 /\ pending_notifications'[d][i] = pending_notifications[d][i]
         /\ tasks_completed' \in [Tasks -> Terminal \cup {"none"}]
         /\ older' \in [Tasks -> SUBSET Tasks]
<1> DEFINE n == NoteOf("NOTIFY", t, "failed")
<1>1. n \in Note /\ n.kind = "NOTIFY"
  BY NoteType DEF StatusStrings
<1>2. Complete(t, "Failed")
  BY DEF record_immediate_failure
<1>3. /\ tasks_completed' \in [Tasks -> Terminal \cup {"none"}]
      /\ older' \in [Tasks -> SUBSET Tasks]
  BY <1>2, CompleteType DEF Terminal
<1>4. pending_notifications' =
        [c \in Idents |-> IF c \in {m.return_to, m.from}
                          THEN Append(pending_notifications[c], n)
                          ELSE pending_notifications[c]]
  BY DEF record_immediate_failure
<1> HIDE DEF n
<1>5. pending_notifications \in [Idents -> Seq(Note)]
  BY DEF TypeOK
<1>6. pending_notifications' \in [Idents -> Seq(Note)]
  <2>1. \A c \in Idents : Append(pending_notifications[c], n) \in Seq(Note)
    BY <1>1, <1>5
  <2> QED
    BY <1>4, <1>5, <2>1
<1>7. ASSUME NEW d \in Idents, NEW i \in DOMAIN pending_notifications'[d]
      PROVE  \/ pending_notifications'[d][i].kind = "NOTIFY"
             \/ /\ i \in DOMAIN pending_notifications[d]
                /\ pending_notifications'[d][i] = pending_notifications[d][i]
  <2> DEFINE q == pending_notifications[d]
  <2>1. q \in Seq(Note)
    BY <1>5
  <2>2. pending_notifications'[d] = Append(q, n) \/ pending_notifications'[d] = q
    BY <1>4
  <2> HIDE DEF q
  <2>3. CASE pending_notifications'[d] = Append(q, n)
    <3>1. i \in 1..Len(q) \/ i = Len(q) + 1
      BY <1>7, <2>1, <2>3
    <3>2. CASE i \in 1..Len(q)
      BY <2>1, <2>3, <3>2 DEF q
    <3>3. CASE i = Len(q) + 1
      BY <1>1, <2>1, <2>3, <3>3
    <3> QED
      BY <3>1, <3>2, <3>3
  <2>4. CASE pending_notifications'[d] = q
    BY <1>7, <2>4 DEF q
  <2> QED
    BY <2>2, <2>3, <2>4
<1> QED
  BY <1>3, <1>6, <1>7

-----------------------------------------------------------------------------
(* What a step leaves alone.                                               *)

\* The step changes nothing TaskInv(u) looks at.
Same(u) ==
  /\ msg'[u] = msg[u] /\ handler'[u] = handler[u]
  /\ leases'[u] = "none" <=> leases[u] = "none"
  /\ tasks_active'[u] = "none" <=> tasks_active[u] = "none"
  /\ u \in pending_approvals' <=> u \in pending_approvals
  /\ u \in expired_leases' <=> u \in expired_leases
  /\ u \in running' <=> u \in running
  /\ \A e \in {"DELEGATE", "granted", "denied"} :
       <<e, u>> \in journal' <=> <<e, u>> \in journal

LEMMA Frame ==
  ASSUME NEW u \in Tasks, TaskInv(u), Same(u)
  PROVE  TaskInv(u)'
<1>1. \A e \in {"DELEGATE", "granted", "denied"} : Journals(e, u)' <=> Journals(e, u)
  BY DEF Same, Journals
<1>2. Authorized(u)' <=> Authorized(u)
  BY DEF Same, Authorized
<1>3. (Fresh(u) /\ Open(u) /\ Taken(u))'
  BY <1>1 DEF Same, TaskInv, Fresh, Open, Taken
<1>4. (Admitted(u) /\ Tracked(u))'
  BY <1>1, <1>2 DEF Same, TaskInv, Admitted, Tracked
<1>5. (InStep(u) /\ Once(u))'
  BY <1>1 DEF Same, TaskInv, InStep, Once
<1> QED
  BY <1>3, <1>4, <1>5 DEF TaskInv

\* journal.append adds one pair.
LEMMA JournalGrows ==
  ASSUME NEW e, NEW x, Journaled(e, x)
  PROVE  \A f, y : <<f, y>> \in journal' <=> <<f, y>> \in journal \/ (f = e /\ y = x)
  BY DEF Journaled

\* DELEGATE notes stay justified when the queues gain other notes only.
LEMMA QueuesFrame ==
  ASSUME QueuesInv, journal \subseteq journal',
         \A d \in Idents : \A i \in DOMAIN pending_notifications'[d] :
            \/ pending_notifications'[d][i].kind # "DELEGATE"
            \/ <<"DELEGATE", pending_notifications'[d][i].task>> \in journal'
            \/ /\ i \in DOMAIN pending_notifications[d]
               /\ pending_notifications'[d][i] = pending_notifications[d][i]
  PROVE  QueuesInv'
<1> SUFFICES ASSUME NEW d \in Idents, NEW i \in DOMAIN pending_notifications'[d],
                    pending_notifications'[d][i].kind = "DELEGATE"
             PROVE  <<"DELEGATE", pending_notifications'[d][i].task>> \in journal'
  BY DEF QueuesInv, Journals
<1> QED
  BY DEF QueuesInv, Journals

LEMMA ReceivedFrame ==
  ASSUME ReceivedInv, journal \subseteq journal', received' = received
  PROVE  ReceivedInv'
  BY DEF ReceivedInv, Journals

LEMMA NotesFrame ==
  ASSUME QueuesInv, ReceivedInv, journal \subseteq journal',
         pending_notifications' = pending_notifications, received' = received
  PROVE  QueuesInv' /\ ReceivedInv'
  BY DEF QueuesInv, ReceivedInv, Journals

-----------------------------------------------------------------------------
(* Init, and each action.                                                  *)

\* The fields of a State::new.
LEMMA EmptyFields ==
  /\ EmptyState.clients = [c \in Idents |-> "absent"]
  /\ EmptyState.leases = [t \in Tasks |-> "none"]
  /\ EmptyState.queues = [c \in Idents |-> <<>>]
  /\ EmptyState.tasks = [t \in Tasks |-> "none"]
  /\ EmptyState.older = [t \in Tasks |-> {}]
  BY DEF EmptyState

LEMMA InitIInv == Init => IInv
<1> SUFFICES ASSUME Init PROVE IInv
  OBVIOUS
<1>1. TypeOK
  <2>1. pending_notifications \in [Idents -> Seq(Note)]
    <3>1. <<>> \in Seq(Note)
      OBVIOUS
    <3>2. pending_notifications = [c \in Idents |-> <<>>]
      BY EmptyFields DEF Init
    <3> QED
      BY <3>1, <3>2
  <2>2. older \in [Tasks -> SUBSET Tasks]
    BY EmptyFields DEF Init
  <2>3. received \in [Idents -> SUBSET Note] /\ msg \in [Tasks -> Msg \cup {NoMsg}]
    BY DEF Init
  <2>4. clients \in [Idents -> {"absent", "alive", "stale"}]
    BY EmptyFields DEF Init
  <2>5. /\ leases \in [Tasks -> {"none", "running", "due"}]
        /\ tasks_active \in [Tasks -> {"none", "Pending", "InProgress"}]
        /\ tasks_completed \in [Tasks -> Terminal \cup {"none"}]
        /\ handler \in [Tasks -> {"none", "admitted", "granted", "denied"}]
    BY EmptyFields DEF Init
  <2> QED
    BY <2>1, <2>2, <2>3, <2>4, <2>5 DEF Init, TypeOK
<1>2. \A t \in Tasks : TaskInv(t)
  BY EmptyFields DEF Init, TaskInv, Fresh, Open, Taken, Admitted, Tracked, InStep,
                     Once, Journals
<1>3. QueuesInv /\ ReceivedInv
  BY EmptyFields DEF Init, QueuesInv, ReceivedInv
<1> QED
  BY <1>1, <1>2, <1>3 DEF IInv

\* REGISTER adds a client and a journal entry about it.
LEMMA RegisterIInv ==
  ASSUME IInv, NEW c \in Idents, handle_register(c)
  PROVE  IInv'
<1>1. TypeOK
  BY DEF IInv
<1>2. journal' = journal \cup {<<"REGISTER", c>>}
  BY DEF handle_register, Journaled
<1>3. TypeOK'
  BY <1>1, <1>2 DEF handle_register, TypeOK, tasks, process
<1>4. \A u \in Tasks : Same(u)
  BY <1>2 DEF handle_register, Same, tasks, process
<1>5. QueuesInv' /\ ReceivedInv'
  BY <1>2, NotesFrame DEF IInv, handle_register
<1> QED
  BY <1>3, <1>4, <1>5, Frame DEF IInv

\* HEARTBEAT and POLL take notes off a queue and may hand over the first one.
LEMMA DeliverIInv ==
  ASSUME IInv, NEW c \in Idents, handle_heartbeat(c) \/ handle_poll(c)
  PROVE  IInv'
<1> DEFINE q == pending_notifications[c]
<1>1. TypeOK /\ QueuesInv /\ ReceivedInv
  BY DEF IInv
<1>2. /\ UNCHANGED <<tasks, pending_approvals, process, msg, journal>>
      /\ clients' \in [Idents -> {"absent", "alive", "stale"}]
  BY <1>1 DEF handle_heartbeat, handle_poll, TypeOK
<1>3. Deliver(c)
  BY DEF handle_heartbeat, handle_poll
<1>4. q \in Seq(Note)
  BY <1>1 DEF TypeOK
<1>5. /\ pending_notifications' = [pending_notifications EXCEPT ![c] = <<>>]
      /\ \/ UNCHANGED received
         \/ q # <<>> /\ received' = [received EXCEPT ![c] = @ \cup {Head(q)}]
  BY <1>3 DEF Deliver
<1>6. q # <<>> => 1 \in DOMAIN q /\ Head(q) = q[1] /\ Head(q) \in Note
  BY <1>4
<1> HIDE DEF q
<1>7. TypeOK'
  <2>1. pending_notifications' \in [Idents -> Seq(Note)]
    BY <1>1, <1>5 DEF TypeOK
  <2>2. received' \in [Idents -> SUBSET Note]
    <3>1. received \in [Idents -> SUBSET Note]
      BY <1>1 DEF TypeOK
    <3>2. q # <<>> => received[c] \cup {Head(q)} \in SUBSET Note
      BY <1>6, <3>1
    <3> QED
      BY <1>5, <3>1, <3>2
  <2> QED
    BY <1>1, <1>2, <2>1, <2>2 DEF TypeOK, tasks, process
<1>8. \A u \in Tasks : Same(u)
  BY <1>2 DEF Same, tasks, process
<1>9. QueuesInv'
  <2>1. \A d \in Idents : \A i \in DOMAIN pending_notifications'[d] :
          /\ i \in DOMAIN pending_notifications[d]
          /\ pending_notifications'[d][i] = pending_notifications[d][i]
    BY <1>1, <1>5 DEF TypeOK
  <2> QED
    BY <1>1, <1>2, <2>1, QueuesFrame
<1>10. ReceivedInv'
  <2> SUFFICES ASSUME NEW d \in Idents, NEW n \in received'[d], n.kind = "DELEGATE"
               PROVE  <<"DELEGATE", n.task>> \in journal
    BY <1>2 DEF ReceivedInv, Journals
  <2>1. CASE n \in received[d]
    BY <1>1, <2>1 DEF ReceivedInv, Journals
  <2>2. CASE n \notin received[d]
    <3>1. q # <<>> /\ n = Head(q)
      <4>1. received \in [Idents -> SUBSET Note]
        BY <1>1 DEF TypeOK
      <4>2. q # <<>> /\ received' = [received EXCEPT ![c] = @ \cup {Head(q)}]
        BY <1>5, <2>2
      <4>3. received'[d] \subseteq received[d] \cup {Head(q)}
        BY <4>1, <4>2
      <4> QED
        BY <2>2, <4>2, <4>3
    <3>2. 1 \in DOMAIN pending_notifications[c] /\ n = pending_notifications[c][1]
      BY <1>6, <3>1 DEF q
    <3> QED
      BY <1>1, <3>2 DEF QueuesInv, Journals
  <2> QED
    BY <2>1, <2>2
<1> QED
  BY <1>7, <1>8, <1>9, <1>10, Frame DEF IInv

\* Time passes: a lease becomes due, a heartbeat is missed.
LEMMA TimeIInv ==
  ASSUME IInv,
         (\E t \in Tasks : LeaseDeadline(t)) \/ (\E c \in Idents : HeartbeatLapse(c))
  PROVE  IInv'
<1>1. TypeOK
  BY DEF IInv
<1>2. UNCHANGED <<expired_leases, pending_notifications, pending_approvals, tasks_active,
                  tasks_completed, older, process, msg, received, journal>>
  BY DEF LeaseDeadline, HeartbeatLapse, tasks
<1>3. /\ leases' \in [Tasks -> {"none", "running", "due"}]
      /\ \A u \in Tasks : leases'[u] = "none" <=> leases[u] = "none"
      /\ clients' \in [Idents -> {"absent", "alive", "stale"}]
  <2>1. ASSUME NEW t \in Tasks, LeaseDeadline(t) PROVE <1>3
    BY <1>1, <2>1 DEF LeaseDeadline, TypeOK
  <2>2. ASSUME NEW c \in Idents, HeartbeatLapse(c) PROVE <1>3
    BY <1>1, <2>2 DEF HeartbeatLapse, tasks, TypeOK
  <2> QED
    BY <2>1, <2>2
<1>4. TypeOK'
  BY <1>1, <1>2, <1>3 DEF TypeOK, process
<1>5. \A u \in Tasks : Same(u)
  BY <1>2, <1>3 DEF Same, process
<1>6. QueuesInv' /\ ReceivedInv'
  BY <1>2, NotesFrame DEF IInv
<1> QED
  BY <1>4, <1>5, <1>6, Frame DEF IInv

\* The idle check, a signal and the exit touch the process, not State.
LEMMA StopIInv ==
  ASSUME IInv, IdleTick \/ Signal \/ Exit
  PROVE  IInv'
<1>1. TypeOK
  BY DEF IInv
<1>2. UNCHANGED <<state, handler, running, sweeping, msg, received, journal>>
  BY DEF IdleTick, Signal, Exit
<1>3. idle' \in BOOLEAN
  BY <1>1 DEF IdleTick, Signal, Exit, TypeOK
<1>4. phase' \in {"up", "idle_exit", "signal_exit", "exited"}
  BY <1>1 DEF IdleTick, Signal, Exit, TypeOK
<1>5. TypeOK'
  BY <1>1, <1>2, <1>3, <1>4 DEF TypeOK, state
<1>6. \A u \in Tasks : Same(u)
  BY <1>2 DEF Same, state
<1>7. QueuesInv' /\ ReceivedInv'
  BY <1>2, NotesFrame DEF IInv, state
<1> QED
  BY <1>5, <1>6, <1>7, Frame DEF IInv

\* A DELEGATE message uses an id nothing is known of.
LEMMA SentFresh ==
  ASSUME IInv, NEW t \in Tasks, NEW m \in Msg, Sent(t, m)
  PROVE  /\ msg' \in [Tasks -> Msg \cup {NoMsg}]
         /\ msg'[t] = m /\ m # NoMsg
         /\ \A u \in Tasks \ {t} : msg'[u] = msg[u]
         /\ t \notin pending_approvals /\ handler[t] = "none"
         /\ leases[t] = "none" /\ t \notin expired_leases /\ t \notin running
         /\ \A e \in {"DELEGATE", "granted", "denied"} : <<e, t>> \notin journal
<1>1. msg[t] = NoMsg /\ msg' = [msg EXCEPT ![t] = m]
  BY DEF Sent
<1>2. m # NoMsg
  BY DaemonAssumption
<1>3. TypeOK /\ TaskInv(t)
  BY DEF IInv
<1>4. msg \in [Tasks -> Msg \cup {NoMsg}]
  BY <1>3 DEF TypeOK
<1>5. /\ t \notin pending_approvals /\ handler[t] = "none"
      /\ ~Journals("DELEGATE", t) /\ ~Journals("granted", t) /\ ~Journals("denied", t)
  BY <1>1, <1>3 DEF TaskInv, Fresh
<1>6. leases[t] = "none" /\ t \notin expired_leases /\ t \notin running
  BY <1>3, <1>5 DEF TaskInv, Tracked
<1> QED
  BY <1>1, <1>2, <1>4, <1>5, <1>6 DEF Journals

\* A denied task is recorded as failed and never handed out.
LEMMA DelegateDeniedIInv ==
  ASSUME IInv, NEW t \in Tasks, NEW m \in Msg, DelegateDenied(t, m)
  PROVE  IInv'
<1>1. TypeOK /\ QueuesInv /\ ReceivedInv /\ \A u \in Tasks : TaskInv(u)
  BY DEF IInv
<1>2. /\ Sent(t, m) /\ record_immediate_failure(t, m)
      /\ journal' = journal \cup {<<"deny", t>>}
      /\ UNCHANGED <<clients, leases, expired_leases, pending_approvals,
                     tasks_active, process, received>>
  BY DEF DelegateDenied, Journaled
<1>3. TypeOK'
  <2>1. journal' \subseteq (Events \X Tasks) \cup ({"REGISTER"} \X Idents)
    BY <1>1, <1>2 DEF TypeOK, Events
  <2>2. msg' \in [Tasks -> Msg \cup {NoMsg}]
    BY <1>2, SentFresh
  <2> QED
    BY <1>1, <1>2, <2>1, <2>2, ImmediateFailure DEF TypeOK, process
<1>4. QueuesInv' /\ ReceivedInv'
  <2>1. QueuesInv'
    BY <1>1, <1>2, ImmediateFailure, QueuesFrame
  <2> QED
    BY <1>1, <1>2, <2>1, ReceivedFrame
<1>5. ASSUME NEW u \in Tasks \ {t} PROVE TaskInv(u)'
  <2>1. Same(u)
    BY <1>2, SentFresh DEF Same, process
  <2> QED
    BY <1>1, <2>1, Frame
<1>6. TaskInv(t)'
  <2>1. \A e \in {"DELEGATE", "granted", "denied"} : ~Journals(e, t)'
    BY <1>2, SentFresh DEF Journals
  <2>2. /\ msg'[t] # NoMsg /\ t \notin pending_approvals' /\ handler'[t] = "none"
        /\ leases'[t] = "none" /\ t \notin expired_leases' /\ t \notin running'
    BY <1>2, SentFresh DEF process
  <2> QED
    BY <2>1, <2>2 DEF TaskInv, Fresh, Open, Taken, Admitted, Tracked, InStep, Once
<1> QED
  BY <1>3, <1>4, <1>5, <1>6 DEF IInv

\* A request for approval: the task waits in pending_approvals.
LEMMA ApprovalRequestIInv ==
  ASSUME IInv, NEW t \in Tasks, NEW m \in Msg, handle_approval_request(t, m)
  PROVE  IInv'
<1> DEFINE n == NoteOf("APPROVAL", t, "none")
<1>1. TypeOK /\ QueuesInv /\ ReceivedInv /\ \A u \in Tasks : TaskInv(u)
  BY DEF IInv
<1>2. /\ Sent(t, m) /\ m.verdict = "NeedApproval"
      /\ pending_approvals' = pending_approvals \cup {t}
      /\ add_notification(Approver, n)
      /\ journal' = journal \cup {<<"request_approval", t>>}
      /\ UNCHANGED <<clients, tasks, process, received>>
  BY DEF handle_approval_request, Journaled
<1>3. n \in Note /\ n.kind = "APPROVAL" /\ Approver \in Idents
  BY NoteType DEF Idents
<1> HIDE DEF n
<1>4. /\ pending_notifications' \in [Idents -> Seq(Note)]
      /\ \A d \in Idents : \A i \in DOMAIN pending_notifications'[d] :
           \/ pending_notifications'[d][i] = n
           \/ /\ i \in DOMAIN pending_notifications[d]
              /\ pending_notifications'[d][i] = pending_notifications[d][i]
  BY <1>1, <1>2, <1>3, AddNotification DEF TypeOK
<1>5. TypeOK'
  <2>1. journal' \subseteq (Events \X Tasks) \cup ({"REGISTER"} \X Idents)
    BY <1>1, <1>2 DEF TypeOK, Events
  <2>2. msg' \in [Tasks -> Msg \cup {NoMsg}]
    BY <1>2, SentFresh
  <2> QED
    BY <1>1, <1>2, <1>4, <2>1, <2>2 DEF TypeOK, process, tasks
<1>6. QueuesInv' /\ ReceivedInv'
  <2>1. QueuesInv'
    BY <1>1, <1>2, <1>3, <1>4, QueuesFrame
  <2> QED
    BY <1>1, <1>2, <2>1, ReceivedFrame
<1>7. ASSUME NEW u \in Tasks \ {t} PROVE TaskInv(u)'
  <2>1. Same(u)
    BY <1>2, SentFresh DEF Same, process, tasks
  <2> QED
    BY <1>1, <2>1, Frame
<1>8. TaskInv(t)'
  <2>1. \A e \in {"DELEGATE", "granted", "denied"} : ~Journals(e, t)'
    BY <1>2, SentFresh DEF Journals
  <2>2. /\ msg'[t] # NoMsg /\ msg'[t].verdict = "NeedApproval" /\ handler'[t] = "none"
        /\ leases'[t] = "none" /\ t \notin expired_leases' /\ t \notin running'
    BY <1>2, SentFresh DEF process, tasks
  <2> QED
    BY <2>1, <2>2 DEF TaskInv, Fresh, Open, Taken, Admitted, Tracked, InStep, Once
<1> QED
  BY <1>5, <1>6, <1>7, <1>8 DEF IInv

\* A task for a polling worker: admitted, or forgotten.
LEMMA DelegatePollingIInv ==
  ASSUME IInv, NEW t \in Tasks, NEW m \in Msg, DelegatePolling(t, m)
  PROVE  IInv'
<1>1. TypeOK /\ QueuesInv /\ ReceivedInv /\ \A u \in Tasks : TaskInv(u)
  BY DEF IInv
<1>2. /\ Sent(t, m) /\ m.verdict = "Allow"
      /\ UNCHANGED <<state, running, sweeping, phase, idle, received, journal>>
  BY DEF DelegatePolling
<1>3. /\ handler' \in [Tasks -> {"none", "admitted", "granted", "denied"}]
      /\ handler'[t] \in {"none", "admitted"}
      /\ \A u \in Tasks \ {t} : handler'[u] = handler[u]
  <2> DEFINE x == IF clients[m.to] = "alive" THEN "admitted" ELSE handler[t]
  <2>1. handler' = [handler EXCEPT ![t] = x]
    BY DEF DelegatePolling
  <2>2. x \in {"none", "admitted"}
    BY <1>2, SentFresh
  <2>3. handler \in [Tasks -> {"none", "admitted", "granted", "denied"}]
    BY <1>1 DEF TypeOK
  <2> HIDE DEF x
  <2> QED
    BY <2>1, <2>2, <2>3
<1>4. TypeOK'
  BY <1>1, <1>2, <1>3, SentFresh DEF TypeOK, state
<1>5. QueuesInv' /\ ReceivedInv'
  BY <1>1, <1>2, NotesFrame DEF state
<1>6. ASSUME NEW u \in Tasks \ {t} PROVE TaskInv(u)'
  <2>1. Same(u)
    BY <1>2, <1>3, SentFresh DEF Same, state
  <2> QED
    BY <1>1, <2>1, Frame
<1>7. TaskInv(t)'
  <2>1. \A e \in {"DELEGATE", "granted", "denied"} : ~Journals(e, t)'
    BY <1>2, SentFresh DEF Journals
  <2>2. /\ msg'[t] # NoMsg /\ msg'[t].verdict = "Allow" /\ t \notin pending_approvals'
        /\ leases'[t] = "none" /\ t \notin expired_leases' /\ t \notin running'
    BY <1>2, SentFresh DEF state
  <2> QED
    BY <1>3, <2>1, <2>2 DEF TaskInv, Fresh, Open, Taken, Admitted, Tracked, InStep,
                            Once, Authorized
<1> QED
  BY <1>4, <1>5, <1>6, <1>7 DEF IInv

\* proceed_with_delegation hands out an authorized task that was not handed out.
LEMMA HandOutIInv ==
  ASSUME IInv, NEW t \in Tasks, NEW m \in Msg, NEW w \in BOOLEAN,
         proceed_with_delegation(t, m, w),
         msg' \in [Tasks -> Msg \cup {NoMsg}],
         handler' \in [Tasks -> {"none", "admitted", "granted", "denied"}],
         running' \subseteq Tasks, UNCHANGED <<sweeping, phase, idle>>,
         \A u \in Tasks \ {t} :
           msg'[u] = msg[u] /\ handler'[u] = handler[u] /\ (u \in running' <=> u \in running),
         handler'[t] = "none", t \notin pending_approvals, t \notin expired_leases,
         Authorized(t)', Once(t)
  PROVE  IInv'
<1> DEFINE n == NoteOf("DELEGATE", t, "none")
<1>1. TypeOK /\ QueuesInv /\ ReceivedInv /\ \A u \in Tasks : TaskInv(u)
  BY DEF IInv
<1>2. /\ leases' = [leases EXCEPT ![t] = "running"]
      /\ tasks_active' = [tasks_active EXCEPT ![t] = IF w THEN "Pending"
                                                     ELSE "InProgress"]
      /\ add_notification(m.to, n) \/ UNCHANGED pending_notifications
      /\ journal' = journal \cup {<<"DELEGATE", t>>}
      /\ UNCHANGED <<clients, expired_leases, pending_approvals, tasks_completed,
                     older, received>>
  BY DEF proceed_with_delegation, Journaled
<1>3. n \in Note /\ n.task = t /\ m.to \in Idents
  BY NoteType, MsgIdents
<1> HIDE DEF n
<1>4. pending_notifications \in [Idents -> Seq(Note)]
  BY <1>1 DEF TypeOK
<1>5. /\ pending_notifications' \in [Idents -> Seq(Note)]
      /\ \A d \in Idents : \A i \in DOMAIN pending_notifications'[d] :
           \/ pending_notifications'[d][i] = n
           \/ /\ i \in DOMAIN pending_notifications[d]
              /\ pending_notifications'[d][i] = pending_notifications[d][i]
  BY <1>2, <1>3, <1>4, AddNotification
<1>6. TypeOK'
  <2>1. journal' \subseteq (Events \X Tasks) \cup ({"REGISTER"} \X Idents)
    BY <1>1, <1>2 DEF TypeOK, Events
  <2>2. /\ leases' \in [Tasks -> {"none", "running", "due"}]
        /\ tasks_active' \in [Tasks -> {"none", "Pending", "InProgress"}]
    BY <1>1, <1>2 DEF TypeOK
  <2> QED
    BY <1>1, <1>2, <1>5, <2>1, <2>2 DEF TypeOK
<1>7. QueuesInv' /\ ReceivedInv'
  <2>1. <<"DELEGATE", n.task>> \in journal' /\ journal \subseteq journal'
    BY <1>2, <1>3
  <2>2. QueuesInv'
    BY <1>1, <1>5, <2>1, QueuesFrame
  <2> QED
    BY <1>1, <1>2, <2>1, <2>2, ReceivedFrame
<1>8. ASSUME NEW u \in Tasks \ {t} PROVE TaskInv(u)'
  <2>1. Same(u)
    <3>1. leases'[u] = leases[u] /\ tasks_active'[u] = tasks_active[u]
      BY <1>1, <1>2, <1>8 DEF TypeOK
    <3>2. \A e \in {"DELEGATE", "granted", "denied"} :
            <<e, u>> \in journal' <=> <<e, u>> \in journal
      BY <1>2, <1>8
    <3>3. /\ u \in pending_approvals' <=> u \in pending_approvals
          /\ u \in expired_leases' <=> u \in expired_leases
      BY <1>2
    <3>4. msg'[u] = msg[u] /\ handler'[u] = handler[u] /\ (u \in running' <=> u \in running)
      BY <1>8
    <3> QED
      BY <3>1, <3>2, <3>3, <3>4 DEF Same
  <2> QED
    BY <1>1, <2>1, Frame
<1>9. TaskInv(t)'
  <2>1. Journals("DELEGATE", t)' /\ Once(t)'
    BY <1>2 DEF Journals, Once
  <2>2. leases'[t] = "running" /\ tasks_active'[t] # "none"
    BY <1>1, <1>2 DEF TypeOK
  <2>3. t \notin pending_approvals' /\ t \notin expired_leases'
    BY <1>2
  <2> QED
    BY <2>1, <2>2, <2>3 DEF TaskInv, Fresh, Open, Taken, Admitted, Tracked, InStep,
                            Authorized
<1> QED
  BY <1>6, <1>7, <1>8, <1>9 DEF IInv

\* A configured worker's task is handed to a subprocess at once.
LEMMA DelegateSubprocessIInv ==
  ASSUME IInv, NEW t \in Tasks, NEW m \in Msg, DelegateSubprocess(t, m)
  PROVE  IInv'
<1>1. TypeOK
  BY DEF IInv
<1>2. /\ Sent(t, m) /\ m.verdict = "Allow" /\ proceed_with_delegation(t, m, FALSE)
      /\ running' = running \cup {t} /\ UNCHANGED <<handler, sweeping, phase, idle>>
  BY DEF DelegateSubprocess
<1>3. Authorized(t)' /\ Once(t)
  BY <1>2, SentFresh DEF Authorized, Once, Journals
<1>4. running' \subseteq Tasks /\ \A u \in Tasks \ {t} : u \in running' <=> u \in running
  BY <1>1, <1>2 DEF TypeOK
<1>5. handler' \in [Tasks -> {"none", "admitted", "granted", "denied"}]
  BY <1>1, <1>2 DEF TypeOK
<1> QED
  BY <1>2, <1>3, <1>4, <1>5, SentFresh, HandOutIInv

\* A task for a polling worker, or an approved one, is handed out.
LEMMA ProceedIInv ==
  ASSUME IInv, NEW t \in Tasks, Proceed(t)
  PROVE  IInv'
<1>1. TypeOK /\ TaskInv(t)
  BY DEF IInv
<1>2. /\ handler[t] = "admitted" /\ proceed_with_delegation(t, msg[t], TRUE)
      /\ handler' = [handler EXCEPT ![t] = "none"]
      /\ UNCHANGED <<running, sweeping, phase, idle, msg>>
  BY DEF Proceed
<1>3. Authorized(t) /\ ~Journals("DELEGATE", t) /\ Once(t)
  BY <1>1, <1>2 DEF TaskInv, Admitted
<1>4. t \notin pending_approvals /\ t \notin expired_leases
  BY <1>1, <1>2, <1>3 DEF TaskInv, Taken, Tracked
<1>5. msg[t] \in Msg /\ msg' \in [Tasks -> Msg \cup {NoMsg}]
  BY <1>1, <1>2, <1>3 DEF TypeOK, Authorized
<1>6. Authorized(t)'
  BY <1>2, <1>3 DEF Authorized, proceed_with_delegation, Journaled
<1>7. /\ handler' \in [Tasks -> {"none", "admitted", "granted", "denied"}]
      /\ handler'[t] = "none" /\ \A u \in Tasks \ {t} : handler'[u] = handler[u]
  BY <1>1, <1>2 DEF TypeOK
<1>8. running' \subseteq Tasks
  BY <1>1, <1>2 DEF TypeOK
<1> QED
  BY <1>2, <1>3, <1>4, <1>5, <1>6, <1>7, <1>8, HandOutIInv

\* A decision takes the request out of pending_approvals.
LEMMA DecisionIInv ==
  ASSUME IInv, NEW t \in Tasks, NEW s \in {"granted", "denied", "none"},
         handle_approval_decision(t, s)
  PROVE  IInv'
<1>1. TypeOK /\ QueuesInv /\ ReceivedInv /\ \A u \in Tasks : TaskInv(u)
  BY DEF IInv
<1>2. /\ t \in pending_approvals /\ pending_approvals' = pending_approvals \ {t}
      /\ handler' = [handler EXCEPT ![t] = s]
      /\ UNCHANGED <<clients, tasks, pending_notifications, running, sweeping, phase,
                     idle, msg, received, journal>>
  BY DEF handle_approval_decision
<1>3. /\ handler' \in [Tasks -> {"none", "admitted", "granted", "denied"}]
      /\ handler'[t] = s /\ \A u \in Tasks \ {t} : handler'[u] = handler[u]
  BY <1>1, <1>2 DEF TypeOK
<1>4. TypeOK'
  BY <1>1, <1>2, <1>3 DEF TypeOK, tasks
<1>5. QueuesInv' /\ ReceivedInv'
  BY <1>1, <1>2, NotesFrame
<1>6. ASSUME NEW u \in Tasks \ {t} PROVE TaskInv(u)'
  <2>1. Same(u)
    BY <1>2, <1>3 DEF Same, tasks
  <2> QED
    BY <1>1, <2>1, Frame
<1>7. TaskInv(t)'
  <2>1. /\ msg[t] # NoMsg /\ msg[t].verdict = "NeedApproval"
        /\ ~Journals("DELEGATE", t)
        /\ ~Journals("granted", t) /\ ~Journals("denied", t)
        /\ Tracked(t) /\ InStep(t)
    BY <1>1, <1>2 DEF TaskInv, Open
  <2>2. (Tracked(t) /\ InStep(t))'
    BY <1>2, <2>1 DEF Tracked, InStep, Journals, Authorized, tasks
  <2>3. t \notin pending_approvals' /\ handler'[t] # "admitted"
    BY <1>2, <1>3
  <2>4. (~Journals("DELEGATE", t) /\ ~Journals("granted", t) /\ ~Journals("denied", t))'
    BY <1>2, <2>1 DEF Journals
  <2> QED
    BY <1>2, <2>1, <2>2, <2>3, <2>4 DEF TaskInv, Fresh, Open, Taken, Admitted, Once
<1> QED
  BY <1>4, <1>5, <1>6, <1>7 DEF IInv

\* The "granted" arm journals the decision and goes on.
LEMMA GrantedIInv ==
  ASSUME IInv, NEW t \in Tasks, Granted(t)
  PROVE  IInv'
<1>1. TypeOK /\ QueuesInv /\ ReceivedInv /\ \A u \in Tasks : TaskInv(u)
  BY DEF IInv
<1>2. /\ handler[t] = "granted" /\ handler' = [handler EXCEPT ![t] = "admitted"]
      /\ journal' = journal \cup {<<"granted", t>>}
      /\ UNCHANGED <<state, running, sweeping, phase, idle, msg, received>>
  BY DEF Granted, Journaled
<1>3. /\ handler' \in [Tasks -> {"none", "admitted", "granted", "denied"}]
      /\ handler'[t] = "admitted" /\ \A u \in Tasks \ {t} : handler'[u] = handler[u]
  BY <1>1, <1>2 DEF TypeOK
<1>4. TypeOK'
  <2>1. journal' \subseteq (Events \X Tasks) \cup ({"REGISTER"} \X Idents)
    BY <1>1, <1>2 DEF TypeOK, Events
  <2> QED
    BY <1>1, <1>2, <1>3, <2>1 DEF TypeOK, state
<1>5. QueuesInv' /\ ReceivedInv'
  BY <1>1, <1>2, NotesFrame DEF state
<1>6. ASSUME NEW u \in Tasks \ {t} PROVE TaskInv(u)'
  <2>1. Same(u)
    BY <1>2, <1>3 DEF Same, state
  <2> QED
    BY <1>1, <2>1, Frame
<1>7. TaskInv(t)'
  <2>1. /\ msg[t] # NoMsg /\ msg[t].verdict = "NeedApproval"
        /\ ~Journals("DELEGATE", t) /\ ~Journals("denied", t)
        /\ t \notin pending_approvals
    BY <1>1, <1>2 DEF TaskInv, Open, Taken
  <2>2. leases[t] = "none" /\ t \notin expired_leases /\ t \notin running
    BY <1>1, <2>1 DEF TaskInv, Tracked
  <2>3. /\ leases'[t] = "none" /\ t \notin expired_leases' /\ t \notin running'
        /\ t \notin pending_approvals'
    BY <1>2, <2>1, <2>2 DEF state
  <2>4. (~Journals("DELEGATE", t) /\ ~Journals("denied", t))' /\ Authorized(t)'
    BY <1>2, <2>1 DEF Journals, Authorized
  <2> QED
    BY <1>2, <1>3, <2>1, <2>3, <2>4
       DEF TaskInv, Fresh, Open, Taken, Admitted, Tracked, InStep, Once
<1> QED
  BY <1>4, <1>5, <1>6, <1>7 DEF IInv

\* The "denied" arm records the task as failed.
LEMMA DeniedIInv ==
  ASSUME IInv, NEW t \in Tasks, Denied(t)
  PROVE  IInv'
<1>1. TypeOK /\ QueuesInv /\ ReceivedInv /\ \A u \in Tasks : TaskInv(u)
  BY DEF IInv
<1>2. /\ handler[t] = "denied" /\ handler' = [handler EXCEPT ![t] = "none"]
      /\ record_immediate_failure(t, msg[t])
      /\ journal' = journal \cup {<<"denied", t>>}
      /\ UNCHANGED <<clients, leases, expired_leases, pending_approvals, tasks_active,
                     running, sweeping, phase, idle, msg, received>>
  BY DEF Denied, Journaled
<1>3. /\ handler' \in [Tasks -> {"none", "admitted", "granted", "denied"}]
      /\ handler'[t] = "none" /\ \A u \in Tasks \ {t} : handler'[u] = handler[u]
  BY <1>1, <1>2 DEF TypeOK
<1>4. /\ msg[t] # NoMsg
      /\ ~Journals("DELEGATE", t) /\ ~Journals("granted", t)
      /\ t \notin pending_approvals
  BY <1>1, <1>2 DEF TaskInv, Open, Taken
<1>5. msg[t] \in Msg
  BY <1>1, <1>4 DEF TypeOK
<1>6. TypeOK'
  <2>1. journal' \subseteq (Events \X Tasks) \cup ({"REGISTER"} \X Idents)
    BY <1>1, <1>2 DEF TypeOK, Events
  <2> QED
    BY <1>1, <1>2, <1>3, <1>5, <2>1, ImmediateFailure DEF TypeOK
<1>7. QueuesInv' /\ ReceivedInv'
  <2>1. QueuesInv'
    BY <1>1, <1>2, <1>5, ImmediateFailure, QueuesFrame
  <2> QED
    BY <1>1, <1>2, <2>1, ReceivedFrame
<1>8. ASSUME NEW u \in Tasks \ {t} PROVE TaskInv(u)'
  <2>1. Same(u)
    BY <1>2, <1>3 DEF Same
  <2> QED
    BY <1>1, <2>1, Frame
<1>9. TaskInv(t)'
  <2>1. leases[t] = "none" /\ t \notin expired_leases /\ t \notin running
    BY <1>1, <1>4 DEF TaskInv, Tracked
  <2>2. (~Journals("DELEGATE", t) /\ ~Journals("granted", t))'
    BY <1>2, <1>4 DEF Journals
  <2> QED
    BY <1>2, <1>3, <1>4, <2>1, <2>2
       DEF TaskInv, Fresh, Open, Taken, Admitted, Tracked, InStep, Once
<1> QED
  BY <1>6, <1>7, <1>8, <1>9 DEF IInv

\* A report or a timeout ends t's lease, moves t between the task maps and
\* queues one NOTIFY (handle_notify, State::cleanup_expired).
LEMMA LeaseEndIInv ==
  ASSUME IInv, NEW t \in Tasks, NEW s \in TaskStatus, NEW c \in Idents, NEW n \in Note,
         n.kind = "NOTIFY", UpdateTask(t, s), add_notification(c, n),
         Journaled("NOTIFY", t), leases' = [leases EXCEPT ![t] = "none"],
         expired_leases' \subseteq Tasks,
         \A u \in Tasks \ {t} : /\ u \in expired_leases' <=> u \in expired_leases
                                /\ u \in running' <=> u \in running,
         t \in expired_leases' => /\ s \in Terminal
                                  /\ leases[t] # "none" \/ t \in expired_leases,
         running' \subseteq running, sweeping' \in BOOLEAN,
         UNCHANGED <<clients, pending_approvals, handler, phase, idle, msg, received>>
  PROVE  IInv'
<1>1. TypeOK /\ QueuesInv /\ ReceivedInv /\ \A u \in Tasks : TaskInv(u)
  BY DEF IInv
<1>2. journal' = journal \cup {<<"NOTIFY", t>>}
  BY DEF Journaled
<1>3. pending_notifications \in [Idents -> Seq(Note)]
  BY <1>1 DEF TypeOK
<1>4. /\ pending_notifications' \in [Idents -> Seq(Note)]
      /\ \A d \in Idents : \A i \in DOMAIN pending_notifications'[d] :
           \/ pending_notifications'[d][i] = n
           \/ /\ i \in DOMAIN pending_notifications[d]
              /\ pending_notifications'[d][i] = pending_notifications[d][i]
  BY <1>3, AddNotification
<1>5. /\ tasks_active' = [tasks_active EXCEPT ![t] = IF s \in Terminal THEN "none" ELSE s]
      /\ tasks_active' \in [Tasks -> {"none", "Pending", "InProgress"}]
      /\ tasks_completed' \in [Tasks -> Terminal \cup {"none"}]
      /\ older' \in [Tasks -> SUBSET Tasks]
  BY <1>1, UpdateTaskType
<1>6. TypeOK'
  <2>1. journal' \subseteq (Events \X Tasks) \cup ({"REGISTER"} \X Idents)
    BY <1>1, <1>2 DEF TypeOK, Events
  <2>2. leases' \in [Tasks -> {"none", "running", "due"}] /\ running' \subseteq Tasks
    BY <1>1 DEF TypeOK
  <2> QED
    BY <1>1, <1>4, <1>5, <2>1, <2>2 DEF TypeOK
<1>7. QueuesInv' /\ ReceivedInv'
  <2>1. journal \subseteq journal'
    BY <1>2
  <2>2. QueuesInv'
    BY <1>1, <1>4, <2>1, QueuesFrame
  <2> QED
    BY <1>1, <2>1, <2>2, ReceivedFrame
<1>8. ASSUME NEW u \in Tasks \ {t} PROVE TaskInv(u)'
  <2>1. leases'[u] = leases[u] /\ tasks_active'[u] = tasks_active[u]
    BY <1>1, <1>5, <1>8 DEF TypeOK
  <2>2. \A e \in {"DELEGATE", "granted", "denied"} :
          <<e, u>> \in journal' <=> <<e, u>> \in journal
    BY <1>2, <1>8
  <2>3. Same(u)
    BY <1>8, <2>1, <2>2 DEF Same
  <2> QED
    BY <1>1, <2>3, Frame
<1>9. TaskInv(t)'
  <2>1. \A e \in {"DELEGATE", "granted", "denied"} : Journals(e, t)' <=> Journals(e, t)
    BY <1>2 DEF Journals
  <2>2. leases'[t] = "none"
    BY <1>1 DEF TypeOK
  <2>3. (Fresh(t) /\ Open(t) /\ Taken(t) /\ Once(t))'
    BY <1>1, <2>1 DEF TaskInv, Fresh, Open, Taken, Once
  <2>4. Authorized(t)' <=> Authorized(t)
    BY <2>1 DEF Authorized, Journals
  <2>5. (Admitted(t) /\ Tracked(t))'
    BY <1>1, <2>1, <2>2, <2>4 DEF TaskInv, Admitted, Tracked
  <2>6. InStep(t)'
    BY <1>1, <1>5, <2>2 DEF InStep, TypeOK
  <2> QED
    BY <2>3, <2>5, <2>6 DEF TaskInv
<1> QED
  BY <1>6, <1>7, <1>8, <1>9 DEF IInv

\* A NOTIFY message, from a client or from the task that ran a subprocess.
LEMMA NotifyIInv ==
  ASSUME IInv, NEW c \in Idents, NEW t \in Tasks, NEW s \in StatusStrings,
         NEW return_to \in Idents \cup {NoIdent}, handle_notify(c, t, s, return_to),
         running' \subseteq running,
         \A u \in Tasks \ {t} : u \in running' <=> u \in running
  PROVE  IInv'
<1> DEFINE leased == leases[t] # "none" \/ t \in expired_leases
           target == IF return_to # NoIdent THEN return_to
                     ELSE IF leased THEN msg[t].from ELSE c
           n == NoteOf("NOTIFY", t, s)
<1>1. TypeOK /\ TaskInv(t)
  BY DEF IInv
<1>2. /\ leases' = [leases EXCEPT ![t] = "none"]
      /\ expired_leases' = IF leases[t] = "none" THEN expired_leases \ {t}
                           ELSE expired_leases
      /\ UpdateTask(t, map_status(s)) /\ add_notification(target, n)
      /\ Journaled("NOTIFY", t)
      /\ UNCHANGED <<clients, pending_approvals, handler, sweeping, phase, idle,
                     msg, received>>
  BY DEF handle_notify
<1>3. target \in Idents
  <2>1. leased => msg[t] \in Msg
    BY <1>1 DEF TaskInv, Tracked, Authorized, TypeOK
  <2>2. leased => msg[t].from \in Idents
    BY <2>1, MsgIdents
  <2> QED
    BY <2>2
<1>4. n \in Note /\ n.kind = "NOTIFY"
  BY NoteType
<1>5. t \notin expired_leases'
  BY <1>1, <1>2 DEF TaskInv, InStep
<1>6. expired_leases' \subseteq Tasks /\ sweeping' \in BOOLEAN
  BY <1>1, <1>2 DEF TypeOK
<1>7. \A u \in Tasks \ {t} : u \in expired_leases' <=> u \in expired_leases
  BY <1>2
<1>8. map_status(s) \in TaskStatus
  BY MapStatusType
<1> HIDE DEF target, n
<1> QED
  BY <1>2, <1>3, <1>4, <1>5, <1>6, <1>7, <1>8, LeaseEndIInv

\* The timeout of a lease.
LEMMA ExpireIInv ==
  ASSUME IInv, NEW t \in Tasks, ExpireLease(t)
  PROVE  IInv'
<1> DEFINE n == NoteOf("NOTIFY", t, "failed")
<1>1. TypeOK /\ TaskInv(t)
  BY DEF IInv
<1>2. /\ leases[t] = "due" /\ sweeping' = TRUE /\ leases' = [leases EXCEPT ![t] = "none"]
      /\ expired_leases' = expired_leases \cup {t}
      /\ UpdateTask(t, "Failed") /\ add_notification(msg[t].return_to, n)
      /\ Journaled("NOTIFY", t)
      /\ UNCHANGED <<clients, pending_approvals, handler, running, phase, idle, msg,
                     received>>
  BY DEF ExpireLease
<1>3. msg[t].return_to \in Idents
  <2>1. msg[t] \in Msg
    BY <1>1, <1>2 DEF TaskInv, Tracked, Authorized, TypeOK
  <2> QED
    BY <2>1, MsgIdents
<1>4. n \in Note /\ n.kind = "NOTIFY"
  BY NoteType DEF StatusStrings
<1>5. expired_leases' \subseteq Tasks /\ running' \subseteq running
  BY <1>1, <1>2 DEF TypeOK
<1>6. \A u \in Tasks \ {t} : /\ u \in expired_leases' <=> u \in expired_leases
                             /\ u \in running' <=> u \in running
  BY <1>2
<1>7. "Failed" \in TaskStatus /\ "Failed" \in Terminal
  BY DEF TaskStatus, Terminal
<1> HIDE DEF n
<1> QED
  BY <1>2, <1>3, <1>4, <1>5, <1>6, <1>7, LeaseEndIInv

\* The end of the cleanup drops clients and their queues.
LEMMA EndSweepIInv ==
  ASSUME IInv, EndSweep
  PROVE  IInv'
<1> DEFINE dead == {c \in Idents : clients[c] = "stale"}
<1>1. TypeOK /\ QueuesInv /\ ReceivedInv
  BY DEF IInv
<1>2. /\ sweeping' = FALSE
      /\ clients' = [c \in Idents |-> IF c \in dead THEN "absent" ELSE clients[c]]
      /\ pending_notifications' = [c \in Idents |-> IF c \in dead THEN <<>>
                                                    ELSE pending_notifications[c]]
      /\ UNCHANGED <<tasks, pending_approvals, handler, running, phase, idle, msg,
                     received, journal>>
  BY DEF EndSweep
<1> HIDE DEF dead
<1>3. pending_notifications' \in [Idents -> Seq(Note)]
  BY <1>1, <1>2 DEF TypeOK
<1>4. clients' \in [Idents -> {"absent", "alive", "stale"}]
  BY <1>1, <1>2 DEF TypeOK
<1>5. TypeOK'
  BY <1>1, <1>2, <1>3, <1>4 DEF TypeOK, tasks
<1>6. \A u \in Tasks : Same(u)
  BY <1>2 DEF Same, tasks
<1>7. \A d \in Idents : \A i \in DOMAIN pending_notifications'[d] :
        /\ i \in DOMAIN pending_notifications[d]
        /\ pending_notifications'[d][i] = pending_notifications[d][i]
  BY <1>2
<1>8. QueuesInv' /\ ReceivedInv'
  BY <1>1, <1>2, <1>7, QueuesFrame, ReceivedFrame
<1> QED
  BY <1>5, <1>6, <1>8, Frame DEF IInv

\* A new process starts from State::new; the journal and the clients remember.
LEMMA RestartIInv ==
  ASSUME IInv, Restart
  PROVE  IInv'
<1>1. TypeOK /\ ReceivedInv /\ \A u \in Tasks : TaskInv(u)
  BY DEF IInv
<1>2. /\ clients' = [c \in Idents |-> "absent"]
      /\ leases' = [t \in Tasks |-> "none"]
      /\ expired_leases' = {} /\ pending_approvals' = {} /\ running' = {}
      /\ pending_notifications' = [c \in Idents |-> <<>>]
      /\ tasks_active' = [t \in Tasks |-> "none"]
      /\ tasks_completed' = [t \in Tasks |-> "none"]
      /\ older' = [t \in Tasks |-> {}]
      /\ handler' = [t \in Tasks |-> "none"]
      /\ sweeping' = FALSE /\ phase' = "up" /\ idle' = FALSE
      /\ UNCHANGED <<msg, received, journal>>
  BY EmptyFields DEF Restart
<1>3. TypeOK'
  <2>1. pending_notifications' \in [Idents -> Seq(Note)]
    <3>1. <<>> \in Seq(Note)
      OBVIOUS
    <3> QED
      BY <1>2, <3>1
  <2>2. older' \in [Tasks -> SUBSET Tasks]
    BY <1>2
  <2>3. /\ clients' \in [Idents -> {"absent", "alive", "stale"}]
        /\ leases' \in [Tasks -> {"none", "running", "due"}]
        /\ tasks_active' \in [Tasks -> {"none", "Pending", "InProgress"}]
        /\ tasks_completed' \in [Tasks -> Terminal \cup {"none"}]
        /\ handler' \in [Tasks -> {"none", "admitted", "granted", "denied"}]
    BY <1>2
  <2> QED
    BY <1>1, <1>2, <2>1, <2>2, <2>3 DEF TypeOK
<1>4. ASSUME NEW u \in Tasks PROVE TaskInv(u)'
  <2>1. /\ leases'[u] = "none" /\ u \notin expired_leases' /\ u \notin running'
        /\ handler'[u] = "none" /\ u \notin pending_approvals'
    BY <1>2
  <2>2. \A e \in {"DELEGATE", "granted", "denied"} : Journals(e, u)' <=> Journals(e, u)
    BY <1>2 DEF Journals
  <2>3. Authorized(u)' <=> Authorized(u)
    BY <1>2 DEF Authorized
  <2> QED
    BY <1>1, <1>2, <2>1, <2>2, <2>3
       DEF TaskInv, Fresh, Open, Taken, Admitted, Tracked, InStep, Once
<1>5. QueuesInv' /\ ReceivedInv'
  BY <1>1, <1>2 DEF QueuesInv, ReceivedInv, Journals
<1> QED
  BY <1>3, <1>4, <1>5 DEF IInv

-----------------------------------------------------------------------------
(* The theorems.                                                           *)

LEMMA NextIInv == IInv /\ [Next]_vars => IInv'
<1> SUFFICES ASSUME IInv, [Next]_vars PROVE IInv'
  OBVIOUS
<1>1. TypeOK
  BY DEF IInv
<1>2. CASE handle_message
  <2>1. ASSUME NEW c \in Idents, handle_register(c) \/ handle_heartbeat(c) \/ handle_poll(c)
        PROVE  IInv'
    BY <2>1, RegisterIInv, DeliverIInv
  <2>2. ASSUME NEW t \in Tasks, NEW m \in Msg, handle_delegate(t, m)
        PROVE  IInv'
    BY <2>2, DelegateDeniedIInv, ApprovalRequestIInv, DelegateSubprocessIInv,
       DelegatePollingIInv DEF handle_delegate
  <2>3. ASSUME NEW t \in Tasks, NEW s \in {"granted", "denied", "none"},
               handle_approval_decision(t, s)
        PROVE  IInv'
    BY <2>3, DecisionIInv
  <2>4. ASSUME NEW t \in Tasks, NEW s \in Reports, NEW c \in Idents,
               NEW return_to \in Idents \cup {NoIdent}, Notify(c, t, s, return_to)
        PROVE  IInv'
    <3>1. s \in StatusStrings
      BY DaemonAssumption
    <3>2. handle_notify(c, t, s, return_to) /\ running' = running
      BY <2>4 DEF Notify
    <3> QED
      BY <3>1, <3>2, NotifyIInv
  <2> QED
    BY <1>2, <2>1, <2>2, <2>3, <2>4 DEF handle_message
<1>3. CASE Background
  <2>1. ASSUME NEW t \in Tasks, NEW s \in {"completed", "failed"}, SubprocessDone(t, s)
        PROVE  IInv'
    <3>1. /\ t \in running /\ handle_notify(msg[t].to, t, s, msg[t].return_to)
          /\ running' = running \ {t}
      BY <2>1 DEF SubprocessDone
    <3>2. msg[t] \in Msg
      <4>1. TaskInv(t)
        BY DEF IInv
      <4> QED
        BY <1>1, <3>1, <4>1 DEF TaskInv, Tracked, Authorized, TypeOK
    <3>3. s \in StatusStrings
      BY DEF StatusStrings
    <3>4. \A u \in Tasks \ {t} : u \in running' <=> u \in running
      BY <3>1
    <3>5. msg[t].to \in Idents /\ msg[t].return_to \in Idents \cup {NoIdent}
      BY <3>2, MsgIdents
    <3> QED
      BY <3>1, <3>3, <3>4, <3>5, NotifyIInv
  <2>2. ASSUME NEW t \in Tasks, Proceed(t) \/ Granted(t) \/ Denied(t) \/ ExpireLease(t)
        PROVE  IInv'
    BY <2>2, ProceedIInv, GrantedIInv, DeniedIInv, ExpireIInv
  <2> QED
    BY <1>3, <2>1, <2>2, TimeIInv, EndSweepIInv DEF Background
<1>4. CASE Process
  BY <1>4, StopIInv, RestartIInv DEF Process
<1>5. CASE UNCHANGED vars
  <2>1. UNCHANGED <<state, handler, running, sweeping, phase, idle, msg, received, journal>>
    BY <1>5 DEF vars
  <2>2. TypeOK'
    BY <1>1, <2>1 DEF TypeOK, state
  <2>3. \A u \in Tasks : Same(u)
    BY <2>1 DEF Same, state
  <2>4. QueuesInv' /\ ReceivedInv'
    BY <2>1, NotesFrame DEF IInv, state
  <2> QED
    BY <2>2, <2>3, <2>4, Frame DEF IInv
<1> QED
  BY <1>2, <1>3, <1>4, <1>5 DEF Next

LEMMA Invariance == Spec => []IInv
  BY InitIInv, NextIInv, PTL DEF Spec

\* The maps of State keep their types, whatever the handlers, the cleanup and
\* restarts do in between (devitd/src/main.rs, struct State).
THEOREM TypeCorrect == Spec => []TypeOK
<1>1. IInv => TypeOK
  BY DEF IInv
<1> QED
  BY <1>1, Invariance, PTL

\* Leases, expired leases and active tasks stay in step (handle_notify,
\* cleanup_expired, proceed_with_delegation).
THEOREM MapsInStep == Spec => []LeasedIsActive
<1>1. IInv => LeasedIsActive
  <2> SUFFICES ASSUME IInv PROVE LeasedIsActive
    OBVIOUS
  <2>1. expired_leases \subseteq Tasks /\ \A t \in Tasks : InStep(t)
    BY DEF IInv, TypeOK, TaskInv
  <2> QED
    BY <2>1 DEF InStep, LeasedIsActive
<1> QED
  BY <1>1, Invariance, PTL

\* No worker is handed a task that was neither allowed by the policy nor
\* approved (handle_delegate, handle_approval_decision).
THEOREM OnlyAuthorizedWork == Spec => []NoUnapprovedWork
<1>1. IInv => NoUnapprovedWork
  <2> SUFFICES ASSUME IInv, NEW t \in Tasks, Handed(t) PROVE Authorized(t)
    BY DEF NoUnapprovedWork
  <2> DEFINE n == NoteOf("DELEGATE", t, "none")
  <2>1. n.kind = "DELEGATE" /\ n.task = t
    BY NoteType
  <2>2. TaskInv(t) /\ QueuesInv /\ ReceivedInv
    BY DEF IInv
  <2> HIDE DEF n
  <2>3. \/ leases[t] # "none" \/ t \in running
        \/ \E c \in Idents : n \in received[c]
        \/ \E c \in Idents : \E i \in DOMAIN pending_notifications[c] :
             pending_notifications[c][i] = n
    BY DEF Handed, n
  <2>4. Journals("DELEGATE", t)
    <3>1. CASE leases[t] # "none" \/ t \in running
      BY <2>2, <3>1 DEF TaskInv, Tracked
    <3>2. CASE \E c \in Idents : n \in received[c]
      BY <2>1, <2>2, <3>2 DEF ReceivedInv
    <3>3. CASE \E c \in Idents : \E i \in DOMAIN pending_notifications[c] :
                 pending_notifications[c][i] = n
      BY <2>1, <2>2, <3>3 DEF QueuesInv
    <3> QED
      BY <2>3, <3>1, <3>2, <3>3
  <2> QED
    BY <2>2, <2>4 DEF TaskInv, Tracked
<1> QED
  BY <1>1, Invariance, PTL

\* An approval request is decided once, however often and however concurrently
\* the approver answers (handle_approval_decision).
THEOREM DecidedAtMostOnce == Spec => []DecidedOnce
<1>1. IInv => DecidedOnce
  BY DEF IInv, TaskInv, Once, Journals, DecidedOnce
<1> QED
  BY <1>1, Invariance, PTL

-----------------------------------------------------------------------------
(* The kinds of steps.                                                      *)

\* The outcome of a step for the maps of tasks: nothing; a refusal; a task is
\* taken on; a lease ends (handle_delegate, handle_approval_decision,
\* proceed_with_delegation, handle_notify, cleanup_expired).
QuietStep ==
  /\ UNCHANGED <<tasks_active, tasks_completed, older>>
  /\ \A t \in Tasks : leases'[t] = "none" <=> leases[t] = "none"
  /\ journal \subseteq journal'
  /\ \A t \in Tasks : Journals("DELEGATE", t)' => Journals("DELEGATE", t)

RefuseStep(t) ==
  /\ Complete(t, "Failed") /\ UNCHANGED <<leases, tasks_active>>
  /\ journal \subseteq journal'
  /\ \A u \in Tasks : Journals("DELEGATE", u)' => Journals("DELEGATE", u)

TakeOnStep(t) ==
  /\ leases' = [leases EXCEPT ![t] = "running"]
  /\ \E s \in {"Pending", "InProgress"} : tasks_active' = [tasks_active EXCEPT ![t] = s]
  /\ UNCHANGED <<tasks_completed, older>>
  /\ Journaled("DELEGATE", t)

EndStep(t) ==
  /\ leases' = [leases EXCEPT ![t] = "none"]
  /\ \E s \in Reports \cup {"completed", "failed"}, c \in Idents :
       UpdateTask(t, map_status(s)) /\ add_notification(c, NoteOf("NOTIFY", t, s))
  /\ Journaled("NOTIFY", t)

ChangeStep(t) == RefuseStep(t) \/ TakeOnStep(t) \/ EndStep(t)

\* Whoever sends the NOTIFY, its note goes to a client.
LEMMA NotifyEnds ==
  ASSUME IInv, NEW c \in Idents, NEW t \in Tasks, NEW s \in Reports \cup {"completed", "failed"},
         NEW return_to \in Idents \cup {NoIdent}, handle_notify(c, t, s, return_to)
  PROVE  EndStep(t)
<1> DEFINE leased == leases[t] # "none" \/ t \in expired_leases
           target == IF return_to # NoIdent THEN return_to
                     ELSE IF leased THEN msg[t].from ELSE c
<1>1. leased => msg[t] \in Msg
  BY DEF IInv, TypeOK, TaskInv, Tracked, Authorized
<1>2. leased => msg[t].from \in Idents
  BY <1>1, MsgIdents
<1>3. target \in Idents
  BY <1>2
<1>4. /\ leases' = [leases EXCEPT ![t] = "none"]
      /\ UpdateTask(t, map_status(s)) /\ add_notification(target, NoteOf("NOTIFY", t, s))
      /\ Journaled("NOTIFY", t)
  BY DEF handle_notify
<1> HIDE DEF target
<1> QED
  BY <1>3, <1>4 DEF EndStep

\* Every step of the daemon but its restart is one of these.
LEMMA StepKinds ==
  ASSUME IInv, [Next]_vars, ~ Restart
  PROVE  QuietStep \/ \E t \in Tasks : ChangeStep(t)
<1>1. TypeOK
  BY DEF IInv
<1>2. CASE handle_message
  <2>1. ASSUME NEW c \in Idents, handle_register(c)
        PROVE  QuietStep
    BY <2>1 DEF handle_register, QuietStep, Journaled, Journals, tasks
  <2>2. ASSUME NEW c \in Idents, handle_heartbeat(c) \/ handle_poll(c)
        PROVE  QuietStep
    BY <2>2 DEF handle_heartbeat, handle_poll, QuietStep, Journals, tasks
  <2>3. ASSUME NEW t \in Tasks, NEW m \in Msg, DelegateDenied(t, m)
        PROVE  RefuseStep(t)
    BY <2>3 DEF DelegateDenied, record_immediate_failure, RefuseStep, Journaled, Journals
  <2>4. ASSUME NEW t \in Tasks, NEW m \in Msg, handle_approval_request(t, m)
        PROVE  QuietStep
    BY <2>4 DEF handle_approval_request, QuietStep, Journaled, Journals, tasks
  <2>5. ASSUME NEW t \in Tasks, NEW m \in Msg, DelegateSubprocess(t, m)
        PROVE  TakeOnStep(t)
    BY <2>5 DEF DelegateSubprocess, proceed_with_delegation, TakeOnStep
  <2>6. ASSUME NEW t \in Tasks, NEW m \in Msg, DelegatePolling(t, m)
        PROVE  QuietStep
    BY <2>6 DEF DelegatePolling, QuietStep, Journals, state
  <2>7. ASSUME NEW t \in Tasks, NEW s \in {"granted", "denied", "none"},
               handle_approval_decision(t, s)
        PROVE  QuietStep
    BY <2>7 DEF handle_approval_decision, QuietStep, Journals, tasks
  <2>8. ASSUME NEW t \in Tasks, NEW s \in Reports, NEW c \in Idents,
               NEW return_to \in Idents \cup {NoIdent}, Notify(c, t, s, return_to)
        PROVE  EndStep(t)
    BY <2>8, NotifyEnds DEF Notify
  <2> QED
    BY <1>2, <2>1, <2>2, <2>3, <2>4, <2>5, <2>6, <2>7, <2>8
       DEF handle_message, handle_delegate, ChangeStep
<1>3. CASE Background
  <2>1. ASSUME NEW t \in Tasks, Proceed(t)
        PROVE  TakeOnStep(t)
    BY <2>1 DEF Proceed, proceed_with_delegation, TakeOnStep
  <2>2. ASSUME NEW t \in Tasks, Granted(t)
        PROVE  QuietStep
    BY <2>2 DEF Granted, QuietStep, Journaled, Journals, state
  <2>3. ASSUME NEW t \in Tasks, Denied(t)
        PROVE  RefuseStep(t)
    BY <2>3 DEF Denied, record_immediate_failure, RefuseStep, Journaled, Journals
  <2>4. ASSUME NEW t \in Tasks, NEW s \in {"completed", "failed"}, SubprocessDone(t, s)
        PROVE  EndStep(t)
    <3>1. t \in running /\ handle_notify(msg[t].to, t, s, msg[t].return_to)
      BY <2>4 DEF SubprocessDone
    <3>2. msg[t] \in Msg
      BY <3>1 DEF IInv, TypeOK, TaskInv, Tracked, Authorized
    <3>3. msg[t].to \in Idents /\ msg[t].return_to \in Idents
      BY <3>2, MsgIdents
    <3> QED
      BY <3>1, <3>3, NotifyEnds
  <2>5. ASSUME NEW t \in Tasks, LeaseDeadline(t)
        PROVE  QuietStep
    BY <1>1, <2>5 DEF LeaseDeadline, QuietStep, Journals, TypeOK
  <2>6. ASSUME NEW t \in Tasks, ExpireLease(t)
        PROVE  EndStep(t)
    <3>1. msg[t] \in Msg
      BY <2>6 DEF ExpireLease, IInv, TypeOK, TaskInv, Tracked, Authorized
    <3>2. msg[t].return_to \in Idents
      BY <3>1, MsgIdents
    <3>3. map_status("failed") = "Failed"
      BY DEF map_status
    <3> QED
      BY <2>6, <3>2, <3>3 DEF ExpireLease, EndStep
  <2>7. ASSUME NEW c \in Idents, HeartbeatLapse(c)
        PROVE  QuietStep
    BY <2>7 DEF HeartbeatLapse, QuietStep, Journals, tasks
  <2>8. CASE EndSweep
    BY <2>8 DEF EndSweep, QuietStep, Journals, tasks
  <2> QED
    BY <1>3, <2>1, <2>2, <2>3, <2>4, <2>5, <2>6, <2>7, <2>8 DEF Background, ChangeStep
<1>4. CASE IdleTick \/ Signal \/ Exit \/ UNCHANGED vars
  BY <1>4 DEF IdleTick, Signal, Exit, vars, QuietStep, Journals, state
<1> QED
  BY <1>2, <1>3, <1>4 DEF Next, Process

-----------------------------------------------------------------------------
(* What follows from that for leases, the journal and the notifications.    *)

ActiveInv == IInv /\ ActiveIsLeased

LEMMA NextActive == ActiveInv /\ [Next]_vars => ActiveInv'
<1> SUFFICES ASSUME ActiveInv, [Next]_vars PROVE ActiveIsLeased'
  BY NextIInv DEF ActiveInv
<1> SUFFICES ASSUME Reports \subseteq {"completed", "failed", "cancelled"}, NEW t \in Tasks,
                    tasks_active'[t] # "none"
             PROVE  leases'[t] # "none"
  BY DEF ActiveIsLeased
<1>1. IInv /\ TypeOK /\ (tasks_active[t] # "none" => leases[t] # "none")
  BY DEF ActiveInv, IInv, ActiveIsLeased
<1>2. CASE Restart
  BY <1>2, EmptyFields DEF Restart
<1>3. CASE QuietStep
  BY <1>1, <1>3 DEF QuietStep
<1>4. ASSUME NEW u \in Tasks, ChangeStep(u)
      PROVE  leases'[t] # "none"
  <2>1. CASE RefuseStep(u)
    BY <1>1, <2>1 DEF RefuseStep
  <2>2. CASE TakeOnStep(u)
    BY <1>1, <2>2 DEF TakeOnStep, TypeOK
  <2>3. CASE EndStep(u)
    <3>1. PICK s \in Reports \cup {"completed", "failed"} : UpdateTask(u, map_status(s))
      BY <2>3 DEF EndStep
    <3>2. map_status(s) \in Terminal
      BY DEF map_status, Terminal
    <3>3. tasks_active' = [tasks_active EXCEPT ![u] = "none"]
      BY <3>1, <3>2 DEF UpdateTask
    <3>4. leases' = [leases EXCEPT ![u] = "none"]
      BY <2>3 DEF EndStep
    <3> QED
      BY <1>1, <3>3, <3>4 DEF TypeOK
  <2> QED
    BY <1>4, <2>1, <2>2, <2>3 DEF ChangeStep
<1> QED
  BY <1>1, <1>2, <1>3, <1>4, StepKinds

\* As long as workers report final statuses only, no active task is without its
\* timeout (proceed_with_delegation, handle_notify, cleanup_expired).
THEOREM ActiveHasTimeout == Spec => []ActiveIsLeased
<1>1. Init => ActiveInv
  BY InitIInv, EmptyFields DEF Init, ActiveInv, ActiveIsLeased
<1>2. ActiveInv => ActiveIsLeased
  BY DEF ActiveInv
<1> QED
  BY <1>1, <1>2, NextActive, PTL DEF Spec

-----------------------------------------------------------------------------
AuditInv ==
  /\ IInv
  /\ ~Stops => phase = "up"
  /\ AuditComplete

LEMMA NextAudit == AuditInv /\ [Next]_vars => AuditInv'
<1> SUFFICES ASSUME AuditInv, [Next]_vars PROVE AuditInv'
  OBVIOUS
<1>1. IInv /\ IInv' /\ TypeOK
  BY NextIInv DEF AuditInv, IInv
<1>2. ~Stops => phase' = "up" /\ ~Restart
  <2> USE DEF AuditInv
  <2>1. CASE handle_message
    BY <2>1 DEF handle_message, handle_register, handle_heartbeat, handle_poll, handle_delegate,
       DelegateDenied, handle_approval_request, DelegateSubprocess, DelegatePolling,
       handle_approval_decision, Notify, handle_notify, process, Restart
  <2>2. CASE Background
    BY <2>2 DEF Background, Proceed, Granted, Denied, SubprocessDone, handle_notify,
       LeaseDeadline, ExpireLease, HeartbeatLapse, EndSweep, process, Restart
  <2>3. CASE Process
    BY <2>3 DEF Process, IdleTick, Signal, Exit, Restart
  <2>4. CASE UNCHANGED vars
    BY <2>4 DEF vars, Restart
  <2> QED
    BY <2>1, <2>2, <2>3, <2>4 DEF Next
<1>3. ASSUME NEW t \in Tasks, leases'[t] # "none"
      PROVE  <<"DELEGATE", t>> \in journal'
  BY <1>1, <1>3 DEF IInv, TaskInv, Tracked, Journals
<1>4. ASSUME NEW t \in Tasks, ~Stops, <<"DELEGATE", t>> \in journal', tasks_active'[t] = "none"
      PROVE  <<"NOTIFY", t>> \in journal'
  <2>1. <<"DELEGATE", t>> \in journal /\ tasks_active[t] = "none" => <<"NOTIFY", t>> \in journal
    BY <1>4 DEF AuditInv, AuditComplete
  <2>2. CASE QuietStep
    BY <1>4, <2>1, <2>2 DEF QuietStep, Journals
  <2>3. ASSUME NEW u \in Tasks, ChangeStep(u)
        PROVE  <<"NOTIFY", t>> \in journal'
    <3>1. CASE RefuseStep(u)
      BY <1>4, <2>1, <3>1 DEF RefuseStep, Journals
    <3>2. CASE TakeOnStep(u)
      <4>1. t # u
        BY <1>1, <1>4, <3>2 DEF TakeOnStep, TypeOK
      <4> QED
        BY <1>4, <2>1, <3>2, <4>1 DEF TakeOnStep, Journaled
    <3>3. CASE EndStep(u)
      <4>1. CASE t = u
        BY <3>3, <4>1 DEF EndStep, Journaled
      <4>2. CASE t # u
        <5>1. PICK s \in Reports \cup {"completed", "failed"} : UpdateTask(u, map_status(s))
          BY <3>3 DEF EndStep
        <5>2. tasks_active'[t] = tasks_active[t]
          BY <1>1, <4>2, <5>1 DEF UpdateTask, TypeOK
        <5> QED
          BY <1>4, <2>1, <3>3, <4>2, <5>2 DEF EndStep, Journaled
      <4> QED
        BY <4>1, <4>2
    <3> QED
      BY <2>3, <3>1, <3>2, <3>3 DEF ChangeStep
  <2> QED
    BY <1>1, <1>2, <1>4, <2>2, <2>3, StepKinds
<1> QED
  BY <1>1, <1>2, <1>3, <1>4 DEF AuditInv, AuditComplete

\* The journal has a DELEGATE for every lease and, in a process that goes on, a
\* NOTIFY for every task that is over (Journal::append in the handlers).
THEOREM StoryIsTold == Spec => []AuditComplete
<1>1. Init => AuditInv
  BY InitIInv, EmptyFields DEF Init, AuditInv, AuditComplete
<1>2. AuditInv => AuditComplete
  BY DEF AuditInv
<1> QED
  BY <1>1, <1>2, NextAudit, PTL DEF Spec

-----------------------------------------------------------------------------
LEMMA EndIsTold ==
  ASSUME IInv, [Next]_vars, NEW t \in Tasks, leases[t] # "none", leases'[t] = "none",
         phase # "exited"
  PROVE  \E c \in Idents : \E i \in DOMAIN pending_notifications'[c] :
           /\ pending_notifications'[c][i].kind = "NOTIFY"
           /\ pending_notifications'[c][i].task = t
<1>1. TypeOK /\ ~Restart
  BY DEF IInv, Restart
<1>2. PICK u \in Tasks : ChangeStep(u)
  BY <1>1, StepKinds DEF QuietStep
<1>3. EndStep(t)
  BY <1>1, <1>2 DEF ChangeStep, RefuseStep, TakeOnStep, EndStep, TypeOK
<1>4. PICK s \in Reports \cup {"completed", "failed"}, c \in Idents :
        add_notification(c, NoteOf("NOTIFY", t, s))
  BY <1>3 DEF EndStep
<1> DEFINE n == NoteOf("NOTIFY", t, s)
           q == pending_notifications[c]
<1>5. n \in Note /\ n.kind = "NOTIFY" /\ n.task = t
  BY NoteType, DaemonAssumption DEF StatusStrings
<1>6. q \in Seq(Note) /\ pending_notifications'[c] = Append(q, n)
  BY <1>1, <1>4 DEF add_notification, TypeOK
<1> HIDE DEF n, q
<1>7. /\ Len(q) + 1 \in DOMAIN pending_notifications'[c]
      /\ pending_notifications'[c][Len(q) + 1] = n
  BY <1>5, <1>6
<1> QED
  BY <1>5, <1>7

\* No lease ends in silence: whoever ends it queues a NOTIFY in the same step
\* (handle_notify, cleanup_expired).
THEOREM EndsAreTold == Spec => NoSilentEnd
<1>1. IInv /\ [Next]_vars =>
        [\A t \in Tasks :
           leases[t] # "none" /\ leases'[t] = "none" /\ phase # "exited" =>
             \E c \in Idents : \E i \in DOMAIN pending_notifications'[c] :
               /\ pending_notifications'[c][i].kind = "NOTIFY"
               /\ pending_notifications'[c][i].task = t]_vars
  BY EndIsTold
<1> QED
  BY <1>1, Invariance, PTL DEF Spec, NoSilentEnd

-----------------------------------------------------------------------------
(* The order of results and its pruning.                                   *)

\* age orders the tasks of done: age[t] are the older ones.
Linear(done, age) ==
  /\ \A t \in done : age[t] \subseteq done \ {t}
  /\ \A t, u \in done : t # u => t \in age[u] \/ u \in age[t]
  /\ \A t, u \in done : u \in age[t] => age[u] \subseteq age[t]

\* A finite set that is ordered has an oldest element.
LEMMA OldestExists ==
  ASSUME NEW done, NEW age, IsFiniteSet(done), done # {}, Linear(done, age)
  PROVE  \E t \in done : age[t] = {}
<1> DEFINE R == StrictSubsetOrdering(done)
           S == FiniteSubsetsOf(done)
           T == {age[t] : t \in done}
<1>1. IsWellFoundedOn(R, S)
  BY FS_StrictSubsetOrderingWellFounded
<1>2. T \subseteq S /\ T # {}
  <2>1. ASSUME NEW t \in done PROVE age[t] \in S
    <3>1. age[t] \in SUBSET done
      BY DEF Linear
    <3>2. IsFiniteSet(age[t])
      BY <3>1, FS_Subset
    <3> QED
      BY <3>1, <3>2 DEF FiniteSubsetsOf
  <2> QED
    BY <2>1
<1> HIDE DEF R, S, T
<1>3. PICK x \in T : \A y \in T : ~ (<<y, x>> \in R)
  BY <1>1, <1>2, WFMin
<1>4. PICK t \in done : x = age[t]
  BY DEF T
<1>5. ASSUME NEW u \in age[t] PROVE FALSE
  <2>1. u \in done /\ age[u] \subseteq age[t] /\ u \notin age[u]
    BY DEF Linear
  <2>2. age[u] \in T /\ age[u] # age[t]
    BY <2>1 DEF T
  <2>3. age[u] \subseteq done /\ age[t] \subseteq done
    BY <2>1 DEF Linear
  <2>4. <<age[u], age[t]>> \in R
    BY <2>1, <2>2, <2>3 DEF R, StrictSubsetOrdering
  <2> QED
    BY <1>3, <1>4, <2>2, <2>4
<1> QED
  BY <1>5

\* prune_completed takes a result too many out of an ordered set of results,
\* and never the newest one.
LEMMA PruneBounds ==
  ASSUME NEW done, NEW age, IsFiniteSet(done), Linear(done, age),
         Cardinality(done) <= MAX_COMPLETED_TASKS + 1
  PROVE  Cardinality(prune_completed(done, age)) <= MAX_COMPLETED_TASKS
<1> DEFINE kept == prune_completed(done, age)
           M == MAX_COMPLETED_TASKS
<1>1. M \in Nat \ {0} /\ Cardinality(done) \in Nat
  BY DaemonAssumption, FS_CardinalityType
<1>2. kept \in SUBSET done
  BY DEF prune_completed
<1>3. Cardinality(kept) <= Cardinality(done) /\ Cardinality(kept) \in Nat
  BY <1>2, FS_Subset, FS_CardinalityType
<1>4. CASE Cardinality(done) <= M
  BY <1>1, <1>3, <1>4
<1>5. CASE Cardinality(done) = M + 1
  <2>1. done # {}
    BY <1>1, <1>5, FS_EmptySet
  <2>2. PICK t \in done : age[t] = {}
    BY <2>1, OldestExists
  <2>3. {u \in done : t \in age[u]} = done \ {t}
    BY <2>2 DEF Linear
  <2>4. IsFiniteSet(done \ {t}) /\ Cardinality(done \ {t}) = M
    BY <1>1, <1>5, FS_RemoveElement
  <2>5. t \notin kept
    <3>1. Cardinality({u \in done : t \in age[u]}) = M
      BY <2>3, <2>4
    <3>2. ~ (M < M)
      BY <1>1
    <3> QED
      BY <3>1, <3>2 DEF prune_completed
  <2>6. kept \in SUBSET (done \ {t})
    BY <1>2, <2>5
  <2> QED
    BY <2>4, <2>6, FS_Subset
<1> HIDE DEF kept
<1>6. Cardinality(done) <= M \/ Cardinality(done) = M + 1
  BY <1>1
<1> QED
  BY <1>4, <1>5, <1>6 DEF kept

\* tasks_completed is ordered by last_activity and bounded.
CompletedInv ==
  /\ IsFiniteSet(InCompleted)
  /\ Cardinality(InCompleted) <= MAX_COMPLETED_TASKS
  /\ Linear(InCompleted, older)

\* Recording a result keeps it so, and the result is there (finalize_task,
\* prune_completed).
LEMMA CompleteKeeps ==
  ASSUME TypeOK, CompletedInv, NEW t \in Tasks, NEW s \in Terminal, Complete(t, s)
  PROVE  CompletedInv' /\ tasks_completed'[t] = s
<1> DEFINE done == InCompleted \cup {t}
           age  == Touched(t, done)
           kept == prune_completed(done, age)
<1>1. /\ tasks_completed' = [u \in Tasks |-> IF u \notin kept THEN "none"
                                             ELSE IF u = t THEN s
                                             ELSE tasks_completed[u]]
      /\ older' = [u \in Tasks |-> IF u \in kept THEN age[u] \cap kept ELSE {}]
  BY DEF Complete
<1>2. done \subseteq Tasks /\ kept \subseteq done
  BY DEF InCompleted, prune_completed
<1>3. IsFiniteSet(done) /\ Cardinality(done) <= MAX_COMPLETED_TASKS + 1
  <2>1. Cardinality(InCompleted) \in Nat
    BY FS_CardinalityType DEF CompletedInv
  <2>2. IsFiniteSet(done) /\ Cardinality(done) <= Cardinality(InCompleted) + 1
    BY <2>1, FS_AddElement DEF CompletedInv
  <2>3. Cardinality(done) \in Nat
    BY <2>2, FS_CardinalityType
  <2> HIDE DEF done
  <2> QED
    BY <2>1, <2>2, <2>3, DaemonAssumption DEF CompletedInv
<1>4. \A u \in Tasks : age[u] = IF u = t THEN done \ {t} ELSE older[u] \ {t}
  BY DEF Touched
<1>5. done = InCompleted \cup {t}
  OBVIOUS
<1>6. kept = {u \in done : Cardinality({v \in done : u \in age[v]}) < MAX_COMPLETED_TASKS}
  BY DEF prune_completed
<1>7. Linear(done, age) => Cardinality(kept) <= MAX_COMPLETED_TASKS
  BY <1>3, PruneBounds
<1> HIDE DEF done, age, kept
<1>8. Linear(done, age)
  <2>1. /\ \A u \in InCompleted : older[u] \subseteq InCompleted \ {u}
        /\ \A u, v \in InCompleted : u # v => u \in older[v] \/ v \in older[u]
        /\ \A u, v \in InCompleted : v \in older[u] => older[v] \subseteq older[u]
    BY DEF CompletedInv, Linear
  <2>2. age[t] = done \ {t} /\ \A u \in InCompleted \ {t} : age[u] = older[u] \ {t}
    BY <1>2, <1>4, <1>5
  <2>3. ASSUME NEW u \in done PROVE age[u] \subseteq done \ {u}
    <3>1. CASE u = t
      BY <2>2, <3>1
    <3>2. CASE u # t
      <4>1. u \in InCompleted
        BY <1>5, <3>2
      <4> QED
        BY <1>5, <2>1, <2>2, <3>2, <4>1
    <3> QED
      BY <3>1, <3>2
  <2>4. ASSUME NEW u \in done, NEW v \in done, u # v
        PROVE  u \in age[v] \/ v \in age[u]
    <3>1. CASE u = t \/ v = t
      BY <2>2, <2>4, <3>1
    <3>2. CASE u # t /\ v # t
      <4>1. u \in InCompleted /\ v \in InCompleted
        BY <1>5, <3>2
      <4> QED
        BY <2>1, <2>2, <2>4, <3>2, <4>1
    <3> QED
      BY <3>1, <3>2
  <2>5. ASSUME NEW u \in done, NEW v \in done, v \in age[u]
        PROVE  age[v] \subseteq age[u]
    <3>1. CASE u = t
      <4>1. v # t
        BY <2>5, <2>2, <3>1
      <4> QED
        BY <1>5, <2>1, <2>2, <3>1, <4>1
    <3>2. CASE u # t
      <4>1. u \in InCompleted /\ v # t /\ v \in older[u]
        BY <1>5, <2>5, <2>2, <3>2
      <4>2. v \in InCompleted
        BY <1>5, <4>1
      <4> QED
        BY <2>1, <2>2, <3>2, <4>1, <4>2
    <3> QED
      BY <3>1, <3>2
  <2> QED
    BY <2>3, <2>4, <2>5 DEF Linear
<1>9. t \in kept
  <2>1. {u \in done : t \in age[u]} = {}
    BY <1>2, <1>4
  <2>3. t \in done /\ 0 < MAX_COMPLETED_TASKS
    BY <1>5, DaemonAssumption
  <2>2. Cardinality({}) = 0
    BY FS_EmptySet
  <2> QED
    BY <1>6, <2>1, <2>2, <2>3
<1>10. IsFiniteSet(kept)
  BY <1>2, <1>3, FS_Subset
<1>11. InCompleted' = kept
  <2>1. \A u \in kept : u # t => tasks_completed[u] # "none"
    BY <1>2, <1>5 DEF InCompleted
  <2>2. s # "none"
    BY DEF Terminal
  <2> QED
    BY <1>1, <1>2, <1>5, <2>1, <2>2 DEF InCompleted
<1>12. Linear(kept, older')
  <2>1. \A u \in kept : older'[u] = age[u] \cap kept
    BY <1>1, <1>2
  <2> QED
    BY <1>2, <1>8, <2>1 DEF Linear
<1> QED
  BY <1>1, <1>2, <1>8, <1>9, <1>7, <1>10, <1>11, <1>12 DEF CompletedInv

\* A report that a task goes on takes its result away, if it had one.
LEMMA ReopenKeeps ==
  ASSUME TypeOK, CompletedInv, NEW t \in Tasks,
         tasks_completed' = [tasks_completed EXCEPT ![t] = "none"],
         older' = [u \in Tasks |-> IF u = t THEN {} ELSE older[u] \ {t}]
  PROVE  CompletedInv'
<1>1. InCompleted' = InCompleted \ {t}
  BY DEF InCompleted, TypeOK
<1>2. IsFiniteSet(InCompleted') /\ Cardinality(InCompleted') <= MAX_COMPLETED_TASKS
  <2>1. Cardinality(InCompleted) \in Nat /\ MAX_COMPLETED_TASKS \in Nat
    BY FS_CardinalityType, DaemonAssumption DEF CompletedInv
  <2>2. /\ IsFiniteSet(InCompleted \ {t})
        /\ Cardinality(InCompleted \ {t}) <= Cardinality(InCompleted)
    BY FS_Subset DEF CompletedInv
  <2>3. Cardinality(InCompleted \ {t}) \in Nat
    BY <2>2, FS_CardinalityType
  <2>4. Cardinality(InCompleted) <= MAX_COMPLETED_TASKS
    BY DEF CompletedInv
  <2> QED
    BY <1>1, <2>1, <2>2, <2>3, <2>4
<1>3. \A u \in InCompleted' : u # t /\ u \in InCompleted /\ older'[u] = older[u] \ {t}
  BY <1>1 DEF InCompleted
<1>4. Linear(InCompleted, older)
  BY DEF CompletedInv
<1>5. Linear(InCompleted', older')
  <2> DEFINE new == InCompleted \ {t}
             old == InCompleted
  <2>1. \A u \in new : older'[u] = older[u] \ {t}
    BY <1>1, <1>3
  <2>2. Linear(old, older)
    BY <1>4
  <2> HIDE DEF old
  <2>3. Linear(old \ {t}, older')
    BY <2>1, <2>2 DEF Linear, old
  <2> QED
    BY <1>1, <2>3 DEF old
<1> QED
  BY <1>2, <1>5 DEF CompletedInv

LEMMA UpdateKeeps ==
  ASSUME TypeOK, CompletedInv, NEW t \in Tasks, NEW s \in TaskStatus, UpdateTask(t, s)
  PROVE  /\ CompletedInv'
         /\ \A u \in Tasks : tasks_active[u] # "none" /\ tasks_active'[u] = "none"
                               => tasks_completed'[u] # "none"
<1>1. CASE s \in Terminal
  <2>1. tasks_active' = [tasks_active EXCEPT ![t] = "none"] /\ Complete(t, s)
    BY <1>1 DEF UpdateTask
  <2>2. CompletedInv' /\ tasks_completed'[t] = s
    BY <1>1, <2>1, CompleteKeeps
  <2> QED
    BY <1>1, <2>1, <2>2 DEF Terminal, TypeOK
<1>2. CASE s \notin Terminal
  <2>1. /\ tasks_active' = [tasks_active EXCEPT ![t] = s] /\ s # "none"
        /\ \/ /\ tasks_completed' = [tasks_completed EXCEPT ![t] = "none"]
              /\ older' = [u \in Tasks |-> IF u = t THEN {} ELSE older[u] \ {t}]
           \/ UNCHANGED <<tasks_completed, older>>
    BY <1>2 DEF UpdateTask, TaskStatus
  <2>2. CompletedInv'
    <3>1. CASE UNCHANGED <<tasks_completed, older>>
      BY <3>1 DEF CompletedInv, InCompleted
    <3> QED
      BY <2>1, <3>1, ReopenKeeps
  <2> QED
    BY <2>1, <2>2 DEF TypeOK
<1> QED
  BY <1>1, <1>2

\* The whole step.
LEMMA StepKeepsCompleted ==
  ASSUME IInv, CompletedInv, [Next]_vars
  PROVE  /\ CompletedInv'
         /\ phase # "exited" =>
              \A u \in Tasks : tasks_active[u] # "none" /\ tasks_active'[u] = "none"
                                 => tasks_completed'[u] # "none"
<1>1. TypeOK
  BY DEF IInv
<1>2. CASE Restart
  <2>1. phase = "exited" /\ InCompleted' = {}
    BY <1>2, EmptyFields DEF Restart, InCompleted
  <2> QED
    BY <2>1, FS_EmptySet, DaemonAssumption DEF CompletedInv, Linear
<1>3. CASE QuietStep
  BY <1>3 DEF QuietStep, CompletedInv, InCompleted
<1>4. ASSUME NEW t \in Tasks, RefuseStep(t)
      PROVE  CompletedInv' /\ tasks_active' = tasks_active
  BY <1>1, <1>4, CompleteKeeps DEF RefuseStep, Terminal
<1>5. ASSUME NEW t \in Tasks, TakeOnStep(t)
      PROVE  CompletedInv' /\ \A u \in Tasks : tasks_active[u] # "none" => tasks_active'[u] # "none"
  BY <1>1, <1>5 DEF TakeOnStep, CompletedInv, InCompleted, TypeOK
<1>6. ASSUME NEW t \in Tasks, EndStep(t)
      PROVE  /\ CompletedInv'
             /\ \A u \in Tasks : tasks_active[u] # "none" /\ tasks_active'[u] = "none"
                                   => tasks_completed'[u] # "none"
  <2>1. PICK s \in Reports \cup {"completed", "failed"} : UpdateTask(t, map_status(s))
    BY <1>6 DEF EndStep
  <2>2. map_status(s) \in TaskStatus
    BY MapStatusType, DaemonAssumption DEF StatusStrings
  <2> QED
    BY <1>1, <2>1, <2>2, UpdateKeeps
<1> QED
  BY <1>2, <1>3, <1>4, <1>5, <1>6, StepKinds DEF ChangeStep, QuietStep

LEMMA CompletedInvariance == Spec => [](IInv /\ CompletedInv)
<1>1. Init => IInv /\ CompletedInv
  <2> SUFFICES ASSUME Init PROVE CompletedInv
    BY InitIInv
  <2>1. InCompleted = {}
    BY EmptyFields DEF Init, InCompleted
  <2> QED
    BY <2>1, FS_EmptySet, DaemonAssumption DEF CompletedInv, Linear
<1>2. IInv /\ CompletedInv /\ [Next]_vars => (IInv /\ CompletedInv)'
  BY NextIInv, StepKeepsCompleted
<1> QED
  BY <1>1, <1>2, PTL DEF Spec

\* tasks_completed stays within MAX_COMPLETED_TASKS, in whatever order results
\* come, come again or are taken back (finalize_task, prune_completed).
THEOREM ResultsBounded == Spec => []CompletedBounded
<1>1. CompletedInv => CompletedBounded
  BY DEF CompletedInv, CompletedBounded
<1> QED
  BY <1>1, CompletedInvariance, PTL

\* The result that has just been recorded is not the one that is dropped
\* (finalize_task, prune_completed).
THEOREM FreshResultStays == Spec => FreshResultKept
<1>1. IInv /\ CompletedInv /\ [Next]_vars =>
        [\A t \in Tasks :
           tasks_active[t] # "none" /\ tasks_active'[t] = "none" /\ phase # "exited"
             => tasks_completed'[t] # "none"]_vars
  BY StepKeepsCompleted
<1> QED
  BY <1>1, CompletedInvariance, PTL DEF Spec, FreshResultKept

-----------------------------------------------------------------------------
(* The refinement: what each step is in DevitTasks.                         *)

RefineInv == IInv /\ CompletedInv

LEMMA MeIdent == Me \in Idents /\ Me \in Delegators /\ Me \notin Workers
  BY MeAssumption, DaemonAssumption DEF Idents

\* Only the stage of t may have changed.
LEMMA StageOfOne ==
  ASSUME NEW t \in Tasks,
         \A u \in Tasks \ {t} : /\ msg'[u] = msg[u] /\ handler'[u] = handler[u]
                                /\ u \in pending_approvals' <=> u \in pending_approvals
  PROVE  stageView' = [stageView EXCEPT ![t] = stageView'[t]]
<1>1. \A u \in Tasks \ {t} : stageView'[u] = stageView[u]
  BY DEF stageView, Undecided
<1>2. stageView' \in [Tasks -> {"new", "owed", "dealt"}]
      /\ stageView \in [Tasks -> {"new", "owed", "dealt"}]
  BY DEF stageView
<1> HIDE DEF stageView
<1> QED
  BY <1>1, <1>2

LEMMA StageStays ==
  ASSUME UNCHANGED <<msg, handler, pending_approvals>>
  PROVE  stageView' = stageView
  BY DEF stageView, Undecided

\* State::add_notification, as the client sees it.
LEMMA TellsMe ==
  ASSUME TypeOK, NEW c \in Idents, NEW n, add_notification(c, n)
  PROVE  pending_notifications'[Me] =
           IF c = Me THEN Append(pending_notifications[Me], n) ELSE pending_notifications[Me]
  BY MeIdent DEF add_notification, TypeOK

LEMMA SameStatus ==
  ASSUME NEW s
  PROVE  View!map_status(s) = map_status(s) /\ View!Terminal = Terminal
  BY DEF View!map_status, map_status, View!Terminal, Terminal

LEMMA CompleteIsEnd ==
  ASSUME RefineInv, NEW t \in Tasks, NEW s \in Terminal, Complete(t, s)
  PROVE  View!End(t, s)
<1> DEFINE done == InCompleted \cup {t}
           kept == prune_completed(done, Touched(t, done))
           dropped == (Tasks \ kept) \ {t}
<1>1. tasks_completed' = [u \in Tasks |-> IF u \notin kept THEN "none"
                                          ELSE IF u = t THEN s
                                          ELSE tasks_completed[u]]
  BY DEF Complete
<1>2. tasks_completed'[t] = s
  BY CompleteKeeps DEF RefineInv, IInv
<1> HIDE DEF kept
<1>3. tasks_completed' = [u \in Tasks |-> IF u = t THEN s
                                          ELSE IF u \in dropped THEN "none"
                                          ELSE tasks_completed[u]]
  BY <1>1, <1>2
<1>4. dropped \in SUBSET (Tasks \ {t})
  OBVIOUS
<1> HIDE DEF dropped
<1> QED
  BY <1>3, <1>4 DEF View!End

\* A report is a Report, told to the client if the note goes to it.
LEMMA ReportStep ==
  ASSUME RefineInv, NEW t \in Tasks, NEW s \in StatusStrings, NEW c \in Idents,
         msg[t] # NoMsg, UpdateTask(t, map_status(s)),
         add_notification(c, NoteOf("NOTIFY", t, s)),
         UNCHANGED <<msg, handler, pending_approvals>>
  PROVE  View!Next
<1>1. TypeOK
  BY DEF RefineInv, IInv
<1>2. stageView' = stageView /\ stageView[t] # "new"
  BY StageStays DEF stageView
<1>3. View!Tell(c = Me, View!Note("NOTIFY", t, s))
  BY <1>1, TellsMe DEF View!Tell, View!Note, NoteOf
<1>4. IF View!map_status(s) \in View!Terminal
      THEN /\ tasks_active' = [tasks_active EXCEPT ![t] = "none"]
           /\ View!End(t, View!map_status(s))
      ELSE /\ tasks_active' = [tasks_active EXCEPT ![t] = View!map_status(s)]
           /\ tasks_completed' = IF tasks_active[t] = "none"
                                 THEN [tasks_completed EXCEPT ![t] = "none"]
                                 ELSE tasks_completed
  <2>1. CASE map_status(s) \in Terminal
    <3>1. /\ tasks_active' = [tasks_active EXCEPT ![t] = "none"]
          /\ Complete(t, map_status(s))
      BY <2>1 DEF UpdateTask
    <3> QED
      BY <2>1, <3>1, CompleteIsEnd, SameStatus
  <2>2. CASE map_status(s) \notin Terminal
    BY <2>2, SameStatus DEF UpdateTask
  <2> QED
    BY <2>1, <2>2
<1>5. View!Report(t, s, c = Me)
  BY <1>2, <1>3, <1>4 DEF View!Report
<1>6. s \in View!StatusStrings /\ (c = Me) \in BOOLEAN
  BY DEF View!StatusStrings, StatusStrings
<1> QED
  BY <1>5, <1>6 DEF View!Next

LEMMA NotifyStep ==
  ASSUME RefineInv, NEW c \in Idents, NEW t \in Tasks,
         NEW s \in Reports \cup {"completed", "failed"},
         NEW return_to \in Idents \cup {NoIdent}, handle_notify(c, t, s, return_to),
         msg[t] # NoMsg
  PROVE  View!Next
<1> DEFINE leased == leases[t] # "none" \/ t \in expired_leases
           target == IF return_to # NoIdent THEN return_to
                     ELSE IF leased THEN msg[t].from ELSE c
<1>1. msg[t] \in Msg
  BY DEF RefineInv, IInv, TypeOK
<1>2. msg[t].from \in Idents
  BY <1>1, MsgIdents
<1>3. target \in Idents
  BY <1>2
<1>4. /\ UpdateTask(t, map_status(s)) /\ add_notification(target, NoteOf("NOTIFY", t, s))
      /\ UNCHANGED <<msg, handler, pending_approvals>>
  BY DEF handle_notify
<1>5. s \in StatusStrings
  BY DaemonAssumption DEF StatusStrings
<1> HIDE DEF target
<1> QED
  BY <1>3, <1>4, <1>5, ReportStep

\* A failure recorded at once is a Refuse.
LEMMA RefuseIsStep ==
  ASSUME RefineInv, NEW t \in Tasks, NEW m \in Msg, record_immediate_failure(t, m),
         stageView[t] # "dealt", stageView' = [stageView EXCEPT ![t] = "dealt"],
         UNCHANGED tasks_active
  PROVE  View!Next
<1> DEFINE told == Me \in {m.return_to, m.from}
<1>1. View!End(t, "Failed")
  BY CompleteIsEnd DEF record_immediate_failure, Terminal
<1>2. View!Tell(told, View!Note("NOTIFY", t, "failed"))
  BY MeIdent DEF record_immediate_failure, NoteOf, View!Tell, View!Note
<1>3. View!Deal(t)
  BY DEF View!Deal
<1>4. View!Refuse(t, told)
  BY <1>1, <1>2, <1>3 DEF View!Refuse
<1>5. told \in BOOLEAN
  OBVIOUS
<1> HIDE DEF told
<1> QED
  BY <1>4, <1>5 DEF View!Next

\* proceed_with_delegation is an Accept.
LEMMA AcceptStep ==
  ASSUME RefineInv, NEW t \in Tasks, NEW m \in Msg, NEW notify_worker \in BOOLEAN,
         proceed_with_delegation(t, m, notify_worker),
         stageView[t] # "dealt", stageView' = [stageView EXCEPT ![t] = "dealt"]
  PROVE  View!Next
<1> DEFINE s == IF notify_worker THEN "Pending" ELSE "InProgress"
<1>1. m.to \in Workers /\ m.to \in Idents /\ m.to # Me
  BY MsgIdents, MeIdent DEF Msg
<1>2. pending_notifications'[Me] = pending_notifications[Me]
  BY <1>1, TellsMe DEF proceed_with_delegation, RefineInv, IInv
<1>3. tasks_active' = [tasks_active EXCEPT ![t] = s] /\ UNCHANGED tasks_completed
  BY DEF proceed_with_delegation
<1>4. View!Accept(t, s) /\ s \in View!Open
  BY <1>2, <1>3 DEF View!Accept, View!Deal, View!Open
<1> HIDE DEF s
<1> QED
  BY <1>4 DEF View!Next

\* The client's queue is taken, or it is another's.
LEMMA TakeStep ==
  ASSUME UNCHANGED <<msg, handler, pending_approvals, tasks_active, tasks_completed>>,
         pending_notifications'[Me] \in {<<>>, pending_notifications[Me]}
  PROVE  [View!Next]_View!taskvars
<1>1. stageView' = stageView
  BY StageStays
<1>2. CASE pending_notifications'[Me] = <<>>
  BY <1>1, <1>2 DEF View!TakeQueue, View!Next
<1>3. CASE pending_notifications'[Me] = pending_notifications[Me]
  BY <1>1, <1>3 DEF View!taskvars
<1> QED
  BY <1>2, <1>3

LEMMA DeliverTakes ==
  ASSUME TypeOK, NEW c \in Idents, Deliver(c)
  PROVE  pending_notifications'[Me] \in {<<>>, pending_notifications[Me]}
  BY MeIdent DEF Deliver, TypeOK

\* A DELEGATE arrives: its stage was "new".
LEMMA DelegateStep ==
  ASSUME RefineInv, NEW t \in Tasks, NEW m \in Msg, handle_delegate(t, m)
  PROVE  View!Next
<1>1. TypeOK /\ TaskInv(t)
  BY DEF RefineInv, IInv
<1>2. /\ msg[t] = NoMsg /\ msg' = [msg EXCEPT ![t] = m] /\ msg'[t] # NoMsg
      /\ t \notin pending_approvals /\ handler[t] = "none"
  <2>1. msg[t] = NoMsg /\ msg' = [msg EXCEPT ![t] = m]
    BY DEF handle_delegate, DelegateDenied, handle_approval_request, DelegateSubprocess,
       DelegatePolling, Sent
  <2>2. msg'[t] = m
    BY <1>1, <2>1 DEF TypeOK
  <2>3. m # NoMsg
    BY DaemonAssumption
  <2> QED
    BY <1>1, <2>1, <2>2, <2>3 DEF TaskInv, Fresh
<1>3. stageView[t] = "new"
  BY <1>2 DEF stageView
<1>4. CASE DelegateDenied(t, m)
  <2>1. UNCHANGED <<pending_approvals, handler, tasks_active>> /\ record_immediate_failure(t, m)
    BY <1>4 DEF DelegateDenied, process
  <2>2. stageView'[t] = "dealt"
    BY <1>2, <2>1 DEF stageView, Undecided
  <2>3. stageView' = [stageView EXCEPT ![t] = "dealt"]
    BY <1>2, <2>1, <2>2, StageOfOne
  <2> QED
    BY <1>3, <2>1, <2>3, RefuseIsStep
<1>5. CASE handle_approval_request(t, m)
  <2>1. /\ pending_approvals' = pending_approvals \cup {t}
        /\ add_notification(Approver, NoteOf("APPROVAL", t, "none"))
        /\ UNCHANGED <<tasks_active, tasks_completed, handler>>
    BY <1>5 DEF handle_approval_request, process, tasks
  <2>2. stageView'[t] = "owed"
    BY <1>2, <2>1 DEF stageView, Undecided
  <2>3. stageView' = [stageView EXCEPT ![t] = "owed"]
    BY <1>2, <2>1, <2>2, StageOfOne
  <2>4. View!Tell(Approver = Me, View!Note("APPROVAL", t, "none"))
    BY <1>1, <2>1, TellsMe DEF View!Tell, View!Note, NoteOf, Idents
  <2>5. View!Hold(t, Approver = Me)
    BY <1>3, <2>1, <2>3, <2>4 DEF View!Hold
  <2>6. (Approver = Me) \in BOOLEAN
    OBVIOUS
  <2> QED
    BY <2>5, <2>6 DEF View!Next
<1>6. CASE DelegateSubprocess(t, m)
  <2>1. UNCHANGED <<pending_approvals, handler>> /\ proceed_with_delegation(t, m, FALSE)
    BY <1>6 DEF DelegateSubprocess, proceed_with_delegation
  <2>2. stageView'[t] = "dealt"
    BY <1>2, <2>1 DEF stageView, Undecided
  <2>3. stageView' = [stageView EXCEPT ![t] = "dealt"]
    BY <1>2, <2>1, <2>2, StageOfOne
  <2> QED
    BY <1>3, <2>1, <2>3, AcceptStep
<1>7. CASE DelegatePolling(t, m)
  <2>1. /\ UNCHANGED <<pending_approvals, pending_notifications, tasks_active, tasks_completed>>
        /\ \/ handler' = [handler EXCEPT ![t] = "admitted"]
           \/ handler' = handler
    BY <1>1, <1>7 DEF DelegatePolling, state, TypeOK
  <2>2. \A u \in Tasks \ {t} : handler'[u] = handler[u]
    BY <1>1, <2>1 DEF TypeOK
  <2>3. stageView' = [stageView EXCEPT ![t] = stageView'[t]]
    BY <1>2, <2>1, <2>2, StageOfOne
  <2>4. stageView'[t] \in {"owed", "dealt"}
    BY <1>2 DEF stageView
  <2>5. CASE stageView'[t] = "owed"
    <3>1. View!Hold(t, FALSE)
      BY <1>3, <2>1, <2>3, <2>5 DEF View!Hold, View!Tell
    <3> QED
      BY <3>1 DEF View!Next
  <2>6. CASE stageView'[t] = "dealt"
    <3>1. View!Forget(t)
      BY <1>3, <2>1, <2>3, <2>6 DEF View!Forget, View!Deal
    <3> QED
      BY <3>1 DEF View!Next
  <2> QED
    BY <2>4, <2>5, <2>6
<1> QED
  BY <1>4, <1>5, <1>6, <1>7 DEF handle_delegate

\* The decision on a request, and what follows from it: the stage was "owed".
LEMMA DecideStep ==
  ASSUME RefineInv, NEW t \in Tasks, NEW s \in {"granted", "denied", "none"},
         handle_approval_decision(t, s)
  PROVE  [View!Next]_View!taskvars
<1>1. TypeOK /\ TaskInv(t)
  BY DEF RefineInv, IInv
<1>2. /\ t \in pending_approvals /\ pending_approvals' = pending_approvals \ {t}
      /\ handler' = [handler EXCEPT ![t] = s] /\ handler'[t] = s
      /\ UNCHANGED <<msg, pending_notifications, tasks_active, tasks_completed>>
  BY <1>1 DEF handle_approval_decision, tasks, TypeOK
<1>3. stageView[t] = "owed"
  BY <1>1, <1>2 DEF TaskInv, Open, stageView, Undecided
<1>4. stageView' = [stageView EXCEPT ![t] = stageView'[t]]
  BY <1>1, <1>2, StageOfOne DEF TypeOK
<1>5. stageView'[t] \in {"owed", "dealt"}
  BY <1>1, <1>2 DEF TaskInv, Open, stageView
<1>6. CASE stageView'[t] = "owed"
  <2>1. stageView' = stageView
    BY <1>3, <1>4, <1>6 DEF stageView
  <2> QED
    BY <1>2, <2>1 DEF View!taskvars
<1>7. CASE stageView'[t] = "dealt"
  <2>1. View!Forget(t)
    BY <1>2, <1>3, <1>4, <1>7 DEF View!Forget, View!Deal
  <2> QED
    BY <2>1 DEF View!Next
<1> QED
  BY <1>5, <1>6, <1>7

LEMMA AfterDecisionStep ==
  ASSUME RefineInv, NEW t \in Tasks, Granted(t) \/ Denied(t) \/ Proceed(t)
  PROVE  [View!Next]_View!taskvars
<1>1. TypeOK /\ TaskInv(t)
  BY DEF RefineInv, IInv
<1>2. msg[t] # NoMsg /\ msg[t] \in Msg /\ t \notin pending_approvals /\ handler[t] # "none"
  BY <1>1 DEF Granted, Denied, Proceed, TaskInv, Open, Admitted, Authorized, Taken, TypeOK
<1>3. stageView[t] = "owed"
  BY <1>2 DEF stageView, Undecided
<1>4. CASE Granted(t)
  <2>1. /\ handler' = [handler EXCEPT ![t] = "admitted"]
        /\ UNCHANGED <<msg, pending_approvals, pending_notifications, tasks_active, tasks_completed>>
    BY <1>4 DEF Granted, state
  <2>2. stageView'[t] = "owed"
    BY <1>1, <1>2, <2>1 DEF stageView, Undecided, TypeOK
  <2>3. stageView' = [stageView EXCEPT ![t] = "owed"]
    BY <1>1, <2>1, <2>2, StageOfOne DEF TypeOK
  <2>4. stageView' = stageView
    BY <1>3, <2>3 DEF stageView
  <2> QED
    BY <2>1, <2>4 DEF View!taskvars
<1>5. CASE Denied(t) \/ Proceed(t)
  <2>1. /\ handler' = [handler EXCEPT ![t] = "none"]
        /\ UNCHANGED <<msg, pending_approvals>>
    BY <1>5 DEF Denied, Proceed, proceed_with_delegation
  <2>2. stageView'[t] = "dealt"
    BY <1>1, <1>2, <2>1 DEF stageView, Undecided, TypeOK
  <2>3. stageView' = [stageView EXCEPT ![t] = "dealt"]
    BY <1>1, <2>1, <2>2, StageOfOne DEF TypeOK
  <2>4. CASE Denied(t)
    BY <1>2, <1>3, <2>3, <2>4, RefuseIsStep DEF Denied
  <2>5. CASE Proceed(t)
    BY <1>2, <1>3, <2>3, <2>5, AcceptStep DEF Proceed
  <2> QED
    BY <1>5, <2>4, <2>5
<1> QED
  BY <1>4, <1>5

\* A restart of the daemon is a restart.
LEMMA RestartStep ==
  ASSUME RefineInv, Restart
  PROVE  View!Next
<1>1. /\ \A t \in Tasks : t \notin pending_approvals' /\ handler'[t] = "none" /\ msg'[t] = msg[t]
      /\ tasks_active' = [t \in Tasks |-> "none"] /\ tasks_completed' = [t \in Tasks |-> "none"]
      /\ pending_notifications'[Me] = <<>>
  BY EmptyFields, MeIdent DEF Restart
<1>2. stageView' = [t \in Tasks |-> IF stageView[t] = "owed" THEN "dealt" ELSE stageView[t]]
  BY <1>1 DEF stageView, Undecided
<1> QED
  BY <1>1, <1>2 DEF View!Restart, View!Nothing, View!Next

LEMMA StepRefines ==
  ASSUME RefineInv, [Next]_vars
  PROVE  [View!Next]_View!taskvars
<1>1. TypeOK
  BY DEF RefineInv, IInv
<1>2. CASE handle_message
  <2>1. ASSUME NEW c \in Idents, handle_register(c)
        PROVE  [View!Next]_View!taskvars
    BY <2>1, TakeStep DEF handle_register, tasks, process
  <2>2. ASSUME NEW c \in Idents, handle_heartbeat(c) \/ handle_poll(c)
        PROVE  [View!Next]_View!taskvars
    BY <1>1, <2>2, DeliverTakes, TakeStep DEF handle_heartbeat, handle_poll, tasks, process
  <2>3. ASSUME NEW t \in Tasks, NEW s \in Reports, NEW c \in Idents,
               NEW return_to \in Idents \cup {NoIdent}, Notify(c, t, s, return_to)
        PROVE  View!Next
    BY <2>3, NotifyStep DEF Notify
  <2> QED
    BY <1>2, <2>1, <2>2, <2>3, DelegateStep, DecideStep DEF handle_message
<1>3. CASE Background
  <2>1. ASSUME NEW t \in Tasks, NEW s \in {"completed", "failed"}, SubprocessDone(t, s)
        PROVE  View!Next
    <3>1. t \in running /\ handle_notify(msg[t].to, t, s, msg[t].return_to)
      BY <2>1 DEF SubprocessDone
    <3>2. msg[t] # NoMsg /\ msg[t] \in Msg
      BY <3>1 DEF RefineInv, IInv, TypeOK, TaskInv, Tracked, Authorized
    <3>3. msg[t].to \in Idents /\ msg[t].return_to \in Idents
      BY <3>2, MsgIdents
    <3> QED
      BY <3>1, <3>2, <3>3, NotifyStep
  <2>2. ASSUME NEW t \in Tasks, LeaseDeadline(t)
        PROVE  [View!Next]_View!taskvars
    BY <2>2, TakeStep DEF LeaseDeadline, process
  <2>3. ASSUME NEW t \in Tasks, ExpireLease(t)
        PROVE  View!Next
    <3>1. msg[t] # NoMsg /\ msg[t] \in Msg
      BY <2>3 DEF ExpireLease, RefineInv, IInv, TypeOK, TaskInv, Tracked, Authorized
    <3>2. msg[t].return_to \in Idents
      BY <3>1, MsgIdents
    <3>3. map_status("failed") = "Failed" /\ "failed" \in StatusStrings
      BY DEF map_status, StatusStrings
    <3> QED
      BY <2>3, <3>1, <3>2, <3>3, ReportStep DEF ExpireLease
  <2>4. ASSUME NEW c \in Idents, HeartbeatLapse(c)
        PROVE  [View!Next]_View!taskvars
    BY <2>4, TakeStep DEF HeartbeatLapse, tasks, process
  <2>5. CASE EndSweep
    <3>1. pending_notifications'[Me] \in {<<>>, pending_notifications[Me]}
      BY <2>5, MeIdent DEF EndSweep
    <3> QED
      BY <2>5, <3>1, TakeStep DEF EndSweep, tasks
  <2> QED
    BY <1>3, <2>1, <2>2, <2>3, <2>4, <2>5, AfterDecisionStep DEF Background
<1>4. CASE IdleTick \/ Signal \/ Exit \/ UNCHANGED vars
  BY <1>4, TakeStep DEF IdleTick, Signal, Exit, vars, state
<1> QED
  BY <1>2, <1>3, <1>4, RestartStep DEF Next, Process

\* Whatever happens among leases, approvals, workers, the cleanup and restarts,
\* a client that delegates sees the task life of DevitTasks (devitd/src/main.rs).
THEOREM DaemonImplementsTasks == Spec => ImplementsTasks
<1>1. Init => View!Init
  <2> SUFFICES ASSUME Init PROVE View!Init
    OBVIOUS
  <2>1. \A t \in Tasks : msg[t] = NoMsg
    BY DEF Init
  <2>2. stageView = [t \in Tasks |-> "new"]
    BY <2>1 DEF stageView
  <2> QED
    BY <2>2, EmptyFields, MeIdent DEF Init, View!Init, View!Nothing
<1>2. RefineInv /\ [Next]_vars => [View!Next]_View!taskvars
  BY StepRefines
<1> QED
  BY <1>1, <1>2, CompletedInvariance, PTL DEF Spec, View!Spec, ImplementsTasks, RefineInv
=============================================================================
