----------------------------- MODULE DevitTasks -----------------------------
(***************************************************************************)
(* What devitd promises a client that delegates tasks, without how it does *)
(* it: which task is where, which status it may take next, and what is put *)
(* into the client's queue.  Policy, approval, leases, workers, heartbeats *)
(* and the journal are hidden.  DevitDaemonTasks states that DevitDaemon   *)
(* implements this specification; DevitOrchestrator is built on it.        *)
(***************************************************************************)
EXTENDS Sequences

CONSTANT Tasks    \* ids of DELEGATE messages

VARIABLES
  stage,    \* task -> "new", "owed" (received, undecided) or "dealt" with
  active,   \* task -> its status in tasks_active, or "none"
  ended,    \* task -> its status in tasks_completed, or "none"
  queue     \* pending_notifications of the client

taskvars == <<stage, active, ended, queue>>

StatusStrings == {"completed", "failed", "cancelled", "pending", "progress"}
Open == {"Pending", "InProgress"}
Terminal == {"Completed", "Failed", "Cancelled"}

map_status(s) ==
  CASE s = "completed" -> "Completed"
    [] s = "failed"    -> "Failed"
    [] s = "cancelled" -> "Cancelled"
    [] s = "pending"   -> "Pending"
    [] OTHER           -> "InProgress"

Note(kind, t, s) == [kind |-> kind, task |-> t, status |-> s]
Tell(told, n) == queue' = IF told THEN Append(queue, n) ELSE queue

Nothing == [t \in Tasks |-> "none"]

Init ==
  /\ stage = [t \in Tasks |-> "new"]
  /\ active = Nothing /\ ended = Nothing
  /\ queue = <<>>

\* t is recorded as ended with status s, and some other results are dropped.
End(t, s) ==
  \E dropped \in SUBSET (Tasks \ {t}) :
    ended' = [u \in Tasks |-> IF u = t THEN s
                              ELSE IF u \in dropped THEN "none" ELSE ended[u]]

\* A DELEGATE that waits for a decision; the client may be the one to decide.
Hold(t, told) ==
  /\ stage[t] = "new"
  /\ stage' = [stage EXCEPT ![t] = "owed"]
  /\ Tell(told, Note("APPROVAL", t, "none"))
  /\ UNCHANGED <<active, ended>>

\* The decision: the task is taken on, once; or refused; or forgotten.
Deal(t) ==
  /\ stage[t] # "dealt"
  /\ stage' = [stage EXCEPT ![t] = "dealt"]

Accept(t, s) ==
  /\ Deal(t)
  /\ active' = [active EXCEPT ![t] = s]
  /\ UNCHANGED <<ended, queue>>

Refuse(t, told) ==
  /\ Deal(t)
  /\ End(t, "Failed")
  /\ Tell(told, Note("NOTIFY", t, "failed"))
  /\ UNCHANGED active

Forget(t) == Deal(t) /\ UNCHANGED <<active, ended, queue>>

\* A report, of a worker, of the client itself or of an expired lease.
Report(t, s, told) ==
  /\ stage[t] # "new"
  /\ IF map_status(s) \in Terminal
     THEN active' = [active EXCEPT ![t] = "none"] /\ End(t, map_status(s))
     ELSE /\ active' = [active EXCEPT ![t] = map_status(s)]
          /\ ended' = IF active[t] = "none" THEN [ended EXCEPT ![t] = "none"]
                      ELSE ended
  /\ Tell(told, Note("NOTIFY", t, s))
  /\ UNCHANGED stage

\* A heartbeat, a poll, or the end of a client that lapsed.
TakeQueue == queue' = <<>> /\ UNCHANGED <<stage, active, ended>>

Restart ==
  /\ stage' = [t \in Tasks |-> IF stage[t] = "owed" THEN "dealt" ELSE stage[t]]
  /\ active' = Nothing /\ ended' = Nothing
  /\ queue' = <<>>

Next ==
  \/ \E t \in Tasks, told \in BOOLEAN :
       \/ Hold(t, told) \/ Refuse(t, told)
       \/ \E s \in StatusStrings : Report(t, s, told)
  \/ \E t \in Tasks : Forget(t) \/ \E s \in Open : Accept(t, s)
  \/ TakeQueue
  \/ Restart

Spec == Init /\ [][Next]_taskvars
=============================================================================
