--------------------------- MODULE DevitWorkerBridge ---------------------------
(***************************************************************************)
(* WorkerBridge (crates/mcp-tools/src/worker.rs): the worker's end of the  *)
(* daemon. A heartbeat loop and the polls of the worker program both fetch *)
(* messages and put what they are about into one slot, current_event; a    *)
(* poll answers from the slot, a terminal report clears it. The daemon is  *)
(* here as DevitDaemon has it: a fetch empties the queue of the worker and *)
(* brings its first message, and a report without a lease comes back to    *)
(* its sender.                                                             *)
(***************************************************************************)
EXTENDS Naturals, Sequences

CONSTANTS Assignments,     \* task ids
          NoTask,
          Polls,           \* calls of devit_poll_tasks that run side by side
          MaxLost          \* bound: answers of the daemon that are lost

ASSUME BridgeAssumption == NoTask \notin Assignments /\ MaxLost \in Nat

\* What a slot or a message says of a task: its assignment, its end (a cancellation
\* or a timeout), or something else.
Events == [kind : {"assignment", "ended", "other"}, task : Assignments]
NoEvent == [kind |-> "none", task |-> NoTask]

VARIABLES mail,            \* pending_notifications of this worker
          eager,           \* the daemon assigns before the last task was reported
          heartbeat,       \* the message the heartbeat loop has fetched
          current_event,
          poll,            \* of each poll: what it does
          fetched,         \* of each poll: its message
          shown,           \* of each poll: what it answered
          report,          \* the task of a terminal report under way
          \* history
          assigned, seen, reported,
          dropped,         \* tasks whose assignment was in a queue or an answer that was lost
          losses,
          before           \* of each poll: what had been reported when it began

bridgeVars == <<mail, eager, heartbeat, current_event, poll, fetched, shown, report,
                assigned, seen, reported, dropped, losses, before>>

BridgeInit ==
    /\ mail = <<>> /\ eager \in BOOLEAN
    /\ heartbeat = NoEvent /\ current_event = NoEvent
    /\ poll = [p \in Polls |-> "free"] /\ fetched = [p \in Polls |-> NoEvent]
    /\ shown = [p \in Polls |-> NoEvent] /\ report = NoTask
    /\ assigned = {} /\ seen = {} /\ reported = {} /\ dropped = {} /\ losses = 0
    /\ before = [p \in Polls |-> {}]

-----------------------------------------------------------------------------
(* The daemon: assignments, and the echo of a report without a lease.      *)

Assign(t) ==
    /\ t \notin assigned /\ (eager \/ assigned \subseteq reported \cup {report})
    /\ assigned' = assigned \cup {t}
    /\ mail' = Append(mail, [kind |-> "assignment", task |-> t])
    /\ UNCHANGED <<eager, heartbeat, current_event, poll, fetched, shown, report, seen, reported,
                   dropped, losses, before>>

Echo(t) ==
    /\ eager /\ t \in reported /\ mail = <<>>
    /\ \E k \in {"ended", "other"} : mail' = <<[kind |-> k, task |-> t]>>
    /\ UNCHANGED <<eager, heartbeat, current_event, poll, fetched, shown, report, assigned, seen,
                   reported, dropped, losses, before>>

\* A fetch takes the queue and brings its first message, if the answer arrives:
\* the client waits for it for a second.
Fetch(brought) ==
    LET lost(ms) == {ms[i].task : i \in {j \in 1..Len(ms) : ms[j].kind = "assignment"}}
    IN  /\ mail' = <<>>
        /\ \/ /\ brought = IF mail = <<>> THEN NoEvent ELSE Head(mail)
              /\ dropped' = IF mail = <<>> THEN dropped ELSE dropped \cup lost(Tail(mail))
              /\ UNCHANGED losses
           \/ /\ mail # <<>> /\ losses < MaxLost /\ losses' = losses + 1
              /\ brought = NoEvent
              /\ dropped' = dropped \cup lost(mail)

-----------------------------------------------------------------------------
(* The heartbeat loop.                                                     *)

\* process_message: what the slot holds then. Other notifications leave it.
Stored(message) ==
    IF message.kind \in {"assignment", "ended"} THEN message ELSE current_event

HeartbeatFetches ==
    /\ heartbeat = NoEvent /\ mail # <<>>
    /\ \E m \in Events \cup {NoEvent} : Fetch(m) /\ heartbeat' = m
    /\ UNCHANGED <<eager, current_event, poll, fetched, shown, report, assigned, seen, reported, before>>

HeartbeatStores ==
    /\ heartbeat # NoEvent
    /\ current_event' = Stored(heartbeat)
    /\ heartbeat' = NoEvent
    /\ UNCHANGED <<mail, eager, poll, fetched, shown, report, assigned, seen, reported, dropped,
                   losses, before>>

-----------------------------------------------------------------------------
(* poll_event: the slot first, then the daemon until something is in the   *)
(* slot or the time is over.                                               *)

PollBegins(p) ==
    /\ poll[p] = "free"
    /\ poll' = [poll EXCEPT ![p] = "look"]
    /\ shown' = [shown EXCEPT ![p] = NoEvent]
    /\ before' = [before EXCEPT ![p] = reported]
    /\ UNCHANGED <<mail, eager, heartbeat, current_event, fetched, report, assigned, seen, reported,
                   dropped, losses>>

\* snapshot_event: an assignment stays, a cancellation or a timeout is taken.
Look(p) ==
    /\ poll[p] = "look"
    /\ IF current_event # NoEvent
       THEN /\ shown' = [shown EXCEPT ![p] = current_event]
            /\ seen' = IF current_event.kind = "assignment" THEN seen \cup {current_event.task} ELSE seen
            /\ current_event' = IF current_event.kind = "assignment" THEN current_event ELSE NoEvent
            /\ poll' = [poll EXCEPT ![p] = "free"]
       ELSE /\ poll' = [poll EXCEPT ![p] = "ask"]
            /\ UNCHANGED <<shown, seen, current_event>>
    /\ UNCHANGED <<mail, eager, heartbeat, fetched, report, assigned, reported, dropped, losses, before>>

PollFetches(p) ==
    /\ poll[p] = "ask" /\ mail # <<>>
    /\ \E m \in Events \cup {NoEvent} : Fetch(m) /\ fetched' = [fetched EXCEPT ![p] = m]
    /\ poll' = [poll EXCEPT ![p] = "store"]
    /\ UNCHANGED <<eager, heartbeat, current_event, shown, report, assigned, seen, reported, before>>

PollStores(p) ==
    /\ poll[p] = "store"
    /\ current_event' = Stored(fetched[p])
    /\ fetched' = [fetched EXCEPT ![p] = NoEvent]
    /\ poll' = [poll EXCEPT ![p] = "look"]
    /\ UNCHANGED <<mail, eager, heartbeat, shown, report, assigned, seen, reported, dropped, losses, before>>

\* Without wait, after three seconds, or when the daemon cannot be reached.
PollGivesUp(p) ==
    /\ poll[p] = "ask"
    /\ poll' = [poll EXCEPT ![p] = "free"]
    /\ UNCHANGED <<mail, eager, heartbeat, current_event, fetched, shown, report, assigned, seen,
                   reported, dropped, losses, before>>

-----------------------------------------------------------------------------
(* devit_notify of the worker, for a task it has seen.                     *)

BeginReport(t) ==
    /\ report = NoTask /\ t \in seen \ reported
    /\ report' = t
    /\ UNCHANGED <<mail, eager, heartbeat, current_event, poll, fetched, shown, assigned, seen,
                   reported, dropped, losses, before>>

\* A slip: the slot is left alone.
ReportOnly ==
    /\ report # NoTask
    /\ reported' = reported \cup {report} /\ report' = NoTask
    /\ UNCHANGED <<mail, eager, heartbeat, current_event, poll, fetched, shown, assigned, seen,
                   dropped, losses, before>>

\* A slip: the slot is cleared, whatever it holds.
ReportClears ==
    /\ report # NoTask
    /\ reported' = reported \cup {report} /\ report' = NoTask
    /\ current_event' = NoEvent
    /\ UNCHANGED <<mail, eager, heartbeat, poll, fetched, shown, assigned, seen, dropped, losses, before>>

\* The report has been sent, and the daemon may have the next task on its way:
\* the slot is cleared if it still holds this one.
EndReport ==
    /\ report # NoTask
    /\ reported' = reported \cup {report} /\ report' = NoTask
    /\ current_event' = IF current_event = [kind |-> "assignment", task |-> report]
                        THEN NoEvent ELSE current_event
    /\ UNCHANGED <<mail, eager, heartbeat, poll, fetched, shown, assigned, seen, dropped, losses, before>>

\* The report could not be sent: the slot keeps the task.
ReportFails ==
    /\ report # NoTask
    /\ report' = NoTask
    /\ UNCHANGED <<mail, eager, heartbeat, current_event, poll, fetched, shown, assigned, seen,
                   reported, dropped, losses, before>>

BridgeNext ==
    \/ \E t \in Assignments : Assign(t) \/ Echo(t) \/ BeginReport(t)
    \/ HeartbeatFetches \/ HeartbeatStores \/ EndReport \/ ReportFails
    \/ \E p \in Polls : PollBegins(p) \/ Look(p) \/ PollFetches(p) \/ PollStores(p) \/ PollGivesUp(p)

BridgeSpec == BridgeInit /\ [][BridgeNext]_bridgeVars

-----------------------------------------------------------------------------
(* Properties.                                                             *)

\* A poll never offers a task whose end had been reported when the poll began
\* (worker.rs:252), however heartbeats, polls and the report interleave.
NoFinishedWork ==
    \A p \in Polls :
        poll[p] = "free" /\ shown[p].kind = "assignment" => shown[p].task \notin before[p]

\* As long as the daemon assigns one task at a time, none is lost between the
\* heartbeat loop and the polls: an assignment that no poll has shown is on its
\* way or in the slot, unless the answer that brought it was lost.
\* (With a second one on its way, the later to be stored takes the slot.)
OneTaskArrives ==
    \/ eager
    \/ \A t \in assigned \ (seen \cup dropped) :
          LET event == [kind |-> "assignment", task |-> t]
          IN  \/ mail = <<event>> \/ heartbeat = event \/ current_event = event
              \/ \E p \in Polls : fetched[p] = event
=============================================================================
