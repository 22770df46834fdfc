------------------------ MODULE DevitOrchestratorProofs ------------------------
(***************************************************************************)
(* Proofs about the cache of DaemonBackend: for any number of tasks and    *)
(* callers it never shows a status that the task did not have; and for     *)
(* calls one after the other two whole refreshes bring it up to date.      *)
(***************************************************************************)
EXTENDS DevitOrchestratorHistory, TLAPS

historyVars == <<vars, held, fresh, quiet>>

Notes == [kind : {"NOTIFY", "APPROVAL"}, task : Tasks, status : StatusStrings \cup {"none"}]

Statuses == Open \cup Terminal

\* What was seen of a task: a status it had, or none.
Seen(t, s) == s \in held[t] \cup {"none"}
NoteSeen(n) == n.kind = "NOTIFY" => map_status(n.status) \in held[n.task]

HeldTypes ==
  /\ active \in [Tasks -> Open \cup {"none"}] /\ ended \in [Tasks -> Terminal \cup {"none"}]
  /\ cached_active \in [Tasks -> Statuses \cup {"none"}]
  /\ cached_completed \in [Tasks -> Statuses \cup {"none"}]
  /\ queue \in Seq(Notes)
  /\ sent \subseteq Tasks
  /\ held \in [Tasks -> SUBSET Statuses]
  /\ at \in [Callers -> Labels]
  /\ task \in [Callers -> Tasks \cup {NoTask}]
  /\ DOMAIN reply = Callers

\* Where a caller stands tells what it has in hand.
InHand(c) ==
  /\ at[c] \in {"record", "notified"} => task[c] \in Tasks
  /\ at[c] \in {"notified", "note"} => reply[c] \in Notes /\ NoteSeen(reply[c])
  /\ at[c] = "notified" => reply[c].kind = "NOTIFY" /\ reply[c].task = task[c]
  /\ at[c] = "apply" =>
       /\ reply[c].active \in [Tasks -> Open \cup {"none"}]
       /\ reply[c].ended \in [Tasks -> Terminal \cup {"none"}]
       /\ \A t \in Tasks : Seen(t, reply[c].active[t]) /\ Seen(t, reply[c].ended[t])

HeldInv ==
  /\ HeldTypes
  /\ \A c \in Callers : InHand(c)
  /\ \A i \in DOMAIN queue : NoteSeen(queue[i])
  /\ \A t \in Tasks : Seen(t, active[t]) /\ Seen(t, ended[t])
  /\ NoInventedOutcome

-----------------------------------------------------------------------------
(* The history of held.                                                    *)

LEMMA MapStatusType ==
  ASSUME NEW s
  PROVE  map_status(s) \in Statuses /\ map_status(s) # "none"
  BY DEF map_status, Statuses, Open, Terminal

\* A history step forgets nothing, and sees what tasks become and what
\* devit_notify is called with.
LEMMA HeldGrows ==
  ASSUME HeldTypes, History, active' \in [Tasks -> Open \cup {"none"}],
         ended' \in [Tasks -> Terminal \cup {"none"}]
  PROVE  /\ held' \in [Tasks -> SUBSET Statuses]
         /\ \A t \in Tasks : held[t] \subseteq held'[t] /\ Seen(t, active[t])' /\ Seen(t, ended[t])'
         /\ \A c \in Callers, t \in Tasks :
              at'[c] = "notified" /\ task'[c] = t => map_status(reply'[c].status) \in held'[t]
<1> DEFINE said(t) == {map_status(reply'[c].status) :
                         c \in {d \in Callers : at'[d] = "notified" /\ task'[d] = t}}
<1>1. held' = [t \in Tasks |-> held[t] \cup ({active'[t], ended'[t]} \ {"none"}) \cup said(t)]
  BY DEF History
<1>2. \A t \in Tasks : said(t) \subseteq Statuses
  BY MapStatusType
<1>3. \A t \in Tasks : {active'[t], ended'[t]} \ {"none"} \subseteq Statuses
  BY DEF Statuses
<1>4. \A c \in Callers, t \in Tasks :
        at'[c] = "notified" /\ task'[c] = t => map_status(reply'[c].status) \in said(t)
  OBVIOUS
<1>5. \A t \in Tasks : held[t] \subseteq Statuses
  BY DEF HeldTypes
<1> HIDE DEF said
<1>6. \A t \in Tasks : held'[t] = held[t] \cup ({active'[t], ended'[t]} \ {"none"}) \cup said(t)
  BY <1>1
<1>7. held' \in [Tasks -> SUBSET Statuses]
  BY <1>1, <1>2, <1>3, <1>5
<1> QED
  BY <1>4, <1>6, <1>7 DEF Seen

-----------------------------------------------------------------------------
(* The steps of the daemon.                                                *)

\* The daemon's types hold after each of its steps, and what it appends to the
\* queue tells a status that the task has now.
DaemonStep ==
  /\ active' \in [Tasks -> Open \cup {"none"}] /\ ended' \in [Tasks -> Terminal \cup {"none"}]
  /\ \/ queue' \in {queue, <<>>}
     \/ \E n \in Notes :
          /\ queue' = Append(queue, n)
          /\ n.kind = "NOTIFY" => map_status(n.status) \in {active'[n.task], ended'[n.task]}

LEMMA EndTypes ==
  ASSUME HeldTypes, NEW t \in Tasks, NEW s \in Terminal, End(t, s)
  PROVE  ended' \in [Tasks -> Terminal \cup {"none"}] /\ ended'[t] = s
<1>1. PICK dropped \in SUBSET (Tasks \ {t}) :
        ended' = [u \in Tasks |-> IF u = t THEN s
                                  ELSE IF u \in dropped THEN "none" ELSE ended[u]]
  BY DEF End
<1> QED
  BY <1>1 DEF HeldTypes

LEMMA NoteIsNote ==
  ASSUME NEW k \in {"NOTIFY", "APPROVAL"}, NEW t \in Tasks, NEW s \in StatusStrings \cup {"none"}
  PROVE  /\ Note(k, t, s) \in Notes /\ Note(k, t, s).kind = k
         /\ Note(k, t, s).task = t /\ Note(k, t, s).status = s
  BY DEF Note, Notes

LEMMA HoldStep ==
  ASSUME HeldTypes, NEW t \in Tasks, NEW told \in BOOLEAN, Hold(t, told)
  PROVE  DaemonStep
<1>1. UNCHANGED <<active, ended>> /\ Tell(told, Note("APPROVAL", t, "none"))
  BY DEF Hold
<1>2. Note("APPROVAL", t, "none") \in Notes /\ Note("APPROVAL", t, "none").kind = "APPROVAL"
  BY NoteIsNote
<1> QED
  BY <1>1, <1>2 DEF Tell, DaemonStep, HeldTypes

LEMMA RefuseStep ==
  ASSUME HeldTypes, NEW t \in Tasks, NEW told \in BOOLEAN, Refuse(t, told)
  PROVE  DaemonStep
<1> DEFINE n == Note("NOTIFY", t, "failed")
<1>1. UNCHANGED active /\ End(t, "Failed") /\ Tell(told, n)
  BY DEF Refuse
<1>2. n \in Notes /\ n.task = t /\ map_status(n.status) = "Failed"
  BY NoteIsNote DEF StatusStrings, map_status
<1>3. ended' \in [Tasks -> Terminal \cup {"none"}] /\ ended'[t] = "Failed"
  BY <1>1, EndTypes DEF Terminal
<1> HIDE DEF n
<1> QED
  BY <1>1, <1>2, <1>3 DEF Tell, DaemonStep, HeldTypes

LEMMA ReportStep ==
  ASSUME HeldTypes, NEW t \in Tasks, NEW s \in StatusStrings, NEW told \in BOOLEAN,
         Report(t, s, told)
  PROVE  DaemonStep
<1> DEFINE n == Note("NOTIFY", t, s)
           m == map_status(s)
<1>1. n \in Notes /\ n.task = t /\ map_status(n.status) = m
  BY NoteIsNote
<1>2. Tell(told, n)
  BY DEF Report
<1>3. /\ active' \in [Tasks -> Open \cup {"none"}] /\ ended' \in [Tasks -> Terminal \cup {"none"}]
      /\ m \in {active'[t], ended'[t]}
  <2>1. CASE m \in Terminal
    <3>1. active' = [active EXCEPT ![t] = "none"] /\ End(t, m)
      BY <2>1 DEF Report
    <3> HIDE DEF m
    <3>2. ended' \in [Tasks -> Terminal \cup {"none"}] /\ ended'[t] = m
      BY <2>1, <3>1, EndTypes
    <3> QED
      BY <3>1, <3>2 DEF HeldTypes
  <2>2. CASE m \notin Terminal
    <3>1. m \in Open
      BY <2>2, MapStatusType DEF Statuses
    <3>2. /\ active' = [active EXCEPT ![t] = m]
          /\ ended' = [ended EXCEPT ![t] = "none"] \/ ended' = ended
      BY <2>2 DEF Report
    <3> HIDE DEF m
    <3> QED
      BY <3>1, <3>2 DEF HeldTypes
  <2> QED
    BY <2>1, <2>2
<1> HIDE DEF n, m
<1> QED
  BY <1>1, <1>2, <1>3 DEF Tell, DaemonStep

LEMMA OtherDaemonSteps ==
  ASSUME HeldTypes
  PROVE  /\ \A t \in Tasks, s \in Open : Accept(t, s) => DaemonStep
         /\ \A t \in Tasks : Forget(t) => DaemonStep
         /\ TakeQueue => DaemonStep
         /\ Restart => DaemonStep
         /\ UNCHANGED taskvars => DaemonStep
<1>1. ASSUME NEW t \in Tasks, NEW s \in Open, Accept(t, s)
      PROVE  DaemonStep
  BY <1>1 DEF Accept, DaemonStep, HeldTypes
<1>2. ASSUME Restart
      PROVE  DaemonStep
  BY <1>2 DEF Restart, Nothing, DaemonStep
<1> QED
  BY <1>1, <1>2 DEF Forget, TakeQueue, taskvars, DaemonStep, HeldTypes

LEMMA DaemonIsStep ==
  ASSUME HeldTypes, Daemon
  PROVE  DaemonStep
<1>1. sent \subseteq Tasks /\ Reports \subseteq StatusStrings
  BY OrchestratorAssumption DEF HeldTypes
<1> QED
  BY <1>1, HoldStep, RefuseStep, ReportStep, OtherDaemonSteps DEF Daemon

\* After such a step, whatever is known of tasks and queue has been seen.
LEMMA DaemonSideSeen ==
  ASSUME HeldInv, DaemonStep, History
  PROVE  /\ held' \in [Tasks -> SUBSET Statuses]
         /\ active' \in [Tasks -> Open \cup {"none"}] /\ ended' \in [Tasks -> Terminal \cup {"none"}]
         /\ queue' \in Seq(Notes)
         /\ (\A i \in DOMAIN queue : NoteSeen(queue[i]))'
         /\ (\A t \in Tasks : Seen(t, active[t]) /\ Seen(t, ended[t]))'
         /\ \A t \in Tasks : held[t] \subseteq held'[t]
         /\ \A c \in Callers, t \in Tasks :
              at'[c] = "notified" /\ task'[c] = t => map_status(reply'[c].status) \in held'[t]
<1>1. HeldTypes
  BY DEF HeldInv
<1>2. /\ held' \in [Tasks -> SUBSET Statuses]
      /\ \A t \in Tasks : held[t] \subseteq held'[t] /\ Seen(t, active[t])' /\ Seen(t, ended[t])'
      /\ \A c \in Callers, t \in Tasks :
           at'[c] = "notified" /\ task'[c] = t => map_status(reply'[c].status) \in held'[t]
  BY <1>1, HeldGrows DEF DaemonStep
<1>3. queue \in Seq(Notes) /\ \A i \in DOMAIN queue : NoteSeen(queue[i])
  BY DEF HeldInv, HeldTypes
<1>4. ASSUME NEW i \in DOMAIN queue
      PROVE  queue[i] \in Notes
             /\ (queue[i].kind = "NOTIFY" => map_status(queue[i].status) \in held'[queue[i].task])
  <2>1. queue[i] \in Notes
    BY <1>3
  <2>2. queue[i].task \in Tasks
    BY <2>1 DEF Notes
  <2>3. held[queue[i].task] \subseteq held'[queue[i].task] /\ NoteSeen(queue[i])
    BY <1>2, <1>3, <2>2
  <2> QED
    BY <2>1, <2>3, Zenon DEF NoteSeen
<1>5. queue' \in Seq(Notes)
  <2>1. <<>> \in Seq(Notes) /\ \A n \in Notes : Append(queue, n) \in Seq(Notes)
    BY <1>3
  <2> QED
    BY <1>3, <2>1 DEF DaemonStep
<1>6. ASSUME NEW j \in DOMAIN queue', queue'[j].kind = "NOTIFY"
      PROVE  map_status(queue'[j].status) \in held'[queue'[j].task]
  <2>1. CASE queue' = queue
    BY <1>4, <1>6, <2>1
  <2>2. CASE queue' = <<>>
    BY <2>2
  <2>3. ASSUME NEW n \in Notes, queue' = Append(queue, n),
               n.kind = "NOTIFY" => map_status(n.status) \in {active'[n.task], ended'[n.task]}
        PROVE  map_status(queue'[j].status) \in held'[queue'[j].task]
    <3>1. CASE j \in DOMAIN queue
      <4>1. queue'[j] = queue[j]
        BY <1>3, <2>3, <3>1
      <4> QED
        BY <1>4, <1>6, <3>1, <4>1
    <3>2. CASE j \notin DOMAIN queue
      <4>1. queue'[j] = n
        BY <1>3, <2>3, <3>2
      <4>2. n.task \in Tasks
        BY DEF Notes
      <4>3. map_status(n.status) \in held'[n.task] \cup {"none"}
        BY <1>2, <1>6, <2>3, <4>1, <4>2 DEF Seen
      <4> QED
        BY <4>1, <4>3, MapStatusType
    <3> QED
      BY <3>1, <3>2
  <2> QED
    BY <2>1, <2>2, <2>3 DEF DaemonStep
<1>7. (\A i \in DOMAIN queue : NoteSeen(queue[i]))'
  BY <1>6 DEF NoteSeen
<1>8. (\A t \in Tasks : Seen(t, active[t]) /\ Seen(t, ended[t]))'
  BY <1>2
<1> QED
  BY <1>2, <1>5, <1>7, <1>8 DEF DaemonStep

-----------------------------------------------------------------------------
(* The steps of the callers.                                               *)

\* What the daemon's side of a step leaves to show for the callers.
CallersSide ==
  /\ cached_active' \in [Tasks -> Statuses \cup {"none"}]
  /\ cached_completed' \in [Tasks -> Statuses \cup {"none"}]
  /\ NoInventedOutcome'
  /\ sent' \subseteq Tasks
  /\ at' \in [Callers -> Labels] /\ task' \in [Callers -> Tasks \cup {NoTask}]
  /\ DOMAIN reply' = Callers

LEMMA HandStays ==
  ASSUME HeldInv, NEW d \in Callers, \A t \in Tasks : held[t] \subseteq held'[t],
         at'[d] = at[d], task'[d] = task[d], reply'[d] = reply[d]
  PROVE  InHand(d)'
<1>1. InHand(d)
  BY DEF HeldInv
<1>2. at[d] \in {"notified", "note"} => NoteSeen(reply[d])'
  <2> SUFFICES ASSUME at[d] \in {"notified", "note"}, reply[d].kind = "NOTIFY"
               PROVE  map_status(reply[d].status) \in held'[reply[d].task]
    BY DEF NoteSeen
  <2>1. reply[d].task \in Tasks
    BY <1>1 DEF InHand, Notes
  <2>2. NoteSeen(reply[d]) /\ held[reply[d].task] \subseteq held'[reply[d].task]
    BY <1>1, <2>1 DEF InHand
  <2> QED
    BY <2>2, Zenon DEF NoteSeen
<1>3. ASSUME at[d] = "apply", NEW t \in Tasks
      PROVE  (Seen(t, reply[d].active[t]) /\ Seen(t, reply[d].ended[t]))'
  BY <1>1, <1>3 DEF InHand, Seen
<1> QED
  BY <1>1, <1>2, <1>3 DEF InHand

LEMMA CacheStays ==
  ASSUME HeldInv, \A t \in Tasks : held[t] \subseteq held'[t], UNCHANGED cache
  PROVE  /\ cached_active' \in [Tasks -> Statuses \cup {"none"}]
         /\ cached_completed' \in [Tasks -> Statuses \cup {"none"}]
         /\ NoInventedOutcome'
<1>1. UNCHANGED <<cached_active, cached_completed>>
  BY DEF cache
<1> QED
  BY <1>1 DEF HeldInv, HeldTypes, NoInventedOutcome

\* record_notification of a status that was seen.
LEMMA RecordKeeps ==
  ASSUME HeldInv, \A t \in Tasks : held[t] \subseteq held'[t], NEW t \in Tasks, NEW s,
         map_status(s) \in held[t], record_notification(t, s)
  PROVE  /\ cached_active' \in [Tasks -> Statuses \cup {"none"}]
         /\ cached_completed' \in [Tasks -> Statuses \cup {"none"}]
         /\ NoInventedOutcome'
<1> DEFINE m == map_status(s)
<1>1. m \in Statuses /\ m \in held[t]
  BY MapStatusType
<1>2. /\ \/ cached_active' = [cached_active EXCEPT ![t] = "none"]
         \/ cached_active' = [cached_active EXCEPT ![t] = m]
      /\ \/ cached_completed' = [cached_completed EXCEPT ![t] = m]
         \/ cached_completed' = [cached_completed EXCEPT ![t] = "none"]
         \/ cached_completed' = cached_completed
  BY DEF record_notification
<1> HIDE DEF m
<1> QED
  BY <1>1, <1>2 DEF HeldInv, HeldTypes, NoInventedOutcome

LEMMA CallerStep ==
  ASSUME HeldInv, DaemonStep, History, CallersSide, NEW c \in Callers, InHand(c)',
         \A d \in Callers \ {c} : at'[d] = at[d] /\ task'[d] = task[d] /\ reply'[d] = reply[d]
  PROVE  HeldInv'
<1>1. /\ held' \in [Tasks -> SUBSET Statuses]
      /\ active' \in [Tasks -> Open \cup {"none"}] /\ ended' \in [Tasks -> Terminal \cup {"none"}]
      /\ queue' \in Seq(Notes)
      /\ (\A i \in DOMAIN queue : NoteSeen(queue[i]))'
      /\ (\A t \in Tasks : Seen(t, active[t]) /\ Seen(t, ended[t]))'
      /\ \A t \in Tasks : held[t] \subseteq held'[t]
  BY DaemonSideSeen
<1>2. \A d \in Callers : InHand(d)'
  BY <1>1, HandStays
<1> QED
  BY <1>1, <1>2 DEF HeldInv, HeldTypes, CallersSide

\* The daemon alone.
LEMMA DaemonKeeps ==
  ASSUME HeldInv, DaemonStep, History, UNCHANGED client
  PROVE  HeldInv'
<1>1. /\ held' \in [Tasks -> SUBSET Statuses]
      /\ active' \in [Tasks -> Open \cup {"none"}] /\ ended' \in [Tasks -> Terminal \cup {"none"}]
      /\ queue' \in Seq(Notes)
      /\ (\A i \in DOMAIN queue : NoteSeen(queue[i]))'
      /\ (\A t \in Tasks : Seen(t, active[t]) /\ Seen(t, ended[t]))'
      /\ \A t \in Tasks : held[t] \subseteq held'[t]
  BY DaemonSideSeen
<1>2. UNCHANGED <<cached_active, cached_completed, sent, at, task, reply>>
  BY DEF client
<1>3. \A d \in Callers : InHand(d)'
  BY <1>1, <1>2, HandStays
<1>4. /\ cached_active' \in [Tasks -> Statuses \cup {"none"}]
      /\ cached_completed' \in [Tasks -> Statuses \cup {"none"}]
      /\ NoInventedOutcome'
  BY <1>1, <1>2, CacheStays DEF cache
<1> QED
  BY <1>1, <1>2, <1>3, <1>4 DEF HeldInv, HeldTypes

\* A step of c: what it has in hand afterwards is all that is left to show.
OnlyOf(c) ==
  /\ \E label \in Labels : at' = [at EXCEPT ![c] = label]
  /\ task' = task \/ \E t \in Tasks \cup {NoTask} : task' = [task EXCEPT ![c] = t]
  /\ reply' = reply \/ reply' = [reply EXCEPT ![c] = reply'[c]]
  /\ sent' \subseteq Tasks

CacheKept ==
  /\ cached_active' \in [Tasks -> Statuses \cup {"none"}]
  /\ cached_completed' \in [Tasks -> Statuses \cup {"none"}]
  /\ NoInventedOutcome'

LEMMA CallMoves ==
  ASSUME HeldInv, DaemonStep, History, CacheKept, NEW c \in Callers, OnlyOf(c), InHand(c)'
  PROVE  HeldInv'
<1>1. HeldTypes
  BY DEF HeldInv
<1>2. at' \in [Callers -> Labels] /\ \A d \in Callers \ {c} : at'[d] = at[d]
  BY <1>1 DEF HeldTypes, OnlyOf
<1>3. task' \in [Callers -> Tasks \cup {NoTask}] /\ \A d \in Callers \ {c} : task'[d] = task[d]
  BY <1>1 DEF HeldTypes, OnlyOf
<1>4. DOMAIN reply' = Callers /\ \A d \in Callers \ {c} : reply'[d] = reply[d]
  <2>1. DOMAIN reply = Callers
    BY <1>1 DEF HeldTypes
  <2>2. CASE reply' = reply
    BY <2>1, <2>2
  <2>3. ASSUME NEW r, reply' = [reply EXCEPT ![c] = r]
        PROVE  DOMAIN reply' = Callers /\ \A d \in Callers \ {c} : reply'[d] = reply[d]
    BY <2>1, <2>3
  <2> QED
    BY <2>2, <2>3 DEF OnlyOf
<1>5. CallersSide
  BY <1>2, <1>3, <1>4 DEF CallersSide, CacheKept, OnlyOf
<1> QED
  BY <1>2, <1>3, <1>4, <1>5, CallerStep

\* In these places a call has nothing in hand.
Bare == {"idle", "snapshot", "heartbeat", "poll", "read"}

LEMMA CallMovesOn ==
  ASSUME HeldInv, DaemonStep, History, CacheKept, NEW c \in Callers, OnlyOf(c),
         NEW label \in Bare, GoTo(c, label)
  PROVE  HeldInv'
<1>1. at'[c] = label
  BY DEF GoTo, HeldInv, HeldTypes
<1>2. InHand(c)'
  BY <1>1 DEF InHand, Bare
<1> QED
  BY <1>2, CallMoves

LEMMA ToolKeeps ==
  ASSUME HeldInv, History, NEW c \in Callers, Tool(c)
  PROVE  HeldInv'
<1>1. HeldTypes /\ InHand(c)
  BY DEF HeldInv
<1>2. UNCHANGED taskvars => DaemonStep
  BY <1>1, OtherDaemonSteps
<1>3. DaemonStep /\ UNCHANGED cache => CacheKept
  BY DaemonSideSeen, CacheStays DEF CacheKept
<1>4. DaemonStep => \A t \in Tasks : held[t] \subseteq held'[t]
  BY DaemonSideSeen
<1>5. ASSUME NEW t \in Tasks, DelegateSend(c, t)
      PROVE  HeldInv'
  <2>1. DaemonStep /\ CacheKept /\ UNCHANGED reply /\ sent' \subseteq Tasks
    BY <1>1, <1>2, <1>3, <1>5 DEF DelegateSend, HeldTypes
  <2>2. CASE Call(c, t, "record")
    <3>1. at' = [at EXCEPT ![c] = "record"] /\ task' = [task EXCEPT ![c] = t]
      BY <2>2 DEF Call, GoTo
    <3>2. InHand(c)'
      BY <1>1, <3>1 DEF InHand, HeldTypes
    <3>3. OnlyOf(c)
      BY <2>1, <3>1 DEF OnlyOf, Labels
    <3> QED
      BY <2>1, <3>2, <3>3, CallMoves
  <2>3. CASE at[c] = "idle" /\ UNCHANGED <<at, task>>
    <3>1. GoTo(c, "idle")
      BY <1>1, <2>3 DEF GoTo, HeldTypes
    <3>2. OnlyOf(c)
      BY <2>1, <2>3, <3>1 DEF OnlyOf, GoTo, Labels
    <3> QED
      BY <2>1, <3>1, <3>2, CallMovesOn DEF Bare
  <2> QED
    BY <1>5, <2>2, <2>3 DEF DelegateSend
<1>6. ASSUME NEW t \in Tasks, devit_task_result(c, t)
      PROVE  HeldInv'
  <2>1. DaemonStep /\ CacheKept /\ GoTo(c, "read")
    BY <1>2, <1>3, <1>6 DEF devit_task_result, Call
  <2>2. OnlyOf(c)
    BY <1>1, <1>6 DEF devit_task_result, Call, GoTo, OnlyOf, Labels, HeldTypes
  <2> QED
    BY <2>1, <2>2, CallMovesOn DEF Bare
<1>7. ASSUME NEW t \in Tasks, NEW s \in Reports, NotifySend(c, t, s)
      PROVE  HeldInv'
  <2>1. s \in StatusStrings
    BY OrchestratorAssumption
  <2>2. DaemonStep /\ CacheKept /\ UNCHANGED sent
    BY <1>1, <1>2, <1>3, <1>7, <2>1, ReportStep DEF NotifySend
  <2> DEFINE n == Note("NOTIFY", t, s)
  <2>3. n \in Notes /\ n.kind = "NOTIFY" /\ n.task = t
    BY <2>1, NoteIsNote
  <2>4. /\ at' = [at EXCEPT ![c] = "notified"] /\ task' = [task EXCEPT ![c] = t]
        /\ reply' = [reply EXCEPT ![c] = n]
    BY <1>7 DEF NotifySend, Call, GoTo
  <2> HIDE DEF n
  <2>5. at'[c] = "notified" /\ task'[c] = t /\ reply'[c] = n
    BY <1>1, <2>4 DEF HeldTypes
  <2>6. map_status(reply'[c].status) \in held'[t]
    BY <2>2, <2>5, DaemonSideSeen
  <2>7. NoteSeen(reply[c])'
    BY <2>3, <2>5, <2>6 DEF NoteSeen
  <2>8. InHand(c)'
    BY <2>3, <2>5, <2>7 DEF InHand
  <2>9. OnlyOf(c)
    BY <1>1, <2>2, <2>4, <2>5 DEF OnlyOf, Labels, HeldTypes
  <2> QED
    BY <2>2, <2>8, <2>9, CallMoves
<1>8. CASE record_task(c)
  <2>1. task[c] \in Tasks
    BY <1>1, <1>8 DEF record_task, InHand
  <2>2. DaemonStep /\ GoTo(c, "idle")
    BY <1>2, <1>8 DEF record_task, Return
  <2>3. CacheKept
    <3>1. /\ cached_active' = [cached_active EXCEPT ![task[c]] = "Pending"]
          /\ UNCHANGED cached_completed
      BY <1>8 DEF record_task
    <3>2. "Pending" \in Statuses
      BY DEF Statuses, Open
    <3> QED
      BY <1>1, <1>4, <2>1, <2>2, <3>1, <3>2 DEF CacheKept, HeldInv, HeldTypes, NoInventedOutcome
  <2>4. OnlyOf(c)
    BY <1>1, <1>8 DEF record_task, Return, GoTo, OnlyOf, Labels, HeldTypes
  <2> QED
    BY <2>2, <2>3, <2>4, CallMovesOn DEF Bare
<1>9. CASE NotifyRecord(c)
  <2>1. task[c] \in Tasks /\ map_status(reply[c].status) \in held[task[c]]
    BY <1>1, <1>9 DEF NotifyRecord, InHand, NoteSeen
  <2>2. DaemonStep /\ GoTo(c, "idle")
    BY <1>2, <1>9 DEF NotifyRecord, Return
  <2>3. CacheKept
    BY <1>4, <1>9, <2>1, <2>2, RecordKeeps DEF CacheKept, NotifyRecord
  <2>4. OnlyOf(c)
    BY <1>1, <1>9 DEF NotifyRecord, Return, GoTo, OnlyOf, Labels, HeldTypes
  <2> QED
    BY <2>2, <2>3, <2>4, CallMovesOn DEF Bare
<1>10. CASE devit_orchestration_status(c)
  <2>1. DaemonStep /\ CacheKept /\ GoTo(c, "snapshot")
    BY <1>2, <1>3, <1>10 DEF devit_orchestration_status, Call
  <2>2. OnlyOf(c)
    BY <1>1, <1>10 DEF devit_orchestration_status, Call, GoTo, OnlyOf, Labels, HeldTypes
  <2> QED
    BY <2>1, <2>2, CallMovesOn DEF Bare
<1>11. CASE ReadAnswers(c) \/ ReadRetries(c)
  <2>1. DaemonStep /\ CacheKept /\ (GoTo(c, "idle") \/ GoTo(c, "snapshot"))
    BY <1>2, <1>3, <1>11 DEF ReadAnswers, ReadRetries, Return
  <2>2. OnlyOf(c)
    BY <1>1, <1>11 DEF ReadAnswers, ReadRetries, Return, GoTo, OnlyOf, Labels, HeldTypes
  <2> QED
    BY <2>1, <2>2, CallMovesOn DEF Bare
<1> QED
  BY <1>5, <1>6, <1>7, <1>8, <1>9, <1>10, <1>11 DEF Tool

LEMMA RefreshKeeps ==
  ASSUME HeldInv, History, NEW c \in Callers, refresh_notifications(c)
  PROVE  HeldInv'
<1>1. HeldTypes /\ InHand(c)
  BY DEF HeldInv
<1>2. (UNCHANGED taskvars => DaemonStep) /\ (TakeQueue => DaemonStep)
  BY <1>1, OtherDaemonSteps
<1>3. DaemonStep /\ UNCHANGED cache => CacheKept
  BY DaemonSideSeen, CacheStays DEF CacheKept
<1>4. DaemonStep => \A t \in Tasks : held[t] \subseteq held'[t]
  BY DaemonSideSeen
<1>5. CASE status_snapshot(c)
  <2>1. DaemonStep /\ CacheKept /\ UNCHANGED <<active, ended>>
    BY <1>2, <1>3, <1>5 DEF status_snapshot, taskvars
  <2>2. at'[c] = "apply" /\ reply'[c] = [kind |-> "snapshot", active |-> active, ended |-> ended]
    BY <1>1, <1>5 DEF status_snapshot, GoTo, Snapshot, HeldTypes
  <2>3. \A t \in Tasks : (Seen(t, reply[c].active[t]) /\ Seen(t, reply[c].ended[t]))'
    BY <2>1, <2>2, DaemonSideSeen
  <2>4. InHand(c)'
    BY <1>1, <2>1, <2>2, <2>3 DEF InHand, HeldTypes
  <2>5. OnlyOf(c)
    BY <1>1, <1>5, <2>2 DEF status_snapshot, GoTo, OnlyOf, Labels, HeldTypes, Snapshot
  <2> QED
    BY <2>1, <2>4, <2>5, CallMoves
<1>6. CASE SnapshotLost(c) \/ RefreshFails(c)
  <2>1. /\ DaemonStep /\ CacheKept
        /\ GoTo(c, "heartbeat") \/ GoTo(c, "idle") \/ GoTo(c, "read")
    BY <1>2, <1>3, <1>6 DEF SnapshotLost, RefreshFails, Refreshed, Return
  <2>2. OnlyOf(c)
    BY <1>1, <1>6 DEF SnapshotLost, RefreshFails, Refreshed, Return, GoTo, OnlyOf, Labels, HeldTypes
  <2> QED
    BY <2>1, <2>2, CallMovesOn DEF Bare
<1>7. CASE process_snapshot(c)
  <2>1. DaemonStep /\ GoTo(c, "heartbeat")
    BY <1>2, <1>7 DEF process_snapshot
  <2>2. CacheKept
    <3>1. cached_active' = reply[c].active /\ cached_completed' = reply[c].ended
      BY <1>7 DEF process_snapshot
    <3>2. /\ reply[c].active \in [Tasks -> Open \cup {"none"}]
          /\ reply[c].ended \in [Tasks -> Terminal \cup {"none"}]
          /\ \A t \in Tasks : Seen(t, reply[c].active[t]) /\ Seen(t, reply[c].ended[t])
      BY <1>1, <1>7 DEF process_snapshot, InHand
    <3>3. cached_active' \in [Tasks -> Statuses \cup {"none"}]
      BY <3>1, <3>2 DEF Statuses
    <3>4. cached_completed' \in [Tasks -> Statuses \cup {"none"}]
      BY <3>1, <3>2 DEF Statuses
    <3>5. NoInventedOutcome'
      BY <1>4, <2>1, <3>1, <3>2 DEF NoInventedOutcome, Seen
    <3> QED
      BY <3>3, <3>4, <3>5 DEF CacheKept
  <2>3. OnlyOf(c)
    BY <1>1, <1>7 DEF process_snapshot, GoTo, OnlyOf, Labels, HeldTypes
  <2> QED
    BY <2>1, <2>2, <2>3, CallMovesOn DEF Bare
<1>8. CASE Fetch(c)
  <2>1. DaemonStep /\ CacheKept /\ UNCHANGED sent
    BY <1>2, <1>3, <1>8 DEF Fetch
  <2>2. CASE /\ queue # <<>> /\ reply' = [reply EXCEPT ![c] = Head(queue)]
             /\ GoTo(c, "note") /\ UNCHANGED task
    <3>1. queue \in Seq(Notes) /\ queue # <<>>
      BY <1>1, <2>2 DEF HeldTypes
    <3>2. Head(queue) \in Notes /\ Head(queue) = queue[1] /\ 1 \in DOMAIN queue
      BY <3>1
    <3>3. NoteSeen(Head(queue))
      BY <3>2 DEF HeldInv
    <3>4. at'[c] = "note" /\ reply'[c] = Head(queue)
      BY <1>1, <2>2 DEF GoTo, HeldTypes
    <3>5. reply'[c].kind = "NOTIFY" => map_status(reply'[c].status) \in held'[reply'[c].task]
      <4>1. Head(queue).task \in Tasks
        BY <3>2 DEF Notes
      <4>2. held[Head(queue).task] \subseteq held'[Head(queue).task]
        BY <1>4, <2>1, <4>1
      <4> QED
        BY <3>3, <3>4, <4>2, Zenon DEF NoteSeen
    <3>6. InHand(c)'
      BY <3>2, <3>4, <3>5 DEF InHand, NoteSeen
    <3>7. OnlyOf(c)
      BY <1>1, <2>1, <2>2, <3>4 DEF GoTo, OnlyOf, Labels, HeldTypes
    <3> QED
      BY <2>1, <3>6, <3>7, CallMoves
  <2>3. CASE /\ UNCHANGED reply
             /\ IF at[c] = "heartbeat" THEN GoTo(c, "poll") /\ UNCHANGED task ELSE Refreshed(c)
    <3>1. GoTo(c, "poll") \/ GoTo(c, "idle") \/ GoTo(c, "read")
      BY <2>3 DEF Refreshed, Return
    <3>2. OnlyOf(c)
      BY <1>1, <2>1, <2>3 DEF Refreshed, Return, GoTo, OnlyOf, Labels, HeldTypes
    <3> QED
      BY <2>1, <3>1, <3>2, CallMovesOn DEF Bare
  <2> QED
    BY <1>8, <2>2, <2>3 DEF Fetch
<1>9. CASE process_notification(c)
  <2>1. DaemonStep /\ GoTo(c, "poll")
    BY <1>2, <1>9 DEF process_notification
  <2>2. CacheKept
    <3>1. CASE reply[c].kind = "NOTIFY"
      <4>1. reply[c].task \in Tasks /\ map_status(reply[c].status) \in held[reply[c].task]
        BY <1>1, <1>9, <3>1 DEF process_notification, InHand, NoteSeen, Notes
      <4>2. record_notification(reply[c].task, reply[c].status)
        BY <1>9, <3>1 DEF process_notification
      <4> QED
        BY <1>4, <2>1, <4>1, <4>2, RecordKeeps DEF CacheKept
    <3>2. CASE reply[c].kind # "NOTIFY"
      BY <1>3, <1>9, <2>1, <3>2 DEF process_notification
    <3> QED
      BY <3>1, <3>2
  <2>3. OnlyOf(c)
    BY <1>1, <1>9 DEF process_notification, GoTo, OnlyOf, Labels, HeldTypes
  <2> QED
    BY <2>1, <2>2, <2>3, CallMovesOn DEF Bare
<1> QED
  BY <1>5, <1>6, <1>7, <1>8, <1>9 DEF refresh_notifications

-----------------------------------------------------------------------------
LEMMA HeldInit ==
  ASSUME HistoryInit
  PROVE  HeldInv
<1>1. /\ active = Nothing /\ ended = Nothing /\ queue = <<>>
      /\ cached_active = Nothing /\ cached_completed = Nothing
      /\ sent = {} /\ held = [t \in Tasks |-> {}]
      /\ at = [c \in Callers |-> "idle"] /\ task = [c \in Callers |-> NoTask]
      /\ reply = [c \in Callers |-> NoReply]
  BY DEF HistoryInit, OrchestratorInit, Init
<1>2. Nothing = [t \in Tasks |-> "none"]
  BY DEF Nothing
<1>3. HeldTypes
  BY <1>1, <1>2 DEF HeldTypes, Labels
<1>4. \A c \in Callers : InHand(c)
  BY <1>1 DEF InHand
<1>5. \A t \in Tasks : Seen(t, active[t]) /\ Seen(t, ended[t])
  BY <1>1, <1>2 DEF Seen
<1>6. NoInventedOutcome
  BY <1>1, <1>2 DEF NoInventedOutcome
<1> QED
  BY <1>1, <1>3, <1>4, <1>5, <1>6 DEF HeldInv

LEMMA HeldStep ==
  ASSUME HeldInv, [OrchestratorNext /\ History]_historyVars
  PROVE  HeldInv'
<1>1. CASE UNCHANGED historyVars
  <2>1. UNCHANGED <<active, ended, queue, cached_active, cached_completed, sent, at, task, reply, held>>
    BY <1>1 DEF historyVars, vars, taskvars, client
  <2>2. HeldTypes'
    BY <2>1 DEF HeldInv, HeldTypes
  <2>3. \A c \in Callers : InHand(c)'
    <3> SUFFICES ASSUME NEW c \in Callers
                 PROVE  InHand(c)'
      OBVIOUS
    <3>1. InHand(c)
      BY DEF HeldInv
    <3> QED
      BY <2>1, <3>1 DEF InHand, NoteSeen, Seen
  <2>4. (\A i \in DOMAIN queue : NoteSeen(queue[i]))'
    BY <2>1 DEF HeldInv, NoteSeen
  <2>5. (\A t \in Tasks : Seen(t, active[t]) /\ Seen(t, ended[t]))'
    BY <2>1 DEF HeldInv, Seen
  <2>6. NoInventedOutcome'
    BY <2>1 DEF HeldInv, NoInventedOutcome
  <2> QED
    BY <2>2, <2>3, <2>4, <2>5, <2>6 DEF HeldInv
<1>2. CASE Daemon /\ History
  <2>1. DaemonStep
    BY <1>2, DaemonIsStep DEF HeldInv
  <2> QED
    BY <1>2, <2>1, DaemonKeeps DEF Daemon
<1>3. CASE History /\ \E c \in Callers : Tool(c) \/ refresh_notifications(c)
  BY <1>3, ToolKeeps, RefreshKeeps
<1> QED
  BY <1>1, <1>2, <1>3 DEF OrchestratorNext

LEMMA HeldAlways == HistorySpec => []HeldInv
<1>1. HistoryInit => HeldInv
  BY HeldInit
<1>2. HeldInv /\ [OrchestratorNext /\ History]_historyVars => HeldInv'
  BY HeldStep
<1> QED
  BY <1>1, <1>2, PTL DEF HistorySpec, historyVars

\* Whatever is lost, delayed or applied late, and however the calls of several
\* callers interleave, the cache shows of a task only Pending, a status that
\* the daemon had for it, or one devit_notify reported (record_notification,
\* process_snapshot, record_task).
THEOREM NothingInvented == HistorySpec => []NoInventedOutcome
<1>1. HeldInv => NoInventedOutcome
  BY DEF HeldInv
<1> QED
  BY <1>1, HeldAlways, PTL

-----------------------------------------------------------------------------
(* Calls one after the other: what the refreshes of one caller do.         *)

\* After one whole refresh nothing is left in the queue, and a snapshot in hand
\* is up to date; after the second one the cache is.
RefreshInv ==
  /\ quiet \in 0..2 /\ fresh \subseteq Callers
  /\ Asker \in fresh => at[Asker] \notin {"idle", "snapshot"}
  /\ Asker \in fresh /\ at[Asker] = "apply" =>
       reply[Asker].active = active /\ reply[Asker].ended = ended
  /\ quiet >= 1 =>
       /\ queue = <<>> /\ at[Asker] # "note"
       /\ at[Asker] = "apply" => Asker \in fresh
       /\ Asker \in fresh /\ at[Asker] \in {"heartbeat", "poll"} => cache = <<active, ended>>
  /\ TwoRefreshesSuffice

\* The steps that leave the cache alone and take no snapshot and no note.
Passes(from, to) ==
  /\ from \notin {"apply", "note"}
  /\ to \notin {"apply", "note"}
  /\ to = "heartbeat" => from = "snapshot"
  /\ to = "poll" => from = "heartbeat"

\* What a step is to the caller c.
Stays(c) == UNCHANGED <<at, reply, cache>>
Ends(c) == at[c] \in {"record", "notified"} /\ at'[c] = "idle"
Takes(c) ==
  /\ at[c] = "snapshot" /\ at'[c] = "apply" /\ UNCHANGED cache
  /\ reply'[c].active = active /\ reply'[c].ended = ended
Applies(c) ==
  /\ at[c] = "apply" /\ at'[c] = "heartbeat"
  /\ cache' = <<reply[c].active, reply[c].ended>>
Receives(c) ==
  /\ queue # <<>>
  /\ at[c] \in {"heartbeat", "poll"} /\ at'[c] = "note" /\ UNCHANGED cache
Notices(c) == at[c] = "note" /\ at'[c] = "poll"
Goes(c) == UNCHANGED cache /\ Passes(at[c], at'[c])

StepOf(c) ==
  Stays(c) \/ Ends(c) \/ Takes(c) \/ Applies(c) \/ Receives(c) \/ Notices(c) \/ Goes(c)

LEMMA ToolStepOf ==
  ASSUME HeldTypes, NEW c \in Callers, Tool(c)
  PROVE  StepOf(c)
<1>1. at \in [Callers -> Labels]
  BY DEF HeldTypes
<1>2. ASSUME NEW t \in Tasks, DelegateSend(c, t)
      PROVE  Goes(c) \/ Stays(c)
  BY <1>1, <1>2 DEF DelegateSend, Call, GoTo, Goes, Passes, Stays
<1>3. ASSUME NEW t \in Tasks, devit_task_result(c, t)
      PROVE  Goes(c)
  BY <1>1, <1>3 DEF devit_task_result, Call, GoTo, Goes, Passes
<1>4. ASSUME NEW t \in Tasks, NEW s \in Reports, NotifySend(c, t, s)
      PROVE  Goes(c)
  BY <1>1, <1>4 DEF NotifySend, Call, GoTo, Goes, Passes
<1>5. record_task(c) \/ NotifyRecord(c) => Ends(c)
  BY <1>1 DEF record_task, NotifyRecord, Return, GoTo, Ends
<1>6. devit_orchestration_status(c) => Goes(c)
  BY <1>1 DEF devit_orchestration_status, Call, GoTo, Goes, Passes
<1>7. ReadAnswers(c) \/ ReadRetries(c) => Goes(c)
  BY <1>1 DEF ReadAnswers, ReadRetries, Return, GoTo, Goes, Passes
<1> QED
  BY <1>2, <1>3, <1>4, <1>5, <1>6, <1>7 DEF Tool, StepOf

LEMMA RefreshStepOf ==
  ASSUME HeldTypes, NEW c \in Callers, refresh_notifications(c)
  PROVE  StepOf(c)
<1>1. at \in [Callers -> Labels] /\ DOMAIN reply = Callers
  BY DEF HeldTypes
<1>2. status_snapshot(c) => Takes(c)
  BY <1>1 DEF status_snapshot, GoTo, Snapshot, Takes
<1>3. SnapshotLost(c) \/ RefreshFails(c) => Goes(c)
  BY <1>1 DEF SnapshotLost, RefreshFails, Refreshed, Return, GoTo, Goes, Passes
<1>4. process_snapshot(c) => Applies(c)
  BY <1>1 DEF process_snapshot, GoTo, Applies, cache
<1>5. Fetch(c) => Receives(c) \/ Goes(c)
  BY <1>1 DEF Fetch, Refreshed, Return, GoTo, Receives, Goes, Passes
<1>6. process_notification(c) => Notices(c)
  BY <1>1 DEF process_notification, GoTo, Notices
<1> QED
  BY <1>2, <1>3, <1>4, <1>5, <1>6 DEF refresh_notifications, StepOf

LEMMA OneCallerStep ==
  ASSUME Callers = {Asker}, HeldTypes, HeldTypes', RefreshInv, History, StepOf(Asker)
  PROVE  RefreshInv'
<1>1. CASE Changes
  <2>1. fresh' = {} /\ quiet' = 0
    BY <1>1 DEF History
  <2> QED
    BY <2>1 DEF RefreshInv, TwoRefreshesSuffice
<1>2. CASE ~Changes
  <2>1. /\ active' = active /\ ended' = ended /\ ~(Len(queue') > Len(queue))
        /\ ~(at[Asker] \in {"record", "notified"} /\ at'[Asker] = "idle")
    BY <1>2 DEF Changes
  <2>2. Asker \in fresh' <=> \/ at[Asker] = "snapshot" /\ at'[Asker] = "apply"
                             \/ Asker \in fresh /\ at'[Asker] \notin {"idle", "snapshot"}
    BY <1>2 DEF History
  <2>3. quiet' = IF /\ quiet < 2 /\ queue' = <<>>
                    /\ \E c \in fresh : at[c] = "poll" /\ at'[c] \in {"idle", "read"}
                 THEN quiet + 1 ELSE quiet
    BY <1>2 DEF History
  <2>4. quiet \in 0..2 /\ quiet' \in 0..2
    BY <2>3 DEF RefreshInv
  <2>5. ASSUME quiet >= 1
        PROVE  queue' = <<>>
    <3>1. queue = <<>> /\ queue \in Seq(Notes) /\ queue' \in Seq(Notes)
      BY <2>5 DEF RefreshInv, HeldTypes
    <3> QED
      BY <2>1, <3>1
  <2>6. quiet' >= 1 => queue' = <<>>
    BY <2>3, <2>4, <2>5
  <2>7. ASSUME quiet' # quiet
        PROVE  /\ quiet' = quiet + 1 /\ Asker \in fresh
               /\ at[Asker] = "poll" /\ at'[Asker] \in {"idle", "read"}
    BY <2>3, <2>7 DEF RefreshInv
  <2>8. fresh' \subseteq Callers
    BY <1>2 DEF History
  <2>9. Asker \in fresh' => at'[Asker] \notin {"idle", "snapshot"}
    BY <2>2
  <2>10. CASE Stays(Asker) \/ Goes(Asker)
    <3>1. /\ UNCHANGED cache
          /\ at'[Asker] = at[Asker] \/ Passes(at[Asker], at'[Asker])
          /\ at'[Asker] = "apply" => at[Asker] = "apply" /\ UNCHANGED reply
          /\ at'[Asker] = "note" => at[Asker] = "note"
          /\ at'[Asker] = "heartbeat" => at[Asker] \in {"heartbeat", "snapshot"}
          /\ at'[Asker] = "poll" => at[Asker] \in {"heartbeat", "poll"}
      BY <2>10 DEF Stays, Goes, Passes
    <3>2. Asker \in fresh' => Asker \in fresh
      BY <2>2, <3>1
    <3>3. Asker \in fresh' /\ at'[Asker] = "apply" =>
            reply'[Asker].active = active' /\ reply'[Asker].ended = ended'
      BY <2>1, <3>1, <3>2 DEF RefreshInv
    <3>4. CASE quiet' = quiet
      <4>1. quiet >= 1 =>
              /\ at'[Asker] # "note"
              /\ at'[Asker] = "apply" => Asker \in fresh'
              /\ Asker \in fresh' /\ at'[Asker] \in {"heartbeat", "poll"} =>
                   cache' = <<active', ended'>>
        BY <2>1, <2>2, <3>1, <3>2 DEF RefreshInv
      <4>2. TwoRefreshesSuffice'
        BY <2>1, <3>1, <3>4 DEF RefreshInv, TwoRefreshesSuffice
      <4> QED
        BY <2>4, <2>6, <2>8, <2>9, <3>3, <3>4, <4>1, <4>2 DEF RefreshInv
    <3>5. CASE quiet' # quiet
      <4>1. at[Asker] = "poll" /\ at'[Asker] \in {"idle", "read"} /\ quiet' = quiet + 1
        BY <2>7, <3>5
      <4>2. quiet' = 2 => cache' = <<active', ended'>>
        BY <2>1, <2>4, <2>7, <3>1, <3>5, <4>1 DEF RefreshInv
      <4> QED
        BY <2>4, <2>6, <2>8, <2>9, <4>1, <4>2 DEF RefreshInv, TwoRefreshesSuffice
    <3> QED
      BY <3>4, <3>5
  <2>11. CASE Takes(Asker)
    <3>1. quiet' = quiet /\ Asker \in fresh' /\ at'[Asker] = "apply"
      BY <2>2, <2>7, <2>11 DEF Takes
    <3>2. reply'[Asker].active = active' /\ reply'[Asker].ended = ended'
      BY <2>1, <2>11 DEF Takes
    <3>3. TwoRefreshesSuffice'
      BY <2>1, <2>11, <3>1 DEF RefreshInv, TwoRefreshesSuffice, Takes
    <3> QED
      BY <2>4, <2>6, <2>8, <2>9, <3>1, <3>2, <3>3 DEF RefreshInv
  <2>12. CASE Applies(Asker)
    <3>1. quiet' = quiet /\ at[Asker] = "apply" /\ at'[Asker] = "heartbeat"
      BY <2>7, <2>12 DEF Applies
    <3>2. quiet >= 1 => cache' = <<active', ended'>>
      BY <2>1, <2>12, <3>1 DEF RefreshInv, Applies
    <3>3. TwoRefreshesSuffice'
      BY <3>1, <3>2 DEF TwoRefreshesSuffice
    <3> QED
      BY <2>4, <2>6, <2>8, <2>9, <3>1, <3>2, <3>3 DEF RefreshInv
  <2>13. CASE Ends(Asker)
    BY <2>1, <2>13 DEF Ends
  <2>14. CASE Receives(Asker) \/ Notices(Asker)
    <3>1. quiet = 0 /\ quiet' = quiet
      <4>1. ~(quiet >= 1)
        BY <2>14 DEF RefreshInv, Receives, Notices
      <4> QED
        BY <2>4, <2>7, <2>14, <4>1 DEF Receives, Notices
    <3>2. at'[Asker] # "apply"
      BY <2>14 DEF Receives, Notices
    <3> QED
      BY <2>4, <2>8, <2>9, <3>1, <3>2 DEF RefreshInv, TwoRefreshesSuffice
  <2> QED
    BY <2>10, <2>11, <2>12, <2>13, <2>14 DEF StepOf
<1> QED
  BY <1>1, <1>2

\* Over stdio there is one call at a time, and then two whole refreshes after
\* the last change make the cache what the daemon has: the first one empties the
\* queue of older notes, the second one takes a snapshot that nothing overwrites
\* (refresh_notifications).  With calls side by side this need not be so: a
\* second caller may apply a snapshot of long ago.
THEOREM OneCallerSettles ==
  ASSUME Callers = {Asker}
  PROVE  HistorySpec => []TwoRefreshesSuffice
<1>1. HistoryInit => RefreshInv
  BY DEF HistoryInit, OrchestratorInit, RefreshInv, TwoRefreshesSuffice
<1>2. HeldInv /\ HeldInv' /\ RefreshInv /\ [OrchestratorNext /\ History]_historyVars => RefreshInv'
  <2> SUFFICES ASSUME HeldInv, HeldInv', RefreshInv, [OrchestratorNext /\ History]_historyVars
               PROVE  RefreshInv'
    OBVIOUS
  <2>1. HeldTypes /\ HeldTypes'
    BY DEF HeldInv
  <2>2. CASE UNCHANGED historyVars
    BY <2>2 DEF historyVars, vars, taskvars, client, cache, RefreshInv, TwoRefreshesSuffice
  <2>3. CASE Daemon /\ History
    <3>1. StepOf(Asker)
      BY <2>3 DEF Daemon, client, cache, StepOf, Stays
    <3> QED
      BY <2>1, <2>3, <3>1, OneCallerStep
  <2>4. CASE History /\ \E c \in Callers : Tool(c) \/ refresh_notifications(c)
    <3>1. StepOf(Asker)
      BY <2>1, <2>4, ToolStepOf, RefreshStepOf
    <3> QED
      BY <2>1, <2>4, <3>1, OneCallerStep
  <2> QED
    BY <2>2, <2>3, <2>4 DEF OrchestratorNext
<1>3. RefreshInv => TwoRefreshesSuffice
  BY DEF RefreshInv
<1> QED
  BY <1>1, <1>2, <1>3, HeldAlways, PTL DEF HistorySpec, historyVars
====
