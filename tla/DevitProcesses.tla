--------------------------- MODULE DevitProcesses ---------------------------
(***************************************************************************)
(* Background processes: the registry file ~/.devit/process_registry.json  *)
(* and those that share it.  devit_exec and devit_shell (each with a       *)
(* DevitExec and its own Registry in memory) and devit_kill run in the mcp *)
(* server; the reaper runs in devitd.  Every writer saves a whole Registry *)
(* under a flock that it did not hold when it loaded.                      *)
(*                                                                         *)
(* A record keeps pid, start_ticks and status; pgid is the pid; exit codes *)
(* and signals are left out.  The kernel's process table is external.      *)
(***************************************************************************)
EXTENDS Naturals

CONSTANTS
  Pids,
  Tools,      \* instances of DevitExec: those of devit_exec and devit_shell
  NoRec,      \* no record for this pid
  Partial,    \* a file that is missing or not completely written
  MaxTicks    \* bound on the number of processes started

Kill == "devit_kill"
Reaper == "reaper"
Nobody == "nobody"
Writers == Tools \cup {Kill, Reaper}

ProcessRecord == [start : Nat, status : {"Running", "Exited"}]
Registry == [Pids -> ProcessRecord \cup {NoRec}]
EmptyRegistry == [p \in Pids |-> NoRec]

\* start is 0 when the pid is free; parent says who may waitpid for it.
Process == [start : Nat, state : {"free", "alive", "zombie"},
            parent : {"server", "other"}]
Free == [start |-> 0, state |-> "free", parent |-> "other"]

ASSUME ProcessesAssumption ==
  /\ NoRec \notin ProcessRecord
  /\ Partial \notin Registry
  /\ {Kill, Reaper, Nobody} \cap Tools = {} /\ Nobody \notin Pids
  /\ MaxTicks \in Nat

VARIABLES
  os,       \* pid -> Process
  ticks,    \* start time of the last process started
  late,     \* pids of children whose auto_kill_at has passed
  file,     \* process_registry.json
  temp,     \* process_registry.json.tmp, shared by all writers
  flock,    \* who holds process_registry.lock
  copy,     \* writer -> the Registry it has in memory
  pc,       \* writer -> where it stands
  arg,      \* writer -> the pid it works on, or Nobody
  todo,     \* the reaper: pids still to be looked at
  updates   \* the reaper: pids to be marked Exited

vars == <<os, ticks, late, file, temp, flock, copy, pc, arg, todo, updates>>
disk == <<file, temp, flock>>

Init ==
  /\ os = [p \in Pids |-> Free]
  /\ ticks = 0
  /\ late = {}
  /\ file = EmptyRegistry /\ temp = Partial /\ flock = Nobody
  /\ copy = [w \in Writers |-> EmptyRegistry]
  /\ pc = [w \in Writers |-> "idle"]
  /\ arg = [w \in Writers |-> Nobody]
  /\ todo = {} /\ updates = {}

GoTo(w, label) == pc' = [pc EXCEPT ![w] = label]
Return(w) == GoTo(w, "idle") /\ arg' = [arg EXCEPT ![w] = Nobody]
Hold(w, r) == copy' = [copy EXCEPT ![w] = r]

-----------------------------------------------------------------------------
(* save_registry, in the words of its comment: lock with flock, write to    *)
(* temp file, fsync, atomic rename.                                        *)

\* Slip: no lock, as in the Windows version.
LockNothing(w) ==
  /\ pc[w] = "save"
  /\ flock' = w /\ temp' = Partial
  /\ GoTo(w, "write")
  /\ UNCHANGED <<os, ticks, late, file, copy, arg, todo, updates>>

SaveLock(w) ==
  /\ pc[w] = "save" /\ flock = Nobody
  /\ flock' = w /\ temp' = Partial
  /\ GoTo(w, "write")
  /\ UNCHANGED <<os, ticks, late, file, copy, arg, todo, updates>>

SaveWrite(w) ==
  /\ pc[w] = "write"
  /\ temp' = copy[w]
  /\ GoTo(w, "rename")
  /\ UNCHANGED <<os, ticks, late, file, flock, copy, arg, todo, updates>>

SaveRename(w) ==
  /\ pc[w] = "rename"
  /\ file' = temp /\ temp' = Partial /\ flock' = Nobody
  /\ Return(w)
  /\ UNCHANGED <<os, ticks, late, copy, todo, updates>>

save_registry(w) == SaveLock(w) \/ SaveWrite(w) \/ SaveRename(w)

-----------------------------------------------------------------------------
(* execute_background_unix: spawn, then insert into the Registry in memory  *)
(* (loaded when the tool was created) and save that.                       *)

NewProcess(p, parent) ==
  /\ os[p].state = "free" /\ ticks < MaxTicks
  /\ ticks' = ticks + 1
  /\ os' = [os EXCEPT ![p] = [start |-> ticks', state |-> "alive", parent |-> parent]]

Spawn(w, p) ==
  /\ pc[w] = "idle"
  /\ NewProcess(p, "server")
  /\ arg' = [arg EXCEPT ![w] = p]
  /\ GoTo(w, "spawned")
  /\ UNCHANGED <<late, disk, copy, todo, updates>>

Insert(w) ==
  /\ pc[w] = "spawned"
  /\ Hold(w, [copy[w] EXCEPT ![arg[w]] =
                [start |-> os[arg[w]].start, status |-> "Running"]])
  /\ GoTo(w, "save")
  /\ UNCHANGED <<os, ticks, late, disk, arg, todo, updates>>

-----------------------------------------------------------------------------
(* devit_kill.                                                             *)

\* Slip: start_ticks is not compared.
KillUnchecked(p) ==
  /\ pc[Kill] = "idle"
  /\ file # Partial /\ file[p] # NoRec
  /\ os[p].state # "free"
  /\ Hold(Kill, file)
  /\ arg' = [arg EXCEPT ![Kill] = p]
  /\ GoTo(Kill, "signal")
  /\ UNCHANGED <<os, ticks, late, disk, todo, updates>>

\* The registry is loaded and the record validated; otherwise an error.
KillCheck(p) ==
  /\ pc[Kill] = "idle"
  /\ file # Partial /\ file[p] # NoRec
  /\ os[p].state # "free" /\ os[p].start = file[p].start
  /\ Hold(Kill, file)
  /\ arg' = [arg EXCEPT ![Kill] = p]
  /\ GoTo(Kill, "signal")
  /\ UNCHANGED <<os, ticks, late, disk, todo, updates>>

\* The kernel's part: a child of the server stays a zombie, for the Child was
\* dropped and nobody waits; other processes are reaped by their parents.
Dead(p) == IF os[p].parent = "server" THEN [os[p] EXCEPT !.state = "zombie"] ELSE Free

\* kill(-pgid, sig): TERM and INT may be survived; no process is an error.
KillSignal ==
  LET p == arg[Kill] IN
  /\ pc[Kill] = "signal"
  /\ IF os[p].state = "free" THEN Return(Kill) /\ UNCHANGED os
     ELSE /\ GoTo(Kill, "wait") /\ UNCHANGED arg
          /\ UNCHANGED os \/ os' = [os EXCEPT ![p] = Dead(p)]
  /\ UNCHANGED <<ticks, late, disk, copy, todo, updates>>

\* After at most a second the record is Exited in the copy loaded before, and
\* the copy is saved.
KillRecord ==
  /\ pc[Kill] = "wait"
  /\ Hold(Kill, [copy[Kill] EXCEPT ![arg[Kill]].status = "Exited"])
  /\ GoTo(Kill, "save")
  /\ UNCHANGED <<os, ticks, late, disk, arg, todo, updates>>

-----------------------------------------------------------------------------
(* reaper_loop, one pass a second.                                         *)

validate_process(p, r) == os[p].state # "free" /\ os[p].start = r.start

\* waitpid(pid, WNOHANG) as devitd sees it.
waitpid(p) ==
  CASE os[p].parent # "devitd"  -> "ECHILD"
    [] os[p].state = "zombie"   -> "Exited"
    [] OTHER                    -> "StillAlive"

ReaperLoad ==
  /\ pc[Reaper] = "idle" /\ file # Partial
  /\ Hold(Reaper, file)
  /\ todo' = {p \in Pids : file[p] # NoRec /\ file[p].status = "Running"}
  /\ updates' = {}
  /\ GoTo(Reaper, "check")
  /\ UNCHANGED <<os, ticks, late, disk, arg>>

\* Slip: a record is only given up when waitpid says so.
CheckNoValidate(p) ==
  /\ pc[Reaper] = "check" /\ p \in todo
  /\ todo' = todo \ {p}
  /\ updates' = IF waitpid(p) = "Exited" THEN updates \cup {p} ELSE updates
  /\ os' = IF waitpid(p) = "StillAlive" /\ p \in late
           THEN [os EXCEPT ![p] = Dead(p)] ELSE os
  /\ UNCHANGED <<ticks, late, disk, copy, pc, arg>>

\* One record.  A process that is gone, or is another one, is Exited(-1); so is
\* one waitpid reaps; one that outlived auto_kill_at is killed if waitpid says
\* StillAlive.
ReaperCheck(p) ==
  LET valid == validate_process(p, copy[Reaper][p]) IN
  /\ pc[Reaper] = "check" /\ p \in todo
  /\ todo' = todo \ {p}
  /\ updates' = IF ~valid \/ waitpid(p) = "Exited" THEN updates \cup {p} ELSE updates
  /\ os' = IF valid /\ waitpid(p) = "StillAlive" /\ p \in late
           THEN [os EXCEPT ![p] = Dead(p)] ELSE os
  /\ UNCHANGED <<ticks, late, disk, copy, pc, arg>>

\* "Reload again to avoid race": the updates go, by pid, into a fresh copy.
ReaperApply ==
  /\ pc[Reaper] = "check" /\ todo = {}
  /\ IF updates = {} \/ file = Partial
     THEN GoTo(Reaper, "idle") /\ UNCHANGED copy
     ELSE /\ GoTo(Reaper, "save")
          /\ Hold(Reaper, [p \in Pids |->
                             IF p \in updates /\ file[p] # NoRec
                             THEN [file[p] EXCEPT !.status = "Exited"] ELSE file[p]])
  /\ updates' = {}
  /\ UNCHANGED <<os, ticks, late, disk, arg, todo>>

-----------------------------------------------------------------------------
(* The world around.                                                       *)

ProcessEnds(p) ==
  /\ os[p].state = "alive"
  /\ os' = [os EXCEPT ![p] = Dead(p)]
  /\ UNCHANGED <<ticks, late, disk, copy, pc, arg, todo, updates>>

\* A process that is none of ours takes a free pid.
OtherStarts(p) ==
  /\ NewProcess(p, "other")
  /\ UNCHANGED <<late, disk, copy, pc, arg, todo, updates>>

LifetimeOver(p) ==
  /\ os[p].state = "alive" /\ os[p].parent = "server" /\ p \notin late
  /\ late' = late \cup {p}
  /\ UNCHANGED <<os, ticks, disk, copy, pc, arg, todo, updates>>

\* The mcp server stops and is started again: PR_SET_PDEATHSIG kills its
\* children, the lock goes with the process, and the new DevitExecs load.
ServerRestart ==
  LET ours == {p \in Pids : os[p].parent = "server"} IN
  /\ os' = [p \in Pids |-> IF p \in ours THEN Free ELSE os[p]]
  /\ late' = {}
  /\ flock' = IF flock \in Tools \cup {Kill} THEN Nobody ELSE flock
  /\ temp' = IF flock \in Tools \cup {Kill} THEN Partial ELSE temp
  /\ copy' = [w \in Writers |-> IF w \in Tools
                                THEN IF file = Partial THEN EmptyRegistry ELSE file
                                ELSE copy[w]]
  /\ pc' = [w \in Writers |-> IF w = Reaper THEN pc[w] ELSE "idle"]
  /\ arg' = [w \in Writers |-> Nobody]
  /\ UNCHANGED <<ticks, file, todo, updates>>

\* devitd exits, wherever the reaper stands ...
DaemonStop ==
  /\ pc[Reaper] # "down"
  /\ flock' = IF flock = Reaper THEN Nobody ELSE flock
  /\ temp' = IF flock = Reaper THEN Partial ELSE temp
  /\ GoTo(Reaper, "down")
  /\ todo' = {} /\ updates' = {}
  /\ UNCHANGED <<os, ticks, late, file, copy, arg>>

\* ... and is started again, when some client wants it.
DaemonStart ==
  /\ pc[Reaper] = "down"
  /\ GoTo(Reaper, "idle")
  /\ UNCHANGED <<os, ticks, late, disk, copy, arg, todo, updates>>

Tool(w) == (\E p \in Pids : Spawn(w, p)) \/ Insert(w)
devit_kill == (\E p \in Pids : KillCheck(p)) \/ KillSignal \/ KillRecord
reaper_loop == ReaperLoad \/ (\E p \in Pids : ReaperCheck(p)) \/ ReaperApply

Next ==
  \/ \E w \in Tools : Tool(w)
  \/ devit_kill
  \/ reaper_loop
  \/ \E w \in Writers : save_registry(w)
  \/ \E p \in Pids : ProcessEnds(p) \/ OtherStarts(p) \/ LifetimeOver(p)
  \/ ServerRestart \/ DaemonStop \/ DaemonStart

Spec == Init /\ [][Next]_vars

\* Fairness: the reaper wakes every second and gets through its pass, a save
\* that has the lock goes on to its end, and the reaper gets the lock in time.
\* From some time on devitd stays up.
Fairness ==
  /\ WF_vars(ReaperLoad) /\ WF_vars(ReaperApply)
  /\ \A p \in Pids : WF_vars(ReaperCheck(p))
  /\ \A w \in Writers : WF_vars(SaveWrite(w)) /\ WF_vars(SaveRename(w))
  /\ SF_vars(SaveLock(Reaper))
  /\ <>[](pc[Reaper] # "down")

FairSpec == Spec /\ Fairness

-----------------------------------------------------------------------------
TypeOK ==
  /\ os \in [Pids -> Process]
  /\ ticks \in Nat
  /\ late \subseteq Pids
  /\ file \in Registry \cup {Partial} /\ temp \in Registry \cup {Partial}
  /\ flock \in Writers \cup {Nobody}
  /\ copy \in [Writers -> Registry]
  /\ pc \in [Writers -> {"idle", "spawned", "signal", "wait", "check",
                         "save", "write", "rename", "down"}]
  /\ arg \in [Writers -> Pids \cup {Nobody}]
  /\ \A w \in Writers \ {Reaper} : arg[w] = Nobody <=> pc[w] = "idle"
  /\ todo \subseteq Pids /\ updates \subseteq Pids

\* Whoever loads the registry finds a complete file, also when several
\* processes save at once or one dies while saving (save_registry).
FileWhole == file # Partial

\* The signal of devit_kill goes to the process that was recorded, and not to
\* another one that got its pid (start_ticks validation in devit_kill): between
\* the validation and the signal the child cannot be reaped by anybody.
SignalHitsRecorded ==
  pc[Kill] = "signal" => /\ os[arg[Kill]].state # "free"
                         /\ os[arg[Kill]].start = copy[Kill][arg[Kill]].start

\* A Running record whose process is gone is not left so for ever (reaper_loop).
GoneIsNoticed ==
  \A p \in Pids :
    (file # Partial /\ file[p] # NoRec /\ file[p].status = "Running"
       /\ ~validate_process(p, file[p]))
      ~> (file # Partial /\ (file[p] # NoRec => \/ file[p].status = "Exited"
                                                \/ validate_process(p, file[p])))
=============================================================================
