------------------------ MODULE DevitProcessesProofs ------------------------
(***************************************************************************)
(* For any number of pids and DevitExec instances: a load finds a complete *)
(* registry file, and devit_kill signals only the process it validated.    *)
(***************************************************************************)
EXTENDS DevitProcesses, TLAPS

\* The lock serializes the three steps of save_registry on the shared temp file.
LockInv ==
  \A w \in Writers : /\ pc[w] \in {"write", "rename"} => flock = w
                     /\ pc[w] = "rename" => temp \in Registry

\* The start times in registry r are of the past, and one that is recorded for
\* a pid belongs to a child of the server, while that process is there.
KnownAt(r, o, t) ==
  \A p \in Pids :
    r[p] # NoRec =>
      /\ r[p].start <= t
      /\ o[p].state # "free" /\ o[p].start = r[p].start => o[p].parent = "server"
Known(r) == KnownAt(r, os, ticks)
Past == \A p \in Pids : os[p].start <= ticks
RecordsInv ==
  /\ \A w \in Writers : Known(copy[w])
  /\ file # Partial => Known(file)
  /\ temp # Partial => Known(temp)

\* A tool between spawn and insert, and devit_kill between validation and
\* signal, work on a child of the server: nobody else can reap it.
Pinned(p) == p \in Pids /\ os[p].state # "free" /\ os[p].parent = "server"
SpawnInv == \A w \in Tools : pc[w] = "spawned" => Pinned(arg[w])
SignalInv ==
  /\ pc[Kill] = "signal" => /\ Pinned(arg[Kill])
                            /\ os[arg[Kill]].start = copy[Kill][arg[Kill]].start
  /\ pc[Kill] \in {"signal", "wait"} => copy[Kill][arg[Kill]] # NoRec

IInv == TypeOK /\ FileWhole /\ LockInv /\ Past /\ RecordsInv /\ SpawnInv /\ SignalInv

-----------------------------------------------------------------------------
(* What the process table may do under the records.                        *)

\* Processes end, are reaped, or start with a start time of their own.
Later(o, t, n, u) ==
  /\ t <= u
  /\ \A p \in Pids : \/ n[p].state = "free"
                     \/ /\ o[p].state # "free"
                        /\ n[p].start = o[p].start /\ n[p].parent = o[p].parent
                     \/ n[p].start > t

\* Records stay right while processes come and go.
LEMMA KnownLater ==
  ASSUME NEW r \in Registry, NEW o \in [Pids -> Process], NEW n \in [Pids -> Process],
         NEW t \in Nat, NEW u \in Nat, KnownAt(r, o, t), Later(o, t, n, u)
  PROVE  KnownAt(r, n, u)
<1> SUFFICES ASSUME NEW p \in Pids, r[p] # NoRec
             PROVE  /\ r[p].start <= u
                    /\ n[p].state # "free" /\ n[p].start = r[p].start
                         => n[p].parent = "server"
  BY DEF KnownAt
<1>1. r[p].start \in Nat /\ n[p].start \in Nat
  BY DEF Registry, ProcessRecord, Process
<1>2. r[p].start <= t
  BY DEF KnownAt
<1>3. o[p].state # "free" /\ o[p].start = r[p].start => o[p].parent = "server"
  BY DEF KnownAt
<1>4. r[p].start <= u
  BY <1>1, <1>2 DEF Later
<1> QED
  BY <1>1, <1>2, <1>3, <1>4 DEF Later

LEMMA NothingHappens ==
  ASSUME NEW o \in [Pids -> Process], NEW t \in Nat
  PROVE  Later(o, t, o, t)
  BY DEF Later, Process

\* Dead(p) is the same process, or a free pid.
LEMMA DeadProcess ==
  ASSUME TypeOK, NEW p \in Pids, os[p].state # "free"
  PROVE  /\ Dead(p) \in Process
         /\ \/ Dead(p).state = "free" /\ Dead(p).start = 0 /\ os[p].parent # "server"
            \/ /\ Dead(p).state # "free" /\ Dead(p).start = os[p].start
               /\ Dead(p).parent = os[p].parent
<1>1. os[p] \in Process
  BY DEF TypeOK
<1>2. CASE os[p].parent = "server"
  BY <1>1, <1>2 DEF Dead, Process
<1>3. CASE os[p].parent # "server"
  BY <1>3 DEF Dead, Process, Free
<1> QED
  BY <1>2, <1>3

\* A process may die, and nothing else happens to the process table.
LEMMA DyingIsLater ==
  ASSUME TypeOK, Past, NEW p \in Pids, os[p].state # "free",
         os' = [os EXCEPT ![p] = Dead(p)], ticks' = ticks
  PROVE  /\ os' \in [Pids -> Process] /\ Later(os, ticks, os', ticks') /\ Past'
         /\ \A q \in Pids : Pinned(q) => Pinned(q)' /\ os'[q].start = os[q].start
<1>1. os \in [Pids -> Process] /\ ticks \in Nat
  BY DEF TypeOK
<1>2. os' \in [Pids -> Process]
  BY <1>1, DeadProcess
<1>3. \A q \in Pids : \/ os'[q] = os[q]
                      \/ q = p /\ os'[q] = Dead(p)
  BY <1>1
<1>4. Past'
  BY <1>1, <1>3, DeadProcess DEF Past
<1>5. \A q \in Pids : \/ os'[q].state = "free"
                      \/ /\ os[q].state # "free"
                         /\ os'[q].start = os[q].start /\ os'[q].parent = os[q].parent
  BY <1>3, DeadProcess
<1>6. Later(os, ticks, os', ticks')
  BY <1>1, <1>5 DEF Later
<1>7. ASSUME NEW q \in Pids, Pinned(q) PROVE Pinned(q)' /\ os'[q].start = os[q].start
  BY <1>3, <1>7, DeadProcess DEF Pinned
<1> QED
  BY <1>2, <1>4, <1>6, <1>7

\* A new process takes a free pid and a new start time.
LEMMA StartIsLater ==
  ASSUME TypeOK, Past, NEW p \in Pids, NEW parent \in {"server", "other"},
         NewProcess(p, parent)
  PROVE  /\ os' \in [Pids -> Process] /\ ticks' \in Nat
         /\ Later(os, ticks, os', ticks') /\ Past'
         /\ \A q \in Pids : Pinned(q) => Pinned(q)' /\ os'[q].start = os[q].start
         /\ os'[p].state # "free" /\ os'[p].parent = parent
<1>1. os \in [Pids -> Process] /\ ticks \in Nat
  BY DEF TypeOK
<1>2. /\ os[p].state = "free" /\ ticks' = ticks + 1
      /\ os' = [os EXCEPT ![p] = [start |-> ticks + 1, state |-> "alive", parent |-> parent]]
  BY DEF NewProcess
<1>3. os' \in [Pids -> Process]
  BY <1>1, <1>2 DEF Process
<1>4. \A q \in Pids \ {p} : os'[q] = os[q]
  BY <1>1, <1>2
<1>5. os'[p].start = ticks + 1 /\ os'[p].state = "alive" /\ os'[p].parent = parent
  BY <1>1, <1>2
<1>6. \A q \in Pids : os[q].start \in Nat
  BY <1>1 DEF Process
<1>7. Past'
  BY <1>1, <1>2, <1>4, <1>5, <1>6 DEF Past
<1>8. Later(os, ticks, os', ticks')
  BY <1>1, <1>2, <1>4, <1>5 DEF Later
<1>9. ASSUME NEW q \in Pids, Pinned(q) PROVE Pinned(q)' /\ os'[q].start = os[q].start
  BY <1>2, <1>4, <1>9 DEF Pinned
<1> QED
  BY <1>1, <1>2, <1>3, <1>5, <1>7, <1>8, <1>9

\* RecordsInv holds after a step if every registry was known before it, or is
\* known after it.
LEMMA RecordsStep ==
  ASSUME TypeOK, FileWhole, RecordsInv, TypeOK', Later(os, ticks, os', ticks'),
         \A w \in Writers : copy'[w] = copy[w] \/ KnownAt(copy'[w], os', ticks'),
         file' = file \/ KnownAt(file', os', ticks'),
         temp' = temp \/ temp' = Partial \/ KnownAt(temp', os', ticks')
  PROVE  RecordsInv'
<1>1. /\ os \in [Pids -> Process] /\ os' \in [Pids -> Process]
      /\ ticks \in Nat /\ ticks' \in Nat /\ copy \in [Writers -> Registry]
      /\ file \in Registry \cup {Partial} /\ temp \in Registry \cup {Partial}
  BY DEF TypeOK
<1>2. ASSUME NEW w \in Writers PROVE KnownAt(copy'[w], os', ticks')
  <2>1. copy[w] \in Registry /\ KnownAt(copy[w], os, ticks)
    BY <1>1 DEF RecordsInv, Known
  <2> QED
    BY <1>1, <2>1, KnownLater
<1>3. file' # Partial => KnownAt(file', os', ticks')
  <2>1. file \in Registry /\ KnownAt(file, os, ticks)
    BY <1>1 DEF RecordsInv, Known, FileWhole
  <2> QED
    BY <1>1, <2>1, KnownLater
<1>4. temp' # Partial => KnownAt(temp', os', ticks')
  <2>1. temp # Partial => temp \in Registry /\ KnownAt(temp, os, ticks)
    BY <1>1 DEF RecordsInv, Known
  <2> QED
    BY <1>1, <2>1, KnownLater
<1> QED
  BY <1>2, <1>3, <1>4 DEF RecordsInv, Known

-----------------------------------------------------------------------------
(* Init, and each action.                                                  *)

Labels == {"idle", "spawned", "signal", "wait", "check", "save", "write", "rename", "down"}

LEMMA WritersDiffer ==
  /\ Kill \in Writers /\ Reaper \in Writers /\ Kill # Reaper
  /\ Nobody \notin Writers /\ Nobody \notin Pids
  /\ \A w \in Tools : w \in Writers /\ w # Kill /\ w # Reaper
  BY ProcessesAssumption DEF Writers, Kill, Reaper, Nobody

LEMMA InitIInv == Init => IInv
<1> SUFFICES ASSUME Init PROVE IInv
  OBVIOUS
<1>1. EmptyRegistry \in Registry /\ \A p \in Pids : EmptyRegistry[p] = NoRec
  BY DEF EmptyRegistry, Registry
<1>2. Free \in Process /\ Free.start = 0
  BY DEF Free, Process
<1>3. TypeOK
  BY <1>1, <1>2, WritersDiffer DEF Init, TypeOK
<1>4. FileWhole
  BY <1>1, ProcessesAssumption DEF Init, FileWhole
<1>5. LockInv /\ SpawnInv /\ SignalInv
  <2>1. \A w \in Writers : pc[w] = "idle"
    BY DEF Init
  <2>2. pc[Kill] = "idle" /\ \A w \in Tools : pc[w] = "idle"
    BY <2>1, WritersDiffer
  <2>3. LockInv
    BY <2>1 DEF LockInv
  <2>4. SpawnInv
    BY <2>2 DEF SpawnInv
  <2>5. SignalInv
    BY <2>2 DEF SignalInv
  <2> QED
    BY <2>3, <2>4, <2>5
<1>6. Past
  <2>1. ticks = 0 /\ \A p \in Pids : os[p].start = 0
    BY <1>2 DEF Init
  <2>2. \A x, y : x = 0 /\ y = 0 => x <= y
    OBVIOUS
  <2> QED
    BY <2>1, <2>2, Zenon DEF Past
<1>7. RecordsInv
  BY <1>1 DEF Init, RecordsInv, Known, KnownAt
<1> QED
  BY <1>3, <1>4, <1>5, <1>6, <1>7 DEF IInv

\* One writer moves on in its program; the others stay where they are.
LEMMA Moves ==
  ASSUME TypeOK, NEW w \in Writers, NEW l \in Labels, GoTo(w, l)
  PROVE  /\ pc' \in [Writers -> Labels]
         /\ pc'[w] = l /\ \A v \in Writers \ {w} : pc'[v] = pc[v]
  BY DEF TypeOK, GoTo, Labels

\* save_registry: the lock is taken, the temp file written, and renamed.
LEMMA SaveIInv ==
  ASSUME IInv, NEW w \in Writers, save_registry(w)
  PROVE  IInv'
<1>1. TypeOK /\ FileWhole /\ LockInv /\ Past /\ RecordsInv /\ SpawnInv /\ SignalInv
  BY DEF IInv
<1>2. /\ os \in [Pids -> Process] /\ ticks \in Nat /\ copy \in [Writers -> Registry]
      /\ UNCHANGED <<os, ticks, late, copy, todo, updates>>
  BY <1>1 DEF TypeOK, save_registry, SaveLock, SaveWrite, SaveRename
<1>3. \/ SaveLock(w) \/ SaveWrite(w) \/ SaveRename(w)
  BY DEF save_registry
<1>4. /\ pc[w] \in {"save", "write", "rename"} /\ pc'[w] \in {"write", "rename", "idle"}
      /\ pc' \in [Writers -> Labels] /\ \A v \in Writers \ {w} : pc'[v] = pc[v]
  BY <1>1, <1>3, Moves DEF SaveLock, SaveWrite, SaveRename, Return, Labels
<1>5. /\ arg' \in [Writers -> Pids \cup {Nobody}]
      /\ \A v \in Writers \ {w} : arg'[v] = arg[v]
      /\ arg'[w] = Nobody <=> (arg[w] = Nobody \/ pc'[w] = "idle")
  <2>1. CASE SaveRename(w)
    BY <1>1, <2>1, Moves DEF SaveRename, Return, TypeOK, Labels
  <2>2. CASE SaveLock(w) \/ SaveWrite(w)
    <3>1. arg' = arg
      BY <2>2 DEF SaveLock, SaveWrite
    <3>2. pc'[w] # "idle"
      BY <1>1, <2>2, Moves DEF SaveLock, SaveWrite, Labels
    <3> QED
      BY <1>1, <3>1, <3>2 DEF TypeOK
  <2> QED
    BY <1>3, <2>1, <2>2
<1>6. /\ file' \in Registry /\ temp' \in Registry \cup {Partial}
      /\ flock' \in Writers \cup {Nobody}
      /\ file' = file \/ (file' = temp /\ temp # Partial)
      /\ temp' = temp \/ temp' = Partial \/ temp' = copy[w]
  <2>1. CASE SaveLock(w)
    <3>1. file' = file /\ temp' = Partial /\ flock' = w
      BY <2>1 DEF SaveLock
    <3>2. file \in Registry
      BY <1>1 DEF TypeOK, FileWhole
    <3> QED
      BY <3>1, <3>2
  <2>2. CASE SaveWrite(w)
    <3>1. file' = file /\ temp' = copy[w] /\ flock' = flock
      BY <2>2 DEF SaveWrite
    <3>2. file \in Registry /\ flock \in Writers \cup {Nobody}
      BY <1>1 DEF TypeOK, FileWhole
    <3> QED
      BY <1>2, <3>1, <3>2
  <2>3. CASE SaveRename(w)
    BY <1>1, <2>3, ProcessesAssumption DEF SaveRename, TypeOK, LockInv
  <2> QED
    BY <1>3, <2>1, <2>2, <2>3
<1>7. TypeOK'
  <2>1. \A v \in Writers \ {Reaper} : arg'[v] = Nobody <=> pc'[v] = "idle"
    BY <1>1, <1>4, <1>5 DEF TypeOK
  <2> QED
    BY <1>1, <1>2, <1>4, <1>5, <1>6, <2>1 DEF TypeOK, Labels
<1>8. FileWhole'
  BY <1>6, ProcessesAssumption DEF FileWhole
<1>9. LockInv'
  <2> SUFFICES ASSUME NEW v \in Writers
               PROVE  /\ pc'[v] \in {"write", "rename"} => flock' = v
                      /\ pc'[v] = "rename" => temp' \in Registry
    BY DEF LockInv
  <2>1. CASE SaveLock(w)
    BY <1>1, <1>4, <2>1, WritersDiffer, Moves DEF SaveLock, LockInv, Labels
  <2>2. CASE SaveWrite(w)
    <3>1. flock = w /\ flock' = flock /\ temp' \in Registry
      BY <1>1, <1>2, <2>2 DEF SaveWrite, LockInv
    <3>2. v # w => pc[v] \notin {"write", "rename"}
      BY <1>1, <3>1 DEF LockInv
    <3> QED
      BY <1>4, <3>1, <3>2
  <2>3. CASE SaveRename(w)
    <3>1. flock = w /\ pc'[w] = "idle"
      BY <1>1, <2>3, Moves DEF SaveRename, Return, LockInv, Labels
    <3>2. v # w => pc[v] \notin {"write", "rename"}
      BY <1>1, <3>1 DEF LockInv
    <3> QED
      BY <1>4, <3>1, <3>2
  <2> QED
    BY <1>3, <2>1, <2>2, <2>3
<1>10. RecordsInv'
  BY <1>1, <1>2, <1>6 DEF RecordsInv, Known
<1>11. Past' /\ SpawnInv' /\ SignalInv'
  <2>1. \A v \in Writers : pc'[v] \in {"spawned", "signal", "wait"}
          => pc'[v] = pc[v] /\ arg'[v] = arg[v]
    BY <1>4, <1>5
  <2> QED
    BY <1>1, <1>2, <2>1, WritersDiffer DEF Past, SpawnInv, SignalInv, Pinned
<1> QED
  BY <1>1, <1>7, <1>8, <1>9, <1>10, <1>11 DEF IInv

\* Spawn and other processes: the process table gains one.
LEMMA StartIInv ==
  ASSUME IInv, NEW p \in Pids,
         OtherStarts(p) \/ \E w \in Tools : Spawn(w, p)
  PROVE  IInv'
<1>1. TypeOK /\ FileWhole /\ LockInv /\ Past /\ RecordsInv /\ SpawnInv /\ SignalInv
  BY DEF IInv
<1>2. UNCHANGED <<late, disk, copy, todo, updates>>
  BY DEF OtherStarts, Spawn
<1>3. PICK parent \in {"server", "other"} : NewProcess(p, parent)
  BY DEF OtherStarts, Spawn
<1>4. /\ os' \in [Pids -> Process] /\ ticks' \in Nat
      /\ Later(os, ticks, os', ticks') /\ Past'
      /\ \A q \in Pids : Pinned(q) => Pinned(q)' /\ os'[q].start = os[q].start
  BY <1>1, <1>3, StartIsLater
<1>5. /\ pc' \in [Writers -> Labels] /\ arg' \in [Writers -> Pids \cup {Nobody}]
      /\ \A v \in Writers : \/ pc'[v] = pc[v] /\ arg'[v] = arg[v]
                            \/ v \in Tools /\ pc'[v] = "spawned" /\ arg'[v] = p /\ Pinned(p)'
  <2>1. CASE OtherStarts(p)
    BY <1>1, <2>1 DEF OtherStarts, TypeOK, Labels
  <2>2. CASE \E w \in Tools : Spawn(w, p)
    <3>1. PICK w \in Tools : Spawn(w, p)
      BY <2>2
    <3>2. arg' = [arg EXCEPT ![w] = p] /\ GoTo(w, "spawned") /\ NewProcess(p, "server")
      BY <3>1 DEF Spawn
    <3>3. Pinned(p)'
      BY <1>1, <3>2, StartIsLater DEF Pinned
    <3>4. /\ pc' \in [Writers -> Labels] /\ pc'[w] = "spawned"
          /\ \A v \in Writers \ {w} : pc'[v] = pc[v]
      BY <1>1, <3>2, WritersDiffer, Moves DEF Labels
    <3>5. /\ arg' \in [Writers -> Pids \cup {Nobody}] /\ arg'[w] = p
          /\ \A v \in Writers \ {w} : arg'[v] = arg[v]
      BY <1>1, <3>2, WritersDiffer DEF TypeOK
    <3> QED
      BY <3>3, <3>4, <3>5
  <2> QED
    BY <2>1, <2>2
<1>6. TypeOK'
  <2>1. \A v \in Writers \ {Reaper} : arg'[v] = Nobody <=> pc'[v] = "idle"
    BY <1>1, <1>5, WritersDiffer DEF TypeOK
  <2> QED
    BY <1>1, <1>2, <1>4, <1>5, <2>1 DEF TypeOK, Labels, disk
<1>7. FileWhole' /\ LockInv'
  BY <1>1, <1>2, <1>5 DEF FileWhole, LockInv, disk
<1>8. RecordsInv'
  BY <1>1, <1>2, <1>4, <1>6, RecordsStep DEF disk
<1>9. SpawnInv' /\ SignalInv'
  <2>1. SpawnInv'
    <3> SUFFICES ASSUME NEW w \in Tools, pc'[w] = "spawned" PROVE Pinned(arg[w])'
      BY DEF SpawnInv
    <3>1. CASE pc'[w] = pc[w] /\ arg'[w] = arg[w]
      BY <1>1, <1>4, <3>1 DEF SpawnInv, Pinned
    <3>2. CASE arg'[w] = p /\ Pinned(p)'
      BY <3>2 DEF Pinned
    <3> QED
      BY <1>5, <3>1, <3>2, WritersDiffer
  <2>2. SignalInv'
    <3>1. pc'[Kill] = pc[Kill] /\ arg'[Kill] = arg[Kill]
      BY <1>5, WritersDiffer
    <3>2. pc[Kill] = "signal" => arg[Kill] \in Pids
      BY <1>1 DEF SignalInv, Pinned
    <3>3. pc[Kill] = "signal" => Pinned(arg[Kill])' /\ os'[arg[Kill]].start = os[arg[Kill]].start
      BY <1>1, <1>4, <3>1, <3>2 DEF SignalInv, Pinned
    <3> QED
      BY <1>1, <1>2, <3>1, <3>3 DEF SignalInv
  <2> QED
    BY <2>1, <2>2
<1> QED
  BY <1>4, <1>6, <1>7, <1>8, <1>9 DEF IInv

\* A process may die: of itself, by devit_kill, or by the reaper.
DeathOnly ==
  \/ UNCHANGED os
  \/ \E p \in Pids : os[p].state # "free" /\ os' = [os EXCEPT ![p] = Dead(p)]

\* Steps that only touch the process table, the lifetimes and what the reaper
\* and devit_kill remember.
LEMMA DeathIInv ==
  ASSUME IInv, DeathOnly, UNCHANGED <<ticks, disk, copy>>,
         late' \subseteq Pids, todo' \subseteq Pids, updates' \subseteq Pids,
         pc' \in [Writers -> Labels], arg' \in [Writers -> Pids \cup {Nobody}],
         \A v \in Writers \ {Reaper} : arg'[v] = Nobody <=> pc'[v] = "idle",
         \A v \in Writers :
           \/ (pc'[v] = pc[v] /\ arg'[v] = arg[v])
           \/ /\ v = Kill /\ pc[v] = "signal"
              /\ pc'[v] = "idle" \/ (pc'[v] = "wait" /\ arg'[v] = arg[v])
  PROVE  IInv'
<1>1. TypeOK /\ FileWhole /\ LockInv /\ Past /\ RecordsInv /\ SpawnInv /\ SignalInv
  BY DEF IInv
<1>2. /\ os' \in [Pids -> Process] /\ Later(os, ticks, os', ticks') /\ Past'
      /\ \A q \in Pids : Pinned(q) => Pinned(q)' /\ os'[q].start = os[q].start
  <2>1. CASE UNCHANGED os
    BY <1>1, <2>1, NothingHappens DEF TypeOK, Past, Pinned
  <2>2. ASSUME NEW p \in Pids, os[p].state # "free", os' = [os EXCEPT ![p] = Dead(p)]
        PROVE <1>2
    BY <1>1, <2>2, DyingIsLater
  <2> QED
    BY <2>1, <2>2 DEF DeathOnly
<1>3. TypeOK'
  BY <1>1, <1>2 DEF TypeOK, Labels, disk
<1>4. FileWhole' /\ LockInv'
  BY <1>1 DEF FileWhole, LockInv, disk
<1>5. RecordsInv'
  BY <1>1, <1>2, <1>3, RecordsStep DEF disk
<1>6. SpawnInv'
  <2> SUFFICES ASSUME NEW w \in Tools, pc'[w] = "spawned" PROVE Pinned(arg[w])'
    BY DEF SpawnInv
  <2>1. pc'[w] = pc[w] /\ arg'[w] = arg[w]
    BY WritersDiffer
  <2> QED
    BY <1>1, <1>2, <2>1 DEF SpawnInv, Pinned
<1>7. SignalInv'
  <2>1. /\ pc'[Kill] \in {"signal", "wait"} =>
             pc[Kill] \in {"signal", "wait"} /\ arg'[Kill] = arg[Kill]
        /\ pc'[Kill] = "signal" => pc[Kill] = "signal"
    BY WritersDiffer
  <2>2. pc'[Kill] = "signal" => Pinned(arg[Kill])' /\ os'[arg[Kill]].start = os[arg[Kill]].start
    BY <1>1, <1>2, <2>1 DEF SignalInv, Pinned
  <2> QED
    BY <1>1, <2>1, <2>2 DEF SignalInv
<1> QED
  BY <1>2, <1>3, <1>4, <1>5, <1>6, <1>7 DEF IInv

\* Steps that only give one writer another registry to hold.
LEMMA HoldIInv ==
  ASSUME IInv, NEW w \in Writers, NEW r \in Registry, KnownAt(r, os, ticks),
         copy' = copy \/ Hold(w, r), UNCHANGED <<os, ticks, late, disk>>,
         todo' \subseteq Pids, updates' \subseteq Pids,
         NEW l \in {"idle", "check", "save", "signal"}, GoTo(w, l),
         pc[w] \notin {"write", "rename"}, w \in Tools => l = "save",
         arg' \in [Writers -> Pids \cup {Nobody}],
         \A v \in Writers \ {w} : arg'[v] = arg[v],
         w # Reaper => arg'[w] # Nobody /\ l # "idle",
         l = "signal" => /\ w = Kill /\ Hold(w, r) /\ Pinned(arg'[w])
                         /\ r[arg'[w]] # NoRec /\ os[arg'[w]].start = r[arg'[w]].start,
         w = Kill => l \in {"signal", "save"}
  PROVE  IInv'
<1>1. TypeOK /\ FileWhole /\ LockInv /\ Past /\ RecordsInv /\ SpawnInv /\ SignalInv
  BY DEF IInv
<1>2. /\ pc' \in [Writers -> Labels] /\ pc'[w] = l
      /\ \A v \in Writers \ {w} : pc'[v] = pc[v]
  BY <1>1, Moves DEF Labels
<1>3. /\ copy' \in [Writers -> Registry]
      /\ \A v \in Writers : copy'[v] = copy[v] \/ (v = w /\ copy'[v] = r)
      /\ Hold(w, r) => copy'[w] = r
  BY <1>1 DEF TypeOK, Hold
<1>4. TypeOK'
  <2>1. \A v \in Writers \ {Reaper} : arg'[v] = Nobody <=> pc'[v] = "idle"
    BY <1>1, <1>2 DEF TypeOK
  <2> QED
    BY <1>1, <1>2, <1>3, <2>1 DEF TypeOK, Labels, disk
<1>5. FileWhole' /\ Past'
  BY <1>1 DEF FileWhole, Past, disk
<1>6. LockInv'
  BY <1>1, <1>2 DEF LockInv, disk
<1>7. RecordsInv'
  BY <1>1, <1>3 DEF RecordsInv, Known, disk
<1>8. SpawnInv'
  <2> SUFFICES ASSUME NEW v \in Tools, pc'[v] = "spawned" PROVE Pinned(arg[v])'
    BY DEF SpawnInv
  <2>1. pc'[v] = pc[v] /\ arg'[v] = arg[v]
    BY <1>2, WritersDiffer
  <2> QED
    BY <1>1, <2>1 DEF SpawnInv, Pinned
<1>9. SignalInv'
  <2>1. CASE w # Kill
    <3>1. pc'[Kill] = pc[Kill] /\ arg'[Kill] = arg[Kill] /\ copy'[Kill] = copy[Kill]
      BY <1>2, <1>3, <2>1, WritersDiffer
    <3> QED
      BY <1>1, <3>1 DEF SignalInv, Pinned
  <2>2. CASE w = Kill
    <3>1. CASE l = "signal"
      <4>1. copy'[Kill] = r /\ pc'[Kill] = "signal"
        BY <1>2, <1>3, <2>2, <3>1
      <4> QED
        BY <2>2, <3>1, <4>1 DEF SignalInv, Pinned
    <3>2. CASE l # "signal"
      BY <1>2, <2>2, <3>2 DEF SignalInv
    <3> QED
      BY <3>1, <3>2
  <2> QED
    BY <2>1, <2>2
<1> QED
  BY <1>4, <1>5, <1>6, <1>7, <1>8, <1>9 DEF IInv

\* A tool records the process it spawned.
LEMMA InsertIInv ==
  ASSUME IInv, NEW w \in Tools, Insert(w)
  PROVE  IInv'
<1> DEFINE rec == [start |-> os[arg[w]].start, status |-> "Running"]
           r == [copy[w] EXCEPT ![arg[w]] = rec]
<1>1. TypeOK /\ Past /\ RecordsInv /\ SpawnInv
  BY DEF IInv
<1>2. /\ pc[w] = "spawned" /\ Hold(w, r) /\ GoTo(w, "save")
      /\ UNCHANGED <<os, ticks, late, disk, arg, todo, updates>>
  BY DEF Insert
<1>3. Pinned(arg[w]) /\ w \in Writers
  BY <1>1, <1>2, WritersDiffer DEF SpawnInv
<1>4. rec \in ProcessRecord /\ rec.start = os[arg[w]].start
  BY <1>1, <1>3 DEF TypeOK, Process, ProcessRecord, Pinned
<1>5. copy[w] \in Registry /\ KnownAt(copy[w], os, ticks)
  BY <1>1, <1>3 DEF TypeOK, RecordsInv, Known
<1> HIDE DEF rec
<1>6. /\ r \in Registry /\ r[arg[w]] = rec
      /\ \A p \in Pids \ {arg[w]} : r[p] = copy[w][p]
  BY <1>3, <1>4, <1>5 DEF Registry, Pinned
<1> HIDE DEF r
<1>7. KnownAt(r, os, ticks)
  BY <1>1, <1>3, <1>4, <1>5, <1>6 DEF KnownAt, Pinned, Past
<1>8. /\ arg' \in [Writers -> Pids \cup {Nobody}] /\ arg' = arg
      /\ todo' \subseteq Pids /\ updates' \subseteq Pids
      /\ arg[w] # Nobody
  BY <1>1, <1>2, <1>3, WritersDiffer DEF TypeOK, Pinned
<1> QED
  BY <1>2, <1>3, <1>6, <1>7, <1>8, WritersDiffer, HoldIInv

\* devit_kill loads the registry and validates the record.
LEMMA KillCheckIInv ==
  ASSUME IInv, NEW p \in Pids, KillCheck(p)
  PROVE  IInv'
<1>1. TypeOK /\ RecordsInv
  BY DEF IInv
<1>2. /\ pc[Kill] = "idle" /\ file # Partial /\ file[p] # NoRec
      /\ os[p].state # "free" /\ os[p].start = file[p].start
      /\ Hold(Kill, file) /\ arg' = [arg EXCEPT ![Kill] = p] /\ GoTo(Kill, "signal")
      /\ UNCHANGED <<os, ticks, late, disk, todo, updates>>
  BY DEF KillCheck
<1>3. file \in Registry /\ KnownAt(file, os, ticks)
  BY <1>1, <1>2 DEF TypeOK, RecordsInv, Known
<1>4. Pinned(p)
  BY <1>2, <1>3 DEF KnownAt, Pinned
<1>5. /\ arg' \in [Writers -> Pids \cup {Nobody}] /\ arg'[Kill] = p
      /\ \A v \in Writers \ {Kill} : arg'[v] = arg[v]
      /\ todo' \subseteq Pids /\ updates' \subseteq Pids
  BY <1>1, <1>2, WritersDiffer DEF TypeOK
<1> QED
  BY <1>2, <1>3, <1>4, <1>5, WritersDiffer, HoldIInv

\* devit_kill marks the record in the copy it loaded.
LEMMA KillRecordIInv ==
  ASSUME IInv, KillRecord
  PROVE  IInv'
<1> DEFINE p == arg[Kill]
           rec == [copy[Kill][p] EXCEPT !.status = "Exited"]
           r == [copy[Kill] EXCEPT ![p].status = "Exited"]
<1>1. TypeOK /\ RecordsInv /\ SignalInv
  BY DEF IInv
<1>2. /\ pc[Kill] = "wait" /\ Hold(Kill, r) /\ GoTo(Kill, "save")
      /\ UNCHANGED <<os, ticks, late, disk, arg, todo, updates>>
  BY DEF KillRecord
<1>3. p \in Pids /\ p # Nobody
  BY <1>1, <1>2, WritersDiffer DEF TypeOK
<1>4. copy[Kill] \in Registry /\ KnownAt(copy[Kill], os, ticks) /\ copy[Kill][p] # NoRec
  BY <1>1, <1>2, WritersDiffer DEF TypeOK, RecordsInv, Known, SignalInv
<1>5. copy[Kill][p] \in ProcessRecord
  BY <1>3, <1>4 DEF Registry
<1>6. rec \in ProcessRecord /\ rec.start = copy[Kill][p].start
  BY <1>5 DEF ProcessRecord
<1>7. r = [copy[Kill] EXCEPT ![p] = rec]
  OBVIOUS
<1> HIDE DEF p, rec, r
<1>8. /\ r \in Registry /\ r[p] = rec /\ \A q \in Pids \ {p} : r[q] = copy[Kill][q]
  BY <1>3, <1>4, <1>6, <1>7 DEF Registry
<1>9. KnownAt(r, os, ticks)
  BY <1>3, <1>4, <1>6, <1>8 DEF KnownAt
<1>10. /\ arg' \in [Writers -> Pids \cup {Nobody}] /\ arg' = arg /\ arg[Kill] # Nobody
       /\ todo' \subseteq Pids /\ updates' \subseteq Pids
  BY <1>1, <1>2, <1>3 DEF TypeOK, p
<1> QED
  BY <1>2, <1>8, <1>9, <1>10, WritersDiffer, HoldIInv

\* The reaper loads the registry, and applies its updates to a fresh copy.
LEMMA ReaperIInv ==
  ASSUME IInv, ReaperLoad \/ ReaperApply
  PROVE  IInv'
<1>1. TypeOK /\ RecordsInv /\ FileWhole
  BY DEF IInv
<1>2. file \in Registry /\ KnownAt(file, os, ticks)
  BY <1>1 DEF TypeOK, RecordsInv, Known, FileWhole
<1>3. UNCHANGED <<os, ticks, late, disk, arg>>
  BY DEF ReaperLoad, ReaperApply
<1>4. /\ arg' \in [Writers -> Pids \cup {Nobody}] /\ arg' = arg
  BY <1>1, <1>3 DEF TypeOK
<1>5. todo' \subseteq Pids /\ updates' \subseteq Pids
  BY <1>1 DEF ReaperLoad, ReaperApply, TypeOK
<1>6. CASE ReaperLoad
  <2>1. pc[Reaper] = "idle" /\ Hold(Reaper, file) /\ GoTo(Reaper, "check")
    BY <1>6 DEF ReaperLoad
  <2> QED
    BY <1>2, <1>3, <1>4, <1>5, <2>1, WritersDiffer, HoldIInv
<1>7. CASE ReaperApply
  <2> DEFINE r == [p \in Pids |-> IF p \in updates /\ file[p] # NoRec
                                  THEN [file[p] EXCEPT !.status = "Exited"] ELSE file[p]]
  <2>1. /\ pc[Reaper] = "check"
        /\ \/ GoTo(Reaper, "idle") /\ UNCHANGED copy
           \/ GoTo(Reaper, "save") /\ Hold(Reaper, r)
    BY <1>7 DEF ReaperApply
  <2>2. ASSUME NEW p \in Pids
        PROVE  /\ r[p] \in ProcessRecord \cup {NoRec}
               /\ r[p] # NoRec => file[p] # NoRec /\ r[p].start = file[p].start
    <3>1. file[p] \in ProcessRecord \cup {NoRec}
      BY <1>2 DEF Registry
    <3> QED
      BY <3>1 DEF ProcessRecord
  <2>3. r \in Registry
    BY <2>2 DEF Registry
  <2> HIDE DEF r
  <2>4. KnownAt(r, os, ticks)
    BY <1>2, <2>2 DEF KnownAt
  <2> QED
    BY <1>3, <1>4, <1>5, <2>1, <2>3, <2>4, WritersDiffer, HoldIInv
<1> QED
  BY <1>6, <1>7

\* Processes die, lifetimes pass, the reaper looks at a record.
LEMMA TableIInv ==
  ASSUME IInv, \/ KillSignal
               \/ \E p \in Pids : ReaperCheck(p) \/ ProcessEnds(p) \/ LifetimeOver(p)
  PROVE  IInv'
<1>1. TypeOK /\ SignalInv
  BY DEF IInv
<1>2. /\ pc \in [Writers -> Labels] /\ arg \in [Writers -> Pids \cup {Nobody}]
      /\ \A v \in Writers \ {Reaper} : arg[v] = Nobody <=> pc[v] = "idle"
      /\ late \subseteq Pids /\ todo \subseteq Pids /\ updates \subseteq Pids
  BY <1>1 DEF TypeOK, Labels
<1>3. CASE KillSignal
  <2> DEFINE p == arg[Kill]
  <2>1. /\ pc[Kill] = "signal" /\ UNCHANGED <<ticks, late, disk, copy, todo, updates>>
        /\ \/ Return(Kill) /\ UNCHANGED os
           \/ /\ os[p].state # "free" /\ GoTo(Kill, "wait") /\ UNCHANGED arg
              /\ UNCHANGED os \/ os' = [os EXCEPT ![p] = Dead(p)]
    BY <1>3 DEF KillSignal
  <2>2. p \in Pids
    BY <1>1, <2>1 DEF SignalInv, Pinned
  <2>3. DeathOnly
    BY <2>1, <2>2 DEF DeathOnly
  <2> HIDE DEF p
  <2>4. \/ /\ pc'[Kill] = "idle" /\ arg' = [arg EXCEPT ![Kill] = Nobody]
        \/ /\ pc'[Kill] = "wait" /\ arg' = arg
    BY <1>1, <2>1, WritersDiffer, Moves DEF Return, Labels
  <2>5. /\ pc' \in [Writers -> Labels] /\ \A v \in Writers \ {Kill} : pc'[v] = pc[v]
    BY <1>1, <2>1, WritersDiffer, Moves DEF Return, Labels
  <2>6. /\ arg' \in [Writers -> Pids \cup {Nobody}]
        /\ \A v \in Writers \ {Kill} : arg'[v] = arg[v]
        /\ pc'[Kill] = "idle" => arg'[Kill] = Nobody
        /\ pc'[Kill] = "wait" => arg'[Kill] = arg[Kill]
    BY <1>2, <2>4, WritersDiffer
  <2>7. \A v \in Writers \ {Reaper} : arg'[v] = Nobody <=> pc'[v] = "idle"
    BY <1>2, <2>1, <2>4, <2>5, <2>6, WritersDiffer
  <2> QED
    BY <1>2, <2>1, <2>3, <2>4, <2>5, <2>6, <2>7, DeathIInv
<1>4. ASSUME NEW p \in Pids, ReaperCheck(p) \/ ProcessEnds(p) \/ LifetimeOver(p)
      PROVE  IInv'
  <2>1. UNCHANGED <<ticks, disk, copy, pc, arg>>
    BY <1>4 DEF ReaperCheck, ProcessEnds, LifetimeOver
  <2>2. late' \subseteq Pids /\ todo' \subseteq Pids /\ updates' \subseteq Pids
    BY <1>2, <1>4 DEF ReaperCheck, ProcessEnds, LifetimeOver
  <2>3. DeathOnly
    <3>1. CASE ReaperCheck(p)
      BY <3>1 DEF ReaperCheck, DeathOnly, validate_process
    <3>2. CASE ProcessEnds(p)
      BY <3>2 DEF ProcessEnds, DeathOnly
    <3>3. CASE LifetimeOver(p)
      BY <3>3 DEF LifetimeOver, DeathOnly
    <3> QED
      BY <1>4, <3>1, <3>2, <3>3
  <2> QED
    BY <1>2, <2>1, <2>2, <2>3, DeathIInv
<1> QED
  BY <1>3, <1>4

\* The server dies with its children and its lock, and is started again.
LEMMA RestartIInv ==
  ASSUME IInv, ServerRestart
  PROVE  IInv'
<1>1. TypeOK /\ FileWhole /\ LockInv /\ Past /\ RecordsInv
  BY DEF IInv
<1>2. /\ os \in [Pids -> Process] /\ ticks \in Nat /\ copy \in [Writers -> Registry]
      /\ file \in Registry /\ pc \in [Writers -> Labels]
  BY <1>1 DEF TypeOK, FileWhole, Labels
<1>3. /\ os' = [p \in Pids |-> IF os[p].parent = "server" THEN Free ELSE os[p]]
      /\ late' = {} /\ UNCHANGED <<ticks, file, todo, updates>>
      /\ pc' = [w \in Writers |-> IF w = Reaper THEN pc[w] ELSE "idle"]
      /\ arg' = [w \in Writers |-> Nobody]
  BY DEF ServerRestart
<1>4. copy' = [w \in Writers |-> IF w \in Tools THEN file ELSE copy[w]]
  BY <1>1 DEF ServerRestart, FileWhole
<1>5. /\ flock' = IF flock \in Tools \cup {Kill} THEN Nobody ELSE flock
      /\ temp' = IF flock \in Tools \cup {Kill} THEN Partial ELSE temp
  BY DEF ServerRestart
<1>6. Free \in Process /\ Free.state = "free" /\ Free.start = 0
  BY DEF Free, Process
<1>7. os' \in [Pids -> Process] /\ Later(os, ticks, os', ticks')
  <2>1. os' \in [Pids -> Process]
    BY <1>2, <1>3, <1>6
  <2>2. \A p \in Pids : \/ os'[p].state = "free"
                        \/ os[p].state # "free" /\ os'[p] = os[p]
    BY <1>2, <1>3, <1>6 DEF Process
  <2> QED
    BY <1>2, <1>3, <2>1, <2>2 DEF Later
<1>8. Past'
  <2> SUFFICES ASSUME NEW p \in Pids PROVE os'[p].start <= ticks
    BY <1>3 DEF Past
  <2>1. os'[p].start = 0 \/ os'[p] = os[p]
    BY <1>3, <1>6
  <2> QED
    BY <1>1, <1>2, <2>1 DEF Past
<1>9. copy' \in [Writers -> Registry]
  BY <1>2, <1>4
<1>10. \A w \in Writers : w # Reaper => pc'[w] = "idle"
  BY <1>3
<1>11. TypeOK'
  <2>1. pc' \in [Writers -> Labels] /\ arg' \in [Writers -> Pids \cup {Nobody}]
    BY <1>2, <1>3 DEF Labels
  <2>2. flock' \in Writers \cup {Nobody} /\ temp' \in Registry \cup {Partial}
    BY <1>1, <1>5 DEF TypeOK
  <2>3. \A w \in Writers \ {Reaper} : arg'[w] = Nobody <=> pc'[w] = "idle"
    BY <1>3
  <2> QED
    BY <1>1, <1>2, <1>3, <1>7, <1>9, <2>1, <2>2, <2>3 DEF TypeOK, Labels
<1>12. FileWhole'
  BY <1>1, <1>3 DEF FileWhole
<1>13. LockInv'
  <2>1. /\ pc'[Reaper] = pc[Reaper]
        /\ pc[Reaper] \in {"write", "rename"} => flock = Reaper
        /\ pc[Reaper] = "rename" => temp \in Registry
    BY <1>1, <1>3, WritersDiffer DEF LockInv
  <2>2. Reaper \notin Tools \cup {Kill}
    BY WritersDiffer
  <2> QED
    BY <1>5, <1>10, <2>1, <2>2 DEF LockInv
<1>14. RecordsInv'
  <2>1. KnownAt(file, os', ticks')
    <3>1. KnownAt(file, os, ticks)
      BY <1>1 DEF RecordsInv, Known, FileWhole
    <3> QED
      BY <1>2, <1>3, <1>7, <3>1, KnownLater
  <2>2. \A w \in Writers : copy'[w] = copy[w] \/ KnownAt(copy'[w], os', ticks')
    BY <1>4, <2>1
  <2> QED
    BY <1>1, <1>3, <1>5, <1>7, <1>11, <2>2, RecordsStep
<1>15. SpawnInv' /\ SignalInv'
  <2>1. pc'[Kill] = "idle" /\ \A w \in Tools : pc'[w] = "idle"
    BY <1>10, WritersDiffer
  <2> QED
    BY <2>1 DEF SpawnInv, SignalInv
<1> QED
  BY <1>8, <1>11, <1>12, <1>13, <1>14, <1>15 DEF IInv

\* devitd dies with its lock, and is started again.
LEMMA DaemonIInv ==
  ASSUME IInv, DaemonStop \/ DaemonStart
  PROVE  IInv'
<1>1. TypeOK /\ FileWhole /\ LockInv /\ Past /\ RecordsInv /\ SpawnInv /\ SignalInv
  BY DEF IInv
<1>2. /\ os \in [Pids -> Process] /\ ticks \in Nat /\ pc \in [Writers -> Labels]
  BY <1>1 DEF TypeOK, Labels
<1>3. /\ UNCHANGED <<os, ticks, late, file, copy, arg>>
      /\ \/ pc' = [pc EXCEPT ![Reaper] = "down"]
         \/ pc' = [pc EXCEPT ![Reaper] = "idle"]
      /\ todo' \subseteq Pids /\ updates' \subseteq Pids
  BY <1>1 DEF DaemonStop, DaemonStart, GoTo, TypeOK, disk
<1>4. \/ /\ flock' = IF flock = Reaper THEN Nobody ELSE flock
         /\ temp' = IF flock = Reaper THEN Partial ELSE temp
      \/ flock' = flock /\ temp' = temp
  BY DEF DaemonStop, DaemonStart, disk
<1>5. /\ Reaper \in Writers /\ pc'[Reaper] \in {"idle", "down"}
      /\ \A w \in Writers : w # Reaper => pc'[w] = pc[w]
  BY <1>2, <1>3 DEF Writers
<1>6. TypeOK'
  <2>1. pc' \in [Writers -> Labels]
    BY <1>2, <1>3 DEF Labels
  <2>2. flock' \in Writers \cup {Nobody} /\ temp' \in Registry \cup {Partial}
    BY <1>1, <1>4 DEF TypeOK
  <2>3. \A w \in Writers \ {Reaper} : arg'[w] = Nobody <=> pc'[w] = "idle"
    BY <1>1, <1>3, <1>5 DEF TypeOK
  <2> QED
    BY <1>1, <1>3, <2>1, <2>2, <2>3 DEF TypeOK, Labels
<1>7. FileWhole' /\ Past'
  BY <1>1, <1>3 DEF FileWhole, Past
<1>8. LockInv'
  BY <1>1, <1>4, <1>5 DEF LockInv
<1>9. RecordsInv'
  BY <1>1, <1>3, <1>4 DEF RecordsInv, Known
<1>10. SpawnInv' /\ SignalInv'
  <2>1. pc'[Kill] = pc[Kill] /\ \A w \in Tools : pc'[w] = pc[w]
    BY <1>5, WritersDiffer
  <2> QED
    BY <1>1, <1>3, <2>1 DEF SpawnInv, SignalInv, Pinned
<1> QED
  BY <1>6, <1>7, <1>8, <1>9, <1>10 DEF IInv

-----------------------------------------------------------------------------
(* The theorems.                                                           *)

LEMMA NextIInv == IInv /\ [Next]_vars => IInv'
<1> SUFFICES ASSUME IInv, [Next]_vars PROVE IInv'
  OBVIOUS
<1>1. ASSUME NEW w \in Tools, Tool(w) PROVE IInv'
  BY <1>1, StartIInv, InsertIInv DEF Tool
<1>2. CASE devit_kill
  BY <1>2, KillCheckIInv, KillRecordIInv, TableIInv DEF devit_kill
<1>3. CASE reaper_loop
  BY <1>3, ReaperIInv, TableIInv DEF reaper_loop
<1>4. ASSUME NEW w \in Writers, save_registry(w) PROVE IInv'
  BY <1>4, SaveIInv
<1>5. ASSUME NEW p \in Pids, ProcessEnds(p) \/ OtherStarts(p) \/ LifetimeOver(p)
      PROVE  IInv'
  BY <1>5, StartIInv, TableIInv
<1>6. CASE UNCHANGED vars
  BY <1>6 DEF vars, IInv, TypeOK, FileWhole, LockInv, Past, RecordsInv, Known,
              SpawnInv, SignalInv, Pinned
<1> QED
  BY <1>1, <1>2, <1>3, <1>4, <1>5, <1>6, RestartIInv, DaemonIInv DEF Next

LEMMA Invariance == Spec => []IInv
  BY InitIInv, NextIInv, PTL DEF Spec

\* Whoever loads the registry finds a complete file, however many tools, kills
\* and reaper passes save at once, and wherever the server or devitd dies (save_registry).
THEOREM RegistryFileWhole == Spec => []FileWhole
<1>1. IInv => FileWhole
  BY DEF IInv
<1> QED
  BY <1>1, Invariance, PTL

\* devit_kill signals the process whose start time it compared, and no other
\* that got its pid in between (devit_kill, execute).
THEOREM KillHitsRecorded == Spec => []SignalHitsRecorded
<1>1. IInv => SignalHitsRecorded
  BY DEF IInv, SignalInv, SignalHitsRecorded, Pinned
<1> QED
  BY <1>1, Invariance, PTL
=============================================================================
