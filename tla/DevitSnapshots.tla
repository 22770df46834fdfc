----------------------------- MODULE DevitSnapshots -----------------------------
(***************************************************************************)
(* Snapshots of the workspace (crates/cli/src/core/snapshot.rs): capture   *)
(* file by file, storing under an id made of the second and the name,      *)
(* pruning to max_snapshots, restore file by file, deletion and validation *)
(* against the work tree. One process does one of these at a time (the     *)
(* manager is behind a RwLock); several processes, and programs that edit  *)
(* files, share the workspace. Snapshots live in .devit/snapshots, which   *)
(* is not excluded from the walk: a snapshot captures the older ones.      *)
(***************************************************************************)
EXTENDS Naturals, Sequences, FiniteSets

CONSTANTS Paths, NoFile,
          Managers,        \* processes, each with its SnapshotManager
          Names,           \* descriptions
          Limits,          \* values of max_snapshots; 0 means no limit
          MaxMade,         \* bound: snapshots made
          MaxSeconds,      \* bound: seconds that pass
          MaxWork          \* bound: operations begun, and edits by other programs

ASSUME SnapshotAssumption ==
    /\ Limits \subseteq Nat /\ Limits # {} /\ IsFiniteSet(Paths) /\ IsFiniteSet(Managers)
    /\ MaxMade \in Nat /\ MaxSeconds \in Nat /\ MaxWork \in Nat

VARIABLES workspace,       \* path -> version of its content, or NoFile
          made,            \* every snapshot, in the order of created_at
          stored,          \* id -> the snapshot whose file is there, or 0
          second, work,
          max_snapshots,   \* of each manager
          doing,           \* what each manager does
          got,             \* what the walk has read
          mine,            \* the snapshot a manager made, restores or compares
          todo,            \* what it still has to read, delete, write or compare
          \* history, for the properties
          undisturbed,     \* nobody else changed anything since
          written,         \* snapshots whose file was stored
          deleted          \* snapshots that snapshot_delete removed

snapVars == <<workspace, made, stored, second, work, max_snapshots, doing, got, mine, todo,
              undisturbed, written, deleted>>

\* generate_snapshot_id: the second and a hash of the second and the name.
Ids == (0..MaxSeconds) \X Names

ASSUME PathsAreNotIds == Paths \cap Ids = {}

Kept == {i \in Ids : stored[i] # 0}

NothingRead == [f \in Paths |-> NoFile]

SnapInit ==
    /\ workspace \in [Paths -> {NoFile, 1}]
    /\ made = <<>> /\ stored = [i \in Ids |-> 0] /\ second = 0 /\ work = 0
    /\ max_snapshots \in [Managers -> Limits]
    /\ doing = [p \in Managers |-> "nothing"]
    /\ got = [p \in Managers |-> NothingRead]
    /\ mine = [p \in Managers |-> 0] /\ todo = [p \in Managers |-> {}]
    /\ undisturbed = [p \in Managers |-> FALSE]
    /\ written = {} /\ deleted = {}

Busy(p)   == doing[p] \in {"walk", "write", "list", "prune", "read", "restore", "compare", "differs"}
Goes(p, what) == doing' = [doing EXCEPT ![p] = what]
Changed(p) == undisturbed' = [q \in Managers |-> q = p /\ undisturbed[p]]
Began(p, what, items) ==
    /\ ~ Busy(p) /\ Goes(p, what)
    /\ todo' = [todo EXCEPT ![p] = items]
    /\ undisturbed' = [undisturbed EXCEPT ![p] = TRUE]

-----------------------------------------------------------------------------
(* create_snapshot: the walk reads file after file, the older snapshots    *)
(* (last, here) among them; then the snapshot is named, stored and the     *)
(* oldest are removed.                                                     *)

BeginSnapshot(p) ==
    /\ work < MaxWork /\ work' = work + 1
    /\ Began(p, "walk", Paths)
    /\ UNCHANGED <<workspace, made, stored, second, max_snapshots, got, mine, written, deleted>>

ReadPath(p) ==
    /\ doing[p] = "walk"
    /\ \E f \in todo[p] :
          /\ got' = [got EXCEPT ![p][f] = workspace[f]]
          /\ todo' = [todo EXCEPT ![p] = @ \ {f}]
    /\ UNCHANGED <<workspace, made, stored, second, work, max_snapshots, doing, mine,
                   undisturbed, written, deleted>>

NameSnapshot(p) ==
    /\ doing[p] = "walk" /\ todo[p] = {} /\ Len(made) < MaxMade
    /\ \E d \in Names : made' = Append(made, [id |-> <<second, d>>, files |-> got[p], older |-> stored])
    /\ mine' = [mine EXCEPT ![p] = Len(made')]
    /\ got' = [got EXCEPT ![p] = NothingRead]
    /\ Goes(p, "write")
    /\ UNCHANGED <<workspace, stored, second, work, max_snapshots, todo,
                   undisturbed, written, deleted>>

\* write_snapshot_file ends in one rename; a file under the same id is replaced.
StoreSnapshot(p) ==
    /\ doing[p] = "write"
    /\ stored' = [stored EXCEPT ![made[mine[p]].id] = mine[p]]
    /\ written' = written \cup {mine[p]}
    /\ Goes(p, IF max_snapshots[p] > 0 THEN "list" ELSE "read")
    /\ Changed(p)
    /\ UNCHANGED <<workspace, made, second, work, max_snapshots, got, mine, todo, deleted>>

\* Slips: the newest are taken; one too few is taken.
Newest(n)     == {i \in Kept : Cardinality({j \in Kept : stored[j] < stored[i]}) >= n}
OldestBut1(n) == {i \in Kept : Cardinality({j \in Kept : stored[j] > stored[i]}) > n}

\* The ids whose snapshots are older than the newest `n` that are stored.
Oldest(n) ==
    {i \in Kept : Cardinality({j \in Kept : stored[j] > stored[i]}) >= n}

ToRemove(p) == Oldest(max_snapshots[p])

ListSnapshots(p) ==
    /\ doing[p] = "list"
    /\ todo' = [todo EXCEPT ![p] = ToRemove(p)]
    /\ Goes(p, "prune")
    /\ UNCHANGED <<workspace, made, stored, second, work, max_snapshots, got, mine,
                   undisturbed, written, deleted>>

\* The file that was listed may be gone, or be another snapshot's by now.
PruneOne(p) ==
    /\ doing[p] = "prune"
    /\ \E i \in todo[p] :
          IF stored[i] = 0
          THEN /\ Goes(p, "failed") /\ todo' = [todo EXCEPT ![p] = {}]
               /\ UNCHANGED <<stored, undisturbed>>
          ELSE /\ stored' = [stored EXCEPT ![i] = 0]
               /\ todo' = [todo EXCEPT ![p] = @ \ {i}]
               /\ Changed(p)
               /\ UNCHANGED doing
    /\ UNCHANGED <<workspace, made, second, work, max_snapshots, got, mine, written, deleted>>

Pruned(p) ==
    /\ doing[p] = "prune" /\ todo[p] = {}
    /\ Goes(p, "read")
    /\ UNCHANGED <<workspace, made, stored, second, work, max_snapshots, got, mine, todo,
                   undisturbed, written, deleted>>

\* The new snapshot is read back for the answer.
ReadBack(p) ==
    /\ doing[p] = "read"
    /\ Goes(p, IF stored[made[mine[p]].id] = 0 THEN "failed" ELSE "created")
    /\ UNCHANGED <<workspace, made, stored, second, work, max_snapshots, got, mine, todo,
                   undisturbed, written, deleted>>

-----------------------------------------------------------------------------
(* restore_snapshot writes what was captured over what is there, older     *)
(* snapshots too; a file made since stays.                                 *)

Captured(n) == {f \in Paths : made[n].files[f] # NoFile} \cup {i \in Ids : made[n].older[i] # 0}

BeginRestore(p) ==
    /\ work < MaxWork /\ work' = work + 1
    /\ \E i \in Kept :
          /\ mine' = [mine EXCEPT ![p] = stored[i]]
          /\ Began(p, "restore", Captured(stored[i]))
    /\ UNCHANGED <<workspace, made, stored, second, max_snapshots, got, written, deleted>>

\* A slip: overwrite_existing is not set.
WriteMissing(p) ==
    /\ doing[p] = "restore"
    /\ \E f \in todo[p] :
          /\ workspace' = IF f \in Paths /\ workspace[f] = NoFile
                          THEN [workspace EXCEPT ![f] = made[mine[p]].files[f]] ELSE workspace
          /\ stored' = IF f \in Ids THEN [stored EXCEPT ![f] = made[mine[p]].older[f]] ELSE stored
          /\ todo' = [todo EXCEPT ![p] = @ \ {f}]
    /\ Changed(p)
    /\ UNCHANGED <<made, second, work, max_snapshots, doing, got, mine, written, deleted>>

\* One step for fs::write, which truncates the file before it writes: who reads in
\* between finds part of it.
WriteBack(p) ==
    /\ doing[p] = "restore"
    /\ \E f \in todo[p] :
          /\ workspace' = IF f \in Paths
                          THEN [workspace EXCEPT ![f] = made[mine[p]].files[f]] ELSE workspace
          /\ stored' = IF f \in Ids THEN [stored EXCEPT ![f] = made[mine[p]].older[f]] ELSE stored
          /\ todo' = [todo EXCEPT ![p] = @ \ {f}]
    /\ Changed(p)
    /\ UNCHANGED <<made, second, work, max_snapshots, doing, got, mine, written, deleted>>

Restored(p) ==
    /\ doing[p] = "restore" /\ todo[p] = {}
    /\ Goes(p, "restored")
    /\ UNCHANGED <<workspace, made, stored, second, work, max_snapshots, got, mine, todo,
                   undisturbed, written, deleted>>

-----------------------------------------------------------------------------
(* snapshot_validate with paths: compare_with_current, file by file.       *)

BeginCompare(p) ==
    /\ work < MaxWork /\ work' = work + 1
    /\ \E i \in Kept :
          /\ mine' = [mine EXCEPT ![p] = stored[i]]
          /\ Began(p, "compare", Paths)
    /\ UNCHANGED <<workspace, made, stored, second, max_snapshots, got, written, deleted>>

\* Every path is looked at, also after a difference.
ComparePath(p) ==
    /\ doing[p] \in {"compare", "differs"}
    /\ \E f \in todo[p] :
          /\ todo' = [todo EXCEPT ![p] = @ \ {f}]
          /\ Goes(p, IF workspace[f] = made[mine[p]].files[f] THEN doing[p] ELSE "differs")
    /\ UNCHANGED <<workspace, made, stored, second, work, max_snapshots, got, mine,
                   undisturbed, written, deleted>>

Compared(p) ==
    /\ doing[p] \in {"compare", "differs"} /\ todo[p] = {}
    /\ Goes(p, IF doing[p] = "compare" THEN "valid" ELSE "stale")
    /\ UNCHANGED <<workspace, made, stored, second, work, max_snapshots, got, mine, todo,
                   undisturbed, written, deleted>>

-----------------------------------------------------------------------------
(* delete_snapshot, snapshot_config, errors, and the world outside.        *)

DeleteSnapshot(p) ==
    /\ ~ Busy(p) /\ work < MaxWork /\ work' = work + 1
    /\ \E i \in Kept :
          /\ stored' = [stored EXCEPT ![i] = 0]
          /\ deleted' = deleted \cup {stored[i]}
    /\ Changed(p) /\ Goes(p, "nothing")
    /\ UNCHANGED <<workspace, made, second, max_snapshots, got, mine, todo, written>>

SetMax(p) ==
    /\ ~ Busy(p)
    /\ \E n \in Limits \ {max_snapshots[p]} : max_snapshots' = [max_snapshots EXCEPT ![p] = n]
    /\ Goes(p, "nothing")
    /\ UNCHANGED <<workspace, made, stored, second, work, got, mine, todo,
                   undisturbed, written, deleted>>

\* A file cannot be read or written, or the process ends.
SnapshotError(p) ==
    /\ Busy(p) /\ Goes(p, "failed")
    /\ todo' = [todo EXCEPT ![p] = {}] /\ got' = [got EXCEPT ![p] = NothingRead]
    /\ UNCHANGED <<workspace, made, stored, second, work, max_snapshots, mine,
                   undisturbed, written, deleted>>

EditPath ==
    /\ work < MaxWork /\ work' = work + 1
    /\ \E f \in Paths : workspace' = [workspace EXCEPT ![f] = IF @ = NoFile THEN 1 ELSE @ + 1]
    /\ undisturbed' = [p \in Managers |-> FALSE]
    /\ UNCHANGED <<made, stored, second, max_snapshots, doing, got, mine, todo, written, deleted>>

NextSecond ==
    /\ second < MaxSeconds /\ second' = second + 1
    /\ UNCHANGED <<workspace, made, stored, work, max_snapshots, doing, got, mine, todo,
                   undisturbed, written, deleted>>

SnapNext ==
    \/ \E p \in Managers :
          \/ BeginSnapshot(p) \/ ReadPath(p) \/ NameSnapshot(p) \/ StoreSnapshot(p)
          \/ ListSnapshots(p) \/ PruneOne(p) \/ Pruned(p) \/ ReadBack(p)
          \/ BeginRestore(p) \/ WriteBack(p) \/ Restored(p)
          \/ BeginCompare(p) \/ ComparePath(p) \/ Compared(p)
          \/ DeleteSnapshot(p) \/ SetMax(p) \/ SnapshotError(p)
    \/ EditPath \/ NextSecond

SnapSpec == SnapInit /\ [][SnapNext]_snapVars

-----------------------------------------------------------------------------
(* Properties.                                                             *)

\* Pruning on a list that others make stale takes a snapshot only when as many
\* newer ones as the smallest limit were stored (snapshot.rs:1478): a snapshot
\* that is not there was deleted, has given its id to another one of the same
\* second and name, or was too old.
KeptWhileNew ==
    LET least == CHOOSE n \in Limits \ {0} : \A k \in Limits \ {0} : n <= k
    IN  \A n \in written :
          \/ stored[made[n].id] = n
          \/ n \in deleted
          \/ \E m \in 1..Len(made) : m # n /\ made[m].id = made[n].id
          \/ Cardinality({m \in written : m > n}) >= least

\* After a snapshot that nobody disturbed, there are no more than max_snapshots,
\* and the new one is among them (snapshot.rs:1347).
StoreBounded ==
    \A p \in Managers :
        doing[p] = "created" /\ undisturbed[p] /\ max_snapshots[p] > 0
        => Cardinality(Kept) <= max_snapshots[p] /\ stored[made[mine[p]].id] = mine[p]

\* A restore that nobody disturbed leaves every captured file as it was when the
\* snapshot was taken; a comparison that nobody disturbed answers for all the
\* files at once (snapshot.rs:950, 848).
RestoreAndCompare ==
    \A p \in Managers :
        /\ doing[p] = "restored" /\ undisturbed[p]
           => \A f \in Paths : made[mine[p]].files[f] \in {NoFile, workspace[f]}
        /\ doing[p] \in {"valid", "stale"} /\ undisturbed[p]
           => (doing[p] = "valid") = (workspace = made[mine[p]].files)
=============================================================================
