----------------------------- MODULE DevitPatcher -----------------------------
(***************************************************************************)
(* AtomicPatcher::apply_patch (crates/cli/src/core/atomic_patcher.rs) with *)
(* every system call that other processes see as a step of its own, called *)
(* by the core engine or by the MCP tool devit_patch_apply, which looks    *)
(* first whether the files are there. Any call may fail and any process    *)
(* may die between two steps.                                              *)
(*                                                                         *)
(* `path.with_extension("devit.tmp")` names the temporary file: a.rs and   *)
(* a.toml have the same one.                                               *)
(***************************************************************************)
EXTENDS DevitPatch

CONSTANTS Paths,       \* files of the work tree
          Temps,       \* names of temporary files
          TempOf,      \* [Paths -> Temps], with_extension("devit.tmp")
          Procs,       \* processes, or requests of the HTTP server
          Nowhere,     \* no file name
          Scenarios    \* [start, temp, job], what the processes may find and be asked

ASSUME PathsAssumption ==
    /\ TempOf \in [Paths -> Temps]
    /\ Paths \cap Temps = {}
    /\ Nowhere \notin Paths \cup Temps
    /\ \A s \in Scenarios :
          /\ DOMAIN s.start = Paths /\ DOMAIN s.temp = Temps /\ DOMAIN s.job = Procs
          /\ \A p \in Procs :
                /\ s.job[p].front \in {"core", "mcp"} /\ s.job[p].dry \in BOOLEAN
                /\ Len(s.job[p].files) \in Nat
                /\ DOMAIN s.job[p].files = 1 .. Len(s.job[p].files)
                /\ \A i \in DOMAIN s.job[p].files :
                      PathOf(s.job[p].files[i]) \in {{}} \cup {{q} : q \in Paths}

\* A patch is what git prints for some changes, each of a file of its own.
ASSUME DiffsAssumption ==
    \A s \in Scenarios, p \in Procs :
        LET chs == s.job[p].changes
        IN  /\ chs \in Seq(Changes(Paths)) /\ s.job[p].files = FromDiff(Printed(chs))
            /\ \A i, k \in DOMAIN chs : chs[i].path = chs[k].path => i = k

VARIABLES disk,    \* what is at each path
          temp,    \* what is at each temporary name; NoFile when there is none
          job,     \* what each process was asked: files (of changes), front, dry
          start,   \* the disk before the first step (nothing reads it but the properties)
          pc,      \* where each process is
          at,      \* the file of the patch it is at
          text,    \* the new content it has computed
          where    \* the name, if any, of the file its descriptor is open on

vars == <<disk, temp, job, start, pc, at, text, where>>

Init ==
    \E s \in Scenarios :
        /\ disk = s.start /\ start = s.start /\ temp = s.temp /\ job = s.job
        /\ pc    = [p \in Procs |-> "check"]
        /\ at    = [p \in Procs |-> 1]
        /\ text  = [p \in Procs |-> Empty]
        /\ where = [p \in Procs |-> Nowhere]

FileAt(p) == job[p].files[at[p]]
PathAt(p) == CHOOSE q \in Paths : q \in PathOf(FileAt(p))
TempAt(p) == TempOf[PathAt(p)]

Content(f) == IF PathOf(f) = {} THEN NoFile ELSE disk[CHOOSE q \in Paths : q \in PathOf(f)]

To(p, where_to) == pc' = [pc EXCEPT ![p] = where_to]

-----------------------------------------------------------------------------
(* validate_workspace_state, and only for the tool's own call. *)

LooksFor(f) == IF f.is_new_file THEN {} ELSE IF f.old_path # {} THEN f.old_path ELSE f.new_path

Refused(p) ==
    /\ job[p].front = "mcp"
    /\ \/ job[p].files = <<>>
       \/ /\ ~ job[p].dry
          /\ \E i \in DOMAIN job[p].files :
                \E q \in LooksFor(job[p].files[i]) : disk[q] = NoFile

Check(p) ==
    /\ pc[p] = "check"
    /\ To(p, IF Refused(p) THEN "failed" ELSE "file")
    /\ UNCHANGED <<disk, temp, job, start, at, text, where>>

-----------------------------------------------------------------------------
(* apply_file_patch: the file is read and its new content built in one     *)
(* step, and written in the next three.                                    *)

Finish(p) ==
    /\ pc[p] = "file" /\ at[p] > Len(job[p].files)
    /\ To(p, "done")
    /\ UNCHANGED <<disk, temp, job, start, at, text, where>>

Conflict(p) ==
    /\ pc[p] = "file" /\ at[p] <= Len(job[p].files)
    /\ ~ FileOutcome(FileAt(p), Content(FileAt(p))).ok
    /\ To(p, "failed")
    /\ UNCHANGED <<disk, temp, job, start, at, text, where>>

\* A slip: a dry run does not build the new content.
DryFileUnbuilt(p) ==
    /\ pc[p] = "file" /\ at[p] <= Len(job[p].files) /\ job[p].dry
    /\ at' = [at EXCEPT ![p] = @ + 1]
    /\ UNCHANGED <<disk, temp, job, start, pc, text, where>>

DryFile(p) ==
    /\ pc[p] = "file" /\ at[p] <= Len(job[p].files) /\ job[p].dry
    /\ FileOutcome(FileAt(p), Content(FileAt(p))).ok
    /\ at' = [at EXCEPT ![p] = @ + 1]
    /\ UNCHANGED <<disk, temp, job, start, pc, text, where>>

\* A descriptor open on the file that had the name keeps a file without a name.
delete_file(p) ==
    /\ pc[p] = "file" /\ at[p] <= Len(job[p].files) /\ ~ job[p].dry
    /\ FileAt(p).is_deleted_file
    /\ FileOutcome(FileAt(p), Content(FileAt(p))).ok
    /\ disk' = [disk EXCEPT ![PathAt(p)] = NoFile]
    /\ where' = [q \in Procs |-> IF where[q] = PathAt(p) THEN Nowhere ELSE where[q]]
    /\ at' = [at EXCEPT ![p] = @ + 1]
    /\ UNCHANGED <<temp, job, start, pc, text>>

build_new_content(p) ==
    /\ pc[p] = "file" /\ at[p] <= Len(job[p].files) /\ ~ job[p].dry
    /\ ~ FileAt(p).is_deleted_file
    /\ FileOutcome(FileAt(p), Content(FileAt(p))).ok
    /\ text' = [text EXCEPT ![p] = FileOutcome(FileAt(p), Content(FileAt(p))).text]
    /\ To(p, "open")
    /\ UNCHANGED <<disk, temp, job, start, at, where>>

-----------------------------------------------------------------------------
(* write_file_atomically. *)

\* create(true), truncate(true): a file that is there is emptied, not replaced.
OpenTemp(p) ==
    /\ pc[p] = "open"
    /\ temp' = [temp EXCEPT ![TempAt(p)] = Empty]
    /\ where' = [where EXCEPT ![p] = TempAt(p)]
    /\ To(p, "write")
    /\ UNCHANGED <<disk, job, start, at, text>>

\* What is in a file after p wrote its text to it from the first byte on.
Written(p, old) == IF old \in {Empty, text[p]} THEN {text[p]} ELSE {text[p], Torn}

\* A slip: the new content is written to the file itself.
WriteInPlace(p) ==
    /\ pc[p] = "write"
    /\ disk' = [disk EXCEPT ![PathAt(p)] = Torn]
    /\ where' = [where EXCEPT ![p] = Nowhere]
    /\ To(p, "rename")
    /\ UNCHANGED <<temp, job, start, at, text>>

WriteTemp(p) ==
    /\ pc[p] = "write"
    /\ \/ /\ where[p] \in Temps
          /\ \E t \in Written(p, temp[where[p]]) : temp' = [temp EXCEPT ![where[p]] = t]
          /\ UNCHANGED disk
       \/ /\ where[p] \in Paths
          /\ \E t \in Written(p, disk[where[p]]) : disk' = [disk EXCEPT ![where[p]] = t]
          /\ UNCHANGED temp
       \/ where[p] = Nowhere /\ UNCHANGED <<disk, temp>>
    /\ where' = [where EXCEPT ![p] = Nowhere]
    /\ To(p, "rename")
    /\ UNCHANGED <<job, start, at, text>>

RenameTemp(p) ==
    /\ pc[p] = "rename" /\ temp[TempAt(p)] # NoFile
    /\ disk' = [disk EXCEPT ![PathAt(p)] = temp[TempAt(p)]]
    /\ temp' = [temp EXCEPT ![TempAt(p)] = NoFile]
    /\ where' = [q \in Procs |-> IF where[q] = TempAt(p) THEN PathAt(p)
                               ELSE IF where[q] = PathAt(p) THEN Nowhere ELSE where[q]]
    /\ at' = [at EXCEPT ![p] = @ + 1]
    /\ To(p, "file")
    /\ UNCHANGED <<job, start, text>>

RenameFails(p) ==
    /\ pc[p] = "rename" /\ temp[TempAt(p)] = NoFile
    /\ To(p, "failed")
    /\ UNCHANGED <<disk, temp, job, start, at, text, where>>

-----------------------------------------------------------------------------
(* A call that fails ends the patch with an error, a crash ends the        *)
(* process; neither takes anything back. A write may have been partial.    *)

Stops(p, how) ==
    /\ pc[p] \in {"file", "open", "write", "rename"}
    /\ \/ UNCHANGED temp
       \/ /\ pc[p] = "write" /\ where[p] \in Temps
          /\ temp' = [temp EXCEPT ![where[p]] = Torn]
    /\ where' = [where EXCEPT ![p] = Nowhere]
    /\ To(p, how)
    /\ UNCHANGED <<disk, job, start, at, text>>

IoError(p) == at[p] <= Len(job[p].files) /\ ~ job[p].dry /\ Stops(p, "ioerror")
Crash(p)   == Stops(p, "crashed")

Next ==
    \E p \in Procs :
        \/ Check(p) \/ Finish(p) \/ Conflict(p) \/ DryFile(p)
        \/ delete_file(p) \/ build_new_content(p)
        \/ OpenTemp(p) \/ WriteTemp(p) \/ RenameTemp(p) \/ RenameFails(p)
        \/ IoError(p) \/ Crash(p)

Spec == Init /\ [][Next]_vars

-----------------------------------------------------------------------------
(* Properties.                                                             *)

Touched(p) == {q \in Paths : \E i \in DOMAIN job[p].files : q \in PathOf(job[p].files[i])}
Writes(p)  == IF job[p].dry THEN {} ELSE Touched(p)

\* No other request uses a temporary file of p, hence none of its files.
Alone(p) == \A r \in Procs \ {p} : \A q \in Touched(p), o \in Writes(r) : TempOf[q] # TempOf[o]

\* One path for every file of the patch (no renames), another one for each.
Distinct(p) ==
    /\ \A i \in DOMAIN job[p].files :
          /\ PathOf(job[p].files[i]) # {}
          /\ LooksFor(job[p].files[i]) \subseteq PathOf(job[p].files[i])
    /\ \A i, k \in DOMAIN job[p].files :
          PathOf(job[p].files[i]) = PathOf(job[p].files[k]) => i = k

Before(p, i) == start[CHOOSE q \in Paths : q \in PathOf(job[p].files[i])]
Outcome(p, i) == FileOutcome(job[p].files[i], Before(p, i))

\* The state's shape: what a process holds open and what it is about to write.
TypeOK ==
    /\ DOMAIN disk = Paths /\ DOMAIN temp = Temps
    /\ pc \in [Procs -> {"check", "file", "open", "write", "rename",
                         "done", "failed", "ioerror", "crashed"}]
    /\ at \in [Procs -> Nat \ {0}] /\ DOMAIN text = Procs
    /\ where \in [Procs -> Paths \cup Temps \cup {Nowhere}]
    /\ \A p \in Procs :
          /\ where[p] # Nowhere => pc[p] = "write"
          /\ pc[p] \in {"open", "write", "rename"} =>
                at[p] <= Len(job[p].files) /\ ~ job[p].dry /\ PathOf(FileAt(p)) # {}

\* "Atomic rename" (atomic_patcher.rs:369): whenever anyone looks, and after
\* any failure or crash, the files before the one a patch is at have their
\* complete new content and the others are as they were; a file no patch names
\* is as it was.
PrefixApplied ==
    /\ \A p \in Procs : Alone(p) /\ Distinct(p) /\ ~ job[p].dry =>
          \A i \in DOMAIN job[p].files : \A q \in PathOf(job[p].files[i]) :
              disk[q] = IF i < at[p] THEN Outcome(p, i).text ELSE start[q]
    /\ \A q \in Paths : (\A p \in Procs : q \notin Writes(p)) => disk[q] = start[q]

\* A dry run succeeds exactly when the patch applies: both succeed when every
\* file of the patch fits what is on the disk, and fail when one does not. Only
\* the tool's look for missing files is not part of a dry run.
DryRunPredicts ==
    \A p \in Procs : Alone(p) /\ Distinct(p) =>
        /\ pc[p] = "done" => \A i \in DOMAIN job[p].files : Outcome(p, i).ok
        /\ pc[p] = "failed" =>
              \/ \E i \in DOMAIN job[p].files : ~ Outcome(p, i).ok
              \/ job[p].front = "mcp" /\ job[p].files = <<>>
              \/ /\ job[p].front = "mcp" /\ ~ job[p].dry
                 /\ \E i \in DOMAIN job[p].files :
                       \E q \in LooksFor(job[p].files[i]) : start[q] = NoFile

\* The patch is one the engine makes exactly, and the files are those it was made from.
Made(p) ==
    LET chs == job[p].changes
    IN  chs # <<>> /\ \A i \in DOMAIN chs : Plain(chs[i]) /\ start[chs[i].path] = chs[i].old

\* "Generate patches with `git diff`" (mcp-tools/src/patch_apply.rs:49): such a
\* patch, applied to the files it was made from, is not refused and gives the
\* files it was made for.
RoundTrip ==
    \A p \in Procs : Made(p) /\ Alone(p) =>
        /\ pc[p] # "failed"
        /\ pc[p] = "done" /\ ~ job[p].dry =>
              \A i \in DOMAIN job[p].changes : disk[job[p].changes[i].path] = job[p].changes[i].new

\* "Generate patches with `git diff`", of every diff git can print for two work
\* trees: it never succeeds with a result that is not the one the diff says.
NeverAnotherResult ==
    \A p \in Procs : pc[p] = "done" /\ ~ job[p].dry =>
        \A i \in DOMAIN job[p].changes : disk[job[p].changes[i].path] = job[p].changes[i].new
=============================================================================
