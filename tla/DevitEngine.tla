------------------------------ MODULE DevitEngine ------------------------------
(***************************************************************************)
(* CoreEngine (crates/cli/src/core/mod.rs): patch_apply with its           *)
(* idempotency cache, commit and journal, patch_apply_with_tests with its  *)
(* tests and automatic revert, and journal_append, which shares the cache. *)
(* Calls run side by side (every method takes &self and awaits), other     *)
(* programs change the work tree, cache entries expire and the process is  *)
(* started again, anywhere: the patch and the commit are of the workspace, *)
(* the rollback command is of the directory the process runs in.           *)
(* AtomicPatcher is one step here: DevitPatcher has it in detail.          *)
(***************************************************************************)
EXTENDS Naturals, FiniteSets

CONSTANTS Files,
          Callers,
          Keys,          \* idempotency keys (UUIDs)
          NoKey,
          None,          \* no call, no result, no entry
          Absent,        \* what is in place of a file that is not there
          Requests,      \* the calls that are made: see RequestType
          AutoCommit,    \* config.git.auto_commit
          AutoRevert,    \* config.policy.auto_revert_on_test_fail
          StartDirs,     \* where the process is started: see Directories
          MaxCalls,      \* bound: calls made
          MaxEdits       \* bound: changes by other programs

Levels == {"Untrusted", "Ask", "Moderate", "Trusted", "Privileged"}

\* The directory of the process is in the workspace's repository, in another one
\* or in none: the workspace is config.workspace.sandbox_root and default_project.
Directories == {"workspace", "another repository", "no repository"}

\* A patch creates, modifies or deletes one file; a modification adds lines.
RequestType ==
    [op : {"patch_apply", "with_tests"}, file : Files, kind : {"create", "modify", "delete"},
     level : Levels, dry : BOOLEAN, key : Keys \cup {NoKey}]
    \cup [op : {"journal_append"}, key : Keys \cup {NoKey}]

\* What a call returns, and what the cache keeps.
Results == [op : {"patch"}, dry : BOOLEAN, sha : BOOLEAN, reverted : BOOLEAN]
           \cup [op : {"journal"}, offset : Nat]

ASSUME EngineAssumption ==
    /\ NoKey \notin Keys /\ None \notin Nat \cup Results /\ Requests \subseteq RequestType
    /\ StartDirs \subseteq Directories
    /\ AutoCommit \in BOOLEAN /\ AutoRevert \in BOOLEAN
    /\ MaxCalls \in Nat /\ MaxEdits \in Nat

\* What a file holds: how often the patch was applied and how often somebody
\* else changed it; or there is no file.
Text == [patch : Nat, other : Nat]
Trees == [Files -> Text \cup {Absent}]

VARIABLES tree, index, head,   \* the workspace: its work tree, git's index, the last commit
          process_dir,         \* where the process runs
          work_elsewhere,      \* the other repository has work that is not committed
          cache,               \* idempotency_cache
          journal,             \* entries of the in-memory journal
          journalled,          \* Journal::idempotency: key -> offset
          call, pc, result,    \* of each caller
          began,               \* the tree when a call was about to change it
          alone,               \* since then nobody else changed the repository
          uses,                \* key -> the kinds of call it was given with
          spoilt,              \* keys that two calls had at once, that were forgotten, or whose
                               \* patch was applied by a call that then failed
          successes,           \* key -> how often a real patch with it was applied
          started, edits

repo  == <<tree, index, head>>
place == <<process_dir, work_elsewhere>>
ghost == <<began, alone, uses, spoilt, successes>>
vars  == <<repo, place, cache, journal, journalled, call, pc, result, ghost, started, edits>>

Kind(r) == IF r.op = "journal_append" THEN "journal" ELSE IF r.dry THEN "dry" ELSE "real"

Init ==
    /\ tree \in [Files -> {Absent, [patch |-> 0, other |-> 0]}]
    /\ index = tree /\ head = tree
    /\ process_dir \in StartDirs /\ work_elsewhere = TRUE
    /\ cache = [k \in Keys |-> None] /\ journal = 0 /\ journalled = [k \in Keys |-> None]
    /\ call = [c \in Callers |-> None] /\ pc = [c \in Callers |-> "idle"]
    /\ result = [c \in Callers |-> None]
    /\ began = [c \in Callers |-> tree] /\ alone = [c \in Callers |-> FALSE]
    /\ uses = [k \in Keys |-> {}] /\ spoilt = {} /\ successes = [k \in Keys |-> 0]
    /\ started = 0 /\ edits = 0

To(c, step) == pc' = [pc EXCEPT ![c] = step]
Fail(c)     == To(c, "failed") /\ UNCHANGED <<cache, result>>
Return(c, r) == result' = [result EXCEPT ![c] = r] /\ To(c, "done")

InCall(c) == pc[c] \notin {"idle", "done", "failed"}

\* Whoever changes the repository is not alone with it any more: the others are not.
Disturb(c) == alone' = [o \in Callers |-> IF o = c THEN alone[o] ELSE FALSE]

-----------------------------------------------------------------------------
(* A call comes in and looks into the cache, under its write lock. What it *)
(* finds there answers it, if it is the answer of such a call.             *)

\* A slip: any entry under the key is taken for the answer.
FindsAny(r) == IF r.key = NoKey THEN None ELSE cache[r.key]

Finds(r) ==
    IF r.key = NoKey \/ cache[r.key] = None THEN None
    ELSE IF (cache[r.key].op = "journal") = (r.op = "journal_append") THEN cache[r.key]
    ELSE None

Call(c) ==
    /\ ~ InCall(c) /\ started < MaxCalls
    /\ started' = started + 1
    /\ \E r \in Requests :
          /\ call' = [call EXCEPT ![c] = r]
          /\ IF Finds(r) # None
             THEN /\ result' = [result EXCEPT ![c] = Finds(r)]
                  /\ To(c, IF r.op = "with_tests" /\ ~ r.dry THEN "tests" ELSE "done")
             ELSE /\ result' = [result EXCEPT ![c] = None]
                  /\ To(c, IF r.op = "journal_append" THEN "append" ELSE "policy")
          /\ uses' = IF r.key = NoKey THEN uses ELSE [uses EXCEPT ![r.key] = @ \cup {Kind(r)}]
          /\ spoilt' = IF r.key # NoKey /\ \E o \in Callers : InCall(o) /\ call[o].key = r.key
                        THEN spoilt \cup {r.key} ELSE spoilt
    /\ began' = [began EXCEPT ![c] = tree]
    /\ alone' = [alone EXCEPT ![c] = (tree = index /\ index = head)]
    /\ UNCHANGED <<repo, cache, journal, journalled, successes, edits, place>>

Remember(c, r) == cache' = IF call[c].key = NoKey THEN cache ELSE [cache EXCEPT ![call[c].key] = r]

-----------------------------------------------------------------------------
(* patch_apply. *)

\* Path security and policy: refused, allowed, or allowed if it is confirmed,
\* which the level Ask is taken for.
Policy(c) ==
    /\ pc[c] = "policy"
    /\ \E verdict \in {"deny", "confirm", "allow"} :
          IF verdict = "allow" \/ (verdict = "confirm" /\ call[c].level = "Ask")
          THEN To(c, "apply") ELSE To(c, "failed")
    /\ UNCHANGED <<repo, cache, journal, journalled, call, result, ghost, started, edits, place>>

Fits(r) == r.kind = "modify" => tree[r.file] # Absent

Patched(r) ==
    CASE r.kind = "create" -> [patch |-> 1, other |-> 0]
      [] r.kind = "modify" -> [tree[r.file] EXCEPT !.patch = @ + 1]
      [] r.kind = "delete" -> Absent

Conflict(c) ==
    /\ pc[c] = "apply" /\ ~ Fits(call[c])
    /\ Fail(c)
    /\ UNCHANGED <<repo, journal, journalled, call, ghost, started, edits, place>>

\* A dry run ends here, and its result is remembered under the key.
DryRun(c) ==
    /\ pc[c] = "apply" /\ Fits(call[c]) /\ call[c].dry
    /\ LET r == [op |-> "patch", dry |-> TRUE, sha |-> FALSE, reverted |-> FALSE]
       IN  Return(c, r) /\ Remember(c, r)
    /\ UNCHANGED <<repo, journal, journalled, call, ghost, started, edits, place>>

Apply(c) ==
    /\ pc[c] = "apply" /\ Fits(call[c]) /\ ~ call[c].dry
    /\ tree' = [tree EXCEPT ![call[c].file] = Patched(call[c])]
    /\ successes' = IF call[c].key = NoKey THEN successes
                    ELSE [successes EXCEPT ![call[c].key] = @ + 1]
    /\ Disturb(c)
    /\ To(c, "commit")
    /\ UNCHANGED <<index, head, cache, journal, journalled, call, result, began, uses, spoilt, started, edits, place>>

\* pre_commit_validation (the tree changed under the patch) or starting git may fail.
CommitFails(c) ==
    /\ pc[c] = "commit"
    /\ Fail(c)
    /\ spoilt' = spoilt \cup ({call[c].key} \cap Keys)
    /\ UNCHANGED <<repo, journal, journalled, call, began, alone, uses, successes, started, edits, place>>

\* `git commit -m` without `git add`: what was staged before is committed, and
\* with nothing staged git refuses. `sha` says whether there was a commit.
Commit(c) ==
    /\ pc[c] = "commit"
    /\ LET commits == AutoCommit /\ index # head
       IN  /\ head' = IF commits THEN index ELSE head
           /\ result' = [result EXCEPT ![c] = [op |-> "patch", dry |-> FALSE, sha |-> commits, reverted |-> FALSE]]
           /\ IF commits THEN Disturb(c) ELSE UNCHANGED alone
    /\ To(c, "journal")
    /\ UNCHANGED <<tree, index, cache, journal, journalled, call, began, uses, spoilt, successes, started, edits, place>>

JournalPatch(c) ==
    /\ pc[c] = "journal"
    /\ journal' = journal + 1
    /\ To(c, "cache")
    /\ UNCHANGED <<repo, cache, journalled, call, result, ghost, started, edits, place>>

\* A slip: only a dry run is remembered.
RememberNothing(c) ==
    /\ pc[c] = "cache"
    /\ To(c, IF call[c].op = "with_tests" THEN "tests" ELSE "done")
    /\ UNCHANGED <<repo, cache, journal, journalled, call, result, ghost, started, edits, place>>

RememberPatch(c) ==
    /\ pc[c] = "cache"
    /\ Remember(c, result[c])
    /\ To(c, IF call[c].op = "with_tests" THEN "tests" ELSE "done")
    /\ UNCHANGED <<repo, journal, journalled, call, result, ghost, started, edits, place>>

-----------------------------------------------------------------------------
(* patch_apply_with_tests: test_run, and the rollback command of the       *)
(* result, which may be one out of the cache.                              *)

should_auto_revert(c) == AutoRevert /\ call[c].level \in {"Moderate", "Trusted", "Privileged"}

\* test_run fails as a call (sandbox, time limit), or the tests pass, or fail.
TestRun(c) ==
    /\ pc[c] = "tests"
    /\ \/ To(c, "failed") /\ UNCHANGED journal
       \/ To(c, "done") /\ journal' = journal + 1
       \/ To(c, IF should_auto_revert(c) THEN "revert" ELSE "done") /\ journal' = journal + 1
    /\ UNCHANGED <<repo, cache, journalled, call, result, ghost, started, edits, place>>

\* On a branch the hash is cut out of "[main abc1234] ..." with its bracket: git
\* does not know "abc1234]". The result of a dry run has no command, and outside
\* of a repository git refuses.
RevertFails(c) ==
    /\ pc[c] = "revert"
    /\ result[c].sha \/ result[c].dry \/ process_dir = "no repository"
    /\ Fail(c)
    /\ UNCHANGED <<repo, journal, journalled, call, ghost, started, edits, place>>

\* A slip: git reset --soft HEAD.
ResetSoft == UNCHANGED repo

\* git reset --hard HEAD: what git does not track stays.
ResetHard ==
    /\ tree' = [f \in Files |-> IF head[f] = Absent /\ index[f] = Absent THEN tree[f] ELSE head[f]]
    /\ index' = head
    /\ UNCHANGED head

\* The command runs in the directory of the process, whose repository it resets.
Rollback ==
    IF process_dir = "workspace" THEN ResetHard /\ UNCHANGED work_elsewhere
                                 ELSE UNCHANGED repo /\ work_elsewhere' = FALSE

perform_auto_revert(c) ==
    /\ pc[c] = "revert" /\ ~ result[c].sha /\ ~ result[c].dry /\ process_dir # "no repository"
    /\ Rollback
    /\ journal' = journal + 1
    /\ Return(c, [result[c] EXCEPT !.reverted = TRUE])
    /\ Disturb(c)
    /\ UNCHANGED <<cache, journalled, call, began, uses, spoilt, successes, started, edits, process_dir>>

-----------------------------------------------------------------------------
(* journal_append: the journal itself knows the keys it has seen. *)

\* A slip: Journal::append does not look the key up.
AppendAgain(c) ==
    /\ pc[c] = "append"
    /\ journal' = journal + 1
    /\ To(c, "remember") /\ result' = [result EXCEPT ![c] = [op |-> "journal", offset |-> journal]]
    /\ journalled' = IF call[c].key = NoKey THEN journalled ELSE [journalled EXCEPT ![call[c].key] = journal]
    /\ UNCHANGED <<repo, cache, call, ghost, started, edits, place>>

Append(c) ==
    /\ pc[c] = "append"
    /\ LET k == call[c].key
           known == k # NoKey /\ journalled[k] # None
           offset == IF known THEN journalled[k] ELSE journal
       IN  /\ journal' = IF known THEN journal ELSE journal + 1
           /\ journalled' = IF k = NoKey THEN journalled ELSE [journalled EXCEPT ![k] = offset]
           /\ result' = [result EXCEPT ![c] = [op |-> "journal", offset |-> offset]]
    /\ To(c, "remember")
    /\ UNCHANGED <<repo, cache, call, ghost, started, edits, place>>

RememberAppend(c) ==
    /\ pc[c] = "remember"
    /\ Remember(c, result[c])
    /\ To(c, "done")
    /\ UNCHANGED <<repo, journal, journalled, call, result, ghost, started, edits, place>>

-----------------------------------------------------------------------------
(* Entries live an hour. Other programs edit, stage and commit. A new      *)
(* process (every command of the command line is one) knows nothing.       *)

Expire ==
    \E k \in Keys :
        /\ cache[k] # None
        /\ cache' = [cache EXCEPT ![k] = None]
        /\ spoilt' = spoilt \cup {k}
        /\ UNCHANGED <<repo, journal, journalled, call, pc, result, began, alone, uses, successes, started, edits, place>>

Edit ==
    /\ edits < MaxEdits /\ edits' = edits + 1
    /\ \/ \E f \in Files :
             /\ tree[f] # Absent
             /\ tree' = [tree EXCEPT ![f].other = @ + 1]
             /\ UNCHANGED <<index, head>>
       \/ index # tree /\ index' = tree /\ UNCHANGED <<tree, head>>
       \/ head # index /\ head' = index /\ UNCHANGED <<tree, index>>
    /\ alone' = [c \in Callers |-> FALSE]
    /\ UNCHANGED <<cache, journal, journalled, call, pc, result, began, uses, spoilt, successes, started, place>>

Restart ==
    /\ \A c \in Callers : ~ InCall(c)
    /\ \E k \in Keys : cache[k] # None \/ journalled[k] # None
    /\ cache' = [k \in Keys |-> None] /\ journal' = 0 /\ journalled' = [k \in Keys |-> None]
    /\ pc' = [c \in Callers |-> "idle"] /\ result' = [c \in Callers |-> None]
    /\ spoilt' = Keys
    /\ process_dir' \in StartDirs
    /\ UNCHANGED <<repo, work_elsewhere, call, began, alone, uses, successes, started, edits>>

Next ==
    \/ \E c \in Callers :
          \/ Call(c) \/ Policy(c) \/ Conflict(c) \/ DryRun(c) \/ Apply(c)
          \/ CommitFails(c) \/ Commit(c) \/ JournalPatch(c) \/ RememberPatch(c)
          \/ TestRun(c) \/ RevertFails(c) \/ perform_auto_revert(c)
          \/ Append(c) \/ RememberAppend(c)
    \/ Expire \/ Edit \/ Restart

Spec == Init /\ [][Next]_vars

-----------------------------------------------------------------------------
(* Properties.                                                             *)

\* The state's shape.
TypeOK ==
    /\ tree \in Trees /\ index \in Trees /\ head \in Trees
    /\ \A k \in Keys : journalled[k] # None => journalled[k] < journal
    /\ \A c \in Callers :
          /\ pc[c] \in {"idle", "policy", "apply", "commit", "journal", "cache", "tests", "revert",
                       "append", "remember", "done", "failed"}
          /\ pc[c] # "idle" => call[c] \in Requests
          /\ pc[c] \in {"tests", "revert"} => call[c].op = "with_tests" /\ result[c].op = "patch"

\* What an idempotency key promises (mod.rs:681): real calls with one key, one
\* after the other, apply the patch once, and none of them is told of a success
\* that never was. Not so when the entry expired, when two calls met, when one
\* failed after it had applied the patch, or when a dry run had the key.
OncePerKey ==
    \A k \in Keys :
        /\ k \notin spoilt /\ uses[k] \subseteq {"real"} => successes[k] <= 1
        /\ "dry" \notin uses[k] =>
              \A c \in Callers : pc[c] = "done" /\ call[c].key = k /\ Kind(call[c]) = "real"
                                => successes[k] > 0

\* A file that was there is reported as reverted and the tree is not what it was.
Unreverted(c) ==
    /\ pc[c] = "done" /\ call[c].op = "with_tests" /\ result[c].reverted /\ alone[c]
    /\ began[c][call[c].file] # Absent
    /\ tree # began[c]

\* An automatic revert of a change to a tracked file, in a workspace that was
\* clean and that nobody else touched, by a process that runs in it, brings back
\* exactly what was there, when the result it reverts came out of the cache as
\* well (mod.rs:1057).
RevertRestores == process_dir = "workspace" => \A c \in Callers : ~ Unreverted(c)

\* The journal numbers what it is given under one key once (core/journal.rs:97),
\* whatever the cache forgot and whoever else asked in between.
JournalledOnce ==
    \A c, d \in Callers :
        /\ pc[c] = "done" /\ call[c].op = "journal_append" /\ call[c].key # NoKey
        /\ pc[d] = "done" /\ call[d].op = "journal_append" /\ call[d].key = call[c].key
        => result[c] = result[d]

\* What patch_apply_with_tests announces (mod.rs:1001, "automatically revert the
\* patch"): after an automatic revert the file of the patch is what it was.
RevertedIsUndone ==
    \A c \in Callers :
        pc[c] = "done" /\ call[c].op = "with_tests" /\ result[c].reverted /\ alone[c]
        => tree[call[c].file] = began[c][call[c].file]

\* The same for a file that was there, and with the other repository left alone,
\* wherever the process runs (perform_auto_revert sets no directory, mod.rs:2104).
RevertedAnywhere == work_elsewhere /\ \A c \in Callers : ~ Unreverted(c)
=============================================================================
