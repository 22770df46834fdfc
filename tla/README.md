# DevIt: verification of its core

DevIt lets AI assistants work on a repository through an MCP server and lets them
delegate tasks to one another through a daemon, `devitd`. This directory holds TLA+
models of that program, TLC configurations that check them and proofs that TLAPS
checks. Paths below are relative to the repository's root (`src/` in the map of
PROJECT.json); line numbers are those of the commit the models were written from.

    tlc -config MC_DevitDaemon.cfg MC_DevitDaemon       # one run
    tlapm DevitDaemonProofs.tla                         # one proof module

## 1. Inventory

| Component | State it keeps | Operations | What makes it correct |
|---|---|---|---|
| Daemon core (`devitd/src/main.rs`) | `State` behind one mutex: clients, leases, expired leases, one notification queue per ident, pending approvals, active and completed tasks | REGISTER, HEARTBEAT, POLL, DELEGATE, APPROVAL_DECISION, NOTIFY, STATUS_REQUEST; `cleanup_expired` every 10 s; subprocess workers; idle shutdown, signals | the maps stay in step; nothing unapproved runs; a request is decided once; an end is announced and journaled; leases end |
| Daemon journal (`devitd/src/journal.rs`) | append-only file, `seq`, `last_hash` | open, append, verify | what was acknowledged stays; what one session wrote verifies |
| Process registry (`crates/common/src/process_registry.rs`, `exec.rs`, `shell.rs`, `kill.rs`, `ps.rs`, `devitd/src/reaper.rs`) | one JSON file, its lock and temporary file, copies in memory | background start, kill, list, reap, save | the file is always whole; a signal hits the recorded process; dead processes are noticed |
| Orchestration backend (`crates/orchestration/src/daemon.rs`, `mcp-tools/src/orchestration.rs`) | cache of active and completed tasks | delegate, notify, status, task result | the cache shows what was and comes to agree with the daemon |
| Worker bridge (`mcp-tools/src/worker.rs`) | one `current_event` slot | heartbeat loop, polls, report | an assignment reaches a poll; a finished one is not offered again |
| Patch engine (`crates/cli/src/core/atomic_patcher.rs`, `patch_parser.rs`, `mcp-tools/src/atomic_patcher.rs`) | files of the work tree, temporary files | parse, apply hunks, write by temporary file and rename | the result is what the diff says; no half-written file; a dry run predicts |
| Core engine (`crates/cli/src/core/mod.rs`, `journal.rs`) | idempotency cache, git work tree, in-memory journal | `patch_apply`, `patch_apply_with_tests` with its revert, `journal_append` | one effect per idempotency key; a revert restores |
| Snapshots (`crates/cli/src/core/snapshot.rs`) | one file per snapshot in `.devit/snapshots`, `max_snapshots` | create and prune, restore, delete, validate | pruning takes the oldest; a restore brings back what was captured |
| Approval of patches (`crates/cli/src/core/policy.rs`, `mod.rs`) | the default level | evaluate a patch at a level | what a refusal asks for is enough; the levels nest |
| Local backend (`crates/orchestration/src/local.rs`) | active and completed tasks, in process | delegate, notify, cleanup, status | an outcome is found for two hours |
| ACK and hook handshake (`main.rs`) | marker, socket and writer by task | start a hook, ack | the hook that is acknowledged is released |
| Screenshot limiter (`main.rs`) | a queue of instants | request | the limit holds in every window |
| Worker executor (`devitd/src/worker_executor.rs`) | the worker's process and pipes | run a CLI worker, or initialize, list and call an MCP worker | the verdict has its cause in what the worker wrote |
| Language client (`crates/studio/src/lsp`) | registry of clients behind a lock, pending requests by id | start, stop, ask; read answers | an answer reaches who asked, and nobody else |
| Structured edits (`crates/studio/src/ipc/structured_edit.rs`, `crates/context-engine/src/diff`) | sessions: hunks with their status, the file as it was | request, accept or reject, apply, cancel | accepted hunks land on the lines they were shown with |
| Daemon policy (`devitd/src/policy.rs`) | none | evaluate | no stricter rule is skipped |
| MCP server (`crates/mcp-server`) | tool registry, SSE channel | JSON-RPC over stdio and HTTP | calls reach their tool |
| The rest | none that outlives a call, or in another program | file, git, web and window tools; memory, forum; the rest of the Studio; TUI; model backends; RAG; scripts | out of scope, see section 8 |

How they interact. Delegators, workers and approvers talk to the daemon only, one
request per connection. The daemon pushes nothing: it puts notifications into queues,
and HEARTBEAT and POLL fetch them. `DaemonBackend` caches what it fetched for the tools of the
MCP server. The MCP server and the daemon also share the process registry file, where
the only coordination is an `flock` around each save.

What is hard here: handlers that release the mutex in the middle (approval decisions,
the liveness check of a polling worker); reports that race the cleanup; replies that are
lost or come after the client has given up; two sources of truth that are merged in the
backend (a snapshot and older notifications); whole-file saves of stale copies; pid reuse;
restarts, after which the daemon has forgotten everything and the journal starts over;
answers that come late, twice or to a program that has been replaced. PROJECT.json lists
each of these hazards at its line with the properties that cover it.

## 2. Plan

Order, most important first; all of it exists.

1. `DevitJournal`, with `DevitJournalProofs`.
2. `DevitDaemon`, with `DevitDaemonProofs`; `DevitTasks` is what a client is promised,
   and `DevitDaemonTasks` the refinement.
3. `DevitProcesses`, with `DevitProcessesProofs`.
4. `DevitOrchestrator`, on top of `DevitTasks`; `DevitOrchestratorHistory` adds history;
   `DevitOrchestratorProofs`.
5. `DevitPatch`, the patch engine as functions of data, and `DevitPatcher`, its steps on a
   shared file system, with `DevitPatcherProofs`.
6. `DevitEngine`, `patch_apply` around it, with `DevitEngineProofs`.
7. The parts that share no state with the others, each a module of its own:
   `DevitSnapshots`, `DevitWorkerBridge`, `DevitAckHandshake`, `DevitScreenshots`,
   `DevitLocal`, `DevitGate`, with `DevitServicesProofs` about all but the snapshots.
8. The programs at the edge: `DevitExecutor`, `DevitLsp` and `DevitStudioEdit`, with
   `DevitEdgeProofs` about them and about `DevitSnapshots`.

`MC_DevitServices` runs the journal and the modules of 7 and 8 in one model, one at a time: `part` is chosen
at the start, and the others stay at one of their initial states.

What could follow: two requests that share a temporary name (section 4 says what goes wrong), as a
property with the text a file then gets; and the rest of the Studio's commands.

## 3. The models and the code

**DevitJournal.** A file is a sequence of lines; a line is whole, torn (no newline yet)
or garbled (two writes glued together). `append` has its three outcomes: written and
synced; `write_all` failed, with `seq` already incremented; `sync_all` failed. `Open` is
`Journal::open`, which starts a chain of its own. `Restart` may lose lines that were
never synced. HMAC is a collision-free function of its input.

**DevitDaemon.** One variable per field of `State`; one action per critical section of a
handler. Approval decisions take three (`handle_approval_decision`, `Granted` or `Denied`,
`Proceed`), delegation to a polling worker two (`DelegatePolling`, `Proceed`).
`cleanup_expired` holds the lock for the whole sweep, so the sweep is several actions
under `sweeping`. Wall-clock tests are states that time moves (`LeaseDeadline`,
`HeartbeatLapse`). A policy verdict is an input. `msg[t]` is the DELEGATE message a lease
or an approval request copies. Message
fields no guard looks at, logging and HMAC are left out. `received` and `journal`
record what left the process.

**DevitTasks, DevitDaemonTasks.** The task life a delegating client sees: held for approval, accepted, refused
or forgotten; reported on; forgotten at a restart; with a queue that grows by what
happens and is taken as a whole. `DevitDaemonTasks` maps the daemon's variables to it for one
delegator, `Me`.

**DevitProcesses.** A save is three steps (lock and truncate, write, rename), taken by
any of the writers: the two tools that start processes, `devit_kill` and the reaper. Each has its own
copy of the registry. The kernel's process table, `waitpid` and pid reuse are external.

**DevitOrchestrator.** The cache of `DaemonBackend` and the tools on top of it. A
refresh is a snapshot, a heartbeat, then polls until one brings nothing; request, reply
and application are separate steps, and each request may fail or lose its answer. The
daemon's side is `DevitTasks` itself. `ReadAnswers` allows a non-terminal task to be the
answer because the list of notifications is abstracted.

**DevitPatch, DevitPatcher.** `DevitPatch` is data: parsed hunks, `build_new_content`, and what
`git diff` prints for two texts, which is the input the engine is meant for. An item of a hunk is a line, its first
character, and whether the newline marker follows it; a `Changes` is a path, two texts, the lines that stay and the
context shown, and `Printed` is the diff of some changes. Every request is such a diff (`DiffsAssumption`), of any
files and not only of those on the disk; `Made` says that they are those on the disk and that the engine can make the diff exactly.
`DevitPatcher` runs it on a disk that several processes share, one action per system call
they can see of each other (open and truncate the temporary file, write, rename, delete), with
an error or a crash possible at each. The MCP tool's look at the files comes before (`Check`).

**DevitEngine.** `patch_apply` from the read of the idempotency cache to its last write, in steps at
each `await`; commit, tests, `perform_auto_revert`; `journal_append`, which shares the cache.
The patch and the commit are made in the workspace, the rollback in the directory of the process (`process_dir`), which
sets no other (mod.rs:2104): `Rollback` resets the workspace's repository if that is where the process runs, and otherwise takes
what was not committed in the other one (`work_elsewhere`), or fails where there is none. The two differ when the configuration names a
`sandbox_root` or a `default_project` (config.rs:1213, mod.rs:261).
The work tree, the index and HEAD are maps from files to contents, since `git reset
--hard` is about their difference. `AtomicPatcher` is one step here.

**DevitSnapshots.** Each process has one manager that does one operation at a time; capture,
restore and comparison go path by path, pruning deletes one by one by a list made before. A file is
written back in one step, although `fs::write` truncates it first. Ids
are made of second and name, so two snapshots of a second share one.

**DevitWorkerBridge.** The one slot `current_event`, which the heartbeat loop and polls fill and
a terminal report clears. A fetch takes the daemon's whole queue and keeps its first
message. `eager` lets the daemon assign before the last report.

**DevitAckHandshake.** The maps of markers, sockets and writers at one task. An ACK takes them under
one lock after another; the accept task stores the writer after the hook has connected.
The hook is modelled from scripts/devit_notify_example.sh: its `timeout` may end the client of the socket at any moment, with the byte
of the ACK unread as well (`cut`), and it goes on to wait for the file.

**DevitScreenshots, DevitLocal, DevitGate.** The sliding window of `prepare_job`; the two maps of
`LocalBackend` with their cleanup; `evaluate_changes` with what `patch_apply` makes of its
decision, where a change is the set of the traits the rules look at.

**DevitExecutor.** One task of one worker. A worker writes any lines at any time: responses with the id
of a call made so far, lines of other ids, lines that are not JSON. `waited` starts over with
every line, as the timeout does. The output of a CLI worker may be one JSON value as a whole, whatever its lines are by themselves.

**DevitLsp.** One language: the registry lock as `holder`, one client, server and reader per start. The
request is registered, written and waited for in separate steps, so an answer may come in between.

**DevitStudioEdit.** A text is its lines and whether the last one ends in a newline.
`HunkOf` is what parsing and filling in make of an edit; `ApplyHunks` goes from the last line
to the first, always from the content of the request.

Definitions called "slip" in the modules are plausible mistakes next to the definition they are a
variant of. No specification uses them: they show that a property would notice.

## 4. What is checked

| Run | Properties | What it shows |
|---|---|---|
| `daemon` | ActiveIsLeased, CompletedBounded, AuditComplete, FreshResultKept, ImplementsTasks | two tasks and one place for results: every active task still has its timeout to come, pruning keeps the newest, the journal is complete, and the client's view is DevitTasks |
| `daemon_life` | TypeOK, LeasedIsActive, NoUnapprovedWork, DecidedOnce, NoSilentEnd, ImplementsTasks, LeaseEnds | one task with a polling and a configured worker, progress and cancel reports, idle shutdown, signals and restarts; leases end |
| `processes` | FileWhole, SignalHitsRecorded, GoneIsNoticed | saves of four writers interleaved, restarts of either process at any step, pid reuse; dead processes are noticed |
| `orchestrator` | NoInventedOutcome, TwoRefreshesSuffice | the cache never shows a status the task did not have, and two whole refreshes after the last change it is exact |
| `orchestrator_http` | SettledIsSeen | with calls side by side and lost replies, a task that stays ended comes to be shown as ended |
| `patch` | PrefixApplied, DryRunPredicts, RoundTrip | every diff of two small texts turns the one into the other; with errors and crashes at every step a patch is applied file by file in order, each file whole or not at all; a dry run tells what the real run does |
| `engine` | TypeOK, OncePerKey, RevertRestores, JournalledOnce | two callers, one key: no second effect while the entry is there; a revert of an existing file restores it; a key is journaled once; the process runs in the workspace or in another repository, and only in the first case is the revert exact |
| `services` | JournalTypeOK, SessionVerifies, AckedNeverLost (journal); KeptWhileNew, StoreBounded, RestoreAndCompare (snapshots); NoFinishedWork, OneTaskArrives (bridge); AckReaches; RateBound; OutcomeKept (local backend); LevelsAgree (approval); VerdictIsDue (executor); NoAnswerLost (language client); EditsLand (structured edits) | the parts that share no state, each by itself, in all interleavings of their actors; with failing writes, failing syncs and crashes, a session of the journal without failures verifies and acknowledged lines stay |

Runs that are expected to fail, each with the sentence it refutes (PROJECT.json,
"findings"):

| Run | Property | What the code does |
|---|---|---|
| `daemon_progress` | LeaseBoundsTask | a `progress` report of a polling worker, or of somebody for it, ends the lease, and nothing ends the task any more |
| `patch_git` | NeverAnotherResult | a section without hunks swallows the next one, and `deleted file mode` of the first removes the second file |
| `engine_revert` | RevertedIsUndone | the revert without a commit is `git reset --hard HEAD`, which leaves a file the patch created |
| `engine_elsewhere` | RevertedAnywhere | the rollback resets the repository the process runs in: the patch stays in the workspace, is reported as reverted, and the other repository's uncommitted work is lost |

Other disagreements between code and documentation, and behaviour worth knowing, seen
while modelling. The models do what the code does, and the properties are stated so as to allow it.

*Daemon, journal and processes*

- After a restart `Journal::open` starts at `seq` 0 with no previous hash, so the whole file no longer
  verifies although journal.rs:6 promises a verifiable trail (a TODO at line 49 admits it).
  `SessionVerifies` therefore speaks of what one session wrote.
- An approved task for a configured worker is queued for polling, not run, contrary to
  docs/ORCHESTRATION.md:125; a task for a polling worker that is absent is dropped
  without an answer (ORCHESTRATION.md:126).
- The lease lasts 900 s whatever `timeout` says, and a request for approval never expires.
- A task that is cancelled while it waits for approval is executed when it is granted.
- docs/MCP_TOOLS.md:546 says that `progress` does not alter the task's state; it moves a
  completed task back to active.
- `devit_kill` records `Exited` whatever became of the process (`mcp-tools/src/ps.rs:35`
  trusts it).
- A missing client version is answered with `E_VERSION_MISSING`, which the documentation
  does not list.
- A poll or heartbeat empties the queue and returns its first notification only
  (main.rs:1729, 2594), although main.rs:1728 and devitd-client/src/lib.rs:388 speak of
  "any pending notifications".
- Work accepted in the 200 ms between the idle check and the exit is lost (main.rs:1350, 1410).
- The save of one tool drops records that the other tool wrote after the first one's load
  (help_system.rs:846, exec.rs:517).
- The reaper is not the parent of the processes it looks at, so a process past its lifetime is not
  killed (reaper.rs:74, 80; exec.rs:534).
- One refresh may show an ended task as active again: an older `progress` note is applied
  after the snapshot (orchestration.rs:505, daemon.rs:504).
- A second ACK or hook of a task takes over marker, socket and writer of the first, and the
  file of a late ACK releases the next hook.
- docs/MCP_TOOLS.md:317 says that an ACK makes the marker file, "ce qui débloque son attente"; to a connected hook it writes
  a byte instead and forgets the marker (main.rs:2184-2214). If the hook's own timeout kills the client with that byte
  unread (scripts/devit_notify_example.sh:41), the hook goes on to wait for a file that nobody makes. AckReaches
  names this as the one way in which an ACK is lost.
- `per_seconds = 0` switches the screenshot limit off; the message says a window of 1.
- `devit_delegate` reports success when the daemon answered an error or nothing. A task
  that waits for approval is not in the snapshot, so `devit_task_result` says "not found".

*Worker executor, bridge and local backend*

- docs/CONFIGURATION.md:173 calls `timeout_secs` a maximum; for an MCP worker it is the time for one
  line, and every line starts it over (worker_executor.rs:1936). A write to the worker has no timeout.
- A CLI worker that times out keeps running (worker_executor.rs:834 gives up the thread, not the
  program), and so does an MCP worker whose `tools/call` failed (1007).
- One line that is not JSON fails the task (1951).
- A second assignment, or the echo of a report without a lease, takes the one slot of the bridge.
- In `LocalBackend` nobody calls `cleanup_expired` and unreported tasks block `max_concurrent` for good;
  `status` with filter Failed lists failed tasks as active.

*Patch engine, core engine and snapshots*

- README.md:72 says "atomic application or rollback": when a file fails, the ones before it stay patched.
- Not as git has it: an insertion printed with `-U0` lands one line early; a result of
  one blank line becomes the empty file; an old text without final newline stays so when the diff adds one;
  an empty file that is added to loses the final newline; the diff that creates an empty file fails; CRLF becomes LF;
  a context line whose blank was stripped ends its hunk silently; renames with content fail.
- Two requests whose files differ in the extension only share a temporary file, and one may get the
  other's text.
- The commit's id is cut as `abc1234]`, so `git revert` of it always fails.
- An error after the patch is applied is not cached, so the retry applies again; the entry is written before
  tests and revert, so a replay reports the success of a reverted patch and tests and resets once more, with the
  uncommitted work of others in it (a first call's reset takes that too); the entry of a
  dry run answers the real call; patches and journal entries share their keys.
- Snapshots of the same second and name overwrite each other; `snapshot_validate` with no paths is
  never valid, so `patch_preview` always calls its base snapshot stale; a list fails on one
  unreadable file; a restore goes file by file although its comment says "atomic", and brings back pruned
  snapshots.
- Asking for Privileged under a lower default drops the restriction to `allowed_paths`; the size of
  a binary is always 0, so its limit never applies; a confirmation at Ask becomes a warning.

*Studio*

- `LspClient` resolves no pending request when its reader ends (client.rs:166), so the command
  waits for ever with the write lock of the registry, and all language commands behind it. A request of
  the server whose id is pending passes for the answer. The server's stderr is piped and never read.
- `insert_after` replaces the line it names unless that line is blank (the prompt, structured_edit.rs:115,
  says "Insert content after the specified line"); a `replace` of one blank line inserts; two inserts at one line come out
  reversed; the final newline is dropped; an empty file cannot be replaced; a hunk that ends before it starts panics.
- A second apply starts from the file of the request again: it undoes hunks that are still shown as "Applied to
  file" (diff/mod.rs:45), and with nothing accepted it writes the old content over what others have written.

## 5. Bounds

- `daemon`: one delegator who is also the approver, one polling worker, two tasks,
  `MAX_COMPLETED_TASKS = 1`. Pruning and its order need two results and one place; every
  race of handlers in the code is about one task id.
- `daemon_life`: one task, so that restarts, both kinds of worker and progress
  reports can be combined; `Reports` holds one final and one non-final status (the statuses of each kind
  are treated alike).
- `QueueBound` limits only what clients add by NOTIFY (and, in DevitOrchestrator, what
  the daemon adds for itself); the daemon's own notifications are always queued. A second entry
  is enough to see order and loss.
- `MaxJournal` 3 lets the journal's file hold lines of two sessions and a torn line between them.
- `MaxTicks` 2 gives a pid its second process.
- `DevitOrchestrator`: the daemon may act at any time and without limit, the only bounds are two tasks with one
  caller, or one task with two callers. `quiet` counts to 2 since that is what the property compares with.
- `patch`: all texts of up to two lines over three line contents, the blank line among them, with every edit
  script between them and context 0 and 1; texts of five and six lines with several hunks; patches of two files;
  two requests that share a file or a temporary name. Hunks interact through line offsets,
  two of them at a time.
- `engine`: two callers, three calls, one key, one file, one change from outside: a call, its
  retry, and one call or change in between. The process is started in the workspace or in another repository, and again at
  each restart. `engine_elsewhere` also starts it outside of any repository, and needs one kind of
  patch only.
- `services`: two managers and two paths, three snapshots, a limit of 1 or 2, and two seconds, which is one
  snapshot to prune while another is made; two tasks, two polls and one lost answer of the bridge; two hooks, two
  ACK handlers and three ACKs; rates 0 to 2 over a clock of 6; two local tasks with `max_concurrent` 1; patches of up to
  three changes; a worker of four lines, one for each call and one astray, and a timeout of one tick; two
  starts, requests and messages of a language server; files of up to three lines with up to two hunks, applied twice.
- Symmetry is used in runs without liveness properties only, over interchangeable tasks, callers, managers, paths
  and polls.
- Deadlock is checked except in `processes`, `patch`, `engine` and `services`, whose bounds make the model stop; a patch
  also comes to its end, and a language command may wait for ever.

The models take one MCP server per workspace, and one call at a time of a tool that starts
processes.

## 6. Fairness

- Daemon: deadlines pass, `cleanup_expired` is run by a 10 s timer and runs to its end,
  and a handler that waits for the tokio mutex gets it. The subprocess of a configured worker comes to its end with a final
  status: the executor waits for it no longer than the smaller of the worker's and the task's timeout
  (worker_executor.rs:723, 834, 1936) and then the daemon reports (main.rs:1888). Nothing is assumed of clients, polling
  workers or approvers. `LeaseEnds` accepts the exit of the process.
- Processes: the reaper wakes every second and completes its pass; a writer that holds
  the lock goes on (weak fairness); the reaper gets the `flock` when it is free again and again (strong
  fairness); from some time on `devitd` stays up.
- Orchestrator: one caller (`Asker`) asks again and again, not every snapshot it asks for
  is lost and not every poll finds a new note. Nothing is assumed of the other
  callers or of the daemon. The conclusion is only about a task whose state at the daemon has settled.

## 7. What is proved

The theorems hold for every value of the constants under the named assumptions, which say that the
names of different things are different where the code keeps them apart and that
numbers are natural numbers: `JournalAssumption`, `DaemonAssumption`, `ProcessesAssumption`, `LettersAssumption`,
`PathsAssumption` (the shape of the patches asked for), `DiffsAssumption` (a patch is what git prints for some changes), `EngineAssumption`, `ScreenshotAssumption`, `LocalAssumption`,
`BridgeAssumption`, `GateAssumption`, `ExecutorAssumption`, `LspAssumption`, `MeAssumption`, `OrchestratorAssumption`,
`AckAssumption`, `SnapshotAssumption`, `PathsAreNotIds` (a work file is not a snapshot file), `EditAssumption`. Two
theorems add a hypothesis of their own, named with them below.

- `DevitJournalProofs`: TypeCorrect, SessionsVerify, AckedLinesStay. `SessionVerifies` is
  not inductive: the next line verifies only if `seq` and `last_hash` agree with the end
  of the file. `Session` says so, and `Acked` says that an acknowledged line was synced
  and is not torn, so neither a crash nor a glued write can touch it.
- `DevitDaemonProofs`: TypeCorrect, MapsInStep, OnlyAuthorizedWork, DecidedAtMostOnce.
  The invariant follows a task through the handlers: `Fresh` before its DELEGATE, `Open`
  while undecided, `Taken` (the request is removed before a handler decides), `Admitted`
  between the two critical sections, `Tracked` (handed out implies journaled implies
  authorized). `Tracked` goes through the journal because a restart forgets all else,
  and workers may hold tasks from before it. Types need it too: the target of
  a NOTIFY is read from the message of a leased task.
  ActiveHasTimeout, StoryIsTold and EndsAreTold rest on `StepKinds`: for the maps of tasks
  every handler and sweep is a quiet step, a refusal, a task taken on or a lease that ends, so
  each is proved over four kinds of step and not over every action. ResultsBounded and
  FreshResultStays need the order of tasks_completed: `CompletedInv` says that `older` is a linear
  order of the results, so that there is one oldest result (`OldestExists`), pruning removes exactly
  it, and the newest is another one. DaemonImplementsTasks is the refinement, one lemma per step of
  `DevitTasks`; it uses the same invariants, because a result dropped by `prune_completed` is a step
  of the abstract life only if it is dropped for another one.
- `DevitOrchestratorProofs`: NothingInvented, for any number of callers. `HeldInv` says of everything on its
  way to the cache (notes in the queue, snapshots and notes in a caller's hand, a report to be recorded) that the
  daemon had it. OneCallerSettles has a hypothesis, one caller, which is what stdio gives: `RefreshInv` says that
  the first whole refresh leaves an empty queue and that the second one's snapshot is then current until the cache has it. With
  several callers TwoRefreshesSuffice is not claimed: a second one may apply a snapshot of long ago.
- `DevitProcessesProofs`: RegistryFileWhole, KillHitsRecorded. `LockInv` serializes the
  writers of the temporary file. For the kill, `RecordsInv` says that a record whose start time matches
  a live process names a child of the server, and a child of the server cannot be reaped while
  `devit_kill`, which runs in the server, is between validation and signal.

- `DevitPatcherProofs`: TypeCorrect, AppliedInOrder, DryRunTells. The invariant says of
  each process what it has read and still has to write (`Mine`), which temporary file is its own
  (`Owns`), and that the files before the one it is at are as its patch wants them, those after
  it as they were (`Passed`).
  DiffsAreApplied is RoundTrip for texts of any length, every edit script and any context. Its argument is about data:
  an edit script has the lines of the one text on its old side and those of the other on its new side (`ScriptSides`, upwards
  over the lines of the old text, with `Reach` telling how far the new one has come); the hunks, applied from the last one
  down, each find their old lines where the header says, because all that moved is behind them (`HunksLand`, downwards over the
  items of the script: after the hunks from item n on, the file is old up to n and new from there); the last hunk
  carries the newline marker exactly if the new text needs it (`EndOfFile`); joined, the lines are the new text (`RenderIs`); and
  the parser makes one file patch of each section that has hunks (`OneForEach`). `InvRoundTrip` puts this together with the
  invariant of the steps.
- `DevitEngineProofs`: TypeCorrect, KeyAppliesOnce, RevertIsExact, AppendsOnce. Three
  strengthenings on top of `EngineInv`: `JournalInv` ties an entry of the cache and
  a number in a caller's hand to the line the journal has under the key; `KeyInv` counts, for a key used by real patches only, the
  successes against the entry or the one call on its way to it; `RevertInv` says that a caller who is alone with the repository
  finds it as it was but for the file of the patch. RevertIsExact speaks of a process that runs in the repository of its workspace,
  for any set of directories it may be started in; without that it is false (`engine_elsewhere`).
- `DevitServicesProofs`: LimitHolds (the queue of the limiter is the end of the sequence of accepted jobs, and
  what was popped is older than the window), OutcomeStays, AskIsEnough (whatever a refusal says, a patch that only lacks
  confirmation is answered at Ask: the first half of LevelsAgree), FinishedIsNotOffered and AssignmentArrives (at most one copy of
  an assignment is under way, in the queue, in a hand or in the slot).
  LevelsNest is LevelsAgree for every patch; it has a hypothesis on the two limits of the moderate level, which a
  configuration sets: they admit a simple patch (2 files, 40 lines; the defaults are 10 and 400). Below that a patch
  that Ask lets pass in silence may need confirmation at Moderate.
  AcknowledgementArrives counts (`Tokens`): released hooks, the byte, the marker file and ACKs under way are together no
  more than the ACKs that came; and while hooks of the task have not overlapped, the hook that is owed a release is on its way
  to it at every step of the handshake (`Owing`), or its time on the socket ended with the byte unread, which is the one way
  an ACK is lost.
- `DevitEdgeProofs`: VerdictHasCause. The calls before the one under way were answered, by
  lines that were read; a failure happens only where its cause is at hand.
  AnswersArrive. Ids a server was asked, answers, or has answered are below the next id of its client
  (`Given`), so a new request is answered by nothing that came before; its entry is there until its reply is (`Expecting`).
  RestoredOrTold, NewOnesAreKept and NoMoreThanTheLimit, of the snapshots. All rest on `StoreTrue`: what an id holds, now or
  in an older snapshot that a restore may bring back, is a stored snapshot of that id; hence two ids never hold the same one, and
  what pruning counts are different snapshots. For KeptWhileNew each entry of a manager's list is an id whose
  snapshot was too old when listed (`Listed`), and it stays so whatever others store (`AgeGrows`), though
  another snapshot may have taken the id since. For StoreBounded the list leaves the new snapshot and at most the limit
  (`FewAreNewest`), until somebody disturbs the manager.
  AppliedFromTheRequest: what a session wrote is the content of the request with the hunks of that apply, no hunk of an earlier
  one. EditsLandAlways adds where each hunk lands: if the accepted hunks are apart and say what they mean, applying
  them from the last line to the first gives the file in which all of them are made at once. The proof goes over the
  number of hunks and over the lines, and uses of the answers only what `EditAssumption` says (one whose range ends before it starts
  is left out, because applying it panics).

Induction over lines, items and hunks is done without an induction scheme: a set of numbers that is not empty has a least one
(`LeastNumber`, from the well-founded inclusion of finite sets), so the set of the numbers a statement fails for is empty. What is recursive in the
code is a recursive function on numbers or a flattening of pieces, and a lemma says once that it goes step by step
(`FlattenSteps`, `HunksSteps`).

Checked by TLC only: all liveness (`LeaseEnds`, `GoneIsNoticed`, `SettledIsSeen`), which is out of the
prover's reach. Every invariant and every step property of the passing runs is proved.

## 8. What is not modelled

The map covers under a tenth of the implementation's lines, and a much larger share of those that keep state between
calls or run beside one another; most of the rest is argument parsing, text layout, one external call each, and front
ends, where a model would only repeat the code. By part:

- `devitd/src/policy.rs` is a pure table whose verdict is an input of `DevitDaemon`; so is what a worker
  program answers, except in `DevitExecutor`.
- Of the worker executor: settings, choice of a model, truncation and statistics of output. Of the language client:
  notifications (opened documents, diagnostics). Of the core engine: previews, file operations,
  help and formats, workspace changes, `evaluate_sandbox`.
- The compact encoding of messages (a renaming of fields), sockets, pipes and signatures, the Windows variants.
- The MCP server's dispatch, which is what `DevitOrchestrator` assumes: one call at a time over stdio, several over HTTP.
- Tools that make one external call and keep no state (files, git, web, windows, media); memory, forum and AIRCP,
  whose state is in SQLite or another service.
- The rest of the Studio (settings, terminals, chat), the TUI and the editor extension; model backends, RAG
  and the index of the context engine, whose results the code does not determine; build scripts.
