----------------------------- MODULE DevitExecutor -----------------------------
(***************************************************************************)
(* WorkerExecutor (devitd/src/worker_executor.rs): one task run by a       *)
(* configured worker. An MCP worker is a subprocess that is asked          *)
(* initialize, tools/list and tools/call over its stdin, one after the     *)
(* other, and answers in lines; a CLI worker runs to its end, and its      *)
(* output is parsed. The worker may write what it likes when it likes,     *)
(* answer twice, keep silent, or exit.                                     *)
(***************************************************************************)
EXTENDS Naturals, Sequences

CONSTANTS Patience,     \* effective_timeout, in ticks
          MaxLines      \* bound: the lines a worker writes

ASSUME ExecutorAssumption == Patience \in Nat \ {0} /\ MaxLines \in Nat

\* A line of an MCP worker carries the id of one of the three calls, or another
\* or none (0: notifications and requests of its own); "text" is not JSON-RPC.
\* A line of a CLI worker is JSON or it is not.
RpcLines == [id : 1..3, body : {"result", "null", "error"}]
            \cup {[id |-> 0, body |-> "null"], [id |-> 0, body |-> "text"]}
CliLines == [id : {0}, body : {"result", "text"}]
Nothing  == [id |-> 0, body |-> "nothing"]

VARIABLES worker_type, parse_mode,
          exec,         \* what the executor does
          rpc,          \* the call it is at
          asked,        \* the last call the worker has read
          wrote, read,  \* the lines of the worker, and how many the executor has read
          waited,       \* ticks since the executor began to read, or to run
          subprocess,
          verdict,
          used          \* the line the outcome was made of

execVars == <<worker_type, parse_mode, exec, rpc, asked, wrote, read, waited, subprocess, verdict, used>>

ExecInit ==
    /\ worker_type \in {"mcp", "cli"} /\ parse_mode \in {"json", "text"}
    /\ exec = "spawn" /\ rpc = 1 /\ asked = 0 /\ wrote = <<>> /\ read = 0 /\ waited = 0
    /\ subprocess = "none" /\ verdict = "none" /\ used = Nothing

\* An error in McpSession::new kills the worker, one of call_delegate drops it
\* with its pipes, and one of a CLI worker leaves it running.
Stopped == IF subprocess = "running" /\ worker_type = "mcp" /\ rpc < 3 THEN "killed" ELSE subprocess

FailTask ==
    /\ verdict' = "failed" /\ exec' = "done" /\ subprocess' = Stopped
    /\ UNCHANGED <<worker_type, parse_mode, rpc, asked, wrote, waited, used>>

\* A model that is not allowed, a directory outside the workspace, no such program.
Spawn ==
    /\ exec = "spawn"
    /\ \/ FailTask /\ UNCHANGED read
       \/ /\ subprocess' = "running" /\ exec' = IF worker_type = "mcp" THEN "write" ELSE "run"
          /\ UNCHANGED <<worker_type, parse_mode, rpc, asked, wrote, read, waited, verdict, used>>

-----------------------------------------------------------------------------
(* The worker.                                                             *)

\* A request is in its stdin from WriteCall to here.
WorkerReads ==
    /\ subprocess = "running" /\ exec = "read" /\ asked < rpc
    /\ asked' = rpc
    /\ UNCHANGED <<worker_type, parse_mode, exec, rpc, wrote, read, waited, subprocess, verdict, used>>

WorkerWrites ==
    /\ subprocess = "running" /\ exec # "done" /\ Len(wrote) < MaxLines
    /\ \E l \in IF worker_type = "mcp" THEN RpcLines ELSE CliLines :
          l.id <= asked /\ wrote' = Append(wrote, l)
    /\ UNCHANGED <<worker_type, parse_mode, exec, rpc, asked, read, waited, subprocess, verdict, used>>

WorkerExits ==
    /\ subprocess = "running"
    /\ subprocess' \in {"succeeded", "failed"}
    /\ UNCHANGED <<worker_type, parse_mode, exec, rpc, asked, wrote, read, waited, verdict, used>>

PassTick ==
    /\ exec \in {"read", "run"} /\ waited < Patience
    /\ waited' = waited + 1
    /\ UNCHANGED <<worker_type, parse_mode, exec, rpc, asked, wrote, read, subprocess, verdict, used>>

-----------------------------------------------------------------------------
(* An MCP worker. *)

WriteCall ==
    /\ exec = "write"
    /\ IF subprocess = "running"
       THEN /\ exec' = "read" /\ waited' = 0
            /\ UNCHANGED <<worker_type, parse_mode, rpc, asked, wrote, subprocess, verdict, used>>
       ELSE FailTask
    /\ UNCHANGED read

\* A slip: the next line is the answer.
NextLine(l) == l.body # "text"

Mine(l) == l.id = rpc

\* A response to initialize or tools/list that is no error: the next call.
Accepted ==
    /\ rpc' = rpc + 1 /\ exec' = "write"
    /\ UNCHANGED <<worker_type, parse_mode, asked, wrote, waited, subprocess, verdict, used>>

\* The response to tools/call is the outcome, and the worker is killed.
Answered(l) ==
    /\ exec' = "done" /\ used' = l
    /\ verdict' = IF l.body = "result" THEN "completed" ELSE "failed"
    /\ subprocess' = IF subprocess = "running" THEN "killed" ELSE subprocess
    /\ UNCHANGED <<worker_type, parse_mode, rpc, asked, wrote, waited>>

\* read_response_matching, and what is made of a response. Each line gives the
\* worker its time again.
ReadLine ==
    /\ exec = "read" /\ read < Len(wrote)
    /\ read' = read + 1
    /\ LET l == wrote[read + 1]
       IN  IF l.body = "text" \/ (Mine(l) /\ l.body = "error" /\ rpc < 3) THEN FailTask
           ELSE IF Mine(l) THEN IF rpc < 3 THEN Accepted ELSE Answered(l)
           ELSE /\ waited' = 0
                /\ UNCHANGED <<worker_type, parse_mode, exec, rpc, asked, wrote, subprocess, verdict, used>>

\* The time is over, which a line that comes at that moment does not change, or
\* the worker has closed its stdout and nothing is left to read.
ReadFails ==
    /\ exec = "read"
    /\ waited = Patience \/ (read = Len(wrote) /\ subprocess # "running")
    /\ FailTask /\ UNCHANGED read

-----------------------------------------------------------------------------
(* A CLI worker: Command::output, and parse_json_payload.                  *)

JsonLines == {i \in 1..Len(wrote) : wrote[i].body = "result"}

\* Several lines may be one JSON value together, whether or not one of them is
\* JSON by itself: that value comes before the last line that is JSON.
Whole == [id |-> 0, body |-> "result"]
MayBeWhole == IF Len(wrote) > 1 THEN {TRUE, FALSE} ELSE {FALSE}

Parses(whole) == subprocess = "succeeded" /\ (parse_mode = "text" \/ whole \/ JsonLines # {})

Output ==
    /\ exec = "run" /\ subprocess # "running"
    /\ exec' = "done" /\ read' = Len(wrote)
    /\ \E whole \in MayBeWhole :
          /\ verdict' = IF Parses(whole) THEN "completed" ELSE "failed"
          /\ IF Parses(whole) /\ parse_mode = "json"
             THEN IF whole THEN used' = Whole
                  ELSE \E i \in JsonLines : (\A j \in JsonLines : j <= i) /\ used' = wrote[i]
             ELSE used' = Nothing
    /\ UNCHANGED <<worker_type, parse_mode, rpc, asked, wrote, waited, subprocess>>

RunTimesOut ==
    /\ exec = "run" /\ waited = Patience
    /\ FailTask /\ UNCHANGED read

ExecNext ==
    \/ Spawn \/ WorkerReads \/ WorkerWrites \/ WorkerExits \/ PassTick
    \/ WriteCall \/ ReadLine \/ ReadFails \/ Output \/ RunTimesOut

ExecSpec == ExecInit /\ [][ExecNext]_execVars

-----------------------------------------------------------------------------
(* Properties.                                                             *)

Said(r, bodies) == \E i \in 1..read : wrote[i].id = r /\ wrote[i].body \in bodies

\* A task is reported completed only with the answer to its own tools/call, after
\* the worker has accepted the calls before it, and with nothing left running;
\* and it fails only if the worker gave cause: it was not started, exited, wrote
\* an error, nothing or something else than JSON, or had been silent for the whole
\* timeout (worker_executor.rs:1933). Notifications, second answers and late ones
\* change neither.
VerdictIsDue ==
    /\ verdict = "completed" =>
          IF worker_type = "mcp"
          THEN /\ used = [id |-> 3, body |-> "result"] /\ Said(3, {"result"})
               /\ \A r \in 1..2 : Said(r, {"result", "null"})
               /\ subprocess # "running"
          ELSE subprocess = "succeeded" /\ (parse_mode = "json" => used.body = "result")
    /\ verdict = "failed" =>
          \/ subprocess \in {"none", "succeeded", "failed"} \/ waited = Patience
          \/ \E i \in 1..read : wrote[i].body \in {"text", "error"}
          \/ Said(3, {"null"})
================================================================================
