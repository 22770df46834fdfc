------------------------------ MODULE DevitEdgeProofs ------------------------------
(***************************************************************************)
(* Proofs about the programs at the edge. The worker executor: the verdict *)
(* on a task has its cause in what the worker wrote, or in its silence,    *)
(* for every timeout and every number of lines. The language client: no    *)
(* answer that a reader has taken is lost or reaches another request, for  *)
(* any number of commands, restarts, messages and requests. Snapshots: for *)
(* any number of managers and any limits, a restore and a comparison that  *)
(* nobody disturbs do what they say, a store leaves no more than the limit *)
(* and pruning on a stale list takes only what is too old. The structured  *)
(* edits: what a session writes comes from the content of the request and  *)
(* from the hunks accepted at that apply, whatever was applied before, and *)
(* hunks that are apart land as if all were made at once.                  *)
(***************************************************************************)
EXTENDS DevitExecutor, DevitLsp, DevitSnapshots, DevitStudioEdit, FunctionTheorems,
        FiniteSetTheorems, SequenceTheorems, WellFoundedInduction, TLAPS

-----------------------------------------------------------------------------
(* The worker executor.                                                    *)

Lines == RpcLines \cup CliLines

ExecTypes ==
    /\ worker_type \in {"mcp", "cli"} /\ parse_mode \in {"json", "text"}
    /\ exec \in {"spawn", "write", "read", "run", "done"}
    /\ rpc \in 1..3 /\ asked \in 0..3
    /\ wrote \in Seq(Lines) /\ read \in 0..Len(wrote)
    /\ waited \in Nat
    /\ subprocess \in {"none", "running", "succeeded", "failed", "killed"}
    /\ verdict \in {"none", "completed", "failed"}
    /\ used \in Lines \cup {Nothing}

\* The worker is alive, or has ended by itself.
Started == subprocess \in {"running", "succeeded", "failed"}

\* What the executor is at fits the kind of the worker; the calls before the one
\* it is at have been answered; and there is no verdict before the end.
ExecInv ==
    /\ ExecTypes
    /\ exec = "spawn" => subprocess = "none"
    /\ exec \in {"write", "read"} => worker_type = "mcp" /\ Started
    /\ exec = "run" => worker_type = "cli" /\ Started
    /\ exec # "done" => verdict = "none"
    /\ \A r \in 1..3 : r < rpc => Said(r, {"result", "null"})
    /\ VerdictIsDue

-----------------------------------------------------------------------------

\* What the executor has read stays read while the worker writes on.
LEMMA SaidStays ==
    ASSUME ExecTypes, wrote' \in Seq(Lines), Len(wrote') >= Len(wrote),
           \A i \in 1..Len(wrote) : wrote'[i] = wrote[i],
           read' \in Nat, read' >= read,
           NEW r \in 1..3, NEW bodies, Said(r, bodies)
    PROVE  Said(r, bodies)'
<1>1. PICK i \in 1..read : wrote[i].id = r /\ wrote[i].body \in bodies
  BY DEF Said
<1>2. i \in 1..read' /\ wrote'[i] = wrote[i]
  BY DEF ExecTypes
<1> QED BY <1>1, <1>2 DEF Said

\* FailTask with a cause leaves the invariant in force.
LEMMA FailureIsDue ==
    ASSUME ExecInv, exec # "done", FailTask, read' \in {read, read + 1}, read' <= Len(wrote),
           \/ exec = "spawn" \/ subprocess \in {"succeeded", "failed"} \/ waited = Patience
           \/ read' = read + 1 /\ wrote[read + 1].body \in {"text", "error"}
    PROVE  ExecInv'
<1> USE DEF ExecInv
<1>1. /\ UNCHANGED <<worker_type, parse_mode, rpc, asked, wrote, waited, used>>
      /\ verdict' = "failed" /\ exec' = "done" /\ subprocess' = Stopped
  BY DEF FailTask
<1>2. ExecTypes'
  BY <1>1 DEF ExecTypes, Stopped
<1>3. \A r \in 1..3 : r < rpc' => Said(r, {"result", "null"})'
  BY <1>1, SaidStays DEF ExecTypes
<1>4. VerdictIsDue'
  <2>1. CASE exec = "spawn" \/ subprocess \in {"succeeded", "failed"} \/ waited = Patience
    BY <2>1, <1>1 DEF VerdictIsDue, Stopped
  <2>2. CASE read' = read + 1 /\ wrote[read + 1].body \in {"text", "error"}
    <3>1. read + 1 \in 1..read' /\ wrote'[read + 1].body \in {"text", "error"}
      BY <2>2, <1>1 DEF ExecTypes
    <3> QED BY <3>1, <1>1 DEF VerdictIsDue
  <2> QED BY <2>1, <2>2
<1> QED BY <1>1, <1>2, <1>3, <1>4

LEMMA SpawnKeeps == ASSUME ExecInv, Spawn PROVE ExecInv'
<1>1. CASE FailTask /\ UNCHANGED read
  BY <1>1, FailureIsDue DEF Spawn, ExecInv, ExecTypes
<1>2. CASE /\ subprocess' = "running" /\ exec' = IF worker_type = "mcp" THEN "write" ELSE "run"
           /\ UNCHANGED <<worker_type, parse_mode, rpc, asked, wrote, read, waited, verdict, used>>
  BY <1>2 DEF Spawn, ExecInv, ExecTypes, Started, Said, VerdictIsDue
<1> QED BY <1>1, <1>2 DEF Spawn

LEMMA WorkerKeeps ==
    ASSUME ExecInv, WorkerReads \/ WorkerWrites \/ WorkerExits \/ PassTick
    PROVE  ExecInv'
<1> USE DEF ExecInv
<1>1. CASE WorkerReads
  BY <1>1 DEF WorkerReads, ExecTypes, Started, Said, VerdictIsDue
<1>2. CASE WorkerWrites
  <2>1. /\ exec # "done"
        /\ UNCHANGED <<worker_type, parse_mode, exec, rpc, asked, read, waited, subprocess, verdict, used>>
    BY <1>2 DEF WorkerWrites
  <2>2. PICK l \in Lines : wrote' = Append(wrote, l)
    BY <1>2 DEF WorkerWrites, Lines
  <2>3. /\ wrote' \in Seq(Lines) /\ Len(wrote') = Len(wrote) + 1
        /\ \A i \in 1..Len(wrote) : wrote'[i] = wrote[i]
    BY <2>2 DEF ExecTypes
  <2>4. ExecTypes'
    BY <2>1, <2>3 DEF ExecTypes
  <2>5. \A r \in 1..3 : r < rpc' => Said(r, {"result", "null"})'
    BY <2>1, <2>3, SaidStays DEF ExecTypes
  <2>6. VerdictIsDue' /\ Started' = Started
    BY <2>1 DEF VerdictIsDue, Started
  <2> QED BY <2>1, <2>4, <2>5, <2>6
<1>3. CASE WorkerExits
  <2>1. /\ subprocess = "running" /\ subprocess' \in {"succeeded", "failed"}
        /\ UNCHANGED <<worker_type, parse_mode, exec, rpc, asked, wrote, read, waited, verdict, used>>
    BY <1>3 DEF WorkerExits
  <2>2. VerdictIsDue'
    BY <2>1 DEF VerdictIsDue, Said
  <2>3. \A r \in 1..3 : r < rpc' => Said(r, {"result", "null"})'
    BY <2>1 DEF Said
  <2>4. ExecTypes' /\ Started'
    BY <2>1 DEF ExecTypes, Started
  <2> QED BY <2>1, <2>2, <2>3, <2>4
<1>4. CASE PassTick
  <2>1. /\ exec # "done" /\ waited' = waited + 1
        /\ UNCHANGED <<worker_type, parse_mode, exec, rpc, asked, wrote, read, subprocess, verdict, used>>
    BY <1>4 DEF PassTick
  <2>2. VerdictIsDue' /\ Started' = Started /\ ExecTypes'
    BY <2>1 DEF VerdictIsDue, Started, ExecTypes
  <2>3. \A r \in 1..3 : r < rpc' => Said(r, {"result", "null"})'
    BY <2>1 DEF Said
  <2> QED BY <2>1, <2>2, <2>3
<1> QED BY <1>1, <1>2, <1>3, <1>4

LEMMA WriteCallKeeps == ASSUME ExecInv, WriteCall PROVE ExecInv'
<1>1. CASE subprocess = "running"
  BY <1>1 DEF WriteCall, ExecInv, ExecTypes, Started, Said, VerdictIsDue
<1>2. CASE subprocess # "running"
  BY <1>2, FailureIsDue DEF WriteCall, ExecInv, ExecTypes, Started
<1> QED BY <1>1, <1>2

\* A line read: not for this call, a failure, the end of a call before the last,
\* or the answer to tools/call.
LEMMA ReadLineKeeps == ASSUME ExecInv, ReadLine PROVE ExecInv'
<1> USE DEF ExecInv
<1> DEFINE l == wrote[read + 1]
<1>1. exec = "read" /\ read < Len(wrote) /\ read' = read + 1 /\ worker_type = "mcp" /\ Started
  BY DEF ReadLine
<1>2. l \in Lines /\ read' \in 1..Len(wrote) /\ read' \in Nat /\ read' >= read
  BY <1>1 DEF ExecTypes
<1>3. ASSUME UNCHANGED wrote, NEW r \in 1..3, NEW bodies, Said(r, bodies) PROVE Said(r, bodies)'
  BY <1>2, <1>3, SaidStays DEF ExecTypes
<1>4. CASE ~ Mine(l) /\ l.body # "text"
  <2>1. /\ waited' = 0
        /\ UNCHANGED <<worker_type, parse_mode, exec, rpc, asked, wrote, subprocess, verdict, used>>
    BY <1>4 DEF ReadLine
  <2>2. ExecTypes' /\ Started'
    BY <2>1, <1>1, <1>2 DEF ExecTypes, Started
  <2>3. VerdictIsDue'
    BY <2>1, <1>1 DEF VerdictIsDue
  <2> QED BY <2>1, <2>2, <2>3, <1>1, <1>3
<1>5. CASE l.body \in {"text", "error"} /\ (l.body = "text" \/ (Mine(l) /\ rpc < 3))
  <2>1. FailTask
    BY <1>5 DEF ReadLine
  <2> QED BY <2>1, <1>1, <1>2, <1>5, FailureIsDue
<1>6. CASE Mine(l) /\ l.body \notin {"text", "error"} /\ rpc < 3
  <2>1. /\ rpc' = rpc + 1 /\ exec' = "write"
        /\ UNCHANGED <<worker_type, parse_mode, asked, wrote, waited, subprocess, verdict, used>>
    BY <1>6 DEF ReadLine, Accepted
  <2>2. ExecTypes' /\ Started'
    BY <2>1, <1>1, <1>2, <1>6 DEF ExecTypes, Started
  <2>3. VerdictIsDue'
    BY <2>1, <1>1 DEF VerdictIsDue
  <2>4. ASSUME NEW r \in 1..3, r = rpc PROVE Said(r, {"result", "null"})'
    <3>1. l.body \in {"result", "null"}
      BY <1>2, <1>6 DEF Lines, RpcLines, CliLines
    <3> QED BY <3>1, <2>1, <2>4, <1>1, <1>2, <1>6 DEF Said, Mine
  <2>5. \A r \in 1..3 : r < rpc' => Said(r, {"result", "null"})'
    <3> SUFFICES ASSUME NEW r \in 1..3, r < rpc + 1 PROVE Said(r, {"result", "null"})'
      BY <2>1
    <3>1. r < rpc \/ r = rpc
      BY DEF ExecTypes
    <3> QED BY <3>1, <2>1, <2>4, <1>3
  <2> QED BY <2>1, <2>2, <2>3, <2>5, <1>1
<1>7. CASE Mine(l) /\ l.body # "text" /\ rpc = 3
  <2>1. /\ exec' = "done" /\ used' = l
        /\ verdict' = IF l.body = "result" THEN "completed" ELSE "failed"
        /\ subprocess' = IF subprocess = "running" THEN "killed" ELSE subprocess
        /\ UNCHANGED <<worker_type, parse_mode, rpc, asked, wrote, waited>>
    BY <1>7 DEF ReadLine, Answered
  <2>2. l.id = 3 /\ l.body \in {"result", "null", "error"} /\ l = [id |-> 3, body |-> l.body]
    BY <1>2, <1>7 DEF Mine, Lines, RpcLines, CliLines
  <2>3. ExecTypes'
    BY <2>1, <1>1, <1>2 DEF ExecTypes
  <2>4. \A r \in 1..3 : r < rpc' => Said(r, {"result", "null"})'
    BY <2>1, <1>3
  <2>5. ASSUME NEW b, l.body = b PROVE Said(3, {b})'
    BY <2>5, <2>1, <2>2, <1>1, <1>2 DEF Said
  <2>6. VerdictIsDue'
    <3>1. CASE l.body = "result"
      <4>1. verdict' = "completed" /\ worker_type' = "mcp" /\ subprocess' # "running"
        BY <3>1, <2>1, <1>1
      <4>2. used' = [id |-> 3, body |-> "result"]
        BY <3>1, <2>1, <2>2
      <4>3. Said(3, {"result"})' /\ \A r \in 1..2 : Said(r, {"result", "null"})'
        BY <3>1, <2>5, <2>4, <2>1, <1>7
      <4> QED BY <4>1, <4>2, <4>3 DEF VerdictIsDue
    <3>2. CASE l.body = "null"
      BY <3>2, <2>1, <2>5 DEF VerdictIsDue
    <3>3. CASE l.body = "error"
      <4>1. verdict' = "failed" /\ read + 1 \in 1..read' /\ wrote'[read + 1].body = "error"
        BY <3>3, <2>1, <1>1, <1>2
      <4> QED BY <4>1 DEF VerdictIsDue
    <3> QED BY <3>1, <3>2, <3>3, <2>2
  <2> QED BY <2>1, <2>3, <2>4, <2>6
<1> QED BY <1>4, <1>5, <1>6, <1>7 DEF ExecTypes

LEMMA EndsKeep ==
    ASSUME ExecInv, ReadFails \/ Output \/ RunTimesOut
    PROVE  ExecInv'
<1>1. CASE ReadFails
  BY <1>1, FailureIsDue DEF ReadFails, ExecInv, ExecTypes, Started
<1>2. CASE RunTimesOut
  BY <1>2, FailureIsDue DEF RunTimesOut, ExecInv, ExecTypes
<1>3. CASE Output
  <2> USE DEF ExecInv
  <2>1. /\ exec = "run" /\ subprocess # "running" /\ worker_type = "cli"
        /\ subprocess \in {"succeeded", "failed"}
        /\ exec' = "done" /\ read' = Len(wrote)
        /\ UNCHANGED <<worker_type, parse_mode, rpc, asked, wrote, waited, subprocess>>
    BY <1>3 DEF Output, Started
  <2> PICK whole \in MayBeWhole :
        /\ verdict' = IF Parses(whole) THEN "completed" ELSE "failed"
        /\ IF Parses(whole) /\ parse_mode = "json"
           THEN IF whole THEN used' = Whole
                ELSE \E i \in JsonLines : (\A j \in JsonLines : j <= i) /\ used' = wrote[i]
           ELSE used' = Nothing
    BY <1>3 DEF Output
  <2>2. CASE Parses(whole) /\ parse_mode = "json"
    <3>1. used' = Whole \/ \E i \in JsonLines : used' = wrote[i]
      BY <2>2
    <3>2. used' \in Lines /\ used'.body = "result"
      BY <3>1 DEF JsonLines, Whole, ExecTypes, Lines, CliLines
    <3>3. VerdictIsDue'
      BY <3>2, <2>1, <2>2 DEF VerdictIsDue, Parses
    <3>4. ExecTypes'
      BY <3>2, <2>1, <2>2 DEF ExecTypes
    <3> QED BY <3>3, <3>4, <2>1, SaidStays DEF ExecTypes
  <2>3. CASE ~ (Parses(whole) /\ parse_mode = "json")
    <3>1. used' = Nothing
      BY <2>3
    <3>2. VerdictIsDue'
      BY <2>1, <2>3 DEF VerdictIsDue, Parses, ExecTypes
    <3>3. ExecTypes'
      BY <3>1, <2>1, <2>3 DEF ExecTypes
    <3> QED BY <3>2, <3>3, <2>1, SaidStays DEF ExecTypes
  <2> QED BY <2>2, <2>3
<1> QED BY <1>1, <1>2, <1>3

-----------------------------------------------------------------------------

\* A worker's answer is taken for the task it was asked for, and a task fails only
\* for what the worker did or left undone (read_response_matching).
THEOREM VerdictHasCause == ExecSpec => []VerdictIsDue
<1>1. ExecInit => ExecInv
  BY DEF ExecInit, ExecInv, ExecTypes, Started, Nothing, VerdictIsDue
<1>2. ExecInv /\ [ExecNext]_execVars => ExecInv'
  <2> SUFFICES ASSUME ExecInv, [ExecNext]_execVars PROVE ExecInv'
    OBVIOUS
  <2>1. CASE UNCHANGED execVars
    BY <2>1 DEF execVars, ExecInv, ExecTypes, Started, Said, VerdictIsDue
  <2>2. CASE ExecNext
    BY <2>2, SpawnKeeps, WorkerKeeps, WriteCallKeeps, ReadLineKeeps, EndsKeep DEF ExecNext
  <2> QED BY <2>1, <2>2
<1>3. ExecInv => VerdictIsDue
  BY DEF ExecInv
<1> QED BY <1>1, <1>2, <1>3, PTL DEF ExecSpec

-----------------------------------------------------------------------------
(* The language client.                                                    *)

LspTypes ==
    /\ starts \in 0..MaxStarts /\ client \in 0..MaxStarts
    /\ request_id \in [Clients -> Nat \ {0}]
    /\ pending_requests \in [Clients -> SUBSET Nat] /\ answered \in [Clients -> SUBSET Nat]
    /\ inbox \in [Clients -> SUBSET Nat] /\ outbox \in [Clients -> Seq(Messages)]
    /\ progress \in {"none", "register", "send", "wait"}
    /\ progress # "none" => holder # NoCommand /\ on \in Clients
    /\ id \in Nat

\* What a server has been asked, answers, and has answered are ids that its
\* client has given.
Given(k) ==
    /\ \A i \in inbox[k] : i < request_id[k]
    /\ \A j \in 1..Len(outbox[k]) : outbox[k][j].kind # "request" => outbox[k][j].id < request_id[k]
    /\ \A i \in answered[k] : i < request_id[k]

\* The request of the command: before it has an id there is no reply; then its
\* entry is there until it has the reply, which is its own.
Expecting ==
    /\ progress \in {"none", "register"} => id = 0 /\ reply = NoReply
    /\ progress \in {"send", "wait"} =>
          /\ id # 0 /\ id < request_id[on]
          /\ reply = NoReply => id \in pending_requests[on] /\ id \notin answered[on]
    /\ reply # NoReply => reply.id = id /\ reply.by = on

LspInv == LspTypes /\ Expecting /\ \A k \in Clients : Given(k)

LEMMA InvImplies == LspInv => NoAnswerLost
BY DEF LspInv, LspTypes, Expecting, NoAnswerLost

-----------------------------------------------------------------------------

\* A command takes the lock: the last one has left nothing behind.
LEMMA TakeKeeps ==
    ASSUME LspInv, NEW c \in Commands, StartLsp(c) \/ StopLsp(c) \/ Ask(c)
    PROVE  LspInv'
<1> USE LspAssumption DEF LspInv, LspTypes
<1>1. /\ holder = NoCommand /\ holder' = c /\ progress' = "register" /\ reply' = NoReply
      /\ UNCHANGED <<request_id, pending_requests, id, inbox, outbox, answered>>
  BY DEF StartLsp, StopLsp, Ask, Take, channel
<1>2. starts' \in 0..MaxStarts /\ client' \in 0..MaxStarts /\ on' \in Clients
  BY DEF StartLsp, StopLsp, Ask, Take, Clients
<1>3. Expecting'
  BY <1>1 DEF Expecting
<1>4. ASSUME NEW k \in Clients PROVE Given(k)'
  BY <1>1 DEF Given
<1> QED BY <1>1, <1>2, <1>3, <1>4

\* A new id is above all that the server has been asked or has answered.
LEMMA RegisterKeeps == ASSUME LspInv, Register PROVE LspInv'
<1> USE DEF LspInv
<1>1. /\ progress = "register" /\ progress' = "send" /\ on \in Clients
      /\ id' = request_id[on]
      /\ request_id' = [request_id EXCEPT ![on] = @ + 1]
      /\ pending_requests' = [pending_requests EXCEPT ![on] = @ \cup {request_id[on]}]
      /\ UNCHANGED <<client, starts, holder, on, reply, inbox, outbox, answered>>
  BY DEF Register, channel, LspTypes
<1>2. LspTypes'
  BY <1>1 DEF LspTypes
<1>3. \A k \in Clients : request_id'[k] \in Nat /\ request_id'[k] >= request_id[k]
  BY <1>1 DEF LspTypes
<1>4. ASSUME NEW k \in Clients PROVE Given(k)'
  <2>1. \A i \in inbox[k] : i < request_id'[k]
    BY <1>3, <1>1 DEF Given, LspTypes
  <2>2. \A i \in answered[k] : i < request_id'[k]
    BY <1>3, <1>1 DEF Given, LspTypes
  <2>3. ASSUME NEW j \in 1..Len(outbox[k]), outbox[k][j].kind # "request"
        PROVE  outbox[k][j].id < request_id'[k]
    <3>1. outbox[k][j] \in Messages /\ outbox[k][j].id < request_id[k]
      BY <2>3 DEF Given, LspTypes
    <3> QED BY <3>1, <1>3, LspAssumption DEF LspTypes, Messages
  <2> QED BY <2>1, <2>2, <2>3, <1>1 DEF Given
<1>5. Expecting'
  <2>1. id' # 0 /\ id' < request_id'[on] /\ id' \in pending_requests'[on]
    BY <1>1 DEF LspTypes
  <2>2. id' \notin answered[on]
    BY <1>1 DEF Given, LspTypes
  <2>3. reply = NoReply
    BY <1>1 DEF Expecting
  <2> QED BY <2>1, <2>2, <2>3, <1>1 DEF Expecting
<1> QED BY <1>2, <1>4, <1>5

LEMMA SendKeeps == ASSUME LspInv, SendRequest PROVE LspInv'
<1> USE DEF LspInv
<1>1. /\ progress = "send" /\ on \in Clients /\ id < request_id[on]
      /\ UNCHANGED <<client, starts, request_id, pending_requests, outbox, answered>>
  BY DEF SendRequest, LspTypes, Expecting
<1>2. CASE server[on] = "running"
  <2>1. /\ inbox' = [inbox EXCEPT ![on] = @ \cup {id}] /\ progress' = "wait"
        /\ UNCHANGED <<holder, on, id, reply>>
    BY <1>2 DEF SendRequest
  <2>2. LspTypes'
    BY <2>1, <1>1 DEF LspTypes
  <2>3. Expecting'
    BY <2>1, <1>1 DEF Expecting
  <2>4. ASSUME NEW k \in Clients PROVE Given(k)'
    BY <2>1, <1>1 DEF Given, LspTypes
  <2> QED BY <2>2, <2>3, <2>4
<1>3. CASE server[on] # "running"
  BY <1>1, <1>3 DEF SendRequest, Release, LspTypes, Expecting, Given
<1> QED BY <1>2, <1>3

LEMMA ReceiveKeeps == ASSUME LspInv, Receive PROVE LspInv'
<1> USE DEF LspInv
<1>1. /\ progress = "wait" /\ Release
      /\ UNCHANGED <<starts, request_id, pending_requests, inbox, outbox, answered>>
      /\ client' \in {on, client}
  BY DEF Receive
<1>2. client' \in 0..MaxStarts
  BY <1>1 DEF LspTypes, Clients
<1>3. LspTypes' /\ Expecting'
  BY <1>1, <1>2 DEF LspTypes, Expecting, Release
<1>4. \A k \in Clients : Given(k)'
  BY <1>1 DEF Given
<1> QED BY <1>3, <1>4

-----------------------------------------------------------------------------

LEMMA SendsKeeps == ASSUME LspInv, NEW k \in Clients, ServerSends(k) PROVE LspInv'
<1> USE DEF LspInv
<1>1. PICK m \in Messages :
          /\ m.kind # "request" => m.id \in inbox[k]
          /\ inbox' = IF m.kind = "request" THEN inbox ELSE [inbox EXCEPT ![k] = @ \ {m.id}]
          /\ outbox' = [outbox EXCEPT ![k] = Append(@, m)]
  BY DEF ServerSends
<1>2. UNCHANGED <<client, starts, request_id, pending_requests, holder, progress, on, id, reply, answered>>
  BY DEF ServerSends
<1>3. LspTypes'
  <2>1. inbox' \in [Clients -> SUBSET Nat]
    BY <1>1 DEF LspTypes
  <2>2. outbox' \in [Clients -> Seq(Messages)]
    BY <1>1 DEF LspTypes
  <2> QED BY <2>1, <2>2, <1>2 DEF LspTypes
<1>4. Expecting'
  BY <1>2 DEF Expecting
<1>5. ASSUME NEW n \in Clients PROVE Given(n)'
  <2>1. CASE n # k
    BY <2>1, <1>1, <1>2 DEF Given, LspTypes
  <2>2. CASE n = k
    <3>1. inbox'[k] \subseteq inbox[k]
      BY <1>1 DEF LspTypes
    <3>2. outbox'[k] = Append(outbox[k], m) /\ outbox[k] \in Seq(Messages)
      BY <1>1 DEF LspTypes
    <3>3. m.kind # "request" => m.id < request_id[k]
      BY <1>1 DEF Given
    <3>4. ASSUME NEW j \in 1..Len(outbox'[k]), outbox'[k][j].kind # "request"
          PROVE  outbox'[k][j].id < request_id[k]
      <4>1. CASE j \in 1..Len(outbox[k])
        BY <4>1, <3>2, <3>4 DEF Given
      <4>2. CASE j = Len(outbox[k]) + 1
        BY <4>2, <3>2, <3>3, <3>4
      <4> QED BY <4>1, <4>2, <3>2
    <3> QED BY <2>2, <3>1, <3>4, <1>2 DEF Given
  <2> QED BY <2>1, <2>2
<1> QED BY <1>3, <1>4, <1>5

\* The message is for the command that waits exactly if it takes that command's
\* entry: the entry goes with the reply that is sent.
LEMMA DispatchKeeps == ASSUME LspInv, NEW k \in Clients, Dispatch(k) PROVE LspInv'
<1> USE DEF LspInv
<1> DEFINE m == Head(outbox[k])
<1>1. /\ outbox[k] # <<>>
      /\ pending_requests' = [pending_requests EXCEPT ![k] = @ \ {m.id}]
      /\ reply' = IF Waits(k, m.id) THEN [id |-> m.id, kind |-> m.kind, by |-> k] ELSE reply
      /\ answered' = IF m.kind = "request" THEN answered ELSE [answered EXCEPT ![k] = @ \cup {m.id}]
      /\ outbox' = [outbox EXCEPT ![k] = Tail(@)]
      /\ UNCHANGED <<client, starts, request_id, holder, progress, on, id, inbox>>
  BY DEF Dispatch
<1>2. outbox[k] \in Seq(Messages) /\ 1 \in 1..Len(outbox[k]) /\ m = outbox[k][1]
  BY <1>1 DEF LspTypes
<1>3. m \in Messages
  BY <1>2
<1>4. m.id \in Nat /\ m.id # 0
  BY <1>3, LspAssumption DEF Messages
<1>5. LspTypes'
  <2>1. outbox' \in [Clients -> Seq(Messages)]
    BY <1>1, <1>2 DEF LspTypes
  <2>2. pending_requests' \in [Clients -> SUBSET Nat] /\ answered' \in [Clients -> SUBSET Nat]
    BY <1>1, <1>4 DEF LspTypes
  <2> QED BY <2>1, <2>2, <1>1 DEF LspTypes
<1>6. Expecting'
  <2>1. CASE Waits(k, m.id)
    <3>1. id = m.id /\ on = k /\ reply' = [id |-> id, kind |-> m.kind, by |-> on]
      BY <2>1, <1>1 DEF Waits
    <3>2. id # 0 /\ reply' # NoReply /\ reply'.id = id /\ reply'.by = on
      BY <3>1, <1>4 DEF NoReply
    <3> QED BY <3>2, <1>1 DEF Expecting
  <2>2. CASE ~ Waits(k, m.id)
    <3>1. reply' = reply
      BY <2>2, <1>1
    <3>2. ASSUME progress \in {"send", "wait"}, reply = NoReply
          PROVE  id \in pending_requests'[on] /\ id \notin answered'[on]
      <4>1. on \in Clients /\ id \in pending_requests[on] /\ id \notin answered[on]
        BY <3>2 DEF Expecting, LspTypes
      <4>2. CASE on = k
        <5>1. id # m.id
          BY <2>2, <4>1, <4>2 DEF Waits
        <5> QED BY <5>1, <4>1, <4>2, <1>1 DEF LspTypes
      <4>3. CASE on # k
        BY <4>1, <4>3, <1>1 DEF LspTypes
      <4> QED BY <4>2, <4>3
    <3> QED BY <3>1, <3>2, <1>1 DEF Expecting
  <2> QED BY <2>1, <2>2
<1>7. ASSUME NEW n \in Clients PROVE Given(n)'
  <2>1. CASE n # k
    BY <2>1, <1>1 DEF Given, LspTypes
  <2>2. CASE n = k
    <3>1. ASSUME NEW i \in answered'[k] PROVE i < request_id[k]
      <4>1. i \in answered[k] \/ (m.kind # "request" /\ i = m.id)
        BY <1>1 DEF LspTypes
      <4> QED BY <4>1, <1>2 DEF Given
    <3>2. outbox'[k] = Tail(outbox[k])
      BY <1>1 DEF LspTypes
    <3>3. ASSUME NEW j \in 1..Len(outbox'[k]), outbox'[k][j].kind # "request"
          PROVE  outbox'[k][j].id < request_id[k]
      <4>1. j + 1 \in 1..Len(outbox[k]) /\ outbox'[k][j] = outbox[k][j + 1]
        BY <3>2, <1>2
      <4> QED BY <4>1, <3>3 DEF Given
    <3> QED BY <2>2, <3>1, <3>3, <1>1 DEF Given
  <2> QED BY <2>1, <2>2
<1> QED BY <1>5, <1>6, <1>7

-----------------------------------------------------------------------------

\* The entry of a request is made before the request is written (client.rs:236), so
\* an answer always finds who waits for it; ids are not used twice by a client, and
\* each client has its own table, so it finds nobody else.
THEOREM AnswersArrive == LspSpec => []NoAnswerLost
<1>1. LspInit => LspInv
  <2> SUFFICES ASSUME LspInit PROVE LspInv
    OBVIOUS
  <2>1. LspTypes
    BY LspAssumption DEF LspInit, LspTypes
  <2>2. Expecting
    BY DEF LspInit, Expecting
  <2>3. \A k \in Clients : Given(k)
    BY DEF LspInit, Given
  <2> QED BY <2>1, <2>2, <2>3 DEF LspInv
<1>2. LspInv /\ [LspNext]_lspVars => LspInv'
  <2> SUFFICES ASSUME LspInv, [LspNext]_lspVars PROVE LspInv'
    OBVIOUS
  <2>1. CASE UNCHANGED lspVars
    BY <2>1 DEF lspVars, LspInv, LspTypes, Expecting, Given
  <2>2. ASSUME NEW c \in Commands, StartLsp(c) \/ StopLsp(c) \/ Ask(c) PROVE LspInv'
    BY <2>2, TakeKeeps
  <2>3. CASE Register \/ SendRequest \/ Receive
    BY <2>3, RegisterKeeps, SendKeeps, ReceiveKeeps
  <2>4. ASSUME NEW k \in Clients, ServerExits(k) \/ ReaderEnds(k) PROVE LspInv'
    BY <2>4 DEF ServerExits, ReaderEnds, LspInv, LspTypes, Expecting, Given
  <2>5. ASSUME NEW k \in Clients, ServerSends(k) \/ Dispatch(k) PROVE LspInv'
    BY <2>5, SendsKeeps, DispatchKeeps
  <2> QED BY <2>1, <2>2, <2>3, <2>4, <2>5 DEF LspNext
<1> QED BY <1>1, <1>2, InvImplies, PTL DEF LspSpec

-----------------------------------------------------------------------------
(* Snapshots: facts about the order of their numbers.                      *)

\* A set of numbers has a least one.
LEMMA LeastNumber ==
    ASSUME NEW S \in SUBSET Nat, S # {}
    PROVE  \E n \in S : \A k \in S : n <= k
<1> DEFINE R == StrictSubsetOrdering(Nat)
           F == FiniteSubsetsOf(Nat)
           T == {0..k : k \in S}
<1>1. IsWellFoundedOn(R, F)
  BY FS_StrictSubsetOrderingWellFounded
<1>2. T \subseteq F /\ T # {}
  <2>1. ASSUME NEW k \in S PROVE 0..k \in F
    <3>1. IsFiniteSet(0..k) /\ 0..k \in SUBSET Nat
      BY FS_Interval
    <3> QED
      BY <3>1 DEF FiniteSubsetsOf
  <2> QED
    BY <2>1
<1> HIDE DEF R, F, T
<1>3. PICK x \in T : \A y \in T : ~ (<<y, x>> \in R)
  BY <1>1, <1>2, WFMin
<1>4. PICK n \in S : x = 0..n
  BY DEF T
<1>5. ASSUME NEW k \in S, k < n PROVE FALSE
  <2>1. 0..k \in T
    BY DEF T
  <2>2. 0..k \subseteq 0..n /\ 0..k # 0..n /\ 0..k \subseteq Nat /\ 0..n \subseteq Nat
    <3>1. n \in 0..n /\ n \notin 0..k
      BY <1>5
    <3>2. 0..k \subseteq 0..n /\ 0..k \subseteq Nat /\ 0..n \subseteq Nat
      BY <1>5
    <3> QED
      BY <3>1, <3>2, Zenon
  <2>3. <<0..k, 0..n>> \in R
    BY <2>2 DEF R, StrictSubsetOrdering
  <2> QED
    BY <1>3, <1>4, <2>1, <2>3
<1> QED
  BY <1>5

\* Of things with different numbers, at most n have fewer than n above them.
LEMMA FewAreNewest ==
    ASSUME NEW S, IsFiniteSet(S), NEW num \in [S -> Nat],
           \A i, j \in S : num[i] = num[j] => i = j,
           NEW n \in Nat \ {0}
    PROVE  Cardinality({i \in S : ~ (Cardinality({j \in S : num[j] > num[i]}) >= n)}) <= n
<1> DEFINE above(i) == {j \in S : num[j] > num[i]}
           T == {i \in S : ~ (Cardinality(above(i)) >= n)}
<1>1. IsFiniteSet(T) /\ Cardinality(T) \in Nat
  <2>1. T \in SUBSET S
    OBVIOUS
  <2> QED
    BY <2>1, FS_Subset, FS_CardinalityType
<1>2. CASE T = {}
  <2>1. Cardinality(T) = 0
    BY <1>2, FS_EmptySet
  <2> QED
    BY <2>1
<1>3. CASE T # {}
  <2>1. PICK t \in T : \A i \in T : num[t] <= num[i]
    <3> DEFINE V == {num[i] : i \in T}
    <3>1. T \subseteq S
      OBVIOUS
    <3> HIDE DEF T
    <3>2. V \in SUBSET Nat /\ V # {}
      BY <1>3, <3>1
    <3> HIDE DEF V
    <3>3. PICK v \in V : \A w \in V : v <= w
      BY <3>2, LeastNumber
    <3> QED
      BY <3>3 DEF V
  <2>2. T \ {t} \in SUBSET above(t)
    BY <2>1
  <2>3. above(t) \in SUBSET S
    OBVIOUS
  <2>4. IsFiniteSet(above(t)) /\ Cardinality(above(t)) \in Nat
    BY <2>3, FS_Subset, FS_CardinalityType
  <2>5. Cardinality(T \ {t}) <= Cardinality(above(t))
    BY <2>2, <2>4, FS_Subset
  <2>6. Cardinality(T \ {t}) = Cardinality(T) - 1
    BY <1>1, <2>1, FS_RemoveElement
  <2>7. Cardinality(above(t)) < n
    BY <2>1, <2>4
  <2> HIDE DEF T, above
  <2> QED
    BY <1>1, <2>4, <2>5, <2>6, <2>7 DEF T, above
<1> QED
  BY <1>2, <1>3

-----------------------------------------------------------------------------
(* Snapshots: which file is stored under which id.                         *)

Versions == Nat \cup {NoFile}
Shots == [id : Ids, files : [Paths -> Versions], older : [Ids -> Nat]]

Doings == {"nothing", "walk", "write", "list", "prune", "read", "created", "failed", "restore",
           "restored", "compare", "differs", "valid", "stale"}
WithSnapshot == Doings \ {"nothing", "walk", "failed"}

SnapTypes ==
    /\ workspace \in [Paths -> Versions] /\ second \in 0..MaxSeconds
    /\ made \in Seq(Shots) /\ stored \in [Ids -> Nat]
    /\ max_snapshots \in [Managers -> Limits] /\ doing \in [Managers -> Doings]
    /\ got \in [Managers -> [Paths -> Versions]] /\ mine \in [Managers -> Nat]
    /\ todo \in [Managers -> SUBSET (Paths \cup Ids)]
    /\ undisturbed \in [Managers -> BOOLEAN]
    /\ \A p \in Managers : doing[p] \in WithSnapshot => mine[p] \in 1..Len(made)

\* What is stored under an id, or was when a snapshot was taken, is a snapshot
\* of that id whose file was stored.
IsOf(n, i) == n \in written /\ made[n].id = i

StoreTrue ==
    /\ written \subseteq 1..Len(made)
    /\ \A i \in Ids : stored[i] # 0 => IsOf(stored[i], i)
    /\ \A n \in 1..Len(made), i \in Ids : made[n].older[i] # 0 => IsOf(made[n].older[i], i)

LEMMA SnapInitTypes ==
    ASSUME SnapInit
    PROVE  SnapTypes /\ StoreTrue
<1>1. SnapTypes
  BY SnapshotAssumption DEF SnapInit, SnapTypes, Versions, Doings, WithSnapshot, NothingRead
<1>2. StoreTrue
  BY DEF SnapInit, StoreTrue
<1> QED
  BY <1>1, <1>2

\* The snapshots that were made stay as they are.
LEMMA MadeGrows ==
    ASSUME SnapTypes, SnapNext
    PROVE  /\ made' \in Seq(Shots) /\ Len(made) <= Len(made')
           /\ \A n \in 1..Len(made) : n \in 1..Len(made') /\ made'[n] = made[n]
           /\ written \subseteq written' /\ deleted \subseteq deleted'
<1>1. written \subseteq written' /\ deleted \subseteq deleted'
  BY DEF SnapNext, BeginSnapshot, ReadPath, NameSnapshot, StoreSnapshot, ListSnapshots, PruneOne,
         Pruned, ReadBack, BeginRestore, WriteBack, Restored, BeginCompare, ComparePath, Compared,
         DeleteSnapshot, SetMax, SnapshotError, EditPath, NextSecond
<1>2. \/ made' = made
      \/ \E p \in Managers, d \in Names :
           made' = Append(made, [id |-> <<second, d>>, files |-> got[p], older |-> stored])
  BY DEF SnapNext, BeginSnapshot, ReadPath, NameSnapshot, StoreSnapshot, ListSnapshots, PruneOne,
         Pruned, ReadBack, BeginRestore, WriteBack, Restored, BeginCompare, ComparePath, Compared,
         DeleteSnapshot, SetMax, SnapshotError, EditPath, NextSecond
<1>3. made \in Seq(Shots)
  BY DEF SnapTypes
<1>4. ASSUME NEW p \in Managers, NEW d \in Names
      PROVE  [id |-> <<second, d>>, files |-> got[p], older |-> stored] \in Shots
  BY DEF SnapTypes, Shots, Ids
<1>5. ASSUME NEW shot \in Shots, made' = Append(made, shot)
      PROVE  /\ made' \in Seq(Shots) /\ Len(made) <= Len(made')
             /\ \A n \in 1..Len(made) : n \in 1..Len(made') /\ made'[n] = made[n]
  BY <1>3, <1>5
<1>6. CASE made' = made
  BY <1>1, <1>3, <1>6
<1> QED
  BY <1>1, <1>2, <1>4, <1>5, <1>6

LEMMA SnapTypesStep ==
    ASSUME SnapTypes, StoreTrue, SnapNext
    PROVE  SnapTypes'
<1> DEFINE Rest == /\ workspace' \in [Paths -> Versions] /\ second' \in 0..MaxSeconds
                   /\ stored' \in [Ids -> Nat]
                   /\ max_snapshots' \in [Managers -> Limits] /\ doing' \in [Managers -> Doings]
                   /\ got' \in [Managers -> [Paths -> Versions]] /\ mine' \in [Managers -> Nat]
                   /\ todo' \in [Managers -> SUBSET (Paths \cup Ids)]
                   /\ undisturbed' \in [Managers -> BOOLEAN]
           HasShot == \A p \in Managers : doing'[p] \in WithSnapshot => mine'[p] \in 1..Len(made')
<1>1. made' \in Seq(Shots) /\ \A n \in 1..Len(made) : n \in 1..Len(made')
  BY MadeGrows
<1>2. ASSUME NEW p \in Managers, BeginSnapshot(p)
      PROVE  Rest /\ HasShot
  BY <1>1, <1>2 DEF BeginSnapshot, Began, Goes, SnapTypes, Doings, WithSnapshot
<1>3. ASSUME NEW p \in Managers, ReadPath(p)
      PROVE  Rest /\ HasShot
  <2>1. PICK f \in todo[p] : /\ got' = [got EXCEPT ![p][f] = workspace[f]]
                             /\ todo' = [todo EXCEPT ![p] = @ \ {f}]
    BY <1>3 DEF ReadPath
  <2>2. UNCHANGED <<workspace, second, stored, max_snapshots, doing, mine, undisturbed>>
    BY <1>3 DEF ReadPath
  <2>3. got' \in [Managers -> [Paths -> Versions]]
    <3>1. got[p] \in [Paths -> Versions]
      BY DEF SnapTypes
    <3>2. [got[p] EXCEPT ![f] = workspace[f]] \in [Paths -> Versions]
      <4>1. f \in Paths => workspace[f] \in Versions
        BY DEF SnapTypes
      <4> QED
        BY <3>1, <4>1
    <3>3. got' = [got EXCEPT ![p] = [got[p] EXCEPT ![f] = workspace[f]]]
      BY <2>1
    <3> QED
      BY <3>2, <3>3 DEF SnapTypes
  <2> QED
    BY <1>1, <2>1, <2>2, <2>3 DEF SnapTypes
<1>4. ASSUME NEW p \in Managers, NameSnapshot(p)
      PROVE  Rest /\ HasShot
  <2>1. /\ \E d \in Names :
             made' = Append(made, [id |-> <<second, d>>, files |-> got[p], older |-> stored])
        /\ mine' = [mine EXCEPT ![p] = Len(made')]
        /\ doing' = [doing EXCEPT ![p] = "write"] /\ got' = [got EXCEPT ![p] = NothingRead]
        /\ UNCHANGED <<workspace, stored, second, max_snapshots, todo, undisturbed>>
    BY <1>4 DEF NameSnapshot, Goes
  <2>2. Len(made') = Len(made) + 1 /\ Len(made) \in Nat
    BY <2>1 DEF SnapTypes
  <2>3. NothingRead \in [Paths -> Versions]
    BY DEF NothingRead, Versions
  <2>4. mine' \in [Managers -> Nat]
    BY <2>1, <2>2 DEF SnapTypes
  <2>5. HasShot
    BY <1>1, <2>1, <2>2 DEF SnapTypes
  <2> QED
    BY <2>1, <2>3, <2>4, <2>5 DEF SnapTypes, Doings
<1>5. ASSUME NEW p \in Managers, StoreSnapshot(p)
      PROVE  Rest /\ HasShot
  <2>1. mine[p] \in 1..Len(made)
    BY <1>5 DEF StoreSnapshot, SnapTypes, Doings, WithSnapshot
  <2>2. stored' \in [Ids -> Nat]
    BY <1>5 DEF StoreSnapshot, SnapTypes
  <2>3. undisturbed' \in [Managers -> BOOLEAN]
    BY <1>5 DEF StoreSnapshot, Changed, SnapTypes
  <2> QED
    BY <1>1, <1>5, <2>1, <2>2, <2>3 DEF StoreSnapshot, Goes, SnapTypes, Doings, WithSnapshot
<1>6. ASSUME NEW p \in Managers, ListSnapshots(p)
      PROVE  Rest /\ HasShot
  <2>1. ToRemove(p) \subseteq Paths \cup Ids
    BY DEF ToRemove, Oldest, Kept
  <2> QED
    BY <1>1, <1>6, <2>1 DEF ListSnapshots, Goes, SnapTypes, Doings, WithSnapshot
<1>7. ASSUME NEW p \in Managers, PruneOne(p)
      PROVE  Rest /\ HasShot
  <2>1. PICK i \in todo[p] :
          IF stored[i] = 0
          THEN /\ doing' = [doing EXCEPT ![p] = "failed"] /\ todo' = [todo EXCEPT ![p] = {}]
               /\ UNCHANGED <<stored, undisturbed>>
          ELSE /\ stored' = [stored EXCEPT ![i] = 0]
               /\ todo' = [todo EXCEPT ![p] = @ \ {i}]
               /\ Changed(p)
               /\ UNCHANGED doing
    BY <1>7 DEF PruneOne, Goes
  <2>2. UNCHANGED <<workspace, second, max_snapshots, got, mine>>
    BY <1>7 DEF PruneOne
  <2>3. CASE stored[i] = 0
    <3>1. /\ doing' = [doing EXCEPT ![p] = "failed"] /\ todo' = [todo EXCEPT ![p] = {}]
          /\ UNCHANGED <<stored, undisturbed>>
      BY <2>1, <2>3
    <3> QED
      BY <1>1, <2>2, <3>1 DEF SnapTypes, Doings, WithSnapshot
  <2>4. CASE stored[i] # 0
    <3>1. /\ stored' = [stored EXCEPT ![i] = 0] /\ todo' = [todo EXCEPT ![p] = @ \ {i}]
          /\ undisturbed' = [q \in Managers |-> q = p /\ undisturbed[p]]
          /\ UNCHANGED doing
      BY <2>1, <2>4 DEF Changed
    <3> QED
      BY <1>1, <2>2, <3>1 DEF SnapTypes
  <2> QED
    BY <2>3, <2>4
<1>8. ASSUME NEW p \in Managers, Pruned(p) \/ ReadBack(p) \/ Restored(p) \/ Compared(p)
      PROVE  Rest /\ HasShot
  <2>1. /\ \E label \in WithSnapshot \cup {"failed"} : doing' = [doing EXCEPT ![p] = label]
        /\ doing[p] \in WithSnapshot
        /\ UNCHANGED <<workspace, stored, second, max_snapshots, got, mine, todo, undisturbed>>
    BY <1>8 DEF Pruned, ReadBack, Restored, Compared, Goes, Doings, WithSnapshot
  <2> QED
    BY <1>1, <2>1 DEF SnapTypes, Doings, WithSnapshot
<1>9. ASSUME NEW p \in Managers, BeginRestore(p) \/ BeginCompare(p)
      PROVE  Rest /\ HasShot
  <2>1. PICK i \in Kept :
          /\ mine' = [mine EXCEPT ![p] = stored[i]]
          /\ Began(p, "restore", Captured(stored[i])) \/ Began(p, "compare", Paths)
    BY <1>9 DEF BeginRestore, BeginCompare
  <2>2. UNCHANGED <<workspace, stored, second, max_snapshots, got, made>>
    BY <1>9 DEF BeginRestore, BeginCompare
  <2>3. PICK items \in {Captured(stored[i]), Paths}, label \in {"restore", "compare"} :
          Began(p, label, items)
    BY <2>1
  <2>4. items \subseteq Paths \cup Ids
    BY DEF Captured
  <2>5. stored[i] \in 1..Len(made)
    BY DEF Kept, StoreTrue, IsOf
  <2> QED
    BY <2>1, <2>2, <2>3, <2>4, <2>5 DEF Began, Goes, SnapTypes, Doings, WithSnapshot
<1>10. ASSUME NEW p \in Managers, WriteBack(p)
      PROVE  Rest /\ HasShot
  <2>1. PICK f \in todo[p] :
          /\ workspace' = IF f \in Paths
                          THEN [workspace EXCEPT ![f] = made[mine[p]].files[f]] ELSE workspace
          /\ stored' = IF f \in Ids THEN [stored EXCEPT ![f] = made[mine[p]].older[f]] ELSE stored
          /\ todo' = [todo EXCEPT ![p] = @ \ {f}]
    BY <1>10 DEF WriteBack
  <2>2. Changed(p) /\ UNCHANGED <<made, second, max_snapshots, doing, got, mine>>
    BY <1>10 DEF WriteBack
  <2>3. made[mine[p]] \in Shots
    <3>1. mine[p] \in 1..Len(made) /\ made \in Seq(Shots)
      BY <1>10 DEF WriteBack, SnapTypes, Doings, WithSnapshot
    <3> QED
      BY <3>1
  <2>4. workspace' \in [Paths -> Versions]
    BY <2>1, <2>3 DEF SnapTypes, Shots
  <2>5. stored' \in [Ids -> Nat]
    BY <2>1, <2>3 DEF SnapTypes, Shots
  <2>6. todo' \in [Managers -> SUBSET (Paths \cup Ids)]
    BY <2>1 DEF SnapTypes
  <2>7. undisturbed' \in [Managers -> BOOLEAN]
    BY <2>2 DEF SnapTypes, Changed
  <2> QED
    BY <1>1, <2>2, <2>4, <2>5, <2>6, <2>7 DEF SnapTypes
<1>11. ASSUME NEW p \in Managers, ComparePath(p)
      PROVE  Rest /\ HasShot
  <2>1. /\ \E label \in {"compare", "differs"} : doing' = [doing EXCEPT ![p] = label]
        /\ \E f \in todo[p] : todo' = [todo EXCEPT ![p] = @ \ {f}]
        /\ doing[p] \in WithSnapshot
        /\ UNCHANGED <<workspace, stored, second, max_snapshots, got, mine, undisturbed>>
    BY <1>11 DEF ComparePath, Goes, Doings, WithSnapshot
  <2> QED
    BY <1>1, <2>1 DEF SnapTypes, Doings, WithSnapshot
<1>12. ASSUME NEW p \in Managers, DeleteSnapshot(p) \/ SetMax(p) \/ SnapshotError(p)
      PROVE  Rest /\ HasShot
  <2>1. CASE DeleteSnapshot(p)
    BY <1>1, <2>1 DEF DeleteSnapshot, Kept, Changed, Goes, SnapTypes, Doings, WithSnapshot
  <2>2. CASE SetMax(p)
    BY <1>1, <2>2 DEF SetMax, Goes, SnapTypes, Doings, WithSnapshot
  <2>3. CASE SnapshotError(p)
    <3>1. NothingRead \in [Paths -> Versions]
      BY DEF NothingRead, Versions
    <3> QED
      BY <1>1, <2>3, <3>1 DEF SnapshotError, Goes, SnapTypes, Doings, WithSnapshot
  <2> QED
    BY <1>12, <2>1, <2>2, <2>3
<1>13. CASE EditPath
  <2>1. workspace' \in [Paths -> Versions]
    BY <1>13 DEF EditPath, SnapTypes, Versions
  <2> QED
    BY <1>1, <1>13, <2>1 DEF EditPath, SnapTypes
<1>14. CASE NextSecond
  BY <1>1, <1>14, SnapshotAssumption DEF NextSecond, SnapTypes
<1> QED
  BY <1>1, <1>2, <1>3, <1>4, <1>5, <1>6, <1>7, <1>8, <1>9, <1>10, <1>11, <1>12, <1>13, <1>14
  DEF SnapNext, SnapTypes

\* What a step makes of what is stored under an id.
LEMMA StoredSteps ==
    ASSUME SnapTypes, StoreTrue, SnapNext, NEW i \in Ids
    PROVE  \/ stored'[i] = stored[i]
           \/ stored'[i] = 0 /\ stored[i] \in deleted'
           \/ stored'[i] = 0 /\ \E p \in Managers : PruneOne(p) /\ i \in todo[p]
           \/ \E p \in Managers : StoreSnapshot(p) /\ made[mine[p]].id = i /\ stored'[i] = mine[p]
           \/ \E p \in Managers : /\ WriteBack(p) /\ i \in todo[p]
                                  /\ stored'[i] = made[mine[p]].older[i]
<1>1. stored \in [Ids -> Nat]
  BY DEF SnapTypes
<1>2. ASSUME NEW p \in Managers, StoreSnapshot(p)
      PROVE  stored'[i] = stored[i] \/ (made[mine[p]].id = i /\ stored'[i] = mine[p])
  BY <1>1, <1>2 DEF StoreSnapshot
<1>3. ASSUME NEW p \in Managers, WriteBack(p)
      PROVE  stored'[i] = stored[i] \/ (i \in todo[p] /\ stored'[i] = made[mine[p]].older[i])
  <2>1. PICK f \in todo[p] :
          stored' = IF f \in Ids THEN [stored EXCEPT ![f] = made[mine[p]].older[f]] ELSE stored
    BY <1>3 DEF WriteBack
  <2> QED
    BY <1>1, <2>1
<1>4. ASSUME NEW p \in Managers, PruneOne(p)
      PROVE  stored'[i] = stored[i] \/ (stored'[i] = 0 /\ i \in todo[p])
  <2>1. PICK j \in todo[p] : stored' = stored \/ stored' = [stored EXCEPT ![j] = 0]
    BY <1>4 DEF PruneOne
  <2> QED
    BY <1>1, <2>1
<1>7. ASSUME NEW p \in Managers, DeleteSnapshot(p)
      PROVE  stored'[i] = stored[i] \/ (stored'[i] = 0 /\ stored[i] \in deleted')
  BY <1>1, <1>7 DEF DeleteSnapshot
<1>5. CASE stored' = stored
  BY <1>5
<1>6. \/ stored' = stored
      \/ \E p \in Managers : StoreSnapshot(p) \/ WriteBack(p) \/ PruneOne(p) \/ DeleteSnapshot(p)
  BY DEF SnapNext, BeginSnapshot, ReadPath, NameSnapshot, ListSnapshots,
         Pruned, ReadBack, BeginRestore, Restored, BeginCompare, ComparePath, Compared,
         SetMax, SnapshotError, EditPath, NextSecond
<1> QED
  BY <1>2, <1>3, <1>4, <1>5, <1>6, <1>7

LEMMA StoreTrueStep ==
    ASSUME SnapTypes, StoreTrue, SnapNext
    PROVE  StoreTrue'
<1>1. /\ made' \in Seq(Shots) /\ Len(made) <= Len(made')
      /\ \A n \in 1..Len(made) : n \in 1..Len(made') /\ made'[n] = made[n]
      /\ written \subseteq written'
  BY MadeGrows
<1>2. \A n, i : IsOf(n, i) => IsOf(n, i)'
  BY <1>1 DEF IsOf, StoreTrue
<1>3. ASSUME NEW p \in Managers, StoreSnapshot(p)
      PROVE  /\ mine[p] \in 1..Len(made) /\ made' = made
             /\ written' = written \cup {mine[p]}
  BY <1>3 DEF StoreSnapshot, SnapTypes, Doings, WithSnapshot
<1>4. written' \subseteq 1..Len(made')
  <2>1. CASE written' = written
    BY <1>1, <2>1 DEF StoreTrue
  <2>2. written' = written \/ \E p \in Managers : StoreSnapshot(p)
    BY DEF SnapNext, BeginSnapshot, ReadPath, NameSnapshot, ListSnapshots, PruneOne,
           Pruned, ReadBack, BeginRestore, WriteBack, Restored, BeginCompare, ComparePath, Compared,
           DeleteSnapshot, SetMax, SnapshotError, EditPath, NextSecond
  <2> QED
    BY <1>1, <1>3, <2>1, <2>2 DEF StoreTrue
<1>5. ASSUME NEW i \in Ids, stored'[i] # 0
      PROVE  IsOf(stored[i], i)'
  <2>1. CASE stored'[i] = stored[i]
    BY <1>2, <1>5, <2>1 DEF StoreTrue, IsOf
  <2>2. ASSUME NEW p \in Managers, StoreSnapshot(p), made[mine[p]].id = i, stored'[i] = mine[p]
        PROVE  IsOf(stored[i], i)'
    BY <1>3, <2>2 DEF IsOf
  <2>3. ASSUME NEW p \in Managers, WriteBack(p), stored'[i] = made[mine[p]].older[i]
        PROVE  IsOf(stored[i], i)'
    <3>1. mine[p] \in 1..Len(made)
      BY <2>3 DEF WriteBack, SnapTypes, Doings, WithSnapshot
    <3>2. IsOf(made[mine[p]].older[i], i)
      BY <1>5, <2>3, <3>1 DEF StoreTrue
    <3> QED
      BY <1>2, <2>3, <3>2 DEF IsOf
  <2> QED
    BY <1>5, <2>1, <2>2, <2>3, StoredSteps
<1>6. ASSUME NEW n \in 1..Len(made'), NEW i \in Ids, made'[n].older[i] # 0
      PROVE  IsOf(made[n].older[i], i)'
  <2>1. CASE n \in 1..Len(made)
    BY <1>1, <1>2, <1>6, <2>1 DEF StoreTrue, IsOf
  <2>2. CASE n \notin 1..Len(made)
    <3>1. \/ made' = made
          \/ \E p \in Managers, d \in Names :
               made' = Append(made, [id |-> <<second, d>>, files |-> got[p], older |-> stored])
      BY DEF SnapNext, BeginSnapshot, ReadPath, NameSnapshot, StoreSnapshot, ListSnapshots, PruneOne,
             Pruned, ReadBack, BeginRestore, WriteBack, Restored, BeginCompare, ComparePath, Compared,
             DeleteSnapshot, SetMax, SnapshotError, EditPath, NextSecond
    <3>2. made' # made
      BY <2>2
    <3>3. made \in Seq(Shots)
      BY DEF SnapTypes
    <3>4. PICK p \in Managers, d \in Names :
            made' = Append(made, [id |-> <<second, d>>, files |-> got[p], older |-> stored])
      BY <3>1, <3>2
    <3>5. n = Len(made) + 1
      BY <2>2, <3>3, <3>4
    <3>6. made'[n] = [id |-> <<second, d>>, files |-> got[p], older |-> stored]
      BY <3>3, <3>4, <3>5
    <3> QED
      BY <1>2, <1>6, <3>6 DEF StoreTrue, IsOf
  <2> QED
    BY <2>1, <2>2
<1> QED
  BY <1>4, <1>5, <1>6 DEF StoreTrue

-----------------------------------------------------------------------------
(* Snapshots: what a manager that nobody disturbs may rely on.             *)

Own(p) ==
    \/ BeginSnapshot(p) \/ ReadPath(p) \/ NameSnapshot(p) \/ StoreSnapshot(p)
    \/ ListSnapshots(p) \/ PruneOne(p) \/ Pruned(p) \/ ReadBack(p)
    \/ BeginRestore(p) \/ WriteBack(p) \/ Restored(p)
    \/ BeginCompare(p) \/ ComparePath(p) \/ Compared(p)
    \/ DeleteSnapshot(p) \/ SetMax(p) \/ SnapshotError(p)

Undisturbed(p) ==
    undisturbed'[p] => undisturbed[p] /\ workspace' = workspace /\ stored' = stored

\* The steps of others leave a manager's own state alone, and what they change
\* of the work tree or of the store disturbs it.
LEMMA OthersSteps ==
    ASSUME SnapTypes, SnapNext, NEW p \in Managers, ~ Own(p)
    PROVE  /\ doing'[p] = doing[p] /\ mine'[p] = mine[p] /\ todo'[p] = todo[p]
           /\ max_snapshots'[p] = max_snapshots[p]
           /\ Undisturbed(p)
<1> DEFINE Same == /\ doing'[p] = doing[p] /\ mine'[p] = mine[p] /\ todo'[p] = todo[p]
                       /\ max_snapshots'[p] = max_snapshots[p] /\ Undisturbed(p)
<1>1. ASSUME NEW q \in Managers, q # p, BeginSnapshot(q) \/ BeginRestore(q) \/ BeginCompare(q)
      PROVE  Same
  BY <1>1 DEF BeginSnapshot, BeginRestore, BeginCompare, Began, Goes, SnapTypes, Undisturbed
<1>2. ASSUME NEW q \in Managers, q # p,
             \/ ReadPath(q) \/ NameSnapshot(q) \/ ListSnapshots(q) \/ Pruned(q) \/ ReadBack(q)
             \/ Restored(q) \/ ComparePath(q) \/ Compared(q) \/ SetMax(q) \/ SnapshotError(q)
      PROVE  Same
  <2>1. UNCHANGED <<workspace, stored, undisturbed>>
    BY <1>2 DEF ReadPath, NameSnapshot, ListSnapshots, Pruned, ReadBack, Restored, ComparePath,
                Compared, SetMax, SnapshotError
  <2>2. /\ doing' = doing \/ \E label \in Doings : doing' = [doing EXCEPT ![q] = label]
        /\ mine' = mine \/ mine' = [mine EXCEPT ![q] = Len(made')]
        /\ todo' = todo \/ \E items \in SUBSET (Paths \cup Ids) : todo' = [todo EXCEPT ![q] = items]
        /\ \/ max_snapshots' = max_snapshots
           \/ \E n \in Limits : max_snapshots' = [max_snapshots EXCEPT ![q] = n]
    <3>1. todo[q] \subseteq Paths \cup Ids /\ ToRemove(q) \subseteq Paths \cup Ids
      BY DEF SnapTypes, ToRemove, Oldest, Kept
    <3>2. CASE ReadPath(q) \/ ComparePath(q)
      <4>1. \E f \in todo[q] : todo' = [todo EXCEPT ![q] = todo[q] \ {f}]
        BY <3>2 DEF ReadPath, ComparePath
      <4>2. UNCHANGED <<mine, max_snapshots>>
            /\ (doing' = doing \/ doing' = [doing EXCEPT ![q] = doing[q]]
                \/ doing' = [doing EXCEPT ![q] = "differs"])
        BY <3>2 DEF ReadPath, ComparePath, Goes
      <4> QED
        BY <3>1, <4>1, <4>2 DEF SnapTypes, Doings
    <3>3. CASE ListSnapshots(q) \/ NameSnapshot(q)
      BY <3>1, <3>3 DEF ListSnapshots, NameSnapshot, Goes, Doings
    <3>4. CASE Pruned(q) \/ ReadBack(q) \/ Restored(q) \/ Compared(q) \/ SetMax(q) \/ SnapshotError(q)
      BY <3>4 DEF Pruned, ReadBack, Restored, Compared, SetMax, SnapshotError, Goes, Doings
    <3> QED
      BY <1>2, <3>2, <3>3, <3>4
  <2> QED
    BY <1>2, <2>1, <2>2 DEF SnapTypes, Undisturbed
<1>3. ASSUME NEW q \in Managers, q # p,
             StoreSnapshot(q) \/ PruneOne(q) \/ WriteBack(q) \/ DeleteSnapshot(q)
      PROVE  Same
  <2>1. Changed(q) \/ UNCHANGED <<workspace, stored, undisturbed>>
    BY <1>3 DEF StoreSnapshot, PruneOne, WriteBack, DeleteSnapshot
  <2>2. Undisturbed(p)
    BY <1>3, <2>1 DEF Changed, Undisturbed
  <2>3. UNCHANGED <<mine, max_snapshots>>
    BY <1>3 DEF StoreSnapshot, PruneOne, WriteBack, DeleteSnapshot
  <2>4. doing'[p] = doing[p] /\ todo'[p] = todo[p]
    BY <1>3 DEF StoreSnapshot, PruneOne, WriteBack, DeleteSnapshot, Goes, SnapTypes
  <2> QED
    BY <2>2, <2>3, <2>4
<1>4. CASE EditPath \/ NextSecond
  BY <1>4 DEF EditPath, NextSecond, Undisturbed
<1> HIDE DEF Same
<1>5. ASSUME NEW q \in Managers, Own(q)
      PROVE  Same
  BY <1>1, <1>2, <1>3, <1>5 DEF Own
<1>6. (EditPath \/ NextSecond) \/ \E q \in Managers : Own(q)
  BY DEF SnapNext, Own
<1> QED
  BY <1>4, <1>5, <1>6 DEF Same

File(p, f) == made[mine[p]].files[f]

RestoreInv(p) ==
    /\ doing[p] = "restore" => \A i \in todo[p] \cap Ids : made[mine[p]].older[i] # 0
    /\ doing[p] = "restored" => todo[p] = {}
    /\ doing[p] \in {"compare", "differs"} => todo[p] \subseteq Paths
    /\ undisturbed[p] =>
          /\ doing[p] \in {"restore", "restored"}
                => \A f \in Paths \ todo[p] : File(p, f) \in {NoFile, workspace[f]}
          /\ doing[p] = "compare" => \A f \in Paths \ todo[p] : workspace[f] = File(p, f)
          /\ doing[p] = "valid" => \A f \in Paths : workspace[f] = File(p, f)
          /\ doing[p] \in {"differs", "stale"} => \E f \in Paths : workspace[f] # File(p, f)

\* The state of a manager that stays where it is.
LEMMA RestoreStays ==
    ASSUME SnapTypes, SnapNext, NEW p \in Managers, RestoreInv(p), Undisturbed(p),
           doing'[p] = doing[p], mine'[p] = mine[p], todo'[p] = todo[p]
    PROVE  RestoreInv(p)'
<1>1. doing[p] \in WithSnapshot => made'[mine'[p]] = made[mine[p]]
  BY MadeGrows DEF SnapTypes
<1>2. doing[p] \in WithSnapshot => /\ \A f : File(p, f)' = File(p, f)
                                   /\ \A i : made'[mine'[p]].older[i] = made[mine[p]].older[i]
  BY <1>1 DEF File
<1>3. \A label \in {"restore", "restored", "compare", "differs", "valid", "stale"} :
        doing[p] = label => doing[p] \in WithSnapshot
  BY DEF WithSnapshot, Doings
<1> QED
  BY <1>2, <1>3 DEF RestoreInv, Undisturbed

LEMMA RestoreOwn ==
    ASSUME SnapTypes, StoreTrue, NEW p \in Managers, RestoreInv(p), Own(p)
    PROVE  RestoreInv(p)'
<1> DEFINE Labels == {"restore", "restored", "compare", "differs", "valid", "stale"}
<1>1. CASE \/ BeginSnapshot(p) \/ ReadPath(p) \/ NameSnapshot(p) \/ StoreSnapshot(p)
           \/ ListSnapshots(p) \/ PruneOne(p) \/ Pruned(p) \/ ReadBack(p)
           \/ DeleteSnapshot(p) \/ SetMax(p) \/ SnapshotError(p)
  <2>1. doing'[p] \notin Labels
    BY <1>1 DEF BeginSnapshot, ReadPath, NameSnapshot, StoreSnapshot, ListSnapshots, PruneOne,
                Pruned, ReadBack, DeleteSnapshot, SetMax, SnapshotError, Began, Goes, SnapTypes
  <2> QED
    BY <2>1 DEF RestoreInv
<1>2. CASE BeginRestore(p)
  <2>1. PICK i \in Kept : mine' = [mine EXCEPT ![p] = stored[i]] /\ Began(p, "restore", Captured(stored[i]))
    BY <1>2 DEF BeginRestore
  <2>2. /\ mine'[p] = stored[i] /\ doing'[p] = "restore" /\ todo'[p] = Captured(stored[i])
        /\ made' = made
    BY <1>2, <2>1 DEF BeginRestore, Began, Goes, SnapTypes
  <2>3. ASSUME NEW j \in todo'[p] \cap Ids
        PROVE  made[stored[i]].older[j] # 0
    BY <2>2, <2>3, PathsAreNotIds DEF Captured
  <2>4. ASSUME NEW f \in Paths \ todo'[p]
        PROVE  File(p, f)' = NoFile
    BY <2>2, <2>4 DEF Captured, File
  <2> QED
    BY <2>2, <2>3, <2>4 DEF RestoreInv
<1>3. CASE WriteBack(p)
  <2>1. PICK f \in todo[p] :
          /\ workspace' = IF f \in Paths
                          THEN [workspace EXCEPT ![f] = made[mine[p]].files[f]] ELSE workspace
          /\ todo' = [todo EXCEPT ![p] = @ \ {f}]
    BY <1>3 DEF WriteBack
  <2>2. /\ doing[p] = "restore" /\ doing' = doing /\ mine' = mine /\ made' = made
        /\ todo'[p] = todo[p] \ {f} /\ undisturbed'[p] = undisturbed[p]
    BY <1>3, <2>1 DEF WriteBack, Changed, SnapTypes
  <2>3. ASSUME NEW g \in Paths \ todo'[p], undisturbed[p]
        PROVE  File(p, g) \in {NoFile, workspace'[g]}
    <3>1. CASE g = f
      BY <2>1, <2>3, <3>1 DEF File, SnapTypes
    <3>2. CASE g # f
      <4>1. workspace'[g] = workspace[g] /\ g \notin todo[p]
        BY <2>1, <2>2, <2>3, <3>2 DEF SnapTypes
      <4> QED
        BY <2>2, <2>3, <4>1 DEF RestoreInv
    <3> QED
      BY <3>1, <3>2
  <2>4. \A g : File(p, g)' = File(p, g)
    BY <2>2 DEF File
  <2> QED
    BY <2>2, <2>3, <2>4 DEF RestoreInv
<1>4. CASE Restored(p)
  <2>1. /\ doing[p] = "restore" /\ doing'[p] = "restored" /\ todo[p] = {}
        /\ UNCHANGED <<workspace, made, mine, todo, undisturbed>>
    BY <1>4 DEF Restored, Goes, SnapTypes
  <2> QED
    BY <2>1 DEF RestoreInv, File
<1>5. CASE BeginCompare(p)
  <2>1. doing'[p] = "compare" /\ todo'[p] = Paths
    BY <1>5 DEF BeginCompare, Began, Goes, SnapTypes
  <2> QED
    BY <2>1 DEF RestoreInv
<1>6. CASE ComparePath(p)
  <2>1. PICK f \in todo[p] :
          /\ todo' = [todo EXCEPT ![p] = @ \ {f}]
          /\ Goes(p, IF workspace[f] = made[mine[p]].files[f] THEN doing[p] ELSE "differs")
    BY <1>6 DEF ComparePath
  <2>2. /\ doing[p] \in {"compare", "differs"} /\ todo'[p] = todo[p] \ {f}
        /\ doing'[p] = IF workspace[f] = File(p, f) THEN doing[p] ELSE "differs"
        /\ UNCHANGED <<workspace, made, mine, undisturbed>>
    BY <1>6, <2>1 DEF ComparePath, Goes, SnapTypes, File
  <2>3. f \in Paths
    BY <2>2 DEF RestoreInv
  <2>4. \A g : File(p, g)' = File(p, g)
    BY <2>2 DEF File
  <2>5. CASE workspace[f] = File(p, f)
    BY <2>2, <2>3, <2>4, <2>5 DEF RestoreInv
  <2>6. CASE workspace[f] # File(p, f)
    BY <2>2, <2>3, <2>4, <2>6 DEF RestoreInv
  <2> QED
    BY <2>5, <2>6
<1>7. CASE Compared(p)
  <2>1. /\ doing[p] \in {"compare", "differs"} /\ todo[p] = {}
        /\ doing'[p] = IF doing[p] = "compare" THEN "valid" ELSE "stale"
        /\ UNCHANGED <<workspace, made, mine, todo, undisturbed>>
    BY <1>7 DEF Compared, Goes, SnapTypes
  <2>2. \A g : File(p, g)' = File(p, g)
    BY <2>1 DEF File
  <2> QED
    BY <2>1, <2>2 DEF RestoreInv
<1> QED
  BY <1>1, <1>2, <1>3, <1>4, <1>5, <1>6, <1>7 DEF Own

RestoreInvs == SnapTypes /\ StoreTrue /\ \A p \in Managers : RestoreInv(p)

LEMMA RestoreInvariant == SnapSpec => []RestoreInvs
<1>1. ASSUME SnapInit PROVE RestoreInvs
  <2>1. SnapTypes /\ StoreTrue
    BY <1>1, SnapInitTypes
  <2>2. ASSUME NEW p \in Managers PROVE RestoreInv(p)
    BY <1>1 DEF SnapInit, RestoreInv
  <2> QED
    BY <2>1, <2>2 DEF RestoreInvs
<1>2. ASSUME RestoreInvs, SnapNext PROVE RestoreInvs'
  <2>1. SnapTypes /\ StoreTrue
    BY <1>2 DEF RestoreInvs
  <2>2. SnapTypes' /\ StoreTrue'
    BY <1>2, <2>1, SnapTypesStep, StoreTrueStep
  <2>3. ASSUME NEW p \in Managers PROVE RestoreInv(p)'
    <3>1. RestoreInv(p)
      BY <1>2 DEF RestoreInvs
    <3>2. CASE Own(p)
      BY <2>1, <3>1, <3>2, RestoreOwn
    <3>3. CASE ~ Own(p)
      BY <1>2, <2>1, <3>1, <3>3, OthersSteps, RestoreStays
    <3> QED
      BY <3>2, <3>3
  <2> QED
    BY <2>2, <2>3 DEF RestoreInvs
<1>3. ASSUME RestoreInvs, UNCHANGED snapVars PROVE RestoreInvs'
  BY <1>3 DEF RestoreInvs, RestoreInv, SnapTypes, StoreTrue, IsOf, File, snapVars
<1> QED
  BY <1>1, <1>2, <1>3, PTL DEF SnapSpec

\* For any files, managers, names and limits: a restore that nobody disturbed
\* leaves what was captured, and an undisturbed comparison answers for all the
\* files at once (snapshot.rs:950, 848).
THEOREM RestoredOrTold == SnapSpec => []RestoreAndCompare
<1>1. ASSUME RestoreInvs PROVE RestoreAndCompare
  <2>1. ASSUME NEW p \in Managers, doing[p] = "restored", undisturbed[p], NEW f \in Paths
        PROVE  made[mine[p]].files[f] \in {NoFile, workspace[f]}
    BY <1>1, <2>1 DEF RestoreInvs, RestoreInv, File
  <2>2. ASSUME NEW p \in Managers, doing[p] \in {"valid", "stale"}, undisturbed[p]
        PROVE  (doing[p] = "valid") = (workspace = made[mine[p]].files)
    <3>1. mine[p] \in 1..Len(made) /\ made \in Seq(Shots)
      BY <1>1, <2>2 DEF RestoreInvs, SnapTypes, Doings, WithSnapshot
    <3>2. made[mine[p]] \in Shots
      BY <3>1
    <3>3. made[mine[p]].files \in [Paths -> Versions] /\ workspace \in [Paths -> Versions]
      BY <1>1, <3>2 DEF RestoreInvs, SnapTypes, Shots
    <3>4. doing[p] = "valid" => \A f \in Paths : workspace[f] = made[mine[p]].files[f]
      BY <1>1, <2>2 DEF RestoreInvs, RestoreInv, File
    <3>5. doing[p] = "stale" => \E f \in Paths : workspace[f] # made[mine[p]].files[f]
      BY <1>1, <2>2 DEF RestoreInvs, RestoreInv, File
    <3>6. doing[p] = "valid" => workspace = made[mine[p]].files
      BY <3>3, <3>4
    <3>7. doing[p] = "stale" => workspace # made[mine[p]].files
      BY <3>5
    <3> QED
      BY <2>2, <3>6, <3>7
  <2> QED
    BY <2>1, <2>2 DEF RestoreAndCompare
<1> QED
  BY <1>1, RestoreInvariant, PTL

-----------------------------------------------------------------------------
(* Snapshots: what pruning takes.                                          *)

\* No two ids have the same snapshot, and there are no more than were stored.
LEMMA KeptAreWritten ==
    ASSUME SnapTypes, StoreTrue, NEW S \in SUBSET Kept, NEW W \in SUBSET written,
           \A i \in S : stored[i] \in W
    PROVE  /\ IsFiniteSet(W) /\ Cardinality(W) \in Nat
           /\ IsFiniteSet(S) /\ Cardinality(S) \in Nat /\ Cardinality(S) <= Cardinality(W)
           /\ \A i, j \in S : stored[i] = stored[j] => i = j
<1> DEFINE num == [i \in S |-> stored[i]]
<1>1. IsFiniteSet(W) /\ Cardinality(W) \in Nat
  <2>1. IsFiniteSet(1..Len(made))
    BY FS_Interval DEF SnapTypes
  <2>2. W \in SUBSET (1..Len(made))
    BY DEF StoreTrue
  <2> QED
    BY <2>1, <2>2, FS_Subset, FS_CardinalityType
<1>2. ASSUME NEW i \in S, NEW j \in S, stored[i] = stored[j]
      PROVE  i = j
  BY <1>2 DEF Kept, StoreTrue, IsOf
<1>3. num \in Injection(S, W)
  <2>1. num \in [S -> W] /\ \A i \in S : num[i] = stored[i]
    OBVIOUS
  <2> HIDE DEF num
  <2>2. \A i, j \in S : num[i] = num[j] => i = j
    BY <1>2, <2>1
  <2> QED
    BY <2>1, <2>2, Fun_IsInj
<1> HIDE DEF num
<1>4. IsFiniteSet(S) /\ Cardinality(S) <= Cardinality(W)
  BY <1>1, <1>3, FS_Injection
<1> QED
  BY <1>1, <1>2, <1>4, FS_CardinalityType

Least == CHOOSE n \in Limits \ {0} : \A k \in Limits \ {0} : n <= k

LEMMA LeastLimit ==
    ASSUME NEW n \in Limits, n > 0
    PROVE  Least \in Nat /\ Least <= n
<1>1. Limits \ {0} \in SUBSET Nat /\ n \in Limits \ {0}
  BY SnapshotAssumption
<1>2. \E m \in Limits \ {0} : \A k \in Limits \ {0} : m <= k
  BY <1>1, LeastNumber
<1> QED
  BY <1>1, <1>2 DEF Least

NewerThan(k) == {m \in written : m > k}
TooOld(k) == (\E n \in Limits : n > 0) /\ Cardinality(NewerThan(k)) >= Least

\* What was too old stays so.
LEMMA AgeGrows ==
    ASSUME SnapTypes, StoreTrue, StoreTrue', SnapTypes', SnapNext, NEW k, TooOld(k)
    PROVE  TooOld(k)'
<1>1. NewerThan(k) \in SUBSET NewerThan(k)'
  BY MadeGrows DEF NewerThan
<1>2. IsFiniteSet(NewerThan(k)')
  <2>1. IsFiniteSet(1..Len(made'))
    BY FS_Interval DEF SnapTypes
  <2>2. NewerThan(k)' \in SUBSET (1..Len(made'))
    BY DEF NewerThan, StoreTrue
  <2> QED
    BY <2>1, <2>2, FS_Subset
<1>3. /\ Cardinality(NewerThan(k)) \in Nat /\ Cardinality(NewerThan(k)') \in Nat
      /\ Cardinality(NewerThan(k)) <= Cardinality(NewerThan(k)')
  BY <1>1, <1>2, FS_Subset, FS_CardinalityType
<1>4. Least \in Nat
  BY LeastLimit DEF TooOld
<1> QED
  BY <1>3, <1>4 DEF TooOld

Listed(i) == \E k \in written : made[k].id = i /\ TooOld(k)

PruneInv(p) ==
    /\ doing[p] \in {"list", "prune"} => max_snapshots[p] > 0
    /\ doing[p] = "prune" => \A i \in todo[p] : i \in Ids /\ Listed(i)

Accounted(n) ==
    \/ stored[made[n].id] = n
    \/ n \in deleted
    \/ \E m \in 1..Len(made) : m # n /\ made[m].id = made[n].id
    \/ TooOld(n)

\* What a manager puts on its list is too old for every limit.
LEMMA ListedTooOld ==
    ASSUME SnapTypes, StoreTrue, NEW p \in Managers, max_snapshots[p] > 0, NEW i \in ToRemove(p)
    PROVE  i \in Ids /\ Listed(i)
<1> DEFINE above == {j \in Kept : stored[j] > stored[i]}
<1>1. i \in Kept /\ Cardinality(above) >= max_snapshots[p]
  BY DEF ToRemove, Oldest
<1>2. i \in Ids /\ stored[i] \in written /\ made[stored[i]].id = i
  BY <1>1 DEF Kept, StoreTrue, IsOf
<1>3. Cardinality(above) \in Nat /\ Cardinality(NewerThan(stored[i])) \in Nat
      /\ Cardinality(above) <= Cardinality(NewerThan(stored[i]))
  <2>1. above \in SUBSET Kept /\ NewerThan(stored[i]) \in SUBSET written
    BY DEF NewerThan
  <2>2. \A j \in above : stored[j] \in NewerThan(stored[i])
    BY DEF Kept, StoreTrue, IsOf, NewerThan
  <2> HIDE DEF above
  <2> QED
    BY <2>1, <2>2, KeptAreWritten
<1>4. max_snapshots[p] \in Limits /\ max_snapshots[p] \in Nat
  BY SnapshotAssumption DEF SnapTypes
<1>5. Least \in Nat /\ Least <= max_snapshots[p]
  BY <1>4, LeastLimit
<1> HIDE DEF above
<1>6. TooOld(stored[i])
  BY <1>1, <1>3, <1>4, <1>5 DEF TooOld
<1> QED
  BY <1>2, <1>6 DEF Listed

LEMMA ListedStays ==
    ASSUME SnapTypes, StoreTrue, StoreTrue', SnapTypes', SnapNext, NEW i, Listed(i)
    PROVE  Listed(i)'
<1>1. PICK k \in written : made[k].id = i /\ TooOld(k)
  BY DEF Listed
<1>2. k \in written' /\ made'[k] = made[k] /\ TooOld(k)'
  BY <1>1, MadeGrows, AgeGrows DEF StoreTrue
<1> QED
  BY <1>1, <1>2 DEF Listed

LEMMA PruneStep ==
    ASSUME SnapTypes, StoreTrue, StoreTrue', SnapTypes', SnapNext, NEW p \in Managers, PruneInv(p)
    PROVE  PruneInv(p)'
<1>1. CASE ~ Own(p)
  <2>1. /\ doing'[p] = doing[p] /\ todo'[p] = todo[p] /\ max_snapshots'[p] = max_snapshots[p]
    BY <1>1, OthersSteps
  <2> QED
    BY <2>1, ListedStays DEF PruneInv
<1>2. CASE StoreSnapshot(p)
  <2>1. /\ max_snapshots' = max_snapshots
        /\ doing'[p] = IF max_snapshots[p] > 0 THEN "list" ELSE "read"
    BY <1>2 DEF StoreSnapshot, Goes, SnapTypes
  <2> QED
    BY <2>1 DEF PruneInv
<1>3. CASE ListSnapshots(p)
  <2>1. /\ doing[p] = "list" /\ doing'[p] = "prune" /\ todo'[p] = ToRemove(p)
        /\ max_snapshots' = max_snapshots
    BY <1>3 DEF ListSnapshots, Goes, SnapTypes
  <2> QED
    BY <2>1, ListedTooOld, ListedStays DEF PruneInv
<1>4. CASE PruneOne(p)
  <2>1. /\ doing[p] = "prune" /\ max_snapshots' = max_snapshots
        /\ todo'[p] \subseteq todo[p] /\ doing'[p] \in {"prune", "failed"}
    <3>1. PICK i \in todo[p] :
            IF stored[i] = 0
            THEN doing' = [doing EXCEPT ![p] = "failed"] /\ todo' = [todo EXCEPT ![p] = {}]
            ELSE todo' = [todo EXCEPT ![p] = @ \ {i}] /\ UNCHANGED doing
      BY <1>4 DEF PruneOne, Goes
    <3>2. CASE stored[i] = 0
      BY <1>4, <3>1, <3>2 DEF PruneOne, SnapTypes
    <3>3. CASE stored[i] # 0
      BY <1>4, <3>1, <3>3 DEF PruneOne, SnapTypes
    <3> QED
      BY <3>2, <3>3
  <2> QED
    BY <2>1, ListedStays DEF PruneInv
<1>5. CASE /\ Own(p)
           /\ ~ (StoreSnapshot(p) \/ ListSnapshots(p) \/ PruneOne(p))
  <2>1. doing'[p] \notin {"list", "prune"}
    BY <1>5 DEF Own, BeginSnapshot, ReadPath, NameSnapshot,
                Pruned, ReadBack, BeginRestore, WriteBack, Restored, BeginCompare, ComparePath,
                Compared, DeleteSnapshot, SetMax, SnapshotError, Began, Goes, SnapTypes
  <2> QED
    BY <2>1 DEF PruneInv
<1> QED
  BY <1>1, <1>2, <1>3, <1>4, <1>5

LEMMA AccountedStep ==
    ASSUME SnapTypes, StoreTrue, StoreTrue', SnapTypes', SnapNext,
           \A p \in Managers : RestoreInv(p) /\ PruneInv(p),
           NEW n \in written', n \in written => Accounted(n)
    PROVE  Accounted(n)'
<1>1. /\ \A m \in 1..Len(made) : m \in 1..Len(made') /\ made'[m] = made[m]
      /\ deleted \subseteq deleted'
  BY MadeGrows
<1>2. CASE n \in written /\ \/ n \in deleted
                            \/ \E m \in 1..Len(made) : m # n /\ made[m].id = made[n].id
                            \/ TooOld(n)
  BY <1>1, <1>2, AgeGrows DEF Accounted, StoreTrue
<1>3. CASE n \in written /\ stored[made[n].id] = n
  <2> DEFINE i == made[n].id
  <2>1. n \in 1..Len(made) /\ made'[n] = made[n]
    BY <1>1, <1>3 DEF StoreTrue
  <2>2. i \in Ids
    <3>1. made[n] \in Shots
      BY <2>1 DEF SnapTypes
    <3> QED
      BY <3>1 DEF Shots
  <2> HIDE DEF i
  <2>3. stored[i] = n /\ made[n].id = i
    BY <1>3 DEF i
  <2>4. CASE stored'[i] = stored[i] \/ stored[i] \in deleted'
    BY <2>1, <2>3, <2>4 DEF Accounted
  <2>5. ASSUME NEW p \in Managers, PruneOne(p), i \in todo[p]
        PROVE  Accounted(n)'
    <3>1. PICK k \in written : made[k].id = i /\ TooOld(k)
      BY <2>5 DEF PruneOne, PruneInv, Listed
    <3>2. CASE k = n
      BY <3>1, <3>2, AgeGrows DEF Accounted
    <3>3. CASE k # n
      <4>1. k \in 1..Len(made') /\ made'[k].id = i
        BY <1>1, <3>1 DEF StoreTrue
      <4> QED
        BY <2>1, <2>3, <3>3, <4>1 DEF Accounted
    <3> QED
      BY <3>2, <3>3
  <2>6. ASSUME NEW m \in 1..Len(made), made[m].id = i, stored'[i] = m
        PROVE  Accounted(n)'
    BY <1>1, <2>1, <2>3, <2>6 DEF Accounted
  <2>7. ASSUME NEW p \in Managers, StoreSnapshot(p), made[mine[p]].id = i, stored'[i] = mine[p]
        PROVE  Accounted(n)'
    <3>1. mine[p] \in 1..Len(made)
      BY <2>7 DEF StoreSnapshot, SnapTypes, Doings, WithSnapshot
    <3> QED
      BY <2>6, <2>7, <3>1
  <2>8. ASSUME NEW p \in Managers, WriteBack(p), i \in todo[p], stored'[i] = made[mine[p]].older[i]
        PROVE  Accounted(n)'
    <3>1. doing[p] = "restore" /\ mine[p] \in 1..Len(made)
      BY <2>8 DEF WriteBack, SnapTypes, Doings, WithSnapshot
    <3>2. made[mine[p]].older[i] # 0
      BY <2>2, <2>8, <3>1 DEF RestoreInv
    <3>3. IsOf(stored'[i], i)
      BY <2>2, <2>8, <3>1, <3>2 DEF StoreTrue
    <3> QED
      BY <2>6, <3>3 DEF IsOf, StoreTrue
  <2> QED
    BY <2>2, <2>4, <2>5, <2>7, <2>8, StoredSteps
<1>4. CASE n \notin written
  <2>1. PICK p \in Managers : StoreSnapshot(p)
    BY <1>4 DEF SnapNext, BeginSnapshot, ReadPath, NameSnapshot, ListSnapshots, PruneOne,
           Pruned, ReadBack, BeginRestore, WriteBack, Restored, BeginCompare, ComparePath, Compared,
           DeleteSnapshot, SetMax, SnapshotError, EditPath, NextSecond
  <2>2. /\ n = mine[p] /\ n \in 1..Len(made) /\ made' = made
        /\ stored' = [stored EXCEPT ![made[n].id] = n]
    BY <1>4, <2>1 DEF StoreSnapshot, SnapTypes, Doings, WithSnapshot
  <2>3. made[n].id \in Ids
    <3>1. made[n] \in Shots
      BY <2>2 DEF SnapTypes
    <3> QED
      BY <3>1 DEF Shots
  <2> QED
    BY <2>2, <2>3 DEF Accounted, SnapTypes
<1> QED
  BY <1>2, <1>3, <1>4 DEF Accounted

AccountedInvs == (\A p \in Managers : PruneInv(p)) /\ (\A n \in written : Accounted(n))

LEMMA AccountedInvariant == SnapSpec => []AccountedInvs
<1>1. ASSUME SnapInit PROVE AccountedInvs
  BY <1>1 DEF SnapInit, AccountedInvs, PruneInv
<1>2. ASSUME RestoreInvs, RestoreInvs', AccountedInvs, SnapNext PROVE AccountedInvs'
  <2>1. /\ SnapTypes /\ StoreTrue /\ SnapTypes' /\ StoreTrue'
        /\ \A p \in Managers : RestoreInv(p) /\ PruneInv(p)
    BY <1>2 DEF RestoreInvs, AccountedInvs
  <2>2. ASSUME NEW p \in Managers PROVE PruneInv(p)'
    BY <1>2, <2>1, PruneStep
  <2>3. ASSUME NEW n \in written' PROVE Accounted(n)'
    <3>1. n \in written => Accounted(n)
      BY <1>2 DEF AccountedInvs
    <3> QED
      BY <1>2, <2>1, <3>1, AccountedStep
  <2> QED
    BY <2>2, <2>3 DEF AccountedInvs
<1>3. ASSUME AccountedInvs, UNCHANGED snapVars PROVE AccountedInvs'
  <2>1. ASSUME NEW p \in Managers PROVE PruneInv(p)'
    BY <1>3 DEF AccountedInvs, PruneInv, Listed, TooOld, NewerThan, snapVars
  <2>2. ASSUME NEW n \in written' PROVE Accounted(n)'
    <3>1. n \in written /\ Accounted(n) /\ UNCHANGED snapVars
      BY <1>3 DEF AccountedInvs, snapVars
    <3> QED
      BY <3>1 DEF Accounted, TooOld, NewerThan, snapVars
  <2> QED
    BY <2>1, <2>2 DEF AccountedInvs
<1> QED
  BY <1>1, <1>2, <1>3, RestoreInvariant, PTL DEF SnapSpec

\* For any number of managers, each with a limit of its own: a snapshot that is
\* gone was deleted, has given its id to another one, or is older than as many
\* stored ones as the smallest limit (snapshot.rs:1478), whatever the lists
\* that pruning works from missed.
THEOREM NewOnesAreKept == SnapSpec => []KeptWhileNew
<1>1. ASSUME AccountedInvs PROVE KeptWhileNew
  BY <1>1 DEF AccountedInvs, Accounted, TooOld, NewerThan, Least, KeptWhileNew
<1> QED
  BY <1>1, AccountedInvariant, PTL

-----------------------------------------------------------------------------
(* Snapshots: how many remain.                                             *)

MyId(p) == made[mine[p]].id

BoundInv(p) ==
    undisturbed[p] =>
      /\ doing[p] = "write" => \A i \in Ids : stored[i] < mine[p]
      /\ doing[p] \in {"list", "prune", "read", "created"} =>
            stored[MyId(p)] = mine[p] /\ \A i \in Ids : stored[i] <= mine[p]
      /\ doing[p] = "prune" =>
            MyId(p) \notin todo[p] /\ Cardinality(Kept \ todo[p]) <= max_snapshots[p]
      /\ doing[p] \in {"read", "created"} /\ max_snapshots[p] > 0 =>
            Cardinality(Kept) <= max_snapshots[p]

LEMMA BoundStays ==
    ASSUME SnapTypes, SnapNext, NEW p \in Managers, BoundInv(p), Undisturbed(p),
           doing'[p] = doing[p], mine'[p] = mine[p], todo'[p] = todo[p],
           max_snapshots'[p] = max_snapshots[p]
    PROVE  BoundInv(p)'
<1>1. doing[p] \in WithSnapshot => made'[mine'[p]] = made[mine[p]]
  BY MadeGrows DEF SnapTypes
<1>2. doing[p] \in WithSnapshot => MyId(p)' = MyId(p)
  BY <1>1 DEF MyId
<1>3. \A label \in {"list", "prune", "read", "created"} : doing[p] = label => doing[p] \in WithSnapshot
  BY DEF WithSnapshot, Doings
<1>4. undisturbed'[p] => undisturbed[p] /\ stored' = stored /\ Kept' = Kept
  BY DEF Undisturbed, Kept
<1> HIDE DEF Kept
<1> QED
  BY <1>2, <1>3, <1>4 DEF BoundInv

\* The list leaves the manager's own snapshot and no more than its limit.
LEMMA ListLeaves ==
    ASSUME SnapTypes, StoreTrue, NEW p \in Managers, max_snapshots[p] > 0,
           \A i \in Ids : stored[i] <= mine[p], stored[MyId(p)] = mine[p]
    PROVE  /\ MyId(p) \notin ToRemove(p)
           /\ Cardinality(Kept \ ToRemove(p)) <= max_snapshots[p]
<1> DEFINE num == [i \in Kept |-> stored[i]]
           above(i) == {j \in Kept : num[j] > num[i]}
           n == max_snapshots[p]
<1>1. n \in Nat \ {0}
  <2>1. n \in Limits /\ Limits \subseteq Nat /\ n > 0
    BY SnapshotAssumption DEF SnapTypes
  <2> HIDE DEF n
  <2>2. n \in Nat
    BY <2>1
  <2> QED
    BY <2>1, <2>2
<1>2. IsFiniteSet(Kept) /\ \A i, j \in Kept : num[i] = num[j] => i = j
  <2>1. \A i \in Kept : stored[i] \in written
    BY DEF Kept, StoreTrue, IsOf
  <2>2. IsFiniteSet(Kept) /\ \A i, j \in Kept : stored[i] = stored[j] => i = j
    BY <2>1, KeptAreWritten, Zenon
  <2> QED
    BY <2>2
<1>3. num \in [Kept -> Nat]
  BY DEF Kept, SnapTypes
<1>4. \A i \in Kept : above(i) = {j \in Kept : stored[j] > stored[i]}
  OBVIOUS
<1>5. ToRemove(p) = {i \in Kept : Cardinality(above(i)) >= n}
  BY <1>4 DEF ToRemove, Oldest
<1>6. Kept \ ToRemove(p) = {i \in Kept : ~ (Cardinality(above(i)) >= n)}
  BY <1>5
<1>7. Cardinality(Kept \ ToRemove(p)) <= n
  <2> HIDE DEF num, n
  <2>1. Cardinality({i \in Kept : ~ (Cardinality({j \in Kept : num[j] > num[i]}) >= n)}) <= n
    BY <1>1, <1>2, <1>3, FewAreNewest
  <2> QED
    BY <1>6, <2>1
<1>8. MyId(p) \notin ToRemove(p)
  <2>1. SUFFICES ASSUME MyId(p) \in Kept
                 PROVE  ~ (Cardinality(above(MyId(p))) >= n)
    BY <1>5
  <2>2. above(MyId(p)) = {}
    <3>1. ASSUME NEW j \in Kept PROVE ~ (num[j] > num[MyId(p)])
      <4>1. j \in Ids /\ stored[j] \in Nat /\ stored[j] <= mine[p] /\ mine[p] \in Nat
        BY DEF Kept, SnapTypes
      <4>2. num[j] = stored[j] /\ num[MyId(p)] = mine[p]
        BY <2>1
      <4> QED
        BY <4>1, <4>2
    <3> QED
      BY <3>1
  <2>3. Cardinality(above(MyId(p))) = 0
    BY <2>2, FS_EmptySet
  <2> HIDE DEF above
  <2> QED
    BY <1>1, <2>3
<1> QED
  BY <1>7, <1>8

LEMMA BoundOwn ==
    ASSUME SnapTypes, StoreTrue, NEW p \in Managers, PruneInv(p), BoundInv(p), Own(p)
    PROVE  BoundInv(p)'
<1> DEFINE Labels == {"write", "list", "prune", "read", "created"}
<1>1. CASE \/ BeginSnapshot(p) \/ ReadPath(p) \/ BeginRestore(p) \/ WriteBack(p) \/ Restored(p)
           \/ BeginCompare(p) \/ ComparePath(p) \/ Compared(p)
           \/ DeleteSnapshot(p) \/ SetMax(p) \/ SnapshotError(p)
  <2>1. doing'[p] \notin Labels
    BY <1>1 DEF BeginSnapshot, ReadPath, BeginRestore, WriteBack, Restored, BeginCompare, ComparePath,
                Compared, DeleteSnapshot, SetMax, SnapshotError, Began, Goes, SnapTypes
  <2> QED
    BY <2>1 DEF BoundInv
<1>2. CASE NameSnapshot(p)
  <2>1. doing'[p] = "write" /\ stored' = stored /\ mine'[p] = Len(made) + 1
    BY <1>2 DEF NameSnapshot, Goes, SnapTypes
  <2>2. \A i \in Ids : stored[i] \in Nat /\ stored[i] <= Len(made)
    BY DEF SnapTypes, StoreTrue, IsOf
  <2>3. \A i \in Ids : stored'[i] < mine'[p]
    BY <2>1, <2>2 DEF SnapTypes
  <2> QED
    BY <2>1, <2>3 DEF BoundInv
<1>3. CASE StoreSnapshot(p)
  <2>1. /\ doing[p] = "write" /\ UNCHANGED <<made, mine, max_snapshots>>
        /\ stored' = [stored EXCEPT ![MyId(p)] = mine[p]]
        /\ doing'[p] = IF max_snapshots[p] > 0 THEN "list" ELSE "read"
        /\ undisturbed'[p] = undisturbed[p]
    BY <1>3 DEF StoreSnapshot, Goes, Changed, SnapTypes, MyId
  <2>2. mine[p] \in 1..Len(made) /\ made[mine[p]] \in Shots
    <3>1. mine[p] \in 1..Len(made) /\ made \in Seq(Shots)
      BY <2>1 DEF SnapTypes, Doings, WithSnapshot
    <3> QED
      BY <3>1
  <2>3. MyId(p) \in Ids /\ MyId(p)' = MyId(p)
    BY <2>1, <2>2 DEF Shots, MyId
  <2>4. undisturbed[p] => stored'[MyId(p)] = mine[p] /\ \A i \in Ids : stored'[i] <= mine[p]
    BY <2>1, <2>2, <2>3 DEF BoundInv, SnapTypes
  <2> QED
    BY <2>1, <2>3, <2>4 DEF BoundInv
<1>4. CASE ListSnapshots(p)
  <2>1. /\ doing[p] = "list" /\ UNCHANGED <<made, mine, max_snapshots, stored, undisturbed>>
        /\ todo'[p] = ToRemove(p) /\ doing'[p] = "prune"
    BY <1>4 DEF ListSnapshots, Goes, SnapTypes
  <2>2. MyId(p)' = MyId(p) /\ Kept' = Kept
    BY <2>1 DEF MyId, Kept
  <2>3. max_snapshots[p] > 0
    BY <2>1 DEF PruneInv
  <2>4. undisturbed[p] => /\ stored[MyId(p)] = mine[p] /\ \A i \in Ids : stored[i] <= mine[p]
                          /\ MyId(p) \notin ToRemove(p)
                          /\ Cardinality(Kept \ ToRemove(p)) <= max_snapshots[p]
    BY <2>1, <2>3, ListLeaves DEF BoundInv
  <2> HIDE DEF Kept
  <2> QED
    BY <2>1, <2>2, <2>4 DEF BoundInv
<1>5. CASE PruneOne(p)
  <2>1. PICK i \in todo[p] :
          IF stored[i] = 0
          THEN doing' = [doing EXCEPT ![p] = "failed"]
          ELSE /\ stored' = [stored EXCEPT ![i] = 0]
               /\ todo' = [todo EXCEPT ![p] = @ \ {i}]
               /\ Changed(p) /\ UNCHANGED doing
    BY <1>5 DEF PruneOne, Goes
  <2>2. doing[p] = "prune" /\ UNCHANGED <<made, mine, max_snapshots>>
    BY <1>5 DEF PruneOne
  <2>3. CASE stored[i] = 0
    <3>1. doing'[p] = "failed"
      BY <2>1, <2>3 DEF SnapTypes
    <3> QED
      BY <3>1 DEF BoundInv
  <2>4. CASE stored[i] # 0
    <3>1. /\ stored' = [stored EXCEPT ![i] = 0] /\ todo'[p] = todo[p] \ {i}
          /\ undisturbed'[p] = undisturbed[p] /\ doing' = doing
      BY <2>1, <2>4 DEF Changed, SnapTypes
    <3>2. MyId(p)' = MyId(p)
      BY <2>2 DEF MyId
    <3>3. Kept' = Kept \ {i}
      BY <3>1 DEF Kept, SnapTypes
    <3>4. Kept' \ todo'[p] = Kept \ todo[p]
      BY <3>1, <3>3
    <3>5. undisturbed[p] => stored'[MyId(p)] = mine[p] /\ \A j \in Ids : stored'[j] <= mine[p]
      <4>1. undisturbed[p] => /\ stored[MyId(p)] = mine[p] /\ \A j \in Ids : stored[j] <= mine[p]
                              /\ MyId(p) # i
        BY <2>1, <2>2 DEF BoundInv
      <4>2. \A j \in Ids : j # i => stored'[j] = stored[j]
        BY <3>1 DEF SnapTypes
      <4>3. i \in Ids => stored'[i] = 0
        BY <3>1 DEF SnapTypes
      <4>4. mine[p] \in Nat
        BY DEF SnapTypes
      <4>5. MyId(p) \in Ids
        <5>1. mine[p] \in 1..Len(made) /\ made \in Seq(Shots)
          BY <2>2 DEF SnapTypes, Doings, WithSnapshot
        <5>2. made[mine[p]] \in Shots
          BY <5>1
        <5> QED
          BY <5>2 DEF MyId, Shots
      <4> QED
        BY <4>1, <4>2, <4>3, <4>4, <4>5
    <3> HIDE DEF Kept
    <3> QED
      BY <2>2, <3>1, <3>2, <3>4, <3>5 DEF BoundInv
  <2> QED
    BY <2>3, <2>4
<1>6. CASE Pruned(p)
  <2>1. /\ doing[p] = "prune" /\ todo[p] = {} /\ doing'[p] = "read"
        /\ UNCHANGED <<made, mine, max_snapshots, stored, undisturbed>>
    BY <1>6 DEF Pruned, Goes, SnapTypes
  <2>2. MyId(p)' = MyId(p) /\ Kept' = Kept /\ Kept \ todo[p] = Kept
    BY <2>1 DEF MyId, Kept
  <2> HIDE DEF Kept
  <2> QED
    BY <2>1, <2>2 DEF BoundInv
<1>7. CASE ReadBack(p)
  <2>1. /\ doing[p] = "read" /\ doing'[p] \in {"failed", "created"}
        /\ UNCHANGED <<made, mine, max_snapshots, stored, undisturbed>>
    BY <1>7 DEF ReadBack, Goes, SnapTypes
  <2>2. MyId(p)' = MyId(p) /\ Kept' = Kept
    BY <2>1 DEF MyId, Kept
  <2> HIDE DEF Kept
  <2> QED
    BY <2>1, <2>2 DEF BoundInv
<1> QED
  BY <1>1, <1>2, <1>3, <1>4, <1>5, <1>6, <1>7 DEF Own

BoundInvs == \A p \in Managers : BoundInv(p)

LEMMA BoundInvariant == SnapSpec => []BoundInvs
<1>1. ASSUME SnapInit PROVE BoundInvs
  BY <1>1 DEF SnapInit, BoundInvs, BoundInv
<1>2. ASSUME RestoreInvs, AccountedInvs, BoundInvs, SnapNext PROVE BoundInvs'
  <2>1. ASSUME NEW p \in Managers PROVE BoundInv(p)'
    <3>1. SnapTypes /\ StoreTrue /\ PruneInv(p) /\ BoundInv(p)
      BY <1>2 DEF RestoreInvs, AccountedInvs, BoundInvs
    <3>2. CASE Own(p)
      BY <3>1, <3>2, BoundOwn
    <3>3. CASE ~ Own(p)
      BY <1>2, <3>1, <3>3, OthersSteps, BoundStays
    <3> QED
      BY <3>2, <3>3
  <2> QED
    BY <2>1 DEF BoundInvs
<1>3. ASSUME BoundInvs, UNCHANGED snapVars PROVE BoundInvs'
  BY <1>3 DEF BoundInvs, BoundInv, MyId, Kept, snapVars
<1> QED
  BY <1>1, <1>2, <1>3, RestoreInvariant, AccountedInvariant, PTL DEF SnapSpec

\* For every limit and every number of managers: after a snapshot that nobody
\* disturbed no more than the limit remain, and the new one is among them
\* (snapshot.rs:1347).
THEOREM NoMoreThanTheLimit == SnapSpec => []StoreBounded
<1>1. ASSUME BoundInvs PROVE StoreBounded
  BY <1>1 DEF BoundInvs, BoundInv, StoreBounded, MyId
<1> QED
  BY <1>1, BoundInvariant, PTL

-----------------------------------------------------------------------------
(* The structured edits of the Studio: induction over lines and hunks.     *)

\* What holds at the last number, and at each one below with the one above it.
LEMMA Downward ==
    ASSUME NEW G, NEW k \in Nat, NEW m \in Nat, k <= m + 1, m + 1 \in G,
           \A n \in k..m : n + 1 \in G => n \in G
    PROVE  \A n \in k..(m + 1) : n \in G
<1> DEFINE B == {d \in 0..(m + 1 - k) : m + 1 - d \notin G}
<1>1. CASE B = {}
  <2> SUFFICES ASSUME NEW n \in k..(m + 1) PROVE n \in G
    OBVIOUS
  <2>1. m + 1 - n \in 0..(m + 1 - k) /\ m + 1 - (m + 1 - n) = n
    OBVIOUS
  <2>2. m + 1 - (m + 1 - n) \in G
    BY <1>1, <2>1
  <2> QED
    BY <2>1, <2>2
<1>2. CASE B # {}
  <2>1. B \in SUBSET Nat
    OBVIOUS
  <2>2. PICK d \in B : \A c \in B : d <= c
    BY <1>2, <2>1, LeastNumber
  <2>3. d \in 0..(m + 1 - k) /\ d # 0 /\ m + 1 - d \notin G
    BY <2>2
  <2>4. d - 1 \notin B /\ d - 1 \in 0..(m + 1 - k)
    BY <2>1, <2>2, <2>3
  <2>5. m + 1 - (d - 1) \in G
    BY <2>4
  <2>6. m + 1 - d \in k..m /\ (m + 1 - d) + 1 = m + 1 - (d - 1)
    BY <2>3
  <2> QED
    BY <2>3, <2>5, <2>6
<1> QED
  BY <1>1, <1>2

\* What holds of 0, and of each number with the one before it.
LEMMA Upward ==
    ASSUME NEW G, 0 \in G, \A n \in Nat : n \in G => n + 1 \in G
    PROVE  \A n \in Nat : n \in G
<1> DEFINE B == Nat \ G
<1>1. CASE B = {}
  BY <1>1
<1>2. CASE B # {}
  <2>1. PICK n \in B : \A c \in B : n <= c
    BY <1>2, LeastNumber
  <2>2. n # 0 /\ n - 1 \in Nat /\ n - 1 \notin B
    BY <2>1
  <2> QED
    BY <2>1, <2>2
<1> QED
  BY <1>1, <1>2

-----------------------------------------------------------------------------
(* The structured edits of the Studio: all the edits at once.              *)

\* Hunks of lines of L.
Ranged(hs, S, L) ==
    \A i \in S : /\ hs[i].start \in Nat /\ hs[i].end \in Nat /\ hs[i].start <= hs[i].end
                 /\ hs[i].replacement \in Seq(L)

LEMMA PieceType ==
    ASSUME NEW L, NEW ls \in Seq(L), NEW hs, NEW S, Ranged(hs, S, L), NEW n \in 0..Len(ls)
    PROVE  Piece(ls, hs, S, n) \in Seq(L)
<1> DEFINE old == IF n = 0 THEN <<>> ELSE <<ls[n]>>
           c == CHOOSE i \in HunksAt(hs, S, n) : TRUE
<1>1. old \in Seq(L) /\ <<>> \in Seq(L)
  <2>1. n # 0 => ls[n] \in L
    BY ElementOfSeq
  <2> QED
    BY <2>1, EmptySeq
<1>2. CASE HunksAt(hs, S, n) = {}
  BY <1>1, <1>2 DEF Piece
<1>3. CASE HunksAt(hs, S, n) # {}
  <2>1. c \in S
    BY <1>3 DEF HunksAt
  <2>2. hs[c].replacement \in Seq(L)
    BY <2>1 DEF Ranged
  <2> HIDE DEF c, old
  <2>3. old \o hs[c].replacement \in Seq(L)
    BY <1>1, <2>2, ConcatProperties
  <2> QED
    BY <1>1, <2>2, <2>3 DEF Piece, c, old
<1> QED
  BY <1>2, <1>3

\* The lines from each line on are the piece of this one and those from the next.
FromEach(R, ls, hs, S, L) ==
    /\ R[Len(ls) + 1] = <<>>
    /\ \A n \in 0..Len(ls) : R[n] = Piece(ls, hs, S, n) \o R[n + 1]
    /\ \A n \in 0..(Len(ls) + 1) : R[n] \in Seq(L)

LEMMA AtOnceSteps ==
    ASSUME NEW L, NEW ls \in Seq(L), NEW hs, NEW S, Ranged(hs, S, L)
    PROVE  FromEach(AtOnce(ls, hs, S), ls, hs, S, L)
<1> DEFINE len == Len(ls)
           p(n) == Piece(ls, hs, S, n)
           Good(n, g) == /\ g \in [n..(len + 1) -> Seq(L)] /\ g[len + 1] = <<>>
                         /\ \A k \in n..len : g[k] = p(k) \o g[k + 1]
           G == {n \in 0..(len + 1) : \E g : Good(n, g)}
<1>1. len \in Nat /\ <<>> \in Seq(L)
  BY EmptySeq
<1>2. \A n \in 0..len : p(n) \in Seq(L)
  BY PieceType
<1> HIDE DEF len, p
<1>3. len + 1 \in G
  <2> DEFINE g == [k \in (len + 1)..(len + 1) |-> <<>>]
  <2>1. /\ g \in [(len + 1)..(len + 1) -> Seq(L)] /\ g[len + 1] = <<>>
        /\ (len + 1)..len = {}
    BY <1>1
  <2>2. Good(len + 1, g)
    BY <2>1
  <2> HIDE DEF g, Good
  <2> QED
    BY <1>1, <2>2
<1>4. ASSUME NEW n \in 0..len, n + 1 \in G PROVE n \in G
  <2>1. PICK g : Good(n + 1, g)
    BY <1>4
  <2>2. p(n) \o g[n + 1] \in Seq(L)
    <3>1. g[n + 1] \in Seq(L)
      BY <1>1, <2>1
    <3> QED
      BY <1>2, <3>1, ConcatProperties
  <2> DEFINE f == [k \in n..(len + 1) |-> IF k = n THEN p(n) \o g[n + 1] ELSE g[k]]
  <2>3. f \in [n..(len + 1) -> Seq(L)]
    BY <1>1, <2>1, <2>2
  <2>4. f[len + 1] = <<>>
    BY <1>1, <2>1
  <2>5. ASSUME NEW k \in n..len PROVE f[k] = p(k) \o f[k + 1]
    <3>1. k + 1 \in n..(len + 1) /\ k + 1 # n /\ k \in n..(len + 1)
      BY <1>1
    <3>2. f[k + 1] = g[k + 1]
      BY <3>1
    <3>3. CASE k = n
      BY <3>1, <3>2, <3>3
    <3>4. CASE k # n
      <4>1. k \in (n + 1)..len
        BY <1>1, <3>4
      <4>2. g[k] = p(k) \o g[k + 1] /\ f[k] = g[k]
        BY <2>1, <3>1, <3>4, <4>1
      <4> QED
        BY <3>2, <4>2
    <3> QED
      BY <3>3, <3>4
  <2> HIDE DEF f
  <2>6. Good(n, f)
    BY <2>3, <2>4, <2>5
  <2> HIDE DEF Good
  <2> QED
    BY <1>1, <2>6
<1>5. 0 \in G
  <2> HIDE DEF G
  <2>1. 0 <= len + 1 /\ 0 \in Nat
    BY <1>1
  <2>2. \A n \in 0..(len + 1) : n \in G
    BY <1>1, <1>3, <1>4, <2>1, Downward
  <2> QED
    BY <1>1, <2>2
<1>6. PICK g : Good(0, g)
  BY <1>5
<1> DEFINE Fix(f) == f = [n \in 0..(len + 1) |-> IF n > len THEN <<>> ELSE p(n) \o f[n + 1]]
           R == CHOOSE f : Fix(f)
<1>7. Fix(g)
  <2>1. ASSUME NEW n \in 0..(len + 1)
        PROVE  g[n] = IF n > len THEN <<>> ELSE p(n) \o g[n + 1]
    <3>1. CASE n > len
      <4>1. n = len + 1
        BY <1>1, <3>1
      <4> QED
        BY <1>6, <3>1, <4>1
    <3>2. CASE ~ (n > len)
      <4>1. n \in 0..len
        BY <1>1, <3>2
      <4> QED
        BY <1>6, <3>2, <4>1
    <3> QED
      BY <3>1, <3>2
  <2> QED
    BY <1>6, <2>1
<1>8. AtOnce(ls, hs, S) = R
  BY DEF AtOnce, len, p
<1>9. Fix(R)
  <2> HIDE DEF Fix
  <2> QED
    BY <1>7
<1> HIDE DEF R
<1>10. R[len + 1] = <<>> /\ \A n \in 0..len : R[n] = p(n) \o R[n + 1]
  <2>1. len + 1 \in 0..(len + 1) /\ len + 1 > len
    BY <1>1
  <2>2. \A n \in 0..len : n \in 0..(len + 1) /\ ~ (n > len)
    BY <1>1
  <2>3. \A n \in 0..(len + 1) : R[n] = IF n > len THEN <<>> ELSE p(n) \o R[n + 1]
    BY <1>9
  <2> QED
    BY <2>1, <2>2, <2>3
<1>11. \A n \in 0..(len + 1) : R[n] \in Seq(L)
  <2> DEFINE H == {n \in 0..(len + 1) : R[n] \in Seq(L)}
  <2>1. len + 1 \in H
    <3>1. len + 1 \in 0..(len + 1) /\ R[len + 1] \in Seq(L)
      BY <1>1, <1>10
    <3> HIDE DEF R
    <3> QED
      BY <3>1
  <2>2. ASSUME NEW n \in 0..len, n + 1 \in H PROVE n \in H
    <3>1. R[n] = p(n) \o R[n + 1] /\ R[n + 1] \in Seq(L)
      BY <1>10, <2>2
    <3>2. p(n) \o R[n + 1] \in Seq(L)
      BY <1>2, <3>1, ConcatProperties
    <3>3. R[n] \in Seq(L) /\ n \in 0..(len + 1)
      BY <1>1, <3>1, <3>2
    <3> QED
      BY <3>3
  <2> HIDE DEF H
  <2>4. 0 <= len + 1 /\ 0 \in Nat
    BY <1>1
  <2>3. \A n \in 0..(len + 1) : n \in H
    BY <1>1, <2>1, <2>2, <2>4, Downward
  <2> QED
    BY <2>3 DEF H
<1> QED
  BY <1>8, <1>10, <1>11 DEF len, p, FromEach

\* Lines k to m, and what comes after them.
Then(ls, k, m, t) == SubSeq(ls, k, m) \o t

\* Three lists are put together in either order.
Associates(S) == \A x, y, z \in Seq(S) : (x \o y) \o z = x \o (y \o z)

LEMMA Associative == ASSUME NEW S PROVE Associates(S)
<1> SUFFICES ASSUME NEW x \in Seq(S), NEW y \in Seq(S), NEW z \in Seq(S)
             PROVE  (x \o y) \o z = x \o (y \o z)
  BY DEF Associates
<1> QED
  BY ConcatAssociative

\* Lines that no hunk names stay as they are.
LEMMA Untouched ==
    ASSUME NEW L, NEW ls \in Seq(L), NEW hs, NEW S, Ranged(hs, S, L),
           NEW k \in 1..(Len(ls) + 1), NEW m \in 0..Len(ls), k <= m + 1,
           \A n \in k..m : HunksAt(hs, S, n) = {}
    PROVE  AtOnce(ls, hs, S)[k] = Then(ls, k, m, AtOnce(ls, hs, S)[m + 1])
<1> DEFINE len == Len(ls)
           R == AtOnce(ls, hs, S)
           G == {n \in 1..(len + 1) : R[n] = SubSeq(ls, n, m) \o R[m + 1]}
<1>1. len \in Nat /\ k \in Nat /\ m \in Nat /\ k <= m + 1 /\ k \in k..(m + 1)
  OBVIOUS
<1>0. FromEach(R, ls, hs, S, L)
  BY AtOnceSteps
<1> HIDE DEF R
<1>2. /\ \A n \in 0..len : R[n] = Piece(ls, hs, S, n) \o R[n + 1]
      /\ \A n \in 0..(len + 1) : R[n] \in Seq(L)
  BY <1>0 DEF FromEach
<1>3. m + 1 \in G
  <2>1. SubSeq(ls, m + 1, m) = <<>>
    BY <1>1, SubSeqEmpty
  <2>2. R[m + 1] \in Seq(L) /\ m + 1 \in 1..(len + 1)
    BY <1>1, <1>2
  <2>3. <<>> \o R[m + 1] = R[m + 1]
    BY <2>2, ConcatEmptySeq
  <2> QED
    BY <2>1, <2>2, <2>3
<1>4. ASSUME NEW n \in k..m, n + 1 \in G PROVE n \in G
  <2>1. n \in 1..len /\ n \in 1..(len + 1) /\ m \in n..len /\ n \in 0..len /\ m + 1 \in 0..(len + 1)
    BY <1>1
  <2>2. Piece(ls, hs, S, n) = <<ls[n]>>
    <3>1. HunksAt(hs, S, n) = {} /\ n # 0
      BY <2>1
    <3> QED
      BY <3>1 DEF Piece
  <2>3. R[n] = <<ls[n]>> \o (SubSeq(ls, n + 1, m) \o R[m + 1])
    BY <1>2, <1>4, <2>1, <2>2
  <2>4. <<ls[n]>> \in Seq(L)
    BY <2>1, ElementOfSeq
  <2>5. SubSeq(ls, n + 1, m) \in Seq(L)
    <3>1. \A i \in (n + 1)..m : ls[i] \in L
      BY <1>1, <2>1, ElementOfSeq
    <3> QED
      BY <2>1, <3>1, SubSeqProperties
  <2>6. R[n] = (<<ls[n]>> \o SubSeq(ls, n + 1, m)) \o R[m + 1]
    <3>1. R[m + 1] \in Seq(L)
      BY <1>2, <2>1
    <3> DEFINE a == <<ls[n]>>
               b == SubSeq(ls, n + 1, m)
               c == R[m + 1]
    <3>2. R[n] = a \o (b \o c) /\ a \in Seq(L) /\ b \in Seq(L) /\ c \in Seq(L)
      BY <2>3, <2>4, <2>5, <3>1
    <3> HIDE DEF a, b, c
    <3>a. Associates(L)
      BY Associative
    <3>3. (a \o b) \o c = a \o (b \o c)
      BY <3>2, <3>a DEF Associates
    <3>4. R[n] = (a \o b) \o c
      BY <3>2, <3>3
    <3> QED
      BY <3>4 DEF a, b, c
  <2>7. SubSeq(ls, n, m) = <<ls[n]>> \o SubSeq(ls, n + 1, m)
    BY <2>1, SubSeqRecursiveFirst
  <2> QED
    BY <2>1, <2>6, <2>7
<1> HIDE DEF G
<1>5. \A n \in k..(m + 1) : n \in G
  BY <1>1, <1>3, <1>4, Downward
<1> QED
  BY <1>1, <1>5 DEF G, R, Then

\* Lines of which nothing is left.
LEMMA Removed ==
    ASSUME NEW L, NEW ls \in Seq(L), NEW hs, NEW S, Ranged(hs, S, L),
           NEW k \in 0..(Len(ls) + 1), NEW m \in 0..Len(ls), k <= m + 1,
           \A n \in k..m : Piece(ls, hs, S, n) = <<>>
    PROVE  AtOnce(ls, hs, S)[k] = AtOnce(ls, hs, S)[m + 1]
<1> DEFINE len == Len(ls)
           R == AtOnce(ls, hs, S)
           G == {n \in 0..(len + 1) : R[n] = R[m + 1]}
<1>1. len \in Nat /\ k \in Nat /\ m \in Nat /\ k <= m + 1 /\ k \in k..(m + 1)
  OBVIOUS
<1>0. FromEach(R, ls, hs, S, L)
  BY AtOnceSteps
<1> HIDE DEF R
<1>2. /\ \A n \in 0..len : R[n] = Piece(ls, hs, S, n) \o R[n + 1]
      /\ \A n \in 0..(len + 1) : R[n] \in Seq(L)
  BY <1>0 DEF FromEach
<1>3. m + 1 \in G
  BY <1>1
<1>4. ASSUME NEW n \in k..m, n + 1 \in G PROVE n \in G
  <2>1. n \in 0..len /\ n + 1 \in 0..(len + 1) /\ n \in 0..(len + 1)
    BY <1>1
  <2>2. R[n] = <<>> \o R[n + 1] /\ R[n + 1] \in Seq(L)
    BY <1>2, <2>1
  <2>3. R[n] = R[n + 1]
    BY <2>2, ConcatEmptySeq
  <2> QED
    BY <1>4, <2>1, <2>3
<1> HIDE DEF G
<1>5. \A n \in k..(m + 1) : n \in G
  BY <1>1, <1>3, <1>4, Downward
<1> QED
  BY <1>1, <1>5 DEF G, R

\* Two sets of hunks that make the same of the lines from one on.
LEMMA SameBelow ==
    ASSUME NEW L, NEW ls \in Seq(L), NEW hs, NEW S, NEW T, Ranged(hs, S, L), Ranged(hs, T, L),
           NEW k \in 0..(Len(ls) + 1),
           \A n \in k..Len(ls) : Piece(ls, hs, S, n) = Piece(ls, hs, T, n)
    PROVE  AtOnce(ls, hs, S)[k] = AtOnce(ls, hs, T)[k]
<1> DEFINE len == Len(ls)
           Q == AtOnce(ls, hs, S)
           R == AtOnce(ls, hs, T)
           G == {n \in 0..(len + 1) : Q[n] = R[n]}
<1>1. len \in Nat /\ k \in Nat /\ k <= len + 1
  OBVIOUS
<1>0. FromEach(Q, ls, hs, S, L) /\ FromEach(R, ls, hs, T, L)
  BY AtOnceSteps
<1> HIDE DEF Q, R
<1>2. /\ Q[len + 1] = <<>> /\ R[len + 1] = <<>>
      /\ \A n \in 0..len : Q[n] = Piece(ls, hs, S, n) \o Q[n + 1]
      /\ \A n \in 0..len : R[n] = Piece(ls, hs, T, n) \o R[n + 1]
  BY <1>0 DEF FromEach
<1>3. len + 1 \in G
  BY <1>1, <1>2
<1>4. ASSUME NEW n \in k..len, n + 1 \in G PROVE n \in G
  <2>1. n \in 0..len /\ n \in 0..(len + 1) /\ Q[n + 1] = R[n + 1]
    BY <1>1, <1>4
  <2> QED
    BY <1>2, <2>1
<1> HIDE DEF G
<1>5. \A n \in k..(len + 1) : n \in G
  BY <1>1, <1>3, <1>4, Downward
<1> QED
  BY <1>1, <1>5 DEF G, Q, R


\* Both parts of a text that ends with t, and an earlier place of its first part.
LEMMA PartsOf ==
    ASSUME NEW L, NEW ls \in Seq(L), NEW t \in Seq(L), NEW e \in 0..Len(ls), NEW p \in 0..e,
           NEW x, x = SubSeq(ls, 1, e) \o t
    PROVE  /\ x \in Seq(L) /\ Len(x) = e + Len(t)
           /\ SubSeq(x, 1, p) = SubSeq(ls, 1, p)
           /\ SubSeq(x, e + 1, Len(x)) = t
<1> DEFINE a == SubSeq(ls, 1, e)
<1>1. a \in Seq(L) /\ Len(a) = e
  <2>1. \A i \in 1..e : ls[i] \in L
    BY ElementOfSeq
  <2>2. e \in Int /\ 1 \in Int /\ (1 <= e => e - 1 + 1 = e) /\ (~ (1 <= e) => e = 0)
    OBVIOUS
  <2>3. a \in Seq(L) /\ Len(a) = IF 1 <= e THEN e - 1 + 1 ELSE 0
    BY <2>1, <2>2, SubSeqProperties
  <2> QED
    BY <2>2, <2>3
<1>2. \A i \in 1..e : a[i] = ls[i]
  <2>1. \A i \in 1..e : ls[i] \in L
    BY ElementOfSeq
  <2>2. \A i \in 1..(e - 1 + 1) : a[i] = ls[1 + i - 1]
    BY <2>1, SubSeqProperties
  <2> QED
    BY <2>2
<1> HIDE DEF a
<1>3. /\ x \in Seq(L) /\ Len(x) = e + Len(t)
      /\ \A i \in 1..(e + Len(t)) : x[i] = IF i <= e THEN a[i] ELSE t[i - e]
  <2>1. x = a \o t
    BY DEF a
  <2> QED
    BY <1>1, <2>1, ConcatProperties
<1>4. SubSeq(x, 1, p) = SubSeq(ls, 1, p)
  <2>1. \A i \in 1..p : x[i] = ls[i] /\ ls[i] \in L
    <3>1. \A i \in 1..p : i \in 1..(e + Len(t)) /\ i <= e /\ i \in 1..e /\ i \in 1..Len(ls)
      OBVIOUS
    <3> QED
      BY <1>2, <1>3, <3>1, ElementOfSeq
  <2> DEFINE y == SubSeq(x, 1, p)
             z == SubSeq(ls, 1, p)
  <2>2. /\ y \in Seq(L) /\ Len(y) = IF 1 <= p THEN p - 1 + 1 ELSE 0
        /\ \A i \in 1..(p - 1 + 1) : y[i] = x[1 + i - 1]
    <3>1. \A i \in 1..p : x[i] \in L
      BY <2>1
    <3> QED
      BY <3>1, SubSeqProperties
  <2>3. /\ z \in Seq(L) /\ Len(z) = IF 1 <= p THEN p - 1 + 1 ELSE 0
        /\ \A i \in 1..(p - 1 + 1) : z[i] = ls[1 + i - 1]
    BY <2>1, SubSeqProperties
  <2> HIDE DEF y, z
  <2>4. Len(y) = p /\ Len(z) = p /\ \A i \in 1..p : y[i] = z[i]
    BY <2>1, <2>2, <2>3
  <2>5. y = z
    BY <2>2, <2>3, <2>4, SeqEqual
  <2> QED
    BY <2>5 DEF y, z
<1>5. SubSeq(x, e + 1, Len(x)) = t
  <2> DEFINE y == SubSeq(x, e + 1, Len(x))
             n == Len(x)
  <2>1. n \in Nat /\ n = e + Len(t) /\ Len(t) \in Nat /\ n \in Int /\ e + 1 \in Int
    BY <1>3
  <2>2. \A i \in (e + 1)..n : x[i] \in L
    BY <1>3, <2>1, ElementOfSeq
  <2> HIDE DEF n
  <2>3. /\ y \in Seq(L) /\ Len(y) = IF e + 1 <= n THEN n - (e + 1) + 1 ELSE 0
        /\ \A i \in 1..(n - (e + 1) + 1) : y[i] = x[e + 1 + i - 1]
    BY <2>1, <2>2, SubSeqProperties DEF n
  <2> HIDE DEF y
  <2>4. Len(y) = Len(t)
    BY <2>1, <2>3
  <2>5. ASSUME NEW i \in 1..Len(y) PROVE y[i] = t[i]
    <3>1. /\ i \in 1..(n - (e + 1) + 1) /\ e + 1 + i - 1 = e + i /\ e + i \in 1..(e + Len(t))
          /\ ~ (e + i <= e) /\ e + i - e = i
      BY <2>1, <2>4
    <3>2. y[i] = x[e + i]
      BY <2>3, <3>1
    <3>3. x[e + i] = IF e + i <= e THEN a[e + i] ELSE t[e + i - e]
      BY <1>3, <3>1
    <3>4. x[e + i] = t[e + i - e]
      BY <3>1, <3>3
    <3> QED
      BY <3>1, <3>2, <3>4
  <2>6. y = t
    BY <2>3, <2>4, <2>5, SeqEqual
  <2> QED
    BY <2>6 DEF y
<1> QED
  BY <1>3, <1>4, <1>5


\* Hunks in S that the code understands, with no line in two of them.
Sound(ls, hs, S, L) ==
    /\ Ranged(hs, S, L)
    /\ \A i \in S : /\ hs[i].start <= Len(ls)
                    /\ Inserts(hs[i]) <=> hs[i].op = "insert_after"
                    /\ hs[i].op = "insert_after" \/ ls # <<>>
                    /\ hs[i].end = 0 /\ ls # <<>> => hs[i].blank
    /\ \A i, j \in S : i = j \/ HunkLines(hs[i]) \cap HunkLines(hs[j]) = {}

\* The code applies a hunk above those it has applied: this makes of the lines what
\* all of them at once do.
LEMMA OneMore ==
    ASSUME NEW L, NEW ls \in Seq(L), NEW hs, NEW S, Sound(ls, hs, S, L), NEW i \in S,
           \A j \in S \ {i} : hs[j].start > hs[i].end
    PROVE  OneApplied(AtOnce(ls, hs, S \ {i})[0], hs[i]) = AtOnce(ls, hs, S)[0]
<1> DEFINE T == S \ {i}
           h == hs[i]
           s == h.start
           len == Len(ls)
           e == Smaller(h.end, len)
           Q == AtOnce(ls, hs, S)
           P == AtOnce(ls, hs, T)
           z == P[e + 1]
           first == IF s = 0 THEN 0 ELSE s - 1
           rep == h.replacement
           a == SubSeq(ls, 1, first)
<1>0. /\ Ranged(hs, S, L) /\ hs[i].start <= Len(ls)
      /\ Inserts(hs[i]) <=> hs[i].op = "insert_after"
      /\ hs[i].op = "insert_after" \/ ls # <<>>
      /\ hs[i].end = 0 /\ ls # <<>> => hs[i].blank
  BY DEF Sound
<1>1. /\ s \in Nat /\ h.end \in Nat /\ len \in Nat /\ s <= h.end /\ s <= len
      /\ e \in 0..len /\ s <= e /\ e <= h.end /\ (e = h.end \/ e = len) /\ (e = 0 => h.end = 0 \/ len = 0)
      /\ rep \in Seq(L) /\ <<>> \in Seq(L)
  BY <1>0, EmptySeq DEF Ranged, Smaller
<1>2. Ranged(hs, T, L)
  BY <1>0 DEF Ranged
<1>3. ASSUME NEW n \in 0..len
      PROVE  /\ n <= h.end => HunksAt(hs, T, n) = {}
             /\ n <= h.end /\ s <= n => HunksAt(hs, S, n) = {i}
             /\ n < s => HunksAt(hs, S, n) = {}
             /\ h.end < n => HunksAt(hs, S, n) = HunksAt(hs, T, n)
  <2>1. \A j \in T : hs[j].start \in Nat /\ hs[j].end \in Nat /\ h.end < hs[j].start
    BY <1>1, <1>2 DEF Ranged
  <2>2. n <= h.end => \A j \in T : n \notin HunkLines(hs[j])
    BY <1>1, <2>1 DEF HunkLines
  <2>3. n \in HunkLines(h) <=> s <= n /\ n <= h.end
    BY <1>1 DEF HunkLines
  <2>4. \A j \in S : j \in T \/ j = i
    OBVIOUS
  <2> HIDE DEF s
  <2>5. n < s => n <= h.end
    BY <1>1
  <2>6. n < s => ~ (s <= n)
    BY <1>1
  <2>7. h.end < n => ~ (n <= h.end)
    BY <1>1
  <2> QED
    BY <2>2, <2>3, <2>4, <2>5, <2>6, <2>7, Zenon DEF HunksAt
<1>4. FromEach(Q, ls, hs, S, L) /\ FromEach(P, ls, hs, T, L)
  BY <1>0, <1>2, AtOnceSteps
<1>9. first \in 0..e /\ first \in 0..len /\ s \in 0..e /\ (s = 0 => first = 0) /\ (s # 0 => first = s - 1)
  BY <1>1
<1>11. h = hs[i] /\ i = CHOOSE k \in {i} : TRUE
  OBVIOUS
<1>14. Smaller(h.end, len) = e /\ h.start = s
  OBVIOUS
<1> SUFFICES OneApplied(P[0], h) = Q[0]
  OBVIOUS
<1> HIDE DEF h, s, e, T, first, rep, z, a, P, Q
<1>5. z = Q[e + 1]
  <2>1. \A n \in (e + 1)..len : n \in 0..len /\ h.end < n
    BY <1>1
  <2>2. \A n \in (e + 1)..len : Piece(ls, hs, T, n) = Piece(ls, hs, S, n)
    BY <1>3, <2>1 DEF Piece
  <2>3. e + 1 \in 0..(len + 1)
    BY <1>1
  <2> QED
    BY <1>0, <1>2, <2>2, <2>3, SameBelow DEF z, P, Q
<1>6. P[0] = SubSeq(ls, 1, e) \o z
  <2>1. HunksAt(hs, T, 0) = {} /\ \A n \in 1..e : HunksAt(hs, T, n) = {}
    <3>1. \A n \in 0..e : n \in 0..len /\ n <= h.end
      BY <1>1
    <3>2. \A n \in 0..e : HunksAt(hs, T, n) = {}
      BY <1>3, <3>1
    <3>3. 0 \in 0..e /\ \A n \in 1..e : n \in 0..e
      BY <1>1
    <3> QED
      BY <3>2, <3>3
  <2>2. P[0] = P[1]
    <3>1. Piece(ls, hs, T, 0) = <<>>
      BY <2>1 DEF Piece
    <3>2. 0 \in 0..(len + 1) /\ 0 \in 0..len /\ 0 <= 0 + 1 /\ 0 + 1 = 1 /\ \A n \in 0..0 : n = 0
      BY <1>1
    <3>3. \A n \in 0..0 : Piece(ls, hs, T, n) = <<>>
      BY <3>1, <3>2
    <3> QED
      BY <1>2, <3>2, <3>3, Removed DEF P
  <2>3. 1 \in 1..(len + 1) /\ e \in 0..len /\ 1 <= e + 1
    BY <1>1
  <2>4. P[1] = Then(ls, 1, e, P[e + 1])
    BY <1>2, <2>1, <2>3, Untouched DEF P
  <2> QED
    BY <2>2, <2>4 DEF z, Then
<1>7. Q[0] = a \o Q[s]
  <2>1. CASE s = 0
    <3>1. 0 \in 0..(len + 1) /\ 0 \in Int /\ 1 \in Int /\ 0 < 1
      BY <1>1
    <3>2. a = <<>>
      BY <1>9, <2>1, <3>1, SubSeqEmpty DEF a
    <3>3. Q[0] \in Seq(L)
      BY <1>4, <3>1 DEF FromEach
    <3> QED
      BY <2>1, <3>2, <3>3, ConcatEmptySeq
  <2>2. CASE s # 0
    <3>1. HunksAt(hs, S, 0) = {} /\ \A n \in 1..(s - 1) : HunksAt(hs, S, n) = {}
      <4>1. 0 \in 0..len /\ 0 < s /\ \A n \in 1..(s - 1) : n \in 0..len /\ n < s
        BY <1>1, <2>2
      <4> QED
        BY <1>3, <4>1
    <3>2. Q[0] = Q[1]
      <4>1. Piece(ls, hs, S, 0) = <<>>
        BY <3>1 DEF Piece
      <4>2. 0 \in 0..(len + 1) /\ 0 \in 0..len /\ 0 <= 0 + 1 /\ 0 + 1 = 1 /\ \A n \in 0..0 : n = 0
        BY <1>1
      <4>3. \A n \in 0..0 : Piece(ls, hs, S, n) = <<>>
        BY <4>1, <4>2
      <4> QED
        BY <1>0, <4>2, <4>3, Removed DEF Q
    <3>3. 1 \in 1..(len + 1) /\ s - 1 \in 0..len /\ 1 <= (s - 1) + 1 /\ (s - 1) + 1 = s
      BY <1>1, <2>2
    <3>4. Q[1] = Then(ls, 1, s - 1, Q[(s - 1) + 1])
      BY <1>0, <3>1, <3>3, Untouched DEF Q
    <3> QED
      BY <1>9, <2>2, <3>2, <3>3, <3>4 DEF a, Then
  <2> QED
    BY <2>1, <2>2
<1>8. /\ Q[s] = Piece(ls, hs, S, s) \o Q[s + 1] /\ HunksAt(hs, S, s) = {i}
      /\ z \in Seq(L)
  <2>1. s \in 0..len /\ s <= h.end /\ s <= s /\ e + 1 \in 0..(len + 1)
    BY <1>1
  <2>2. HunksAt(hs, S, s) = {i}
    BY <1>3, <2>1
  <2> QED
    BY <1>4, <1>5, <2>1, <2>2 DEF FromEach
<1>10. LET x == P[0]
       IN  /\ Len(x) = e + Len(z) /\ Len(z) \in Nat /\ x \in Seq(L)
           /\ SubSeq(x, 1, s) = SubSeq(ls, 1, s) /\ SubSeq(x, 1, first) = a
           /\ SubSeq(x, e + 1, Len(x)) = z
  <2>1. e \in 0..Len(ls) /\ s \in 0..e /\ first \in 0..e
    BY <1>1, <1>9
  <2> DEFINE x == P[0]
  <2>5. x = SubSeq(ls, 1, e) \o z /\ z \in Seq(L)
    BY <1>6, <1>8
  <2> HIDE DEF x
  <2>2. /\ x \in Seq(L) /\ Len(x) = e + Len(z) /\ SubSeq(x, e + 1, Len(x)) = z
        /\ SubSeq(x, 1, s) = SubSeq(ls, 1, s)
    BY <2>1, <2>5, PartsOf
  <2>3. SubSeq(x, 1, first) = a
    BY <2>1, <2>5, PartsOf DEF a
  <2>4. Len(z) \in Nat
    BY <1>8, LenProperties
  <2> QED
    BY <2>2, <2>3, <2>4 DEF x
<1>12. CASE h.op = "insert_after"
  <2>1. Inserts(h) /\ h.start = h.end /\ e = s
    BY <1>0, <1>1, <1>11, <1>12, <1>14 DEF Inserts
  <2>2. OneApplied(P[0], h) = (SubSeq(ls, 1, s) \o rep) \o z
    <3>1. Smaller(h.start, Len(P[0])) = s
      BY <1>1, <1>10, <1>14, <2>1 DEF Smaller
    <3> QED
      BY <1>10, <2>1, <3>1 DEF OneApplied, rep
  <2>3. CASE s = 0
    <3>1. Piece(ls, hs, S, s) = <<>> \o rep
      BY <1>8, <1>11, <1>12, <2>3 DEF Piece, rep
    <3>2. a = <<>> /\ SubSeq(ls, 1, s) = <<>>
      BY <1>1, <1>9, <2>3, SubSeqEmpty DEF a
    <3>3. Q[s] = (<<>> \o rep) \o z
      BY <1>5, <1>8, <2>1, <3>1
    <3>4. <<>> \o rep = rep
      BY <1>1, ConcatEmptySeq
    <3>6. rep \o z \in Seq(L)
      BY <1>1, <1>8, ConcatProperties
    <3>7. <<>> \o (rep \o z) = rep \o z
      BY <3>6, ConcatEmptySeq
    <3> QED
      BY <1>7, <2>2, <3>2, <3>3, <3>4, <3>7
  <2>4. CASE s # 0
    <3>1. Piece(ls, hs, S, s) = <<ls[s]>> \o rep
      BY <1>8, <1>11, <1>12, <2>4 DEF Piece, rep
    <3> DEFINE o == <<ls[s]>>
               b == SubSeq(ls, 1, s)
    <3>2. s \in 1..len /\ s \in s..len /\ 1 \in 1..len /\ s \in 1..s /\ first = s - 1
      BY <1>1, <1>9, <2>4
    <3>3. b = a \o o
      BY <3>2, SubSeqRecursiveSecond DEF a
    <3>4. o \in Seq(L) /\ rep \in Seq(L)
      BY <1>1, <3>2, ElementOfSeq
    <3>5. a \in Seq(L)
      <4>1. \A k \in 1..first : ls[k] \in L
        BY <1>1, <3>2, ElementOfSeq
      <4>2. first \in Int /\ 1 \in Int
        BY <1>1, <3>2
      <4> QED
        BY <4>1, <4>2, SubSeqProperties DEF a
    <3>6. Q[0] = a \o ((o \o rep) \o z)
      BY <1>5, <1>7, <1>8, <2>1, <3>1
    <3>7. OneApplied(P[0], h) = ((a \o o) \o rep) \o z
      BY <2>2, <3>3
    <3> HIDE DEF o, b
    <3>a. Associates(L)
      BY Associative
    <3>8. o \o rep \in Seq(L) /\ (a \o o) \o rep = a \o (o \o rep)
      BY <3>4, <3>5, <3>a, ConcatProperties DEF Associates
    <3>10. rep \in Seq(L) /\ z \in Seq(L)
      BY <1>1, <1>8
    <3> DEFINE q == o \o rep
    <3>11. q \in Seq(L)
      BY <3>8
    <3> HIDE DEF q
    <3>12. (a \o q) \o z = a \o (q \o z)
      <4>1. a \in Seq(L) /\ q \in Seq(L) /\ z \in Seq(L)
        BY <3>5, <3>10, <3>11
      <4> HIDE DEF a, z
      <4> QED
        BY ONLY <4>1, <3>a DEF Associates
    <3>9. (a \o (o \o rep)) \o z = a \o ((o \o rep) \o z)
      BY <3>12 DEF q
    <3> QED
      BY <3>6, <3>7, <3>8, <3>9
  <2> QED
    BY <2>3, <2>4
<1>13. CASE h.op # "insert_after"
  <2>1. ~ Inserts(h) /\ len # 0
    BY <1>0, <1>11, <1>13, EmptySeq
  <2>2. Piece(ls, hs, S, s) = rep
    BY <1>8, <1>11, <1>13, <1>14 DEF Piece, rep
  <2>3. Q[s + 1] = z
    <3>1. ASSUME NEW n \in (s + 1)..e PROVE Piece(ls, hs, S, n) = <<>>
      <4>2. n \in 0..len /\ n <= h.end /\ s <= n /\ n # s
        BY <1>1
      <4>1. HunksAt(hs, S, n) = {i} /\ n # h.start
        BY <1>3, <1>14, <4>2
      <4> QED
        BY <1>11, <1>13, <4>1 DEF Piece
    <3>2. s + 1 \in 0..(len + 1) /\ e \in 0..len /\ s + 1 <= e + 1
      BY <1>1
    <3>3. Q[s + 1] = Q[e + 1]
      BY <1>0, <3>1, <3>2, Removed DEF Q
    <3> QED
      BY <1>5, <3>3
  <2>4. Q[0] = a \o (rep \o z)
    BY <1>7, <1>8, <2>2, <2>3
  <2>5. a \in Seq(L)
    <3>1. \A k \in 1..first : ls[k] \in L
      BY <1>1, <1>9, ElementOfSeq
    <3>2. first \in Int /\ 1 \in Int
      BY <1>9
    <3> QED
      BY <3>1, <3>2, SubSeqProperties DEF a
  <2>6. OneApplied(P[0], h) = (a \o rep) \o z
    <3>1. CASE first < Len(P[0])
      <4>1. Smaller(h.end, Len(P[0])) = e
        <5>1. CASE e = h.end
          BY <1>1, <1>10, <5>1 DEF Smaller
        <5>2. CASE e = len
          <6>1. z = <<>>
            BY <1>4, <1>5, <5>2 DEF FromEach
          <6>2. Len(P[0]) = e
            BY <1>1, <1>10, <6>1
          <6> QED
            BY <1>1, <6>2 DEF Smaller
        <5> QED
          BY <1>1, <5>1, <5>2
      <4>2. first = IF h.start = 0 THEN 0 ELSE h.start - 1
        BY <1>9, <1>14
      <4> QED
        BY <1>10, <2>1, <3>1, <4>1, <4>2 DEF OneApplied, rep
    <3>2. CASE ~ (first < Len(P[0]))
      <4>1. s = 0 /\ Len(P[0]) = 0 /\ e = 0 /\ Len(z) = 0 /\ first = 0
        BY <1>1, <1>9, <1>10, <3>2
      <4>2. h.end = 0 /\ h.blank
        BY <1>0, <1>1, <1>11, <2>1, <4>1, EmptySeq
      <4>3. rep = <<>>
        BY <1>14, <2>1, <4>1, <4>2 DEF Inserts, rep
      <4>4. z = <<>> /\ P[0] = <<>>
        BY <1>8, <1>10, <4>1, EmptySeq
      <4>5. a = <<>>
        BY <4>1, SubSeqEmpty DEF a
      <4>6. <<>> \o <<>> = <<>>
        BY <1>1, ConcatEmptySeq
      <4>7. OneApplied(P[0], h) = P[0]
        <5>1. first = IF h.start = 0 THEN 0 ELSE h.start - 1
          BY <1>9, <1>14
        <5> QED
          BY <2>1, <3>2, <5>1 DEF OneApplied
      <4> QED
        BY <4>3, <4>4, <4>5, <4>6, <4>7
    <3> QED
      BY <3>1, <3>2
  <2>8. a \in Seq(L) /\ rep \in Seq(L) /\ z \in Seq(L)
    BY <1>1, <1>8, <2>5
  <2>7. (a \o rep) \o z = a \o (rep \o z)
    <3>1. Associates(L)
      BY Associative
    <3> HIDE DEF a, rep, z
    <3> QED
      BY ONLY <2>8, <3>1 DEF Associates
  <2> QED
    BY <2>4, <2>6, <2>7
<1> QED
  BY <1>12, <1>13

\* The hunk that is applied last is above all the others.
LEMMA LastIsFirst ==
    ASSUME NEW L, NEW ls, NEW hs, NEW S, Sound(ls, hs, S, L), S # {}
    PROVE  /\ LastOf(hs, S) \in S
           /\ \A j \in S \ {LastOf(hs, S)} : hs[j].start > hs[LastOf(hs, S)].end
<1> DEFINE Last1(i) == \A j \in S \ {i} : Before(hs, j, i)
           c == CHOOSE i \in S : Last1(i)
<1>1. \A i \in S : hs[i].start \in Nat /\ hs[i].end \in Nat /\ hs[i].start <= hs[i].end
  BY DEF Sound, Ranged
<1>2. ASSUME NEW i \in S, NEW j \in S \ {i}
      PROVE  ~ (hs[i].start <= hs[j].start /\ hs[j].start <= hs[i].end)
  <2>1. HunkLines(hs[i]) \cap HunkLines(hs[j]) = {}
    BY DEF Sound
  <2>2. hs[j].start \in HunkLines(hs[j])
    BY <1>1 DEF HunkLines
  <2>3. hs[j].start \notin HunkLines(hs[i])
    BY <2>1, <2>2
  <2> QED
    BY <1>1, <2>3 DEF HunkLines
<1>3. \E i \in S : Last1(i)
  <2> DEFINE V == {hs[i].start : i \in S}
  <2>1. V \in SUBSET Nat /\ V # {}
    BY <1>1
  <2> HIDE DEF V
  <2>2. PICK v \in V : \A w \in V : v <= w
    BY <2>1, LeastNumber
  <2>3. PICK i \in S : v = hs[i].start
    BY DEF V
  <2>4. ASSUME NEW j \in S \ {i} PROVE Before(hs, j, i)
    <3>1. hs[j].start \in V
      BY DEF V
    <3>2. hs[i].start <= hs[j].start
      BY <2>2, <2>3, <3>1
    <3>3. hs[j].start # hs[i].start
      BY <1>1, <1>2
    <3> QED
      BY <1>1, <3>2, <3>3 DEF Before
  <2> QED
    BY <2>4
<1>4. c = LastOf(hs, S)
  BY DEF LastOf
<1>5. c \in S /\ Last1(c)
  <2> HIDE DEF Last1
  <2> QED
    BY <1>3
<1> HIDE DEF c
<1>6. ASSUME NEW j \in S \ {c} PROVE hs[j].start > hs[c].end
  <2>1. hs[c].start <= hs[j].start
    BY <1>1, <1>5 DEF Before
  <2> QED
    BY <1>1, <1>2, <1>5, <2>1
<1> QED
  BY <1>4, <1>5, <1>6

LEMMA SoundPart ==
    ASSUME NEW L, NEW ls, NEW hs, NEW S, Sound(ls, hs, S, L), NEW T \in SUBSET S
    PROVE  Sound(ls, hs, T, L)
BY DEF Sound, Ranged

\* Without hunks the lines are as they were.
LEMMA NoneAtOnce ==
    ASSUME NEW L, NEW ls \in Seq(L), NEW hs
    PROVE  AtOnce(ls, hs, {})[0] = ls
<1> DEFINE R == AtOnce(ls, hs, {})
           len == Len(ls)
<1>1. Ranged(hs, {}, L) /\ \A n : HunksAt(hs, {}, n) = {}
  BY DEF Ranged, HunksAt
<1>2. Piece(ls, hs, {}, 0) = <<>>
  BY <1>1 DEF Piece
<1>3. R[0] = R[1]
  <2>1. 0 \in 0..(len + 1) /\ 0 \in 0..len /\ 0 <= 0 + 1 /\ 0 + 1 = 1 /\ \A n \in 0..0 : n = 0
    OBVIOUS
  <2>2. \A n \in 0..0 : Piece(ls, hs, {}, n) = <<>>
    BY <1>2, <2>1
  <2> QED
    BY <1>1, <2>1, <2>2, Removed
<1>4. R[1] = Then(ls, 1, len, R[len + 1])
  <2>1. 1 \in 1..(len + 1) /\ len \in 0..len /\ 1 <= len + 1
    OBVIOUS
  <2> HIDE DEF len
  <2> QED
    BY <1>1, <2>1, Untouched DEF len
<1>5. R[len + 1] = <<>>
  BY <1>1, AtOnceSteps DEF FromEach
<1>6. SubSeq(ls, 1, len) \o <<>> = ls
  BY SubSeqFull, ConcatEmptySeq
<1> QED
  BY <1>3, <1>4, <1>5, <1>6 DEF Then

\* The hunks applied one by one, as the code does, make of the lines what all of
\* them at once do.
LEMMA OneByOne ==
    ASSUME NEW L, NEW ls \in Seq(L), NEW hs, NEW S, IsFiniteSet(S), Sound(ls, hs, S, L)
    PROVE  LinesAfter(ls, hs, S)[S] = AtOnce(ls, hs, S)[0]
<1> DEFINE Step(f, T) == OneApplied(f[T \ {LastOf(hs, T)}], hs[LastOf(hs, T)])
           Fix(f) == f = [T \in SUBSET S |-> IF T = {} THEN ls ELSE Step(f, T)]
           R == CHOOSE f : Fix(f)
           g == [T \in SUBSET S |-> AtOnce(ls, hs, T)[0]]
<1>1. ASSUME NEW T \in SUBSET S, T # {}
      PROVE  g[T] = Step(g, T) /\ LastOf(hs, T) \in T
  <2> DEFINE i == LastOf(hs, T)
  <2>1. Sound(ls, hs, T, L)
    BY SoundPart
  <2>2. i \in T /\ \A j \in T \ {i} : hs[j].start > hs[i].end
    BY <1>1, <2>1, LastIsFirst
  <2>3. g[T] = AtOnce(ls, hs, T)[0] /\ g[T \ {i}] = AtOnce(ls, hs, T \ {i})[0]
    OBVIOUS
  <2> HIDE DEF i, g
  <2>5. OneApplied(AtOnce(ls, hs, T \ {i})[0], hs[i]) = AtOnce(ls, hs, T)[0]
    BY <2>1, <2>2, OneMore
  <2> QED
    BY <2>2, <2>3, <2>5 DEF i
<1>2. g[{}] = ls
  BY NoneAtOnce
<1>3. Fix(g)
  <2>1. g = [T \in SUBSET S |-> g[T]]
    OBVIOUS
  <2> HIDE DEF g, Step
  <2> QED
    BY <1>1, <1>2, <2>1
<1>4. LinesAfter(ls, hs, S) = R
  BY DEF LinesAfter
<1> HIDE DEF g
<1>5. Fix(R)
  <2> HIDE DEF Fix
  <2> QED
    BY <1>3
<1> HIDE DEF R
<1>6. \A T \in SUBSET S : R[T] = IF T = {} THEN ls ELSE Step(R, T)
  <2> HIDE DEF Step
  <2> QED
    BY <1>5
<1> DEFINE G == {n \in Nat : \A T \in SUBSET S : Cardinality(T) = n => R[T] = g[T]}
<1>7. 0 \in G
  <2>1. ASSUME NEW T \in SUBSET S, Cardinality(T) = 0 PROVE R[T] = g[T]
    <3>1. T = {}
      BY <2>1, FS_Subset, FS_EmptySet
    <3> QED
      BY <1>2, <1>6, <3>1
  <2> QED
    BY <2>1
<1>8. ASSUME NEW n \in Nat, n \in G PROVE n + 1 \in G
  <2>1. ASSUME NEW T \in SUBSET S, Cardinality(T) = n + 1 PROVE R[T] = g[T]
    <3> DEFINE i == LastOf(hs, T)
    <3>1. IsFiniteSet(T)
      BY FS_Subset
    <3>2. T # {}
      <4>1. Cardinality({}) = 0 /\ n + 1 # 0
        BY FS_EmptySet
      <4> QED
        BY <2>1, <4>1
    <3>3. i \in T /\ g[T] = Step(g, T) /\ R[T] = Step(R, T)
      BY <1>1, <1>6, <3>2
    <3>4. T \ {i} \in SUBSET S /\ Cardinality(T \ {i}) = n
      <4>1. Cardinality(T \ {i}) = Cardinality(T) - 1
        BY <3>1, <3>3, FS_RemoveElement
      <4> QED
        BY <2>1, <4>1
    <3>5. R[T \ {i}] = g[T \ {i}]
      BY <1>8, <3>4
    <3> QED
      BY <3>3, <3>5
  <2> HIDE DEF Step
  <2> QED
    BY <2>1
<1>9. Cardinality(S) \in G
  <2>1. Cardinality(S) \in Nat
    BY FS_CardinalityType
  <2> HIDE DEF G
  <2> QED
    BY <1>7, <1>8, <2>1, Upward
<1>10. R[S] = g[S]
  BY <1>9
<1> QED
  BY <1>4, <1>10 DEF g

-----------------------------------------------------------------------------
(* The structured edits of the Studio: what a session writes.              *)

AppliedHunks == {k \in 1..Len(hunks) : statuses[k] = "applied"}

\* The file that a session wrote comes from the content of the request and from
\* what was accepted, and from nothing else; a hunk is shown as applied after
\* the first apply only if it was in it.
FromTheRequest ==
    writer = "session" =>
        /\ studio_file = ApplyHunks(original_content, hunks, landed)
        /\ applies = 1 => AppliedHunks \subseteq landed

EditInv ==
    /\ applies \in Nat /\ writer \in {"user", "session"} /\ Len(hunks) \in Nat
    /\ statuses \in [1..Len(hunks) -> {"pending", "accepted", "rejected", "applied"}]
    /\ applies = 0 => AppliedHunks = {} /\ writer = "user"
    /\ writer = "session" => hunks # <<>>
    /\ FromTheRequest

LEMMA EditStep ==
    ASSUME EditInv, EditNext
    PROVE  EditInv'
<1>1. CASE RequestStructuredEdit
  <2>1. writer = "user" /\ writer' = "user" /\ applies' = 0
    BY <1>1 DEF RequestStructuredEdit, EditInv
  <2>2. PICK es \in Edits : /\ hunks' = [k \in 1..Len(es) |-> HunkOf(es[k], studio_file)]
                            /\ statuses' = [k \in 1..Len(es) |-> "pending"]
    BY <1>1 DEF RequestStructuredEdit
  <2>3. Len(es) \in Nat
    BY EditAssumption
  <2>4. Len(hunks') = Len(es)
    BY <2>2, <2>3
  <2>5. /\ statuses' \in [1..Len(hunks') -> {"pending", "accepted", "rejected", "applied"}]
        /\ AppliedHunks' = {}
    BY <2>2, <2>4 DEF AppliedHunks
  <2> QED
    BY <2>1, <2>3, <2>4, <2>5 DEF EditInv, FromTheRequest
<1>2. CASE UpdateHunkStatus
  <2>1. PICK k \in 1..Len(hunks), s \in {"accepted", "rejected"} :
          statuses' = [statuses EXCEPT ![k] = s]
    BY <1>2 DEF UpdateHunkStatus
  <2>2. UNCHANGED <<studio_file, hunks, original_content, applies, landed, writer>>
    BY <1>2 DEF UpdateHunkStatus
  <2>3. /\ statuses' \in [1..Len(hunks) -> {"pending", "accepted", "rejected", "applied"}]
        /\ AppliedHunks' \subseteq AppliedHunks
    BY <2>1, <2>2 DEF EditInv, AppliedHunks
  <2>4. ApplyHunks(original_content, hunks, landed)' = ApplyHunks(original_content, hunks, landed)
    BY <2>2
  <2> QED
    BY <2>2, <2>3, <2>4 DEF EditInv, FromTheRequest
<1>3. CASE ApplyAcceptedHunks
  <2>1. /\ hunks # <<>> /\ studio_file' = ApplyHunks(original_content, hunks, AcceptedHunks)
        /\ landed' = AcceptedHunks /\ writer' = "session" /\ applies' = applies + 1
        /\ statuses' = [k \in 1..Len(hunks) |->
                            IF statuses[k] = "accepted" THEN "applied" ELSE statuses[k]]
        /\ UNCHANGED <<hunks, original_content>>
    BY <1>3 DEF ApplyAcceptedHunks
  <2>2. AppliedHunks' \subseteq AppliedHunks \cup landed'
    BY <2>1 DEF AppliedHunks, AcceptedHunks
  <2>3. ApplyHunks(original_content, hunks, landed)' = studio_file'
    BY <2>1
  <2>4. statuses' \in [1..Len(hunks) -> {"pending", "accepted", "rejected", "applied"}]
    BY <2>1 DEF EditInv
  <2> QED
    BY <2>1, <2>2, <2>3, <2>4 DEF EditInv, FromTheRequest
<1>4. CASE CancelEditSession
  <2>1. hunks' = <<>> /\ statuses' = <<>> /\ applies' = 0 /\ writer' = "user"
    BY <1>4 DEF CancelEditSession
  <2> QED
    BY <2>1 DEF EditInv, FromTheRequest, AppliedHunks
<1>5. CASE OthersWrite
  <2>1. writer' = "user" /\ UNCHANGED <<hunks, statuses, applies>>
    BY <1>5 DEF OthersWrite
  <2> QED
    BY <2>1 DEF EditInv, FromTheRequest, AppliedHunks
<1> QED
  BY <1>1, <1>2, <1>3, <1>4, <1>5 DEF EditNext

\* For any answers and texts: a file that a session wrote is the content of the
\* request with the hunks of the last apply, without those of an earlier apply
\* and whatever others wrote before it (structured_edit.rs:313); and after the
\* first apply only a hunk that was in it is shown as applied.
THEOREM AppliedFromTheRequest == EditSpec => []FromTheRequest
<1>1. ASSUME EditInit PROVE EditInv
  BY <1>1 DEF EditInit, EditInv, FromTheRequest, AppliedHunks
<1>2. ASSUME EditInv, UNCHANGED editVars PROVE EditInv'
  <2>1. ApplyHunks(original_content, hunks, landed)' = ApplyHunks(original_content, hunks, landed)
    BY <1>2 DEF editVars
  <2> QED
    BY <1>2, <2>1 DEF EditInv, FromTheRequest, AppliedHunks, editVars
<1> QED
  BY <1>1, <1>2, EditStep, PTL DEF EditSpec, EditInv

\* A hunk of a file with these lines: its range is in order, unless it starts after
\* them; and nothing is in the place of a hunk before the first line.
Shaped(h, ls) ==
    /\ h.start \in Nat /\ h.end \in Nat /\ h.replacement \in Seq(STRING)
    /\ h.start <= h.end \/ h.start > Len(ls)
    /\ h.end = 0 /\ ls # <<>> => h.blank

SessionLines ==
    /\ original_content \in [lines : Seq(STRING), ended : BOOLEAN]
    /\ Len(hunks) \in Nat
    /\ \A k \in 1..Len(hunks) : Shaped(hunks[k], original_content.lines)
    /\ landed \in SUBSET (1..Len(hunks))

LEMMA HunkOfShape ==
    ASSUME NEW text \in [lines : Seq(STRING), ended : BOOLEAN],
           NEW e \in [op : STRING, start : Nat, end : Nat, content : Seq(STRING)],
           e.start <= e.end
    PROVE  Shaped(HunkOf(e, text), text.lines)
<1> DEFINE len == Len(text.lines)
           whole == e.op = "replace_file" /\ text # NoText
           end == IF whole THEN len ELSE e.end
           h == HunkOf(e, text)
<1>1. len \in Nat /\ end \in Nat /\ text.lines \in Seq(STRING)
  OBVIOUS
<1>2. h.start = e.start /\ h.end = end /\ h.replacement = e.content
  BY DEF HunkOf
<1>3. e.start <= end \/ e.start > len
  BY <1>1
<1>4. ASSUME end = 0, text.lines # <<>> PROVE h.blank
  <2>1. len # 0
    BY <1>1, <1>4, EmptySeq
  <2>2. ~ whole
    BY <1>4, <2>1
  <2>3. text # NoText
    BY <1>4 DEF NoText
  <2>4. e.op # "replace_file"
    BY <2>2, <2>3
  <2>5. e.start = 0 /\ e.end = 0
    BY <1>4, <2>2
  <2>6. Named(e, len) = {}
    BY <1>1, <2>5 DEF Named, Smaller
  <2> QED
    BY <2>4, <2>6 DEF HunkOf
<1> HIDE DEF end
<1>5. h.start \in Nat /\ h.end \in Nat /\ h.replacement \in Seq(STRING)
  BY <1>1, <1>2
<1>6. h.start <= h.end \/ h.start > Len(text.lines)
  BY <1>2, <1>3
<1>7. h.end = 0 /\ text.lines # <<>> => h.blank
  BY <1>2, <1>4
<1> QED
  BY <1>5, <1>6, <1>7 DEF Shaped

LEMMA SessionLinesStep ==
    ASSUME SessionLines, EditNext
    PROVE  SessionLines'
<1>1. CASE RequestStructuredEdit
  <2>1. PICK es \in Edits : hunks' = [k \in 1..Len(es) |-> HunkOf(es[k], studio_file)]
    BY <1>1 DEF RequestStructuredEdit
  <2>2. /\ hunks = <<>> /\ studio_file \in Texts \cup {NoText}
        /\ original_content' = studio_file /\ landed' = landed
    BY <1>1 DEF RequestStructuredEdit
  <2>3. studio_file \in [lines : Seq(STRING), ended : BOOLEAN]
    <3>1. NoText \in [lines : Seq(STRING), ended : BOOLEAN]
      BY EmptySeq DEF NoText
    <3> QED
      BY <2>2, <3>1, EditAssumption
  <2>4. /\ es \in Seq([op : STRING, start : Nat, end : Nat, content : Seq(STRING)])
        /\ \A k \in DOMAIN es : es[k].start <= es[k].end
    BY EditAssumption
  <2>5. /\ Len(es) \in Nat /\ DOMAIN es = 1..Len(es)
        /\ \A k \in 1..Len(es) : es[k] \in [op : STRING, start : Nat, end : Nat, content : Seq(STRING)]
    BY <2>4, LenProperties, ElementOfSeq
  <2>6. Len(hunks') = Len(es) /\ \A k \in 1..Len(es) : hunks'[k] = HunkOf(es[k], studio_file)
    BY <2>1, <2>5
  <2>7. \A k \in 1..Len(es) : Shaped(hunks'[k], original_content'.lines)
    BY <2>2, <2>3, <2>4, <2>5, <2>6, HunkOfShape
  <2>8. landed = {}
    <3>1. Len(hunks) = 0
      BY <2>2
    <3> QED
      BY <3>1 DEF SessionLines
  <2> QED
    BY <2>2, <2>3, <2>5, <2>6, <2>7, <2>8 DEF SessionLines
<1>2. CASE UpdateHunkStatus
  BY <1>2 DEF UpdateHunkStatus, SessionLines
<1>3. CASE ApplyAcceptedHunks
  BY <1>3 DEF ApplyAcceptedHunks, SessionLines, AcceptedHunks
<1>4. CASE CancelEditSession
  <2>1. hunks' = <<>> /\ landed' = {} /\ original_content' = NoText /\ Len(hunks') = 0
    BY <1>4 DEF CancelEditSession
  <2>2. NoText \in [lines : Seq(STRING), ended : BOOLEAN]
    BY EmptySeq DEF NoText
  <2> QED
    BY <2>1, <2>2 DEF SessionLines
<1>5. CASE OthersWrite
  BY <1>5 DEF OthersWrite, SessionLines
<1> QED
  BY <1>1, <1>2, <1>3, <1>4, <1>5 DEF EditNext

LEMMA LandedAtOnce ==
    ASSUME SessionLines, FromTheRequest
    PROVE  EditsLand
<1> SUFFICES ASSUME writer = "session"
             PROVE  /\ landed = {} => studio_file = original_content
                    /\ (landed # {} /\ Apart(landed) /\ \A i \in landed : Understood(hunks[i]))
                          => studio_file = Joined(Simultaneous(landed))
                    /\ applies = 1 => AppliedHunks \subseteq landed
  BY DEF EditsLand, AppliedHunks
<1>1. studio_file = ApplyHunks(original_content, hunks, landed)
  BY DEF FromTheRequest
<1>2. landed = {} => studio_file = original_content
  BY <1>1 DEF ApplyHunks
<1>3. ASSUME landed # {}, Apart(landed), \A i \in landed : Understood(hunks[i])
      PROVE  studio_file = Joined(Simultaneous(landed))
  <2> DEFINE ls == original_content.lines
  <2>1. ls \in Seq(STRING)
    BY DEF SessionLines
  <2>2. Sound(ls, hunks, landed, STRING)
    <3>1. ASSUME NEW i \in landed
          PROVE  /\ Shaped(hunks[i], ls) /\ hunks[i].start <= Len(ls)
                 /\ Inserts(hunks[i]) <=> hunks[i].op = "insert_after"
                 /\ hunks[i].op = "insert_after" \/ ls # <<>>
      BY <1>3 DEF SessionLines, Understood
    <3>2. ASSUME NEW i \in landed
          PROVE  /\ hunks[i].start \in Nat /\ hunks[i].end \in Nat /\ hunks[i].start <= hunks[i].end
                 /\ hunks[i].replacement \in Seq(STRING)
                 /\ hunks[i].end = 0 /\ ls # <<>> => hunks[i].blank
      <4>1. Len(ls) \in Nat
        BY <2>1
      <4> HIDE DEF ls
      <4> QED
        BY <3>1, <4>1 DEF Shaped
    <3> HIDE DEF ls
    <3> QED
      BY <1>3, <3>1, <3>2 DEF Sound, Ranged, Apart
  <2>3. IsFiniteSet(landed)
    <3>1. landed \in SUBSET (1..Len(hunks)) /\ Len(hunks) \in Nat
      BY DEF SessionLines
    <3>2. IsFiniteSet(1..Len(hunks))
      BY <3>1, FS_Interval
    <3> QED
      BY <3>1, <3>2, FS_Subset
  <2>4. LinesAfter(ls, hunks, landed)[landed] = AtOnce(ls, hunks, landed)[0]
    BY <2>1, <2>2, <2>3, OneByOne
  <2> QED
    BY <1>1, <1>3, <2>4 DEF ApplyHunks, Simultaneous
<1>4. applies = 1 => AppliedHunks \subseteq landed
  BY DEF FromTheRequest
<1> QED
  BY <1>2, <1>3, <1>4

\* For any answers and texts: the hunks accepted at an apply reach the file as one
\* edit of the lines they were shown with (diff/mod.rs:162): to apply them from the
\* bottom to the top is to apply all of them at once.
THEOREM EditsLandAlways == EditSpec => []EditsLand
<1>1. ASSUME EditInit PROVE SessionLines
  <2>1. NoText \in [lines : Seq(STRING), ended : BOOLEAN]
    BY EmptySeq DEF NoText
  <2>2. Len(hunks) = 0
    BY <1>1 DEF EditInit
  <2> QED
    BY <1>1, <2>1, <2>2 DEF EditInit, SessionLines
<1>2. ASSUME SessionLines, UNCHANGED editVars PROVE SessionLines'
  BY <1>2 DEF SessionLines, editVars
<1> QED
  BY <1>1, <1>2, SessionLinesStep, LandedAtOnce, AppliedFromTheRequest, PTL DEF EditSpec
=============================================================================
