-------------------------------- MODULE DevitLsp --------------------------------
(***************************************************************************)
(* The language client of the Studio (crates/studio/src/lsp/client.rs,     *)
(* registry.rs, ipc/lsp.rs), for one language. A command takes the write   *)
(* lock of the registry and keeps it until its request is answered; the    *)
(* answer comes over a reader task, which knows the requests by their ids  *)
(* in pending_requests. Each start makes a client of its own, with its own *)
(* server, reader and ids, counted here from 1. Servers answer, send       *)
(* requests of their own, fail and exit when they like.                    *)
(***************************************************************************)
EXTENDS Naturals, Sequences

CONSTANTS Commands,
          NoCommand,
          MaxStarts, MaxMessages, MaxIds   \* bounds: clients, messages of a server, requests of a client

ASSUME LspAssumption == NoCommand \notin Commands /\ {MaxStarts, MaxMessages, MaxIds} \subseteq Nat

Clients == 1..MaxStarts

\* What a server sends under an id: the answer to a request, an error in its
\* place, or a request of its own, which the reader does not tell from an answer.
Messages == [id : 1..MaxIds, kind : {"answer", "error", "request"}]
NoReply  == [id |-> 0, kind |-> "none", by |-> 0]

VARIABLES client,             \* the one in the registry, or 0
          starts,             \* the clients there have been
          request_id, pending_requests,
          holder,             \* the command with the write lock
          command,            \* what it does: start, stop or ask
          progress,           \* and how far it is: register, send or wait
          on, id,             \* with which client and which request
          reply,              \* what its channel has received
          inbox, outbox,      \* of each server: ids it was asked, messages not read yet
          server, reader,
          said,               \* history: messages a server has sent
          answered            \* history: ids of answers that readers have taken

lspVars == <<client, starts, request_id, pending_requests, holder, command, progress, on, id, reply,
             inbox, outbox, server, reader, said, answered>>

channel == <<inbox, outbox, server, reader, said, answered>>

LspInit ==
    /\ client = 0 /\ starts = 0
    /\ request_id = [k \in Clients |-> 1] /\ pending_requests = [k \in Clients |-> {}]
    /\ holder = NoCommand /\ command = "none" /\ progress = "none" /\ on = 0 /\ id = 0 /\ reply = NoReply
    /\ inbox = [k \in Clients |-> {}] /\ outbox = [k \in Clients |-> <<>>]
    /\ server = [k \in Clients |-> "none"] /\ reader = [k \in Clients |-> "none"]
    /\ said = [k \in Clients |-> 0] /\ answered = [k \in Clients |-> {}]

-----------------------------------------------------------------------------
(* Commands.                                                               *)

Take(c, what, k) ==
    /\ holder = NoCommand /\ holder' = c
    /\ command' = what /\ progress' = "register" /\ on' = k /\ reply' = NoReply

\* A start while there is a client returns at once; spawning the server may fail.
StartLsp(c) ==
    /\ client = 0 /\ starts < MaxStarts
    /\ Take(c, "start", starts + 1)
    /\ starts' = starts + 1
    /\ server' = [server EXCEPT ![starts + 1] = "running"]
    /\ reader' = [reader EXCEPT ![starts + 1] = "reading"]
    /\ UNCHANGED <<client, request_id, pending_requests, id, inbox, outbox, said, answered>>

\* The client leaves the registry before it is told to shut down.
StopLsp(c) ==
    /\ client # 0
    /\ Take(c, "stop", client)
    /\ client' = 0
    /\ UNCHANGED <<starts, request_id, pending_requests, id, channel>>

\* get_completions and get_hover.
Ask(c) ==
    /\ client # 0 /\ request_id[client] <= MaxIds
    /\ Take(c, "ask", client)
    /\ UNCHANGED <<client, starts, request_id, pending_requests, id, channel>>

Register ==
    /\ progress = "register" /\ request_id[on] <= MaxIds
    /\ id' = request_id[on]
    /\ request_id' = [request_id EXCEPT ![on] = @ + 1]
    /\ pending_requests' = [pending_requests EXCEPT ![on] = @ \cup {request_id[on]}]
    /\ progress' = "send"
    /\ UNCHANGED <<client, starts, holder, command, on, reply, channel>>

Release == holder' = NoCommand /\ command' = "none" /\ progress' = "none" /\ on' = 0 /\ id' = 0 /\ reply' = NoReply

\* The request is written; to a server that has exited it cannot be, and its
\* entry stays in pending_requests.
SendRequest ==
    /\ progress = "send"
    /\ IF server[on] = "running"
       THEN /\ inbox' = [inbox EXCEPT ![on] = @ \cup {id}] /\ progress' = "wait"
            /\ UNCHANGED <<holder, command, on, id, reply>>
       ELSE Release /\ UNCHANGED inbox
    /\ UNCHANGED <<client, starts, request_id, pending_requests, outbox, server, reader, said, answered>>

\* The channel has the reply. A start keeps the client if initialize was answered
\* (the null in place of a result is no InitializeResult); a stop kills the server
\* unless its shutdown was answered with an error.
Receive ==
    /\ progress = "wait" /\ reply # NoReply
    /\ client' = IF command = "start" /\ reply.kind = "answer" /\ server[on] = "running" THEN on ELSE client
    /\ server' = IF command = "stop" /\ reply.kind # "error" THEN [server EXCEPT ![on] = "gone"] ELSE server
    /\ Release
    /\ UNCHANGED <<starts, request_id, pending_requests, inbox, outbox, reader, said, answered>>

-----------------------------------------------------------------------------
(* Servers and readers.                                                    *)

ServerSends(k) ==
    /\ server[k] = "running" /\ said[k] < MaxMessages
    /\ \E m \in Messages :
          /\ m.kind # "request" => m.id \in inbox[k]
          /\ inbox' = IF m.kind = "request" THEN inbox ELSE [inbox EXCEPT ![k] = @ \ {m.id}]
          /\ outbox' = [outbox EXCEPT ![k] = Append(@, m)]
    /\ said' = [said EXCEPT ![k] = @ + 1]
    /\ UNCHANGED <<client, starts, request_id, pending_requests, holder, command, progress, on, id, reply,
                   server, reader, answered>>

ServerExits(k) ==
    /\ server[k] = "running" /\ server' = [server EXCEPT ![k] = "gone"]
    /\ UNCHANGED <<client, starts, request_id, pending_requests, holder, command, progress, on, id, reply,
                   inbox, outbox, reader, said, answered>>

\* A slip: one table of requests for all clients.
WaitsAnywhere(k, i) == id = i /\ \E j \in Clients : i \in pending_requests[j]

\* The sender under the id is that of the command that waits; those of commands
\* that failed are still there.
Waits(k, i) == id = i /\ on = k /\ i \in pending_requests[k]

\* A reader takes a message: who waits for its id gets it, whatever it is.
Dispatch(k) ==
    /\ reader[k] = "reading" /\ outbox[k] # <<>>
    /\ LET m == Head(outbox[k])
       IN  /\ pending_requests' = [pending_requests EXCEPT ![k] = @ \ {m.id}]
           /\ reply' = IF Waits(k, m.id) THEN [id |-> m.id, kind |-> m.kind, by |-> k] ELSE reply
           /\ answered' = IF m.kind = "request" THEN answered ELSE [answered EXCEPT ![k] = @ \cup {m.id}]
    /\ outbox' = [outbox EXCEPT ![k] = Tail(@)]
    /\ UNCHANGED <<client, starts, request_id, holder, command, progress, on, id, inbox, server, reader, said>>

\* The reader ends with the server's output, or at a message it cannot parse.
ReaderEnds(k) ==
    /\ reader[k] = "reading" /\ (outbox[k] = <<>> => server[k] = "gone")
    /\ reader' = [reader EXCEPT ![k] = "ended"]
    /\ UNCHANGED <<client, starts, request_id, pending_requests, holder, command, progress, on, id, reply,
                   inbox, outbox, server, said, answered>>

LspNext ==
    \/ \E c \in Commands : StartLsp(c) \/ StopLsp(c) \/ Ask(c)
    \/ Register \/ SendRequest \/ Receive
    \/ \E k \in Clients : ServerSends(k) \/ ServerExits(k) \/ Dispatch(k) \/ ReaderEnds(k)

LspSpec == LspInit /\ [][LspNext]_lspVars

-----------------------------------------------------------------------------
(* Properties.                                                             *)

\* An answer that a reader has taken reached its request, although the server may
\* answer before the command has begun to wait (client.rs:236 makes the entry
\* before the request is written), and the answers of a server that was started
\* earlier go to nobody.
NoAnswerLost ==
    /\ progress = "wait" /\ reply = NoReply => id \notin answered[on] /\ id \in pending_requests[on]
    /\ reply # NoReply => reply.id = id /\ reply.by = on
================================================================================
