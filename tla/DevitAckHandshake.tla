--------------------------- MODULE DevitAckHandshake ---------------------------
(***************************************************************************)
(* The acknowledgement of a notification (devitd/src/main.rs, run_notify_  *)
(* hook and the ACK case of handle_notify). The daemon runs a hook program *)
(* for each notification and keeps, by task, a marker path, a socket path  *)
(* and, once the hook has connected, a writer. An ACK of the client takes  *)
(* these under one lock after another and releases the hook by a byte or,  *)
(* if that fails, by a file. One task with several notifications.          *)
(* The hook, a script of the user, is modelled from scripts/               *)
(* devit_notify_example.sh: it waits on the socket, then for the file,     *)
(* each for a limited time.                                                *)
(***************************************************************************)
EXTENDS Naturals, FiniteSets

CONSTANTS MaxHooks,     \* bound: notifications of the task
          Ackers,       \* handlers of an ACK that run side by side
          MaxAcks       \* bound: ACKs of the client

ASSUME AckAssumption == MaxHooks \in Nat /\ MaxAcks \in Nat

Hooks == 1..MaxHooks
NoHook == 0

VARIABLES hook,          \* of each hook: where it is
          hooks_begun,
          ack_marker,    \* ack_markers has the task
          ack_writer,    \* the hook whose connection ack_writers holds, or NoHook
          marker_file,   \* the file is there
          accepting,     \* hooks whose connection the accept task still has to store
          byte,          \* hooks whose socket holds the byte
          ack,           \* what each handler of an ACK does
          marker_opt, writer_opt,
          \* history
          acks, released, \* hooks that were acknowledged
          owed,          \* the hook that was prepared, and not over, when an ACK took its marker
          cut,           \* hooks whose time on the socket ended with the byte unread
          overlap        \* two hooks of the task have run side by side

ackVars == <<hook, hooks_begun, ack_marker, ack_writer, marker_file, accepting, byte, ack,
             marker_opt, writer_opt, acks, released, owed, cut, overlap>>

AckInit ==
    /\ hook = [h \in Hooks |-> "none"] /\ hooks_begun = 0
    /\ ack_marker = FALSE /\ ack_writer = NoHook /\ marker_file = FALSE
    /\ accepting = {} /\ byte = {}
    /\ ack = [a \in Ackers |-> "none"] /\ marker_opt = [a \in Ackers |-> FALSE]
    /\ writer_opt = [a \in Ackers |-> NoHook]
    /\ acks = 0 /\ released = {} /\ owed = NoHook /\ cut = {} /\ overlap = FALSE

Waiting(h) == hook[h] \in {"prepared", "on socket", "connected", "for file"}
At(h, step) == hook' = [hook EXCEPT ![h] = step]

-----------------------------------------------------------------------------
(* run_notify_hook: the marker is recorded, the socket bound, the program  *)
(* started. It may lack the means to read a socket.                        *)

Prepare ==
    /\ hooks_begun < MaxHooks
    /\ overlap' = (overlap \/ \E h \in Hooks : Waiting(h))
    /\ hooks_begun' = hooks_begun + 1
    /\ ack_marker' = TRUE
    /\ At(hooks_begun', "prepared")
    /\ UNCHANGED <<ack_writer, marker_file, accepting, byte, ack, marker_opt, writer_opt,
                   acks, released, owed, cut>>

StartHook(h) ==
    /\ hook[h] = "prepared"
    /\ \E step \in {"on socket", "for file"} : At(h, step)
    /\ UNCHANGED <<hooks_begun, ack_marker, ack_writer, marker_file, accepting, byte, ack,
                   marker_opt, writer_opt, acks, released, owed, cut, overlap>>

Connect(h) ==
    /\ hook[h] = "on socket"
    /\ At(h, "connected")
    /\ accepting' = accepting \cup {h}
    /\ UNCHANGED <<hooks_begun, ack_marker, ack_writer, marker_file, byte, ack, marker_opt,
                   writer_opt, acks, released, owed, cut, overlap>>

\* The accept task stores the writer; it may be late.
StoreWriter(h) ==
    /\ h \in accepting
    /\ ack_writer' = h
    /\ accepting' = accepting \ {h}
    /\ UNCHANGED <<hook, hooks_begun, ack_marker, marker_file, byte, ack, marker_opt, writer_opt,
                   acks, released, owed, cut, overlap>>

ReadByte(h) ==
    /\ hook[h] = "connected" /\ h \in byte
    /\ At(h, "over")
    /\ byte' = byte \ {h} /\ released' = released \cup {h}
    /\ UNCHANGED <<hooks_begun, ack_marker, ack_writer, marker_file, accepting, ack, marker_opt,
                   writer_opt, acks, owed, cut, overlap>>

\* After ACK_TIMEOUT the client of the socket is killed, and what it has not read
\* is gone.
SocketTimeout(h) ==
    /\ hook[h] \in {"on socket", "connected"}
    /\ At(h, "for file")
    /\ byte' = byte \ {h}
    /\ cut' = cut \cup (byte \cap {h})
    /\ UNCHANGED <<hooks_begun, ack_marker, ack_writer, marker_file, accepting, ack,
                   marker_opt, writer_opt, acks, released, owed, overlap>>

FindFile(h) ==
    /\ hook[h] = "for file" /\ marker_file
    /\ At(h, "over")
    /\ marker_file' = FALSE /\ released' = released \cup {h}
    /\ UNCHANGED <<hooks_begun, ack_marker, ack_writer, accepting, byte, ack, marker_opt,
                   writer_opt, acks, owed, cut, overlap>>

FileTimeout(h) ==
    /\ hook[h] = "for file" /\ ~ marker_file
    /\ At(h, "over")
    /\ owed' = IF owed = h THEN NoHook ELSE owed
    /\ UNCHANGED <<hooks_begun, ack_marker, ack_writer, marker_file, accepting, byte, ack,
                   marker_opt, writer_opt, acks, released, cut, overlap>>

-----------------------------------------------------------------------------
(* handle_notify with status "ack".                                        *)

TakeMarker(a) ==
    /\ ack[a] = "none" /\ acks < MaxAcks /\ acks' = acks + 1
    /\ marker_opt' = [marker_opt EXCEPT ![a] = ack_marker] /\ ack_marker' = FALSE
    /\ ack' = [ack EXCEPT ![a] = "writer"]
    /\ owed' = IF ack_marker /\ \E h \in Hooks : Waiting(h)
               THEN CHOOSE h \in Hooks : Waiting(h) ELSE owed
    /\ UNCHANGED <<hook, hooks_begun, ack_writer, marker_file, accepting, byte, writer_opt, released, cut, overlap>>

TakeWriter(a) ==
    /\ ack[a] = "writer"
    /\ writer_opt' = [writer_opt EXCEPT ![a] = ack_writer] /\ ack_writer' = NoHook
    /\ ack' = [ack EXCEPT ![a] = IF ack_writer = NoHook THEN "file" ELSE "byte"]
    /\ UNCHANGED <<hook, hooks_begun, ack_marker, marker_file, accepting, byte, marker_opt, acks,
                   released, owed, cut, overlap>>

\* A slip: a failed write counts as an acknowledgement.
WriteByteAnyway(a) ==
    /\ ack[a] = "byte"
    /\ IF hook[writer_opt[a]] = "connected"
       THEN byte' = byte \cup {writer_opt[a]} /\ marker_file' = FALSE
       ELSE UNCHANGED <<byte, marker_file>>
    /\ ack' = [ack EXCEPT ![a] = "none"] /\ marker_opt' = [marker_opt EXCEPT ![a] = FALSE] /\ writer_opt' = [writer_opt EXCEPT ![a] = NoHook]
    /\ UNCHANGED <<hook, hooks_begun, ack_marker, ack_writer, accepting, acks, released, owed, cut, overlap>>

\* The write fails when the hook has gone; a marker file that is there goes, if
\* the marker was taken.
WriteByte(a) ==
    /\ ack[a] = "byte"
    /\ IF hook[writer_opt[a]] = "connected"
       THEN /\ byte' = byte \cup {writer_opt[a]}
            /\ marker_file' = (marker_file /\ ~ marker_opt[a])
            /\ ack' = [ack EXCEPT ![a] = "none"] /\ marker_opt' = [marker_opt EXCEPT ![a] = FALSE]
       ELSE ack' = [ack EXCEPT ![a] = "file"] /\ UNCHANGED <<byte, marker_file, marker_opt>>
    /\ writer_opt' = [writer_opt EXCEPT ![a] = NoHook]
    /\ UNCHANGED <<hook, hooks_begun, ack_marker, ack_writer, accepting, acks, released, owed, cut, overlap>>

TouchMarker(a) ==
    /\ ack[a] = "file"
    /\ marker_file' = (marker_file \/ marker_opt[a])
    /\ ack' = [ack EXCEPT ![a] = "none"] /\ marker_opt' = [marker_opt EXCEPT ![a] = FALSE]
    /\ UNCHANGED <<hook, hooks_begun, ack_marker, ack_writer, accepting, byte, writer_opt, acks,
                   released, owed, cut, overlap>>

AckNext ==
    \/ Prepare
    \/ \E a \in Ackers : TakeMarker(a) \/ TakeWriter(a) \/ WriteByte(a) \/ TouchMarker(a)
    \/ \E h \in Hooks :
          \/ StartHook(h) \/ Connect(h) \/ StoreWriter(h) \/ ReadByte(h) \/ SocketTimeout(h)
          \/ FindFile(h) \/ FileTimeout(h)

AckSpec == AckInit /\ [][AckNext]_ackVars

-----------------------------------------------------------------------------
(* Properties.                                                             *)

\* No handler of an ACK is under way: what the last ACK was owed is with its hook.
Delivered == \A a \in Ackers : ack[a] = "none"

\* An ACK that finds the hook prepared reaches it, by the byte or by the file,
\* at whatever moment the hook connects and its connection is stored, unless
\* the hook gave up first: on the file, or on the socket with the byte in it, which
\* is the one way an ACK is lost (main.rs:2194-2214 makes no file after the byte).
\* And no ACK acknowledges two notifications (main.rs:2187, 2966). Not so once
\* hooks of one task have run side by side.
AckReaches ==
    \/ overlap
    \/ /\ owed # NoHook /\ Delivered
          => \/ owed \in released \cup cut
             \/ hook[owed] = "connected" /\ owed \in byte
             \/ Waiting(owed) /\ marker_file
       /\ Cardinality(released) <= acks
=============================================================================
