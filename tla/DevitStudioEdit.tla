----------------------------- MODULE DevitStudioEdit -----------------------------
(***************************************************************************)
(* Structured edits of the Studio (crates/studio/src/ipc/structured_edit.rs *)
(* and the DiffApplier of crates/context-engine/src/diff/mod.rs): a model  *)
(* answers with edits of one file, which become the hunks of a session;    *)
(* the user accepts or rejects them and applies what is accepted. The      *)
(* hunks are always applied to the file as it was at the request. A text   *)
(* is its lines and whether the last one ends in a newline. Each command   *)
(* holds the lock of the sessions, so each is one step.                    *)
(***************************************************************************)
EXTENDS Naturals, FiniteSets, Sequences, SequencesExt

CONSTANTS Texts,       \* what the file may hold
          Edits,       \* the lists of edits a model may answer with
          MaxApplies   \* bound: the times a session is applied

\* An answer whose range ends before it starts is left out: applying it panics.
ASSUME EditAssumption ==
    /\ MaxApplies \in Nat
    /\ Edits \subseteq Seq([op : STRING, start : Nat, end : Nat, content : Seq(STRING)])
    /\ \A es \in Edits : \A k \in DOMAIN es : es[k].start <= es[k].end
    /\ Texts \subseteq [lines : Seq(STRING), ended : BOOLEAN]

NoText == [lines |-> <<>>, ended |-> TRUE]   \* there is no file

VARIABLES studio_file,
          hunks, original_content,           \* the session; <<>> is none
          statuses,                             \* the status of each hunk
          applies,
          landed, writer                    \* history: what the last write consisted of, and whose it was

editVars == <<studio_file, hunks, original_content, statuses, applies, landed, writer>>

EditInit ==
    /\ studio_file \in Texts \cup {NoText}
    /\ hunks = <<>> /\ original_content = NoText /\ statuses = <<>> /\ applies = 0
    /\ landed = {} /\ writer = "user"

-----------------------------------------------------------------------------
(* The hunks of an answer.                                                 *)

\* The text of joined lines: an empty last line is only a final newline.
Joined(ls) ==
    IF ls # <<>> /\ Last(ls) = "" THEN [lines |-> Front(ls), ended |-> Len(ls) > 1]
    ELSE [lines |-> ls, ended |-> FALSE]

Smaller(a, b) == IF a < b THEN a ELSE b

\* The indices of the lines a hunk names, once they are cut to the file.
Named(h, len) == (IF h.start = 0 THEN 1 ELSE h.start)..Smaller(h.end, len)

\* parse_edit and fill_original_content: an edit of the whole file gets its last
\* line; blank is whether the original of the hunk is the empty string.
HunkOf(e, text) ==
    LET len == Len(text.lines)
        h   == IF e.op = "replace_file" /\ text # NoText THEN [e EXCEPT !.end = len] ELSE e
        old == Named(h, len)
    IN  [op |-> h.op, start |-> h.start, end |-> h.end, replacement |-> h.content,
         blank |-> IF e.op = "replace_file" THEN text \in {NoText, [lines |-> <<>>, ended |-> FALSE]}
                   ELSE \/ old = {}
                        \/ Cardinality(old) = 1 /\ \A i \in old : text.lines[i] = ""]

\* A file that cannot be read leaves the session without its content. What the
\* file holds at a request is bounded.
RequestStructuredEdit ==
    /\ hunks = <<>> /\ studio_file \in Texts \cup {NoText}
    /\ \E es \in Edits :
          /\ hunks' = [k \in 1..Len(es) |-> HunkOf(es[k], studio_file)]
          /\ statuses' = [k \in 1..Len(es) |-> "pending"]
    /\ original_content' = studio_file /\ applies' = 0
    /\ UNCHANGED <<studio_file, landed, writer>>

\* update_hunk_status: whatever the hunk was before, applied too.
UpdateHunkStatus ==
    /\ \E k \in 1..Len(hunks), s \in {"accepted", "rejected"} :
          statuses[k] # s /\ statuses' = [statuses EXCEPT ![k] = s]
    /\ UNCHANGED <<studio_file, hunks, original_content, applies, landed, writer>>

-----------------------------------------------------------------------------
(* apply_hunks.                                                            *)

Inserts(h) == h.replacement # <<>> /\ h.blank /\ h.start = h.end

\* One hunk applied to lines that the hunks before it have changed.
OneApplied(ls, h) ==
    LET first == IF h.start = 0 THEN 0 ELSE h.start - 1
        place == Smaller(h.start, Len(ls))
    IN  IF Inserts(h)
        THEN SubSeq(ls, 1, place) \o h.replacement \o SubSeq(ls, place + 1, Len(ls))
        ELSE IF first < Len(ls)
        THEN SubSeq(ls, 1, first) \o h.replacement \o SubSeq(ls, Smaller(h.end, Len(ls)) + 1, Len(ls))
        ELSE ls

\* A slip: the hunks from the top to the bottom.
TopFirst(hs, i, j) == hs[i].start < hs[j].start \/ (hs[i].start = hs[j].start /\ i < j)

\* The stable order by start line, the last line first.
Before(hs, i, j) == hs[i].start > hs[j].start \/ (hs[i].start = hs[j].start /\ i < j)

LastOf(hs, S) == CHOOSE i \in S : \A j \in S \ {i} : Before(hs, j, i)

\* The lines after the hunks of each set, in this order.
LinesAfter(ls, hs, accepted) ==
    LET after[S \in SUBSET accepted] ==
            IF S = {} THEN ls ELSE OneApplied(after[S \ {LastOf(hs, S)}], hs[LastOf(hs, S)])
    IN  after

ApplyHunks(text, hs, accepted) ==
    IF accepted = {} THEN text ELSE Joined(LinesAfter(text.lines, hs, accepted)[accepted])

AcceptedHunks == {k \in 1..Len(hunks) : statuses[k] = "accepted"}

\* apply_accepted_hunks. Without accepted hunks the content of the request is
\* landed all the same; when the write fails, the hunks stay accepted.
ApplyAcceptedHunks ==
    /\ hunks # <<>> /\ original_content # NoText /\ applies < MaxApplies
    /\ studio_file' = ApplyHunks(original_content, hunks, AcceptedHunks)
    /\ landed' = AcceptedHunks /\ writer' = "session"
    /\ statuses' = [k \in 1..Len(hunks) |-> IF statuses[k] = "accepted" THEN "applied" ELSE statuses[k]]
    /\ applies' = applies + 1
    /\ UNCHANGED <<hunks, original_content>>

CancelEditSession ==
    /\ hunks # <<>>
    /\ hunks' = <<>> /\ statuses' = <<>> /\ original_content' = NoText /\ applies' = 0
    /\ landed' = {} /\ writer' = "user"
    /\ UNCHANGED studio_file

\* The user, a patch or another session.
OthersWrite ==
    /\ writer = "session" /\ applies < MaxApplies
    /\ studio_file' \in Texts \cup {NoText} /\ writer' = "user" /\ landed' = {}
    /\ UNCHANGED <<hunks, original_content, statuses, applies>>

EditNext ==
    \/ RequestStructuredEdit \/ UpdateHunkStatus \/ ApplyAcceptedHunks \/ CancelEditSession \/ OthersWrite

EditSpec == EditInit /\ [][EditNext]_editVars

-----------------------------------------------------------------------------
(* Properties.                                                             *)

HunkLines(h) == h.start..h.end

\* The hunks whose edits the code means as the model that answered does: inserts
\* that it does not take for replacements of the line, and the reverse, and no
\* replacement in a file without lines, which the code leaves out.
Understood(h) ==
    LET ls == original_content.lines
    IN  /\ h.start <= Len(ls) /\ (Inserts(h) <=> h.op = "insert_after")
        /\ h.op = "insert_after" \/ ls # <<>>

Apart(S) == \A i, j \in S : i = j \/ HunkLines(hunks[i]) \cap HunkLines(hunks[j]) = {}

\* What the hunks in S make of line n; 0 is before the first line.
HunksAt(hs, S, n) == {i \in S : n \in HunkLines(hs[i])}
Piece(ls, hs, S, n) ==
    LET old == IF n = 0 THEN <<>> ELSE <<ls[n]>>
        h   == hs[CHOOSE i \in HunksAt(hs, S, n) : TRUE]
    IN  IF HunksAt(hs, S, n) = {} THEN old
        ELSE IF h.op = "insert_after" THEN old \o h.replacement
        ELSE IF n = h.start THEN h.replacement ELSE <<>>

\* All the edits at once, each at the lines of the request: from each line on.
AtOnce(ls, hs, S) ==
    LET from[n \in 0..(Len(ls) + 1)] ==
            IF n > Len(ls) THEN <<>> ELSE Piece(ls, hs, S, n) \o from[n + 1]
    IN  from

Simultaneous(S) == AtOnce(original_content.lines, hunks, S)[0]

\* The file holds exactly the edits that were accepted at the apply, each at the
\* lines it was shown with, however many lines the others add or remove
\* (diff/mod.rs:162 goes from the bottom to the top), and a rejected or pending
\* hunk leaves no trace of itself, an earlier apply included; no hunk is shown as
\* applied after the first apply unless the file has it.
EditsLand ==
    writer = "session" =>
        /\ landed = {} => studio_file = original_content
        /\ (landed # {} /\ Apart(landed) /\ \A i \in landed : Understood(hunks[i]))
              => studio_file = Joined(Simultaneous(landed))
        /\ applies = 1 => {k \in 1..Len(hunks) : statuses[k] = "applied"} \subseteq landed
================================================================================
