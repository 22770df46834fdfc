------------------------------ MODULE DevitPatch ------------------------------
(***************************************************************************)
(* The patch engine as functions of data: what a parsed hunk does to the   *)
(* lines of a file (crates/cli/src/core/atomic_patcher.rs,                 *)
(* patch_parser.rs), and what `git diff` prints for two texts, which is    *)
(* what the engine is meant for.                                           *)
(*                                                                         *)
(* A text is its lines and whether the last one ends in a newline.         *)
(***************************************************************************)
EXTENDS Naturals, FiniteSets, Sequences, SequencesExt

CONSTANTS Letters,    \* what a line can say
          Blank       \* the line that says nothing

ASSUME LettersAssumption == Blank \in Letters

-----------------------------------------------------------------------------
(* Texts. Splitting and joining lines loses no text except the two that    *)
(* Render shows: no lines and one blank line are both joined to "".        *)

Empty  == [lines |-> <<>>, nl |-> FALSE]
NoFile == [lines |-> <<>>, nl |-> TRUE, missing |-> TRUE]   \* read as no lines and a newline
Torn   == [lines |-> <<Blank>>, nl |-> FALSE]               \* no text: half of one, or of two

Texts == {Empty} \cup
    {t \in [lines : Seq(Letters), nl : BOOLEAN] : t.lines # <<>> /\ (t.nl \/ Last(t.lines) # Blank)}

\* lines.join("\n"), then one "\n" if asked for and if there is anything.
Render(lines, trailing) ==
    IF lines \in {<<>>, <<Blank>>} THEN Empty
    ELSE IF trailing \/ Last(lines) # Blank THEN [lines |-> lines, nl |-> trailing]
    ELSE [lines |-> Front(lines), nl |-> TRUE]

-----------------------------------------------------------------------------
(* Hunks. An item is a line of the diff with its first character, and      *)
(* whether no "\ No newline at end of file" comes after it.                *)

Side(items, ops) ==
    FlattenSeq([i \in DOMAIN items |-> IF items[i].op \in ops THEN <<items[i].line>> ELSE <<>>])

Old(items) == Side(items, {"keep", "del"})
New(items) == Side(items, {"keep", "add"})

\* The header's counts are not kept: the lines themselves are.
ParseHunk(raw) ==
    [old_start |-> raw.old_start, body |-> raw.items,
     no_trailing_newline |-> \E i \in DOMAIN raw.items : ~ raw.items[i].eol]

StartIdx(h) == IF h.old_start > 0 THEN h.old_start - 1 ELSE 0

HunkFits(lines, h) ==
    LET old == Old(h.body)
    IN  /\ StartIdx(h) + Len(old) <= Len(lines)
        /\ \A i \in DOMAIN old : lines[StartIdx(h) + i] = old[i]

ApplyHunk(lines, h) ==
    SubSeq(lines, 1, StartIdx(h)) \o New(h.body)
        \o SubSeq(lines, StartIdx(h) + Len(Old(h.body)) + 1, Len(lines))

\* A hunk that does not fit ends it.
Applied(acc, h) ==
    IF acc.ok /\ HunkFits(acc.lines, h) THEN [ok |-> TRUE, lines |-> ApplyHunk(acc.lines, h)]
    ELSE [ok |-> FALSE, lines |-> <<>>]

\* A slip: the first hunk first.
ApplyHunksForward(lines, hunks) ==
    LET upto[n \in 0..Len(hunks)] ==
            IF n = 0 THEN [ok |-> TRUE, lines |-> lines] ELSE Applied(upto[n - 1], hunks[n])
    IN  upto[Len(hunks)]

\* The last hunk first: every old_start counts lines of the original file.
ApplyHunks(lines, hunks) ==
    LET after[n \in 0..Len(hunks)] ==
            IF n = 0 THEN [ok |-> TRUE, lines |-> lines]
            ELSE Applied(after[n - 1], hunks[Len(hunks) - n + 1])
    IN  after[Len(hunks)]

BuildNewContent(hunks, lines, trailing) ==
    LET r == ApplyHunks(lines, hunks)
    IN  [ok |-> r.ok, text |-> Render(r.lines, trailing)]

-----------------------------------------------------------------------------
(* The parser. A section is what `diff --git` starts: the names of its     *)
(* ---/+++ lines ({} for /dev/null or no such line), whether it has a      *)
(* "new file mode" or "deleted file mode" line, and its hunks. The scan    *)
(* for the first hunk does not stop at the next `diff --git`: a section    *)
(* without a hunk and the one after it become one file patch.              *)

FileStarts(sections) == {i \in DOMAIN sections : i = 1 \/ sections[i - 1].hunks # <<>>}

FilePatch(part) ==
    LET Name(f) == LET given == {i \in DOMAIN part : f[i] # {}}
                   IN  IF given = {} THEN {} ELSE f[Max(given)]
        old == Name([i \in DOMAIN part |-> part[i].old])
        new == Name([i \in DOMAIN part |-> part[i].new])
        raw == Last(part).hunks
    IN  [old_path |-> old, new_path |-> new,
         is_new_file     |-> (\E i \in DOMAIN part : part[i].new_file) \/ (old = {} /\ new # {}),
         is_deleted_file |-> (\E i \in DOMAIN part : part[i].deleted) \/ (new = {} /\ old # {}),
         hunks |-> [i \in DOMAIN raw |-> ParseHunk(raw[i])]]

FromDiff(sections) ==
    LET End(n) == CHOOSE k \in n..Len(sections) :
                      /\ k = Len(sections) \/ k + 1 \in FileStarts(sections)
                      /\ \A i \in (n + 1)..k : i \notin FileStarts(sections)
    IN  FlattenSeq([n \in DOMAIN sections |->
            IF n \in FileStarts(sections) THEN <<FilePatch(SubSeq(sections, n, End(n)))>> ELSE <<>>])

-----------------------------------------------------------------------------
(* What becomes of one file of a patch: the file patch fp applied to what  *)
(* is at its path, `at`.                                                   *)

\* FilePatch::no_trailing_newline is that of the last hunk.
NoNewline(fp) == fp.hunks # <<>> /\ Last(fp.hunks).no_trailing_newline

PathOf(fp) == IF fp.is_deleted_file \/ fp.new_path = {} THEN fp.old_path ELSE fp.new_path

FileOutcome(fp, at) ==
    IF fp.is_deleted_file THEN [ok |-> fp.old_path # {}, text |-> NoFile]
    ELSE IF PathOf(fp) = {} \/ (fp.is_new_file /\ fp.new_path = {})
         THEN [ok |-> FALSE, text |-> NoFile]
    ELSE IF fp.is_new_file THEN BuildNewContent(fp.hunks, <<>>, ~ NoNewline(fp))
    ELSE BuildNewContent(fp.hunks, at.lines, ~ NoNewline(fp) /\ at.nl)

-----------------------------------------------------------------------------
(* What `git diff -U<c>` prints for the change from text a to text b at a  *)
(* path. An edit script keeps, deletes and adds lines; a line without its  *)
(* newline is another line. A matching says which lines are kept; scripts  *)
(* that keep less than they could are diffs as well.                       *)

LineOf(t, i) == [line |-> t.lines[i], eol |-> i < Len(t.lines) \/ t.nl]

Matchings(a, b) ==
    {m \in SUBSET ((DOMAIN a.lines) \X (DOMAIN b.lines)) :
        /\ \A x \in m : LineOf(a, x[1]) = LineOf(b, x[2])
        /\ \A x, y \in m : (x[1] < y[1]) <=> (x[2] < y[2])}

Item(op, l) == [op |-> op, line |-> l.line, eol |-> l.eol]

\* How many lines of b the kept ones among the first i of a reach.
Reach(m, i) == Max({0} \cup {x[2] : x \in {y \in m : y[1] <= i}})

\* Between two kept lines git prints what is deleted before what is added.
Script(a, b, m) ==
    LET Adds(from, to) == [n \in 1..(to - from) |-> Item("add", LineOf(b, from + n))]
        Piece(i) ==
            IF i > Len(a.lines) THEN Adds(Reach(m, i), Len(b.lines))
            ELSE IF \E x \in m : x[1] = i
            THEN Adds(Reach(m, i - 1), Reach(m, i) - 1) \o <<Item("keep", LineOf(a, i))>>
            ELSE <<Item("del", LineOf(a, i))>>
    IN  FlattenSeq([i \in 1..(Len(a.lines) + 1) |-> Piece(i)])

\* The hunks of script s with c lines of context, as the parser gets them.
RawHunks(s, c) ==
    LET shown == {i \in DOMAIN s : \E k \in DOMAIN s :
                      s[k].op # "keep" /\ i <= k + c /\ k <= i + c}
        End(i) == CHOOSE k \in i..Len(s) : i..k \subseteq shown /\ k + 1 \notin shown
        Hunk(items, before) ==
            [old_start |-> Len(Old(before)) + (IF Old(items) = <<>> THEN 0 ELSE 1), items |-> items]
    IN  FlattenSeq([n \in DOMAIN s |->
            IF n \in shown /\ n - 1 \notin shown
            THEN <<Hunk(SubSeq(s, n, End(n)), SubSeq(s, 1, n - 1))>> ELSE <<>>])

\* A change without a hunk (an empty file comes or goes) has no ---/+++ lines.
GitSection(path, a, b, m, c) ==
    LET raw == RawHunks(Script(a, b, m), c)
    IN  [old      |-> IF a # NoFile /\ raw # <<>> THEN {path} ELSE {},
         new      |-> IF b # NoFile /\ raw # <<>> THEN {path} ELSE {},
         new_file |-> a = NoFile,
         deleted  |-> b = NoFile,
         hunks    |-> raw]

\* A change of one file: its path, the texts before and after, the lines that stay
\* and the lines of context that are shown.
Changes(paths) ==
    {ch \in [path : paths, old : Texts \cup {NoFile}, new : Texts \cup {NoFile},
             kept : SUBSET (Nat \X Nat), context : Nat] :
        ch.old # ch.new /\ ch.kept \in Matchings(ch.old, ch.new)}

Printed(chs) ==
    [i \in DOMAIN chs |->
        GitSection(chs[i].path, chs[i].old, chs[i].new, chs[i].kept, chs[i].context)]

\* The changes of one file the engine makes exactly: it has text to show, an
\* insertion shows a line around it, the file does not gain the newline at its
\* end, and the result is not one blank line.
Plain(ch) ==
    LET raw == RawHunks(Script(ch.old, ch.new, ch.kept), ch.context)
    IN  /\ raw # <<>>
        /\ \A k \in DOMAIN raw : raw[k].old_start = 0 \/ Old(raw[k].items) # <<>>
        /\ ch.new # NoFile => (ch.old.nl \/ ~ ch.new.nl) /\ ch.new # [lines |-> <<Blank>>, nl |-> TRUE]
=============================================================================
