---------------------------- MODULE DevitJournal ----------------------------
(***************************************************************************)
(* The daemon's HMAC-chained journal (devitd/src/journal.rs): Journal::open, *)
(* Journal::append with every way it can fail, JournalVerifier::verify_file, *)
(* and a crash of the daemon or of the machine between any two appends.    *)
(*                                                                         *)
(* A line of the file is a record; a "torn" line has no newline yet, so the *)
(* next write is glued to it and the result is "garbled" (unparsable).     *)
(***************************************************************************)
EXTENDS Naturals, Sequences

CONSTANTS JEvents,    \* the (event, msg_id, from, to, meta) tuples journaled
          MaxJournal    \* bound on the lines written (model checking only)

ASSUME JournalAssumption == MaxJournal \in Nat

VARIABLES file,       \* the journal file: a sequence of lines
          synced,     \* how many lines sync_all has made durable
          seq,        \* Journal.seq
          last_hash,  \* Journal.last_hash
          base,       \* history: lines that were in the file at Journal::open
          intact,     \* history: no append of this session failed, and the
                      \* file this session opened did not end in a torn line
          acked       \* history: indices of the lines append returned Ok for

journalVars == <<file, synced, seq, last_hash, base, intact, acked>>

-----------------------------------------------------------------------------
\* Model of HMAC-SHA256 over prev || canonical || meta: collision free.
NoHash == <<>>
Hmac(prev, n, ev) == Append(prev, <<n, ev>>)

Hashes == Seq(Nat \X JEvents)
Line == [form : {"whole", "torn", "garbled"}, seq : Nat, ev : JEvents,
         prev : Hashes, hash : Hashes]

\* The entry append builds; last_hash and seq as the locks hand them out.
JEntry(n, ev) ==
  [form |-> "whole", seq |-> n, ev |-> ev, prev |-> last_hash,
   hash |-> Hmac(last_hash, n, ev)]

\* A file whose last line has no newline swallows the next one.
EndsTorn(f) == f # <<>> /\ f[Len(f)].form = "torn"
Written(f, line) ==
  IF EndsTorn(f) THEN [f EXCEPT ![Len(f)].form = IF line.form = "torn" THEN "torn"
                                                  ELSE "garbled"]
                 ELSE Append(f, line)

\* JournalVerifier::verify_file: lines must parse, be numbered 1, 2, ..., name
\* the previous hash and carry the HMAC recomputed from the chain.
verify_file(f) ==
  \A i \in 1..Len(f) :
    LET prev_hash == IF i = 1 THEN NoHash ELSE f[i-1].hash
    IN  /\ f[i].form = "whole"
        /\ f[i].seq = i
        /\ f[i].prev = prev_hash
        /\ f[i].hash = Hmac(prev_hash, f[i].seq, f[i].ev)

-----------------------------------------------------------------------------
JournalInit ==
  /\ file = <<>> /\ synced = 0
  /\ seq = 0 /\ last_hash = NoHash
  /\ base = 0 /\ intact = TRUE /\ acked = {}

\* Slips: last_hash is not updated; append returns Ok without sync_all; the
\* new entry is taken to have a line of its own.
AppendForgetsHash(ev) ==
  LET e == JEntry(seq + 1, ev) IN
  /\ Len(file) < MaxJournal
  /\ seq' = seq + 1
  /\ file' = Written(file, e)
  /\ synced' = Len(file')
  /\ acked' = acked \cup {Len(file')}
  /\ UNCHANGED <<last_hash, base, intact>>
AppendWithoutSync(ev) ==
  LET e == JEntry(seq + 1, ev) IN
  /\ Len(file) < MaxJournal
  /\ seq' = seq + 1
  /\ file' = Written(file, e)
  /\ last_hash' = e.hash
  /\ acked' = acked \cup {Len(file')}
  /\ UNCHANGED <<synced, base, intact>>
AppendOnOwnLine(ev) ==
  LET e == JEntry(seq + 1, ev) IN
  /\ Len(file) < MaxJournal
  /\ seq' = seq + 1
  /\ file' = Written(file, e)
  /\ synced' = Len(file')
  /\ last_hash' = e.hash
  /\ acked' = acked \cup {Len(file) + 1}
  /\ UNCHANGED <<base, intact>>

\* append, successful: write_all, sync_all, then last_hash.
AppendOk(ev) ==
  LET e == JEntry(seq + 1, ev) IN
  /\ Len(file) < MaxJournal
  /\ seq' = seq + 1
  /\ file' = Written(file, e)
  /\ synced' = Len(file')
  /\ last_hash' = e.hash
  /\ acked' = acked \cup {Len(file')}
  /\ UNCHANGED <<base, intact>>

\* append, write_all fails: seq is already incremented, last_hash is not
\* updated; nothing, or a line without its newline, reached the file.
AppendWriteFails(ev) ==
  /\ Len(file) < MaxJournal
  /\ seq < MaxJournal
  /\ seq' = seq + 1
  /\ \/ UNCHANGED file
     \/ file' = Written(file, [JEntry(seq + 1, ev) EXCEPT !.form = "torn"])
  /\ intact' = FALSE
  /\ UNCHANGED <<synced, last_hash, base, acked>>

\* append, sync_all fails: the line is in the file, last_hash is not updated.
AppendSyncFails(ev) ==
  /\ Len(file) < MaxJournal
  /\ seq' = seq + 1
  /\ file' = Written(file, JEntry(seq + 1, ev))
  /\ intact' = FALSE
  /\ UNCHANGED <<synced, last_hash, base, acked>>

\* Journal::open starts a chain of its own ("For now, start fresh") at the end
\* of whatever the file holds.
Open(f) ==
  /\ file' = f
  /\ synced' = Len(f)
  /\ seq' = 0
  /\ last_hash' = NoHash
  /\ base' = Len(f)
  /\ intact' = ~EndsTorn(f)
  /\ UNCHANGED acked

\* The daemon stops between two appends and is started again; a machine crash
\* may also lose the lines that were never synced.
Restart ==
  \E n \in synced..Len(file) : Open(SubSeq(file, 1, n))

\* The daemon is killed inside write_all: the line is left without a newline.
CrashInWrite(ev) ==
  /\ Len(file) < MaxJournal
  /\ Open(Written(file, [JEntry(seq + 1, ev) EXCEPT !.form = "torn"]))

append(ev) == AppendOk(ev) \/ AppendWriteFails(ev) \/ AppendSyncFails(ev)

JournalNext == (\E ev \in JEvents : append(ev) \/ CrashInWrite(ev)) \/ Restart

JournalSpec == JournalInit /\ [][JournalNext]_journalVars

-----------------------------------------------------------------------------
\* The state's shape: acknowledged and synced lines are lines of the file.
JournalTypeOK ==
  /\ file \in Seq(Line)
  /\ synced \in 0..Len(file)
  /\ seq \in Nat
  /\ last_hash \in Hashes
  /\ base \in 0..Len(file)
  /\ intact \in BOOLEAN
  /\ acked \subseteq 1..Len(file)

\* What this session wrote: the lines after base.
SessionLines == SubSeq(file, base + 1, Len(file))

\* As long as no append of a session failed, what that session wrote is a
\* chain verify_file accepts, whatever earlier sessions left in the file
\* (journal.rs append against verify_file).
SessionVerifies == intact => verify_file(SessionLines)

\* No step of the daemon, no crash and no restart changes or loses a line whose
\* append returned Ok: append syncs before it returns (journal.rs:104-107).
AckedNeverLost ==
  [][\A i \in acked : i \in DOMAIN file' /\ file'[i] = file[i]]_journalVars
=============================================================================
