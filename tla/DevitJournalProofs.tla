------------------------- MODULE DevitJournalProofs -------------------------
(***************************************************************************)
(* For every set of events and every bound: the journal is well typed, what *)
(* one session of the daemon appended verifies as long as none of its      *)
(* appends failed, and no acknowledged line is ever lost.                  *)
(***************************************************************************)
EXTENDS DevitJournal, SequenceTheorems, TLAPS

\* What line i of the file must be for the chain that starts after base.
Chained(i) ==
  LET prev == IF i = base + 1 THEN NoHash ELSE file[i-1].hash
  IN  /\ file[i].form = "whole"
      /\ file[i].seq = i - base
      /\ file[i].prev = prev
      /\ file[i].hash = Hmac(prev, file[i].seq, file[i].ev)

\* The state of Journal agrees with the end of the file.
Session ==
  /\ ~EndsTorn(file)
  /\ seq = Len(file) - base
  /\ last_hash = IF Len(file) = base THEN NoHash ELSE file[Len(file)].hash
  /\ \A i \in base+1..Len(file) : Chained(i)

\* An acknowledged line was synced and ends in a newline.
Acked == \A i \in acked : i <= synced /\ file[i].form # "torn"

IInv == JournalTypeOK /\ (intact => Session) /\ Acked

-----------------------------------------------------------------------------
\* The HMAC of a hash is a hash (Journal::append).
LEMMA HmacType ==
  ASSUME NEW p \in Hashes, NEW n \in Nat, NEW ev \in JEvents
  PROVE  Hmac(p, n, ev) \in Hashes
  BY DEF Hmac, Hashes

LEMMA NoHashType == NoHash \in Hashes
  BY DEF NoHash, Hashes

\* The entry append builds is a line (Journal::append).
LEMMA JEntryType ==
  ASSUME JournalTypeOK, NEW n \in Nat, NEW ev \in JEvents
  PROVE  JEntry(n, ev) \in Line
<1> DEFINE h == Hmac(last_hash, n, ev)
<1>1. h \in Hashes
  BY HmacType DEF JournalTypeOK
<1> HIDE DEF h
<1>2. JEntry(n, ev) = [form |-> "whole", seq |-> n, ev |-> ev, prev |-> last_hash,
                       hash |-> h]
  BY DEF JEntry, h
<1> QED
  BY <1>1, <1>2 DEF JournalTypeOK, Line

\* Writing a line never shortens the file and changes no line but a last, torn one.
LEMMA WrittenProperties ==
  ASSUME NEW f \in Seq(Line), NEW l \in Line
  PROVE  /\ Written(f, l) \in Seq(Line)
         /\ Len(Written(f, l)) = IF EndsTorn(f) THEN Len(f) ELSE Len(f) + 1
         /\ \A i \in 1..Len(f) :
              f[i].form # "torn" => Written(f, l)[i] = f[i]
         /\ ~EndsTorn(f) => /\ Written(f, l)[Len(f) + 1] = l
                            /\ \A i \in 1..Len(f) : Written(f, l)[i] = f[i]
         /\ l.form = "whole" => Written(f, l)[Len(Written(f, l))].form # "torn"
<1>1. CASE EndsTorn(f)
  <2> DEFINE n == Len(f)
             g == [f[n] EXCEPT !.form = IF l.form = "torn" THEN "torn" ELSE "garbled"]
  <2>1. n \in 1..Len(f) /\ f[n].form = "torn"
    BY <1>1 DEF EndsTorn
  <2>2. f[n] \in Line
    BY <2>1
  <2>3. g \in Line /\ (l.form = "whole" => g.form = "garbled")
    BY <2>2 DEF Line
  <2>4. Written(f, l) = [f EXCEPT ![n] = g]
    BY <1>1 DEF Written
  <2> HIDE DEF g
  <2> QED
    BY <1>1, <2>1, <2>3, <2>4
<1>2. CASE ~EndsTorn(f)
  <2>1. Written(f, l) = Append(f, l)
    BY <1>2 DEF Written
  <2> QED
    BY <1>2, <2>1
<1> QED
  BY <1>1, <1>2

-----------------------------------------------------------------------------
LEMMA InitIInv == JournalInit => IInv
<1> SUFFICES ASSUME JournalInit PROVE IInv
  OBVIOUS
<1>1. JournalTypeOK
  BY NoHashType DEF JournalInit, JournalTypeOK
<1>2. Session
  BY DEF JournalInit, Session, EndsTorn
<1>3. Acked
  BY DEF JournalInit, Acked
<1> QED
  BY <1>1, <1>2, <1>3 DEF IInv

\* append, successful, extends the chain by one line.
LEMMA AppendOkIInv ==
  ASSUME IInv, NEW ev \in JEvents, AppendOk(ev)
  PROVE  IInv'
<1> DEFINE e == JEntry(seq + 1, ev)
<1>1. JournalTypeOK /\ Acked /\ seq + 1 \in Nat
  BY DEF IInv, JournalTypeOK
<1>2. e \in Line
  BY <1>1, JEntryType
<1>3. e.form = "whole" /\ e.seq = seq + 1 /\ e.prev = last_hash /\ e.ev = ev
      /\ e.hash = Hmac(last_hash, seq + 1, ev)
  BY DEF JEntry
<1> HIDE DEF e
<1>4. /\ file' = Written(file, e) /\ seq' = seq + 1 /\ synced' = Len(file')
      /\ last_hash' = e.hash /\ acked' = acked \cup {Len(file')}
      /\ base' = base /\ intact' = intact
  BY DEF AppendOk, e
<1>5. file \in Seq(Line)
  BY <1>1 DEF JournalTypeOK
<1>6. /\ file' \in Seq(Line)
      /\ Len(file') = IF EndsTorn(file) THEN Len(file) ELSE Len(file) + 1
      /\ \A i \in 1..Len(file) : file[i].form # "torn" => file'[i] = file[i]
      /\ ~EndsTorn(file) => /\ file'[Len(file) + 1] = e
                            /\ \A i \in 1..Len(file) : file'[i] = file[i]
      /\ file'[Len(file')].form # "torn"
  BY <1>2, <1>3, <1>4, <1>5, WrittenProperties
<1>7. Len(file') \in 1..Len(file') /\ Len(file) <= Len(file')
  BY <1>5, <1>6 DEF EndsTorn
<1>8. e.hash \in Hashes
  BY <1>2 DEF Line
<1>9. JournalTypeOK'
  <2>1. Len(file) \in Nat /\ Len(file') \in Nat
    BY <1>5, <1>6
  <2>2. synced' \in 0..Len(file') /\ base' \in 0..Len(file')
    BY <1>1, <1>4, <1>7, <2>1 DEF JournalTypeOK
  <2>3. acked' \subseteq 1..Len(file')
    <3>1. acked \subseteq 1..Len(file)
      BY <1>1 DEF JournalTypeOK
    <3>2. 1..Len(file) \subseteq 1..Len(file')
      BY <1>7, <2>1
    <3> QED
      BY <1>4, <1>7, <3>1, <3>2
  <2>4. seq' \in Nat /\ last_hash' \in Hashes
    BY <1>1, <1>4, <1>8 DEF JournalTypeOK
  <2>5. intact' \in BOOLEAN
    BY <1>1, <1>4 DEF JournalTypeOK
  <2> QED
    BY <1>6, <2>2, <2>3, <2>4, <2>5 DEF JournalTypeOK
<1>10. Acked'
  BY <1>1, <1>4, <1>5, <1>6, <1>7 DEF Acked, JournalTypeOK
<1>11. ASSUME intact' PROVE Session'
  <2>1. Session
    BY <1>4, <1>11 DEF IInv
  <2>2. Len(file') = Len(file) + 1 /\ file'[Len(file) + 1] = e
        /\ \A i \in 1..Len(file) : file'[i] = file[i]
    BY <1>6, <2>1 DEF Session
  <2>3. base \in Nat /\ base <= Len(file) /\ Len(file) \in Nat /\ seq = Len(file) - base
    BY <1>1, <1>5, <2>1 DEF JournalTypeOK, Session
  <2>4. ~EndsTorn(file')
    BY <1>3, <2>2, <2>3 DEF EndsTorn
  <2>5. seq' = Len(file') - base'
    BY <1>4, <2>2, <2>3
  <2>6. last_hash' = IF Len(file') = base' THEN NoHash ELSE file'[Len(file')].hash
    BY <1>4, <2>2, <2>3
  <2>7. ASSUME NEW i \in base'+1..Len(file') PROVE Chained(i)'
    <3>1. CASE i \in base+1..Len(file)
      <4>1. Chained(i) /\ file'[i] = file[i] /\ (i # base + 1 => file'[i-1] = file[i-1])
        <5>1. Chained(i)
          BY <2>1, <3>1 DEF Session
        <5>2. i \in 1..Len(file) /\ (i # base + 1 => i - 1 \in 1..Len(file))
          BY <2>3, <3>1
        <5> QED
          BY <2>2, <5>1, <5>2
      <4> QED
        BY <1>4, <4>1 DEF Chained
    <3>2. CASE i = Len(file) + 1
      <4>1. last_hash = IF i = base + 1 THEN NoHash ELSE file'[i-1].hash
        BY <2>1, <2>2, <2>3, <3>2 DEF Session
      <4>2. file'[i] = e /\ e.seq = i - base
        BY <1>3, <2>2, <2>3, <3>2
      <4> QED
        BY <1>3, <1>4, <4>1, <4>2 DEF Chained
    <3> QED
      BY <1>4, <2>2, <2>3, <3>1, <3>2
  <2> QED
    BY <2>4, <2>5, <2>6, <2>7 DEF Session
<1> QED
  BY <1>9, <1>10, <1>11 DEF IInv

\* A failed append may leave anything at the end of the file, but disturbs no
\* acknowledged line; the session is no longer intact.
LEMMA AppendFailsIInv ==
  ASSUME IInv, NEW ev \in JEvents, AppendWriteFails(ev) \/ AppendSyncFails(ev)
  PROVE  IInv'
<1>1. JournalTypeOK /\ Acked /\ seq + 1 \in Nat /\ file \in Seq(Line)
  BY DEF IInv, JournalTypeOK
<1>2. JEntry(seq + 1, ev) \in Line
  BY <1>1, JEntryType
<1>3. [JEntry(seq + 1, ev) EXCEPT !.form = "torn"] \in Line
  BY <1>2 DEF Line
<1>4. /\ seq' = seq + 1 /\ intact' = FALSE
      /\ UNCHANGED <<synced, last_hash, base, acked>>
  BY DEF AppendWriteFails, AppendSyncFails
<1>5. /\ file' \in Seq(Line) /\ Len(file) <= Len(file')
      /\ \A i \in 1..Len(file) : file[i].form # "torn" => file'[i] = file[i]
  <2>1. CASE UNCHANGED file
    BY <1>1, <2>1
  <2>2. ASSUME NEW l \in Line, file' = Written(file, l)
        PROVE  <1>5
    <3> DEFINE w == Written(file, l)
    <3>1. /\ w \in Seq(Line)
          /\ Len(w) = IF EndsTorn(file) THEN Len(file) ELSE Len(file) + 1
          /\ \A i \in 1..Len(file) : file[i].form # "torn" => w[i] = file[i]
      BY <1>1, WrittenProperties
    <3>2. Len(file) \in Nat /\ Len(file) <= Len(w)
      BY <1>1, <3>1
    <3> HIDE DEF w
    <3>3. file' = w
      BY <2>2 DEF w
    <3> QED
      BY <3>1, <3>2, <3>3
  <2> QED
    BY <1>2, <1>3, <2>1, <2>2 DEF AppendWriteFails, AppendSyncFails
<1>6. JournalTypeOK'
  <2>1. Len(file) \in Nat /\ Len(file') \in Nat
    BY <1>1, <1>5
  <2>2. synced' \in 0..Len(file') /\ base' \in 0..Len(file')
    BY <1>1, <1>4, <1>5, <2>1 DEF JournalTypeOK
  <2>3. acked' \subseteq 1..Len(file')
    BY <1>1, <1>4, <1>5, <2>1 DEF JournalTypeOK
  <2>4. seq' \in Nat /\ last_hash' \in Hashes /\ intact' \in BOOLEAN
    BY <1>1, <1>4 DEF JournalTypeOK
  <2> QED
    BY <1>5, <2>2, <2>3, <2>4 DEF JournalTypeOK
<1>7. Acked'
  BY <1>1, <1>4, <1>5 DEF Acked, JournalTypeOK
<1> QED
  BY <1>4, <1>6, <1>7 DEF IInv

\* Opening a file that keeps the acknowledged lines starts an empty session.
LEMMA OpenIInv ==
  ASSUME IInv, NEW f \in Seq(Line), Open(f),
         acked \subseteq 1..Len(f),
         \A i \in acked : f[i].form # "torn"
  PROVE  IInv'
<1>1. file' = f /\ synced' = Len(f) /\ seq' = 0 /\ last_hash' = NoHash
      /\ base' = Len(f) /\ intact' = ~EndsTorn(f) /\ acked' = acked
  BY DEF Open
<1>2. JournalTypeOK'
  BY <1>1, NoHashType DEF JournalTypeOK
<1>3. Acked'
  BY <1>1 DEF Acked
<1>4. ASSUME intact' PROVE Session'
  <2>1. Len(f) \in Nat
    OBVIOUS
  <2>2. ~EndsTorn(file')
    BY <1>1, <1>4, Zenon
  <2>3. base'+1..Len(file') = {}
    BY <1>1, <2>1
  <2> QED
    BY <1>1, <2>1, <2>2, <2>3 DEF Session
<1> QED
  BY <1>2, <1>3, <1>4 DEF IInv

\* What a machine crash leaves: at least everything that was synced.
LEMMA RestartFile ==
  ASSUME IInv, NEW n \in synced..Len(file)
  PROVE  /\ SubSeq(file, 1, n) \in Seq(Line)
         /\ Len(SubSeq(file, 1, n)) = n
         /\ \A i \in 1..n : SubSeq(file, 1, n)[i] = file[i]
<1>1. file \in Seq(Line) /\ n \in Nat /\ n <= Len(file)
  BY DEF IInv, JournalTypeOK
<1> QED
  BY <1>1, SubSeqProperties

\* Every step keeps the invariant.
LEMMA NextIInv == IInv /\ [JournalNext]_journalVars => IInv'
<1> SUFFICES ASSUME IInv, [JournalNext]_journalVars PROVE IInv'
  OBVIOUS
<1>1. ASSUME NEW ev \in JEvents, append(ev) PROVE IInv'
  BY <1>1, AppendOkIInv, AppendFailsIInv DEF append
<1>2. ASSUME NEW ev \in JEvents, CrashInWrite(ev) PROVE IInv'
  <2> DEFINE l == [JEntry(seq + 1, ev) EXCEPT !.form = "torn"]
             f == Written(file, l)
  <2>1. JournalTypeOK /\ Acked /\ seq + 1 \in Nat /\ file \in Seq(Line)
    BY DEF IInv, JournalTypeOK
  <2>2. JEntry(seq + 1, ev) \in Line
    BY <2>1, JEntryType
  <2>3. l \in Line
    BY <2>2 DEF Line
  <2>4. Open(f)
    BY <1>2 DEF CrashInWrite
  <2> HIDE DEF l
  <2>5. /\ f \in Seq(Line)
        /\ Len(f) = IF EndsTorn(file) THEN Len(file) ELSE Len(file) + 1
        /\ \A i \in 1..Len(file) : file[i].form # "torn" => f[i] = file[i]
    BY <2>1, <2>3, WrittenProperties
  <2> HIDE DEF f
  <2>6. Len(file) \in Nat /\ Len(f) \in Nat /\ Len(file) <= Len(f)
    BY <2>1, <2>5
  <2>7. acked \subseteq 1..Len(f) /\ \A i \in acked : f[i].form # "torn"
    BY <2>1, <2>5, <2>6 DEF JournalTypeOK, Acked
  <2> QED
    BY <2>4, <2>5, <2>7, OpenIInv
<1>3. CASE Restart
  <2>1. PICK n \in synced..Len(file) : Open(SubSeq(file, 1, n))
    BY <1>3 DEF Restart
  <2> DEFINE f == SubSeq(file, 1, n)
  <2>2. f \in Seq(Line) /\ Len(f) = n /\ \A i \in 1..n : f[i] = file[i]
    BY RestartFile
  <2>3. Open(f)
    BY <2>1
  <2> HIDE DEF f
  <2>4. acked \subseteq 1..Len(f) /\ \A i \in acked : f[i].form # "torn"
    BY <2>2 DEF IInv, JournalTypeOK, Acked
  <2> QED
    BY <2>2, <2>3, <2>4, OpenIInv
<1>4. CASE UNCHANGED journalVars
  BY <1>4 DEF journalVars, IInv, JournalTypeOK, Session, Chained, Acked, EndsTorn
<1> QED
  BY <1>1, <1>2, <1>3, <1>4 DEF JournalNext

\* Every behaviour satisfies the inductive invariant.
THEOREM Invariance == JournalSpec => []IInv
  BY InitIInv, NextIInv, PTL DEF JournalSpec

\* The journal's state has its type in every reachable state.
THEOREM TypeCorrect == JournalSpec => []JournalTypeOK
<1>1. IInv => JournalTypeOK
  BY DEF IInv
<1> QED
  BY <1>1, Invariance, PTL

\* A session none of whose appends failed leaves lines that verify_file accepts,
\* whatever earlier sessions and crashes left in front of them.
THEOREM SessionsVerify == JournalSpec => []SessionVerifies
<1>1. IInv => SessionVerifies
  <2> SUFFICES ASSUME IInv, intact PROVE verify_file(SessionLines)
    BY DEF SessionVerifies
  <2> DEFINE s == SessionLines
             n == Len(file) - base
  <2>1. Session /\ file \in Seq(Line) /\ base \in Nat /\ base <= Len(file)
        /\ Len(file) \in Nat
    BY DEF IInv, JournalTypeOK
  <2>2. Len(s) = n /\ \A i \in 1..n : s[i] = file[base + i]
    BY <2>1, SubSeqProperties DEF SessionLines
  <2> HIDE DEF s
  <2>3. ASSUME NEW i \in 1..n
        PROVE  LET prev_hash == IF i = 1 THEN NoHash ELSE s[i-1].hash
               IN  /\ s[i].form = "whole" /\ s[i].seq = i /\ s[i].prev = prev_hash
                   /\ s[i].hash = Hmac(prev_hash, s[i].seq, s[i].ev)
    <3>1. Chained(base + i)
      BY <2>1, <2>3 DEF Session
    <3>2. s[i] = file[base + i] /\ (i # 1 => s[i-1] = file[base + i - 1])
      BY <2>1, <2>2, <2>3
    <3>3. CASE i = 1
      BY <2>1, <3>1, <3>2, <3>3 DEF Chained
    <3>4. CASE i # 1
      <4>1. base + i # base + 1 /\ base + i - base = i
        BY <2>1, <2>3, <3>4
      <4> DEFINE j == base + i
      <4>2. /\ file[j].form = "whole" /\ file[j].seq = j - base
            /\ file[j].prev = file[j-1].hash
            /\ file[j].hash = Hmac(file[j-1].hash, file[j].seq, file[j].ev)
        BY <3>1, <4>1 DEF Chained
      <4>3. s[i] = file[j] /\ s[i-1] = file[j-1] /\ j - base = i
        BY <2>1, <2>3, <3>2, <3>4, <4>1
      <4> HIDE DEF j
      <4> QED
        BY <3>4, <4>2, <4>3
    <3> QED
      BY <3>3, <3>4
  <2> QED
    BY <2>2, <2>3 DEF verify_file, s
<1> QED
  BY <1>1, Invariance, PTL

\* A line whose append returned Ok is never changed and never lost, whatever
\* write fails and whenever the daemon or the machine stops.
THEOREM AckedLinesStay == JournalSpec => AckedNeverLost
<1>1. IInv /\ [JournalNext]_journalVars =>
        [\A i \in acked : i \in DOMAIN file' /\ file'[i] = file[i]]_journalVars
  <2> SUFFICES ASSUME IInv, JournalNext, NEW i \in acked
               PROVE  i \in DOMAIN file' /\ file'[i] = file[i]
    OBVIOUS
  <2>1. JournalTypeOK /\ file \in Seq(Line) /\ Len(file) \in Nat /\ i \in 1..Len(file)
        /\ i <= synced /\ file[i].form # "torn" /\ synced \in Nat /\ seq + 1 \in Nat
    BY DEF IInv, JournalTypeOK, Acked
  <2>2. ASSUME NEW l \in Line, file' = Written(file, l)
        PROVE  i \in DOMAIN file' /\ file'[i] = file[i]
    <3> DEFINE w == Written(file, l)
    <3>1. /\ w \in Seq(Line)
          /\ Len(w) = IF EndsTorn(file) THEN Len(file) ELSE Len(file) + 1
          /\ w[i] = file[i]
      BY <2>1, WrittenProperties
    <3>2. DOMAIN w = 1..Len(w) /\ i \in 1..Len(w)
      BY <2>1, <3>1
    <3> QED
      BY <2>2, <3>1, <3>2
  <2>3. CASE UNCHANGED file
    BY <2>1, <2>3
  <2>4. ASSUME NEW ev \in JEvents, append(ev) \/ CrashInWrite(ev)
        PROVE  i \in DOMAIN file' /\ file'[i] = file[i]
    <3>1. JEntry(seq + 1, ev) \in Line
      BY <2>1, JEntryType
    <3>2. [JEntry(seq + 1, ev) EXCEPT !.form = "torn"] \in Line
      BY <3>1 DEF Line
    <3>3. \/ UNCHANGED file
          \/ file' = Written(file, JEntry(seq + 1, ev))
          \/ file' = Written(file, [JEntry(seq + 1, ev) EXCEPT !.form = "torn"])
      BY <2>4 DEF append, AppendOk, AppendWriteFails, AppendSyncFails,
                  CrashInWrite, Open
    <3> QED
      BY <2>2, <2>3, <3>1, <3>2, <3>3
  <2>5. CASE Restart
    <3>1. PICK n \in synced..Len(file) : file' = SubSeq(file, 1, n)
      BY <2>5 DEF Restart, Open
    <3> DEFINE f == SubSeq(file, 1, n)
    <3>2. f \in Seq(Line) /\ Len(f) = n /\ \A j \in 1..n : f[j] = file[j]
      BY RestartFile
    <3>3. file' = f
      BY <3>1
    <3> HIDE DEF f
    <3>4. DOMAIN f = 1..n /\ i \in 1..n
      BY <2>1, <3>2
    <3> QED
      BY <3>2, <3>3, <3>4
  <2> QED
    BY <2>4, <2>5 DEF JournalNext
<1> QED
  BY <1>1, Invariance, PTL DEF JournalSpec, AckedNeverLost
=============================================================================
