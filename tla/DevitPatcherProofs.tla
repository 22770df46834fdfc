-------------------------- MODULE DevitPatcherProofs --------------------------
(***************************************************************************)
(* Proofs about DevitPatcher: the shape of its state, that a patch is      *)
(* always applied as far as it has come and no further, that a dry run     *)
(* predicts the real one, and that the diffs the engine can make exactly   *)
(* give the files they were printed for.                                   *)
(*                                                                         *)
(* The first part is about the steps of the processes: what FileOutcome    *)
(* computes plays no part in it, only that it depends on the file patch    *)
(* and on what is at its path. The second part is about that computation,  *)
(* of texts, scripts and hunks of any length, by induction over them.      *)
(***************************************************************************)
EXTENDS DevitPatcher, FunctionTheorems, FiniteSetTheorems, SequenceTheorems,
        WellFoundedInduction, TLAPS

Working == {"open", "write", "rename"}

\* What was asked never changes.
Static == \E s \in Scenarios : job = s.job /\ start = s.start

\* A descriptor is open on one of the process's temporary names, or on the file
\* that another process made of it by renaming it.
Near(p) == {TempOf[q] : q \in Writes(p)}
Owns(p) ==
    where[p] # Nowhere =>
       \/ where[p] \in Near(p)
       \/ /\ where[p] \in Paths /\ TempOf[where[p]] \in Near(p)
          /\ \E r \in Procs : where[p] \in Writes(r)

\* A patch alone with its temporary names finds in them what it has put there.
Mine(p) ==
    Alone(p) /\ Distinct(p) /\ ~ job[p].dry =>
       /\ pc[p] \in Working => Outcome(p, at[p]).ok /\ text[p] = Outcome(p, at[p]).text
       /\ pc[p] \in Working => ~ FileAt(p).is_deleted_file
       /\ pc[p] = "write"  => where[p] = TempAt(p) /\ temp[TempAt(p)] = Empty
       /\ pc[p] = "rename" => temp[TempAt(p)] = text[p]

Why(p) ==
    \/ \E i \in DOMAIN job[p].files : ~ Outcome(p, i).ok
    \/ job[p].front = "mcp" /\ job[p].files = <<>>
    \/ /\ job[p].front = "mcp" /\ ~ job[p].dry
       /\ \E i \in DOMAIN job[p].files :
             \E q \in LooksFor(job[p].files[i]) : start[q] = NoFile

\* What a process knows of the files it has passed.
Passed(p) ==
    Alone(p) /\ Distinct(p) =>
       /\ \A i \in DOMAIN job[p].files : i < at[p] => Outcome(p, i).ok
       /\ pc[p] = "check"  => at[p] = 1
       /\ pc[p] = "done"   => at[p] > Len(job[p].files)
       /\ pc[p] = "failed" => Why(p)

Each == \A p \in Procs : Owns(p) /\ Mine(p) /\ Passed(p)

IInv == TypeOK /\ Static /\ Each /\ PrefixApplied

-----------------------------------------------------------------------------
(* Facts about what was asked. *)

LEMMA Asked ==
  ASSUME Static, NEW p \in Procs
  PROVE  /\ job[p].front \in {"core", "mcp"} /\ job[p].dry \in BOOLEAN
         /\ Len(job[p].files) \in Nat /\ DOMAIN job[p].files = 1 .. Len(job[p].files)
         /\ \A i \in DOMAIN job[p].files : PathOf(job[p].files[i]) \in {{}} \cup {{q} : q \in Paths}
BY PathsAssumption DEF Static

LEMMA OnePath ==
  ASSUME Static, NEW p \in Procs, NEW i \in DOMAIN job[p].files, PathOf(job[p].files[i]) # {}
  PROVE  LET q == CHOOSE o \in Paths : o \in PathOf(job[p].files[i])
         IN  q \in Paths /\ PathOf(job[p].files[i]) = {q} /\ q \in Touched(p)
<1>1. PathOf(job[p].files[i]) \in {{q} : q \in Paths}
  BY Asked
<1>2. PICK o \in Paths : PathOf(job[p].files[i]) = {o}
  BY <1>1
<1>3. (CHOOSE q \in Paths : q \in PathOf(job[p].files[i])) = o
  BY <1>2
<1>4. o \in Touched(p)
  BY <1>2 DEF Touched
<1> QED
  BY <1>2, <1>3, <1>4

LEMMA Names ==
  /\ \A q \in Paths : TempOf[q] \in Temps /\ q # Nowhere /\ q \notin Temps
  /\ \A t \in Temps : t # Nowhere /\ t \notin Paths
BY PathsAssumption

\* Render never gives the mark of a missing file, and nothing is left of a
\* deleted one.
LEMMA OutcomeText ==
  ASSUME NEW f, NEW a, FileOutcome(f, a).ok
  PROVE  /\ PathOf(f) # {}
         /\ f.is_deleted_file => FileOutcome(f, a).text = NoFile
         /\ ~ f.is_deleted_file => FileOutcome(f, a).text # NoFile
<1>1. CASE f.is_deleted_file
  BY <1>1 DEF FileOutcome, PathOf
<1>2. CASE ~ f.is_deleted_file
  <2>1. \A l, t : Render(l, t) # NoFile
    BY DEF Render, NoFile, Empty
  <2>2. \A h, l, t : BuildNewContent(h, l, t).text # NoFile
    BY <2>1 DEF BuildNewContent
  <2>3. PathOf(f) # {}
    BY <1>2 DEF FileOutcome, PathOf
  <2> QED
    BY <1>2, <2>2, <2>3 DEF FileOutcome
<1> QED
  BY <1>1, <1>2

\* What the properties read of the request alone stays.
LEMMA Stable ==
  ASSUME UNCHANGED <<job, start>>, NEW p \in Procs
  PROVE  /\ Touched(p)' = Touched(p) /\ Writes(p)' = Writes(p) /\ Near(p)' = Near(p)
         /\ Alone(p)' = Alone(p) /\ Distinct(p)' = Distinct(p) /\ Why(p)' = Why(p)
         /\ \A i \in DOMAIN job[p].files : Outcome(p, i)' = Outcome(p, i)
<1>1. /\ Touched(p)' = Touched(p)
      /\ \A r \in Procs : Writes(r)' = Writes(r)
  BY DEF Touched, Writes
<1>2. /\ Distinct(p)' = Distinct(p)
      /\ \A i \in DOMAIN job[p].files : Outcome(p, i)' = Outcome(p, i)
  BY DEF Distinct, Outcome, Before
<1>3. Alone(p)' = Alone(p)
  BY <1>1 DEF Alone
<1>4. Near(p)' = Near(p)
  BY <1>1 DEF Near
<1>5. Why(p)' = Why(p)
  BY <1>2 DEF Why
<1> QED
  BY <1>1, <1>2, <1>3, <1>4, <1>5

\* Where a working process is.
LEMMA Here ==
  ASSUME TypeOK, Static, NEW p \in Procs, at[p] <= Len(job[p].files), PathOf(FileAt(p)) # {}
  PROVE  /\ at[p] \in DOMAIN job[p].files
         /\ PathAt(p) \in Paths /\ PathOf(FileAt(p)) = {PathAt(p)} /\ PathAt(p) \in Touched(p)
         /\ TempAt(p) \in Temps /\ TempAt(p) = TempOf[PathAt(p)]
         /\ ~ job[p].dry => TempAt(p) \in Near(p) /\ PathAt(p) \in Writes(p)
<1>1. at[p] \in DOMAIN job[p].files
  BY Asked DEF TypeOK
<1>2. /\ PathAt(p) \in Paths /\ PathOf(FileAt(p)) = {PathAt(p)} /\ PathAt(p) \in Touched(p)
  BY <1>1, OnePath DEF FileAt, PathAt
<1> QED
  BY <1>1, <1>2, Names DEF TempAt, Near, Writes

\* The names a patch uses alone are nobody else's.
LEMMA Apart ==
  ASSUME NEW p \in Procs, NEW r \in Procs, r # p, Alone(r)
  PROVE  \A q \in Touched(r), o \in Writes(p) : TempOf[q] # TempOf[o] /\ q # o
BY DEF Alone

\* The file a patch is at, and those it has not come to, are as they were.
LEMMA AsItWas ==
  ASSUME IInv, NEW p \in Procs, Alone(p), Distinct(p), NEW i \in DOMAIN job[p].files, at[p] <= i
  PROVE  Content(job[p].files[i]) = Before(p, i)
<1> DEFINE q == CHOOSE o \in Paths : o \in PathOf(job[p].files[i])
<1>1. q \in Paths /\ PathOf(job[p].files[i]) = {q} /\ q \in Touched(p)
  BY OnePath DEF Distinct, IInv
<1>2. disk[q] = start[q]
  <2>1. CASE ~ job[p].dry
    <3>1. at[p] \in Nat /\ i \in Nat
      BY Asked DEF IInv, TypeOK
    <3> QED
      BY <1>1, <2>1, <3>1 DEF IInv, PrefixApplied
  <2>2. CASE job[p].dry
    <3>1. \A r \in Procs : q \notin Writes(r)
      BY <1>1, <2>2 DEF Alone, Writes
    <3> QED
      BY <1>1, <3>1 DEF IInv, PrefixApplied
  <2> QED
    BY <2>1, <2>2
<1> QED
  BY <1>1, <1>2 DEF Content, Before

-----------------------------------------------------------------------------
(* The initial states, and one lemma per action. *)

LEMMA InitIInv == Init => IInv
<1> SUFFICES ASSUME Init PROVE IInv
  OBVIOUS
<1>1. Static
  BY DEF Init, Static
<1>2. /\ DOMAIN disk = Paths /\ DOMAIN temp = Temps /\ disk = start
      /\ pc = [p \in Procs |-> "check"] /\ at = [p \in Procs |-> 1]
      /\ where = [p \in Procs |-> Nowhere] /\ DOMAIN text = Procs
  BY PathsAssumption DEF Init
<1>3. TypeOK
  BY <1>2 DEF TypeOK
<1>4. Each
  BY <1>1, <1>2, Asked DEF Each, Owns, Mine, Passed, Working
<1>5. PrefixApplied
  BY <1>1, <1>2, Asked DEF PrefixApplied
<1> QED
  BY <1>1, <1>3, <1>4, <1>5 DEF IInv

\* What a step of p leaves to the others, when it touches neither their program
\* counters nor, if they are alone, their names.
LEMMA Others ==
  ASSUME IInv, UNCHANGED <<job, start>>, NEW p \in Procs, NEW r \in Procs, r # p,
         pc'[r] = pc[r], at'[r] = at[r], text'[r] = text[r],
         Alone(r) => /\ where'[r] = where[r]
                     /\ \A q \in Touched(r) : temp'[TempOf[q]] = temp[TempOf[q]]
  PROVE  Mine(r)' /\ Passed(r)'
<1>1. TypeOK /\ Static /\ Mine(r) /\ Passed(r)
  BY DEF IInv, Each
<1>2. /\ Alone(r)' = Alone(r) /\ Distinct(r)' = Distinct(r) /\ Why(r)' = Why(r)
      /\ \A i \in DOMAIN job[r].files : Outcome(r, i)' = Outcome(r, i)
  BY Stable
<1>3. FileAt(r)' = FileAt(r) /\ PathAt(r)' = PathAt(r) /\ TempAt(r)' = TempAt(r)
  BY DEF FileAt, PathAt, TempAt
<1>4. Passed(r)'
  BY <1>1, <1>2 DEF Passed
<1>5. pc[r] \in Working =>
         /\ at[r] \in DOMAIN job[r].files /\ TempAt(r) = TempOf[PathAt(r)]
         /\ PathAt(r) \in Touched(r)
  BY <1>1, Here DEF TypeOK, Working
<1>6. Mine(r)'
  BY <1>1, <1>2, <1>3, <1>5 DEF Mine, Working
<1> QED
  BY <1>4, <1>6

\* Steps that write no file and leave the names alone.
LEMMA Reads ==
  ASSUME IInv, NEW p \in Procs, UNCHANGED <<disk, temp, job, start, where>>,
         \A r \in Procs \ {p} : pc'[r] = pc[r] /\ at'[r] = at[r] /\ text'[r] = text[r],
         TypeOK', Mine(p)', Passed(p)',
         Alone(p) /\ Distinct(p) /\ ~ job[p].dry => at'[p] = at[p]
  PROVE  IInv'
<1>1. Static'
  BY DEF IInv, Static
<1>2. \A r \in Procs : Owns(r)'
  <2> TAKE r \in Procs
  <2>1. Owns(r) /\ Near(r)' = Near(r) /\ \A k \in Procs : Writes(k)' = Writes(k)
    BY Stable DEF IInv, Each
  <2> QED
    BY <2>1 DEF Owns
<1>3. \A r \in Procs : Mine(r)' /\ Passed(r)'
  BY Others
<1>4. PrefixApplied'
  <2>1. PrefixApplied
    BY DEF IInv
  <2>2. \A r \in Procs : /\ Alone(r)' = Alone(r) /\ Distinct(r)' = Distinct(r)
                         /\ Writes(r)' = Writes(r)
                         /\ \A i \in DOMAIN job[r].files : Outcome(r, i)' = Outcome(r, i)
    BY Stable
  <2>3. \A r \in Procs : Alone(r) /\ Distinct(r) /\ ~ job[r].dry => at'[r] = at[r]
    OBVIOUS
  <2> QED
    BY <2>1, <2>2, <2>3 DEF PrefixApplied
<1> QED
  BY <1>1, <1>2, <1>3, <1>4 DEF IInv, Each

LEMMA CheckIInv == ASSUME IInv, NEW p \in Procs, Check(p) PROVE IInv'
<1>1. /\ pc[p] = "check" /\ pc' = [pc EXCEPT ![p] = IF Refused(p) THEN "failed" ELSE "file"]
      /\ UNCHANGED <<disk, temp, job, start, at, text, where>> /\ TypeOK /\ Static
      /\ Owns(p) /\ Mine(p) /\ Passed(p)
  BY DEF Check, To, IInv, Each
<1>2. pc'[p] \in {"failed", "file"} /\ \A r \in Procs \ {p} : pc'[r] = pc[r]
  BY <1>1 DEF TypeOK
<1>3. FileAt(p)' = FileAt(p) /\ \A r \in Procs : FileAt(r)' = FileAt(r)
  BY <1>1 DEF FileAt
<1>4. TypeOK'
  BY <1>1, <1>2, <1>3 DEF TypeOK
<1>5. Mine(p)'
  BY <1>2 DEF Mine, Working
<1>6. Alone(p) /\ Distinct(p) /\ pc'[p] = "failed" => Why(p)
  <2> HAVE Alone(p) /\ Distinct(p) /\ pc'[p] = "failed"
  <2>1. Refused(p)
    BY <1>1, <1>2 DEF TypeOK
  <2>2. CASE job[p].files = <<>>
    BY <2>1, <2>2 DEF Refused, Why
  <2>3. CASE job[p].files # <<>>
    <3>1. PICK i \in DOMAIN job[p].files : \E q \in LooksFor(job[p].files[i]) : disk[q] = NoFile
      BY <2>1, <2>3 DEF Refused
    <3>2. PICK q \in LooksFor(job[p].files[i]) : disk[q] = NoFile
      BY <3>1
    <3>3. Content(job[p].files[i]) = Before(p, i)
      BY <1>1, AsItWas, Asked DEF Passed
    <3>4. LooksFor(job[p].files[i]) \subseteq PathOf(job[p].files[i]) /\ PathOf(job[p].files[i]) # {}
      BY DEF Distinct
    <3>5. start[q] = NoFile
      BY <1>1, <3>2, <3>3, <3>4, OnePath DEF Content, Before
    <3> QED
      BY <2>1, <2>3, <3>2, <3>5 DEF Refused, Why
  <2> QED
    BY <2>2, <2>3
<1>7. Passed(p)'
  BY <1>1, <1>2, <1>6, Stable DEF Passed
<1> QED
  BY <1>1, <1>2, <1>4, <1>5, <1>7, Reads

LEMMA FinishIInv == ASSUME IInv, NEW p \in Procs, Finish(p) PROVE IInv'
<1>1. /\ pc[p] = "file" /\ pc' = [pc EXCEPT ![p] = "done"] /\ at[p] > Len(job[p].files)
      /\ UNCHANGED <<disk, temp, job, start, at, text, where>> /\ TypeOK /\ Static
      /\ Passed(p)
  BY DEF Finish, To, IInv, Each
<1>2. pc'[p] = "done" /\ \A r \in Procs \ {p} : pc'[r] = pc[r]
  BY <1>1 DEF TypeOK
<1>3. \A r \in Procs : FileAt(r)' = FileAt(r)
  BY <1>1 DEF FileAt
<1>4. TypeOK'
  BY <1>1, <1>2, <1>3 DEF TypeOK
<1>5. Mine(p)'
  BY <1>2 DEF Mine, Working
<1>6. Passed(p)'
  BY <1>1, <1>2, Stable DEF Passed
<1> QED
  BY <1>1, <1>2, <1>4, <1>5, <1>6, Reads

LEMMA ConflictIInv == ASSUME IInv, NEW p \in Procs, Conflict(p) PROVE IInv'
<1>1. /\ pc[p] = "file" /\ pc' = [pc EXCEPT ![p] = "failed"] /\ at[p] <= Len(job[p].files)
      /\ ~ FileOutcome(FileAt(p), Content(FileAt(p))).ok
      /\ UNCHANGED <<disk, temp, job, start, at, text, where>> /\ TypeOK /\ Static
      /\ Passed(p)
  BY DEF Conflict, To, IInv, Each
<1>2. pc'[p] = "failed" /\ \A r \in Procs \ {p} : pc'[r] = pc[r]
  BY <1>1 DEF TypeOK
<1>3. \A r \in Procs : FileAt(r)' = FileAt(r)
  BY <1>1 DEF FileAt
<1>4. TypeOK'
  BY <1>1, <1>2, <1>3 DEF TypeOK
<1>5. Mine(p)'
  BY <1>2 DEF Mine, Working
<1>6. Alone(p) /\ Distinct(p) => Why(p)
  <2> HAVE Alone(p) /\ Distinct(p)
  <2>1. at[p] \in DOMAIN job[p].files /\ at[p] \in Nat
    BY <1>1, Asked DEF TypeOK
  <2>2. Content(FileAt(p)) = Before(p, at[p])
    BY <2>1, AsItWas DEF FileAt
  <2> QED
    BY <1>1, <2>1, <2>2 DEF Why, Outcome, FileAt
<1>7. Passed(p)'
  BY <1>1, <1>2, <1>6, Stable DEF Passed
<1> QED
  BY <1>1, <1>2, <1>4, <1>5, <1>7, Reads

\* What FileOutcome says of the file a patch alone is at.
LEMMA OutcomeHere ==
  ASSUME IInv, NEW p \in Procs, Alone(p), Distinct(p), at[p] <= Len(job[p].files)
  PROVE  /\ at[p] \in DOMAIN job[p].files
         /\ FileOutcome(FileAt(p), Content(FileAt(p))) = Outcome(p, at[p])
<1>1. at[p] \in DOMAIN job[p].files /\ at[p] \in Nat
  BY Asked DEF IInv, TypeOK
<1>2. Content(FileAt(p)) = Before(p, at[p])
  BY <1>1, AsItWas DEF FileAt
<1> QED
  BY <1>1, <1>2 DEF Outcome, FileAt

LEMMA DryFileIInv == ASSUME IInv, NEW p \in Procs, DryFile(p) PROVE IInv'
<1>1. /\ pc[p] = "file" /\ at' = [at EXCEPT ![p] = @ + 1] /\ at[p] <= Len(job[p].files)
      /\ job[p].dry /\ FileOutcome(FileAt(p), Content(FileAt(p))).ok
      /\ UNCHANGED <<disk, temp, job, start, pc, text, where>> /\ TypeOK /\ Static
      /\ Passed(p)
  BY DEF DryFile, IInv, Each
<1>2. at'[p] = at[p] + 1 /\ at[p] \in Nat /\ \A r \in Procs \ {p} : at'[r] = at[r]
  BY <1>1 DEF TypeOK
<1>3. \A r \in Procs \ {p} : FileAt(r)' = FileAt(r)
  BY <1>1, <1>2 DEF FileAt
<1>4. TypeOK'
  BY <1>1, <1>2, <1>3 DEF TypeOK
<1>5. Mine(p)'
  BY <1>1 DEF Mine
<1>6. Passed(p)'
  <2>1. /\ Alone(p)' = Alone(p) /\ Distinct(p)' = Distinct(p) /\ Why(p)' = Why(p)
        /\ \A i \in DOMAIN job[p].files : Outcome(p, i)' = Outcome(p, i)
    BY <1>1, Stable
  <2>2. Alone(p) /\ Distinct(p) => \A i \in DOMAIN job[p].files : i < at[p] + 1 => Outcome(p, i).ok
    BY <1>1, <1>2, OutcomeHere, Asked DEF Passed
  <2> QED
    BY <1>1, <1>2, <2>1, <2>2 DEF Passed
<1> QED
  BY <1>1, <1>2, <1>4, <1>5, <1>6, Reads

LEMMA BuildIInv == ASSUME IInv, NEW p \in Procs, build_new_content(p) PROVE IInv'
<1>1. /\ pc[p] = "file" /\ pc' = [pc EXCEPT ![p] = "open"] /\ at[p] <= Len(job[p].files)
      /\ ~ job[p].dry /\ ~ FileAt(p).is_deleted_file
      /\ FileOutcome(FileAt(p), Content(FileAt(p))).ok
      /\ text' = [text EXCEPT ![p] = FileOutcome(FileAt(p), Content(FileAt(p))).text]
      /\ UNCHANGED <<disk, temp, job, start, at, where>> /\ TypeOK /\ Static
      /\ Passed(p)
  BY DEF build_new_content, To, IInv, Each
<1>2. pc'[p] = "open" /\ \A r \in Procs \ {p} : pc'[r] = pc[r] /\ text'[r] = text[r]
  BY <1>1 DEF TypeOK
<1>3. \A r \in Procs : FileAt(r)' = FileAt(r)
  BY <1>1 DEF FileAt
<1>4. TypeOK'
  BY <1>1, <1>2, <1>3, OutcomeText DEF TypeOK
<1>5. Passed(p)'
  BY <1>1, <1>2, Stable DEF Passed
<1>6. Mine(p)'
  <2>1. /\ Alone(p)' = Alone(p) /\ Distinct(p)' = Distinct(p)
        /\ \A i \in DOMAIN job[p].files : Outcome(p, i)' = Outcome(p, i)
    BY <1>1, Stable
  <2>2. CASE Alone(p) /\ Distinct(p)
    <3>1. /\ at[p] \in DOMAIN job[p].files /\ Outcome(p, at[p]).ok
          /\ FileOutcome(FileAt(p), Content(FileAt(p))) = Outcome(p, at[p])
      BY <1>1, <2>2, OutcomeHere
    <3>2. text'[p] = Outcome(p, at[p]).text
      <4>1. p \in DOMAIN text
        BY <1>1 DEF IInv, TypeOK
      <4> QED
        BY <1>1, <3>1, <4>1
    <3> QED
      BY <1>1, <1>2, <1>3, <2>1, <3>1, <3>2 DEF Mine
  <2> QED
    BY <2>1, <2>2 DEF Mine
<1> QED
  BY <1>1, <1>2, <1>4, <1>5, <1>6, Reads

LEMMA RenameFailsIInv == ASSUME IInv, NEW p \in Procs, RenameFails(p) PROVE IInv'
<1>1. /\ pc[p] = "rename" /\ pc' = [pc EXCEPT ![p] = "failed"] /\ temp[TempAt(p)] = NoFile
      /\ UNCHANGED <<disk, temp, job, start, at, text, where>> /\ TypeOK /\ Static
      /\ Passed(p) /\ Mine(p)
  BY DEF RenameFails, To, IInv, Each
<1>2. pc'[p] = "failed" /\ \A r \in Procs \ {p} : pc'[r] = pc[r]
  BY <1>1 DEF TypeOK
<1>3. \A r \in Procs : FileAt(r)' = FileAt(r)
  BY <1>1 DEF FileAt
<1>4. TypeOK'
  BY <1>1, <1>2, <1>3 DEF TypeOK
<1>5. Mine(p)'
  BY <1>2 DEF Mine, Working
<1>6. ~ (Alone(p) /\ Distinct(p))
  <2> SUFFICES ASSUME Alone(p), Distinct(p) PROVE FALSE
    OBVIOUS
  <2>1. at[p] <= Len(job[p].files) /\ ~ job[p].dry
    BY <1>1 DEF TypeOK
  <2>2. Outcome(p, at[p]).ok /\ Outcome(p, at[p]).text = NoFile /\ ~ FileAt(p).is_deleted_file
    BY <1>1, <2>1 DEF Mine, Working
  <2> QED
    BY <2>2, OutcomeText DEF Outcome, FileAt
<1>7. Passed(p)'
  BY <1>1, <1>6, Stable DEF Passed
<1> QED
  BY <1>1, <1>2, <1>4, <1>5, <1>7, Reads

-----------------------------------------------------------------------------
(* Steps that change the disk. *)

\* A patch alone has no descriptor on the names of another process.
LEMMA NotThere ==
  ASSUME IInv, NEW p \in Procs, NEW r \in Procs, r # p, Alone(r),
         NEW q \in Writes(p), q \in Paths
  PROVE  where[r] # q /\ where[r] # TempOf[q]
<1>1. Owns(r) /\ Near(r) \subseteq Temps
  BY Names DEF IInv, Each, Near, Writes, Touched
<1>2. TempOf[q] \notin Near(r)
  BY Apart DEF Near, Writes
<1> QED
  BY <1>1, <1>2, Names DEF Owns

\* The file a patch is at gets its new content and the patch goes on.
LEMMA Advance ==
  ASSUME IInv, NEW p \in Procs, UNCHANGED <<job, start>>, NEW v,
         ~ job[p].dry, at[p] <= Len(job[p].files), PathOf(FileAt(p)) # {},
         disk' = [disk EXCEPT ![PathAt(p)] = v], at' = [at EXCEPT ![p] = @ + 1],
         pc'[p] = "file",
         Alone(p) /\ Distinct(p) => Outcome(p, at[p]).ok /\ v = Outcome(p, at[p]).text
  PROVE  PrefixApplied' /\ Passed(p)'
<1>1. /\ TypeOK /\ Static /\ Passed(p) /\ PrefixApplied /\ at[p] \in Nat /\ at'[p] = at[p] + 1
      /\ \A r \in Procs \ {p} : at'[r] = at[r]
  BY DEF IInv, Each, TypeOK
<1>2. /\ at[p] \in DOMAIN job[p].files
      /\ PathAt(p) \in Paths /\ PathOf(FileAt(p)) = {PathAt(p)} /\ PathAt(p) \in Writes(p)
  BY <1>1, Here
<1>3. \A r \in Procs : /\ Alone(r)' = Alone(r) /\ Distinct(r)' = Distinct(r)
                       /\ Writes(r)' = Writes(r) /\ Why(r)' = Why(r)
                       /\ \A i \in DOMAIN job[r].files : Outcome(r, i)' = Outcome(r, i)
  BY Stable
<1>4. disk'[PathAt(p)] = v /\ \A q \in Paths \ {PathAt(p)} : disk'[q] = disk[q]
  BY <1>1, <1>2 DEF TypeOK
<1>5. Passed(p)'
  <2>1. Alone(p) /\ Distinct(p) => \A i \in DOMAIN job[p].files : i < at[p] + 1 => Outcome(p, i).ok
    BY <1>1, Asked DEF Passed
  <2> QED
    BY <1>1, <1>3, <2>1 DEF Passed
<1>6. ASSUME NEW r \in Procs, Alone(r), Distinct(r), ~ job[r].dry,
             NEW i \in DOMAIN job[r].files, NEW q \in PathOf(job[r].files[i])
      PROVE  disk'[q] = IF i < at'[r] THEN Outcome(r, i).text ELSE start[q]
  <2>1. q \in Paths /\ q \in Touched(r) /\ i \in Nat
    <3>1. PathOf(job[r].files[i]) \in {{}} \cup {{o} : o \in Paths}
      BY <1>1, Asked
    <3>2. i \in Nat
      BY <1>1, Asked
    <3> QED
      BY <3>1, <3>2 DEF Touched
  <2>2. disk[q] = IF i < at[r] THEN Outcome(r, i).text ELSE start[q]
    BY <1>1, <1>6 DEF PrefixApplied
  <2>3. CASE r # p
    BY <1>1, <1>2, <1>4, <1>6, <2>1, <2>2, <2>3, Apart
  <2>4. CASE r = p /\ i = at[p]
    BY <1>1, <1>2, <1>4, <1>6, <2>4 DEF FileAt
  <2>5. CASE r = p /\ i # at[p]
    <3>1. PathOf(job[p].files[i]) # PathOf(FileAt(p)) /\ PathOf(job[p].files[i]) = {q}
      <4>1. PathOf(job[p].files[i]) \in {{}} \cup {{o} : o \in Paths}
        BY <1>1, <2>5, Asked
      <4>2. PathOf(job[p].files[i]) # PathOf(FileAt(p))
        BY <1>2, <1>6, <2>5 DEF Distinct, FileAt
      <4> QED
        BY <4>1, <4>2, <2>5
    <3>2. q # PathAt(p)
      BY <1>2, <3>1
    <3>3. i < at[p] + 1 <=> i < at[p]
      BY <1>1, <2>1, <2>5
    <3> QED
      BY <1>1, <1>4, <2>1, <2>2, <2>5, <3>2, <3>3
  <2> QED
    BY <2>3, <2>4, <2>5
<1>7. ASSUME NEW q \in Paths, \A r \in Procs : q \notin Writes(r)
      PROVE  disk'[q] = start[q]
  BY <1>1, <1>2, <1>4, <1>7 DEF PrefixApplied
<1>8. PrefixApplied'
  BY <1>3, <1>6, <1>7 DEF PrefixApplied
<1> QED
  BY <1>5, <1>8

LEMMA DeleteIInv == ASSUME IInv, NEW p \in Procs, delete_file(p) PROVE IInv'
<1>1. /\ pc[p] = "file" /\ at[p] <= Len(job[p].files) /\ ~ job[p].dry
      /\ FileAt(p).is_deleted_file
      /\ FileOutcome(FileAt(p), Content(FileAt(p))).ok
      /\ disk' = [disk EXCEPT ![PathAt(p)] = NoFile]
      /\ where' = [q \in Procs |-> IF where[q] = PathAt(p) THEN Nowhere ELSE where[q]]
      /\ at' = [at EXCEPT ![p] = @ + 1]
      /\ UNCHANGED <<temp, job, start, pc, text>> /\ TypeOK /\ Static
  BY DEF delete_file, IInv
<1>2. /\ PathOf(FileAt(p)) # {}
      /\ FileOutcome(FileAt(p), Content(FileAt(p))).text = NoFile
  BY <1>1, OutcomeText
<1>3. /\ PathAt(p) \in Paths /\ PathAt(p) \in Writes(p)
  BY <1>1, <1>2, Here
<1>4. PrefixApplied' /\ Passed(p)'
  <2>1. Alone(p) /\ Distinct(p) => Outcome(p, at[p]).ok /\ NoFile = Outcome(p, at[p]).text
    BY <1>1, <1>2, OutcomeHere
  <2> QED
    BY <1>1, <1>2, <2>1, Advance
<1>5. at'[p] = at[p] + 1 /\ at[p] \in Nat /\ \A r \in Procs \ {p} : at'[r] = at[r]
  BY <1>1 DEF TypeOK
<1>6. \A r \in Procs \ {p} : FileAt(r)' = FileAt(r)
  BY <1>1, <1>5 DEF FileAt
<1>7. TypeOK'
  BY <1>1, <1>3, <1>5, <1>6 DEF TypeOK
<1>8. Static'
  BY <1>1 DEF Static
<1>9. \A r \in Procs : Owns(r)'
  <2> TAKE r \in Procs
  <2>1. Owns(r) /\ Near(r)' = Near(r) /\ \A k \in Procs : Writes(k)' = Writes(k)
    BY <1>1, Stable DEF IInv, Each
  <2>2. where'[r] \in {Nowhere, where[r]}
    BY <1>1
  <2> QED
    BY <2>1, <2>2 DEF Owns
<1>10. Mine(p)'
  BY <1>1 DEF Mine, Working
<1>11. \A r \in Procs \ {p} : Mine(r)' /\ Passed(r)'
  <2> TAKE r \in Procs \ {p}
  <2>1. Alone(r) => where'[r] = where[r]
    BY <1>1, <1>3, NotThere
  <2> QED
    BY <1>1, <1>5, <2>1, Others
<1> QED
  BY <1>4, <1>7, <1>8, <1>9, <1>10, <1>11 DEF IInv, Each

-----------------------------------------------------------------------------
(* Steps on temporary files. *)

LEMMA SameFiles ==
  ASSUME IInv, UNCHANGED <<disk, at, job, start>>
  PROVE  PrefixApplied' /\ Static'
<1>1. PrefixApplied /\ Static
  BY DEF IInv
<1>2. \A r \in Procs : /\ Alone(r)' = Alone(r) /\ Distinct(r)' = Distinct(r)
                       /\ Writes(r)' = Writes(r)
                       /\ \A i \in DOMAIN job[r].files : Outcome(r, i)' = Outcome(r, i)
  BY Stable
<1> QED
  BY <1>1, <1>2 DEF PrefixApplied, Static

\* The temporary name a process writes to is not that of another alone.
LEMMA OwnTemp ==
  ASSUME IInv, NEW p \in Procs, NEW t \in Near(p), NEW r \in Procs, r # p, Alone(r)
  PROVE  \A q \in Touched(r) : TempOf[q] # t
BY Apart DEF Near

LEMMA OpenIInv == ASSUME IInv, NEW p \in Procs, OpenTemp(p) PROVE IInv'
<1>1. /\ pc[p] = "open" /\ temp' = [temp EXCEPT ![TempAt(p)] = Empty]
      /\ where' = [where EXCEPT ![p] = TempAt(p)] /\ pc' = [pc EXCEPT ![p] = "write"]
      /\ UNCHANGED <<disk, job, start, at, text>> /\ TypeOK /\ Static
      /\ Mine(p) /\ Passed(p)
  BY DEF OpenTemp, To, IInv, Each
<1>2. at[p] <= Len(job[p].files) /\ ~ job[p].dry /\ PathOf(FileAt(p)) # {}
  BY <1>1 DEF TypeOK
<1>3. TempAt(p) \in Temps /\ TempAt(p) \in Near(p)
  BY <1>1, <1>2, Here
<1>4. /\ pc'[p] = "write" /\ where'[p] = TempAt(p) /\ temp'[TempAt(p)] = Empty
      /\ \A r \in Procs \ {p} : pc'[r] = pc[r] /\ where'[r] = where[r]
      /\ \A t \in Temps \ {TempAt(p)} : temp'[t] = temp[t]
  BY <1>1, <1>3 DEF TypeOK
<1>5. \A r \in Procs : FileAt(r)' = FileAt(r) /\ PathAt(r)' = PathAt(r) /\ TempAt(r)' = TempAt(r)
  BY <1>1 DEF FileAt, PathAt, TempAt
<1>6. TypeOK'
  BY <1>1, <1>2, <1>3, <1>4, <1>5 DEF TypeOK
<1>7. \A r \in Procs : Owns(r)'
  <2> TAKE r \in Procs
  <2>1. Owns(r) /\ Near(r)' = Near(r) /\ \A k \in Procs : Writes(k)' = Writes(k)
    BY <1>1, Stable DEF IInv, Each
  <2> QED
    BY <1>3, <1>4, <2>1 DEF Owns
<1>8. Mine(p)' /\ Passed(p)'
  <2>1. /\ Alone(p)' = Alone(p) /\ Distinct(p)' = Distinct(p) /\ at[p] \in DOMAIN job[p].files
        /\ \A i \in DOMAIN job[p].files : Outcome(p, i)' = Outcome(p, i)
    BY <1>1, <1>2, Stable, Here
  <2>2. Mine(p)'
    BY <1>1, <1>4, <1>5, <2>1 DEF Mine, Working
  <2> QED
    BY <1>1, <1>4, <2>1, <2>2 DEF Passed
<1>9. \A r \in Procs \ {p} : Mine(r)' /\ Passed(r)'
  <2> TAKE r \in Procs \ {p}
  <2>1. Alone(r) => \A q \in Touched(r) : temp'[TempOf[q]] = temp[TempOf[q]]
    BY <1>3, <1>4, OwnTemp, Names DEF Touched
  <2> QED
    BY <1>1, <1>4, <2>1, Others
<1> QED
  BY <1>1, <1>6, <1>7, <1>8, <1>9, SameFiles DEF IInv, Each

LEMMA StopsIInv ==
  ASSUME IInv, NEW p \in Procs, NEW how \in {"ioerror", "crashed"}, Stops(p, how)
  PROVE  IInv'
<1>1. /\ pc' = [pc EXCEPT ![p] = how] /\ where' = [where EXCEPT ![p] = Nowhere]
      /\ \/ temp' = temp
         \/ where[p] \in Temps /\ temp' = [temp EXCEPT ![where[p]] = Torn]
      /\ UNCHANGED <<disk, job, start, at, text>> /\ TypeOK /\ Static
      /\ Owns(p) /\ Passed(p) /\ pc[p] \in {"file", "open", "write", "rename"}
  BY DEF Stops, To, IInv, Each
<1>2. /\ pc'[p] = how /\ where'[p] = Nowhere
      /\ \A r \in Procs \ {p} : pc'[r] = pc[r] /\ where'[r] = where[r]
      /\ \A t \in Temps \ Near(p) : temp'[t] = temp[t]
  BY <1>1, Names DEF TypeOK, Owns
<1>3. \A r \in Procs : FileAt(r)' = FileAt(r)
  BY <1>1 DEF FileAt
<1>4. TypeOK'
  BY <1>1, <1>2, <1>3 DEF TypeOK
<1>5. \A r \in Procs : Owns(r)'
  <2> TAKE r \in Procs
  <2>1. Owns(r) /\ Near(r)' = Near(r) /\ \A k \in Procs : Writes(k)' = Writes(k)
    BY <1>1, Stable DEF IInv, Each
  <2> QED
    BY <1>2, <2>1 DEF Owns
<1>6. Mine(p)' /\ Passed(p)'
  BY <1>1, <1>2, Stable DEF Mine, Passed, Working
<1>7. \A r \in Procs \ {p} : Mine(r)' /\ Passed(r)'
  <2> TAKE r \in Procs \ {p}
  <2>1. Alone(r) => \A q \in Touched(r) : temp'[TempOf[q]] = temp[TempOf[q]]
    BY <1>2, OwnTemp, Names DEF Touched
  <2> QED
    BY <1>1, <1>2, <2>1, Others
<1> QED
  BY <1>1, <1>4, <1>5, <1>6, <1>7, SameFiles DEF IInv, Each

LEMMA RenameIInv == ASSUME IInv, NEW p \in Procs, RenameTemp(p) PROVE IInv'
<1>1. /\ pc[p] = "rename" /\ disk' = [disk EXCEPT ![PathAt(p)] = temp[TempAt(p)]]
      /\ temp' = [temp EXCEPT ![TempAt(p)] = NoFile]
      /\ where' = [q \in Procs |-> IF where[q] = TempAt(p) THEN PathAt(p)
                                 ELSE IF where[q] = PathAt(p) THEN Nowhere ELSE where[q]]
      /\ at' = [at EXCEPT ![p] = @ + 1] /\ pc' = [pc EXCEPT ![p] = "file"]
      /\ UNCHANGED <<job, start, text>> /\ TypeOK /\ Static /\ Mine(p)
  BY DEF RenameTemp, To, IInv, Each
<1>2. at[p] <= Len(job[p].files) /\ ~ job[p].dry /\ PathOf(FileAt(p)) # {} /\ where[p] = Nowhere
  BY <1>1 DEF TypeOK
<1>3. /\ PathAt(p) \in Paths /\ PathAt(p) \in Writes(p) /\ TempAt(p) = TempOf[PathAt(p)]
      /\ TempAt(p) \in Temps /\ TempAt(p) \in Near(p)
  BY <1>1, <1>2, Here
<1>4. /\ pc'[p] = "file" /\ at'[p] = at[p] + 1 /\ at[p] \in Nat
      /\ \A r \in Procs \ {p} : pc'[r] = pc[r] /\ at'[r] = at[r]
      /\ \A t \in Temps \ {TempAt(p)} : temp'[t] = temp[t]
  BY <1>1, <1>3 DEF TypeOK
<1>5. PrefixApplied' /\ Passed(p)'
  <2>1. Alone(p) /\ Distinct(p) =>
           Outcome(p, at[p]).ok /\ temp[TempAt(p)] = Outcome(p, at[p]).text
    BY <1>1, <1>2 DEF Mine, Working
  <2> QED
    BY <1>1, <1>2, <1>4, <2>1, Advance
<1>6. \A r \in Procs \ {p} : FileAt(r)' = FileAt(r)
  BY <1>1, <1>4 DEF FileAt
<1>7. where'[p] = Nowhere
  BY <1>1, <1>2, <1>3, Names
<1>8. TypeOK'
  BY <1>1, <1>3, <1>4, <1>6, <1>7 DEF TypeOK
<1>9. Static'
  BY <1>1 DEF Static
<1>10. \A r \in Procs : Owns(r)'
  <2> TAKE r \in Procs
  <2>1. /\ Owns(r) /\ Near(r)' = Near(r) /\ Near(r) \subseteq Temps
        /\ \A k \in Procs : Writes(k)' = Writes(k)
    BY <1>1, Stable, Names DEF IInv, Each, Near, Writes, Touched
  <2>2. CASE where[r] = TempAt(p)
    <3>1. where'[r] = PathAt(p) /\ TempOf[PathAt(p)] \in Near(r)
      BY <1>1, <1>3, <2>1, <2>2, Names DEF Owns
    <3> QED
      BY <1>3, <2>1, <3>1 DEF Owns
  <2>3. CASE where[r] # TempAt(p)
    <3>1. where'[r] \in {Nowhere, where[r]}
      BY <1>1, <2>3
    <3> QED
      BY <2>1, <3>1 DEF Owns
  <2> QED
    BY <2>2, <2>3
<1>11. Mine(p)'
  BY <1>4 DEF Mine, Working
<1>12. \A r \in Procs \ {p} : Mine(r)' /\ Passed(r)'
  <2> TAKE r \in Procs \ {p}
  <2>1. Alone(r) => \A q \in Touched(r) : temp'[TempOf[q]] = temp[TempOf[q]]
    BY <1>3, <1>4, OwnTemp, Names DEF Touched
  <2>2. Alone(r) => where'[r] = where[r]
    BY <1>1, <1>3, NotThere
  <2> QED
    BY <1>1, <1>4, <2>1, <2>2, Others
<1> QED
  BY <1>5, <1>8, <1>9, <1>10, <1>11, <1>12 DEF IInv, Each

LEMMA WriteIInv == ASSUME IInv, NEW p \in Procs, WriteTemp(p) PROVE IInv'
<1>1. /\ pc[p] = "write" /\ pc' = [pc EXCEPT ![p] = "rename"]
      /\ where' = [where EXCEPT ![p] = Nowhere]
      /\ UNCHANGED <<job, start, at, text>> /\ TypeOK /\ Static /\ PrefixApplied
      /\ Owns(p) /\ Mine(p) /\ Passed(p)
  BY DEF WriteTemp, To, IInv, Each
<1>2. \/ /\ where[p] \in Temps /\ disk' = disk
         /\ \E t \in Written(p, temp[where[p]]) : temp' = [temp EXCEPT ![where[p]] = t]
      \/ /\ where[p] \in Paths /\ temp' = temp
         /\ \E t \in Written(p, disk[where[p]]) : disk' = [disk EXCEPT ![where[p]] = t]
      \/ where[p] = Nowhere /\ UNCHANGED <<disk, temp>>
  BY DEF WriteTemp
<1>3. /\ pc'[p] = "rename" /\ where'[p] = Nowhere
      /\ \A r \in Procs \ {p} : pc'[r] = pc[r] /\ where'[r] = where[r]
  BY <1>1 DEF TypeOK
<1>4. /\ DOMAIN temp' = Temps /\ \A t \in Temps \ Near(p) : temp'[t] = temp[t]
  BY <1>1, <1>2, Names DEF Owns, TypeOK
<1>5. /\ DOMAIN disk' = Paths /\ \A q \in Paths \ {where[p]} : disk'[q] = disk[q]
  BY <1>1, <1>2, Names DEF TypeOK
<1>6. \A r \in Procs : FileAt(r)' = FileAt(r) /\ PathAt(r)' = PathAt(r) /\ TempAt(r)' = TempAt(r)
  BY <1>1 DEF FileAt, PathAt, TempAt
<1>7. TypeOK'
  BY <1>1, <1>3, <1>4, <1>5, <1>6 DEF TypeOK
<1>8. Static'
  BY <1>1 DEF Static
<1>9. \A r \in Procs : Owns(r)'
  <2> TAKE r \in Procs
  <2>1. Owns(r) /\ Near(r)' = Near(r) /\ \A k \in Procs : Writes(k)' = Writes(k)
    BY <1>1, Stable DEF IInv, Each
  <2> QED
    BY <1>3, <2>1 DEF Owns
<1>10. at[p] <= Len(job[p].files) /\ ~ job[p].dry /\ PathOf(FileAt(p)) # {}
  BY <1>1 DEF TypeOK
<1>11. /\ Alone(p)' = Alone(p) /\ Distinct(p)' = Distinct(p) /\ at[p] \in DOMAIN job[p].files
       /\ \A i \in DOMAIN job[p].files : Outcome(p, i)' = Outcome(p, i)
       /\ TempAt(p) \in Temps
  BY <1>1, <1>10, Stable, Here
<1>12. Mine(p)'
  <2>1. CASE Alone(p) /\ Distinct(p)
    <3>1. /\ where[p] = TempAt(p) /\ temp[TempAt(p)] = Empty /\ ~ FileAt(p).is_deleted_file
          /\ Outcome(p, at[p]).ok /\ text[p] = Outcome(p, at[p]).text
      BY <1>1, <1>10, <2>1 DEF Mine, Working
    <3>2. Written(p, temp[where[p]]) = {text[p]}
      BY <3>1 DEF Written
    <3>3. temp'[TempAt(p)] = text[p]
      BY <1>1, <1>2, <1>11, <3>1, <3>2, Names DEF TypeOK
    <3> QED
      BY <1>1, <1>3, <1>6, <1>11, <3>1, <3>3 DEF Mine
  <2> QED
    BY <1>11, <2>1 DEF Mine
<1>13. Passed(p)'
  BY <1>1, <1>3, <1>11, Stable DEF Passed
<1>14. \A r \in Procs \ {p} : Mine(r)' /\ Passed(r)'
  <2> TAKE r \in Procs \ {p}
  <2>1. Alone(r) => \A q \in Touched(r) : temp'[TempOf[q]] = temp[TempOf[q]]
    BY <1>4, OwnTemp, Names DEF Touched
  <2> QED
    BY <1>1, <1>3, <2>1, Others
<1>15. ASSUME NEW r \in Procs, Alone(r), Distinct(r), ~ job[r].dry, NEW q \in Touched(r)
       PROVE  disk'[q] = disk[q]
  <2>1. q \in Paths
    BY DEF Touched
  <2>2. where[p] # q
    <3>1. CASE r = p
      BY <1>1, <1>10, <1>11, <1>15, <2>1, <3>1, Names DEF Mine
    <3>2. CASE r # p
      <4>1. TempOf[q] \notin Near(p)
        BY <1>15, <3>2, OwnTemp
      <4> QED
        BY <1>1, <2>1, <4>1, Names DEF Owns, Near, Writes, Touched
    <3> QED
      BY <3>1, <3>2
  <2> QED
    BY <1>5, <2>1, <2>2
<1>16. ASSUME NEW q \in Paths, \A r \in Procs : q \notin Writes(r)
       PROVE  disk'[q] = disk[q]
  <2>1. where[p] # q
    BY <1>1, <1>16, Names DEF Owns, Near, Writes, Touched
  <2> QED
    BY <1>5, <2>1
<1>17. PrefixApplied'
  <2>1. \A r \in Procs : /\ Alone(r)' = Alone(r) /\ Distinct(r)' = Distinct(r)
                         /\ Writes(r)' = Writes(r)
                         /\ \A i \in DOMAIN job[r].files : Outcome(r, i)' = Outcome(r, i)
    BY <1>1, Stable
  <2>2. \A r \in Procs : \A i \in DOMAIN job[r].files : PathOf(job[r].files[i]) \subseteq Touched(r)
    <3> TAKE r \in Procs
    <3> TAKE i \in DOMAIN job[r].files
    <3>1. PathOf(job[r].files[i]) \in {{}} \cup {{o} : o \in Paths}
      BY <1>1, Asked
    <3> QED
      BY <3>1 DEF Touched
  <2> QED
    BY <1>1, <1>15, <1>16, <2>1, <2>2 DEF PrefixApplied
<1> QED
  BY <1>7, <1>8, <1>9, <1>12, <1>13, <1>14, <1>17 DEF IInv, Each

-----------------------------------------------------------------------------

LEMMA NextIInv == IInv /\ [Next]_vars => IInv'
<1> SUFFICES ASSUME IInv, [Next]_vars PROVE IInv'
  OBVIOUS
<1>1. ASSUME NEW p \in Procs,
             \/ Check(p) \/ Finish(p) \/ Conflict(p) \/ DryFile(p)
             \/ delete_file(p) \/ build_new_content(p)
             \/ OpenTemp(p) \/ WriteTemp(p) \/ RenameTemp(p) \/ RenameFails(p)
             \/ IoError(p) \/ Crash(p)
      PROVE  IInv'
  <2>1. CASE IoError(p) \/ Crash(p)
    BY <2>1, StopsIInv DEF IoError, Crash
  <2> QED
    BY <1>1, <2>1, CheckIInv, FinishIInv, ConflictIInv, DryFileIInv, DeleteIInv, BuildIInv,
       OpenIInv, WriteIInv, RenameIInv, RenameFailsIInv
<1>2. CASE UNCHANGED vars
  <2>1. UNCHANGED <<disk, temp, job, start, pc, at, text, where>>
    BY <1>2 DEF vars
  <2>2. TypeOK'
    BY <2>1 DEF IInv, TypeOK, FileAt
  <2>3. \A r \in Procs : Owns(r)' /\ Mine(r)' /\ Passed(r)'
    <3> TAKE r \in Procs
    <3>1. Owns(r) /\ Mine(r) /\ Passed(r)
      BY DEF IInv, Each
    <3>2. FileAt(r)' = FileAt(r) /\ PathAt(r)' = PathAt(r) /\ TempAt(r)' = TempAt(r)
      BY <2>1 DEF FileAt, PathAt, TempAt
    <3>3. /\ Near(r)' = Near(r) /\ Alone(r)' = Alone(r) /\ Distinct(r)' = Distinct(r)
          /\ Why(r)' = Why(r) /\ \A k \in Procs : Writes(k)' = Writes(k)
          /\ \A i \in DOMAIN job[r].files : Outcome(r, i)' = Outcome(r, i)
      BY <2>1, Stable
    <3>4. pc[r] \in Working => at[r] \in DOMAIN job[r].files
      BY Here DEF IInv, TypeOK, Working
    <3>5. Mine(r)'
      BY <2>1, <3>1, <3>2, <3>3, <3>4 DEF Mine
    <3> QED
      BY <2>1, <3>1, <3>3, <3>5 DEF Owns, Passed
  <2> QED
    BY <2>1, <2>2, <2>3, SameFiles DEF IInv, Each
<1> QED
  BY <1>1, <1>2 DEF Next

LEMMA Invariance == Spec => []IInv
BY InitIInv, NextIInv, PTL DEF Spec

\* The state keeps its shape.
THEOREM TypeCorrect == Spec => []TypeOK
<1>1. IInv => TypeOK
  BY DEF IInv
<1> QED
  BY <1>1, Invariance, PTL

\* Whatever fails or crashes wherever, and whatever other requests do with
\* other temporary names, a patch has been applied exactly as far as it has
\* come, each file completely or not at all (write_file_atomically).
THEOREM AppliedInOrder == Spec => []PrefixApplied
<1>1. IInv => PrefixApplied
  BY DEF IInv
<1> QED
  BY <1>1, Invariance, PTL

\* A dry run succeeds exactly where the real one does.
THEOREM DryRunTells == Spec => []DryRunPredicts
<1>1. IInv => DryRunPredicts
  <2> SUFFICES ASSUME IInv, NEW p \in Procs, Alone(p), Distinct(p)
               PROVE  /\ pc[p] = "done" => \A i \in DOMAIN job[p].files : Outcome(p, i).ok
                      /\ pc[p] = "failed" => Why(p)
    BY DEF DryRunPredicts, Why
  <2>1. Passed(p) /\ at[p] \in Nat /\ DOMAIN job[p].files = 1 .. Len(job[p].files)
        /\ Len(job[p].files) \in Nat
    BY Asked DEF IInv, Each, TypeOK
  <2> QED
    BY <2>1 DEF Passed
<1> QED
  BY <1>1, Invariance, PTL

-----------------------------------------------------------------------------
(* Induction over numbers.                                                 *)

\* A set of numbers has a least one.
LEMMA LeastNumber ==
    ASSUME NEW S \in SUBSET Nat, S # {}
    PROVE  \E n \in S : \A k \in S : n <= k
<1> DEFINE R == StrictSubsetOrdering(Nat)
           F == FiniteSubsetsOf(Nat)
           T == {0..k : k \in S}
<1>1. IsWellFoundedOn(R, F)
  BY FS_StrictSubsetOrderingWellFounded
<1>2. T \subseteq F /\ T # {}
  <2>1. ASSUME NEW k \in S PROVE 0..k \in F
    <3>1. IsFiniteSet(0..k) /\ 0..k \in SUBSET Nat
      BY FS_Interval
    <3> QED
      BY <3>1 DEF FiniteSubsetsOf
  <2> QED
    BY <2>1
<1> HIDE DEF R, F, T
<1>3. PICK x \in T : \A y \in T : ~ (<<y, x>> \in R)
  BY <1>1, <1>2, WFMin
<1>4. PICK n \in S : x = 0..n
  BY DEF T
<1>5. ASSUME NEW k \in S, k < n PROVE FALSE
  <2>1. 0..k \in T
    BY DEF T
  <2>2. 0..k \subseteq 0..n /\ 0..k # 0..n /\ 0..k \subseteq Nat /\ 0..n \subseteq Nat
    <3>1. n \in 0..n /\ n \notin 0..k
      BY <1>5
    <3>2. 0..k \subseteq 0..n /\ 0..k \subseteq Nat /\ 0..n \subseteq Nat
      BY <1>5
    <3> QED
      BY <3>1, <3>2, Zenon
  <2>3. <<0..k, 0..n>> \in R
    BY <2>2 DEF R, StrictSubsetOrdering
  <2> QED
    BY <1>3, <1>4, <2>1, <2>3
<1> QED
  BY <1>5

\* What holds at the last number, and at each one below with the one above it.
LEMMA Downward ==
    ASSUME NEW G, NEW k \in Nat, NEW m \in Nat, k <= m + 1, m + 1 \in G,
           \A n \in k..m : n + 1 \in G => n \in G
    PROVE  \A n \in k..(m + 1) : n \in G
<1> DEFINE B == {d \in 0..(m + 1 - k) : m + 1 - d \notin G}
<1>1. CASE B = {}
  <2> SUFFICES ASSUME NEW n \in k..(m + 1) PROVE n \in G
    OBVIOUS
  <2>1. m + 1 - n \in 0..(m + 1 - k) /\ m + 1 - (m + 1 - n) = n
    OBVIOUS
  <2>2. m + 1 - (m + 1 - n) \in G
    BY <1>1, <2>1
  <2> QED
    BY <2>1, <2>2
<1>2. CASE B # {}
  <2>1. B \in SUBSET Nat
    OBVIOUS
  <2>2. PICK d \in B : \A c \in B : d <= c
    BY <1>2, <2>1, LeastNumber
  <2>3. d \in 0..(m + 1 - k) /\ d # 0 /\ m + 1 - d \notin G
    BY <2>2
  <2>4. d - 1 \notin B /\ d - 1 \in 0..(m + 1 - k)
    BY <2>1, <2>2, <2>3
  <2>5. m + 1 - (d - 1) \in G
    BY <2>4
  <2>6. m + 1 - d \in k..m /\ (m + 1 - d) + 1 = m + 1 - (d - 1)
    BY <2>3
  <2> QED
    BY <2>3, <2>5, <2>6
<1> QED
  BY <1>1, <1>2

\* What holds of 0, and of each number with the one before it.
LEMMA Upward ==
    ASSUME NEW G, 0 \in G, \A n \in Nat : n \in G => n + 1 \in G
    PROVE  \A n \in Nat : n \in G
<1> DEFINE B == Nat \ G
<1>1. CASE B = {}
  BY <1>1
<1>2. CASE B # {}
  <2>1. PICK n \in B : \A c \in B : n <= c
    BY <1>2, LeastNumber
  <2>2. n # 0 /\ n - 1 \in Nat /\ n - 1 \notin B
    BY <2>1
  <2> QED
    BY <2>1, <2>2
<1> QED
  BY <1>1, <1>2

-----------------------------------------------------------------------------
(* Pieces put together.                                                    *)

\* F[n] is what the first n pieces of u make.
FromPieces(F, u, S) ==
    /\ F[0] = <<>> /\ \A n \in Nat : n < Len(u) => F[n + 1] = F[n] \o u[n + 1]
    /\ \A n \in Nat : n <= Len(u) => F[n] \in Seq(S)
    /\ FlattenSeq(u) = F[Len(u)]

\* Putting pieces together goes piece by piece, each of any length.
LEMMA FlattenSteps ==
    ASSUME NEW S, NEW u \in Seq(Seq(S))
    PROVE  \E F : FromPieces(F, u, S)
<1> DEFINE len == Len(u)
           Good(n, g) == /\ g = [k \in 1..n |-> g[k]]
                         /\ \A k \in 1..n : g[k] = IF k = 1 THEN u[k] ELSE g[k - 1] \o u[k]
           G == {n \in Nat : n <= len => \E g : Good(n, g)}
           Fix(f) == f = [k \in 1..len |-> IF k = 1 THEN u[k] ELSE f[k - 1] \o u[k]]
           R == CHOOSE f : Fix(f)
           F == [n \in 0..len |-> IF n = 0 THEN <<>> ELSE R[n]]
<1>1. len \in Nat /\ <<>> \in Seq(S) /\ \A n \in 1..len : u[n] \in Seq(S)
  BY EmptySeq, ElementOfSeq
<1>2. FlattenSeq(u) = IF len = 0 THEN u ELSE R[len]
  BY DEF FlattenSeq
<1>0. len = 0 => u = <<>>
  BY EmptySeq
<1> HIDE DEF len
<1>3. 0 \in G
  <2>1. Good(0, [k \in 1..0 |-> u])
    OBVIOUS
  <2> QED
    BY <2>1
<1>4. ASSUME NEW n \in Nat, n \in G PROVE n + 1 \in G
  <2> SUFFICES ASSUME n + 1 <= len PROVE \E g : Good(n + 1, g)
    OBVIOUS
  <2>0. n <= len
    BY <1>1
  <2>1. PICK g : Good(n, g)
    BY <2>0, <1>4
  <2> DEFINE f == [k \in 1..(n + 1) |-> IF k <= n THEN g[k]
                                       ELSE IF k = 1 THEN u[k] ELSE g[k - 1] \o u[k]]
  <2>2. ASSUME NEW k \in 1..(n + 1) PROVE f[k] = IF k = 1 THEN u[k] ELSE f[k - 1] \o u[k]
    <3>1. k # 1 => k - 1 \in 1..n /\ k - 1 \in 1..(n + 1) /\ k - 1 <= n
      OBVIOUS
    <3>2. k # 1 => f[k - 1] = g[k - 1]
      BY <3>1
    <3>3. CASE k <= n
      <4>1. k \in 1..n /\ f[k] = g[k]
        BY <3>3
      <4>2. g[k] = IF k = 1 THEN u[k] ELSE g[k - 1] \o u[k]
        BY <2>1, <4>1
      <4> HIDE DEF f
      <4> QED
        BY <3>2, <4>1, <4>2
    <3>4. CASE ~ (k <= n)
      <4>1. f[k] = IF k = 1 THEN u[k] ELSE g[k - 1] \o u[k]
        BY <3>4
      <4> HIDE DEF f
      <4> QED
        BY <3>2, <4>1
    <3> QED
      BY <3>3, <3>4
  <2>3. f = [k \in 1..(n + 1) |-> f[k]]
    OBVIOUS
  <2> HIDE DEF f
  <2>4. Good(n + 1, f)
    BY <2>2, <2>3
  <2> HIDE DEF Good
  <2> QED
    BY <2>4
<1>5. len \in G
  <2> HIDE DEF G
  <2> QED
    BY <1>1, <1>3, <1>4, Upward
<1>6. Fix(R)
  <2>1. PICK g : Good(len, g)
    BY <1>1, <1>5
  <2>2. Fix(g)
    BY <2>1
  <2> HIDE DEF Fix
  <2> QED
    BY <2>2
<1> HIDE DEF R, G
<1>7. \A k \in 1..len : R[k] = IF k = 1 THEN u[k] ELSE R[k - 1] \o u[k]
  BY <1>6
<1>8. F[0] = <<>> /\ \A n \in 1..len : F[n] = R[n]
  BY <1>1
<1> HIDE DEF F
<1>9. ASSUME NEW n \in Nat, n < len PROVE F[n + 1] = F[n] \o u[n + 1]
  <2>0. n + 1 \in 1..len /\ n + 1 - 1 = n
    BY <1>1, <1>9
  <2>1. CASE n = 0
    <3>1. u[1] \in Seq(S) /\ F[1] = R[1] /\ R[1] = u[1] /\ n + 1 = 1
      BY <1>1, <1>7, <1>8, <2>0, <2>1
    <3>2. <<>> \o u[1] = u[1]
      BY <3>1, ConcatEmptySeq
    <3> QED
      BY <1>8, <2>1, <3>1, <3>2
  <2>2. CASE n # 0
    <3>1. n \in 1..len /\ n + 1 # 1
      BY <1>1, <1>9, <2>2
    <3>3. PICK j \in 1..len : j = n + 1 /\ j - 1 = n
      BY <2>0
    <3>4. R[j] = R[j - 1] \o u[j]
      BY <1>7, <3>1, <3>3
    <3>2. R[n + 1] = R[n] \o u[n + 1]
      BY <3>3, <3>4
    <3> QED
      BY <1>8, <2>0, <3>1, <3>2
  <2> QED
    BY <2>1, <2>2
<1>10. FlattenSeq(u) = F[len]
  <2>1. CASE len = 0
    BY <1>2, <1>8, <2>1, <1>0
  <2>2. CASE len # 0
    <3>1. len \in 1..len
      BY <1>1, <2>2
    <3> QED
      BY <1>2, <1>8, <2>2, <3>1
  <2> QED
    BY <2>1, <2>2
<1>11. \A n \in Nat : n <= len => F[n] \in Seq(S)
  <2> DEFINE H == {n \in Nat : n <= len => F[n] \in Seq(S)}
  <2>1. 0 \in H
    BY <1>1, <1>8
  <2>2. ASSUME NEW n \in Nat, n \in H PROVE n + 1 \in H
    <3> SUFFICES ASSUME n + 1 <= len PROVE F[n + 1] \in Seq(S)
      OBVIOUS
    <3>1. n + 1 \in 1..len /\ n < len /\ n <= len
      BY <1>1
    <3>2. F[n + 1] = F[n] \o u[n + 1] /\ F[n] \in Seq(S) /\ u[n + 1] \in Seq(S)
      BY <1>1, <1>9, <2>2, <3>1
    <3> QED
      BY <3>2, ConcatProperties
  <2> HIDE DEF H
  <2>3. \A n \in Nat : n \in H
    BY <2>1, <2>2, Upward
  <2> QED
    BY <1>1, <2>3 DEF H
<1>12. FromPieces(F, u, S)
  BY <1>8, <1>9, <1>10, <1>11 DEF FromPieces, len
<1> QED
  BY <1>12

\* Two lists of pieces, one after the other.
\* Three lists are put together in either order.
Associates(S) == \A x, y, z \in Seq(S) : (x \o y) \o z = x \o (y \o z)

LEMMA Associative == ASSUME NEW S PROVE Associates(S)
<1> SUFFICES ASSUME NEW x \in Seq(S), NEW y \in Seq(S), NEW z \in Seq(S)
             PROVE  (x \o y) \o z = x \o (y \o z)
  BY DEF Associates
<1> QED
  BY ConcatAssociative

LEMMA FlattenConcat ==
    ASSUME NEW S, NEW u \in Seq(Seq(S)), NEW v \in Seq(Seq(S))
    PROVE  FlattenSeq(u \o v) = FlattenSeq(u) \o FlattenSeq(v)
<1> DEFINE w == u \o v
           a == Len(u)
           b == Len(v)
<1>1. /\ w \in Seq(Seq(S)) /\ Len(w) = a + b /\ a \in Nat /\ b \in Nat
      /\ \A n \in 1..(a + b) : w[n] = IF n <= a THEN u[n] ELSE v[n - a]
  BY ConcatProperties, LenProperties
<1>2. \A n \in 1..a : u[n] \in Seq(S)
  BY ElementOfSeq
<1>3. \A n \in 1..b : v[n] \in Seq(S)
  BY ElementOfSeq
<1> HIDE DEF w
<1>4. PICK F : FromPieces(F, w, S)
  BY <1>1, FlattenSteps
<1>5. PICK A : FromPieces(A, u, S)
  BY FlattenSteps
<1>6. PICK B : FromPieces(B, v, S)
  BY FlattenSteps
<1>f. /\ F[0] = <<>> /\ FlattenSeq(w) = F[a + b]
      /\ \A n \in Nat : n < a + b => F[n + 1] = F[n] \o w[n + 1]
  BY <1>1, <1>4 DEF FromPieces
<1>a. /\ A[0] = <<>> /\ FlattenSeq(u) = A[a]
      /\ \A n \in Nat : n < a => A[n + 1] = A[n] \o u[n + 1]
      /\ \A n \in Nat : n <= a => A[n] \in Seq(S)
  BY <1>5 DEF FromPieces
<1>b. /\ B[0] = <<>> /\ FlattenSeq(v) = B[b]
      /\ \A n \in Nat : n < b => B[n + 1] = B[n] \o v[n + 1]
      /\ \A n \in Nat : n <= b => B[n] \in Seq(S)
  BY <1>6 DEF FromPieces
<1>g. Associates(S)
  BY Associative
<1>c. \A x, y, z \in Seq(S) : (x \o y) \o z = x \o (y \o z)
  BY <1>g DEF Associates
<1> HIDE DEF a, b
<1>7. \A n \in Nat : n <= a => F[n] = A[n]
  <2> DEFINE G == {n \in Nat : n <= a => F[n] = A[n]}
  <2>1. 0 \in G
    BY <1>f, <1>a
  <2>2. ASSUME NEW n \in Nat, n \in G PROVE n + 1 \in G
    <3> SUFFICES ASSUME n + 1 <= a PROVE F[n + 1] = A[n + 1]
      OBVIOUS
    <3>1. n + 1 \in 1..(a + b) /\ n < a /\ n < a + b /\ n <= a
      BY <1>1
    <3>2. F[n + 1] = F[n] \o w[n + 1] /\ A[n + 1] = A[n] \o u[n + 1] /\ w[n + 1] = u[n + 1]
      BY <1>1, <1>f, <1>a, <3>1
    <3>3. F[n] = A[n]
      BY <2>2, <3>1
    <3> QED
      BY <3>2, <3>3
  <2> HIDE DEF G
  <2>3. \A n \in Nat : n \in G
    BY <2>1, <2>2, Upward
  <2> QED
    BY <1>1, <2>3 DEF G
<1>8. \A n \in Nat : n <= b => F[a + n] = A[a] \o B[n]
  <2> DEFINE G == {n \in Nat : n <= b => F[a + n] = A[a] \o B[n]}
  <2>0. A[a] \in Seq(S)
    BY <1>1, <1>a
  <2>1. 0 \in G
    <3>1. A[a] \o <<>> = A[a]
      BY <2>0, ConcatEmptySeq
    <3>2. a <= a /\ a + 0 = a
      BY <1>1
    <3>3. F[a] = A[a]
      BY <1>1, <1>7, <3>2, Zenon
    <3> QED
      BY <1>b, <3>1, <3>2, <3>3
  <2>2. ASSUME NEW n \in Nat, n \in G PROVE n + 1 \in G
    <3>0. n + 1 \in Nat
      OBVIOUS
    <3> SUFFICES ASSUME n + 1 <= b PROVE F[a + (n + 1)] = A[a] \o B[n + 1]
      BY <3>0, Zenon
    <3>1. /\ n + 1 \in 1..b /\ a + (n + 1) \in 1..(a + b) /\ a + n \in Nat /\ a + n < a + b
          /\ a + (n + 1) = (a + n) + 1 /\ a + (n + 1) - a = n + 1 /\ ~ (a + (n + 1) <= a)
          /\ n < b /\ n <= b
      BY <1>1
    <3>2. F[a + (n + 1)] = F[a + n] \o w[a + (n + 1)]
      BY <1>f, <3>1
    <3>3. w[a + (n + 1)] = v[n + 1]
      BY <1>1, <3>1
    <3>4. B[n + 1] = B[n] \o v[n + 1] /\ B[n] \in Seq(S)
      BY <1>b, <3>1
    <3>5. F[a + n] = A[a] \o B[n]
      BY <2>2, <3>1
    <3>6. v[n + 1] \in Seq(S)
      BY <1>3, <3>1 DEF b
    <3>7. (A[a] \o B[n]) \o v[n + 1] = A[a] \o (B[n] \o v[n + 1])
      BY <1>c, <2>0, <3>4, <3>6
    <3> QED
      BY <3>2, <3>3, <3>4, <3>5, <3>7
  <2> HIDE DEF G
  <2>3. \A n \in Nat : n \in G
    BY <2>1, <2>2, Upward
  <2> QED
    BY <1>1, <2>3 DEF G
<1>9. b <= b
  BY <1>1
<1>10. F[a + b] = A[a] \o B[b]
  BY <1>1, <1>8, <1>9, Zenon
<1> QED
  BY <1>f, <1>a, <1>b, <1>10 DEF w

\* One piece, and none.
LEMMA FlattenOne ==
    ASSUME NEW S, NEW x \in Seq(S)
    PROVE  FlattenSeq(<<x>>) = x /\ FlattenSeq(<<>>) = <<>>
<1>1. <<x>> \in Seq(Seq(S)) /\ Len(<<x>>) = 1 /\ <<x>>[1] = x
  OBVIOUS
<1> DEFINE u == <<x>>
<1> HIDE DEF u
<1>2. PICK F : FromPieces(F, u, S)
  BY <1>1, FlattenSteps DEF u
<1>0. Len(u) = 1 /\ 0 < Len(u)
  BY <1>1 DEF u
<1>3. F[0 + 1] = F[0] \o u[0 + 1] /\ F[0] = <<>> /\ FlattenSeq(u) = F[1]
  BY <1>0, <1>2 DEF FromPieces
<1>4. <<>> \o x = x
  BY ConcatEmptySeq
<1>5. FlattenSeq(<<>>) = <<>>
  BY DEF FlattenSeq
<1>6. 0 + 1 = 1 /\ u[1] = x
  BY <1>1 DEF u
<1> QED
  BY <1>3, <1>4, <1>5, <1>6 DEF u

\* Nothing comes in that no piece has.
LEMMA FlattenType ==
    ASSUME NEW S, NEW u \in Seq(Seq(S))
    PROVE  FlattenSeq(u) \in Seq(S)
<1>1. PICK F : FromPieces(F, u, S)
  BY FlattenSteps
<1>2. Len(u) \in Nat /\ Len(u) <= Len(u)
  BY LenProperties
<1> QED
  BY <1>1, <1>2 DEF FromPieces

\* Pieces of one element each, and pieces without any.
LEMMA FlattenSingles ==
    ASSUME NEW S, NEW g \in Seq(S), NEW u, u = [n \in DOMAIN g |-> <<g[n]>>]
    PROVE  FlattenSeq(u) = g
<1>1. Len(g) \in Nat /\ DOMAIN g = 1..Len(g) /\ \A n \in 1..Len(g) : g[n] \in S
  BY LenProperties, ElementOfSeq
<1>2. \A x \in S : <<x>> \in Seq(S)
  OBVIOUS
<1>3. u \in Seq(Seq(S)) /\ Len(u) = Len(g) /\ \A n \in 1..Len(g) : u[n] = <<g[n]>>
  BY <1>1, <1>2
<1>4. PICK F : FromPieces(F, u, S)
  BY <1>3, FlattenSteps
<1>5. /\ F[0] = <<>> /\ FlattenSeq(u) = F[Len(g)]
      /\ \A n \in Nat : n < Len(g) => F[n + 1] = F[n] \o u[n + 1]
  BY <1>3, <1>4 DEF FromPieces
<1> DEFINE G == {n \in Nat : n <= Len(g) => F[n] = SubSeq(g, 1, n)}
<1>6. 0 \in G
  <2>1. 1 \in Int /\ 0 \in Int /\ 0 < 1
    OBVIOUS
  <2>2. SubSeq(g, 1, 0) = <<>>
    BY <2>1, SubSeqEmpty, Zenon
  <2> QED
    BY <1>5, <2>2
<1>7. ASSUME NEW n \in Nat, n \in G PROVE n + 1 \in G
  <2>0. n + 1 \in Nat
    OBVIOUS
  <2> SUFFICES ASSUME n + 1 <= Len(g) PROVE F[n + 1] = SubSeq(g, 1, n + 1)
    BY <2>0, Zenon
  <2>1. n < Len(g) /\ n <= Len(g) /\ n + 1 \in 1..Len(g) /\ 1 \in 1..Len(g) /\ n + 1 \in 1..Len(g)
    BY <1>1
  <2>2. F[n + 1] = F[n] \o <<g[n + 1]>> /\ F[n] = SubSeq(g, 1, n)
    BY <1>3, <1>5, <1>7, <2>1
  <2>3. PICK j \in 1..Len(g) : j = n + 1 /\ j - 1 = n
    BY <2>1
  <2>4. SubSeq(g, 1, j) = SubSeq(g, 1, j - 1) \o <<g[j]>>
    BY <2>1, <2>3, SubSeqRecursiveSecond
  <2> QED
    BY <2>2, <2>3, <2>4
<1>8. \A n \in Nat : n \in G
  <2> HIDE DEF G
  <2> QED
    BY <1>6, <1>7, Upward
<1>9. Len(g) <= Len(g)
  BY <1>1
<1> QED
  BY <1>1, <1>5, <1>8, <1>9, SubSeqFull

LEMMA FlattenNothing ==
    ASSUME NEW S, NEW g \in Seq(S), NEW u, u = [n \in DOMAIN g |-> <<>>]
    PROVE  FlattenSeq(u) = <<>>
<1>1. Len(g) \in Nat /\ DOMAIN g = 1..Len(g) /\ <<>> \in Seq(S)
  BY LenProperties, EmptySeq
<1>3. u \in Seq(Seq(S)) /\ Len(u) = Len(g) /\ \A n \in 1..Len(g) : u[n] = <<>>
  BY <1>1
<1>4. PICK F : FromPieces(F, u, S)
  BY <1>3, FlattenSteps
<1>5. /\ F[0] = <<>> /\ FlattenSeq(u) = F[Len(g)]
      /\ \A n \in Nat : n < Len(g) => F[n + 1] = F[n] \o u[n + 1]
  BY <1>3, <1>4 DEF FromPieces
<1> DEFINE G == {n \in Nat : n <= Len(g) => F[n] = <<>>}
<1>6. 0 \in G
  BY <1>5
<1>7. ASSUME NEW n \in Nat, n \in G PROVE n + 1 \in G
  <2>0. n + 1 \in Nat
    OBVIOUS
  <2> SUFFICES ASSUME n + 1 <= Len(g) PROVE F[n + 1] = <<>>
    BY <2>0, Zenon
  <2>1. n < Len(g) /\ n <= Len(g) /\ n + 1 \in 1..Len(g)
    BY <1>1
  <2>2. F[n + 1] = <<>> \o <<>>
    BY <1>3, <1>5, <1>7, <2>1
  <2> QED
    BY <1>1, <2>2, ConcatEmptySeq
<1>8. \A n \in Nat : n \in G
  <2> HIDE DEF G
  <2> QED
    BY <1>6, <1>7, Upward
<1>9. Len(g) <= Len(g)
  BY <1>1
<1> QED
  BY <1>1, <1>5, <1>8, <1>9

\* The pieces from n on.
Rest(u, n) == FlattenSeq(SubSeq(u, n, Len(u)))

\* The pieces from the first on are all of them; each step down adds one in front.
LEMMA RestSteps ==
    ASSUME NEW S, NEW u \in Seq(Seq(S))
    PROVE  /\ Rest(u, 1) = FlattenSeq(u) /\ Rest(u, Len(u) + 1) = <<>>
           /\ \A n \in 1..Len(u) : Rest(u, n) = u[n] \o Rest(u, n + 1)
           /\ \A n \in 1..(Len(u) + 1) : Rest(u, n) \in Seq(S)
<1>1. Len(u) \in Nat
  BY LenProperties
<1>2. SubSeq(u, 1, Len(u)) = u
  BY SubSeqFull
<1>3. SubSeq(u, Len(u) + 1, Len(u)) = <<>>
  BY <1>1, SubSeqEmpty
<1>4. FlattenSeq(<<>>) = <<>>
  BY DEF FlattenSeq
<1>5. ASSUME NEW n \in 1..(Len(u) + 1) PROVE SubSeq(u, n, Len(u)) \in Seq(Seq(S))
  <2>1. \A i \in n..Len(u) : u[i] \in Seq(S)
    BY <1>1, ElementOfSeq
  <2> QED
    BY <1>1, <2>1, SubSeqProperties
<1>6. ASSUME NEW n \in 1..(Len(u) + 1) PROVE Rest(u, n) \in Seq(S)
  BY <1>5, FlattenType DEF Rest
<1>7. ASSUME NEW n \in 1..Len(u) PROVE Rest(u, n) = u[n] \o Rest(u, n + 1)
  <2>1. Len(u) \in n..Len(u) /\ n + 1 \in 1..(Len(u) + 1) /\ u[n] \in Seq(S)
    BY <1>1, ElementOfSeq
  <2>2. SubSeq(u, n, Len(u)) = <<u[n]>> \o SubSeq(u, n + 1, Len(u))
    BY <2>1, SubSeqRecursiveFirst
  <2>3. SubSeq(u, n + 1, Len(u)) \in Seq(Seq(S)) /\ <<u[n]>> \in Seq(Seq(S))
    BY <1>5, <2>1
  <2>4. FlattenSeq(<<u[n]>> \o SubSeq(u, n + 1, Len(u)))
            = FlattenSeq(<<u[n]>>) \o FlattenSeq(SubSeq(u, n + 1, Len(u)))
    BY <2>3, FlattenConcat
  <2>5. FlattenSeq(<<u[n]>>) = u[n]
    BY <2>1, FlattenOne
  <2> QED
    BY <2>2, <2>4, <2>5 DEF Rest
<1> QED
  BY <1>2, <1>3, <1>4, <1>6, <1>7 DEF Rest

-----------------------------------------------------------------------------
(* The old and the new side of some items.                                 *)

\* What a diff's first characters say, and its items.
Ops == {"keep", "del", "add"}
Items == [op : Ops, line : Letters, eol : BOOLEAN]

\* The pieces a side is made of.
Lines(items, ops) == [i \in DOMAIN items |-> IF items[i].op \in ops THEN <<items[i].line>> ELSE <<>>]

LEMMA LinesType ==
    ASSUME NEW s \in Seq(Items), NEW ops
    PROVE  /\ Lines(s, ops) \in Seq(Seq(Letters)) /\ Len(Lines(s, ops)) = Len(s)
           /\ Side(s, ops) = FlattenSeq(Lines(s, ops))
<1>0. \A i \in 1..Len(s) : s[i] \in Items
  BY ElementOfSeq
<1>1. Len(s) \in Nat /\ DOMAIN s = 1..Len(s) /\ \A i \in 1..Len(s) : s[i].line \in Letters
  BY <1>0, LenProperties DEF Items
<1>2. <<>> \in Seq(Letters) /\ \A l \in Letters : <<l>> \in Seq(Letters)
  BY EmptySeq
<1> QED
  BY <1>1, <1>2 DEF Lines, Side

LEMMA SideType ==
    ASSUME NEW s \in Seq(Items), NEW ops
    PROVE  Side(s, ops) \in Seq(Letters)
BY LinesType, FlattenType

\* Each side of items put together is that of the first, then that of the others.
LEMMA SideConcat ==
    ASSUME NEW s \in Seq(Items), NEW t \in Seq(Items), NEW ops
    PROVE  Side(s \o t, ops) = Side(s, ops) \o Side(t, ops)
<1>1. s \o t \in Seq(Items) /\ Len(s \o t) = Len(s) + Len(t) /\ Len(s) \in Nat /\ Len(t) \in Nat
  BY ConcatProperties, LenProperties
<1>2. \A i \in 1..(Len(s) + Len(t)) : (s \o t)[i] = IF i <= Len(s) THEN s[i] ELSE t[i - Len(s)]
  BY ConcatProperties
<1>3. /\ Lines(s, ops) \in Seq(Seq(Letters)) /\ Lines(t, ops) \in Seq(Seq(Letters))
      /\ Len(Lines(s, ops)) = Len(s) /\ Len(Lines(t, ops)) = Len(t)
      /\ Lines(s \o t, ops) \in Seq(Seq(Letters)) /\ Len(Lines(s \o t, ops)) = Len(s) + Len(t)
  BY <1>1, LinesType
<1>4. Lines(s \o t, ops) = Lines(s, ops) \o Lines(t, ops)
  <2>1. ASSUME NEW i \in 1..(Len(s) + Len(t))
        PROVE  Lines(s \o t, ops)[i] = IF i <= Len(s) THEN Lines(s, ops)[i] ELSE Lines(t, ops)[i - Len(s)]
    <3>1. DOMAIN (s \o t) = 1..(Len(s) + Len(t)) /\ DOMAIN s = 1..Len(s) /\ DOMAIN t = 1..Len(t)
      BY <1>1, LenProperties
    <3>2. i <= Len(s) => i \in 1..Len(s)
      BY <1>1
    <3>3. ~ (i <= Len(s)) => i - Len(s) \in 1..Len(t)
      BY <1>1
    <3> DEFINE w == s \o t
               j == i - Len(s)
    <3>4. w[i] = IF i <= Len(s) THEN s[i] ELSE t[j]
      BY <1>2
    <3> HIDE DEF w, j
    <3>5. Lines(w, ops)[i] = IF w[i].op \in ops THEN <<w[i].line>> ELSE <<>>
      BY <3>1 DEF w, Lines
    <3>6. i <= Len(s) => Lines(s, ops)[i] = IF s[i].op \in ops THEN <<s[i].line>> ELSE <<>>
      BY <3>1, <3>2 DEF Lines
    <3>7. ~ (i <= Len(s)) => Lines(t, ops)[j] = IF t[j].op \in ops THEN <<t[j].line>> ELSE <<>>
      BY <3>1, <3>3 DEF j, Lines
    <3>8. Lines(w, ops)[i] = IF i <= Len(s) THEN Lines(s, ops)[i] ELSE Lines(t, ops)[j]
      BY <3>4, <3>5, <3>6, <3>7
    <3> QED
      BY <3>8 DEF w, j
  <2> DEFINE x == Lines(s \o t, ops)
             y == Lines(s, ops)
             z == Lines(t, ops)
  <2>0. y \in Seq(Seq(Letters)) /\ z \in Seq(Seq(Letters)) /\ Len(y) = Len(s) /\ Len(z) = Len(t)
    BY <1>3
  <2> HIDE DEF x, y, z
  <2>2. /\ y \o z \in Seq(Seq(Letters)) /\ Len(y \o z) = Len(s) + Len(t)
        /\ \A i \in 1..(Len(s) + Len(t)) : (y \o z)[i] = IF i <= Len(s) THEN y[i] ELSE z[i - Len(s)]
    <3>1. /\ y \o z \in Seq(Seq(Letters)) /\ Len(y \o z) = Len(y) + Len(z)
          /\ \A i \in 1..(Len(y) + Len(z)) : (y \o z)[i] = IF i <= Len(y) THEN y[i] ELSE z[i - Len(y)]
      BY <2>0, ConcatProperties
    <3> QED
      BY <2>0, <3>1
  <2>3. \A i \in 1..(Len(s) + Len(t)) : x[i] = (y \o z)[i]
    BY <2>1, <2>2 DEF x, y, z
  <2>4. x \in Seq(Seq(Letters)) /\ Len(x) = Len(s) + Len(t)
    BY <1>3 DEF x
  <2>5. x = y \o z
    BY <2>2, <2>3, <2>4, SeqEqual
  <2> QED
    BY <2>5 DEF x, y, z
<1>5. /\ Side(s \o t, ops) = FlattenSeq(Lines(s \o t, ops))
      /\ Side(s, ops) = FlattenSeq(Lines(s, ops)) /\ Side(t, ops) = FlattenSeq(Lines(t, ops))
  BY <1>1, LinesType
<1>6. FlattenSeq(Lines(s, ops) \o Lines(t, ops)) = FlattenSeq(Lines(s, ops)) \o FlattenSeq(Lines(t, ops))
  BY <1>3, FlattenConcat
<1> QED
  BY <1>4, <1>5, <1>6

LEMMA SideOne ==
    ASSUME NEW x \in Items, NEW ops
    PROVE  Side(<<x>>, ops) = IF x.op \in ops THEN <<x.line>> ELSE <<>>
<1>1. <<x>> \in Seq(Items) /\ DOMAIN <<x>> = 1..1 /\ <<x>>[1] = x
  OBVIOUS
<1> DEFINE l == IF x.op \in ops THEN <<x.line>> ELSE <<>>
<1>2. l \in Seq(Letters)
  BY EmptySeq DEF Items
<1>3. Lines(<<x>>, ops) = [i \in 1..1 |-> l]
  BY <1>1 DEF Lines
<1> HIDE DEF l
<1>4. [i \in 1..1 |-> l] = <<l>>
  OBVIOUS
<1>5. FlattenSeq(<<l>>) = l
  BY <1>2, FlattenOne
<1>6. Side(<<x>>, ops) = l
  BY <1>1, <1>3, <1>4, <1>5, LinesType
<1> QED
  BY <1>6 DEF l

LEMMA SideEmpty == \A ops : Side(<<>>, ops) = <<>>
<1>1. SUFFICES ASSUME NEW ops PROVE Side(<<>>, ops) = <<>>
  OBVIOUS
<1>2. <<>> \in Seq(Items)
  BY EmptySeq
<1>3. Lines(<<>>, ops) = <<>>
  BY DEF Lines
<1> QED
  BY <1>2, <1>3, LinesType, FlattenOne DEF FlattenSeq

-----------------------------------------------------------------------------
(* Hunks applied one after the other, the last one first.                  *)

\* F[n] is what the last n hunks make of the lines.
Turns(F, lines, hunks) ==
    /\ F[0] = [ok |-> TRUE, lines |-> lines]
    /\ \A n \in Nat : n < Len(hunks) => F[n + 1] = Applied(F[n], hunks[Len(hunks) - n])
    /\ ApplyHunks(lines, hunks) = F[Len(hunks)]

LEMMA HunksSteps ==
    ASSUME NEW S, NEW hunks \in Seq(S), NEW lines
    PROVE  \E F : Turns(F, lines, hunks)
<1> DEFINE len == Len(hunks)
           base == [ok |-> TRUE, lines |-> lines]
           D(x, k) == Applied(x, hunks[len - k + 1])
           Good(n, g) == /\ g = [k \in 0..n |-> g[k]]
                         /\ \A k \in 0..n : g[k] = IF k = 0 THEN base ELSE D(g[k - 1], k)
           G == {n \in Nat : n <= len => \E g : Good(n, g)}
           Fix(f) == f = [k \in 0..len |-> IF k = 0 THEN base ELSE D(f[k - 1], k)]
           R == CHOOSE f : Fix(f)
<1>1. len \in Nat
  BY LenProperties
<1>2. ApplyHunks(lines, hunks) = R[len]
  BY DEF ApplyHunks
<1>d. ASSUME NEW n \in Nat, NEW x PROVE D(x, n + 1) = Applied(x, hunks[len - n])
  <2>1. len - (n + 1) + 1 = len - n
    BY <1>1
  <2> QED
    BY <2>1
<1> HIDE DEF len, base, D
<1>3. 0 \in G
  <2>1. Good(0, [k \in 0..0 |-> base])
    OBVIOUS
  <2> QED
    BY <2>1
<1>4. ASSUME NEW n \in Nat, n \in G PROVE n + 1 \in G
  <2>a. n + 1 \in Nat
    OBVIOUS
  <2> SUFFICES ASSUME n + 1 <= len PROVE \E g : Good(n + 1, g)
    BY <2>a, Zenon
  <2>0. n <= len
    BY <1>1
  <2>1. PICK g : Good(n, g)
    BY <2>0, <1>4
  <2> DEFINE f == [k \in 0..(n + 1) |-> IF k <= n THEN g[k] ELSE D(g[k - 1], k)]
  <2>2. ASSUME NEW k \in 0..(n + 1) PROVE f[k] = IF k = 0 THEN base ELSE D(f[k - 1], k)
    <3>1. k # 0 => k - 1 \in 0..n /\ k - 1 \in 0..(n + 1) /\ k - 1 <= n
      OBVIOUS
    <3>2. k # 0 => f[k - 1] = g[k - 1]
      BY <3>1
    <3>3. CASE k <= n
      <4>1. k \in 0..n /\ f[k] = g[k]
        BY <3>3
      <4>2. g[k] = IF k = 0 THEN base ELSE D(g[k - 1], k)
        BY <2>1, <4>1
      <4> HIDE DEF f
      <4> QED
        BY <3>2, <4>1, <4>2
    <3>4. CASE ~ (k <= n)
      <4>1. f[k] = D(g[k - 1], k) /\ k # 0
        BY <3>4
      <4> HIDE DEF f
      <4> QED
        BY <3>2, <4>1
    <3> QED
      BY <3>3, <3>4
  <2>3. f = [k \in 0..(n + 1) |-> f[k]]
    OBVIOUS
  <2> HIDE DEF f
  <2>4. Good(n + 1, f)
    BY <2>2, <2>3
  <2> HIDE DEF Good
  <2> QED
    BY <2>4
<1>5. len \in G
  <2> HIDE DEF G
  <2> QED
    BY <1>1, <1>3, <1>4, Upward
<1>6. Fix(R)
  <2>0. len <= len
    BY <1>1
  <2>1. PICK g : Good(len, g)
    BY <1>1, <1>5, <2>0
  <2>2. Fix(g)
    BY <2>1
  <2> HIDE DEF Fix
  <2> QED
    BY <2>2
<1> HIDE DEF R, G
<1>7. \A k \in 0..len : R[k] = IF k = 0 THEN base ELSE D(R[k - 1], k)
  BY <1>6
<1>8. R[0] = base
  BY <1>1, <1>7
<1>9. ASSUME NEW n \in Nat, n < len PROVE R[n + 1] = Applied(R[n], hunks[len - n])
  <2>1. PICK j \in 0..len : j = n + 1 /\ j - 1 = n /\ j # 0
    BY <1>1, <1>9
  <2>2. R[j] = D(R[j - 1], j)
    BY <1>7, <2>1
  <2>3. R[j] = D(R[n], n + 1)
    BY <2>1, <2>2
  <2> QED
    BY <1>d, <2>1, <2>3
<1>10. Turns(R, lines, hunks)
  BY <1>2, <1>8, <1>9 DEF Turns, len, base
<1> QED
  BY <1>10

\* No hunk changes nothing; a first hunk comes after all the others.
LEMMA ApplyNone == \A lines : ApplyHunks(lines, <<>>) = [ok |-> TRUE, lines |-> lines]
<1> SUFFICES ASSUME NEW lines PROVE ApplyHunks(lines, <<>>) = [ok |-> TRUE, lines |-> lines]
  OBVIOUS
<1>1. <<>> \in Seq({}) /\ Len(<<>>) = 0
  BY EmptySeq
<1>2. PICK F : Turns(F, lines, <<>>)
  BY <1>1, HunksSteps
<1> QED
  BY <1>1, <1>2 DEF Turns

LEMMA ApplyCons ==
    ASSUME NEW S, NEW h \in S, NEW rest \in Seq(S), NEW lines
    PROVE  ApplyHunks(lines, <<h>> \o rest) = Applied(ApplyHunks(lines, rest), h)
<1> DEFINE all == <<h>> \o rest
           len == Len(rest)
<1>1. <<h>> \in Seq(S) /\ Len(<<h>>) = 1 /\ <<h>>[1] = h /\ len \in Nat
  BY LenProperties
<1>2. /\ all \in Seq(S) /\ Len(all) = len + 1
      /\ \A i \in 1..(len + 1) : all[i] = IF i <= 1 THEN h ELSE rest[i - 1]
  <2>1. /\ all \in Seq(S) /\ Len(all) = Len(<<h>>) + len
        /\ \A i \in 1..(Len(<<h>>) + len) :
              all[i] = IF i <= Len(<<h>>) THEN <<h>>[i] ELSE rest[i - Len(<<h>>)]
    BY <1>1, ConcatProperties
  <2> HIDE DEF all, len
  <2> QED
    BY <1>1, <2>1
<1> HIDE DEF all
<1>3. PICK F : Turns(F, lines, all)
  BY <1>2, HunksSteps
<1>4. PICK A : Turns(A, lines, rest)
  BY HunksSteps
<1>5. /\ F[0] = [ok |-> TRUE, lines |-> lines] /\ ApplyHunks(lines, all) = F[len + 1]
      /\ \A n \in Nat : n < len + 1 => F[n + 1] = Applied(F[n], all[len + 1 - n])
  BY <1>2, <1>3 DEF Turns
<1>6. /\ A[0] = [ok |-> TRUE, lines |-> lines] /\ ApplyHunks(lines, rest) = A[len]
      /\ \A n \in Nat : n < len => A[n + 1] = Applied(A[n], rest[len - n])
  BY <1>4 DEF Turns
<1> HIDE DEF len
<1> DEFINE G == {n \in Nat : n <= len => F[n] = A[n]}
<1>7. 0 \in G
  BY <1>5, <1>6
<1>8. ASSUME NEW n \in Nat, n \in G PROVE n + 1 \in G
  <2>a. n + 1 \in Nat
    OBVIOUS
  <2> SUFFICES ASSUME n + 1 <= len PROVE F[n + 1] = A[n + 1]
    BY <2>a, Zenon
  <2>1. n < len /\ n <= len /\ n < len + 1
    BY <1>1
  <2>2. PICK j \in 1..(len + 1) : j = len + 1 - n /\ j - 1 = len - n /\ ~ (j <= 1)
    BY <1>1
  <2>3. all[j] = rest[j - 1]
    BY <1>2, <2>2
  <2>4. F[n + 1] = Applied(F[n], all[j])
    BY <1>5, <2>1, <2>2
  <2>5. A[n + 1] = Applied(A[n], rest[j - 1])
    BY <1>6, <2>1, <2>2
  <2>6. F[n] = A[n]
    BY <1>8, <2>1
  <2> QED
    BY <2>3, <2>4, <2>5, <2>6
<1>9. \A n \in Nat : n \in G
  <2> HIDE DEF G
  <2> QED
    BY <1>7, <1>8, Upward
<1>10. F[len] = A[len]
  <2>1. len <= len
    BY <1>1
  <2> QED
    BY <1>1, <1>9, <2>1
<1>11. F[len + 1] = Applied(F[len], all[1])
  <2>1. len < len + 1 /\ len + 1 - len = 1
    BY <1>1
  <2> QED
    BY <1>1, <1>5, <2>1
<1>12. all[1] = h
  BY <1>1, <1>2
<1> QED
  BY <1>5, <1>6, <1>10, <1>11, <1>12 DEF all

LEMMA Ends ==
    ASSUME NEW S, NEW s \in Seq(S), NEW t \in Seq(S)
    PROVE  SubSeq(s \o t, 1, Len(s)) = s /\ SubSeq(s \o t, Len(s) + 1, Len(s) + Len(t)) = t
<1> DEFINE a == Len(s)
           b == Len(t)
           w == s \o t
<1>1. a \in Nat /\ b \in Nat
  BY LenProperties
<1>2. (a = 0 => s = <<>>) /\ (b = 0 => t = <<>>)
  BY EmptySeq
<1>3. SubSeq(s, 1, a) = s /\ SubSeq(t, 1, b) = t
  BY SubSeqFull
<1>4. SubSeq(w, 1, a) = s
  <2>1. CASE a = 0
    <3>1. 1 \in Int /\ a \in Int /\ a < 1
      BY <2>1
    <3>2. SubSeq(w, 1, a) = <<>>
      BY <3>1, SubSeqEmpty, Zenon
    <3> QED
      BY <1>2, <2>1, <3>2
  <2>2. CASE a # 0
    <3>1. 1 \in 1..a /\ a \in 1..a
      BY <1>1, <2>2
    <3>2. SubSeq(w, 1, a) = SubSeq(s, 1, a)
      BY <3>1, SubSeqOfConcat1
    <3> QED
      BY <1>3, <3>2
  <2> QED
    BY <2>1, <2>2
<1>5. SubSeq(w, a + 1, a + b) = t
  <2>1. CASE b = 0
    <3>1. a + 1 \in Int /\ a + b \in Int /\ a + b < a + 1
      BY <1>1, <2>1
    <3>2. SubSeq(w, a + 1, a + b) = <<>>
      BY <3>1, SubSeqEmpty, Zenon
    <3> QED
      BY <1>2, <2>1, <3>2
  <2>2. CASE b # 0
    <3>1. a + 1 \in (a + 1)..(a + b) /\ a + b \in (a + 1)..(a + b) /\ a + 1 - a = 1 /\ a + b - a = b
      BY <1>1, <2>2
    <3>2. SubSeq(w, a + 1, a + b) = SubSeq(t, a + 1 - a, a + b - a)
      BY <3>1, SubSeqOfConcat2
    <3> QED
      BY <1>3, <3>1, <3>2
  <2> QED
    BY <2>1, <2>2
<1> QED
  BY <1>4, <1>5

\* A hunk whose old lines are there, between A and C.
LEMMA Spliced ==
    ASSUME NEW A \in Seq(Letters), NEW C \in Seq(Letters), NEW h,
           Old(h.body) \in Seq(Letters), StartIdx(h) = Len(A)
    PROVE  /\ HunkFits((A \o Old(h.body)) \o C, h)
           /\ ApplyHunk((A \o Old(h.body)) \o C, h) = (A \o New(h.body)) \o C
<1> DEFINE B == Old(h.body)
           M == New(h.body)
           lines == (A \o B) \o C
<1>0. B = Old(h.body) /\ M = New(h.body) /\ lines = (A \o B) \o C /\ B \in Seq(Letters)
  OBVIOUS
<1> SUFFICES HunkFits(lines, h) /\ ApplyHunk(lines, h) = (A \o M) \o C
  OBVIOUS
<1> HIDE DEF B, M, lines
<1> DEFINE a == Len(A)
           b == Len(B)
           c == Len(C)
           AB == A \o B
           BC == B \o C
<1>1. a \in Nat /\ b \in Nat /\ c \in Nat /\ DOMAIN B = 1..b
  BY <1>0, LenProperties
<1>2. /\ AB \in Seq(Letters) /\ Len(AB) = a + b
      /\ \A i \in 1..(a + b) : AB[i] = IF i <= a THEN A[i] ELSE B[i - a]
  BY <1>0, ConcatProperties
<1>3. BC \in Seq(Letters) /\ lines = A \o BC
  <2>1. BC \in Seq(Letters)
    BY <1>0, ConcatProperties
  <2>2. (A \o B) \o C = A \o (B \o C)
    <3>1. Associates(Letters)
      BY Associative
    <3> QED
      BY <1>0, <3>1 DEF Associates
  <2> QED
    BY <1>0, <2>1, <2>2
<1>4. lines = AB \o C
  BY <1>0
<1>5. Len(lines) = (a + b) + c
  <2> HIDE DEF AB
  <2>1. Len(AB \o C) = Len(AB) + Len(C)
    BY <1>2, ConcatProperties
  <2> QED
    BY <1>2, <1>4, <2>1
<1>6. \A i \in 1..(a + b) : lines[i] = AB[i]
  <2> HIDE DEF AB
  <2>1. \A i \in 1..(Len(AB) + Len(C)) : (AB \o C)[i] = IF i <= Len(AB) THEN AB[i] ELSE C[i - Len(AB)]
    BY <1>2, ConcatProperties
  <2> HIDE DEF a, b
  <2>2. ASSUME NEW i \in 1..(a + b) PROVE lines[i] = AB[i]
    <3>1. i \in 1..(Len(AB) + Len(C)) /\ i <= Len(AB)
      BY <1>1, <1>2 DEF c
    <3> QED
      BY <1>4, <2>1, <3>1
  <2> QED
    BY <2>2
<1>7. SubSeq(lines, 1, a) = A
  <2> HIDE DEF BC
  <2> QED
    BY <1>3, Ends
<1>8. SubSeq(lines, a + b + 1, Len(lines)) = C
  <2> HIDE DEF AB, a, b, c
  <2>1. SubSeq(AB \o C, Len(AB) + 1, Len(AB) + Len(C)) = C
    BY <1>2, Ends
  <2> QED
    BY <1>2, <1>4, <1>5, <2>1 DEF c
<1> HIDE DEF AB, BC, a, b, c
<1>9. HunkFits(lines, h)
  <2>1. StartIdx(h) = a /\ Len(Old(h.body)) = b /\ DOMAIN Old(h.body) = 1..b
    BY <1>0, <1>1 DEF a, b
  <2>2. ASSUME NEW i \in 1..b PROVE lines[a + i] = B[i]
    <3> DEFINE j == a + i
    <3>1. j \in 1..(a + b) /\ ~ (j <= a) /\ j - a = i
      BY <1>1
    <3> HIDE DEF j
    <3>2. lines[j] = AB[j] /\ AB[j] = B[j - a]
      BY <1>2, <1>6, <3>1
    <3>3. lines[j] = B[i]
      BY <3>1, <3>2
    <3> QED
      BY <3>3 DEF j
  <2>3. a + b <= Len(lines)
    BY <1>1, <1>5
  <2> QED
    BY <1>0, <2>1, <2>2, <2>3 DEF HunkFits
<1>10. ApplyHunk(lines, h) = SubSeq(lines, 1, a) \o M \o SubSeq(lines, a + b + 1, Len(lines))
  BY <1>0 DEF ApplyHunk, a, b
<1> QED
  BY <1>7, <1>8, <1>9, <1>10

-----------------------------------------------------------------------------
(* The hunks of a script.                                                  *)

\* The parts of RawHunks: the items within the context of a change, where a run of
\* them ends, the hunk of a run, and what starts at each item.
Shown(s, c) == {i \in DOMAIN s : \E k \in DOMAIN s : s[k].op # "keep" /\ i <= k + c /\ k <= i + c}

EndOf(s, c, i) == CHOOSE k \in i..Len(s) : i..k \subseteq Shown(s, c) /\ k + 1 \notin Shown(s, c)

HunkOf(items, before) ==
    [old_start |-> Len(Old(before)) + (IF Old(items) = <<>> THEN 0 ELSE 1), items |-> items]

Pieces(s, c) ==
    [n \in DOMAIN s |-> IF n \in Shown(s, c) /\ n - 1 \notin Shown(s, c)
                        THEN <<HunkOf(SubSeq(s, n, EndOf(s, c, n)), SubSeq(s, 1, n - 1))>> ELSE <<>>]

LEMMA HunksAre == \A s, c : RawHunks(s, c) = FlattenSeq(Pieces(s, c))
BY DEF RawHunks, Pieces, HunkOf, EndOf, Shown

\* Hunks of the items E.
Raws(E) == [old_start : Nat, items : Seq(E)]

LEMMA ShownWithin ==
    ASSUME NEW s \in Seq(Items), NEW c
    PROVE  /\ Shown(s, c) \subseteq 1..Len(s) /\ 0 \notin Shown(s, c) /\ Len(s) + 1 \notin Shown(s, c)
           /\ Len(s) \in Nat /\ DOMAIN s = 1..Len(s)
<1>1. Len(s) \in Nat /\ DOMAIN s = 1..Len(s)
  BY LenProperties
<1>2. Shown(s, c) \subseteq 1..Len(s)
  BY <1>1 DEF Shown
<1>3. 0 \notin 1..Len(s) /\ Len(s) + 1 \notin 1..Len(s)
  BY <1>1
<1> QED
  BY <1>1, <1>2, <1>3

\* A run of lines that are shown ends.
LEMMA EndIs ==
    ASSUME NEW s \in Seq(Items), NEW c, NEW n \in Shown(s, c)
    PROVE  /\ EndOf(s, c, n) \in n..Len(s) /\ n \in 1..Len(s)
           /\ n..EndOf(s, c, n) \subseteq Shown(s, c) /\ EndOf(s, c, n) + 1 \notin Shown(s, c)
<1> DEFINE U == Shown(s, c)
           N == Len(s)
           S == {k \in Nat : k >= n /\ k + 1 \notin U}
<1>1. U \subseteq 1..N /\ N + 1 \notin U /\ N \in Nat /\ n \in 1..N
  BY ShownWithin
<1>0. EndOf(s, c, n) = CHOOSE k \in n..N : n..k \subseteq U /\ k + 1 \notin U
  BY DEF EndOf
<1> HIDE DEF U, N
<1>2. N \in S
  BY <1>1
<1>3. PICK k \in S : \A j \in S : k <= j
  <2>1. S \in SUBSET Nat /\ S # {}
    BY <1>2
  <2> QED
    BY <2>1, LeastNumber
<1>4. k \in n..N /\ k + 1 \notin U /\ k \in Nat
  BY <1>1, <1>2, <1>3
<1>5. ASSUME NEW j \in n..k PROVE j \in U
  <2>1. CASE j = n
    BY <2>1 DEF U
  <2>2. CASE j # n
    <3>1. j - 1 \in Nat /\ j - 1 >= n /\ j - 1 < k /\ (j - 1) + 1 = j
      BY <1>1, <1>4, <2>2
    <3>2. j - 1 \notin S
      <4> HIDE DEF S
      <4>1. j - 1 \in S => k <= j - 1
        BY <1>3
      <4> QED
        BY <1>4, <3>1, <4>1
    <3>3. (j - 1) + 1 \in U
      BY <3>1, <3>2
    <3> QED
      BY <3>1, <3>3
  <2> QED
    BY <2>1, <2>2
<1>6. n..k \subseteq U
  BY <1>5
<1> HIDE DEF S
<1>7. EndOf(s, c, n) \in n..N /\ n..EndOf(s, c, n) \subseteq U /\ EndOf(s, c, n) + 1 \notin U
  BY <1>0, <1>4, <1>6
<1> QED
  BY <1>1, <1>7 DEF U, N

LEMMA SliceType ==
    ASSUME NEW S, NEW s \in Seq(S), NEW m \in Nat \ {0}, NEW n \in Nat, n <= Len(s)
    PROVE  SubSeq(s, m, n) \in Seq(S)
<1>1. \A i \in m..n : i \in 1..Len(s)
  BY LenProperties
<1>2. \A i \in m..n : s[i] \in S
  BY <1>1, ElementOfSeq
<1> QED
  BY <1>2, SubSeqProperties

LEMMA OldNewType ==
    ASSUME NEW s \in Seq(Items)
    PROVE  Old(s) \in Seq(Letters) /\ New(s) \in Seq(Letters) /\ Len(Old(s)) \in Nat
<1>1. Old(s) \in Seq(Letters) /\ New(s) \in Seq(Letters)
  BY SideType DEF Old, New
<1> QED
  BY <1>1, LenProperties

LEMMA OldNewConcat ==
    ASSUME NEW s \in Seq(Items), NEW t \in Seq(Items)
    PROVE  Old(s \o t) = Old(s) \o Old(t) /\ New(s \o t) = New(s) \o New(t)
BY SideConcat DEF Old, New

LEMMA PiecesType ==
    ASSUME NEW E \in SUBSET Items, NEW s \in Seq(E), NEW c
    PROVE  /\ Pieces(s, c) \in Seq(Seq(Raws(E))) /\ Len(Pieces(s, c)) = Len(s)
           /\ RawHunks(s, c) \in Seq(Raws(E))
<1>1. s \in Seq(Items)
  BY SeqMonotonic
<1>2. Len(s) \in Nat /\ DOMAIN s = 1..Len(s) /\ <<>> \in Seq(Raws(E))
  BY LenProperties, EmptySeq
<1>3. ASSUME NEW n \in 1..Len(s), n \in Shown(s, c)
      PROVE  <<HunkOf(SubSeq(s, n, EndOf(s, c, n)), SubSeq(s, 1, n - 1))>> \in Seq(Raws(E))
  <2> DEFINE e == EndOf(s, c, n)
             items == SubSeq(s, n, e)
             before == SubSeq(s, 1, n - 1)
  <2>1. e \in n..Len(s)
    BY <1>1, <1>3, EndIs
  <2> HIDE DEF e
  <2>2. n \in Nat \ {0} /\ e \in Nat /\ e <= Len(s) /\ n - 1 \in Nat /\ n - 1 <= Len(s) /\ 1 \in Nat \ {0}
    BY <1>2, <2>1
  <2>3. items \in Seq(E)
    BY <2>2, SliceType
  <2>4. before \in Seq(Items)
    BY <1>1, <2>2, SliceType
  <2> HIDE DEF items, before
  <2>5. Len(Old(before)) \in Nat
    BY <2>4, OldNewType
  <2>6. HunkOf(items, before) \in Raws(E)
    BY <2>3, <2>5 DEF HunkOf, Raws
  <2> QED
    BY <2>6 DEF items, before, e
<1>4. \A n \in 1..Len(s) : Pieces(s, c)[n] \in Seq(Raws(E))
  BY <1>2, <1>3 DEF Pieces
<1>5. Pieces(s, c) = [n \in 1..Len(s) |-> Pieces(s, c)[n]]
  BY <1>2 DEF Pieces
<1>6. Pieces(s, c) \in Seq(Seq(Raws(E))) /\ Len(Pieces(s, c)) = Len(s)
  BY <1>2, <1>4, <1>5
<1> QED
  BY <1>6, HunksAre, FlattenType

\* The lines once the hunks from the n-th item on are applied.
Halfway(s, n) == Old(SubSeq(s, 1, n - 1)) \o New(SubSeq(s, n, Len(s)))

\* An insertion shows a line around it, or is at the top.
Fit(h) == h.old_start = 0 \/ Old(h.items) # <<>>

\* A line that is kept is the same on both sides: no hunk need have it.
LEMMA Kept ==
    ASSUME NEW s \in Seq(Items), NEW n \in 1..Len(s), s[n].op = "keep"
    PROVE  Halfway(s, n + 1) = Halfway(s, n)
<1> DEFINE A == SubSeq(s, 1, n - 1)
           C == SubSeq(s, n + 1, Len(s))
           x == s[n]
           l == s[n].line
<1>1. Len(s) \in Nat /\ x \in Items /\ x.op = "keep"
  BY LenProperties, ElementOfSeq
<1>2. A \in Seq(Items) /\ C \in Seq(Items) /\ <<x>> \in Seq(Items)
  <2>1. n + 1 \in Nat \ {0} /\ n - 1 \in Nat /\ n - 1 <= Len(s) /\ Len(s) <= Len(s) /\ 1 \in Nat \ {0}
    BY <1>1
  <2>2. A \in Seq(Items)
    BY <2>1, SliceType
  <2>3. C \in Seq(Items)
    BY <1>1, <2>1, SliceType
  <2> QED
    BY <1>1, <2>2, <2>3
<1>3. SubSeq(s, 1, n) = A \o <<x>>
  <2>1. 1 \in 1..Len(s) /\ n \in 1..Len(s)
    BY <1>1
  <2> QED
    BY <2>1, SubSeqRecursiveSecond
<1>4. SubSeq(s, n, Len(s)) = <<x>> \o C
  <2>1. Len(s) \in n..Len(s)
    BY <1>1
  <2> QED
    BY <2>1, SubSeqRecursiveFirst
<1>5. Old(<<x>>) = <<l>> /\ New(<<x>>) = <<l>> /\ <<l>> \in Seq(Letters)
  <2>1. l \in Letters
    BY <1>1 DEF Items
  <2>2. \A ops : Side(<<x>>, ops) = IF x.op \in ops THEN <<x.line>> ELSE <<>>
    BY <1>1, SideOne
  <2> HIDE DEF x
  <2>3. Old(<<x>>) = <<x.line>> /\ New(<<x>>) = <<x.line>>
    BY <1>1, <2>2 DEF Old, New
  <2> QED
    BY <2>1, <2>3 DEF x
<1> DEFINE k == n + 1
<1>6. k - 1 = n
  OBVIOUS
<1> HIDE DEF A, C, x, l, k
<1>7. Old(A \o <<x>>) = Old(A) \o <<l>> /\ New(<<x>> \o C) = <<l>> \o New(C)
  <2>1. Old(<<x>>) = <<l>> /\ New(<<x>>) = <<l>>
    BY <1>5
  <2> DEFINE X == <<x>>
  <2>2. X \in Seq(Items)
    BY <1>2
  <2> HIDE DEF X
  <2>3. Old(A \o X) = Old(A) \o Old(X) /\ New(X \o C) = New(X) \o New(C)
    BY <1>2, <2>2, OldNewConcat
  <2> QED
    BY <2>1, <2>3 DEF X
<1>8. Old(A) \in Seq(Letters) /\ New(C) \in Seq(Letters)
  BY <1>2, OldNewType
<1>9. (Old(A) \o <<l>>) \o New(C) = Old(A) \o (<<l>> \o New(C))
  <2>1. <<l>> \in Seq(Letters)
    BY <1>5
  <2>2. Associates(Letters)
    BY Associative
  <2> QED
    BY <1>8, <2>1, <2>2 DEF Associates
<1>10. Halfway(s, n) = Old(A) \o New(<<x>> \o C)
  BY <1>4 DEF Halfway, A
<1>11. Halfway(s, k) = Old(SubSeq(s, 1, k - 1)) \o New(SubSeq(s, k, Len(s)))
  BY DEF Halfway
<1>12. SubSeq(s, k, Len(s)) = C
  BY DEF C, k
<1>13. Halfway(s, k) = Old(A \o <<x>>) \o New(C)
  BY <1>3, <1>6, <1>11, <1>12
<1>14. Halfway(s, k) = Halfway(s, n)
  BY <1>7, <1>9, <1>10, <1>13
<1> QED
  BY <1>14 DEF k

\* The hunk of the items n to e finds its old lines where its header says, once all
\* the hunks behind it are applied, and leaves its new ones.
LEMMA HunkLands ==
    ASSUME NEW s \in Seq(Items), NEW n \in 1..Len(s), NEW e \in n..Len(s), NEW h,
           h = HunkOf(SubSeq(s, n, e), SubSeq(s, 1, n - 1)), Fit(h)
    PROVE  Applied([ok |-> TRUE, lines |-> Halfway(s, e + 1)], ParseHunk(h))
               = [ok |-> TRUE, lines |-> Halfway(s, n)]
<1> DEFINE X == SubSeq(s, 1, n - 1)
           Y == SubSeq(s, n, e)
           Z == SubSeq(s, e + 1, Len(s))
           A == Old(X)
           B == Old(Y)
           M == New(Y)
           C == New(Z)
           g == ParseHunk(h)
<1>1. Len(s) \in Nat
  BY LenProperties
<1>2. X \in Seq(Items) /\ Y \in Seq(Items) /\ Z \in Seq(Items)
  <2>1. /\ n - 1 \in Nat /\ n - 1 <= Len(s) /\ 1 \in Nat \ {0} /\ n \in Nat \ {0}
        /\ e \in Nat /\ e <= Len(s) /\ e + 1 \in Nat \ {0} /\ Len(s) <= Len(s)
    BY <1>1
  <2>2. X \in Seq(Items)
    BY <2>1, SliceType
  <2>3. Y \in Seq(Items)
    BY <2>1, SliceType
  <2>4. Z \in Seq(Items)
    BY <1>1, <2>1, SliceType
  <2> QED
    BY <2>2, <2>3, <2>4
<1>3. SubSeq(s, 1, e) = X \o Y
  <2> DEFINE k == n - 1
  <2>1. /\ 1 \in 1..(Len(s) + 1) /\ k \in (1 - 1)..Len(s) /\ e \in k..Len(s) /\ k + 1 = n
    BY <1>1
  <2> HIDE DEF k
  <2>2. SubSeq(s, 1, k) \o SubSeq(s, k + 1, e) = SubSeq(s, 1, e)
    BY <2>1, ConcatAdjacentSubSeq
  <2> QED
    BY <2>1, <2>2 DEF k
<1>4. SubSeq(s, n, Len(s)) = Y \o Z
  <2>1. /\ n \in 1..(Len(s) + 1) /\ e \in (n - 1)..Len(s) /\ Len(s) \in e..Len(s)
    BY <1>1
  <2> QED
    BY <2>1, ConcatAdjacentSubSeq
<1> DEFINE k == e + 1
<1>5. k - 1 = e
  BY <1>1
<1>6. A \in Seq(Letters) /\ B \in Seq(Letters) /\ M \in Seq(Letters) /\ C \in Seq(Letters) /\ Len(A) \in Nat
  BY <1>2, OldNewType
<1>7. h.items = Y /\ h.old_start = Len(A) + (IF B = <<>> THEN 0 ELSE 1)
  BY DEF HunkOf
<1>8. g.body = Y /\ g.old_start = h.old_start
  BY <1>7 DEF ParseHunk
<1> HIDE DEF X, Y, Z, g, k
<1>9. Old(X \o Y) = A \o B /\ New(Y \o Z) = M \o C
  BY <1>2, OldNewConcat
<1>10. Halfway(s, n) = A \o (M \o C)
  BY <1>4, <1>9 DEF Halfway, X
<1>11. Halfway(s, k) = (A \o B) \o C
  <2>1. Halfway(s, k) = Old(SubSeq(s, 1, k - 1)) \o New(SubSeq(s, k, Len(s)))
    BY DEF Halfway
  <2>2. SubSeq(s, k, Len(s)) = Z
    BY DEF Z, k
  <2> QED
    BY <1>3, <1>5, <1>9, <2>1, <2>2
<1> HIDE DEF A, C
<1>12. StartIdx(g) = Len(A)
  <2>1. CASE B = <<>>
    <3>1. h.old_start = 0 /\ Len(A) = 0
      BY <1>6, <1>7, <2>1 DEF Fit
    <3> QED
      BY <1>8, <3>1 DEF StartIdx
  <2>2. CASE B # <<>>
    <3>1. h.old_start = Len(A) + 1
      BY <1>7, <2>2
    <3> QED
      BY <1>6, <1>8, <3>1 DEF StartIdx
  <2> QED
    BY <2>1, <2>2
<1>13. Old(g.body) = B /\ New(g.body) = M
  BY <1>8
<1> HIDE DEF B, M
<1>a. A \in Seq(Letters) /\ B \in Seq(Letters) /\ C \in Seq(Letters)
  BY <1>6
<1>b. A \in Seq(Letters) /\ M \in Seq(Letters) /\ C \in Seq(Letters)
  BY <1>6
<1>14. /\ HunkFits((A \o B) \o C, g)
       /\ ApplyHunk((A \o B) \o C, g) = (A \o M) \o C
  <2>1. Old(g.body) \in Seq(Letters)
    BY <1>a, <1>13
  <2>2. /\ HunkFits((A \o Old(g.body)) \o C, g)
        /\ ApplyHunk((A \o Old(g.body)) \o C, g) = (A \o New(g.body)) \o C
    BY <1>a, <1>12, <2>1, Spliced
  <2> QED
    BY <1>13, <2>2
<1>15. (A \o M) \o C = A \o (M \o C)
  <2>1. Associates(Letters)
    BY Associative
  <2> QED
    BY <1>b, <2>1 DEF Associates
<1>16. Applied([ok |-> TRUE, lines |-> (A \o B) \o C], g) = [ok |-> TRUE, lines |-> (A \o M) \o C]
  BY <1>14 DEF Applied
<1> QED
  BY <1>10, <1>11, <1>15, <1>16 DEF g, k

\* The hunks as the engine reads them.
Parsed(raws) == [i \in DOMAIN raws |-> ParseHunk(raws[i])]
AllFit(raws) == \A i \in DOMAIN raws : Fit(raws[i])

LEMMA ParsedCons ==
    ASSUME NEW r \in Raws(Items), NEW raws \in Seq(Raws(Items))
    PROVE  /\ Parsed(<<r>> \o raws) = <<ParseHunk(r)>> \o Parsed(raws)
           /\ AllFit(<<r>> \o raws) => Fit(r) /\ AllFit(raws)
           /\ Parsed(raws) \in Seq({ParseHunk(x) : x \in Raws(Items)})
<1> DEFINE all == <<r>> \o raws
           len == Len(raws)
           H == {ParseHunk(x) : x \in Raws(Items)}
           g == ParseHunk(r)
           ps == Parsed(raws)
<1>1. len \in Nat /\ DOMAIN raws = 1..len /\ \A i \in 1..len : raws[i] \in Raws(Items)
  BY LenProperties, ElementOfSeq
<1>2. /\ all \in Seq(Raws(Items)) /\ Len(all) = 1 + len /\ DOMAIN all = 1..(1 + len)
      /\ \A i \in 1..(1 + len) : all[i] = IF i <= 1 THEN r ELSE raws[i - 1]
  <2> DEFINE o == <<r>>
  <2>0. o \in Seq(Raws(Items)) /\ Len(o) = 1 /\ o[1] = r
    OBVIOUS
  <2> HIDE DEF o
  <2>1. /\ o \o raws \in Seq(Raws(Items)) /\ Len(o \o raws) = Len(o) + len
        /\ \A i \in 1..(Len(o) + len) : (o \o raws)[i] = IF i <= Len(o) THEN o[i] ELSE raws[i - Len(o)]
    BY <2>0, ConcatProperties
  <2>2. all = o \o raws
    BY DEF o
  <2> HIDE DEF all, len
  <2>3. DOMAIN all = 1..Len(all)
    BY <2>1, <2>2, LenProperties
  <2> QED
    BY <2>0, <2>1, <2>2, <2>3, <1>1
<1>3. ps = [i \in 1..len |-> ParseHunk(raws[i])] /\ ps \in Seq(H) /\ Len(ps) = len
  BY <1>1 DEF Parsed
<1>4. Parsed(all) = [i \in 1..(1 + len) |-> ParseHunk(all[i])]
  BY <1>2 DEF Parsed
<1>5. g \in H
  OBVIOUS
<1> HIDE DEF all, len, ps, g, H
<1>6. Parsed(all) \in Seq(H) /\ Len(Parsed(all)) = 1 + len
  <2>1. \A i \in 1..(1 + len) : all[i] \in Raws(Items)
    BY <1>2, ElementOfSeq
  <2>2. \A i \in 1..(1 + len) : ParseHunk(all[i]) \in H
    BY <2>1 DEF H
  <2>3. 1 + len \in Nat
    BY <1>1
  <2> QED
    BY <1>4, <2>2, <2>3
<1>7. Parsed(all) = <<g>> \o ps
  <2> DEFINE o == <<g>>
  <2>0. o \in Seq(H) /\ Len(o) = 1 /\ o[1] = g
    BY <1>5
  <2> HIDE DEF o
  <2>1. /\ o \o ps \in Seq(H) /\ Len(o \o ps) = Len(o) + Len(ps)
        /\ \A i \in 1..(Len(o) + Len(ps)) : (o \o ps)[i] = IF i <= Len(o) THEN o[i] ELSE ps[i - Len(o)]
    BY <1>3, <2>0, ConcatProperties
  <2>2. ASSUME NEW i \in 1..(1 + len) PROVE Parsed(all)[i] = (o \o ps)[i]
    <3>1. Parsed(all)[i] = ParseHunk(all[i])
      BY <1>4
    <3>2. CASE i <= 1
      <4>1. all[i] = r /\ i = 1
        BY <1>2, <3>2
      <4>2. (o \o ps)[i] = g
        BY <1>1, <1>3, <2>0, <2>1, <4>1
      <4> QED
        BY <3>1, <4>1, <4>2 DEF g
    <3>3. CASE ~ (i <= 1)
      <4> DEFINE j == i - 1
      <4>1. all[i] = raws[j]
        BY <1>2, <3>3
      <4>2. j \in 1..len
        BY <1>1, <3>3
      <4>3. (o \o ps)[i] = ps[j]
        BY <1>1, <1>3, <2>0, <2>1, <3>3
      <4> HIDE DEF j
      <4>4. ps[j] = ParseHunk(raws[j])
        BY <1>3, <4>2
      <4> QED
        BY <3>1, <4>1, <4>3, <4>4
    <3> QED
      BY <3>2, <3>3
  <2>3. Len(o \o ps) = 1 + len /\ o \o ps \in Seq(H)
    BY <1>3, <2>0, <2>1
  <2>4. Parsed(all) = o \o ps
    BY <1>6, <2>2, <2>3, SeqEqual
  <2> QED
    BY <2>4 DEF o
<1>8. ASSUME AllFit(all) PROVE Fit(r) /\ AllFit(raws)
  <2>1. \A i \in 1..(1 + len) : Fit(all[i])
    BY <1>2, <1>8 DEF AllFit
  <2>2. Fit(r)
    <3>1. 1 \in 1..(1 + len) /\ all[1] = r
      BY <1>1, <1>2
    <3> QED
      BY <2>1, <3>1
  <2>3. ASSUME NEW i \in 1..len PROVE Fit(raws[i])
    <3> DEFINE j == i + 1
    <3>1. j \in 1..(1 + len) /\ ~ (j <= 1) /\ j - 1 = i
      BY <1>1
    <3> HIDE DEF j
    <3>2. all[j] = raws[i]
      BY <1>2, <3>1
    <3> QED
      BY <2>1, <3>1, <3>2
  <2> QED
    BY <1>1, <2>2, <2>3 DEF AllFit
<1> QED
  BY <1>3, <1>7, <1>8 DEF all, g, ps, H

\* The hunks that start at the n-th item or later.
From(s, c, n) == Rest(Pieces(s, c), n)

LEMMA FromSteps ==
    ASSUME NEW E \in SUBSET Items, NEW s \in Seq(E), NEW c \in Nat
    PROVE  /\ From(s, c, 1) = RawHunks(s, c) /\ From(s, c, Len(s) + 1) = <<>>
           /\ \A n \in 1..Len(s) : From(s, c, n) = Pieces(s, c)[n] \o From(s, c, n + 1)
           /\ \A n \in 1..(Len(s) + 1) : From(s, c, n) \in Seq(Raws(E))
<1>1. Pieces(s, c) \in Seq(Seq(Raws(E))) /\ Len(Pieces(s, c)) = Len(s)
  BY PiecesType
<1> QED
  BY <1>1, HunksAre, RestSteps DEF From

\* The first item from n on that is not in the middle of a hunk.
Edge(s, c, n, k) ==
    /\ k \in n..(Len(s) + 1) /\ \A j \in n..(k - 1) : j \in Shown(s, c) /\ j - 1 \in Shown(s, c)
    /\ k \notin Shown(s, c) \/ k - 1 \notin Shown(s, c)

\* The hunks from n on apply, and leave new lines from the item k on.
Lands(s, c, n, k) ==
    AllFit(From(s, c, n)) =>
        ApplyHunks(Old(s), Parsed(From(s, c, n))) = [ok |-> TRUE, lines |-> Halfway(s, k)]

\* At the end of the script no hunk is left; one item further down the next hunk, if
\* one starts there, lands in front of the others.
LEMMA LandsLast ==
    ASSUME NEW s \in Seq(Items), NEW c \in Nat
    PROVE  Edge(s, c, Len(s) + 1, Len(s) + 1) /\ Lands(s, c, Len(s) + 1, Len(s) + 1)
<1>1. Len(s) \in Nat /\ Len(s) + 1 \notin Shown(s, c)
  BY ShownWithin
<1>2. Edge(s, c, Len(s) + 1, Len(s) + 1)
  BY <1>1 DEF Edge
<1> DEFINE k == Len(s) + 1
<1>3. k - 1 = Len(s) /\ k \in Int /\ Len(s) \in Int /\ Len(s) < k
  BY <1>1
<1>4. From(s, c, k) = <<>>
  BY FromSteps
<1> HIDE DEF k
<1>5. Halfway(s, k) = Old(s)
  <2>1. SubSeq(s, k, Len(s)) = <<>>
    BY <1>3, SubSeqEmpty, Zenon
  <2>2. SubSeq(s, 1, k - 1) = s
    BY <1>3, SubSeqFull
  <2>3. Halfway(s, k) = Old(s) \o New(<<>>)
    BY <2>1, <2>2 DEF Halfway
  <2>4. New(<<>>) = <<>>
    BY SideEmpty DEF New
  <2>5. Old(s) \in Seq(Letters)
    BY OldNewType
  <2> QED
    BY <2>3, <2>4, <2>5, ConcatEmptySeq
<1>6. Parsed(<<>>) = <<>>
  BY DEF Parsed
<1>7. Lands(s, c, k, k)
  BY <1>4, <1>5, <1>6, ApplyNone DEF Lands
<1> QED
  BY <1>2, <1>7 DEF k

LEMMA LandsBefore ==
    ASSUME NEW s \in Seq(Items), NEW c \in Nat, NEW n \in 1..Len(s), NEW k,
           Edge(s, c, n + 1, k), Lands(s, c, n + 1, k)
    PROVE  \E i : Edge(s, c, n, i) /\ Lands(s, c, n, i)
<1> DEFINE U == Shown(s, c)
           N == Len(s)
           T == From(s, c, n)
           T1 == From(s, c, n + 1)
<1>1. U \subseteq 1..N /\ N + 1 \notin U /\ 0 \notin U /\ N \in Nat /\ DOMAIN s = 1..N
  BY ShownWithin
<1>2. k \in (n + 1)..(N + 1) /\ (k \notin U \/ k - 1 \notin U)
  BY DEF Edge
<1>3. \A j \in (n + 1)..(k - 1) : j \in U /\ j - 1 \in U
  BY DEF Edge
<1>4. T = Pieces(s, c)[n] \o T1 /\ T1 \in Seq(Raws(Items))
  <2>1. n + 1 \in 1..(N + 1)
    BY <1>1
  <2> QED
    BY <2>1, FromSteps
<1>5. AllFit(T1) => ApplyHunks(Old(s), Parsed(T1)) = [ok |-> TRUE, lines |-> Halfway(s, k)]
  BY DEF Lands
<1>6. ASSUME n \notin U \/ n - 1 \in U PROVE T = T1
  <2>1. Pieces(s, c)[n] = <<>>
    BY <1>1, <1>6 DEF Pieces
  <2> HIDE DEF T1
  <2> QED
    BY <1>4, <2>1, ConcatEmptySeq
<1>7. CASE n \notin U
  <2>1. k = n + 1
    <3>1. ASSUME k # n + 1 PROVE FALSE
      <4>1. n + 1 \in (n + 1)..(k - 1) /\ n + 1 - 1 = n
        BY <1>1, <1>2, <3>1
      <4>2. n + 1 - 1 \in U
        BY <1>3, <4>1
      <4> QED
        BY <1>7, <4>1, <4>2
    <3> QED
      BY <3>1
  <2>2. Edge(s, c, n, n)
    <3>1. n \in n..(N + 1) /\ n..(n - 1) = {}
      BY <1>1
    <3> QED
      BY <1>7, <3>1 DEF Edge
  <2>3. s[n].op = "keep"
    <3>0. Len(s) \in Nat
      BY <1>1
    <3>1. ASSUME s[n].op # "keep" PROVE FALSE
      <4> HIDE DEF U
      <4>1. n <= n + c /\ n \in DOMAIN s
        BY <1>1
      <4>2. n \in U
        BY <3>1, <4>1 DEF U, Shown
      <4> QED
        BY <1>7, <4>2
    <3> QED
      BY <3>1
  <2>4. Halfway(s, n + 1) = Halfway(s, n)
    BY <2>3, Kept
  <2>5. Lands(s, c, n, n)
    BY <1>5, <1>6, <1>7, <2>1, <2>4 DEF Lands
  <2> QED
    BY <2>2, <2>5
<1>8. CASE n \in U /\ n - 1 \in U
  <2>1. Edge(s, c, n, k)
    <3>1. k \in n..(N + 1)
      BY <1>1, <1>2
    <3>2. ASSUME NEW j \in n..(k - 1) PROVE j \in U /\ j - 1 \in U
      <4>1. CASE j = n
        BY <1>8, <4>1
      <4>2. CASE j # n
        <5>1. j \in (n + 1)..(k - 1)
          BY <1>2, <4>2
        <5> QED
          BY <1>3, <5>1
      <4> QED
        BY <4>1, <4>2
    <3> QED
      BY <1>2, <3>1, <3>2 DEF Edge
  <2>2. Lands(s, c, n, k)
    BY <1>5, <1>6, <1>8 DEF Lands
  <2> QED
    BY <2>1, <2>2
<1>9. CASE n \in U /\ n - 1 \notin U
  <2> DEFINE e == EndOf(s, c, n)
             h == HunkOf(SubSeq(s, n, e), SubSeq(s, 1, n - 1))
  <2>1. Edge(s, c, n, n)
    <3>1. n \in n..(N + 1) /\ n..(n - 1) = {}
      BY <1>1
    <3> QED
      BY <1>9, <3>1 DEF Edge
  <2>2. e \in n..N /\ n..e \subseteq U /\ e + 1 \notin U
    BY <1>9, EndIs
  <2> HIDE DEF e
  <2>3. \A j \in n..(k - 1) : j \in U
    <3>1. ASSUME NEW j \in n..(k - 1), j # n PROVE j \in (n + 1)..(k - 1)
      BY <1>2, <3>1
    <3> QED
      BY <1>3, <1>9, <3>1
  <2>4. k \notin U
    <3>1. k - 1 \in n..(k - 1)
      BY <1>1, <1>2
    <3> QED
      BY <1>2, <2>3, <3>1
  <2>5. e + 1 = k
    <3>1. ~ (e + 1 < k)
      <4>1. e + 1 < k => e + 1 \in n..(k - 1)
        BY <1>1, <1>2, <2>2
      <4> QED
        BY <2>2, <2>3, <4>1
    <3>2. ~ (k <= e)
      <4>1. k <= e => k \in n..e
        BY <1>1, <1>2, <2>2
      <4> QED
        BY <2>2, <2>4, <4>1
    <3> QED
      BY <1>1, <1>2, <2>2, <3>1, <3>2
  <2>6. Pieces(s, c)[n] = <<h>>
    BY <1>1, <1>9 DEF Pieces, e
  <2>7. h \in Raws(Items)
    <3>1. /\ n \in Nat \ {0} /\ e \in Nat /\ e <= Len(s) /\ n - 1 \in Nat
          /\ n - 1 <= Len(s) /\ 1 \in Nat \ {0}
      BY <1>1, <2>2
    <3> DEFINE items == SubSeq(s, n, e)
               before == SubSeq(s, 1, n - 1)
    <3>2. items \in Seq(Items)
      BY <3>1, SliceType
    <3>3. before \in Seq(Items)
      BY <3>1, SliceType
    <3> HIDE DEF items, before
    <3>4. Len(Old(before)) \in Nat
      BY <3>3, OldNewType
    <3>5. HunkOf(items, before) \in Raws(Items)
      BY <3>2, <3>4 DEF HunkOf, Raws
    <3> QED
      BY <3>5 DEF items, before
  <2>8. ASSUME AllFit(T) PROVE ApplyHunks(Old(s), Parsed(T)) = [ok |-> TRUE, lines |-> Halfway(s, n)]
    <3> DEFINE g == ParseHunk(h)
               acc == [ok |-> TRUE, lines |-> Halfway(s, k)]
               ps == Parsed(T1)
               H == {ParseHunk(x) : x \in Raws(Items)}
    <3>0. g \in H
      BY <2>7
    <3>1. Fit(h) /\ AllFit(T1) /\ Parsed(T) = <<g>> \o ps /\ ps \in Seq(H)
      <4> HIDE DEF h, T, T1
      <4>1. AllFit(<<h>> \o T1)
        BY <1>4, <2>6, <2>8
      <4> QED
        BY <1>4, <2>6, <2>7, <4>1, ParsedCons
    <3>2. Applied(acc, g) = [ok |-> TRUE, lines |-> Halfway(s, n)]
      <4>1. Applied([ok |-> TRUE, lines |-> Halfway(s, e + 1)], g) = [ok |-> TRUE, lines |-> Halfway(s, n)]
        BY <2>2, <3>1, HunkLands
      <4> QED
        BY <2>5, <4>1
    <3> HIDE DEF g, acc, ps, H, h, T, T1
    <3>3. ApplyHunks(Old(s), ps) = acc
      BY <1>5, <3>1 DEF acc, ps
    <3>4. ApplyHunks(Old(s), <<g>> \o ps) = Applied(ApplyHunks(Old(s), ps), g)
      BY <3>0, <3>1, ApplyCons
    <3> QED
      BY <3>1, <3>2, <3>3, <3>4
  <2>9. Lands(s, c, n, n)
    BY <2>8 DEF Lands
  <2> QED
    BY <2>1, <2>9
<1> QED
  BY <1>7, <1>8, <1>9

\* Each hunk of a script finds its old lines and leaves its new ones.
LEMMA HunksLand ==
    ASSUME NEW s \in Seq(Items), NEW c \in Nat, AllFit(RawHunks(s, c))
    PROVE  ApplyHunks(Old(s), Parsed(RawHunks(s, c))) = [ok |-> TRUE, lines |-> New(s)]
<1> DEFINE N == Len(s)
           G == {n \in Nat : \E k : Edge(s, c, n, k) /\ Lands(s, c, n, k)}
<1>1. N \in Nat
  BY LenProperties
<1>2. N + 1 \in G
  BY <1>1, LandsLast
<1>3. ASSUME NEW n \in 1..N, n + 1 \in G PROVE n \in G
  <2>1. PICK k : Edge(s, c, n + 1, k) /\ Lands(s, c, n + 1, k)
    BY <1>3
  <2>2. \E i : Edge(s, c, n, i) /\ Lands(s, c, n, i)
    BY <2>1, LandsBefore
  <2> QED
    BY <1>1, <2>2
<1>4. 1 \in G
  <2>1. 1 <= N + 1 /\ 1 \in 1..(N + 1) /\ 1 \in Nat
    BY <1>1
  <2> HIDE DEF G, N
  <2>2. \A n \in 1..(N + 1) : n \in G
    BY <1>1, <1>2, <1>3, <2>1, Downward
  <2> QED
    BY <2>1, <2>2
<1>5. PICK k : Edge(s, c, 1, k) /\ Lands(s, c, 1, k)
  BY <1>4
<1>6. k = 1
  <2>1. ASSUME k # 1 PROVE FALSE
    <3>1. k \in 1..(N + 1) /\ \A j \in 1..(k - 1) : j - 1 \in Shown(s, c)
      BY <1>5 DEF Edge
    <3>2. 1 \in 1..(k - 1) /\ 1 - 1 = 0
      BY <1>1, <2>1, <3>1
    <3>3. 1 - 1 \in Shown(s, c)
      BY <3>1, <3>2
    <3> QED
      BY <3>2, <3>3, ShownWithin
  <2> QED
    BY <2>1
<1>7. From(s, c, 1) = RawHunks(s, c)
  BY FromSteps
<1>8. Halfway(s, 1) = New(s)
  <2> DEFINE i == 1
  <2>0. i - 1 = 0 /\ 1 \in Int /\ 0 \in Int /\ 0 < 1
    OBVIOUS
  <2> HIDE DEF i
  <2>1. SubSeq(s, 1, i - 1) = <<>>
    BY <2>0, SubSeqEmpty
  <2>2. SubSeq(s, i, Len(s)) = s
    BY SubSeqFull DEF i
  <2>3. Halfway(s, i) = Old(<<>>) \o New(s)
    BY <2>1, <2>2 DEF Halfway
  <2>4. Old(<<>>) = <<>> /\ New(s) \in Seq(Letters)
    BY SideEmpty, OldNewType DEF Old
  <2> QED
    BY <2>3, <2>4, ConcatEmptySeq DEF i
<1> QED
  BY <1>5, <1>6, <1>7, <1>8 DEF Lands

\* The last hunk has the last item of the script, if that is a change.
Has(h, x) == \E i \in DOMAIN h.items : h.items[i] = x

LEMMA LastConcat ==
    ASSUME NEW S, NEW s \in Seq(S), NEW t \in Seq(S), t # <<>>
    PROVE  s \o t # <<>> /\ Last(s \o t) = Last(t)
<1> DEFINE a == Len(s)
           b == Len(t)
           w == s \o t
<1>1. a \in Nat /\ b \in Nat \ {0}
  BY LenProperties, EmptySeq
<1>2. /\ w \in Seq(S) /\ Len(w) = a + b
      /\ \A i \in 1..(a + b) : w[i] = IF i <= a THEN s[i] ELSE t[i - a]
  BY ConcatProperties
<1> HIDE DEF a, b, w
<1>3. w # <<>>
  <2>1. Len(w) # 0
    BY <1>1, <1>2
  <2> QED
    BY <2>1
<1>4. w[a + b] = t[b]
  <2> DEFINE j == a + b
  <2>1. j \in 1..(a + b) /\ ~ (j <= a) /\ j - a = b
    BY <1>1
  <2> HIDE DEF j
  <2>2. w[j] = t[j - a]
    BY <1>2, <2>1
  <2>3. w[j] = t[b]
    BY <2>1, <2>2
  <2> QED
    BY <2>3 DEF j
<1>5. Last(w) = t[b]
  BY <1>2, <1>4 DEF Last
<1> QED
  BY <1>3, <1>5 DEF Last, b, w

LEMMA LastIsIn ==
    ASSUME NEW s \in Seq(Items), NEW c \in Nat, s # <<>>, s[Len(s)].op # "keep"
    PROVE  RawHunks(s, c) # <<>> /\ Has(Last(RawHunks(s, c)), s[Len(s)])
<1> DEFINE N == Len(s)
           U == Shown(s, c)
           Open(n) == From(s, c, n) = <<>> /\ n..N \subseteq U /\ n - 1 \in U
           Told(n) == From(s, c, n) # <<>> /\ Has(Last(From(s, c, n)), s[N])
           G == {n \in Nat : Open(n) \/ Told(n)}
<1>1. N \in Nat \ {0} /\ U \subseteq 1..N /\ N + 1 \notin U /\ 0 \notin U /\ DOMAIN s = 1..N
  BY ShownWithin, EmptySeq
<1>2. N \in U
  <2>1. N \in DOMAIN s /\ N <= N + c
    BY <1>1
  <2> HIDE DEF U
  <2> QED
    BY <2>1 DEF U, Shown, N
<1>3. N + 1 \in G
  <2>1. From(s, c, N + 1) = <<>>
    BY FromSteps
  <2>2. (N + 1)..N = {} /\ N + 1 - 1 = N /\ N + 1 \in Nat
    BY <1>1
  <2>3. Open(N + 1)
    BY <1>2, <2>1, <2>2
  <2> QED
    BY <2>2, <2>3
<1>4. ASSUME NEW n \in 1..N, n + 1 \in G PROVE n \in G
  <2> DEFINE T == From(s, c, n)
             T1 == From(s, c, n + 1)
             u == Pieces(s, c)[n]
  <2>1. T = u \o T1 /\ T1 \in Seq(Raws(Items)) /\ u \in Seq(Raws(Items))
    <3>1. n + 1 \in 1..(N + 1)
      BY <1>1
    <3>2. Pieces(s, c) \in Seq(Seq(Raws(Items))) /\ Len(Pieces(s, c)) = N
      BY PiecesType
    <3>3. u \in Seq(Raws(Items))
      BY <3>2, ElementOfSeq
    <3> QED
      BY <3>1, <3>3, FromSteps
  <2>2. CASE Told(n + 1)
    <3>0. T1 # <<>> /\ Has(Last(T1), s[N])
      BY <2>2
    <3> HIDE DEF u, T1
    <3>1. T # <<>> /\ Last(T) = Last(T1)
      BY <2>1, <3>0, LastConcat
    <3>2. Told(n)
      BY <3>0, <3>1
    <3> QED
      BY <3>2
  <2>3. CASE Open(n + 1)
    <3>1. T1 = <<>> /\ n + 1 - 1 \in U /\ (n + 1)..N \subseteq U
      BY <2>3
    <3>2. n \in U /\ n..N \subseteq U
      <4>1. n + 1 - 1 = n
        OBVIOUS
      <4>2. ASSUME NEW j \in n..N, j # n PROVE j \in (n + 1)..N
        BY <1>1, <4>2
      <4>3. n \in U
        BY <3>1, <4>1
      <4> HIDE DEF U
      <4> QED
        BY <3>1, <4>2, <4>3
    <3>3. T = u
      <4> HIDE DEF u, T1, T
      <4> QED
        BY <2>1, <3>1, ConcatEmptySeq
    <3>4. CASE n - 1 \in U
      <4>1. u = <<>>
        BY <1>1, <3>4 DEF Pieces
      <4>2. Open(n)
        BY <3>2, <3>3, <3>4, <4>1
      <4> QED
        BY <4>2
    <3>5. CASE n - 1 \notin U
      <4> DEFINE e == EndOf(s, c, n)
                 items == SubSeq(s, n, e)
                 h == HunkOf(items, SubSeq(s, 1, n - 1))
      <4>1. e \in n..N /\ e + 1 \notin U
        BY <3>2, EndIs
      <4>2. u = <<h>>
        BY <1>1, <3>2, <3>5 DEF Pieces
      <4> HIDE DEF e
      <4>3. e = N
        <5>1. e # N => e + 1 \in n..N
          <6>1. n \in Int /\ N \in Int /\ e \in n..N
            BY <1>1, <4>1
          <6> HIDE DEF N
          <6> QED
            BY <6>1
        <5> QED
          BY <3>2, <4>1, <5>1
      <4>4. Has(h, s[N])
        <5> DEFINE k == N - n + 1
        <5>1. n \in Int /\ N \in Int /\ \A i \in n..N : s[i] \in Items
          <6>1. \A i \in n..N : i \in 1..Len(s)
            BY <1>1
          <6> QED
            BY <1>1, <6>1, ElementOfSeq
        <5>2. /\ SubSeq(s, n, N) \in Seq(Items) /\ Len(SubSeq(s, n, N)) = IF n <= N THEN N - n + 1 ELSE 0
              /\ \A i \in 1..(N - n + 1) : SubSeq(s, n, N)[i] = s[n + i - 1]
          <6> HIDE DEF N, U
          <6> QED
            BY <5>1, SubSeqProperties
        <5>3. k \in 1..(N - n + 1) /\ n + k - 1 = N /\ n <= N /\ k = N - n + 1
          BY <1>1
        <5>4. items = SubSeq(s, n, N)
          BY <4>3
        <5>5. h.items = items
          BY DEF HunkOf
        <5> HIDE DEF k, N, items, h
        <5>6. items[k] = s[N]
          BY <5>2, <5>3, <5>4
        <5>7. k \in DOMAIN items
          <6>1. DOMAIN items = 1..Len(items)
            BY <5>2, <5>4, LenProperties
          <6>2. Len(items) = N - n + 1
            BY <5>2, <5>3, <5>4
          <6> QED
            BY <5>3, <6>1, <6>2
        <5> QED
          BY <5>5, <5>6, <5>7 DEF Has
      <4> HIDE DEF h, u, T
      <4>5. T = <<h>> /\ <<h>> # <<>> /\ Last(<<h>>) = h
        BY <3>3, <4>2 DEF Last
      <4>6. Told(n)
        BY <4>4, <4>5 DEF T
      <4> QED
        BY <4>6
    <3> QED
      BY <3>4, <3>5
  <2> QED
    BY <1>4, <2>2, <2>3
<1>5. 1 \in G
  <2>1. 1 <= N + 1 /\ 1 \in 1..(N + 1) /\ 1 \in Nat /\ N \in Nat
    BY <1>1
  <2> HIDE DEF G, N
  <2>2. \A n \in 1..(N + 1) : n \in G
    BY <1>3, <1>4, <2>1, Downward
  <2> QED
    BY <2>1, <2>2
<1>6. Told(1)
  <2>1. ~ Open(1)
    <3>1. 1 - 1 = 0
      OBVIOUS
    <3> QED
      BY <1>1, <3>1
  <2> QED
    BY <1>5, <2>1
<1>7. From(s, c, 1) = RawHunks(s, c)
  BY FromSteps
<1> QED
  BY <1>6, <1>7

-----------------------------------------------------------------------------
(* What the last hunk says of the end of the file.                         *)

\* Items that no "\ No newline at end of file" follows.
WithEol == {x \in Items : x.eol}

\* Without such a marker in the script no hunk has one; a change at the end that has
\* one gives it to the last hunk.
LEMMA NoMark ==
    ASSUME NEW s \in Seq(WithEol), NEW c \in Nat
    PROVE  \A i \in DOMAIN RawHunks(s, c) : ~ ParseHunk(RawHunks(s, c)[i]).no_trailing_newline
<1> DEFINE raws == RawHunks(s, c)
<1>1. raws \in Seq(Raws(WithEol))
  BY PiecesType DEF WithEol
<1> HIDE DEF raws
<1> SUFFICES ASSUME NEW i \in DOMAIN raws PROVE ~ ParseHunk(raws[i]).no_trailing_newline
  BY DEF raws
<1>2. raws[i] \in Raws(WithEol)
  BY <1>1, LenProperties, ElementOfSeq
<1> DEFINE items == raws[i].items
<1>3. items \in Seq(WithEol)
  BY <1>2 DEF Raws
<1> HIDE DEF items
<1>4. \A k \in DOMAIN items : items[k].eol
  <2>1. \A k \in DOMAIN items : items[k] \in WithEol
    BY <1>3, LenProperties, ElementOfSeq
  <2> QED
    BY <2>1 DEF WithEol
<1> QED
  BY <1>4 DEF ParseHunk, items

LEMMA Mark ==
    ASSUME NEW s \in Seq(Items), NEW c \in Nat, s # <<>>, s[Len(s)].op # "keep", ~ s[Len(s)].eol
    PROVE  RawHunks(s, c) # <<>> /\ ParseHunk(Last(RawHunks(s, c))).no_trailing_newline
<1>1. RawHunks(s, c) # <<>> /\ Has(Last(RawHunks(s, c)), s[Len(s)])
  BY LastIsIn
<1> QED
  BY <1>1 DEF Has, ParseHunk

-----------------------------------------------------------------------------
(* An edit script has the lines of both texts.                             *)

\* What may be at a path.
Either == Texts \cup {NoFile}

LEMMA TextType ==
    ASSUME NEW t \in Either
    PROVE  t.lines \in Seq(Letters) /\ t.nl \in BOOLEAN /\ Len(t.lines) \in Nat /\ DOMAIN t.lines = 1..Len(t.lines)
<1>1. t.lines \in Seq(Letters) /\ t.nl \in BOOLEAN
  <2>1. CASE t = NoFile \/ t = Empty
    <3>1. NoFile.lines = <<>> /\ NoFile.nl \in BOOLEAN
      BY DEF NoFile
    <3>2. Empty.lines = <<>> /\ Empty.nl \in BOOLEAN
      BY DEF Empty
    <3> QED
      BY <2>1, <3>1, <3>2, EmptySeq
  <2>2. CASE t \in [lines : Seq(Letters), nl : BOOLEAN]
    BY <2>2
  <2> QED
    BY <2>1, <2>2 DEF Either, Texts
<1> QED
  BY <1>1, LenProperties

LEMMA MaxIs ==
    ASSUME NEW n \in Nat, NEW S \in SUBSET (0..n), S # {}
    PROVE  Max(S) \in S /\ \A y \in S : y <= Max(S)
<1> DEFINE D == {d \in 0..n : n - d \in S}
<1>1. D \in SUBSET Nat /\ D # {}
  <2>1. PICK y \in S : TRUE
    OBVIOUS
  <2>2. n - y \in 0..n /\ n - (n - y) = y
    BY <2>1
  <2>3. n - y \in D
    BY <2>1, <2>2
  <2>4. D \in SUBSET Nat
    OBVIOUS
  <2> HIDE DEF D
  <2> QED
    BY <2>3, <2>4
<1>2. PICK d \in D : \A e \in D : d <= e
  BY <1>1, LeastNumber
<1>3. ASSUME NEW y \in S PROVE n - d >= y
  <2>1. n - y \in D /\ y \in 0..n
    <3>1. n - y \in 0..n /\ n - (n - y) = y
      OBVIOUS
    <3> QED
      BY <3>1
  <2>2. d <= n - y /\ d \in 0..n
    BY <1>2, <2>1
  <2> QED
    BY <2>1, <2>2
<1>4. n - d \in S
  BY <1>2
<1>5. \E x \in S : \A y \in S : x >= y
  BY <1>3, <1>4
<1>6. Max(S) \in S /\ \A y \in S : Max(S) >= y
  BY <1>5 DEF Max
<1>7. \A y \in S : y \in Int
  OBVIOUS
<1> QED
  BY <1>6, <1>7

LEMMA MatchIs ==
    ASSUME NEW a \in Either, NEW b \in Either, NEW m \in Matchings(a, b), NEW x \in m
    PROVE  x[1] \in 1..Len(a.lines) /\ x[2] \in 1..Len(b.lines) /\ LineOf(a, x[1]) = LineOf(b, x[2])
           /\ \A y \in m : x[1] < y[1] <=> x[2] < y[2]
<1>1. m \subseteq (1..Len(a.lines)) \X (1..Len(b.lines))
  BY TextType DEF Matchings
<1>2. x \in (1..Len(a.lines)) \X (1..Len(b.lines))
  BY <1>1
<1> QED
  BY <1>2 DEF Matchings

\* The reach of i is that of the last kept line up to i, and it grows with i only at
\* the lines that are kept.
LEMMA ReachIs ==
    ASSUME NEW a \in Either, NEW b \in Either, NEW m \in Matchings(a, b), NEW i
    PROVE  /\ Reach(m, i) \in 0..Len(b.lines)
           /\ Reach(m, i) = 0 \/ \E x \in m : x[1] <= i /\ x[2] = Reach(m, i)
           /\ \A x \in m : x[1] <= i => x[2] <= Reach(m, i)
<1> DEFINE S == {0} \cup {x[2] : x \in {y \in m : y[1] <= i}}
<1>1. Len(b.lines) \in Nat /\ \A x \in m : x[2] \in 1..Len(b.lines)
  BY TextType, MatchIs
<1>2. S \in SUBSET (0..Len(b.lines)) /\ S # {}
  BY <1>1
<1>3. Reach(m, i) = Max(S)
  BY DEF Reach
<1>4. \A x \in m : x[1] <= i => x[2] \in S
  OBVIOUS
<1>5. \A y \in S : y = 0 \/ \E x \in m : x[1] <= i /\ x[2] = y
  OBVIOUS
<1> HIDE DEF S
<1>6. Max(S) \in S /\ \A y \in S : y <= Max(S)
  BY <1>1, <1>2, MaxIs
<1> QED
  BY <1>2, <1>3, <1>4, <1>5, <1>6

LEMMA ReachZero ==
    ASSUME NEW a \in Either, NEW b \in Either, NEW m \in Matchings(a, b)
    PROVE  Reach(m, 0) = 0
<1>1. \A x \in m : ~ (x[1] <= 0)
  BY MatchIs, TextType
<1> QED
  BY <1>1, ReachIs

LEMMA ReachKeep ==
    ASSUME NEW a \in Either, NEW b \in Either, NEW m \in Matchings(a, b), NEW x \in m
    PROVE  Reach(m, x[1]) = x[2] /\ Reach(m, x[1] - 1) <= x[2] - 1
<1>1. Len(a.lines) \in Nat /\ Len(b.lines) \in Nat
  BY TextType
<1>2. \A y \in m : y[1] \in Nat /\ y[2] \in Nat \ {0} /\ (x[1] < y[1] <=> x[2] < y[2]) /\ (y[1] < x[1] <=> y[2] < x[2])
  BY <1>1, MatchIs
<1>3. Reach(m, x[1]) = x[2]
  <2>1. x[2] <= Reach(m, x[1]) /\ Reach(m, x[1]) \in Nat
    BY <1>1, <1>2, ReachIs
  <2>2. \A y \in m : y[1] <= x[1] => y[2] <= x[2]
    BY <1>2
  <2>3. Reach(m, x[1]) = 0 \/ \E y \in m : y[1] <= x[1] /\ y[2] = Reach(m, x[1])
    BY ReachIs
  <2> QED
    BY <1>2, <2>1, <2>2, <2>3
<1>4. Reach(m, x[1] - 1) <= x[2] - 1
  <2>1. Reach(m, x[1] - 1) \in Nat
    BY <1>1, ReachIs
  <2>2. \A y \in m : y[1] <= x[1] - 1 => y[2] < x[2]
    BY <1>2
  <2>3. Reach(m, x[1] - 1) = 0 \/ \E y \in m : y[1] <= x[1] - 1 /\ y[2] = Reach(m, x[1] - 1)
    BY ReachIs
  <2>4. Reach(m, x[1] - 1) < x[2]
    BY <1>2, <2>1, <2>2, <2>3
  <2> QED
    BY <1>2, <2>1, <2>4
<1> QED
  BY <1>3, <1>4

LEMMA ReachSkip ==
    ASSUME NEW a \in Either, NEW b \in Either, NEW m \in Matchings(a, b), NEW i \in Nat,
           ~ \E x \in m : x[1] = i
    PROVE  Reach(m, i) = Reach(m, i - 1)
<1>1. \A x \in m : x[1] \in Nat
  BY TextType, MatchIs
<1>2. \A x \in m : x[1] <= i <=> x[1] <= i - 1
  BY <1>1
<1>3. {y \in m : y[1] <= i} = {y \in m : y[1] <= i - 1}
  BY <1>2
<1> QED
  BY <1>3 DEF Reach

\* The lines of b after from, up to to, added.
Adds(b, from, to) == [n \in 1..(to - from) |-> Item("add", LineOf(b, from + n))]

LEMMA ItemType ==
    ASSUME NEW t \in Either, NEW i \in 1..Len(t.lines), NEW op \in Ops
    PROVE  /\ Item(op, LineOf(t, i)) \in Items
           /\ t.nl => Item(op, LineOf(t, i)) \in WithEol
           /\ Item(op, LineOf(t, i)).op = op /\ Item(op, LineOf(t, i)).line = t.lines[i]
           /\ Item(op, LineOf(t, i)).eol = (i < Len(t.lines) \/ t.nl)
<1>1. t.lines[i] \in Letters /\ t.nl \in BOOLEAN
  BY TextType, ElementOfSeq
<1>2. Item(op, LineOf(t, i)) = [op |-> op, line |-> t.lines[i], eol |-> i < Len(t.lines) \/ t.nl]
  BY DEF Item, LineOf
<1>3. (i < Len(t.lines) \/ t.nl) \in BOOLEAN
  BY <1>1
<1> QED
  BY <1>1, <1>2, <1>3 DEF Items, WithEol

LEMMA AddsIs ==
    ASSUME NEW b \in Either, NEW from \in 0..Len(b.lines), NEW to \in from..Len(b.lines)
    PROVE  /\ Adds(b, from, to) \in Seq(Items) /\ Len(Adds(b, from, to)) = to - from
           /\ b.nl => Adds(b, from, to) \in Seq(WithEol)
           /\ Old(Adds(b, from, to)) = <<>> /\ New(Adds(b, from, to)) = SubSeq(b.lines, from + 1, to)
<1> DEFINE A == Adds(b, from, to)
           len == to - from
           g == [n \in 1..len |-> b.lines[from + n]]
<1>1. Len(b.lines) \in Nat /\ len \in Nat /\ \A n \in 1..len : from + n \in 1..Len(b.lines)
  BY TextType
<1>2. \A n \in 1..len : A[n] = Item("add", LineOf(b, from + n))
  BY DEF Adds
<1>3. \A n \in 1..len : /\ A[n] \in Items /\ A[n].op = "add" /\ A[n].line = b.lines[from + n]
                        /\ b.nl => A[n] \in WithEol
  <2> SUFFICES ASSUME NEW n \in 1..len
               PROVE  /\ A[n] \in Items /\ A[n].op = "add" /\ A[n].line = b.lines[from + n]
                      /\ b.nl => A[n] \in WithEol
    OBVIOUS
  <2> DEFINE i == from + n
  <2>1. i \in 1..Len(b.lines) /\ "add" \in Ops /\ A[n] = Item("add", LineOf(b, i))
    BY <1>1, <1>2 DEF Ops
  <2>2. b.lines[from + n] = b.lines[i]
    OBVIOUS
  <2> HIDE DEF A, i
  <2> QED
    BY <2>1, <2>2, ItemType
<1>4. A = [n \in 1..len |-> A[n]]
  BY DEF Adds
<1>5. g \in Seq(Letters) /\ DOMAIN g = 1..len /\ SubSeq(b.lines, from + 1, to) = g
  <2>1. \A n \in 1..len : b.lines[from + n] \in Letters
    BY <1>1, TextType, ElementOfSeq
  <2>2. \A n \in (from + 1)..to : b.lines[n] \in Letters
    <3>1. \A n \in (from + 1)..to : n \in 1..Len(b.lines)
      BY <1>1
    <3> QED
      BY <3>1, TextType, ElementOfSeq
  <2>3. g \in Seq(Letters) /\ Len(g) = len
    BY <1>1, <2>1
  <2> DEFINE p == from + 1
             S == SubSeq(b.lines, p, to)
  <2>4. p \in Int /\ to \in Int /\ len = to - p + 1 /\ (p <= to <=> len # 0)
    BY <1>1
  <2>5. S \in Seq(Letters) /\ Len(S) = (IF p <= to THEN to - p + 1 ELSE 0)
        /\ \A n \in 1..(to - p + 1) : S[n] = b.lines[p + n - 1]
    BY <2>2, <2>4, SubSeqProperties
  <2>6. \A n \in 1..len : p + n - 1 = from + n
    BY <1>1
  <2>7. \A n \in 1..len : g[n] = b.lines[from + n]
    OBVIOUS
  <2>8. DOMAIN g = 1..len
    OBVIOUS
  <2> HIDE DEF p, S, g, len
  <2>9. Len(S) = len /\ \A n \in 1..len : S[n] = g[n]
    BY <1>1, <2>4, <2>5, <2>6, <2>7
  <2>10. S = g
    BY <2>3, <2>5, <2>9, SeqEqual
  <2> QED
    BY <2>3, <2>8, <2>10 DEF p, S
<1> HIDE DEF A, len
<1>6. A \in Seq(Items) /\ Len(A) = len /\ (b.nl => A \in Seq(WithEol)) /\ DOMAIN A = 1..len
  <2>1. A \in [1..len -> Items] /\ len \in Nat
    BY <1>1, <1>3, <1>4
  <2>2. b.nl => A \in [1..len -> WithEol]
    BY <1>3, <1>4
  <2>3. A \in Seq(Items) /\ Len(A) = len
    BY <2>1
  <2>4. b.nl => A \in Seq(WithEol)
    BY <2>1, <2>2
  <2> QED
    BY <2>1, <2>3, <2>4
<1>7. Lines(A, {"keep", "add"}) = [n \in DOMAIN g |-> <<g[n]>>]
  BY <1>3, <1>5, <1>6 DEF Lines
<1>8. Lines(A, {"keep", "del"}) = [n \in DOMAIN g |-> <<>>]
  BY <1>3, <1>5, <1>6 DEF Lines
<1> HIDE DEF g
<1>9. FlattenSeq(Lines(A, {"keep", "add"})) = g
  BY <1>5, <1>7, FlattenSingles
<1>10. FlattenSeq(Lines(A, {"keep", "del"})) = <<>>
  BY <1>5, <1>8, FlattenNothing
<1>11. New(A) = g /\ Old(A) = <<>>
  BY <1>6, <1>9, <1>10, LinesType DEF Old, New
<1> QED
  BY <1>5, <1>6, <1>11 DEF A, len

\* What the script has for the i-th line of a, and the one part more for what is left of b.
Part(a, b, m, i) ==
    IF i > Len(a.lines) THEN Adds(b, Reach(m, i), Len(b.lines))
    ELSE IF \E x \in m : x[1] = i
    THEN Adds(b, Reach(m, i - 1), Reach(m, i) - 1) \o <<Item("keep", LineOf(a, i))>>
    ELSE <<Item("del", LineOf(a, i))>>

Parts(a, b, m) == [i \in 1..(Len(a.lines) + 1) |-> Part(a, b, m, i)]

LEMMA ScriptIs == \A a, b, m : Script(a, b, m) = FlattenSeq(Parts(a, b, m))
BY DEF Script, Parts, Part, Adds

\* The part of a line has that line on its old side and, on its new side, the lines
\* of b it brings into reach.
LEMMA PartIs ==
    ASSUME NEW a \in Either, NEW b \in Either, NEW m \in Matchings(a, b), NEW i \in 1..Len(a.lines)
    PROVE  /\ Part(a, b, m, i) \in Seq(Items)
           /\ a.nl /\ b.nl => Part(a, b, m, i) \in Seq(WithEol)
           /\ Old(Part(a, b, m, i)) = <<a.lines[i]>>
           /\ Reach(m, i - 1) <= Reach(m, i)
           /\ New(Part(a, b, m, i)) = SubSeq(b.lines, Reach(m, i - 1) + 1, Reach(m, i))
<1> DEFINE P == Part(a, b, m, i)
           lb == Len(b.lines)
           l == a.lines[i]
<1>1. Len(a.lines) \in Nat /\ lb \in Nat /\ l \in Letters /\ <<l>> \in Seq(Letters) /\ i \in Nat
  BY TextType, ElementOfSeq
<1>2. ~ (i > Len(a.lines))
  BY <1>1
<1>3. CASE \E x \in m : x[1] = i
  <2>1. PICK x \in m : x[1] = i
    BY <1>3
  <2> DEFINE p == Reach(m, i - 1)
             q == Reach(m, i)
             k == q - 1
             A == Adds(b, p, k)
             t == Item("keep", LineOf(a, i))
  <2>2. p \in 0..lb /\ q = x[2] /\ q \in 1..lb /\ p <= q - 1
    BY <2>1, ReachIs, ReachKeep, MatchIs
  <2>3. P = A \o <<t>>
    BY <1>2, <1>3 DEF Part
  <2>4. t \in Items /\ t.op = "keep" /\ t.line = l /\ (a.nl => t \in WithEol)
    BY ItemType DEF Ops
  <2>5. l = b.lines[q]
    <3>1. LineOf(a, i) = LineOf(b, q)
      BY <2>1, <2>2, MatchIs
    <3> QED
      BY <3>1 DEF LineOf
  <2> HIDE DEF P, p, q, t, l
  <2>6. k \in p..lb /\ k + 1 = q
    BY <1>1, <2>2
  <2>7. /\ A \in Seq(Items) /\ Old(A) = <<>> /\ New(A) = SubSeq(b.lines, p + 1, k)
        /\ b.nl => A \in Seq(WithEol)
    <3> HIDE DEF k
    <3> QED
      BY <2>2, <2>6, AddsIs
  <2>8. <<t>> \in Seq(Items) /\ Old(<<t>>) = <<l>> /\ New(<<t>>) = <<l>> /\ (a.nl => <<t>> \in Seq(WithEol))
    <3>1. \A ops : Side(<<t>>, ops) = IF t.op \in ops THEN <<t.line>> ELSE <<>>
      BY <2>4, SideOne
    <3>2. Old(<<t>>) = <<t.line>> /\ New(<<t>>) = <<t.line>>
      BY <2>4, <3>1 DEF Old, New
    <3> QED
      BY <2>4, <3>2
  <2> HIDE DEF A
  <2>9. Old(P) = <<>> \o <<l>> /\ New(P) = SubSeq(b.lines, p + 1, k) \o <<l>>
    BY <2>3, <2>7, <2>8, OldNewConcat
  <2>10. P \in Seq(Items)
    BY <2>3, <2>7, <2>8, ConcatProperties
  <2>11. ASSUME a.nl, b.nl PROVE P \in Seq(WithEol)
    BY <2>3, <2>7, <2>8, <2>11, ConcatProperties
  <2>12. SubSeq(b.lines, p + 1, q) = SubSeq(b.lines, p + 1, k) \o <<l>>
    <3> DEFINE p1 == p + 1
    <3>1. p1 \in 1..Len(b.lines) /\ q \in p1..Len(b.lines)
      BY <1>1, <2>2
    <3> HIDE DEF p1
    <3>2. SubSeq(b.lines, p1, q) = SubSeq(b.lines, p1, q - 1) \o <<b.lines[q]>>
      BY <3>1, TextType, SubSeqRecursiveSecond
    <3> QED
      BY <2>5, <3>2 DEF p1
  <2>13. <<>> \o <<l>> = <<l>>
    BY <1>1, ConcatEmptySeq DEF l
  <2>14. p <= q
    BY <1>1, <2>2
  <2> QED
    BY <2>9, <2>10, <2>11, <2>12, <2>13, <2>14 DEF P, p, q, l
<1>4. CASE ~ \E x \in m : x[1] = i
  <2> DEFINE p == Reach(m, i - 1)
             t == Item("del", LineOf(a, i))
  <2>1. Reach(m, i) = p /\ p \in 0..lb
    BY <1>1, <1>4, ReachSkip, ReachIs
  <2>2. P = <<t>>
    BY <1>2, <1>4 DEF Part
  <2>3. t \in Items /\ t.op = "del" /\ t.line = l /\ (a.nl => t \in WithEol)
    BY ItemType DEF Ops
  <2> HIDE DEF P, p, t, l
  <2>4. <<t>> \in Seq(Items) /\ Old(<<t>>) = <<l>> /\ New(<<t>>) = <<>> /\ (a.nl => <<t>> \in Seq(WithEol))
    <3>1. \A ops : Side(<<t>>, ops) = IF t.op \in ops THEN <<t.line>> ELSE <<>>
      BY <2>3, SideOne
    <3>2. Old(<<t>>) = <<t.line>> /\ New(<<t>>) = <<>>
      BY <2>3, <3>1 DEF Old, New
    <3> QED
      BY <2>3, <3>2
  <2>5. SubSeq(b.lines, p + 1, p) = <<>>
    <3>1. p + 1 \in Int /\ p \in Int /\ p < p + 1
      BY <2>1
    <3> QED
      BY <3>1, SubSeqEmpty, Zenon
  <2>6. p <= p
    BY <2>1
  <2> QED
    BY <2>1, <2>2, <2>4, <2>5, <2>6 DEF P, p, l
<1> QED
  BY <1>3, <1>4

LEMMA LastPartIs ==
    ASSUME NEW a \in Either, NEW b \in Either, NEW m \in Matchings(a, b)
    PROVE  LET q == Reach(m, Len(a.lines))
               P == Part(a, b, m, Len(a.lines) + 1)
           IN  /\ P = Adds(b, q, Len(b.lines)) /\ q \in 0..Len(b.lines)
               /\ P \in Seq(Items) /\ Old(P) = <<>> /\ New(P) = SubSeq(b.lines, q + 1, Len(b.lines))
               /\ a.nl /\ b.nl => P \in Seq(WithEol)
<1> DEFINE la == Len(a.lines)
           lb == Len(b.lines)
           i == la + 1
           q == Reach(m, la)
<1>1. la \in Nat /\ lb \in Nat
  BY TextType
<1>2. ~ \E x \in m : x[1] = i
  <2>1. \A x \in m : x[1] \in 1..la
    BY MatchIs
  <2> QED
    BY <1>1, <2>1
<1>3. i \in Nat /\ i - 1 = la /\ i > la
  BY <1>1
<1>4. Reach(m, i) = q
  <2> HIDE DEF i
  <2>1. Reach(m, i) = Reach(m, i - 1)
    BY <1>2, <1>3, ReachSkip
  <2> QED
    BY <1>3, <2>1
<1>5. q \in 0..lb
  BY ReachIs
<1>6. Part(a, b, m, i) = Adds(b, q, lb)
  <2> HIDE DEF i, q
  <2> QED
    BY <1>3, <1>4 DEF Part
<1>7. lb \in q..lb
  BY <1>1, <1>5
<1> HIDE DEF i, q
<1>8. /\ Adds(b, q, lb) \in Seq(Items) /\ Old(Adds(b, q, lb)) = <<>>
      /\ New(Adds(b, q, lb)) = SubSeq(b.lines, q + 1, lb)
      /\ b.nl => Adds(b, q, lb) \in Seq(WithEol)
  BY <1>5, <1>7, AddsIs
<1> QED
  BY <1>5, <1>6, <1>8 DEF i, q

LEMMA PartsType ==
    ASSUME NEW a \in Either, NEW b \in Either, NEW m \in Matchings(a, b)
    PROVE  /\ Parts(a, b, m) \in Seq(Seq(Items)) /\ Len(Parts(a, b, m)) = Len(a.lines) + 1
           /\ \A i \in 1..(Len(a.lines) + 1) : Parts(a, b, m)[i] = Part(a, b, m, i)
           /\ a.nl /\ b.nl => Parts(a, b, m) \in Seq(Seq(WithEol))
<1> DEFINE u == Parts(a, b, m)
           la == Len(a.lines)
           k == la + 1
<1>1. la \in Nat /\ k \in Nat /\ \A i \in 1..k : i \in 1..la \/ i = k
  BY TextType
<1>2. u = [i \in 1..k |-> u[i]] /\ \A i \in 1..k : u[i] = Part(a, b, m, i)
  BY DEF Parts
<1>3. \A i \in 1..k : /\ u[i] \in Seq(Items)
                      /\ (a.nl /\ b.nl) => u[i] \in Seq(WithEol)
  <2>1. ASSUME NEW i \in 1..la PROVE /\ Part(a, b, m, i) \in Seq(Items)
                                     /\ (a.nl /\ b.nl) => Part(a, b, m, i) \in Seq(WithEol)
    BY PartIs
  <2>2. /\ Part(a, b, m, k) \in Seq(Items)
        /\ (a.nl /\ b.nl) => Part(a, b, m, k) \in Seq(WithEol)
    BY LastPartIs
  <2> HIDE DEF u, k
  <2> QED
    BY <1>1, <1>2, <2>1, <2>2
<1> HIDE DEF u, k
<1>4. u \in Seq(Seq(Items)) /\ Len(u) = k
  BY <1>1, <1>2, <1>3
<1>5. ASSUME a.nl, b.nl PROVE u \in Seq(Seq(WithEol))
  <2>1. \A i \in 1..k : u[i] \in Seq(WithEol)
    BY <1>3, <1>5
  <2>2. u = [i \in 1..k |-> u[i]]
    BY <1>2
  <2> QED
    BY <1>1, <2>1, <2>2
<1> QED
  BY <1>2, <1>4, <1>5 DEF u, k

\* Hence an edit script's old side is the one text and its new side the other; it ends
\* with an addition if only the new text lacks its last newline.
LEMMA ScriptSides ==
    ASSUME NEW a \in Either, NEW b \in Either, NEW m \in Matchings(a, b)
    PROVE  /\ Script(a, b, m) \in Seq(Items)
           /\ Old(Script(a, b, m)) = a.lines /\ New(Script(a, b, m)) = b.lines
           /\ (a.nl /\ b.nl) => Script(a, b, m) \in Seq(WithEol)
           /\ a.nl /\ ~ b.nl /\ b.lines # <<>> =>
                 LET s == Script(a, b, m) IN s # <<>> /\ s[Len(s)].op = "add" /\ ~ s[Len(s)].eol
<1> DEFINE la == Len(a.lines)
           lb == Len(b.lines)
           u == Parts(a, b, m)
           s == Script(a, b, m)
           q(i) == Reach(m, i)
<1>1. la \in Nat /\ lb \in Nat
  BY TextType
<1>2. /\ u \in Seq(Seq(Items)) /\ Len(u) = la + 1
      /\ \A i \in 1..(la + 1) : u[i] = Part(a, b, m, i)
      /\ (a.nl /\ b.nl) => u \in Seq(Seq(WithEol))
  BY PartsType
<1>3. s = FlattenSeq(u)
  BY ScriptIs
<1>4. (a.nl /\ b.nl) => s \in Seq(WithEol)
  <2> HIDE DEF u, s
  <2> QED
    BY <1>2, <1>3, FlattenType
<1>5. PICK F : FromPieces(F, u, Items)
  BY <1>2, FlattenSteps
<1> HIDE DEF u, s, la, lb
<1>6. /\ F[0] = <<>> /\ s = F[la + 1]
      /\ \A n \in Nat : n < la + 1 => F[n + 1] = F[n] \o u[n + 1]
      /\ \A n \in Nat : n <= la + 1 => F[n] \in Seq(Items)
  BY <1>2, <1>3, <1>5 DEF FromPieces
<1> DEFINE Good(i) == Old(F[i]) = SubSeq(a.lines, 1, i) /\ New(F[i]) = SubSeq(b.lines, 1, q(i))
           G == {i \in Nat : i <= la => Good(i)}
<1>7. 0 \in G
  <2>1. SubSeq(a.lines, 1, 0) = <<>> /\ SubSeq(b.lines, 1, 0) = <<>>
    <3>1. 1 \in Int /\ 0 \in Int /\ 0 < 1
      OBVIOUS
    <3> QED
      BY <3>1, SubSeqEmpty, Zenon
  <2>2. q(0) = 0
    BY ReachZero
  <2>3. Old(<<>>) = <<>> /\ New(<<>>) = <<>>
    BY SideEmpty DEF Old, New
  <2>4. Good(0)
    BY <1>6, <2>1, <2>2, <2>3
  <2> QED
    BY <2>4
<1>8. ASSUME NEW n \in Nat, n \in G PROVE n + 1 \in G
  <2>a. n + 1 \in Nat
    OBVIOUS
  <2> SUFFICES ASSUME n + 1 <= la PROVE Good(n + 1)
    BY <2>a, Zenon
  <2> DEFINE i == n + 1
             P == Part(a, b, m, i)
             p == Reach(m, n)
             r == Reach(m, i)
             l == a.lines[i]
  <2>1. n < la + 1 /\ n <= la /\ n <= la + 1 /\ i \in 1..la /\ i \in 1..(la + 1) /\ i - 1 = n
    BY <1>1
  <2>2. F[i] = F[n] \o P /\ F[n] \in Seq(Items)
    BY <1>2, <1>6, <2>1
  <2> HIDE DEF i
  <2>3. P \in Seq(Items) /\ Old(P) = <<l>> /\ p <= r /\ New(P) = SubSeq(b.lines, p + 1, r)
    <3>1. /\ P \in Seq(Items) /\ Old(P) = <<l>> /\ Reach(m, i - 1) <= r
          /\ New(P) = SubSeq(b.lines, Reach(m, i - 1) + 1, r)
      BY <2>1, PartIs DEF la
    <3> QED
      BY <2>1, <3>1
  <2>4. Good(n)
    BY <1>8, <2>1
  <2>5. Old(F[i]) = SubSeq(a.lines, 1, n) \o <<l>> /\ New(F[i]) = SubSeq(b.lines, 1, p) \o SubSeq(b.lines, p + 1, r)
    <3>1. Old(F[n]) = SubSeq(a.lines, 1, n) /\ New(F[n]) = SubSeq(b.lines, 1, p)
      BY <2>4
    <3> HIDE DEF P, p, r, l
    <3>2. Old(F[n] \o P) = Old(F[n]) \o Old(P) /\ New(F[n] \o P) = New(F[n]) \o New(P)
      BY <2>2, <2>3, OldNewConcat
    <3> QED
      BY <2>2, <2>3, <3>1, <3>2
  <2>6. SubSeq(a.lines, 1, i) = SubSeq(a.lines, 1, n) \o <<l>>
    <3>1. 1 \in 1..la /\ i \in 1..la
      BY <1>1, <2>1
    <3>2. SubSeq(a.lines, 1, i) = SubSeq(a.lines, 1, i - 1) \o <<a.lines[i]>>
      BY <3>1, TextType, SubSeqRecursiveSecond DEF la
    <3> QED
      BY <2>1, <3>2
  <2>7. SubSeq(b.lines, 1, p) \o SubSeq(b.lines, p + 1, r) = SubSeq(b.lines, 1, r)
    <3>1. p \in 0..lb /\ r \in 0..lb
      BY ReachIs DEF lb
    <3> HIDE DEF p, r
    <3>2. 1 \in 1..(lb + 1) /\ p \in (1 - 1)..lb /\ r \in p..lb
      BY <1>1, <2>3, <3>1
    <3> QED
      BY <3>2, TextType, ConcatAdjacentSubSeq DEF lb
  <2>8. Good(i)
    BY <2>5, <2>6, <2>7
  <2> HIDE DEF Good
  <2> QED
    BY <2>8 DEF i
<1>9. \A n \in Nat : n \in G
  <2> HIDE DEF G
  <2> QED
    BY <1>7, <1>8, Upward
<1>10. Old(F[la]) = a.lines /\ New(F[la]) = SubSeq(b.lines, 1, q(la)) /\ F[la] \in Seq(Items)
  <2>1. la <= la /\ la <= la + 1
    BY <1>1
  <2>2. Good(la)
    BY <1>1, <1>9, <2>1
  <2>3. SubSeq(a.lines, 1, la) = a.lines
    BY TextType, SubSeqFull DEF la
  <2> QED
    BY <1>1, <1>6, <2>1, <2>2, <2>3
<1> HIDE DEF G
<1> DEFINE P == Part(a, b, m, la + 1)
           r == Reach(m, la)
<1>11. s = F[la] \o P
  <2>1. la < la + 1 /\ la + 1 \in 1..(la + 1)
    BY <1>1
  <2> QED
    BY <1>1, <1>2, <1>6, <2>1
<1>12. /\ P = Adds(b, r, lb) /\ r \in 0..lb
       /\ P \in Seq(Items) /\ Old(P) = <<>> /\ New(P) = SubSeq(b.lines, r + 1, lb)
  BY LastPartIs DEF la, lb
<1>13. New(F[la]) = SubSeq(b.lines, 1, r)
  BY <1>10
<1> HIDE DEF P, r
<1>14. s \in Seq(Items)
  BY <1>10, <1>11, <1>12, ConcatProperties
<1>15. Old(s) = a.lines
  <2>1. Old(s) = Old(F[la]) \o Old(P)
    BY <1>10, <1>11, <1>12, OldNewConcat
  <2>2. a.lines \o <<>> = a.lines
    BY TextType, ConcatEmptySeq
  <2> QED
    BY <1>10, <1>12, <2>1, <2>2
<1>16. New(s) = b.lines
  <2>1. New(s) = New(F[la]) \o New(P)
    BY <1>10, <1>11, <1>12, OldNewConcat
  <2>2. SubSeq(b.lines, 1, r) \o SubSeq(b.lines, r + 1, lb) = SubSeq(b.lines, 1, lb)
    <3>1. 1 \in 1..(lb + 1) /\ r \in (1 - 1)..lb /\ lb \in r..lb
      BY <1>1, <1>12
    <3> QED
      BY <3>1, TextType, ConcatAdjacentSubSeq DEF lb
  <2>3. SubSeq(b.lines, 1, lb) = b.lines
    BY TextType, SubSeqFull DEF lb
  <2> QED
    BY <1>12, <1>13, <2>1, <2>2, <2>3
<1>17. ASSUME a.nl, ~ b.nl, b.lines # <<>> PROVE s # <<>> /\ s[Len(s)].op = "add" /\ ~ s[Len(s)].eol
  <2>1. lb \in Nat \ {0}
    BY <1>1, <1>17, TextType, EmptySeq DEF lb
  <2>2. \A x \in m : x[2] # lb
    <3> SUFFICES ASSUME NEW x \in m, x[2] = lb PROVE FALSE
      OBVIOUS
    <3>1. LineOf(a, x[1]) = LineOf(b, lb)
      BY MatchIs
    <3>2. LineOf(a, x[1]).eol /\ ~ LineOf(b, lb).eol
      <4>1. ~ (lb < Len(b.lines))
        BY <2>1 DEF lb
      <4> QED
        BY <1>17, <4>1 DEF LineOf
    <3> QED
      BY <3>1, <3>2
  <2>3. r < lb
    <3>1. r = 0 \/ \E x \in m : x[2] = r
      BY ReachIs DEF r
    <3>2. r # lb
      BY <2>1, <2>2, <3>1
    <3> QED
      BY <1>12, <2>1, <3>2
  <2> DEFINE k == lb - r
             z == Adds(b, r, lb)[k]
  <2>4. k \in 1..(lb - r) /\ r + k = lb /\ lb - r = k /\ k # 0 /\ k \in Nat
    BY <1>12, <2>1, <2>3
  <2>5. z = Item("add", LineOf(b, r + k))
    <3> HIDE DEF k
    <3> QED
      BY <2>4 DEF Adds
  <2> HIDE DEF k, z
  <2>6. z = Item("add", LineOf(b, lb)) /\ lb \in 1..Len(b.lines)
    BY <2>1, <2>4, <2>5 DEF lb
  <2>7. z.op = "add" /\ ~ z.eol
    <3>1. ~ (lb < Len(b.lines))
      BY <2>1 DEF lb
    <3> QED
      BY <1>17, <2>6, <3>1, ItemType DEF Ops
  <2>8. P # <<>> /\ Last(P) = z
    <3>1. DOMAIN P = 1..k /\ P[k] = z
      BY <1>12, <2>4 DEF Adds, z
    <3>2. Len(P) = k
      BY <1>12, <2>4, <3>1, LenProperties
    <3>3. P # <<>>
      BY <2>4, <3>2
    <3> QED
      BY <3>1, <3>2, <3>3 DEF Last
  <2>9. s # <<>> /\ Last(s) = Last(P)
    BY <1>10, <1>11, <1>12, <2>8, LastConcat
  <2> QED
    BY <2>7, <2>8, <2>9 DEF Last
<1> QED
  BY <1>4, <1>14, <1>15, <1>16, <1>17 DEF s

-----------------------------------------------------------------------------
(* A patch of plain changes.                                               *)

\* The lines of a text, joined, are that text.
LEMMA RenderIs ==
    ASSUME NEW b \in Texts, b # [lines |-> <<Blank>>, nl |-> TRUE], NEW tr \in BOOLEAN,
           b.lines # <<>> => tr = b.nl
    PROVE  Render(b.lines, tr) = b
<1>1. CASE b = Empty
  <2>1. b.lines = <<>>
    BY <1>1 DEF Empty
  <2> QED
    BY <1>1, <2>1 DEF Render
<1>2. CASE b # Empty
  <2>1. b \in [lines : Seq(Letters), nl : BOOLEAN] /\ b.lines # <<>> /\ (b.nl \/ Last(b.lines) # Blank)
    BY <1>2 DEF Texts
  <2>2. b = [lines |-> b.lines, nl |-> tr]
    BY <2>1
  <2>3. b.lines # <<Blank>>
    <3> SUFFICES ASSUME b.lines = <<Blank>> PROVE FALSE
      OBVIOUS
    <3>1. Last(b.lines) = Blank
      BY DEF Last
    <3>2. b.nl
      BY <2>1, <3>1
    <3>3. b.nl = TRUE
      BY <2>1, <3>2
    <3>4. b = [lines |-> <<Blank>>, nl |-> TRUE]
      BY <2>1, <2>2, <3>3
    <3> QED
      BY <3>4
  <2>4. tr \/ Last(b.lines) # Blank
    BY <2>1
  <2> QED
    BY <2>1, <2>2, <2>3, <2>4 DEF Render
<1> QED
  BY <1>1, <1>2

\* The end of a text whose last line the hunks may change.
LEMMA EndOfFile ==
    ASSUME NEW a \in Either, NEW b \in Either, NEW m \in Matchings(a, b), NEW c \in Nat, NEW raw,
           raw = RawHunks(Script(a, b, m), c), raw # <<>>, a.nl \/ ~ b.nl, b.lines # <<>>
    PROVE  (~ (Parsed(raw) # <<>> /\ Last(Parsed(raw)).no_trailing_newline) /\ a.nl) = b.nl
<1> DEFINE s == Script(a, b, m)
<1>1. /\ s \in Seq(Items)
      /\ (a.nl /\ b.nl) => s \in Seq(WithEol)
      /\ (a.nl /\ ~ b.nl /\ b.lines # <<>>) =>
            s # <<>> /\ s[Len(s)].op = "add" /\ ~ s[Len(s)].eol
  BY ScriptSides
<1>2. a.nl \in BOOLEAN /\ b.nl \in BOOLEAN
  BY TextType
<1> HIDE DEF s
<1>3. raw \in Seq(Raws(Items))
  BY <1>1, PiecesType DEF s
<1>4. Len(raw) \in DOMAIN raw
  BY <1>3, LenProperties, EmptySeq
<1>9. Parsed(raw) # <<>>
  <2>1. Len(raw) \in DOMAIN Parsed(raw)
    BY <1>4 DEF Parsed
  <2> QED
    BY <2>1
<1>5. Last(Parsed(raw)) = ParseHunk(Last(raw))
  <2>1. Len(Parsed(raw)) = Len(raw)
    BY <1>3, LenProperties DEF Parsed
  <2> QED
    BY <1>4, <2>1 DEF Parsed, Last
<1>6. CASE b.nl
  <2>1. a.nl /\ s \in Seq(WithEol)
    BY <1>1, <1>2, <1>6
  <2>2. ~ ParseHunk(raw[Len(raw)]).no_trailing_newline
    BY <1>4, <2>1, NoMark DEF s
  <2> QED
    BY <1>2, <1>5, <1>6, <1>9, <2>1, <2>2 DEF Last
<1>7. CASE ~ b.nl /\ ~ a.nl
  BY <1>2, <1>7
<1>8. CASE ~ b.nl /\ a.nl
  <2>1. s # <<>> /\ s[Len(s)].op # "keep" /\ ~ s[Len(s)].eol
    BY <1>1, <1>8
  <2>2. ParseHunk(Last(raw)).no_trailing_newline
    BY <1>1, <2>1, Mark DEF s
  <2> QED
    BY <1>2, <1>5, <1>8, <1>9, <2>2
<1> QED
  BY <1>6, <1>7, <1>8

\* What the parser makes of what git prints for one file.
HunksOf(a, b, m, c) == RawHunks(Script(a, b, m), c)
PatchOf(path, a, b, m, c) == FilePatch(<<GitSection(path, a, b, m, c)>>)

\* The file patch f is that of the hunks raw, from text a to text b of the path.
Says(f, path, a, b, raw) ==
    /\ f.old_path = (IF a # NoFile THEN {path} ELSE {})
    /\ f.new_path = (IF b # NoFile THEN {path} ELSE {})
    /\ f.is_new_file = (a = NoFile)
    /\ f.is_deleted_file = (b = NoFile)
    /\ f.hunks = Parsed(raw)

LEMMA OneFile ==
    ASSUME NEW path, NEW a, NEW b, NEW m, NEW c, HunksOf(a, b, m, c) # <<>>, a # b
    PROVE  Says(PatchOf(path, a, b, m, c), path, a, b, HunksOf(a, b, m, c))
<1> DEFINE sec == GitSection(path, a, b, m, c)
           raw == HunksOf(a, b, m, c)
           old == IF a # NoFile THEN {path} ELSE {}
           new == IF b # NoFile THEN {path} ELSE {}
<1>1. /\ sec.old = old /\ sec.new = new /\ sec.hunks = raw
      /\ sec.new_file = (a = NoFile) /\ sec.deleted = (b = NoFile)
  BY DEF GitSection, HunksOf
<1> HIDE DEF sec
<1>2. Max({1}) = 1
  <2> DEFINE S == {1}
  <2>1. S \in SUBSET (0..1) /\ S # {} /\ 1 \in Nat /\ \A x \in S : x = 1
    OBVIOUS
  <2> HIDE DEF S
  <2>2. Max(S) \in S
    BY <2>1, MaxIs
  <2> QED
    BY <2>1, <2>2 DEF S
<1> DEFINE part == <<sec>>
           Name(g) == LET given == {i \in DOMAIN part : g[i] # {}}
                      IN  IF given = {} THEN {} ELSE g[Max(given)]
           olds == [i \in DOMAIN part |-> part[i].old]
           news == [i \in DOMAIN part |-> part[i].new]
           made == \E i \in DOMAIN part : part[i].new_file
           gone == \E i \in DOMAIN part : part[i].deleted
           f == FilePatch(part)
<1>3. DOMAIN part = {1} /\ part[1] = sec /\ Last(part) = sec
  BY DEF Last
<1> HIDE DEF part
<1>4. ASSUME NEW g PROVE Name(g) = g[1]
  <2>1. CASE g[1] = {}
    <3>1. {i \in DOMAIN part : g[i] # {}} = {}
      BY <1>3, <2>1
    <3> QED
      BY <2>1, <3>1
  <2>2. CASE g[1] # {}
    <3>1. {i \in DOMAIN part : g[i] # {}} = {1}
      BY <1>3, <2>2
    <3> QED
      BY <1>2, <3>1
  <2> QED
    BY <2>1, <2>2
<1> HIDE DEF Name
<1>5. /\ f.old_path = Name(olds) /\ f.new_path = Name(news)
      /\ f.is_new_file = (made \/ (Name(olds) = {} /\ Name(news) # {}))
      /\ f.is_deleted_file = (gone \/ (Name(news) = {} /\ Name(olds) # {}))
      /\ f.hunks = [i \in DOMAIN Last(part).hunks |-> ParseHunk(Last(part).hunks[i])]
  BY DEF FilePatch, Name
<1>6. Name(olds) = old /\ Name(news) = new
  BY <1>1, <1>3, <1>4
<1>7. f.hunks = Parsed(raw)
  BY <1>1, <1>3, <1>5 DEF Parsed
<1>8. (made <=> a = NoFile) /\ (gone <=> b = NoFile)
  <2>1. (made <=> sec.new_file) /\ (gone <=> sec.deleted)
    BY <1>3
  <2> QED
    BY <1>1, <2>1
<1>9. (old = {} <=> a = NoFile) /\ (new = {} <=> b = NoFile)
  OBVIOUS
<1> HIDE DEF old, new, olds, news, made, gone, f
<1>10. f.is_new_file = (made \/ (old = {} /\ new # {}))
  BY <1>5, <1>6
<1>11. f.is_deleted_file = (gone \/ (new = {} /\ old # {}))
  BY <1>5, <1>6
<1>12. f.is_new_file = (a = NoFile) /\ f.is_deleted_file = (b = NoFile)
  BY <1>8, <1>9, <1>10, <1>11
<1>13. f = PatchOf(path, a, b, m, c)
  BY DEF f, part, sec, PatchOf
<1> QED
  BY <1>5, <1>6, <1>7, <1>12, <1>13 DEF old, new, raw, Says

\* The file patch of a plain change makes the new text of the old one.
Again(ch) == PatchOf(ch.path, ch.old, ch.new, ch.kept, ch.context)

LEMMA MadeAgain ==
    ASSUME NEW paths, NEW ch \in Changes(paths), Plain(ch)
    PROVE  /\ PathOf(Again(ch)) = {ch.path} /\ Again(ch).is_new_file = (ch.old = NoFile)
           /\ ~ Again(ch).is_new_file => Again(ch).old_path = {ch.path}
           /\ FileOutcome(Again(ch), ch.old) = [ok |-> TRUE, text |-> ch.new]
<1> DEFINE a == ch.old
           b == ch.new
           m == ch.kept
           c == ch.context
           path == ch.path
           s == Script(a, b, m)
           raw == HunksOf(a, b, m, c)
           f == PatchOf(path, a, b, m, c)
<1>1. a \in Either /\ b \in Either /\ m \in Matchings(a, b) /\ c \in Nat /\ a # b
  BY DEF Changes, Either
<1>2. /\ raw # <<>>
      /\ \A k \in DOMAIN raw : Fit(raw[k])
      /\ b # NoFile => (a.nl \/ ~ b.nl) /\ b # [lines |-> <<Blank>>, nl |-> TRUE]
  BY DEF Plain, Fit, HunksOf
<1>0. raw = RawHunks(s, c) /\ s = Script(a, b, m)
  BY DEF HunksOf
<1>f. f = Again(ch)
  BY DEF Again
<1> HIDE DEF a, b, m, c, path
<1>3. /\ f.old_path = (IF a # NoFile THEN {path} ELSE {})
      /\ f.new_path = (IF b # NoFile THEN {path} ELSE {})
      /\ f.is_new_file = (a = NoFile) /\ f.is_deleted_file = (b = NoFile)
      /\ f.hunks = Parsed(raw)
  <2>1. a # b /\ HunksOf(a, b, m, c) # <<>>
    BY <1>1, <1>2
  <2>2. Says(f, path, a, b, raw)
    BY <2>1, OneFile
  <2> HIDE DEF f, raw
  <2> QED
    BY <2>2 DEF Says
<1> HIDE DEF f, raw, s
<1>4. PathOf(f) = {path}
  BY <1>1, <1>3 DEF PathOf
<1>5. ~ f.is_new_file => f.old_path = {path}
  BY <1>3
<1>6. FileOutcome(f, a) = [ok |-> TRUE, text |-> b]
  <2>1. CASE b = NoFile
    <3>1. f.is_deleted_file /\ f.old_path # {}
      BY <1>1, <1>3, <2>1
    <3> QED
      BY <2>1, <3>1 DEF FileOutcome
  <2>2. CASE b # NoFile
    <3>1. s \in Seq(Items) /\ Old(s) = a.lines /\ New(s) = b.lines
      BY <1>0, <1>1, ScriptSides
    <3>2. AllFit(raw)
      BY <1>2 DEF AllFit
    <3>3. ApplyHunks(a.lines, Parsed(raw)) = [ok |-> TRUE, lines |-> b.lines]
      <4>1. AllFit(RawHunks(s, c))
        BY <1>0, <3>2
      <4>2. ApplyHunks(Old(s), Parsed(RawHunks(s, c))) = [ok |-> TRUE, lines |-> New(s)]
        BY <1>1, <3>1, <4>1, HunksLand
      <4> QED
        BY <1>0, <3>1, <4>2
    <3> DEFINE tr == ~ NoNewline(f) /\ a.nl
    <3>4. b.lines # <<>> => tr = b.nl
      <4> SUFFICES ASSUME b.lines # <<>> PROVE tr = b.nl
        OBVIOUS
      <4>1. (~ (Parsed(raw) # <<>> /\ Last(Parsed(raw)).no_trailing_newline) /\ a.nl) = b.nl
        <5>1. a.nl \/ ~ b.nl
          BY <1>2, <2>2
        <5>2. raw = RawHunks(Script(a, b, m), c)
          BY <1>0
        <5> QED
          BY <1>1, <1>2, <5>1, <5>2, EndOfFile
      <4> QED
        BY <1>3, <4>1 DEF NoNewline
    <3>5. Render(b.lines, tr) = b
      <4>1. b \in Texts /\ tr \in BOOLEAN
        <5>1. a.nl \in BOOLEAN
          BY <1>1, TextType
        <5> QED
          BY <1>1, <2>2, <5>1 DEF Either
      <4> HIDE DEF tr
      <4> QED
        BY <1>2, <2>2, <3>4, <4>1, RenderIs
    <3>t. a = NoFile => a.lines = <<>> /\ (tr = ~ NoNewline(f))
      BY DEF NoFile
    <3>n. (a = NoFile) => FileOutcome(f, a) = BuildNewContent(f.hunks, <<>>, ~ NoNewline(f))
      BY <1>3, <1>4, <2>2 DEF FileOutcome
    <3>m. (a # NoFile) => FileOutcome(f, a) = BuildNewContent(f.hunks, a.lines, tr)
      BY <1>3, <1>4, <2>2 DEF FileOutcome
    <3> HIDE DEF tr
    <3>6. BuildNewContent(Parsed(raw), a.lines, tr) = [ok |-> TRUE, text |-> b]
      <4> DEFINE r == ApplyHunks(a.lines, Parsed(raw))
      <4>1. BuildNewContent(Parsed(raw), a.lines, tr) = [ok |-> r.ok, text |-> Render(r.lines, tr)]
        BY DEF BuildNewContent
      <4>2. r = [ok |-> TRUE, lines |-> b.lines]
        BY <3>3
      <4> HIDE DEF r
      <4>3. r.ok = TRUE /\ r.lines = b.lines
        BY <4>2
      <4> QED
        BY <3>5, <4>1, <4>3
    <3>7. FileOutcome(f, a) = BuildNewContent(Parsed(raw), a.lines, tr)
      BY <1>3, <3>t, <3>n, <3>m
    <3> QED
      BY <3>6, <3>7
  <2> QED
    BY <2>1, <2>2
<1>7. f.is_new_file = (a = NoFile)
  BY <1>3
<1> QED
  BY <1>4, <1>5, <1>6, <1>7, <1>f DEF a, b, path

\* The last section of the file patch that starts at n: n itself, if every section
\* has hunks.
EndIn(sections, n) ==
    CHOOSE k \in n..Len(sections) :
        /\ k = Len(sections) \/ k + 1 \in FileStarts(sections)
        /\ \A i \in (n + 1)..k : i \notin FileStarts(sections)

LEMMA OneForEach ==
    ASSUME NEW S, NEW sections \in Seq(S), \A i \in DOMAIN sections : sections[i].hunks # <<>>
    PROVE  FromDiff(sections) = [n \in DOMAIN sections |-> FilePatch(<<sections[n]>>)]
<1> DEFINE len == Len(sections)
           g == [n \in 1..len |-> FilePatch(<<sections[n]>>)]
<1>1. len \in Nat /\ DOMAIN sections = 1..len
  BY LenProperties
<1>2. FileStarts(sections) = 1..len
  <2>1. \A i \in 1..len : i # 1 => i - 1 \in 1..len
    BY <1>1
  <2> QED
    BY <1>1, <2>1 DEF FileStarts
<1>3. ASSUME NEW n \in 1..len PROVE EndIn(sections, n) = n
  <2> DEFINE Fits(k) == /\ k = len \/ k + 1 \in 1..len
                        /\ \A i \in (n + 1)..k : i \notin 1..len
  <2> DEFINE found == CHOOSE k \in n..len : Fits(k)
  <2>1. EndIn(sections, n) = found
    BY <1>2 DEF EndIn
  <2>2. n \in n..len /\ Fits(n)
    <3>1. len \in Nat /\ n \in 1..len
      BY <1>1
    <3> HIDE DEF len
    <3>2. n \in n..len /\ (n = len \/ n + 1 \in 1..len)
      BY <3>1
    <3>3. \A i \in (n + 1)..n : FALSE
      BY <3>1
    <3> QED
      BY <3>2, <3>3
  <2>3. ASSUME NEW k \in n..len, Fits(k) PROVE k = n
    <3>1. ASSUME k # n PROVE FALSE
      <4>1. n + 1 \in (n + 1)..k /\ n + 1 \in 1..len
        BY <1>1, <3>1
      <4> QED
        BY <2>3, <4>1
    <3> QED
      BY <3>1
  <2> HIDE DEF Fits
  <2>4. found = n
    BY <2>2, <2>3
  <2> HIDE DEF found
  <2> QED
    BY <2>1, <2>4
<1>4. ASSUME NEW n \in 1..len PROVE SubSeq(sections, n, EndIn(sections, n)) = <<sections[n]>>
  <2>1. n \in n..len
    BY <1>1
  <2>2. SubSeq(sections, n, n) = <<sections[n]>> \o SubSeq(sections, n + 1, n)
    BY <1>1, <2>1, SubSeqRecursiveFirst
  <2>3. SubSeq(sections, n + 1, n) = <<>>
    <3>1. n + 1 \in Int /\ n \in Int /\ n < n + 1
      BY <1>1
    <3> QED
      BY <3>1, SubSeqEmpty, Zenon
  <2>4. <<sections[n]>> \in Seq(S)
    BY ElementOfSeq
  <2> DEFINE x == <<sections[n]>>
  <2> HIDE DEF x
  <2>5. x \o <<>> = x
    BY <2>4, ConcatEmptySeq DEF x
  <2> QED
    BY <1>3, <2>2, <2>3, <2>5 DEF x
<1>5. g \in Seq({g[n] : n \in 1..len}) /\ DOMAIN g = 1..len
  BY <1>1
<1>6. FromDiff(sections) = FlattenSeq([n \in 1..len |->
          IF n \in 1..len THEN <<FilePatch(SubSeq(sections, n, EndIn(sections, n)))>> ELSE <<>>])
  BY <1>1, <1>2 DEF FromDiff, EndIn
<1>7. [n \in 1..len |-> IF n \in 1..len THEN <<FilePatch(SubSeq(sections, n, EndIn(sections, n)))>> ELSE <<>>]
          = [n \in DOMAIN g |-> <<g[n]>>]
  BY <1>4, <1>5
<1> HIDE DEF g
<1>8. FlattenSeq([n \in DOMAIN g |-> <<g[n]>>]) = g
  BY <1>5, FlattenSingles
<1> QED
  BY <1>1, <1>6, <1>7, <1>8 DEF g

-----------------------------------------------------------------------------
(* What git prints for plain changes, applied to the files it was made of. *)

\* Every change is a file patch of its own.
LEMMA MadeFiles ==
    ASSUME Static, NEW p \in Procs, Made(p)
    PROVE  /\ DOMAIN job[p].files = DOMAIN job[p].changes /\ job[p].changes # <<>>
           /\ job[p].changes \in Seq(Changes(Paths))
           /\ \A i \in DOMAIN job[p].files : job[p].files[i] = Again(job[p].changes[i])
           /\ \A i, k \in DOMAIN job[p].files :
                 job[p].changes[i].path = job[p].changes[k].path => i = k
<1> DEFINE chs == job[p].changes
           secs == Printed(chs)
           S == {secs[i] : i \in DOMAIN chs}
<1>1. /\ chs \in Seq(Changes(Paths)) /\ job[p].files = FromDiff(secs)
      /\ \A i, k \in DOMAIN chs : chs[i].path = chs[k].path => i = k
  BY DiffsAssumption DEF Static
<1>2. chs # <<>> /\ \A i \in DOMAIN chs : Plain(chs[i])
  BY DEF Made
<1> HIDE DEF chs
<1>3. /\ DOMAIN secs = DOMAIN chs
      /\ \A i \in DOMAIN chs :
            secs[i] = GitSection(chs[i].path, chs[i].old, chs[i].new, chs[i].kept, chs[i].context)
  BY DEF Printed
<1> HIDE DEF secs
<1>4. \A i \in DOMAIN chs : secs[i].hunks # <<>>
  BY <1>2, <1>3 DEF Plain, GitSection
<1>5. secs \in Seq(S)
  <2>1. DOMAIN chs = 1..Len(chs) /\ Len(chs) \in Nat
    BY <1>1, LenProperties
  <2>2. secs = [i \in 1..Len(chs) |-> secs[i]]
    BY <1>3, <2>1 DEF secs, Printed
  <2>3. \A i \in 1..Len(chs) : secs[i] \in S
    BY <2>1
  <2>4. secs \in [1..Len(chs) -> S]
    BY <2>2, <2>3
  <2> HIDE DEF S
  <2> QED
    BY <2>1, <2>4, SeqDef
<1> HIDE DEF S
<1>6. FromDiff(secs) = [n \in DOMAIN secs |-> FilePatch(<<secs[n]>>)]
  BY <1>3, <1>4, <1>5, OneForEach
<1>7. \A i \in DOMAIN chs : FilePatch(<<secs[i]>>) = Again(chs[i])
  BY <1>3 DEF Again, PatchOf
<1>8. /\ DOMAIN job[p].files = DOMAIN chs
      /\ \A i \in DOMAIN chs : job[p].files[i] = Again(chs[i])
  BY <1>1, <1>3, <1>6, <1>7
<1> QED
  BY <1>1, <1>2, <1>8 DEF chs

\* Each of them makes the new text of the file that is there.
LEMMA MadeOutcome ==
    ASSUME Static, NEW p \in Procs, Made(p), NEW i \in DOMAIN job[p].files
    PROVE  /\ PathOf(job[p].files[i]) = {job[p].changes[i].path}
           /\ LooksFor(job[p].files[i]) \subseteq {job[p].changes[i].path}
           /\ \A q \in LooksFor(job[p].files[i]) : start[q] # NoFile
           /\ Outcome(p, i) = [ok |-> TRUE, text |-> job[p].changes[i].new]
<1> DEFINE chs == job[p].changes
           f == job[p].files[i]
           ch == chs[i]
<1>1. i \in DOMAIN chs /\ f = Again(ch) /\ ch \in Changes(Paths)
  BY MadeFiles
<1>2. Plain(ch) /\ start[ch.path] = ch.old
  BY <1>1 DEF Made
<1>3. ch.path \in Paths
  BY <1>1 DEF Changes
<1>d. Outcome(p, i) = FileOutcome(f, start[CHOOSE q \in Paths : q \in PathOf(f)])
  BY DEF Outcome, Before
<1> HIDE DEF ch, f
<1>4. /\ PathOf(Again(ch)) = {ch.path} /\ Again(ch).is_new_file = (ch.old = NoFile)
      /\ ~ Again(ch).is_new_file => Again(ch).old_path = {ch.path}
      /\ FileOutcome(Again(ch), ch.old) = [ok |-> TRUE, text |-> ch.new]
  BY <1>1, <1>2, MadeAgain
<1>5. PathOf(f) = {ch.path} /\ FileOutcome(f, ch.old) = [ok |-> TRUE, text |-> ch.new]
  BY <1>1, <1>4
<1>6. LooksFor(f) \subseteq {ch.path} /\ \A q \in LooksFor(f) : start[q] # NoFile
  <2>1. CASE ch.old = NoFile
    BY <1>1, <1>4, <2>1 DEF LooksFor
  <2>2. CASE ch.old # NoFile
    BY <1>1, <1>2, <1>4, <2>2 DEF LooksFor
  <2> QED
    BY <2>1, <2>2
<1>7. (CHOOSE q \in Paths : q \in PathOf(f)) = ch.path
  BY <1>3, <1>5
<1>8. Outcome(p, i) = [ok |-> TRUE, text |-> ch.new]
  BY <1>2, <1>5, <1>7, <1>d
<1> QED
  BY <1>5, <1>6, <1>8 DEF ch, f

\* Hence a patch alone with its files is not refused, and what it has done when it
\* is done is all that was asked.
LEMMA InvRoundTrip == IInv => RoundTrip
<1> SUFFICES ASSUME IInv, NEW p \in Procs, Made(p), Alone(p)
             PROVE  /\ pc[p] # "failed"
                    /\ pc[p] = "done" /\ ~ job[p].dry =>
                          \A i \in DOMAIN job[p].changes :
                              disk[job[p].changes[i].path] = job[p].changes[i].new
  BY DEF RoundTrip
<1>1. TypeOK /\ Static /\ Passed(p) /\ PrefixApplied
  BY DEF IInv, Each
<1>2. DOMAIN job[p].files = DOMAIN job[p].changes /\ job[p].files # <<>>
  <2>1. DOMAIN job[p].files = DOMAIN job[p].changes /\ job[p].changes # <<>>
    BY <1>1, MadeFiles
  <2>2. job[p].changes \in Seq(Changes(Paths))
    BY <1>1, MadeFiles
  <2> DEFINE chs == job[p].changes
             C == Changes(Paths)
  <2>c. chs \in Seq(C) /\ chs # <<>>
    BY <2>1, <2>2
  <2> HIDE DEF chs, C
  <2>3. DOMAIN chs = 1..Len(chs) /\ Len(chs) \in Nat \ {0}
    BY <2>c, EmptySeq, LenProperties
  <2>4. 1 \in 1..Len(chs)
    BY <2>3
  <2>5. DOMAIN chs # {}
    BY <2>3, <2>4
  <2> QED
    BY <2>1, <2>5 DEF chs
<1>3. ASSUME NEW i \in DOMAIN job[p].files
      PROVE  /\ PathOf(job[p].files[i]) = {job[p].changes[i].path}
             /\ LooksFor(job[p].files[i]) \subseteq {job[p].changes[i].path}
             /\ \A q \in LooksFor(job[p].files[i]) : start[q] # NoFile
             /\ Outcome(p, i) = [ok |-> TRUE, text |-> job[p].changes[i].new]
  BY <1>1, MadeOutcome
<1>4. Distinct(p)
  <2>1. ASSUME NEW i \in DOMAIN job[p].files, NEW k \in DOMAIN job[p].files,
               PathOf(job[p].files[i]) = PathOf(job[p].files[k])
        PROVE  i = k
    <3>1. job[p].changes[i].path = job[p].changes[k].path
      BY <1>3, <2>1
    <3> QED
      BY <1>1, <3>1, MadeFiles
  <2>2. ASSUME NEW i \in DOMAIN job[p].files
        PROVE  PathOf(job[p].files[i]) # {} /\ LooksFor(job[p].files[i]) \subseteq PathOf(job[p].files[i])
    BY <1>3
  <2> QED
    BY <2>1, <2>2 DEF Distinct
<1>5. ~ Why(p)
  <2>1. \A i \in DOMAIN job[p].files : Outcome(p, i).ok
    BY <1>3
  <2>2. \A i \in DOMAIN job[p].files : \A q \in LooksFor(job[p].files[i]) : start[q] # NoFile
    BY <1>3
  <2> QED
    BY <1>2, <2>1, <2>2 DEF Why
<1>6. pc[p] # "failed"
  BY <1>1, <1>4, <1>5 DEF Passed
<1>7. ASSUME pc[p] = "done", ~ job[p].dry, NEW i \in DOMAIN job[p].changes
      PROVE  disk[job[p].changes[i].path] = job[p].changes[i].new
  <2>1. i \in DOMAIN job[p].files /\ i < at[p]
    <3>1. at[p] > Len(job[p].files)
      BY <1>1, <1>4, <1>7 DEF Passed
    <3>2. i \in 1..Len(job[p].files) /\ Len(job[p].files) \in Nat /\ at[p] \in Nat
      BY <1>1, <1>2, <1>7, Asked DEF TypeOK
    <3> QED
      BY <1>2, <1>7, <3>1, <3>2
  <2>2. job[p].changes[i].path \in PathOf(job[p].files[i])
    BY <1>3, <2>1
  <2>3. disk[job[p].changes[i].path] = Outcome(p, i).text
    BY <1>1, <1>4, <1>7, <2>1, <2>2 DEF PrefixApplied
  <2>4. Outcome(p, i) = [ok |-> TRUE, text |-> job[p].changes[i].new]
    BY <1>3, <2>1
  <2> QED
    BY <2>3, <2>4
<1> QED
  BY <1>6, <1>7

\* "Generate patches with `git diff`" (mcp-tools/src/patch_apply.rs:49): of every
\* size of text and for every edit script, a diff the engine can make exactly is
\* applied, to the files it was made from, without a refusal and with the result it
\* was printed for.
THEOREM DiffsAreApplied == Spec => []RoundTrip
BY Invariance, InvRoundTrip, PTL
===============================================================================
