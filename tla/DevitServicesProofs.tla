--------------------------- MODULE DevitServicesProofs ---------------------------
(***************************************************************************)
(* Proofs about the smaller parts: the bound of the screenshot limiter,    *)
(* the outcomes of the local backend, the approval of patches, the slot of *)
(* the worker bridge and the acknowledgement of notifications.             *)
(***************************************************************************)
EXTENDS DevitScreenshots, DevitLocal, DevitWorkerBridge, DevitGate, DevitAckHandshake,
        FiniteSetTheorems, TLAPS

-----------------------------------------------------------------------------
(* The limiter: the queue is the end of the sequence of accepted jobs, and *)
(* what was popped is older than the window.                               *)

PoppedIsOld ==
    \E k \in 0..Len(accepted) :
        /\ Len(history) = Len(accepted) - k
        /\ \A i \in 1..Len(history) : history[i] = accepted[k + i]
        /\ \A i \in 1..k : Old(accepted[i])

ShotInv ==
    /\ rate_limit \in [max_actions : Nat, per_seconds : Nat]
    /\ instant \in Nat /\ history \in Seq(Nat) /\ accepted \in Seq(Nat)
    /\ \A i \in 1..Len(accepted) : accepted[i] <= instant
    /\ ~ Unlimited => PoppedIsOld

\* A job is accepted when fewer than max_actions are in the queue, so the one
\* max_actions before it was popped (prepare_job).
LEMMA AcceptedApart ==
    ASSUME ShotInv, RateBound, PrepareJob
    PROVE  ShotInv' /\ RateBound'
<1> USE DEF ShotInv
<1>1. PICK n \in Popped(history) :
          LET rest == SubSeq(history, n + 1, Len(history))
          IN  \/ /\ rate_limit.max_actions = 0 \/ Len(rest) < rate_limit.max_actions
                 /\ history' = Append(rest, instant)
                 /\ accepted' = Append(accepted, instant)
              \/ history' = rest /\ UNCHANGED accepted
  BY DEF PrepareJob
<1> DEFINE rest == SubSeq(history, n + 1, Len(history))
<1>2. rate_limit' = rate_limit /\ instant' = instant
  BY DEF PrepareJob
<1>3. n \in 0..Len(history)
  BY DEF Popped
<1>4. /\ rest \in Seq(Nat) /\ Len(rest) = Len(history) - n
      /\ \A i \in 1..Len(rest) : rest[i] = history[n + i]
  BY <1>3
<1> HIDE DEF rest
<1>5. Unlimited' <=> Unlimited
  BY <1>2 DEF Unlimited
<1>6. ASSUME ~ Unlimited
      PROVE  \E k \in 0..Len(accepted) :
                /\ Len(rest) = Len(accepted) - k
                /\ \A i \in 1..Len(rest) : rest[i] = accepted[k + i]
                /\ \A i \in 1..k : Old(accepted[i])
  <2>1. PICK k \in 0..Len(accepted) :
            /\ Len(history) = Len(accepted) - k
            /\ \A i \in 1..Len(history) : history[i] = accepted[k + i]
            /\ \A i \in 1..k : Old(accepted[i])
    BY <1>6 DEF PoppedIsOld
  <2>2. \A i \in 1..n : Old(history[i])
    BY <1>6 DEF Popped
  <2>3. k + n \in 0..Len(accepted) /\ Len(rest) = Len(accepted) - (k + n)
    BY <2>1, <1>3, <1>4
  <2>4. ASSUME NEW i \in 1..Len(rest)
        PROVE  rest[i] = accepted[(k + n) + i]
    <3>1. rest[i] = history[n + i]
      BY <1>4
    <3>2. n + i \in 1..Len(history)
      BY <1>3, <1>4
    <3>3. history[n + i] = accepted[k + (n + i)]
      BY <3>2, <2>1
    <3>4. k + (n + i) = (k + n) + i
      BY <1>3, <2>1
    <3> QED BY <3>1, <3>3, <3>4
  <2>5. ASSUME NEW i \in 1..(k + n)
        PROVE  Old(accepted[i])
    <3>1. CASE i <= k
      BY <3>1, <2>1
    <3>2. CASE i > k
      <4>1. i - k \in 1..n /\ i - k \in 1..Len(history) /\ k + (i - k) = i
        BY <3>2, <1>3, <2>1
      <4> QED BY <4>1, <2>1, <2>2
    <3> QED BY <3>1, <3>2, <2>1, <1>3
  <2> QED BY <2>3, <2>4, <2>5
<1>7. CASE history' = rest /\ UNCHANGED accepted
  <2>1. ~ Unlimited => PoppedIsOld'
    BY <1>6, <1>7, <1>2 DEF PoppedIsOld, Old
  <2>2. RateBound'
    BY <1>5, <1>7, <1>2 DEF RateBound
  <2> QED BY <2>1, <2>2, <1>2, <1>4, <1>5, <1>7
<1>8. CASE /\ rate_limit.max_actions = 0 \/ Len(rest) < rate_limit.max_actions
           /\ history' = Append(rest, instant)
           /\ accepted' = Append(accepted, instant)
  <2> DEFINE m == Len(accepted)
  <2>1. /\ accepted' \in Seq(Nat) /\ Len(accepted') = m + 1 /\ accepted'[m + 1] = instant
        /\ \A i \in 1..m : accepted'[i] = accepted[i]
    BY <1>8
  <2>2. /\ history' \in Seq(Nat) /\ Len(history') = Len(rest) + 1
        /\ history'[Len(rest) + 1] = instant
        /\ \A i \in 1..Len(rest) : history'[i] = rest[i]
    BY <1>8, <1>4
  <2>3. ASSUME NEW i \in 1..Len(accepted')
        PROVE  accepted'[i] <= instant'
    <3>1. CASE i = m + 1
      BY <3>1, <2>1, <1>2
    <3>2. CASE i \in 1..m
      BY <3>2, <2>1, <1>2
    <3> QED BY <3>1, <3>2, <2>1
  <2>4. ASSUME ~ Unlimited
        PROVE  PoppedIsOld'
    <3>1. PICK k \in 0..Len(accepted) :
              /\ Len(rest) = Len(accepted) - k
              /\ \A i \in 1..Len(rest) : rest[i] = accepted[k + i]
              /\ \A i \in 1..k : Old(accepted[i])
      BY <1>6, <2>4
    <3>2. k \in 0..Len(accepted') /\ Len(history') = Len(accepted') - k
      BY <3>1, <2>1, <2>2, <1>4
    <3>3. ASSUME NEW i \in 1..Len(history')
          PROVE  history'[i] = accepted'[k + i]
      <4>1. CASE i \in 1..Len(rest)
        BY <4>1, <3>1, <2>1, <2>2, <1>4
      <4>2. CASE i = Len(rest) + 1
        BY <4>2, <3>1, <2>1, <2>2, <1>4
      <4> QED BY <4>1, <4>2, <2>2, <1>4
    <3>4. ASSUME NEW i \in 1..k
          PROVE  Old(accepted[i])'
      <4>1. Old(accepted[i]) /\ i \in 1..m
        BY <3>1
      <4>2. accepted'[i] = accepted[i]
        BY <4>1, <2>1
      <4> QED BY <4>1, <4>2, <1>2 DEF Old
    <3> QED BY <3>2, <3>3, <3>4 DEF PoppedIsOld
  <2>5. ASSUME ~ Unlimited, NEW i \in 1..Len(accepted'),
               i + rate_limit.max_actions <= Len(accepted')
        PROVE  accepted'[i + rate_limit.max_actions] - accepted'[i] > rate_limit.per_seconds
    <3> DEFINE last == i + rate_limit.max_actions
    <3>1. rate_limit.max_actions \in Nat \ {0}
      BY <2>5 DEF Unlimited
    <3>2. CASE last <= m
      <4>1. i \in 1..m /\ last \in 1..m
        BY <3>1, <3>2, <2>5
      <4>2. accepted[last] - accepted[i] > rate_limit.per_seconds
        BY <4>1, <3>2, <2>5 DEF RateBound
      <4> QED BY <4>1, <4>2, <2>1
    <3>3. CASE last = m + 1
      <4>1. PICK k \in 0..Len(accepted) :
                /\ Len(rest) = Len(accepted) - k
                /\ \A j \in 1..k : Old(accepted[j])
        BY <1>6, <2>5
      <4>2. Len(rest) < rate_limit.max_actions
        BY <1>8, <3>1
      <4>3. i <= k
        BY <4>1, <4>2, <3>1, <3>3, <1>4
      <4>5. i \in 1..k /\ i \in 1..m
        BY <4>1, <4>3
      <4>4. instant - accepted[i] > rate_limit.per_seconds
        BY <4>1, <4>5 DEF Old
      <4> QED BY <4>5, <4>4, <3>3, <2>1
    <3> QED BY <3>1, <3>2, <3>3, <2>1, <2>5
  <2>6. RateBound'
    BY <2>5, <1>2, <1>5 DEF RateBound
  <2> QED BY <2>1, <2>2, <2>3, <2>4, <2>6, <1>2, <1>5
<1> QED BY <1>1, <1>7, <1>8 DEF rest

\* Of max_actions + 1 accepted screenshots, the last is later than the first by
\* more than the window, for every configuration (main.rs, prepare_job).
THEOREM LimitHolds == ShotSpec => []RateBound
<1>1. ShotInit => ShotInv /\ RateBound
  BY ScreenshotAssumption DEF ShotInit, ShotInv, RateBound, PoppedIsOld, Old
<1>2. ShotInv /\ RateBound /\ [ShotNext]_shotVars => ShotInv' /\ RateBound'
  <2> SUFFICES ASSUME ShotInv, RateBound, [ShotNext]_shotVars
               PROVE  ShotInv' /\ RateBound'
    OBVIOUS
  <2>1. CASE PrepareJob
    BY <2>1, AcceptedApart
  <2>2. CASE Tick
    <3>1. /\ instant' = instant + 1
          /\ UNCHANGED <<rate_limit, history, accepted>>
      BY <2>2 DEF Tick
    <3>2. Unlimited' <=> Unlimited
      BY <3>1 DEF Unlimited
    <3>3. RateBound'
      BY <3>1, <3>2 DEF RateBound
    <3>4. ASSUME ~ Unlimited
          PROVE  PoppedIsOld'
      <4>1. PICK k \in 0..Len(accepted) :
                /\ Len(history) = Len(accepted) - k
                /\ \A i \in 1..Len(history) : history[i] = accepted[k + i]
                /\ \A i \in 1..k : Old(accepted[i])
        BY <3>4 DEF ShotInv, PoppedIsOld
      <4>2. \A i \in 1..k : Old(accepted[i])'
        <5> SUFFICES ASSUME NEW i \in 1..k PROVE Old(accepted[i])'
          OBVIOUS
        <5>1. accepted[i] \in Nat /\ instant - accepted[i] > rate_limit.per_seconds
          BY <4>1 DEF ShotInv, Old
        <5> QED BY <5>1, <3>1 DEF Old, ShotInv
      <4> QED BY <4>1, <4>2, <3>1 DEF PoppedIsOld
    <3> QED BY <3>1, <3>2, <3>3, <3>4 DEF ShotInv
  <2>3. CASE UNCHANGED shotVars
    BY <2>3 DEF shotVars, ShotInv, RateBound, PoppedIsOld, Unlimited, Old
  <2> QED BY <2>1, <2>2, <2>3 DEF ShotNext
<1> QED BY <1>1, <1>2, PTL DEF ShotSpec

-----------------------------------------------------------------------------
(* The local backend: what is active and what has ended, task by task.     *)

LocalInv ==
    /\ time \in Nat \ {Never}
    /\ \A t \in LocalTasks :
          /\ created[t] = Never => active_tasks[t] = "absent" /\ outcome[t] = "absent"
          /\ outcome[t] # "absent" =>
                /\ active_tasks[t] = "absent"
                /\ ended[t] \in Nat /\ ended[t] <= time /\ last_activity[t] = ended[t]
                /\ \/ completed_tasks[t] = outcome[t]
                   \/ completed_tasks[t] = "absent" /\ time - ended[t] >= Keep
          /\ created[t] # Never /\ outcome[t] = "absent"
                => active_tasks[t] \in {"Pending", "InProgress"}
    /\ active_tasks = [t \in LocalTasks |-> active_tasks[t]]
    /\ completed_tasks = [t \in LocalTasks |-> completed_tasks[t]]
    /\ last_activity = [t \in LocalTasks |-> last_activity[t]]
    /\ created = [t \in LocalTasks |-> created[t]]
    /\ outcome = [t \in LocalTasks |-> outcome[t]]
    /\ ended = [t \in LocalTasks |-> ended[t]]

\* The outcome that was reported is found for two hours, for every number of
\* tasks and every pair of periods (local.rs, notify and remove_inactive_tasks).
THEOREM OutcomeStays == LocalSpec => []OutcomeKept
<1> USE LocalAssumption DEF Never, Ends
<1>1. LocalInit => LocalInv
  BY DEF LocalInit, LocalInv
<1>2. LocalInv /\ [LocalNext]_localVars => LocalInv'
  <2> SUFFICES ASSUME LocalInv, [LocalNext]_localVars
               PROVE  LocalInv'
    OBVIOUS
  <2> USE DEF LocalInv
  <2>1. ASSUME NEW t \in LocalTasks, Delegate(t)
        PROVE  LocalInv'
    BY <2>1 DEF Delegate
  <2>2. ASSUME NEW t \in LocalTasks, NEW s \in Ends \cup {"progress"}, NotifyLocal(t, s)
        PROVE  LocalInv'
    <3>1. created[t] # Never /\ outcome[t] = "absent"
      BY <2>2 DEF NotifyLocal
    <3>2. CASE s \in Ends
      <4>1. /\ active_tasks' = [active_tasks EXCEPT ![t] = "absent"]
            /\ completed_tasks' = [completed_tasks EXCEPT ![t] = s]
            /\ outcome' = [outcome EXCEPT ![t] = s] /\ ended' = [ended EXCEPT ![t] = time]
            /\ last_activity' = [last_activity EXCEPT ![t] = time]
            /\ UNCHANGED <<time, created>>
        BY <2>2, <3>2 DEF NotifyLocal
      <4>2. s # "absent"
        BY <3>2
      <4>3. \A u \in LocalTasks \ {t} :
               /\ active_tasks'[u] = active_tasks[u] /\ completed_tasks'[u] = completed_tasks[u]
               /\ outcome'[u] = outcome[u] /\ ended'[u] = ended[u]
               /\ last_activity'[u] = last_activity[u]
        BY <4>1
      <4>4. /\ active_tasks'[t] = "absent" /\ completed_tasks'[t] = s /\ outcome'[t] = s
            /\ ended'[t] = time /\ last_activity'[t] = time
        BY <4>1
      <4>5. ASSUME NEW u \in LocalTasks
            PROVE  /\ created'[u] = Never => active_tasks'[u] = "absent" /\ outcome'[u] = "absent"
                   /\ outcome'[u] # "absent" =>
                         /\ active_tasks'[u] = "absent"
                         /\ ended'[u] \in Nat /\ ended'[u] <= time' /\ last_activity'[u] = ended'[u]
                         /\ \/ completed_tasks'[u] = outcome'[u]
                            \/ completed_tasks'[u] = "absent" /\ time' - ended'[u] >= Keep
                   /\ created'[u] # Never /\ outcome'[u] = "absent"
                         => active_tasks'[u] \in {"Pending", "InProgress"}
        <5>1. CASE u = t
          BY <5>1, <3>1, <4>1, <4>2, <4>4
        <5>2. CASE u # t
          BY <5>2, <4>1, <4>3
        <5> QED BY <5>1, <5>2
      <4> QED BY <4>1, <4>5
    <3>3. CASE s \notin Ends
      BY <2>2, <3>1, <3>3 DEF NotifyLocal
    <3> QED BY <3>2, <3>3
  <2>3. CASE CleanupExpired
    BY <2>3 DEF CleanupExpired, Inactive
  <2>4. CASE PassTime
    BY <2>4 DEF PassTime
  <2>5. CASE UNCHANGED localVars
    BY <2>5 DEF localVars
  <2> QED BY <2>1, <2>2, <2>3, <2>4, <2>5 DEF LocalNext
<1>3. LocalInv => OutcomeKept
  BY DEF LocalInv, OutcomeKept, Found
<1> QED BY <1>1, <1>2, <1>3, PTL DEF LocalSpec

-----------------------------------------------------------------------------
(* The approval: what a refusal that names Ask promises.                   *)

\* Each answer is the one of the policy to the patch as it is.
GateInv ==
    /\ default_level \in Levels /\ changes \in Patches
    /\ answers = [l \in Levels |-> answers[l]]
    /\ \A l \in Levels : answers[l] \in {NotAsked, Answer(l)}

LEMMA GateInvariant == GateSpec => []GateInv
<1>1. GateInit => GateInv
  BY DEF GateInit, GateInv
<1>2. GateInv /\ [GateNext]_gateVars => GateInv'
  <2> SUFFICES ASSUME GateInv, [GateNext]_gateVars
               PROVE  GateInv'
    OBVIOUS
  <2>1. ASSUME changes' = changes, default_level' = default_level, NEW l
        PROVE  Answer(l)' = Answer(l)
    <3>1. ASSUME NEW trait PROVE Has(trait)' = Has(trait)
      BY <2>1 DEF Has
    <3>2. Effective(l)' = Effective(l)
      BY <2>1 DEF Effective
    <3>3. TotalLines' = TotalLines
      BY <2>1 DEF TotalLines
    <3>4. IsSimple' = IsSimple
      BY <2>1 DEF IsSimple
    <3>5. ASSUME NEW k PROVE Allowed(k)' = Allowed(k)
      BY <3>1 DEF Allowed, CommonRefusal
    <3>6. ASSUME NEW k PROVE NeedsConfirmation(k)' = NeedsConfirmation(k)
      BY <2>1, <3>1, <3>3, <3>4 DEF NeedsConfirmation
    <3>7. Allowed(Effective(l))' = Allowed(Effective(l))
      BY <3>2, <3>5
    <3>8. NeedsConfirmation(Effective(l))' = NeedsConfirmation(Effective(l))
      BY <3>2, <3>6
    <3> QED BY <2>1, <3>1, <3>7, <3>8 DEF Answer
  <2>2. CASE GateNext
    BY <2>1, <2>2 DEF GateNext, Request, GateInv
  <2>3. CASE UNCHANGED gateVars
    BY <2>1, <2>3 DEF gateVars, GateInv
  <2> QED BY <2>2, <2>3
<1> QED BY <1>1, <1>2, PTL DEF GateSpec

\* The first half of LevelsAgree.
AskAnswers ==
    answers["Ask"] # NotAsked
    => \A l \in Levels : answers[l].required = "Ask" => answers["Ask"].passed

\* A refusal that names Ask is answered at Ask, for every patch and every default
\* level (mod.rs:805, policy.rs:176).
THEOREM AskIsEnough == GateSpec => []AskAnswers
<1>1. GateInv => AskAnswers
  <2> SUFFICES ASSUME GateInv, answers["Ask"] # NotAsked,
                      NEW l \in Levels, answers[l].required = "Ask"
               PROVE  answers["Ask"].passed
    BY DEF AskAnswers
  <2>1. answers["Ask"] = Answer("Ask")
    BY DEF GateInv, Levels
  <2>2. answers[l] = Answer(l)
    <3>1. NotAsked.required # "Ask"
      BY DEF NotAsked
    <3> QED BY <3>1 DEF GateInv
  <2>3. /\ ~ (changes = <<>> \/ Has("escaping"))
        /\ Allowed(Effective(l)) /\ NeedsConfirmation(Effective(l))
    <3>1. Answer(l).required = "Ask"
      BY <2>2
    <3> QED BY <3>1 DEF Answer, NotAsked
  <2>4. Effective(l) # "Privileged"
    BY <2>3 DEF NeedsConfirmation
  <2>5. ~ CommonRefusal(Effective(l))
    BY <2>3 DEF Allowed
  <2>6. ~ (Has(".env") \/ Has(".gitmodules") \/ Has("symlink out"))
    BY <2>4, <2>5 DEF CommonRefusal
  <2>7. Effective("Ask") \in {"Ask", "Untrusted"}
    BY DEF Effective, Rank, Levels, GateInv
  <2>8. Allowed(Effective("Ask"))
    BY <2>6, <2>7 DEF Allowed, CommonRefusal
  <2> QED BY <2>1, <2>3, <2>8 DEF Answer
<1> QED BY <1>1, GateInvariant, PTL

\* A simple patch has up to two changes of up to 20 lines.
LEMMA SimpleIsShort ==
    ASSUME changes \in Seq(SUBSET Traits), MaxLinesModerate \in Nat, IsSimple
    PROVE  Len(changes) <= 2 /\ TotalLines <= 40 /\ TotalLines \in Nat
<1> DEFINE N == Len(changes)
           up(f) == [n \in 0..N |-> IF n = 0 THEN 0 ELSE f[n - 1] + Lines(changes[n])]
           upTo == CHOOSE f : f = up(f)
<1>1. N \in {0, 1, 2} /\ N <= 2
  <2>1. Len(changes) \in Nat
    OBVIOUS
  <2>2. Len(changes) <= 2
    BY DEF IsSimple
  <2>3. \A n \in Nat : n <= 2 => n \in {0, 1, 2}
    OBVIOUS
  <2> QED
    BY <2>1, <2>2, <2>3, Zenon
<1>2. \A n \in 1..N : Lines(changes[n]) \in Nat /\ Lines(changes[n]) <= 20
  <2>1. DOMAIN changes = 1..N
    OBVIOUS
  <2>2. \A n \in DOMAIN changes : Lines(changes[n]) <= 20
    BY DEF IsSimple
  <2>3. \A change : Lines(change) \in {MaxLinesModerate + 1, 21, 20}
    BY Zenon DEF Lines
  <2> QED
    BY <2>1, <2>2, <2>3
<1>3. TotalLines = upTo[N]
  BY DEF TotalLines
<1>4. \E f : f = up(f)
  <2> DEFINE g == [n \in 0..N |-> IF n = 0 THEN 0
                                  ELSE IF n = 1 THEN Lines(changes[1])
                                  ELSE Lines(changes[1]) + Lines(changes[2])]
  <2>1. \A n \in 0..N : g[n] = IF n = 0 THEN 0 ELSE g[n - 1] + Lines(changes[n])
    <3>1. CASE N = 0
      BY <3>1
    <3>2. CASE N = 1
      BY <1>2, <3>2
    <3>3. CASE N = 2
      BY <1>2, <3>3
    <3> QED
      BY <1>1, <3>1, <3>2, <3>3
  <2>2. g = up(g)
    BY <2>1
  <2> QED
    BY <2>2
<1>5. upTo = up(upTo)
  BY <1>4
<1> HIDE DEF upTo
<1>6. upTo[0] = 0 /\ \A n \in 1..N : upTo[n] = upTo[n - 1] + Lines(changes[n])
  BY <1>1, <1>5
<1>7. upTo[N] <= 40 /\ upTo[N] \in Nat
  BY <1>1, <1>2, <1>6
<1> QED
  BY <1>1, <1>3, <1>7

\* With the limits of the moderate level at their defaults of 10 files and 400
\* lines, or any that admit a simple patch, LevelsAgree holds for every patch and
\* every default level (policy.rs:176). Below that an automatic answer at Ask
\* may need confirmation at Moderate.
THEOREM LevelsNest ==
    ASSUME MaxFilesModerate >= 2, MaxLinesModerate >= 40
    PROVE  GateSpec => []LevelsAgree
<1>1. GateInv /\ AskAnswers => LevelsAgree
  <2> SUFFICES ASSUME GateInv, AskAnswers
               PROVE  LevelsAgree
    OBVIOUS
  <2>1. ASSUME NEW l \in {"Ask", "Moderate", "Trusted"}, NEW m \in {"Ask", "Moderate", "Trusted"},
               answers[m] # NotAsked, Rank[l] < Rank[m], answers[l].silent
        PROVE  answers[m].silent
    <3>1. l \in Levels /\ m \in Levels /\ default_level \in Levels
      BY DEF Levels, GateInv
    <3>2. answers[l] = Answer(l) /\ answers[m] = Answer(m)
      <4>1. ~ NotAsked.silent
        BY DEF NotAsked
      <4> QED BY <2>1, <3>1, <4>1 DEF GateInv
    <3>3. /\ changes # <<>> /\ ~ Has("escaping")
          /\ Allowed(Effective(l)) /\ ~ NeedsConfirmation(Effective(l))
      <4>1. Answer(l).silent
        BY <2>1, <3>2
      <4>2. ~ [NotAsked EXCEPT !.required = "none"].silent
            /\ ~ [NotAsked EXCEPT !.required = "Higher"].silent
            /\ ~ [NotAsked EXCEPT !.required = "Ask"].silent
        BY DEF NotAsked
      <4> QED BY <4>1, <4>2 DEF Answer
    <3>4. \/ Effective(m) = Effective(l)
          \/ Effective(l) = "Ask" /\ Effective(m) \in {"Moderate", "Trusted"}
          \/ Effective(l) = "Moderate" /\ Effective(m) = "Trusted"
      BY <2>1, <3>1 DEF Effective, Rank, Levels
    <3>5. CASE Effective(m) = Effective(l)
      BY <3>2, <3>3, <3>5 DEF Answer
    <3>6. CASE Effective(l) = "Ask" /\ Effective(m) \in {"Moderate", "Trusted"}
      <4>1. changes \in Seq(SUBSET Traits) /\ MaxLinesModerate \in Nat /\ MaxFilesModerate \in Nat
        BY GateAssumption DEF GateInv
      <4>2. IsSimple /\ ~ CommonRefusal("Ask")
        BY <3>3, <3>6 DEF NeedsConfirmation, Allowed
      <4>3. Len(changes) <= 2 /\ TotalLines <= 40 /\ TotalLines \in Nat
        BY <4>1, <4>2, SimpleIsShort
      <4>4. Len(changes) \in Nat
        BY <4>1
      <4>5. ~ (Len(changes) > MaxFilesModerate) /\ ~ (TotalLines > MaxLinesModerate)
        BY <4>1, <4>3, <4>4
      <4>6. \A trait \in Risky : ~ Has(trait)
        BY <4>2 DEF IsSimple, Has
      <4>7. ~ NeedsConfirmation("Moderate") /\ ~ NeedsConfirmation("Trusted")
        BY <4>5, <4>6, Zenon DEF NeedsConfirmation, Risky
      <4>8. Allowed("Moderate") /\ Allowed("Trusted")
        BY <4>2 DEF Allowed, CommonRefusal
      <4> QED BY <3>2, <3>3, <3>6, <4>7, <4>8 DEF Answer
    <3>7. CASE Effective(l) = "Moderate" /\ Effective(m) = "Trusted"
      <4>1. ~ NeedsConfirmation("Trusted")
        BY <3>3, <3>7 DEF NeedsConfirmation
      <4>2. Allowed("Trusted")
        BY <3>3, <3>7 DEF Allowed, CommonRefusal
      <4> QED BY <3>2, <3>3, <3>7, <4>1, <4>2 DEF Answer
    <3> QED BY <3>4, <3>5, <3>6, <3>7
  <2> QED BY <2>1, Zenon DEF LevelsAgree, AskAnswers
<1> QED BY <1>1, GateInvariant, AskIsEnough, PTL

-----------------------------------------------------------------------------
(* The worker bridge: an assignment is in one place at a time, from the    *)
(* queue through a fetch into the slot, and in none of the first two once  *)
(* a poll has shown it.                                                    *)

Ev(t) == [kind |-> "assignment", task |-> t]

BridgeTypes ==
    /\ mail \in Seq(Events) /\ eager \in BOOLEAN
    /\ heartbeat \in Events \cup {NoEvent} /\ current_event \in Events \cup {NoEvent}
    /\ fetched \in [Polls -> Events \cup {NoEvent}] /\ shown \in [Polls -> Events \cup {NoEvent}]
    /\ poll \in [Polls -> {"free", "look", "ask", "store"}]
    /\ report \in Assignments \cup {NoTask}
    /\ before \in [Polls -> SUBSET Assignments]
    /\ assigned \subseteq Assignments /\ seen \subseteq assigned /\ reported \subseteq seen

InMail(t)    == \E i \in 1..Len(mail) : mail[i] = Ev(t)
InFetched(t) == \E p \in Polls : fetched[p] = Ev(t)

OnePlace ==
    \A t \in Assignments :
        /\ InMail(t) => /\ t \in assigned \ seen
                        /\ heartbeat # Ev(t) /\ ~ InFetched(t) /\ current_event # Ev(t)
                        /\ \A i, j \in 1..Len(mail) : mail[i] = Ev(t) /\ mail[j] = Ev(t) => i = j
        /\ heartbeat = Ev(t) => t \in assigned \ seen /\ ~ InFetched(t) /\ current_event # Ev(t)
        /\ InFetched(t) => /\ t \in assigned \ seen /\ current_event # Ev(t)
                           /\ \A p, q \in Polls : fetched[p] = Ev(t) /\ fetched[q] = Ev(t) => p = q
        /\ current_event = Ev(t) => t \in assigned \ reported
        /\ \A p \in Polls : shown[p] = Ev(t) => t \notin before[p]

Reporting ==
    /\ \A p \in Polls : poll[p] # "store" => fetched[p] = NoEvent
    /\ report # NoTask => report \in seen \ reported
    /\ \A p \in Polls : before[p] \subseteq reported

\* As long as one task is assigned at a time.
Single ==
    eager \/ /\ \A t, u \in assigned \ seen : t = u
             /\ mail = <<>> \/ \E t \in Assignments : mail = <<Ev(t)>>
             /\ heartbeat # NoEvent => \E t \in Assignments : heartbeat = Ev(t)
             /\ \A p \in Polls : fetched[p] # NoEvent => \E t \in Assignments : fetched[p] = Ev(t)
             /\ \A t \in assigned \ (seen \cup dropped) :
                   mail = <<Ev(t)>> \/ heartbeat = Ev(t) \/ current_event = Ev(t) \/ InFetched(t)

BridgeInv == BridgeTypes /\ OnePlace /\ Reporting /\ Single

LEMMA AssignmentEvents ==
    /\ \A t \in Assignments : Ev(t) \in Events /\ Ev(t) # NoEvent /\ Ev(t).kind = "assignment" /\ Ev(t).task = t
    /\ \A t, u \in Assignments : Ev(t) = Ev(u) => t = u
    /\ \A e \in Events \cup {NoEvent} : e.kind = "assignment" => e.task \in Assignments /\ e = Ev(e.task)
  BY DEF Ev, Events, NoEvent

\* What a fetch brings is the head of the queue or nothing, and the queue is empty then.
LEMMA FetchBrings ==
    ASSUME BridgeInv, NEW e, Fetch(e)
    PROVE  /\ mail' = <<>>
           /\ e = NoEvent \/ (mail # <<>> /\ e = Head(mail) /\ e = mail[1] /\ e \in Events)
           /\ \A t \in Assignments : mail = <<Ev(t)>> => e = Ev(t) \/ t \in dropped'
           /\ dropped \subseteq dropped'
<1>1. mail \in Seq(Events)
  BY DEF BridgeInv, BridgeTypes
<1> DEFINE lost(ms) == {ms[i].task : i \in {j \in 1..Len(ms) : ms[j].kind = "assignment"}}
<1>2. /\ mail' = <<>>
      /\ \/ /\ e = IF mail = <<>> THEN NoEvent ELSE Head(mail)
            /\ dropped' = IF mail = <<>> THEN dropped ELSE dropped \cup lost(Tail(mail))
         \/ /\ mail # <<>> /\ e = NoEvent
            /\ dropped' = dropped \cup lost(mail)
  BY DEF Fetch
<1>3. mail # <<>> => Head(mail) = mail[1] /\ mail[1] \in Events
  BY <1>1
<1>4. ASSUME NEW t \in Assignments, mail = <<Ev(t)>>
      PROVE  t \in lost(mail) /\ Head(mail) = Ev(t) /\ mail # <<>>
  <2>1. Len(mail) = 1 /\ mail[1] = Ev(t) /\ Head(mail) = Ev(t) /\ mail # <<>>
    BY <1>4
  <2>2. mail[1].kind = "assignment" /\ mail[1].task = t
    BY <2>1, AssignmentEvents
  <2> QED BY <2>1, <2>2
<1> HIDE DEF lost
<1> QED BY <1>2, <1>3, <1>4

LEMMA BridgeStarts == BridgeInit => BridgeInv
<1> SUFFICES ASSUME BridgeInit PROVE BridgeInv
  OBVIOUS
<1>1. \A t \in Assignments : ~ InMail(t) /\ ~ InFetched(t) /\ Ev(t) # NoEvent
  BY AssignmentEvents DEF BridgeInit, InMail, InFetched
<1>2. BridgeTypes
  BY DEF BridgeInit, BridgeTypes
<1>3. OnePlace
  BY <1>1 DEF BridgeInit, OnePlace
<1>4. Reporting /\ Single
  BY DEF BridgeInit, Reporting, Single
<1> QED BY <1>2, <1>3, <1>4 DEF BridgeInv

LEMMA AssignKeeps ==
    ASSUME BridgeInv, NEW t \in Assignments, Assign(t)
    PROVE  BridgeInv'
<1> USE AssignmentEvents DEF BridgeInv
<1>1. /\ t \notin assigned /\ (eager \/ assigned \subseteq reported \cup {report})
      /\ assigned' = assigned \cup {t} /\ mail' = Append(mail, Ev(t))
      /\ UNCHANGED <<eager, heartbeat, current_event, poll, fetched, shown, report, seen, reported,
                     dropped, losses, before>>
  BY DEF Assign, Ev
<1>2. /\ mail' \in Seq(Events) /\ Len(mail') = Len(mail) + 1 /\ mail'[Len(mail) + 1] = Ev(t)
      /\ Len(mail) \in Nat /\ \A i \in 1..Len(mail) : mail'[i] = mail[i]
  <2>1. mail \in Seq(Events) /\ Ev(t) \in Events
    BY DEF BridgeTypes
  <2> QED BY <1>1, <2>1
<1>3. \A u \in Assignments : InFetched(u)' <=> InFetched(u)
  BY <1>1 DEF InFetched
<1>4. BridgeTypes'
  BY <1>1, <1>2 DEF BridgeTypes
<1>5. Reporting'
  BY <1>1 DEF Reporting
<1>6. ~ InMail(t) /\ heartbeat # Ev(t) /\ ~ InFetched(t) /\ current_event # Ev(t)
  BY <1>1 DEF OnePlace
<1>7. OnePlace'
  <2>1. ASSUME NEW u \in Assignments, InMail(u)'
        PROVE  /\ u \in assigned' \ seen'
               /\ heartbeat' # Ev(u) /\ ~ InFetched(u)' /\ current_event' # Ev(u)
               /\ \A i, j \in 1..Len(mail') : mail'[i] = Ev(u) /\ mail'[j] = Ev(u) => i = j
    <3>1. CASE u = t
      <4>1. \A i \in 1..Len(mail') : mail'[i] = Ev(t) => i = Len(mail) + 1
        BY <1>2, <1>6 DEF InMail
      <4> QED BY <3>1, <4>1, <1>1, <1>3, <1>6 DEF BridgeTypes
    <3>2. CASE u # t
      <4>1. \A i \in 1..Len(mail') : mail'[i] = Ev(u) => i \in 1..Len(mail) /\ mail[i] = Ev(u)
        BY <3>2, <1>2
      <4>2. InMail(u)
        BY <2>1, <4>1 DEF InMail
      <4> QED BY <4>1, <4>2, <1>1, <1>3 DEF OnePlace
    <3> QED BY <3>1, <3>2
  <2>2. ASSUME NEW u \in Assignments
        PROVE  /\ heartbeat' = Ev(u) => u \in assigned' \ seen' /\ ~ InFetched(u)' /\ current_event' # Ev(u)
               /\ InFetched(u)' => /\ u \in assigned' \ seen' /\ current_event' # Ev(u)
                                   /\ \A p, q \in Polls : fetched'[p] = Ev(u) /\ fetched'[q] = Ev(u) => p = q
               /\ current_event' = Ev(u) => u \in assigned' \ reported'
               /\ \A p \in Polls : shown'[p] = Ev(u) => u \notin before'[p]
    BY <1>1, <1>3 DEF OnePlace
  <2> QED BY <2>1, <2>2 DEF OnePlace
<1>8. Single'
  <2>1. SUFFICES ASSUME ~ eager
                 PROVE  Single'
    BY <1>1 DEF Single
  <2>2. assigned \subseteq seen
    BY <1>1, <2>1, BridgeAssumption DEF BridgeTypes, Reporting
  <2>3. mail = <<>>
    <3>1. ASSUME NEW u \in Assignments, mail = <<Ev(u)>>
          PROVE  FALSE
      BY <3>1, <2>2 DEF OnePlace, InMail
    <3> QED BY <3>1, <2>1 DEF Single
  <2>4. mail' = <<Ev(t)>>
    BY <1>1, <2>3
  <2>5. \A u \in assigned' \ seen' : u = t
    BY <1>1, <2>2
  <2> QED BY <1>1, <2>1, <2>4, <2>5 DEF Single
<1> QED BY <1>4, <1>5, <1>7, <1>8

\* What a fetch took from the queue is in no other place.
LEMMA FetchedApart ==
    ASSUME BridgeInv, NEW e, Fetch(e), NEW t \in Assignments, e = Ev(t)
    PROVE  /\ InMail(t) /\ t \in assigned \ seen /\ heartbeat # Ev(t) /\ ~ InFetched(t)
           /\ current_event # Ev(t)
<1>1. mail # <<>> /\ mail[1] = Ev(t) /\ mail \in Seq(Events)
  BY FetchBrings, AssignmentEvents DEF BridgeInv, BridgeTypes
<1>2. InMail(t)
  BY <1>1 DEF InMail
<1> QED BY <1>2 DEF BridgeInv, OnePlace

\* Of a single assignment, a fetch brings it or nothing.
LEMMA FetchOfOne ==
    ASSUME BridgeInv, ~ eager, NEW e, Fetch(e)
    PROVE  e = NoEvent \/ \E t \in Assignments : e = Ev(t)
<1>1. mail = <<>> \/ \E t \in Assignments : mail = <<Ev(t)>>
  BY DEF BridgeInv, Single
<1> QED BY <1>1, FetchBrings

LEMMA HeartbeatFetchKeeps ==
    ASSUME BridgeInv, HeartbeatFetches
    PROVE  BridgeInv'
<1> USE AssignmentEvents DEF BridgeInv
<1>1. PICK e \in Events \cup {NoEvent} : Fetch(e) /\ heartbeat' = e
  BY DEF HeartbeatFetches
<1>2. /\ heartbeat = NoEvent
      /\ UNCHANGED <<eager, current_event, poll, fetched, shown, report, assigned, seen, reported, before>>
  BY DEF HeartbeatFetches
<1>3. /\ mail' = <<>> /\ dropped \subseteq dropped'
      /\ \A t \in Assignments : mail = <<Ev(t)>> => e = Ev(t) \/ t \in dropped'
  BY <1>1, FetchBrings
<1>4. \A t \in Assignments : ~ InMail(t)' /\ (InFetched(t)' <=> InFetched(t))
  BY <1>2, <1>3 DEF InMail, InFetched
<1>5. BridgeTypes' /\ Reporting'
  <2>1. mail' \in Seq(Events)
    BY <1>3
  <2> QED BY <1>1, <1>2, <2>1 DEF BridgeTypes, Reporting
<1>6. \A t \in Assignments : e = Ev(t) => t \in assigned \ seen /\ ~ InFetched(t) /\ current_event # Ev(t)
  BY <1>1, FetchedApart
<1>7. OnePlace'
  BY <1>1, <1>2, <1>4, <1>6 DEF OnePlace
<1>8. Single'
  <2>1. SUFFICES ASSUME ~ eager
                 PROVE  Single'
    BY <1>2 DEF Single
  <2>2. e = NoEvent \/ \E t \in Assignments : e = Ev(t)
    BY <1>1, <2>1, FetchOfOne
  <2>3. ASSUME NEW t \in assigned' \ (seen' \cup dropped')
        PROVE  heartbeat' = Ev(t) \/ current_event' = Ev(t) \/ InFetched(t)'
    BY <1>1, <1>2, <1>3, <1>4, <2>1, <2>3 DEF Single, BridgeTypes
  <2> QED BY <1>1, <1>2, <1>3, <2>1, <2>2, <2>3 DEF Single
<1> QED BY <1>5, <1>7, <1>8

LEMMA PollFetchKeeps ==
    ASSUME BridgeInv, NEW p \in Polls, PollFetches(p)
    PROVE  BridgeInv'
<1> USE AssignmentEvents DEF BridgeInv
<1>1. PICK e \in Events \cup {NoEvent} : Fetch(e) /\ fetched' = [fetched EXCEPT ![p] = e]
  BY DEF PollFetches
<1>2. /\ poll[p] = "ask" /\ poll' = [poll EXCEPT ![p] = "store"] /\ fetched[p] = NoEvent
      /\ UNCHANGED <<eager, heartbeat, current_event, shown, report, assigned, seen, reported, before>>
  BY DEF PollFetches, Reporting
<1>3. /\ mail' = <<>> /\ dropped \subseteq dropped'
      /\ \A t \in Assignments : mail = <<Ev(t)>> => e = Ev(t) \/ t \in dropped'
  BY <1>1, FetchBrings
<1>4. fetched'[p] = e /\ \A q \in Polls \ {p} : fetched'[q] = fetched[q]
  BY <1>1 DEF BridgeTypes
<1>5. \A t \in Assignments : ~ InMail(t)' /\ (InFetched(t)' <=> InFetched(t) \/ e = Ev(t))
  BY <1>2, <1>3, <1>4 DEF InMail, InFetched
<1>6. BridgeTypes' /\ Reporting'
  <2>1. mail' \in Seq(Events)
    BY <1>3
  <2> QED BY <1>1, <1>2, <2>1 DEF BridgeTypes, Reporting
<1>7. \A t \in Assignments : e = Ev(t) => /\ t \in assigned \ seen /\ ~ InFetched(t)
                                          /\ heartbeat # Ev(t) /\ current_event # Ev(t)
  BY <1>1, FetchedApart
<1>8. OnePlace'
  <2>1. ASSUME NEW t \in Assignments, NEW q \in Polls, NEW r \in Polls,
               fetched'[q] = Ev(t), fetched'[r] = Ev(t)
        PROVE  q = r
    <3>1. CASE e = Ev(t)
      BY <2>1, <3>1, <1>4, <1>7 DEF InFetched
    <3>2. CASE e # Ev(t)
      BY <2>1, <3>2, <1>4 DEF OnePlace, InFetched
    <3> QED BY <3>1, <3>2
  <2> QED BY <2>1, <1>2, <1>5, <1>7 DEF OnePlace
<1>9. Single'
  <2>1. SUFFICES ASSUME ~ eager
                 PROVE  Single'
    BY <1>2 DEF Single
  <2>2. e = NoEvent \/ \E t \in Assignments : e = Ev(t)
    BY <1>1, <2>1, FetchOfOne
  <2>3. ASSUME NEW t \in assigned' \ (seen' \cup dropped')
        PROVE  heartbeat' = Ev(t) \/ current_event' = Ev(t) \/ InFetched(t)'
    BY <1>2, <1>3, <1>5, <2>1, <2>3 DEF Single, BridgeTypes
  <2> QED BY <1>2, <1>3, <1>4, <2>1, <2>2, <2>3 DEF Single
<1> QED BY <1>6, <1>8, <1>9

LEMMA HeartbeatStoreKeeps ==
    ASSUME BridgeInv, HeartbeatStores
    PROVE  BridgeInv'
<1> USE AssignmentEvents DEF BridgeInv
<1>1. /\ heartbeat # NoEvent /\ heartbeat' = NoEvent /\ current_event' = Stored(heartbeat)
      /\ UNCHANGED <<mail, eager, poll, fetched, shown, report, assigned, seen, reported, dropped,
                     losses, before>>
  BY DEF HeartbeatStores
<1>2. /\ current_event' \in {heartbeat, current_event}
      /\ \A t \in Assignments : heartbeat = Ev(t) => current_event' = Ev(t)
  BY <1>1 DEF Stored
<1>3. \A t \in Assignments : (InMail(t)' <=> InMail(t)) /\ (InFetched(t)' <=> InFetched(t))
  BY <1>1 DEF InMail, InFetched
<1>4. BridgeTypes' /\ Reporting'
  BY <1>1, <1>2 DEF BridgeTypes, Reporting
<1>5. OnePlace'
  <2>1. ASSUME NEW t \in Assignments, current_event' = Ev(t)
        PROVE  /\ t \in assigned \ reported /\ ~ InMail(t) /\ ~ InFetched(t)
    BY <2>1, <1>2 DEF OnePlace, BridgeTypes
  <2>2. \A t \in Assignments : heartbeat' # Ev(t)
    BY <1>1
  <2>3. ASSUME NEW t \in Assignments, NEW i \in 1..Len(mail'), NEW j \in 1..Len(mail'),
               mail'[i] = Ev(t), mail'[j] = Ev(t)
        PROVE  i = j
    BY <2>3, <1>1 DEF OnePlace, InMail
  <2> QED BY <2>1, <2>2, <2>3, <1>1, <1>3 DEF OnePlace
<1>6. Single'
  <2>1. SUFFICES ASSUME ~ eager
                 PROVE  Single'
    BY <1>1 DEF Single
  <2>2. PICK u \in Assignments : heartbeat = Ev(u)
    BY <1>1, <2>1 DEF Single
  <2>3. u \in assigned \ seen /\ current_event' = Ev(u)
    BY <1>2, <2>2 DEF OnePlace
  <2>4. \A t \in assigned' \ (seen' \cup dropped') : t = u
    BY <1>1, <2>1, <2>3 DEF Single
  <2>5. \A t \in assigned' \ (seen' \cup dropped') : current_event' = Ev(t)
    BY <2>3, <2>4
  <2>6. \A t, v \in assigned' \ seen' : t = v
    BY <1>1, <2>1 DEF Single
  <2>7. /\ mail' = <<>> \/ \E t \in Assignments : mail' = <<Ev(t)>>
        /\ \A p \in Polls : fetched'[p] # NoEvent => \E t \in Assignments : fetched'[p] = Ev(t)
    BY <1>1, <2>1 DEF Single
  <2> QED BY <1>1, <2>5, <2>6, <2>7 DEF Single
<1> QED BY <1>4, <1>5, <1>6

LEMMA PollStoreKeeps ==
    ASSUME BridgeInv, NEW p \in Polls, PollStores(p)
    PROVE  BridgeInv'
<1> USE AssignmentEvents DEF BridgeInv
<1>1. /\ poll[p] = "store" /\ current_event' = Stored(fetched[p])
      /\ fetched' = [fetched EXCEPT ![p] = NoEvent] /\ poll' = [poll EXCEPT ![p] = "look"]
      /\ UNCHANGED <<mail, eager, heartbeat, shown, report, assigned, seen, reported, dropped, losses, before>>
  BY DEF PollStores
<1>2. fetched[p] \in Events \cup {NoEvent}
  BY DEF BridgeTypes
<1>3. /\ current_event' \in {fetched[p], current_event}
      /\ \A t \in Assignments : fetched[p] = Ev(t) => current_event' = Ev(t)
  BY <1>1, <1>2 DEF Stored
<1>4. fetched'[p] = NoEvent /\ \A q \in Polls \ {p} : fetched'[q] = fetched[q]
  BY <1>1 DEF BridgeTypes
<1>5. \A t \in Assignments : (InMail(t)' <=> InMail(t)) /\ (InFetched(t)' => InFetched(t))
  BY <1>1, <1>4 DEF InMail, InFetched
<1>6. BridgeTypes' /\ Reporting'
  BY <1>1, <1>2, <1>3 DEF BridgeTypes, Reporting
<1>7. \A t \in Assignments : fetched[p] = Ev(t) => /\ t \in assigned \ seen /\ ~ InFetched(t)'
                                                   /\ ~ InMail(t) /\ heartbeat # Ev(t)
  BY <1>4 DEF OnePlace, InFetched
<1>8. OnePlace'
  <2>1. ASSUME NEW t \in Assignments, NEW q \in Polls, NEW r \in Polls,
               fetched'[q] = Ev(t), fetched'[r] = Ev(t)
        PROVE  q = r
    BY <2>1, <1>4 DEF OnePlace, InFetched
  <2>2. \A t \in Assignments : current_event' = Ev(t) => t \in assigned' \ reported'
    BY <1>1, <1>3, <1>7 DEF OnePlace, BridgeTypes
  <2>3. ASSUME NEW t \in Assignments
        PROVE  /\ InMail(t)' => current_event' # Ev(t)
               /\ heartbeat' = Ev(t) => current_event' # Ev(t)
               /\ InFetched(t)' => current_event' # Ev(t)
    BY <1>1, <1>3, <1>5, <1>7 DEF OnePlace
  <2>4. ASSUME NEW t \in Assignments, NEW i \in 1..Len(mail'), NEW j \in 1..Len(mail'),
               mail'[i] = Ev(t), mail'[j] = Ev(t)
        PROVE  i = j
    BY <2>4, <1>1 DEF OnePlace, InMail
  <2>5. ASSUME NEW t \in Assignments
        PROVE  /\ InMail(t)' => t \in assigned' \ seen' /\ heartbeat' # Ev(t) /\ ~ InFetched(t)'
               /\ heartbeat' = Ev(t) => t \in assigned' \ seen' /\ ~ InFetched(t)'
               /\ InFetched(t)' => t \in assigned' \ seen'
    BY <1>1, <1>5 DEF OnePlace
  <2>6. \A t \in Assignments, q \in Polls : shown'[q] = Ev(t) => t \notin before'[q]
    BY <1>1 DEF OnePlace
  <2> QED BY <2>1, <2>2, <2>3, <2>4, <2>5, <2>6 DEF OnePlace
<1>9. Single'
  <2>1. SUFFICES ASSUME ~ eager
                 PROVE  Single'
    BY <1>1 DEF Single
  <2>2. \A t, v \in assigned' \ seen' : t = v
    BY <1>1, <2>1 DEF Single
  <2>3. /\ mail' = <<>> \/ \E t \in Assignments : mail' = <<Ev(t)>>
        /\ heartbeat' # NoEvent => \E t \in Assignments : heartbeat' = Ev(t)
        /\ \A q \in Polls : fetched'[q] # NoEvent => \E t \in Assignments : fetched'[q] = Ev(t)
    <3>1. /\ mail = <<>> \/ \E t \in Assignments : mail = <<Ev(t)>>
          /\ heartbeat # NoEvent => \E t \in Assignments : heartbeat = Ev(t)
      BY <2>1 DEF Single
    <3>2. ASSUME NEW q \in Polls, fetched'[q] # NoEvent
          PROVE  \E t \in Assignments : fetched'[q] = Ev(t)
      <4>1. fetched'[q] = fetched[q] /\ fetched[q] # NoEvent
        BY <3>2, <1>4
      <4> QED BY <4>1, <2>1 DEF Single
    <3> QED BY <1>1, <3>1, <3>2
  <2>4. ASSUME NEW t \in assigned' \ (seen' \cup dropped')
        PROVE  mail' = <<Ev(t)>> \/ heartbeat' = Ev(t) \/ current_event' = Ev(t) \/ InFetched(t)'
    <3>1. t \in Assignments /\ t \in assigned \ (seen \cup dropped)
      BY <1>1 DEF BridgeTypes
    <3>2. CASE fetched[p] = NoEvent
      <4>1. current_event' = current_event
        <5>1. NoEvent.kind \notin {"assignment", "ended"}
          BY DEF NoEvent
        <5> QED BY <1>1, <3>2, <5>1 DEF Stored
      <4>2. InFetched(t) => InFetched(t)'
        BY <3>1, <3>2, <1>4 DEF InFetched
      <4> QED BY <1>1, <2>1, <3>1, <4>1, <4>2 DEF Single
    <3>3. CASE fetched[p] # NoEvent
      <4>1. PICK u \in Assignments : fetched[p] = Ev(u)
        BY <2>1, <3>3 DEF Single
      <4>2. u \in assigned \ seen /\ current_event' = Ev(u)
        BY <4>1, <1>3, <1>7
      <4>3. t = u
        BY <4>2, <3>1, <2>1 DEF Single
      <4> QED BY <4>2, <4>3
    <3> QED BY <3>2, <3>3
  <2> QED BY <2>2, <2>3, <2>4 DEF Single
<1> QED BY <1>6, <1>8, <1>9

\* Steps that leave the queue and the fetched messages alone.
LEMMA LookKeeps ==
    ASSUME BridgeInv, NEW p \in Polls, Look(p)
    PROVE  BridgeInv'
<1> USE AssignmentEvents DEF BridgeInv
<1>1. /\ poll[p] # "store"
      /\ UNCHANGED <<mail, eager, heartbeat, fetched, report, assigned, reported, dropped, losses, before>>
  BY DEF Look
<1>2. \A t \in Assignments : (InMail(t)' <=> InMail(t)) /\ (InFetched(t)' <=> InFetched(t))
  BY <1>1 DEF InMail, InFetched
<1>3. CASE current_event = NoEvent
  <2>1. /\ poll' = [poll EXCEPT ![p] = "ask"] /\ UNCHANGED <<shown, seen, current_event>>
    BY <1>3 DEF Look
  <2>2. BridgeTypes' /\ Reporting'
    BY <1>1, <2>1 DEF BridgeTypes, Reporting
  <2>3. OnePlace'
    BY <1>1, <1>2, <2>1 DEF OnePlace
  <2>4. Single'
    BY <1>1, <1>2, <2>1 DEF Single, BridgeTypes
  <2> QED BY <2>2, <2>3, <2>4
<1>4. CASE current_event # NoEvent /\ current_event.kind = "assignment"
  <2>1. PICK t \in Assignments : current_event = Ev(t)
    BY <1>4 DEF BridgeTypes
  <2>2. /\ shown' = [shown EXCEPT ![p] = Ev(t)] /\ seen' = seen \cup {t}
        /\ current_event' = current_event /\ poll' = [poll EXCEPT ![p] = "free"]
    BY <1>4, <2>1 DEF Look
  <2>3. t \in assigned \ reported /\ heartbeat # Ev(t) /\ ~ InMail(t) /\ ~ InFetched(t)
    BY <2>1 DEF OnePlace
  <2>4. BridgeTypes' /\ Reporting'
    BY <1>1, <2>2, <2>3 DEF BridgeTypes, Reporting
  <2>5. OnePlace'
    <3>1. ASSUME NEW u \in Assignments, NEW q \in Polls, shown'[q] = Ev(u)
          PROVE  u \notin before'[q]
      <4>1. CASE q = p
        <5>1. u = t
          BY <3>1, <4>1, <2>2 DEF BridgeTypes
        <5> QED BY <5>1, <2>3, <1>1 DEF Reporting
      <4>2. CASE q # p
        BY <3>1, <4>2, <2>2, <1>1 DEF BridgeTypes, OnePlace
      <4> QED BY <4>1, <4>2
    <3>2. ASSUME NEW u \in Assignments
          PROVE  /\ InMail(u)' => u \notin seen'
                 /\ heartbeat' = Ev(u) => u \notin seen'
                 /\ InFetched(u)' => u \notin seen'
      BY <1>1, <1>2, <2>2, <2>3 DEF OnePlace
    <3>3. ASSUME NEW u \in Assignments
          PROVE  /\ InMail(u)' => \A i, j \in 1..Len(mail') : mail'[i] = Ev(u) /\ mail'[j] = Ev(u) => i = j
                 /\ InFetched(u)' => \A q, r \in Polls : fetched'[q] = Ev(u) /\ fetched'[r] = Ev(u) => q = r
      BY <1>1, <1>2 DEF OnePlace
    <3> QED BY <3>1, <3>2, <3>3, <1>1, <1>2, <2>2 DEF OnePlace
  <2>6. Single'
    BY <1>1, <1>2, <2>2 DEF Single, BridgeTypes
  <2> QED BY <2>4, <2>5, <2>6
<1>5. CASE current_event # NoEvent /\ current_event.kind # "assignment"
  <2>1. /\ shown' = [shown EXCEPT ![p] = current_event] /\ UNCHANGED seen
        /\ current_event' = NoEvent /\ poll' = [poll EXCEPT ![p] = "free"]
    BY <1>5 DEF Look
  <2>2. \A t \in Assignments : current_event # Ev(t) /\ current_event' # Ev(t)
    BY <1>5, <2>1
  <2>3. BridgeTypes' /\ Reporting'
    BY <1>1, <2>1 DEF BridgeTypes, Reporting
  <2>4. OnePlace'
    <3>1. \A u \in Assignments, q \in Polls : shown'[q] = Ev(u) => shown[q] = Ev(u)
      BY <2>1, <2>2 DEF BridgeTypes
    <3> QED BY <1>1, <1>2, <2>1, <2>2, <3>1 DEF OnePlace
  <2>5. Single'
    BY <1>1, <1>2, <2>1, <2>2 DEF Single, BridgeTypes
  <2> QED BY <2>3, <2>4, <2>5
<1> QED BY <1>3, <1>4, <1>5

LEMMA ReportKeeps ==
    ASSUME BridgeInv, EndReport \/ ReportFails \/ \E t \in Assignments : BeginReport(t)
    PROVE  BridgeInv'
<1> USE AssignmentEvents DEF BridgeInv
<1>1. UNCHANGED <<mail, eager, heartbeat, poll, fetched, shown, assigned, seen, dropped, losses, before>>
  BY DEF EndReport, ReportFails, BeginReport
<1>2. \A t \in Assignments : (InMail(t)' <=> InMail(t)) /\ (InFetched(t)' <=> InFetched(t))
  BY <1>1 DEF InMail, InFetched
<1>3. CASE EndReport
  <2>1. /\ report # NoTask /\ reported' = reported \cup {report} /\ report' = NoTask
        /\ current_event' = IF current_event = Ev(report) THEN NoEvent ELSE current_event
    BY <1>3 DEF EndReport, Ev
  <2>2. report \in seen \ reported /\ report \in Assignments
    BY <2>1 DEF Reporting, BridgeTypes
  <2>3. \A t \in Assignments : /\ current_event' = Ev(t) => current_event = Ev(t) /\ t # report
                               /\ current_event = Ev(t) /\ t # report => current_event' = Ev(t)
    BY <2>1, <2>2
  <2>4. BridgeTypes' /\ Reporting'
    BY <1>1, <2>1, <2>2 DEF BridgeTypes, Reporting
  <2>5. OnePlace'
    BY <1>1, <1>2, <2>1, <2>3 DEF OnePlace
  <2>6. Single'
    <3>1. SUFFICES ASSUME ~ eager
                   PROVE  Single'
      BY <1>1 DEF Single
    <3>2. ASSUME NEW t \in assigned' \ (seen' \cup dropped')
          PROVE  mail' = <<Ev(t)>> \/ heartbeat' = Ev(t) \/ current_event' = Ev(t) \/ InFetched(t)'
      <4>1. t \in Assignments /\ t \in assigned \ (seen \cup dropped) /\ t # report
        BY <1>1, <2>2 DEF BridgeTypes
      <4> QED BY <4>1, <1>1, <1>2, <2>3, <3>1 DEF Single
    <3> QED BY <3>1, <3>2, <1>1 DEF Single
  <2> QED BY <2>4, <2>5, <2>6
<1>4. CASE ReportFails \/ \E t \in Assignments : BeginReport(t)
  <2>1. /\ UNCHANGED <<current_event, reported>>
        /\ report' = NoTask \/ report' \in seen \ reported
    BY <1>4 DEF ReportFails, BeginReport
  <2>2. BridgeTypes' /\ Reporting'
    BY <1>1, <2>1 DEF BridgeTypes, Reporting
  <2>3. OnePlace'
    BY <1>1, <1>2, <2>1 DEF OnePlace
  <2>4. Single'
    BY <1>1, <2>1 DEF Single, InFetched
  <2> QED BY <2>2, <2>3, <2>4
<1> QED BY <1>3, <1>4

LEMMA OtherPollStepsKeep ==
    ASSUME BridgeInv, NEW p \in Polls, PollBegins(p) \/ PollGivesUp(p)
    PROVE  BridgeInv'
<1> USE AssignmentEvents DEF BridgeInv
<1>1. /\ poll[p] # "store" /\ poll' \in {[poll EXCEPT ![p] = "look"], [poll EXCEPT ![p] = "free"]}
      /\ UNCHANGED <<mail, eager, heartbeat, current_event, fetched, report, assigned, seen, reported,
                     dropped, losses>>
      /\ \/ shown' = [shown EXCEPT ![p] = NoEvent] /\ before' = [before EXCEPT ![p] = reported]
         \/ UNCHANGED <<shown, before>>
  BY DEF PollBegins, PollGivesUp
<1>2. \A t \in Assignments : (InMail(t)' <=> InMail(t)) /\ (InFetched(t)' <=> InFetched(t))
  BY <1>1 DEF InMail, InFetched
<1>3. BridgeTypes' /\ Reporting'
  BY <1>1 DEF BridgeTypes, Reporting
<1>4. \A t \in Assignments, q \in Polls : shown'[q] = Ev(t) => t \notin before'[q]
  BY <1>1 DEF OnePlace, BridgeTypes
<1>5. OnePlace'
  BY <1>1, <1>2, <1>4 DEF OnePlace
<1>6. Single'
  BY <1>1, <1>2 DEF Single, BridgeTypes
<1> QED BY <1>3, <1>5, <1>6

LEMMA EchoKeeps ==
    ASSUME BridgeInv, NEW t \in Assignments, Echo(t)
    PROVE  BridgeInv'
<1> USE AssignmentEvents DEF BridgeInv
<1>1. PICK k \in {"ended", "other"} : mail' = <<[kind |-> k, task |-> t]>>
  BY DEF Echo
<1>2. /\ eager
      /\ UNCHANGED <<eager, heartbeat, current_event, poll, fetched, shown, report, assigned, seen,
                     reported, dropped, losses, before>>
  BY DEF Echo
<1>3. mail' \in Seq(Events)
  BY <1>1 DEF Events
<1>4. \A u \in Assignments : ~ InMail(u)' /\ (InFetched(u)' <=> InFetched(u))
  <2>1. ASSUME NEW u \in Assignments, InMail(u)'
        PROVE  FALSE
    <3>1. Len(mail') = 1 /\ mail'[1].kind = k
      BY <1>1
    <3>2. mail'[1] = Ev(u)
      BY <2>1, <3>1 DEF InMail
    <3> QED BY <3>1, <3>2
  <2> QED BY <2>1, <1>2 DEF InFetched
<1>5. BridgeTypes' /\ Reporting' /\ Single'
  BY <1>2, <1>3 DEF BridgeTypes, Reporting, Single
<1>6. OnePlace'
  BY <1>2, <1>4 DEF OnePlace
<1> QED BY <1>5, <1>6

LEMMA BridgeInvariant == BridgeSpec => []BridgeInv
<1>1. BridgeInv /\ [BridgeNext]_bridgeVars => BridgeInv'
  <2> SUFFICES ASSUME BridgeInv, [BridgeNext]_bridgeVars
               PROVE  BridgeInv'
    OBVIOUS
  <2>1. CASE UNCHANGED bridgeVars
    <3>1. \A t : (InMail(t)' <=> InMail(t)) /\ (InFetched(t)' <=> InFetched(t))
      BY <2>1 DEF bridgeVars, InMail, InFetched
    <3>2. BridgeTypes' /\ Reporting'
      BY <2>1 DEF bridgeVars, BridgeInv, BridgeTypes, Reporting
    <3>3. OnePlace'
      BY <2>1, <3>1 DEF bridgeVars, BridgeInv, OnePlace
    <3>4. Single'
      BY <2>1, <3>1 DEF bridgeVars, BridgeInv, Single
    <3> QED BY <3>2, <3>3, <3>4 DEF BridgeInv
  <2>2. CASE BridgeNext
    BY <2>2, AssignKeeps, EchoKeeps, HeartbeatFetchKeeps, HeartbeatStoreKeeps, ReportKeeps,
       PollFetchKeeps, PollStoreKeeps, LookKeeps, OtherPollStepsKeep DEF BridgeNext
  <2> QED BY <2>1, <2>2
<1> QED BY <1>1, BridgeStarts, PTL DEF BridgeSpec

\* A poll never offers a task whose end had been reported when the poll began,
\* for any number of tasks and polls (worker.rs, poll_event and notify).
THEOREM FinishedIsNotOffered == BridgeSpec => []NoFinishedWork
<1>1. BridgeInv => NoFinishedWork
  <2> SUFFICES ASSUME BridgeInv, NEW p \in Polls, shown[p].kind = "assignment"
               PROVE  shown[p].task \notin before[p]
    BY DEF NoFinishedWork
  <2>1. shown[p] \in Events \cup {NoEvent}
    BY DEF BridgeInv, BridgeTypes
  <2>2. shown[p].task \in Assignments /\ shown[p] = Ev(shown[p].task)
    BY <2>1, AssignmentEvents
  <2> QED BY <2>2 DEF BridgeInv, OnePlace
<1> QED BY <1>1, BridgeInvariant, PTL

\* While the daemon assigns one task at a time, no assignment is lost between the
\* heartbeat loop and the polls (worker.rs, process_message and snapshot_event).
THEOREM AssignmentArrives == BridgeSpec => []OneTaskArrives
<1>1. BridgeInv => OneTaskArrives
  BY DEF BridgeInv, Single, OneTaskArrives, InFetched, Ev
<1> QED BY <1>1, BridgeInvariant, PTL

-----------------------------------------------------------------------------
(* The handshake: every acknowledgement is one token, which a handler of   *)
(* an ACK carries to a byte, to the file or to nothing.                    *)

HookSteps == {"none", "prepared", "on socket", "connected", "for file", "over"}
AckSteps == {"none", "writer", "byte", "file"}

AckTypes ==
    /\ hook \in [Hooks -> HookSteps] /\ hooks_begun \in 0..MaxHooks
    /\ \A h \in Hooks : h > hooks_begun => hook[h] = "none"
    /\ ack_marker \in BOOLEAN /\ marker_file \in BOOLEAN /\ overlap \in BOOLEAN
    /\ ack_writer \in Hooks \cup {NoHook}
    /\ accepting \subseteq Hooks /\ byte \subseteq Hooks /\ released \subseteq Hooks
    /\ ack \in [Ackers -> AckSteps] /\ marker_opt \in [Ackers -> BOOLEAN]
    /\ writer_opt \in [Ackers -> Hooks \cup {NoHook}]
    /\ \A a \in Ackers : ack[a] = "byte" => writer_opt[a] \in Hooks
    /\ acks \in Nat /\ owed \in Hooks \cup {NoHook} /\ cut \subseteq Hooks

\* The handlers of an ACK that are under way.
Carriers == {a \in Ackers : ack[a] # "none"}

\* The hooks that are released, or about to be.
Reached == released \cup byte
FileToken == IF marker_file THEN 1 ELSE 0

\* Each ACK is at most one of: a handler, a byte in a socket, the file, a hook
\* that was released.
Tokens ==
    /\ IsFiniteSet(Carriers) /\ IsFiniteSet(Reached)
    /\ Cardinality(Reached) + Cardinality(Carriers) + FileToken <= acks

\* As long as the hooks of the task run one after the other, the hook that is
\* owed an ACK has it, or had it in its socket when its time there ended, or a
\* handler that took the marker carries it.
Owing ==
    /\ \A h, k \in Hooks : Waiting(h) /\ Waiting(k) => h = k
    /\ owed # NoHook =>
          \/ owed \in released \cup byte \cup cut
          \/ Waiting(owed) /\ (marker_file \/ \E a \in Carriers : marker_opt[a])

AckInv ==
    /\ AckTypes
    /\ \A h \in byte : hook[h] = "connected"
    /\ Tokens
    /\ ~ overlap => Owing

LEMMA AckInitInv ==
    ASSUME AckInit
    PROVE  AckInv
<1>1. Carriers = {} /\ Reached = {}
  BY DEF AckInit, Carriers, Reached
<1>2. Tokens
  BY <1>1, FS_EmptySet DEF AckInit, Tokens, FileToken
<1>3. AckTypes
  <2>1. MaxHooks \in Nat /\ 0 \in 0..MaxHooks
    BY AckAssumption
  <2>2. hook \in [Hooks -> HookSteps] /\ writer_opt \in [Ackers -> Hooks \cup {NoHook}]
    BY DEF AckInit, HookSteps
  <2>3. ack \in [Ackers -> AckSteps] /\ marker_opt \in [Ackers -> BOOLEAN]
    BY DEF AckInit, AckSteps
  <2>4. \A h \in Hooks : hook[h] = "none"
    BY DEF AckInit
  <2> QED
    BY <2>1, <2>2, <2>3, <2>4 DEF AckInit, AckTypes
<1>4. Owing
  BY DEF AckInit, Owing, Waiting
<1> QED
  BY <1>2, <1>3, <1>4 DEF AckInv, AckInit

LEMMA AckTypesStep ==
    ASSUME AckTypes, AckNext
    PROVE  AckTypes'
<1>1. 0 \notin Hooks /\ MaxHooks \in Nat
  BY AckAssumption DEF Hooks
<1>2. CASE Prepare
  <2>1. hooks_begun' = hooks_begun + 1 /\ hooks_begun' \in 0..MaxHooks
    BY <1>1, <1>2 DEF Prepare, AckTypes
  <2>2. overlap' \in BOOLEAN
    BY <1>2 DEF Prepare, AckTypes
  <2>3. hook' = [hook EXCEPT ![hooks_begun'] = "prepared"]
    BY <1>2 DEF Prepare, At
  <2>4. hook' \in [Hooks -> HookSteps]
    BY <2>3 DEF AckTypes, HookSteps
  <2>5. \A h \in Hooks : h > hooks_begun' => hook'[h] = "none"
    BY <1>1, <2>1, <2>3 DEF AckTypes, Hooks
  <2> QED
    BY <1>2, <2>1, <2>2, <2>4, <2>5 DEF Prepare, AckTypes
<1>3. ASSUME NEW a \in Ackers, TakeMarker(a) \/ TakeWriter(a) \/ WriteByte(a) \/ TouchMarker(a)
      PROVE  AckTypes'
  <2>1. CASE TakeMarker(a)
    <3>1. owed' \in Hooks \cup {NoHook}
      BY <2>1 DEF TakeMarker, AckTypes
    <3>2. ack' = [ack EXCEPT ![a] = "writer"] /\ marker_opt' = [marker_opt EXCEPT ![a] = ack_marker]
      BY <2>1 DEF TakeMarker
    <3>3. \A b \in Ackers : ack'[b] = "byte" => ack[b] = "byte"
      BY <3>2 DEF AckTypes
    <3>4. ack' \in [Ackers -> AckSteps] /\ marker_opt' \in [Ackers -> BOOLEAN] /\ acks' \in Nat
      BY <2>1, <3>2 DEF TakeMarker, AckTypes, AckSteps
    <3>5. UNCHANGED <<hook, hooks_begun, ack_writer, marker_file, accepting, byte, writer_opt,
                      released, cut, overlap>> /\ ack_marker' = FALSE
      BY <2>1 DEF TakeMarker
    <3> QED
      BY <3>1, <3>3, <3>4, <3>5 DEF AckTypes
  <2>2. CASE TakeWriter(a)
    <3>1. /\ writer_opt' = [writer_opt EXCEPT ![a] = ack_writer] /\ ack_writer' = NoHook
          /\ ack' = [ack EXCEPT ![a] = IF ack_writer = NoHook THEN "file" ELSE "byte"]
      BY <2>2 DEF TakeWriter
    <3>2. ack' \in [Ackers -> AckSteps] /\ writer_opt' \in [Ackers -> Hooks \cup {NoHook}]
      BY <3>1 DEF AckTypes, AckSteps
    <3>3. \A b \in Ackers : ack'[b] = "byte" => writer_opt'[b] \in Hooks
      BY <3>1 DEF AckTypes
    <3> QED
      BY <2>2, <3>1, <3>2, <3>3 DEF TakeWriter, AckTypes
  <2>3. CASE WriteByte(a)
    <3>1. /\ writer_opt' = [writer_opt EXCEPT ![a] = NoHook]
          /\ \E step \in {"none", "file"} : ack' = [ack EXCEPT ![a] = step]
      BY <2>3 DEF WriteByte
    <3>2. ack' \in [Ackers -> AckSteps] /\ writer_opt' \in [Ackers -> Hooks \cup {NoHook}]
      BY <3>1 DEF AckTypes, AckSteps
    <3>3. \A b \in Ackers : ack'[b] = "byte" => writer_opt'[b] \in Hooks
      BY <3>1 DEF AckTypes
    <3>4. byte' \subseteq Hooks /\ marker_file' \in BOOLEAN /\ marker_opt' \in [Ackers -> BOOLEAN]
      BY <2>3 DEF WriteByte, AckTypes
    <3>5. UNCHANGED <<hook, hooks_begun, ack_marker, ack_writer, accepting, acks, released, owed,
                      cut, overlap>>
      BY <2>3 DEF WriteByte
    <3> QED
      BY <3>2, <3>3, <3>4, <3>5 DEF AckTypes
  <2>4. CASE TouchMarker(a)
    BY <2>4 DEF TouchMarker, AckTypes, AckSteps
  <2> QED
    BY <1>3, <2>1, <2>2, <2>3, <2>4
<1>4. ASSUME NEW h \in Hooks,
             \/ StartHook(h) \/ Connect(h) \/ StoreWriter(h) \/ ReadByte(h) \/ SocketTimeout(h)
             \/ FindFile(h) \/ FileTimeout(h)
      PROVE  AckTypes'
  <2>1. CASE StartHook(h) \/ Connect(h) \/ StoreWriter(h)
    BY <2>1 DEF StartHook, Connect, StoreWriter, AckTypes, At, HookSteps
  <2>2. CASE ReadByte(h) \/ SocketTimeout(h)
    BY <2>2 DEF ReadByte, SocketTimeout, AckTypes, At, HookSteps
  <2>3. CASE FindFile(h) \/ FileTimeout(h)
    BY <2>3 DEF FindFile, FileTimeout, AckTypes, At, HookSteps
  <2> QED
    BY <1>4, <2>1, <2>2, <2>3
<1> QED
  BY <1>2, <1>3, <1>4 DEF AckNext

\* A byte is only in the socket of a hook that still reads it.
LEMMA BytesStep ==
    ASSUME AckTypes, \A h \in byte : hook[h] = "connected", AckNext
    PROVE  (\A h \in byte : hook[h] = "connected")'
<1>1. CASE Prepare
  <2>1. hook' = [hook EXCEPT ![hooks_begun + 1] = "prepared"] /\ byte' = byte
    BY <1>1 DEF Prepare, At
  <2>2. \A h \in byte : h \in Hooks /\ h \in Nat /\ h # hooks_begun + 1
    BY AckAssumption DEF AckTypes, Hooks
  <2> QED
    BY <2>1, <2>2 DEF AckTypes
<1>2. ASSUME NEW a \in Ackers, TakeMarker(a) \/ TakeWriter(a) \/ WriteByte(a) \/ TouchMarker(a)
      PROVE  (\A h \in byte : hook[h] = "connected")'
  BY <1>2 DEF TakeMarker, TakeWriter, WriteByte, TouchMarker
<1>3. ASSUME NEW h \in Hooks,
             \/ StartHook(h) \/ Connect(h) \/ StoreWriter(h) \/ ReadByte(h) \/ SocketTimeout(h)
             \/ FindFile(h) \/ FileTimeout(h)
      PROVE  (\A k \in byte : hook[k] = "connected")'
  BY <1>3 DEF StartHook, Connect, StoreWriter, ReadByte, SocketTimeout, FindFile, FileTimeout,
              AckTypes, At
<1> QED
  BY <1>1, <1>2, <1>3 DEF AckNext

LEMMA OneMore ==
    ASSUME NEW S, IsFiniteSet(S), NEW x
    PROVE  /\ IsFiniteSet(S \cup {x}) /\ Cardinality(S \cup {x}) \in Nat
           /\ Cardinality(S \cup {x}) <= Cardinality(S) + 1
<1>1. IsFiniteSet(S \cup {x}) /\ Cardinality(S) \in Nat
  BY FS_AddElement, FS_CardinalityType
<1>2. CASE x \in S
  <2>1. S \cup {x} = S
    BY <1>2
  <2> QED
    BY <1>1, <2>1
<1>3. CASE x \notin S
  BY <1>1, <1>3, FS_AddElement, FS_CardinalityType
<1> QED
  BY <1>2, <1>3

\* No step makes a token but the ACK itself.
LEMMA TokensStep ==
    ASSUME AckInv, AckTypes', AckNext
    PROVE  Tokens'
<1>1. /\ AckTypes /\ IsFiniteSet(Carriers) /\ IsFiniteSet(Reached)
      /\ Cardinality(Reached) + Cardinality(Carriers) + FileToken <= acks
  BY DEF AckInv, Tokens
<1>2. /\ Cardinality(Reached) \in Nat /\ Cardinality(Carriers) \in Nat
      /\ acks \in Nat /\ acks' \in Nat /\ FileToken \in {0, 1} /\ FileToken' \in {0, 1}
  BY <1>1, FS_CardinalityType DEF AckTypes, FileToken
<1> USE <1>1, <1>2
<1>14. (marker_file' => marker_file) => FileToken' <= FileToken
  BY DEF FileToken
<1>15. marker_file /\ ~ marker_file' => FileToken' = FileToken - 1
  BY DEF FileToken
<1>3. CASE ack' = ack /\ acks' = acks /\ Reached' = Reached /\ (marker_file' => marker_file)
  <2>1. Carriers' = Carriers
    BY <1>3 DEF Carriers
  <2>2. Cardinality(Reached') + Cardinality(Carriers') + FileToken' <= acks'
    BY <1>3, <1>14, <2>1
  <2> QED
    BY <1>3, <2>1, <2>2 DEF Tokens
<1>4. ASSUME NEW a \in Ackers, TakeMarker(a)
      PROVE  Tokens'
  <2>1. Reached' = Reached /\ marker_file' = marker_file /\ acks' = acks + 1
    BY <1>4 DEF TakeMarker, Reached
  <2>2. a \notin Carriers /\ Carriers' = Carriers \cup {a}
    BY <1>4 DEF TakeMarker, Carriers, AckTypes
  <2>3. IsFiniteSet(Carriers') /\ Cardinality(Carriers') = Cardinality(Carriers) + 1
    BY <2>2, FS_AddElement
  <2>4. Cardinality(Reached') + Cardinality(Carriers') + FileToken' <= acks'
    BY <1>14, <2>1, <2>3
  <2> QED
    BY <2>1, <2>3, <2>4 DEF Tokens
<1>5. ASSUME NEW a \in Ackers, TakeWriter(a)
      PROVE  Tokens'
  <2>1. Carriers' = Carriers
    BY <1>5 DEF TakeWriter, Carriers, AckTypes
  <2>2. Reached' = Reached /\ marker_file' = marker_file /\ acks' = acks
    BY <1>5 DEF TakeWriter, Reached
  <2>3. Cardinality(Reached') + Cardinality(Carriers') + FileToken' <= acks'
    BY <1>14, <2>1, <2>2
  <2> QED
    BY <2>1, <2>2, <2>3 DEF Tokens
<1>6. ASSUME NEW a \in Ackers, ack[a] # "none", ack' = [ack EXCEPT ![a] = "none"], acks' = acks,
             \/ \E w \in Hooks : Reached' = Reached \cup {w} /\ (marker_file' => marker_file)
             \/ Reached' = Reached
      PROVE  Tokens'
  <2>1. a \in Carriers /\ Carriers' = Carriers \ {a}
    BY <1>6 DEF Carriers, AckTypes
  <2>2. IsFiniteSet(Carriers') /\ Cardinality(Carriers') = Cardinality(Carriers) - 1
    BY <2>1, FS_RemoveElement
  <2>3. CASE Reached' = Reached
    <3>1. Cardinality(Reached') + Cardinality(Carriers') + FileToken' <= acks'
      BY <1>6, <2>2, <2>3
    <3> QED
      BY <2>2, <2>3, <3>1 DEF Tokens
  <2>4. ASSUME NEW w \in Hooks, Reached' = Reached \cup {w}, marker_file' => marker_file
        PROVE  Tokens'
    <3>1. /\ IsFiniteSet(Reached') /\ Cardinality(Reached') \in Nat
          /\ Cardinality(Reached') <= Cardinality(Reached) + 1
      BY <2>4, OneMore
    <3> QED
      BY <1>6, <1>14, <2>2, <2>4, <3>1 DEF Tokens
  <2> QED
    BY <1>6, <2>3, <2>4
<1>7. ASSUME NEW a \in Ackers, WriteByte(a)
      PROVE  Tokens'
  <2>1. CASE hook[writer_opt[a]] = "connected"
    <3>1. writer_opt[a] \in Hooks
      BY <1>7 DEF WriteByte, AckTypes
    <3>2. byte' = byte \cup {writer_opt[a]} /\ (marker_file' => marker_file) /\ released' = released
          /\ ack[a] # "none" /\ ack' = [ack EXCEPT ![a] = "none"] /\ acks' = acks
      BY <1>7, <2>1 DEF WriteByte
    <3> QED
      BY <1>6, <3>1, <3>2 DEF Reached
  <2>2. CASE hook[writer_opt[a]] # "connected"
    <3>1. Carriers' = Carriers
      BY <1>7, <2>2 DEF WriteByte, Carriers, AckTypes
    <3>2. Reached' = Reached /\ marker_file' = marker_file /\ acks' = acks
      BY <1>7, <2>2 DEF WriteByte, Reached
    <3>3. Cardinality(Reached') + Cardinality(Carriers') + FileToken' <= acks'
      BY <1>14, <3>1, <3>2
    <3> QED
      BY <3>1, <3>2, <3>3 DEF Tokens
  <2> QED
    BY <2>1, <2>2
<1>8. ASSUME NEW a \in Ackers, TouchMarker(a)
      PROVE  Tokens'
  BY <1>6, <1>8 DEF TouchMarker, Reached
<1>9. ASSUME NEW h \in Hooks, FindFile(h)
      PROVE  Tokens'
  <2>1. Carriers' = Carriers /\ acks' = acks /\ marker_file /\ ~ marker_file'
    BY <1>9 DEF FindFile, Carriers
  <2>2. Reached' = Reached \cup {h}
    BY <1>9 DEF FindFile, Reached
  <2>3. /\ IsFiniteSet(Reached') /\ Cardinality(Reached') \in Nat
        /\ Cardinality(Reached') <= Cardinality(Reached) + 1
    BY <2>2, OneMore
  <2> QED
    BY <1>15, <2>1, <2>3 DEF Tokens
<1>10. Prepare => Tokens'
  BY <1>3 DEF Prepare, Reached
<1>11. ASSUME NEW h \in Hooks,
              StartHook(h) \/ Connect(h) \/ StoreWriter(h) \/ ReadByte(h) \/ FileTimeout(h)
       PROVE  Tokens'
  BY <1>3, <1>11 DEF StartHook, Connect, StoreWriter, ReadByte, FileTimeout, Reached
\* A token that is cut is lost.
<1>12. ASSUME NEW h \in Hooks, SocketTimeout(h)
       PROVE  Tokens'
  <2>1. Reached' \in SUBSET Reached
    BY <1>12 DEF SocketTimeout, Reached
  <2>2. /\ IsFiniteSet(Reached') /\ Cardinality(Reached') \in Nat
        /\ Cardinality(Reached') <= Cardinality(Reached)
    BY <2>1, FS_Subset, FS_CardinalityType
  <2>3. Carriers' = Carriers /\ acks' = acks /\ marker_file' = marker_file
    BY <1>12 DEF SocketTimeout, Carriers
  <2>4. Cardinality(Reached') + Cardinality(Carriers') + FileToken' <= acks'
    BY <1>14, <2>2, <2>3
  <2> QED
    BY <2>2, <2>3, <2>4 DEF Tokens
<1> QED
  BY <1>4, <1>5, <1>7, <1>8, <1>9, <1>10, <1>11, <1>12 DEF AckNext

\* What is owed stays with a handler until the hook has it.
LEMMA OwingStep ==
    ASSUME AckInv, AckTypes', AckNext, ~ overlap'
    PROVE  Owing'
<1>1. ~ overlap
  BY DEF AckNext, Prepare, TakeMarker, TakeWriter, WriteByte, TouchMarker, StartHook, Connect,
         StoreWriter, ReadByte, SocketTimeout, FindFile, FileTimeout
<1>2. /\ AckTypes /\ \A h, k \in Hooks : Waiting(h) /\ Waiting(k) => h = k
      /\ owed # NoHook =>
            \/ owed \in released \cup byte \cup cut
            \/ Waiting(owed) /\ (marker_file \/ \E a \in Carriers : marker_opt[a])
      /\ \A h \in byte : hook[h] = "connected"
  BY <1>1 DEF AckInv, Owing
<1>3. owed \in Hooks \cup {NoHook}
  BY <1>2 DEF AckTypes
<1>4. CASE Prepare
  <2>1. \A h \in Hooks : ~ Waiting(h)
    BY <1>4 DEF Prepare
  <2>2. hook' = [hook EXCEPT ![hooks_begun + 1] = "prepared"]
    BY <1>4 DEF Prepare, At
  <2>3. \A h \in Hooks : Waiting(h)' => h = hooks_begun + 1
    BY <1>2, <2>1, <2>2 DEF Waiting, AckTypes
  <2>4. UNCHANGED <<owed, released, byte, cut>>
    BY <1>4 DEF Prepare
  <2> QED
    BY <1>2, <1>3, <2>1, <2>3, <2>4 DEF Owing
<1>5. ASSUME NEW a \in Ackers, TakeMarker(a)
      PROVE  Owing'
  <2>1. UNCHANGED <<hook, released, byte, cut, marker_file>> /\ \A h \in Hooks : Waiting(h)' = Waiting(h)
    BY <1>5 DEF TakeMarker, Waiting
  <2>2. \A b \in Carriers : b \in Carriers' /\ marker_opt'[b] = marker_opt[b]
    BY <1>2, <1>5 DEF TakeMarker, Carriers, AckTypes
  <2>3. a \in Carriers' /\ marker_opt'[a] = ack_marker
    BY <1>2, <1>5 DEF TakeMarker, Carriers, AckTypes
  <2>4. CASE ack_marker /\ \E h \in Hooks : Waiting(h)
    <3>1. owed' \in Hooks /\ Waiting(owed')
      BY <1>5, <2>4 DEF TakeMarker
    <3> QED
      BY <1>2, <2>1, <2>3, <2>4, <3>1 DEF Owing
  <2>5. CASE ~ (ack_marker /\ \E h \in Hooks : Waiting(h))
    <3>1. owed' = owed
      BY <1>5, <2>5 DEF TakeMarker
    <3> QED
      BY <1>2, <1>3, <2>1, <2>2, <3>1 DEF Owing
  <2> QED
    BY <2>4, <2>5
<1>6. ASSUME NEW a \in Ackers, TakeWriter(a)
      PROVE  Owing'
  <2>1. UNCHANGED <<hook, released, byte, cut, marker_file, marker_opt, owed>>
    BY <1>6 DEF TakeWriter
  <2>2. Carriers' = Carriers
    BY <1>2, <1>6 DEF TakeWriter, Carriers, AckTypes
  <2> QED
    BY <1>2, <2>1, <2>2 DEF Owing, Waiting
<1>7. ASSUME NEW a \in Ackers, WriteByte(a)
      PROVE  Owing'
  <2>1. UNCHANGED <<hook, released, cut, owed>>
    BY <1>7 DEF WriteByte
  <2>2. CASE hook[writer_opt[a]] = "connected"
    <3> DEFINE w == writer_opt[a]
    <3>1. w \in Hooks /\ Waiting(w) /\ byte' = byte \cup {w}
      BY <1>2, <1>7, <2>2 DEF WriteByte, AckTypes, Waiting
    <3>2. owed # NoHook /\ Waiting(owed) => owed = w
      BY <1>2, <1>3, <3>1
    <3> QED
      BY <1>2, <2>1, <3>1, <3>2 DEF Owing, Waiting
  <2>3. CASE hook[writer_opt[a]] # "connected"
    <3>1. UNCHANGED <<byte, marker_file, marker_opt>>
      BY <1>7, <2>3 DEF WriteByte
    <3>2. Carriers' = Carriers
      BY <1>2, <1>7, <2>3 DEF WriteByte, Carriers, AckTypes
    <3> QED
      BY <1>2, <2>1, <3>1, <3>2 DEF Owing, Waiting
  <2> QED
    BY <2>2, <2>3
<1>8. ASSUME NEW a \in Ackers, TouchMarker(a)
      PROVE  Owing'
  <2>1. UNCHANGED <<hook, released, byte, cut, owed>> /\ marker_file' = (marker_file \/ marker_opt[a])
    BY <1>8 DEF TouchMarker
  <2>2. \A b \in Carriers : b # a => b \in Carriers' /\ marker_opt'[b] = marker_opt[b]
    BY <1>2, <1>8 DEF TouchMarker, Carriers, AckTypes
  <2> QED
    BY <1>2, <2>1, <2>2 DEF Owing, Waiting
<1>9. ASSUME NEW h \in Hooks,
             \/ StartHook(h) \/ Connect(h) \/ StoreWriter(h) \/ ReadByte(h) \/ SocketTimeout(h)
             \/ FindFile(h) \/ FileTimeout(h)
      PROVE  Owing'
  <2>1. Waiting(h) \/ UNCHANGED hook
    BY <1>9 DEF StartHook, Connect, StoreWriter, ReadByte, SocketTimeout, FindFile, FileTimeout,
                Waiting
  <2>2. \A k \in Hooks : k # h => (Waiting(k)' <=> Waiting(k))
    <3>1. UNCHANGED hook \/ \E step \in HookSteps : hook' = [hook EXCEPT ![h] = step]
      BY <1>9 DEF StartHook, Connect, StoreWriter, ReadByte, SocketTimeout, FindFile,
                  FileTimeout, At, HookSteps
    <3>2. \A k \in Hooks : k # h => hook'[k] = hook[k]
      BY <1>2, <3>1 DEF AckTypes
    <3> QED
      BY <3>2 DEF Waiting
  <2>3. Waiting(h)' => Waiting(h)
    BY <2>1 DEF Waiting
  <2>4. \A k, l \in Hooks : Waiting(k)' /\ Waiting(l)' => k = l
    BY <1>2, <2>2, <2>3
  <2>5. Carriers' = Carriers /\ marker_opt' = marker_opt
    BY <1>9 DEF StartHook, Connect, StoreWriter, ReadByte, SocketTimeout, FindFile, FileTimeout,
                Carriers
  <2>6. released \cup byte \cup cut \subseteq (released \cup byte \cup cut)'
    BY <1>9 DEF StartHook, Connect, StoreWriter, ReadByte, SocketTimeout, FindFile, FileTimeout
  <2>7. CASE ReadByte(h) \/ FindFile(h)
    <3>1. h \in released' /\ owed' = owed
      BY <2>7 DEF ReadByte, FindFile
    <3>2. \A k \in Hooks : k # h => ~ Waiting(k)
      BY <1>2, <2>7 DEF ReadByte, FindFile, Waiting
    <3> QED
      BY <1>2, <1>3, <2>4, <2>6, <3>1, <3>2 DEF Owing
  <2>8. CASE StartHook(h) \/ Connect(h) \/ StoreWriter(h) \/ SocketTimeout(h)
    <3>1. Waiting(h) => Waiting(h)'
      <4>1. hook \in [Hooks -> HookSteps]
        BY <1>2 DEF AckTypes
      <4>2. CASE StoreWriter(h)
        BY <4>2 DEF StoreWriter, Waiting
      <4>3. CASE StartHook(h) \/ Connect(h) \/ SocketTimeout(h)
        <5>1. \E step \in {"on socket", "connected", "for file"} : hook' = [hook EXCEPT ![h] = step]
          BY <4>3 DEF StartHook, Connect, SocketTimeout, At
        <5> QED
          BY <4>1, <5>1 DEF Waiting
      <4> QED
        BY <2>8, <4>2, <4>3
    <3>2. owed' = owed /\ marker_file' = marker_file
      BY <2>8 DEF StartHook, Connect, StoreWriter, SocketTimeout
    <3> QED
      BY <1>2, <1>3, <2>2, <2>4, <2>5, <2>6, <3>1, <3>2 DEF Owing
  <2>9. CASE FileTimeout(h)
    <3>1. marker_file' = marker_file /\ owed' = IF owed = h THEN NoHook ELSE owed
      BY <2>9 DEF FileTimeout
    <3> QED
      BY <1>2, <1>3, <2>2, <2>4, <2>5, <2>6, <3>1 DEF Owing
  <2> QED
    BY <1>9, <2>7, <2>8, <2>9
<1> QED
  BY <1>4, <1>5, <1>6, <1>7, <1>8, <1>9 DEF AckNext

\* With any number of hooks and of handlers of an ACK: the ACK that took the
\* marker reaches the hook by the byte or by the file, unless the byte is cut off
\* by the end of the hook's time on the socket, and no ACK releases two hooks
\* (handle_notify, run_notify_hook).
THEOREM AcknowledgementArrives == AckSpec => []AckReaches
<1>1. AckInit => AckInv
  BY AckInitInv
<1>2. AckInv /\ [AckNext]_ackVars => AckInv'
  <2> SUFFICES ASSUME AckInv, [AckNext]_ackVars
               PROVE  AckInv'
    OBVIOUS
  <2>1. CASE UNCHANGED ackVars
    BY <2>1 DEF ackVars, AckInv, AckTypes, Tokens, Owing, Waiting, Carriers, Reached,
                FileToken
  <2>2. CASE AckNext
    <3>1. AckTypes'
      BY <2>2, AckTypesStep DEF AckInv
    <3>2. (\A h \in byte : hook[h] = "connected")'
      BY <2>2, BytesStep DEF AckInv
    <3>3. Tokens' /\ (~ overlap' => Owing')
      BY <2>2, <3>1, TokensStep, OwingStep
    <3> QED
      BY <3>1, <3>2, <3>3 DEF AckInv
  <2> QED
    BY <2>1, <2>2
<1>3. AckInv => AckReaches
  <2> SUFFICES ASSUME AckInv, ~ overlap
               PROVE  AckReaches
    BY DEF AckReaches
  <2>1. owed # NoHook /\ Delivered
          => \/ owed \in released \cup cut
             \/ hook[owed] = "connected" /\ owed \in byte
             \/ Waiting(owed) /\ marker_file
    BY DEF AckInv, Owing, Carriers, Delivered
  <2>2. Cardinality(released) <= acks
    <3>1. IsFiniteSet(Reached) /\ released \in SUBSET (Reached)
      BY DEF AckInv, Tokens, Reached
    <3>2. /\ Cardinality(released) <= Cardinality(Reached)
          /\ Cardinality(released) \in Nat /\ Cardinality(Reached) \in Nat
      BY <3>1, FS_Subset, FS_CardinalityType
    <3>3. Cardinality(Carriers) \in Nat /\ acks \in Nat /\ FileToken \in {0, 1}
      BY FS_CardinalityType DEF AckInv, Tokens, AckTypes, FileToken
    <3>4. Cardinality(Reached) + Cardinality(Carriers) + FileToken <= acks
      BY DEF AckInv, Tokens
    <3> QED
      BY <3>2, <3>3, <3>4
  <2> QED
    BY <2>1, <2>2 DEF AckReaches
<1> QED
  BY <1>1, <1>2, <1>3, PTL DEF AckSpec
=============================================================================
