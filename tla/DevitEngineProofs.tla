--------------------------- MODULE DevitEngineProofs ---------------------------
(***************************************************************************)
(* Proofs about the core engine: the journal numbers a key once, a key     *)
(* applies its patch once, and a revert restores.                          *)
(***************************************************************************)
EXTENDS DevitEngine, TLAPS

Steps == {"idle", "policy", "apply", "commit", "journal", "cache", "tests", "revert",
          "append", "remember", "done", "failed"}

Types ==
    /\ tree \in Trees /\ index \in Trees /\ head \in Trees
    /\ cache \in [Keys -> Results \cup {None}]
    /\ journal \in Nat /\ journalled \in [Keys -> Nat \cup {None}]
    /\ call \in [Callers -> Requests \cup {None}]
    /\ pc \in [Callers -> Steps]
    /\ result \in [Callers -> Results \cup {None}]
    /\ began \in [Callers -> Trees] /\ alone \in [Callers -> BOOLEAN]
    /\ uses \in [Keys -> SUBSET {"journal", "dry", "real"}]
    /\ spoilt \subseteq Keys /\ successes \in [Keys -> Nat]

\* What a call has in hand at each step.
Stages ==
    \A c \in Callers :
        /\ pc[c] # "idle" => call[c] \in Requests
        /\ pc[c] \in {"policy", "apply", "commit", "journal", "cache", "tests", "revert"}
              => call[c].op # "journal_append"
        /\ pc[c] \in {"append", "remember"} => call[c].op = "journal_append"
        /\ pc[c] \in {"commit", "journal", "cache", "tests", "revert"} => ~ call[c].dry
        /\ pc[c] \in {"journal", "cache"} => result[c].op = "patch" /\ ~ result[c].dry
        /\ pc[c] \in {"tests", "revert"} => call[c].op = "with_tests" /\ result[c].op = "patch"
        /\ pc[c] = "remember" => result[c].op = "journal"
        /\ pc[c] \in {"journal", "cache", "tests", "revert", "remember", "done"} => result[c] # None
        /\ pc[c] = "done" => (result[c].op = "journal") = (call[c].op = "journal_append")
        /\ result[c] # None /\ result[c].op = "patch" /\ result[c].reverted => pc[c] = "done"

Numbers ==
    /\ \A k \in Keys : journalled[k] # None => journalled[k] < journal
    /\ \A k \in Keys : cache[k] # None /\ cache[k].op = "patch" => ~ cache[k].reverted

EngineInv == Types /\ Stages /\ Numbers

LEMMA ResultFields ==
    /\ \A r \in Results : \/ /\ r.op = "patch" /\ r.dry \in BOOLEAN /\ r.sha \in BOOLEAN
                             /\ r.reverted \in BOOLEAN
                          \/ r.op = "journal" /\ r.offset \in Nat
    /\ \A d, s, v \in BOOLEAN : [op |-> "patch", dry |-> d, sha |-> s, reverted |-> v] \in Results
    /\ \A n \in Nat : [op |-> "journal", offset |-> n] \in Results
    /\ \A r \in Results : r.op = "patch" => [r EXCEPT !.reverted = TRUE] \in Results
  BY DEF Results

LEMMA RequestFields ==
    \A r \in Requests :
        /\ r.key \in Keys \cup {NoKey}
        /\ \/ r.op = "journal_append"
           \/ /\ r.op \in {"patch_apply", "with_tests"} /\ r.file \in Files /\ r.dry \in BOOLEAN
              /\ r.kind \in {"create", "modify", "delete"}
        /\ Kind(r) \in {"journal", "dry", "real"}
<1> SUFFICES ASSUME NEW r \in Requests
             PROVE  /\ r.key \in Keys \cup {NoKey}
                    /\ \/ r.op = "journal_append"
                       \/ /\ r.op \in {"patch_apply", "with_tests"} /\ r.file \in Files /\ r.dry \in BOOLEAN
                          /\ r.kind \in {"create", "modify", "delete"}
                    /\ Kind(r) \in {"journal", "dry", "real"}
  OBVIOUS
<1>1. r \in RequestType
  BY EngineAssumption
<1> QED BY <1>1 DEF RequestType, Kind

LEMMA EngineStarts == Init => EngineInv
<1> SUFFICES ASSUME Init PROVE EngineInv
  OBVIOUS
<1>1. [patch |-> 0, other |-> 0] \in Text
  BY DEF Text
<1>2. tree \in Trees
  BY <1>1 DEF Init, Trees
<1>3. Types
  BY <1>2 DEF Init, Types, Steps
<1>4. Stages /\ Numbers
  BY DEF Init, Stages, Numbers
<1> QED BY <1>3, <1>4 DEF EngineInv

LEMMA TreeSteps ==
    ASSUME Types
    PROVE  /\ \A c \in Callers : Apply(c) /\ call[c] \in Requests /\ call[c].op # "journal_append" => tree' \in Trees
           /\ Edit => tree' \in Trees /\ index' \in Trees /\ head' \in Trees
           /\ Rollback => tree' \in Trees /\ index' \in Trees /\ head' \in Trees
           /\ \A c \in Callers : Commit(c) => head' \in Trees
<1> USE DEF Types
<1>1. ASSUME NEW c \in Callers, Apply(c), call[c] \in Requests, call[c].op # "journal_append"
      PROVE  tree' \in Trees
  <2>1. call[c].file \in Files /\ call[c].kind \in {"create", "modify", "delete"}
    BY <1>1, RequestFields
  <2>2. Patched(call[c]) \in Text \cup {Absent}
    <3>1. CASE call[c].kind = "modify"
      <4>1. tree[call[c].file] \in Text
        BY <1>1, <2>1, <3>1 DEF Apply, Fits, Trees
      <4> QED BY <3>1, <4>1 DEF Patched, Text
    <3> QED BY <2>1, <3>1 DEF Patched, Text
  <2> QED BY <1>1, <2>2 DEF Apply, Trees
<1>2. ASSUME Edit
      PROVE  tree' \in Trees /\ index' \in Trees /\ head' \in Trees
  <2>1. CASE \E f \in Files : /\ tree[f] # Absent
                              /\ tree' = [tree EXCEPT ![f].other = @ + 1]
                              /\ UNCHANGED <<index, head>>
    <3>1. PICK f \in Files : /\ tree[f] # Absent
                             /\ tree' = [tree EXCEPT ![f].other = @ + 1]
                             /\ UNCHANGED <<index, head>>
      BY <2>1
    <3>2. tree[f] \in Text
      BY <3>1 DEF Trees
    <3>3. [tree[f] EXCEPT !.other = @ + 1] \in Text
      BY <3>2 DEF Text
    <3> QED BY <3>1, <3>3 DEF Trees
  <2> QED BY <1>2, <2>1 DEF Edit
<1>3. Rollback => tree' \in Trees /\ index' \in Trees /\ head' \in Trees
  <2>1. ResetHard => tree' \in Trees /\ index' \in Trees /\ head' \in Trees
    BY DEF ResetHard, Trees
  <2> QED BY <2>1 DEF Rollback, repo
<1>4. ASSUME NEW c \in Callers, Commit(c) PROVE head' \in Trees
  BY <1>4 DEF Commit
<1> QED BY <1>1, <1>2, <1>3, <1>4

LEMMA EngineKeeps == EngineInv /\ [Next]_vars => EngineInv'
<1> SUFFICES ASSUME EngineInv, [Next]_vars PROVE EngineInv'
  OBVIOUS
<1> USE ResultFields, RequestFields, EngineAssumption DEF EngineInv
<1>1. ASSUME NEW c \in Callers, Call(c) PROVE EngineInv'
  <2>1. PICK r \in Requests :
          /\ call' = [call EXCEPT ![c] = r]
          /\ IF Finds(r) # None
             THEN /\ result' = [result EXCEPT ![c] = Finds(r)]
                  /\ To(c, IF r.op = "with_tests" /\ ~ r.dry THEN "tests" ELSE "done")
             ELSE /\ result' = [result EXCEPT ![c] = None]
                  /\ To(c, IF r.op = "journal_append" THEN "append" ELSE "policy")
          /\ uses' = IF r.key = NoKey THEN uses ELSE [uses EXCEPT ![r.key] = @ \cup {Kind(r)}]
          /\ spoilt' = IF r.key # NoKey /\ \E o \in Callers : InCall(o) /\ call[o].key = r.key
                        THEN spoilt \cup {r.key} ELSE spoilt
    BY <1>1 DEF Call
  <2>2. /\ began' = [began EXCEPT ![c] = tree]
        /\ alone' = [alone EXCEPT ![c] = (tree = index /\ index = head)]
        /\ UNCHANGED <<repo, cache, journal, journalled, successes, edits>>
    BY <1>1 DEF Call
  <2>3. Finds(r) \in Results \cup {None}
    BY DEF Finds, Types
  <2>9. alone' \in [Callers -> BOOLEAN]
    <3>1. (tree = index /\ index = head) \in BOOLEAN
      OBVIOUS
    <3> QED BY <2>2, <3>1, Zenon DEF Types
  <2>10. Kind(r) \in {"journal", "dry", "real"} /\ r.key \in Keys \cup {NoKey}
    OBVIOUS
  <2>11. uses' \in [Keys -> SUBSET {"journal", "dry", "real"}]
    BY <2>1, <2>10 DEF Types
  <2>12. /\ spoilt' \subseteq Keys /\ result' \in [Callers -> Results \cup {None}]
         /\ pc' \in [Callers -> Steps] /\ call' \in [Callers -> Requests \cup {None}]
    <3>1. spoilt' \subseteq Keys
      BY <2>1, <2>10 DEF Types
    <3>2. result' = [result EXCEPT ![c] = Finds(r)] \/ result' = [result EXCEPT ![c] = None]
      BY <2>1
    <3>3. result' \in [Callers -> Results \cup {None}]
      BY <3>2, <2>3 DEF Types
    <3>4. \E s \in Steps : pc' = [pc EXCEPT ![c] = s]
      BY <2>1 DEF To, Steps
    <3>5. pc' \in [Callers -> Steps] /\ call' \in [Callers -> Requests \cup {None}]
      BY <2>1, <3>4 DEF Types
    <3> QED BY <3>1, <3>3, <3>5
  <2>4. Types'
    BY <2>2, <2>9, <2>11, <2>12 DEF Types, repo
  <2>5. Finds(r) # None => (Finds(r).op = "journal") = (r.op = "journal_append")
    BY DEF Finds
  <2>6. Finds(r) # None /\ Finds(r).op = "patch" => ~ Finds(r).reverted
    BY DEF Finds, Numbers
  <2>7. Stages'
    BY <2>1, <2>3, <2>5, <2>6 DEF Stages, To, Types
  <2>8. Numbers'
    BY <2>2 DEF Numbers
  <2> QED BY <2>4, <2>7, <2>8
<1>2. ASSUME NEW c \in Callers, Policy(c) PROVE EngineInv'
  <2>1. Types'
    BY <1>2 DEF Policy, To, Types, repo, ghost, Steps
  <2>2. Stages'
    BY <1>2 DEF Policy, To, Types, Stages
  <2>3. Numbers'
    BY <1>2 DEF Policy, Numbers
  <2> QED BY <2>1, <2>2, <2>3
<1>3. ASSUME NEW c \in Callers, Conflict(c) PROVE EngineInv'
  <2>1. Types'
    BY <1>3 DEF Conflict, Fail, To, Types, repo, ghost, Steps
  <2>2. Stages'
    BY <1>3 DEF Conflict, Fail, To, Types, Stages
  <2>3. Numbers'
    BY <1>3 DEF Conflict, Fail, Numbers
  <2> QED BY <2>1, <2>2, <2>3
<1>4. ASSUME NEW c \in Callers, DryRun(c) PROVE EngineInv'
  <2> DEFINE r == [op |-> "patch", dry |-> TRUE, sha |-> FALSE, reverted |-> FALSE]
  <2>1. /\ result' = [result EXCEPT ![c] = r] /\ pc' = [pc EXCEPT ![c] = "done"] /\ pc[c] = "apply"
        /\ cache' = IF call[c].key = NoKey THEN cache ELSE [cache EXCEPT ![call[c].key] = r]
        /\ UNCHANGED <<repo, journal, journalled, call, ghost, started, edits>>
    BY <1>4 DEF DryRun, Return, To, Remember
  <2>2. r \in Results /\ r.op = "patch" /\ ~ r.reverted /\ r # None
    OBVIOUS
  <2> HIDE DEF r
  <2>3. Types'
    BY <2>1, <2>2 DEF Types, repo, ghost, Steps
  <2>4. Stages'
    BY <2>1, <2>2 DEF Types, Stages
  <2>5. Numbers'
    BY <2>1, <2>2 DEF Types, Numbers
  <2> QED BY <2>3, <2>4, <2>5
<1>5. ASSUME NEW c \in Callers, Apply(c) PROVE EngineInv'
  <2>1. call[c] \in Requests /\ call[c].op # "journal_append"
    BY <1>5 DEF Apply, Stages
  <2>2. tree' \in Trees
    BY <1>5, <2>1, TreeSteps
  <2>6. alone' \in [Callers -> BOOLEAN]
    BY <1>5, Zenon DEF Apply, Disturb, Types
  <2>7. successes' \in [Keys -> Nat] /\ pc' \in [Callers -> Steps]
    BY <1>5, <2>1 DEF Apply, To, Types, Steps
  <2>3. Types'
    BY <1>5, <2>2, <2>6, <2>7 DEF Apply, Types
  <2>4. Stages'
    BY <1>5, <2>1 DEF Apply, To, Types, Stages
  <2>5. Numbers'
    BY <1>5 DEF Apply, Numbers
  <2> QED BY <2>3, <2>4, <2>5
<1>6. ASSUME NEW c \in Callers, CommitFails(c) PROVE EngineInv'
  <2>1. Types'
    BY <1>6 DEF CommitFails, Fail, To, Types, repo, Steps
  <2>2. Stages'
    BY <1>6 DEF CommitFails, Fail, To, Types, Stages
  <2>3. Numbers'
    BY <1>6 DEF CommitFails, Fail, Numbers
  <2> QED BY <2>1, <2>2, <2>3
<1>7. ASSUME NEW c \in Callers, Commit(c) PROVE EngineInv'
  <2> DEFINE commits == AutoCommit /\ index # head
             r == [op |-> "patch", dry |-> FALSE, sha |-> commits, reverted |-> FALSE]
  <2>1. /\ result' = [result EXCEPT ![c] = r] /\ pc' = [pc EXCEPT ![c] = "journal"] /\ pc[c] = "commit"
        /\ alone' = [o \in Callers |-> IF o = c THEN alone[o] ELSE FALSE] \/ UNCHANGED alone
        /\ UNCHANGED <<tree, index, cache, journal, journalled, call, began, uses, spoilt, successes, started, edits>>
    BY <1>7 DEF Commit, To, Disturb
  <2>2. r \in Results /\ r.op = "patch" /\ ~ r.reverted /\ ~ r.dry /\ r # None
    BY commits \in BOOLEAN
  <2> HIDE DEF r, commits
  <2>3. head' \in Trees
    BY <1>7, TreeSteps
  <2>7. alone' \in [Callers -> BOOLEAN]
    <3>1. alone' = [o \in Callers |-> IF o = c THEN alone[o] ELSE FALSE] \/ alone' = alone
      BY <2>1
    <3>2. alone \in [Callers -> BOOLEAN]
      BY DEF Types
    <3> QED BY ONLY <3>1, <3>2, Zenon
  <2>8. result' \in [Callers -> Results \cup {None}] /\ pc' \in [Callers -> Steps]
    BY <2>1, <2>2 DEF Types, Steps
  <2>4. Types'
    BY <2>1, <2>3, <2>7, <2>8 DEF Types
  <2>5. Stages'
    BY <2>1, <2>2 DEF Types, Stages
  <2>6. Numbers'
    BY <2>1 DEF Numbers
  <2> QED BY <2>4, <2>5, <2>6
<1>8. ASSUME NEW c \in Callers, JournalPatch(c) PROVE EngineInv'
  <2>1. Types'
    BY <1>8 DEF JournalPatch, To, Types, repo, ghost, Steps
  <2>2. Stages'
    BY <1>8 DEF JournalPatch, To, Types, Stages
  <2>3. Numbers'
    BY <1>8 DEF JournalPatch, Numbers, Types
  <2> QED BY <2>1, <2>2, <2>3
<1>9. ASSUME NEW c \in Callers, RememberPatch(c) PROVE EngineInv'
  <2>1. /\ pc[c] = "cache" /\ pc' = [pc EXCEPT ![c] = IF call[c].op = "with_tests" THEN "tests" ELSE "done"]
        /\ cache' = IF call[c].key = NoKey THEN cache ELSE [cache EXCEPT ![call[c].key] = result[c]]
        /\ UNCHANGED <<repo, journal, journalled, call, result, ghost, started, edits>>
    BY <1>9 DEF RememberPatch, To, Remember
  <2>2. result[c].op = "patch" /\ ~ call[c].dry /\ call[c] \in Requests /\ call[c].op # "journal_append"
    BY <2>1 DEF Stages
  <2>3. result[c] # None
    BY <2>1 DEF Stages, Types
  <2>4. Types'
    BY <2>1, <2>2 DEF Types, repo, ghost, Steps
  <2>5. Stages'
    BY <2>1, <2>2, <2>3 DEF Types, Stages
  <2>6. Numbers'
    BY <2>1, <2>2, <2>3 DEF Types, Numbers, Stages
  <2> QED BY <2>4, <2>5, <2>6
<1>10. ASSUME NEW c \in Callers, TestRun(c) PROVE EngineInv'
  <2>1. /\ pc[c] = "tests" /\ \E s \in {"failed", "done", "revert"} : pc' = [pc EXCEPT ![c] = s]
        /\ journal' \in {journal, journal + 1}
        /\ UNCHANGED <<repo, cache, journalled, call, result, ghost, started, edits>>
    BY <1>10 DEF TestRun, To
  <2>2. Types'
    BY <2>1 DEF Types, repo, ghost, Steps
  <2>3. result[c] # None
    BY <2>1 DEF Types, Stages
  <2>4. Stages'
    BY <2>1, <2>3 DEF Types, Stages
  <2>5. Numbers'
    BY <2>1 DEF Numbers, Types
  <2> QED BY <2>2, <2>4, <2>5
<1>11. ASSUME NEW c \in Callers, RevertFails(c) PROVE EngineInv'
  <2>1. Types'
    BY <1>11 DEF RevertFails, Fail, To, Types, repo, ghost, Steps
  <2>4. pc[c] = "revert" /\ pc' = [pc EXCEPT ![c] = "failed"] /\ UNCHANGED <<call, result>>
    BY <1>11 DEF RevertFails, Fail, To
  <2>2. Stages'
    BY <2>4 DEF Types, Stages
  <2>3. Numbers'
    BY <1>11 DEF RevertFails, Fail, Numbers
  <2> QED BY <2>1, <2>2, <2>3
<1>12. ASSUME NEW c \in Callers, perform_auto_revert(c) PROVE EngineInv'
  <2>1. /\ pc[c] = "revert" /\ pc' = [pc EXCEPT ![c] = "done"] /\ Rollback /\ journal' = journal + 1
        /\ result' = [result EXCEPT ![c] = [result[c] EXCEPT !.reverted = TRUE]]
        /\ alone' = [o \in Callers |-> IF o = c THEN alone[o] ELSE FALSE]
        /\ UNCHANGED <<cache, journalled, call, began, uses, spoilt, successes, started, edits>>
    BY <1>12 DEF perform_auto_revert, To, Return, Disturb
  <2>2. result[c] \in Results /\ result[c].op = "patch" /\ call[c].op = "with_tests"
    BY <2>1 DEF Stages, Types
  <2> DEFINE r == [result[c] EXCEPT !.reverted = TRUE]
  <2>3. r \in Results /\ r.op = "patch" /\ r # None
    BY <2>2
  <2>4. result' = [result EXCEPT ![c] = r]
    BY <2>1
  <2> HIDE DEF r
  <2>8. alone' \in [Callers -> BOOLEAN]
    BY <2>1, Zenon DEF Types
  <2>9. result' \in [Callers -> Results \cup {None}] /\ pc' \in [Callers -> Steps]
    BY <2>1, <2>3, <2>4 DEF Types, Steps
  <2>10. tree' \in Trees /\ index' \in Trees /\ head' \in Trees
    BY <2>1, TreeSteps
  <2>5. Types'
    <3>1. journal' \in Nat
      BY <2>1 DEF Types
    <3>2. UNCHANGED <<cache, journalled, call, began, uses, spoilt, successes>>
      BY <2>1
    <3> QED BY <3>1, <3>2, <2>8, <2>9, <2>10 DEF Types
  <2>6. Stages'
    BY <2>1, <2>2, <2>3, <2>4 DEF Types, Stages
  <2>7. Numbers'
    BY <2>1 DEF Types, Numbers
  <2> QED BY <2>5, <2>6, <2>7
<1>13. ASSUME NEW c \in Callers, Append(c) PROVE EngineInv'
  <2> DEFINE k == call[c].key
             known == k # NoKey /\ journalled[k] # None
             offset == IF known THEN journalled[k] ELSE journal
             r == [op |-> "journal", offset |-> offset]
  <2>1. /\ pc[c] = "append" /\ pc' = [pc EXCEPT ![c] = "remember"]
        /\ journal' = IF known THEN journal ELSE journal + 1
        /\ journalled' = IF k = NoKey THEN journalled ELSE [journalled EXCEPT ![k] = offset]
        /\ result' = [result EXCEPT ![c] = r]
        /\ UNCHANGED <<repo, cache, call, ghost, started, edits>>
    BY <1>13 DEF Append, To
  <2>2. call[c] \in Requests /\ k \in Keys \cup {NoKey} /\ call[c].op = "journal_append"
    BY <2>1 DEF Stages
  <2>3. offset \in Nat /\ offset < journal'
    BY <2>1, <2>2 DEF Types, Numbers
  <2>4. r \in Results /\ r.op = "journal" /\ r # None
    BY <2>3
  <2> HIDE DEF r
  <2>5. Types'
    BY <2>1, <2>2, <2>3, <2>4 DEF Types, repo, ghost, Steps
  <2>6. Stages'
    BY <2>1, <2>2, <2>4 DEF Types, Stages
  <2>7. Numbers'
    <3>1. \A j \in Keys : journalled'[j] = journalled[j] \/ journalled'[j] = offset
      BY <2>1, <2>2 DEF Types
    <3>2. journal' >= journal
      BY <2>1 DEF Types
    <3> QED BY <3>1, <3>2, <2>1, <2>3 DEF Types, Numbers
  <2> QED BY <2>5, <2>6, <2>7
<1>14. ASSUME NEW c \in Callers, RememberAppend(c) PROVE EngineInv'
  <2>1. /\ pc[c] = "remember" /\ pc' = [pc EXCEPT ![c] = "done"]
        /\ cache' = IF call[c].key = NoKey THEN cache ELSE [cache EXCEPT ![call[c].key] = result[c]]
        /\ UNCHANGED <<repo, journal, journalled, call, result, ghost, started, edits>>
    BY <1>14 DEF RememberAppend, To, Remember
  <2>2. result[c].op = "journal" /\ call[c] \in Requests /\ call[c].op = "journal_append"
    BY <2>1 DEF Stages
  <2>3. result[c] \in Results \cup {None}
    BY DEF Types
  <2>4. Types'
    BY <2>1, <2>2, <2>3 DEF Types, repo, ghost, Steps
  <2>5. Stages'
    BY <2>1, <2>2, <2>3 DEF Types, Stages
  <2>6. Numbers'
    BY <2>1, <2>2 DEF Types, Numbers
  <2> QED BY <2>4, <2>5, <2>6
<1>15. CASE Expire
  <2>1. Types'
    BY <1>15 DEF Expire, Types, repo
  <2>2. Stages'
    BY <1>15 DEF Expire, Stages
  <2>3. Numbers'
    BY <1>15 DEF Expire, Numbers, Types
  <2> QED BY <2>1, <2>2, <2>3
<1>16. CASE Edit
  <2>1. Types'
    BY <1>16, TreeSteps DEF Edit, Types
  <2>2. Stages'
    BY <1>16 DEF Edit, Stages
  <2>3. Numbers'
    BY <1>16 DEF Edit, Numbers
  <2> QED BY <2>1, <2>2, <2>3
<1>17. CASE Restart
  <2>1. Types'
    BY <1>17 DEF Restart, Types, repo, Steps
  <2>2. Stages'
    BY <1>17 DEF Restart, Stages
  <2>3. Numbers'
    BY <1>17 DEF Restart, Numbers
  <2> QED BY <2>1, <2>2, <2>3
<1>18. CASE UNCHANGED vars
  <2>1. Types'
    BY <1>18 DEF vars, repo, ghost, Types
  <2>2. Stages' /\ Numbers'
    BY <1>18 DEF vars, repo, ghost, Stages, Numbers
  <2> QED BY <2>1, <2>2
<1> QED BY <1>1, <1>2, <1>3, <1>4, <1>5, <1>6, <1>7, <1>8, <1>9, <1>10, <1>11, <1>12, <1>13,
           <1>14, <1>15, <1>16, <1>17, <1>18 DEF Next

\* The shape of the engine's state (mod.rs, CoreEngine).
THEOREM TypeCorrect == Spec => []TypeOK
<1>1. EngineInv => TypeOK
  BY DEF EngineInv, Types, Stages, Numbers, TypeOK, Steps
<1> QED BY <1>1, EngineStarts, EngineKeeps, PTL DEF Spec

-----------------------------------------------------------------------------
(* The journal: what the cache or a call has of a key is the journal's     *)
(* own number.                                                             *)

Entry(n) == [op |-> "journal", offset |-> n]

JournalInv ==
    /\ \A k \in Keys :
          cache[k] # None /\ cache[k].op = "journal"
          => journalled[k] # None /\ cache[k] = Entry(journalled[k])
    /\ \A c \in Callers :
          pc[c] \in {"remember", "done"} /\ call[c].op = "journal_append" /\ call[c].key # NoKey
          => journalled[call[c].key] # None /\ result[c] = Entry(journalled[call[c].key])

LEMMA JournalKeeps == EngineInv /\ JournalInv /\ [Next]_vars => JournalInv'
<1> SUFFICES ASSUME EngineInv, JournalInv, [Next]_vars PROVE JournalInv'
  OBVIOUS
<1> USE ResultFields, RequestFields, EngineAssumption DEF EngineInv
<1>1. ASSUME NEW c \in Callers, Call(c) PROVE JournalInv'
  <2>1. PICK r \in Requests :
          /\ call' = [call EXCEPT ![c] = r]
          /\ IF Finds(r) # None
             THEN /\ result' = [result EXCEPT ![c] = Finds(r)]
                  /\ To(c, IF r.op = "with_tests" /\ ~ r.dry THEN "tests" ELSE "done")
             ELSE /\ result' = [result EXCEPT ![c] = None]
                  /\ To(c, IF r.op = "journal_append" THEN "append" ELSE "policy")
    BY <1>1 DEF Call
  <2>2. UNCHANGED <<cache, journalled>>
    BY <1>1 DEF Call
  <2>3. ASSUME Finds(r) # None, r.op = "journal_append", r.key # NoKey
        PROVE  journalled[r.key] # None /\ Finds(r) = Entry(journalled[r.key])
    <3>1. r.key \in Keys
      BY <2>3
    <3>2. Finds(r) = cache[r.key] /\ cache[r.key] # None /\ cache[r.key].op = "journal"
      BY <2>3 DEF Finds
    <3> QED BY <3>1, <3>2 DEF JournalInv
  <2>4. ASSUME NEW d \in Callers, pc'[d] \in {"remember", "done"}, call'[d].op = "journal_append",
               call'[d].key # NoKey
        PROVE  journalled'[call'[d].key] # None /\ result'[d] = Entry(journalled'[call'[d].key])
    <3>1. CASE d = c
      <4>1. call'[d] = r
        BY <2>1, <3>1 DEF Types
      <4>2. Finds(r) # None
        BY <2>1, <2>4, <3>1, <4>1 DEF To, Types
      <4>3. result'[d] = Finds(r)
        BY <2>1, <3>1, <4>2 DEF Types
      <4> QED BY <2>2, <2>3, <2>4, <4>1, <4>2, <4>3
    <3>2. CASE d # c
      <4>1. call'[d] = call[d] /\ pc'[d] = pc[d] /\ result'[d] = result[d]
        BY <2>1, <3>2 DEF Types, To
      <4> QED BY <4>1, <2>2, <2>4 DEF JournalInv
    <3> QED BY <3>1, <3>2
  <2> QED BY <2>2, <2>4 DEF JournalInv
<1>2. ASSUME NEW c \in Callers,
             Policy(c) \/ Conflict(c) \/ Apply(c) \/ CommitFails(c) \/ JournalPatch(c)
             \/ TestRun(c) \/ RevertFails(c)
      PROVE  JournalInv'
  <2>1. /\ \E s \in Steps : pc' = [pc EXCEPT ![c] = s]
        /\ UNCHANGED <<cache, journalled, call, result>>
    BY <1>2 DEF Policy, Conflict, Apply, CommitFails, JournalPatch, TestRun, RevertFails, To, Fail, Steps
  <2>2. call[c].op # "journal_append"
    BY <1>2 DEF Policy, Conflict, Apply, CommitFails, JournalPatch, TestRun, RevertFails, Stages
  <2> QED BY <2>1, <2>2 DEF JournalInv, Types
<1>3. ASSUME NEW c \in Callers, DryRun(c) PROVE JournalInv'
  <2> DEFINE r == [op |-> "patch", dry |-> TRUE, sha |-> FALSE, reverted |-> FALSE]
  <2>1. /\ result' = [result EXCEPT ![c] = r] /\ pc' = [pc EXCEPT ![c] = "done"] /\ pc[c] = "apply"
        /\ cache' = IF call[c].key = NoKey THEN cache ELSE [cache EXCEPT ![call[c].key] = r]
        /\ UNCHANGED <<journalled, call>>
    BY <1>3 DEF DryRun, Return, To, Remember
  <2>2. call[c].op # "journal_append" /\ r.op = "patch"
    BY <2>1 DEF Stages
  <2> HIDE DEF r
  <2> QED BY <2>1, <2>2 DEF JournalInv, Types
<1>4. ASSUME NEW c \in Callers, Commit(c) \/ perform_auto_revert(c) PROVE JournalInv'
  <2>1. /\ \E s \in Steps : pc' = [pc EXCEPT ![c] = s]
        /\ \E x : result' = [result EXCEPT ![c] = x]
        /\ UNCHANGED <<cache, journalled, call>>
    BY <1>4 DEF Commit, perform_auto_revert, To, Return, Steps
  <2>2. call[c].op # "journal_append"
    BY <1>4 DEF Commit, perform_auto_revert, Stages
  <2> QED BY <2>1, <2>2 DEF JournalInv, Types
<1>5. ASSUME NEW c \in Callers, RememberPatch(c) PROVE JournalInv'
  <2>1. /\ pc[c] = "cache" /\ \E s \in Steps : pc' = [pc EXCEPT ![c] = s]
        /\ cache' = IF call[c].key = NoKey THEN cache ELSE [cache EXCEPT ![call[c].key] = result[c]]
        /\ UNCHANGED <<journalled, call, result>>
    BY <1>5 DEF RememberPatch, To, Remember, Steps
  <2>2. result[c].op = "patch" /\ call[c].op # "journal_append"
    BY <2>1 DEF Stages
  <2> QED BY <2>1, <2>2 DEF JournalInv, Types
<1>6. ASSUME NEW c \in Callers, Append(c) PROVE JournalInv'
  <2> DEFINE k == call[c].key
             known == k # NoKey /\ journalled[k] # None
             offset == IF known THEN journalled[k] ELSE journal
  <2>1. /\ pc[c] = "append" /\ pc' = [pc EXCEPT ![c] = "remember"]
        /\ journalled' = IF k = NoKey THEN journalled ELSE [journalled EXCEPT ![k] = offset]
        /\ result' = [result EXCEPT ![c] = Entry(offset)]
        /\ UNCHANGED <<cache, call>>
    BY <1>6 DEF Append, To, Entry
  <2>2. call[c] \in Requests /\ k \in Keys \cup {NoKey}
    BY <2>1 DEF Stages
  <2>3. offset \in Nat /\ offset # None
    BY <2>2 DEF Types, Numbers
  <2>4. k # NoKey => journalled'[k] = offset
    BY <2>1, <2>2 DEF Types
  <2>5. \A j \in Keys : journalled[j] # None => journalled'[j] = journalled[j]
    BY <2>1, <2>2 DEF Types
  <2>6. \A d \in Callers \ {c} : pc'[d] = pc[d] /\ result'[d] = result[d] /\ call'[d] = call[d]
    BY <2>1 DEF Types
  <2>7. result'[c] = Entry(offset) /\ call'[c] = call[c]
    BY <2>1 DEF Types
  <2> HIDE DEF offset, known
  <2>8. ASSUME NEW d \in Callers, pc'[d] \in {"remember", "done"}, call'[d].op = "journal_append",
               call'[d].key # NoKey
        PROVE  journalled'[call'[d].key] # None /\ result'[d] = Entry(journalled'[call'[d].key])
    <3>1. CASE d = c
      BY <2>3, <2>4, <2>7, <2>8, <3>1
    <3>2. CASE d # c
      <4>1. journalled[call[d].key] # None /\ result[d] = Entry(journalled[call[d].key])
        BY <2>6, <2>8, <3>2 DEF JournalInv
      <4>2. call[d].key \in Keys
        BY <2>6, <2>8, <3>2 DEF Stages
      <4> QED BY <2>5, <2>6, <3>2, <4>1, <4>2
    <3> QED BY <3>1, <3>2
  <2>9. ASSUME NEW j \in Keys, cache'[j] # None, cache'[j].op = "journal"
        PROVE  journalled'[j] # None /\ cache'[j] = Entry(journalled'[j])
    BY <2>1, <2>5, <2>9 DEF JournalInv
  <2> QED BY <2>8, <2>9 DEF JournalInv
<1>7. ASSUME NEW c \in Callers, RememberAppend(c) PROVE JournalInv'
  <2>1. /\ pc[c] = "remember" /\ pc' = [pc EXCEPT ![c] = "done"]
        /\ cache' = IF call[c].key = NoKey THEN cache ELSE [cache EXCEPT ![call[c].key] = result[c]]
        /\ UNCHANGED <<journalled, call, result>>
    BY <1>7 DEF RememberAppend, To, Remember
  <2>2. call[c].op = "journal_append"
    BY <2>1 DEF Stages
  <2> QED BY <2>1, <2>2 DEF JournalInv, Types
<1>8. CASE Expire
  BY <1>8 DEF Expire, JournalInv, Types
<1>9. CASE Edit
  BY <1>9 DEF Edit, JournalInv
<1>10. CASE Restart
  BY <1>10 DEF Restart, JournalInv
<1>11. CASE UNCHANGED vars
  BY <1>11 DEF vars, JournalInv
<1> QED BY <1>1, <1>2, <1>3, <1>4, <1>5, <1>6, <1>7, <1>8, <1>9, <1>10, <1>11 DEF Next

\* Two appends under one key are answered with one number, whatever the cache
\* forgot (core/journal.rs, Journal::append).
THEOREM AppendsOnce == Spec => []JournalledOnce
<1>1. Init => JournalInv
  BY DEF Init, JournalInv
<1>2. JournalInv => JournalledOnce
  BY DEF JournalInv, JournalledOnce
<1> QED BY <1>1, <1>2, EngineStarts, EngineKeeps, JournalKeeps, PTL DEF Spec

-----------------------------------------------------------------------------
(* Idempotency keys. As long as nothing spoilt a key that real patches     *)
(* have, its patch was applied once and is in the cache, or its one call   *)
(* is on the way from the one to the other, or it was not applied.         *)

HasKey(c, k) == pc[c] # "idle" /\ call[c].key = k

Patching == {"commit", "journal", "cache"}
Patches  == Patching \cup {"tests", "revert", "done"}

UsesInv == \A k \in Keys : \A c \in Callers : HasKey(c, k) => Kind(call[c]) \in uses[k]

ToldTrue(k) ==
    "dry" \notin uses[k] =>
        /\ cache[k] # None /\ cache[k].op = "patch" => successes[k] > 0
        /\ \A c \in Callers : HasKey(c, k) /\ Kind(call[c]) = "real" /\ pc[c] \in Patches
                             => successes[k] > 0

AppliedOnce(k) ==
    k \notin spoilt /\ uses[k] \subseteq {"real"} =>
        /\ successes[k] <= 1
        /\ cache[k] # None => cache[k].op = "patch"
        /\ successes[k] > 0 => \/ cache[k] # None
                               \/ \E c \in Callers : HasKey(c, k) /\ pc[c] \in Patching
        /\ \A c \in Callers : HasKey(c, k) /\ pc[c] \in {"policy", "apply"} => successes[k] = 0
        /\ \A c, d \in Callers : HasKey(c, k) /\ InCall(c) /\ HasKey(d, k) /\ InCall(d) => c = d

KeyInv == UsesInv /\ \A k \in Keys : ToldTrue(k) /\ AppliedOnce(k)

\* A step that moves only its caller along its way.
Onward(c, s) ==
    /\ pc[c] \notin {"idle", "done", "failed"} /\ s # "idle"
    /\ s \in {"policy", "apply"} => pc[c] \in {"policy", "apply"}
    /\ s \in Patching => pc[c] \in Patching
    /\ pc[c] \in Patching => s \in Patching
    /\ s \in Patches /\ Kind(call[c]) = "real" => pc[c] \in Patches

LEMMA OnwardKeepsKeys ==
    ASSUME EngineInv, KeyInv, NEW c \in Callers, NEW s \in Steps,
           pc' = [pc EXCEPT ![c] = s], Onward(c, s),
           UNCHANGED <<call, cache, uses, spoilt, successes>>
    PROVE  KeyInv'
<1>1. /\ pc'[c] = s /\ \A d \in Callers \ {c} : pc'[d] = pc[d]
  BY DEF EngineInv, Types
<1>2. UsesInv'
  BY <1>1 DEF KeyInv, UsesInv, HasKey, Onward, Kind
<1>3. ASSUME NEW k \in Keys PROVE ToldTrue(k)'
  <2>1. ToldTrue(k)
    BY DEF KeyInv
  <2>2. \A d \in Callers : HasKey(d, k)' <=> HasKey(d, k)
    BY <1>1 DEF HasKey, Onward
  <2>3. \A d \in Callers : Kind(call[d]) = "real" /\ pc'[d] \in Patches => pc[d] \in Patches
    BY <1>1 DEF Onward
  <2>4. \A d \in Callers : Kind(call'[d]) = Kind(call[d])
    OBVIOUS
  <2> QED BY <2>1, <2>2, <2>3, <2>4 DEF ToldTrue
<1>4. ASSUME NEW k \in Keys PROVE AppliedOnce(k)'
  <2>1. AppliedOnce(k)
    BY DEF KeyInv
  <2>2. \A d \in Callers : HasKey(d, k)' <=> HasKey(d, k)
    BY <1>1 DEF HasKey, Onward
  <2>3. \A d \in Callers : /\ pc'[d] \in {"policy", "apply"} => pc[d] \in {"policy", "apply"}
                           /\ InCall(d)' => InCall(d)
                           /\ pc[d] \in Patching => pc'[d] \in Patching
    BY <1>1 DEF Onward, InCall
  <2> QED BY <2>1, <2>2, <2>3 DEF AppliedOnce
<1> QED BY <1>2, <1>3, <1>4 DEF KeyInv

LEMMA KeyKeeps == EngineInv /\ KeyInv /\ [Next]_vars => KeyInv'
<1> SUFFICES ASSUME EngineInv, KeyInv, [Next]_vars PROVE KeyInv'
  OBVIOUS
<1> USE RequestFields, EngineAssumption DEF EngineInv
<1>1. ASSUME NEW c \in Callers, Call(c) PROVE KeyInv'
  <2>1. PICK r \in Requests :
          /\ call' = [call EXCEPT ![c] = r]
          /\ pc' = [pc EXCEPT ![c] = IF Finds(r) # None
                                     THEN IF r.op = "with_tests" /\ ~ r.dry THEN "tests" ELSE "done"
                                     ELSE IF r.op = "journal_append" THEN "append" ELSE "policy"]
          /\ uses' = IF r.key = NoKey THEN uses ELSE [uses EXCEPT ![r.key] = @ \cup {Kind(r)}]
          /\ spoilt' = IF r.key # NoKey /\ \E o \in Callers : InCall(o) /\ call[o].key = r.key
                        THEN spoilt \cup {r.key} ELSE spoilt
    BY <1>1, Zenon DEF Call, To
  <2>2. UNCHANGED <<cache, successes>> /\ ~ InCall(c)
    BY <1>1 DEF Call
  <2>3. /\ call'[c] = r /\ \A d \in Callers \ {c} : call'[d] = call[d] /\ pc'[d] = pc[d]
        /\ pc'[c] \in {"tests", "done", "append", "policy"}
        /\ pc'[c] = "policy" => Finds(r) = None /\ r.op # "journal_append"
        /\ pc'[c] \in {"tests", "done"} => Finds(r) # None
    BY <2>1 DEF Types
  <2>4. /\ \A k \in Keys : k # r.key => uses'[k] = uses[k]
        /\ r.key \in Keys => uses'[r.key] = uses[r.key] \cup {Kind(r)}
        /\ \A k \in Keys : uses[k] \subseteq uses'[k]
    BY <2>1 DEF Types
  <2>5. UsesInv'
    BY <2>3, <2>4 DEF KeyInv, UsesInv, HasKey
  <2>6. ASSUME NEW k \in Keys PROVE ToldTrue(k)'
    <3>1. SUFFICES ASSUME "dry" \notin uses'[k]
                   PROVE  /\ cache[k] # None /\ cache[k].op = "patch" => successes[k] > 0
                          /\ \A d \in Callers : HasKey(d, k)' /\ Kind(call'[d]) = "real" /\ pc'[d] \in Patches
                                               => successes[k] > 0
      BY <2>2 DEF ToldTrue
    <3>2. /\ cache[k] # None /\ cache[k].op = "patch" => successes[k] > 0
          /\ \A d \in Callers : HasKey(d, k) /\ Kind(call[d]) = "real" /\ pc[d] \in Patches => successes[k] > 0
      BY <3>1, <2>4 DEF KeyInv, ToldTrue
    <3>3. ASSUME HasKey(c, k)', Kind(r) = "real", pc'[c] \in Patches PROVE successes[k] > 0
      <4>1. r.key = k /\ Finds(r) # None /\ r.op # "journal_append"
        BY <3>3, <2>3 DEF HasKey, Kind, Patches, Patching
      <4>2. cache[k] # None /\ cache[k].op # "journal"
        BY <4>1 DEF Finds
      <4>3. cache[k].op = "patch"
        BY <4>2, ResultFields DEF Types
      <4> QED BY <3>2, <4>2, <4>3
    <3>4. ASSUME NEW d \in Callers \ {c} PROVE HasKey(d, k)' => HasKey(d, k)
      BY <2>3 DEF HasKey
    <3> QED BY <2>3, <3>2, <3>3, <3>4
  <2>7. ASSUME NEW k \in Keys PROVE AppliedOnce(k)'
    <3>1. CASE k # r.key
      <4>1. AppliedOnce(k)
        BY DEF KeyInv
      <4>2. /\ ~ HasKey(c, k)' /\ uses'[k] = uses[k] /\ (k \notin spoilt' => k \notin spoilt)
        BY <3>1, <2>1, <2>3, <2>4 DEF HasKey
      <4>3. \A d \in Callers \ {c} : (HasKey(d, k)' <=> HasKey(d, k)) /\ (InCall(d)' <=> InCall(d))
        BY <2>3 DEF HasKey, InCall
      <4>4. pc[c] \notin Patching
        BY <2>2 DEF InCall, Patching
      <4> QED BY <4>1, <4>2, <4>3, <4>4, <2>2, <2>3 DEF AppliedOnce
    <3>2. CASE k = r.key
      <4>1. SUFFICES ASSUME k \notin spoilt', uses'[k] \subseteq {"real"}
                     PROVE  /\ successes[k] <= 1
                            /\ cache[k] # None => cache[k].op = "patch"
                            /\ successes[k] > 0 => cache[k] # None
                            /\ \A d \in Callers : HasKey(d, k)' /\ pc'[d] \in {"policy", "apply"}
                                                  => successes[k] = 0
                            /\ \A d, e \in Callers : HasKey(d, k)' /\ InCall(d)' /\ HasKey(e, k)' /\ InCall(e)'
                                                    => d = e
        BY <2>2 DEF AppliedOnce
      <4>2. k \notin spoilt /\ uses[k] \subseteq {"real"} /\ \A o \in Callers : ~ (InCall(o) /\ call[o].key = k)
        BY <4>1, <3>2, <2>1, <2>4
      <4>3. /\ successes[k] <= 1
            /\ cache[k] # None => cache[k].op = "patch"
            /\ successes[k] > 0 => cache[k] # None
        BY <4>2 DEF KeyInv, AppliedOnce, HasKey, InCall, Patching
      <4>4. \A d \in Callers \ {c} : ~ (HasKey(d, k)' /\ InCall(d)')
        BY <4>2, <2>3 DEF HasKey, InCall
      <4>5. pc'[c] = "policy" => successes[k] = 0
        <5>1. SUFFICES ASSUME pc'[c] = "policy" PROVE successes[k] = 0
          OBVIOUS
        <5>2. Finds(r) = None /\ r.op # "journal_append"
          BY <5>1, <2>3
        <5>3. cache[k] = None
          BY <5>2, <4>3, <3>2 DEF Finds
        <5> QED BY <5>3, <4>3 DEF Types
      <4>6. \A d \in Callers : pc'[d] \in {"policy", "apply"} => InCall(d)'
        BY DEF InCall
      <4>7. pc'[c] # "apply"
        BY <2>3
      <4> QED BY <4>3, <4>4, <4>5, <4>6, <4>7
    <3> QED BY <3>1, <3>2
  <2> QED BY <2>5, <2>6, <2>7 DEF KeyInv
<1>2. ASSUME NEW c \in Callers,
             Policy(c) \/ Conflict(c) \/ Commit(c) \/ JournalPatch(c) \/ TestRun(c)
             \/ RevertFails(c) \/ perform_auto_revert(c) \/ Append(c)
      PROVE  KeyInv'
  <2>1. \E s \in Steps : /\ pc' = [pc EXCEPT ![c] = s]
                         /\ \/ pc[c] = "policy" /\ s \in {"apply", "failed"}
                            \/ pc[c] = "apply" /\ s = "failed"
                            \/ pc[c] = "commit" /\ s = "journal"
                            \/ pc[c] = "journal" /\ s = "cache"
                            \/ pc[c] = "tests" /\ s \in {"failed", "done", "revert"}
                            \/ pc[c] = "revert" /\ s \in {"failed", "done"}
                            \/ pc[c] = "append" /\ s = "remember"
    BY <1>2 DEF Policy, Conflict, Commit, JournalPatch, TestRun, RevertFails, perform_auto_revert,
                Append, Fail, Return, To, Steps
  <2>2. UNCHANGED <<call, cache, uses, spoilt, successes>>
    BY <1>2 DEF Policy, Conflict, Commit, JournalPatch, TestRun, RevertFails, perform_auto_revert,
                Append, Fail, ghost
  <2>3. pc[c] \in {"append"} => Kind(call[c]) = "journal"
    BY DEF Stages, Kind
  <2>4. \E s \in Steps : pc' = [pc EXCEPT ![c] = s] /\ Onward(c, s)
    BY <2>1, <2>3 DEF Onward, Patching, Patches
  <2> QED BY <2>2, <2>4, OnwardKeepsKeys
<1>3. ASSUME NEW c \in Callers, DryRun(c) PROVE KeyInv'
  <2> DEFINE r == [op |-> "patch", dry |-> TRUE, sha |-> FALSE, reverted |-> FALSE]
             k == call[c].key
  <2>1. /\ pc' = [pc EXCEPT ![c] = "done"] /\ pc[c] = "apply" /\ call[c].dry
        /\ cache' = IF k = NoKey THEN cache ELSE [cache EXCEPT ![k] = r]
        /\ UNCHANGED <<call, uses, spoilt, successes>>
    BY <1>3 DEF DryRun, Return, To, Remember, ghost
  <2>2. Kind(call[c]) = "dry" /\ k \in Keys \cup {NoKey}
    BY <2>1 DEF Stages, Kind
  <2>3. k \in Keys => "dry" \in uses[k]
    BY <2>1, <2>2 DEF KeyInv, UsesInv, HasKey
  <2> HIDE DEF r, k
  <2>4. pc'[c] = "done" /\ \A d \in Callers \ {c} : pc'[d] = pc[d]
    BY <2>1 DEF Types
  <2>5. \A j \in Keys : j # k => cache'[j] = cache[j]
    BY <2>1 DEF Types
  <2>6. UsesInv'
    BY <2>1, <2>4 DEF KeyInv, UsesInv, HasKey
  <2>7. ASSUME NEW j \in Keys PROVE ToldTrue(j)' /\ AppliedOnce(j)'
    <3>1. CASE j = k
      BY <2>1, <2>3, <3>1 DEF ToldTrue, AppliedOnce
    <3>2. CASE j # k
      <4>1. ToldTrue(j) /\ AppliedOnce(j) /\ ~ HasKey(c, j)
        BY <3>2 DEF KeyInv, HasKey, k
      <4>2. \A d \in Callers : (HasKey(d, j)' <=> HasKey(d, j)) /\ (HasKey(d, j) => pc'[d] = pc[d])
        BY <2>1, <2>4, <3>2 DEF HasKey, k
      <4>3. ToldTrue(j)'
        BY <2>1, <2>5, <3>2, <4>1, <4>2 DEF ToldTrue
      <4>4. AppliedOnce(j)'
        BY <2>1, <2>5, <3>2, <4>1, <4>2 DEF AppliedOnce, InCall
      <4> QED BY <4>3, <4>4
    <3> QED BY <3>1, <3>2
  <2> QED BY <2>6, <2>7 DEF KeyInv
<1>4. ASSUME NEW c \in Callers, Apply(c) PROVE KeyInv'
  <2> DEFINE k == call[c].key
  <2>1. /\ pc' = [pc EXCEPT ![c] = "commit"] /\ pc[c] = "apply"
        /\ successes' = IF k = NoKey THEN successes ELSE [successes EXCEPT ![k] = @ + 1]
        /\ UNCHANGED <<call, cache, uses, spoilt>>
    BY <1>4 DEF Apply, To
  <2>2. k \in Keys \cup {NoKey}
    BY <2>1 DEF Stages
  <2>3. pc'[c] = "commit" /\ \A d \in Callers \ {c} : pc'[d] = pc[d]
    BY <2>1 DEF Types
  <2>4. /\ \A j \in Keys : j # k => successes'[j] = successes[j]
        /\ k \in Keys => successes[k] \in Nat /\ successes'[k] = successes[k] + 1
    BY <2>1, <2>2 DEF Types
  <2>5. \A j \in Keys, d \in Callers : HasKey(d, j)' <=> HasKey(d, j)
    BY <2>1, <2>3 DEF HasKey
  <2>6. UsesInv'
    BY <2>1, <2>5 DEF KeyInv, UsesInv
  <2>7. ASSUME NEW j \in Keys PROVE ToldTrue(j)' /\ AppliedOnce(j)'
    <3>1. CASE j = k
      <4>1. successes'[j] > 0
        BY <2>4, <3>1
      <4>2. ToldTrue(j)'
        BY <4>1 DEF ToldTrue
      <4>3. HasKey(c, j)
        BY <2>1, <3>1 DEF HasKey
      <4>4. AppliedOnce(j)
        BY DEF KeyInv
      <4>5. \A d \in Callers : (InCall(d)' <=> InCall(d))
        BY <2>1, <2>3 DEF InCall
      <4>6. SUFFICES ASSUME j \notin spoilt, uses[j] \subseteq {"real"}
                     PROVE  /\ successes'[j] <= 1
                            /\ cache[j] # None => cache[j].op = "patch"
                            /\ \E d \in Callers : HasKey(d, j) /\ pc'[d] \in Patching
                            /\ \A d \in Callers : ~ (HasKey(d, j) /\ pc'[d] \in {"policy", "apply"})
                            /\ \A d, e \in Callers : HasKey(d, j) /\ InCall(d) /\ HasKey(e, j) /\ InCall(e)
                                                    => d = e
        BY <2>1, <2>5, <4>2, <4>5 DEF AppliedOnce
      <4>7. successes[j] = 0
        BY <2>1, <4>3, <4>4, <4>6 DEF AppliedOnce
      <4>8. \A d \in Callers \ {c} : ~ (HasKey(d, j) /\ InCall(d))
        BY <2>1, <4>3, <4>4, <4>6 DEF AppliedOnce, InCall
      <4>9. pc'[c] \in Patching
        BY <2>3 DEF Patching
      <4>10. \A d \in Callers : HasKey(d, j) /\ pc'[d] \in {"policy", "apply"} => FALSE
        BY <2>3, <4>8 DEF InCall
      <4>11. \A d, e \in Callers : HasKey(d, j) /\ InCall(d) /\ HasKey(e, j) /\ InCall(e) => d = e
        BY <4>8
      <4>12. cache[j] # None => cache[j].op = "patch"
        BY <4>4, <4>6 DEF AppliedOnce
      <4> QED BY <2>4, <3>1, <4>3, <4>7, <4>9, <4>10, <4>11, <4>12
    <3>2. CASE j # k
      <4>1. ToldTrue(j) /\ AppliedOnce(j) /\ ~ HasKey(c, j)
        BY <3>2 DEF KeyInv, HasKey
      <4>2. \A d \in Callers : HasKey(d, j) => pc'[d] = pc[d]
        BY <2>3, <4>1
      <4>3. ToldTrue(j)'
        BY <2>1, <2>4, <2>5, <3>2, <4>1, <4>2 DEF ToldTrue
      <4>4. AppliedOnce(j)'
        BY <2>1, <2>4, <2>5, <3>2, <4>1, <4>2 DEF AppliedOnce, InCall
      <4> QED BY <4>3, <4>4
    <3> QED BY <3>1, <3>2
  <2> QED BY <2>6, <2>7 DEF KeyInv
<1>5. ASSUME NEW c \in Callers, CommitFails(c) PROVE KeyInv'
  <2>1. /\ pc' = [pc EXCEPT ![c] = "failed"] /\ pc[c] = "commit"
        /\ spoilt' = spoilt \cup ({call[c].key} \cap Keys)
        /\ UNCHANGED <<call, cache, uses, successes>>
    BY <1>5 DEF CommitFails, Fail, To
  <2>2. pc'[c] = "failed" /\ \A d \in Callers \ {c} : pc'[d] = pc[d]
    BY <2>1 DEF Types
  <2>3. \A j \in Keys, d \in Callers : HasKey(d, j)' <=> HasKey(d, j)
    BY <2>1, <2>2 DEF HasKey
  <2>4. UsesInv'
    BY <2>1, <2>3 DEF KeyInv, UsesInv
  <2>5. ASSUME NEW j \in Keys PROVE ToldTrue(j)'
    <3>1. ToldTrue(j)
      BY DEF KeyInv
    <3>2. \A d \in Callers : pc'[d] \in Patches => pc[d] \in Patches
      BY <2>2 DEF Patches, Patching
    <3> QED BY <2>1, <2>3, <3>1, <3>2 DEF ToldTrue
  <2>6. ASSUME NEW j \in Keys PROVE AppliedOnce(j)'
    <3>1. CASE call[c].key = j
      BY <2>1, <3>1 DEF AppliedOnce
    <3>2. CASE call[c].key # j
      <4>1. AppliedOnce(j) /\ ~ HasKey(c, j) /\ (j \notin spoilt' => j \notin spoilt)
        BY <2>1, <3>2 DEF KeyInv, HasKey
      <4>2. \A d \in Callers : HasKey(d, j) => pc'[d] = pc[d]
        BY <2>2, <4>1
      <4> QED BY <2>1, <2>3, <4>1, <4>2 DEF AppliedOnce, InCall
    <3> QED BY <3>1, <3>2
  <2> QED BY <2>4, <2>5, <2>6 DEF KeyInv
<1>6. ASSUME NEW c \in Callers, RememberPatch(c) PROVE KeyInv'
  <2> DEFINE k == call[c].key
  <2>1. /\ \E s \in {"tests", "done"} : pc' = [pc EXCEPT ![c] = s]
        /\ pc[c] = "cache" /\ cache' = IF k = NoKey THEN cache ELSE [cache EXCEPT ![k] = result[c]]
        /\ UNCHANGED <<call, uses, spoilt, successes>>
    BY <1>6 DEF RememberPatch, To, Remember, ghost
  <2>2. /\ k \in Keys \cup {NoKey} /\ Kind(call[c]) = "real"
        /\ result[c].op = "patch" /\ result[c] # None
    BY <2>1 DEF Stages, Kind
  <2>3. pc'[c] \in {"tests", "done"} /\ \A d \in Callers \ {c} : pc'[d] = pc[d]
    BY <2>1 DEF Types
  <2>4. /\ \A j \in Keys : j # k => cache'[j] = cache[j]
        /\ k \in Keys => cache'[k] = result[c]
    BY <2>1, <2>2 DEF Types
  <2>5. \A j \in Keys, d \in Callers : HasKey(d, j)' <=> HasKey(d, j)
    BY <2>1, <2>3 DEF HasKey
  <2>6. UsesInv'
    BY <2>1, <2>5 DEF KeyInv, UsesInv
  <2>7. ASSUME NEW j \in Keys PROVE ToldTrue(j)' /\ AppliedOnce(j)'
    <3>1. CASE j = k
      <4>1. ToldTrue(j) /\ AppliedOnce(j) /\ HasKey(c, j)
        BY <2>1, <3>1 DEF KeyInv, HasKey
      <4>2. pc[c] \in Patches /\ \A d \in Callers : pc'[d] \in Patches => pc[d] \in Patches
        BY <2>1, <2>3 DEF Patches, Patching
      <4>3. ToldTrue(j)'
        BY <2>1, <2>2, <2>5, <4>1, <4>2 DEF ToldTrue
      <4>4. \A d \in Callers : /\ pc'[d] \in {"policy", "apply"} => pc[d] \in {"policy", "apply"}
                               /\ InCall(d)' => InCall(d)
        BY <2>1, <2>3 DEF InCall
      <4>5. AppliedOnce(j)'
        BY <2>1, <2>2, <2>4, <2>5, <3>1, <4>1, <4>4 DEF AppliedOnce
      <4> QED BY <4>3, <4>5
    <3>2. CASE j # k
      <4>1. ToldTrue(j) /\ AppliedOnce(j) /\ ~ HasKey(c, j)
        BY <3>2 DEF KeyInv, HasKey
      <4>2. \A d \in Callers : HasKey(d, j) => pc'[d] = pc[d]
        BY <2>3, <4>1
      <4>3. ToldTrue(j)'
        BY <2>1, <2>4, <2>5, <3>2, <4>1, <4>2 DEF ToldTrue
      <4>4. AppliedOnce(j)'
        BY <2>1, <2>4, <2>5, <3>2, <4>1, <4>2 DEF AppliedOnce, InCall
      <4> QED BY <4>3, <4>4
    <3> QED BY <3>1, <3>2
  <2> QED BY <2>6, <2>7 DEF KeyInv
<1>7. ASSUME NEW c \in Callers, RememberAppend(c) PROVE KeyInv'
  <2> DEFINE k == call[c].key
  <2>1. /\ pc' = [pc EXCEPT ![c] = "done"]
        /\ pc[c] = "remember" /\ cache' = IF k = NoKey THEN cache ELSE [cache EXCEPT ![k] = result[c]]
        /\ UNCHANGED <<call, uses, spoilt, successes>>
    BY <1>7 DEF RememberAppend, To, Remember, ghost
  <2>2. k \in Keys \cup {NoKey} /\ Kind(call[c]) = "journal" /\ result[c].op = "journal"
    BY <2>1 DEF Stages, Kind
  <2>3. pc'[c] = "done" /\ \A d \in Callers \ {c} : pc'[d] = pc[d]
    BY <2>1 DEF Types
  <2>4. /\ \A j \in Keys : j # k => cache'[j] = cache[j]
        /\ k \in Keys => cache'[k] = result[c]
    BY <2>1, <2>2 DEF Types
  <2>5. \A j \in Keys, d \in Callers : HasKey(d, j)' <=> HasKey(d, j)
    BY <2>1, <2>3 DEF HasKey
  <2>6. UsesInv'
    BY <2>1, <2>5 DEF KeyInv, UsesInv
  <2>7. ASSUME NEW j \in Keys PROVE ToldTrue(j)' /\ AppliedOnce(j)'
    <3>1. CASE j = k
      <4>1. ToldTrue(j) /\ HasKey(c, j) /\ "journal" \in uses[j]
        BY <2>1, <2>2, <3>1 DEF KeyInv, UsesInv, HasKey
      <4>2. \A d \in Callers : Kind(call[d]) = "real" /\ pc'[d] \in Patches => pc[d] \in Patches
        BY <2>2, <2>3
      <4>3. cache'[j].op = "journal"
        BY <2>2, <2>4, <3>1
      <4>4. ToldTrue(j)'
        BY <2>1, <2>5, <4>1, <4>2, <4>3 DEF ToldTrue, Kind
      <4>5. AppliedOnce(j)'
        BY <2>1, <4>1 DEF AppliedOnce
      <4> QED BY <4>4, <4>5
    <3>2. CASE j # k
      <4>1. ToldTrue(j) /\ AppliedOnce(j) /\ ~ HasKey(c, j)
        BY <3>2 DEF KeyInv, HasKey
      <4>2. \A d \in Callers : HasKey(d, j) => pc'[d] = pc[d]
        BY <2>3, <4>1
      <4>3. ToldTrue(j)'
        BY <2>1, <2>4, <2>5, <3>2, <4>1, <4>2 DEF ToldTrue
      <4>4. AppliedOnce(j)'
        BY <2>1, <2>4, <2>5, <3>2, <4>1, <4>2 DEF AppliedOnce, InCall
      <4> QED BY <4>3, <4>4
    <3> QED BY <3>1, <3>2
  <2> QED BY <2>6, <2>7 DEF KeyInv
<1>8. CASE Expire
  <2>1. PICK k \in Keys : /\ cache' = [cache EXCEPT ![k] = None] /\ spoilt' = spoilt \cup {k}
                          /\ UNCHANGED <<call, pc, uses, successes>>
    BY <1>8 DEF Expire
  <2>2. \A j \in Keys, d \in Callers : (HasKey(d, j)' <=> HasKey(d, j)) /\ (InCall(d)' <=> InCall(d))
    BY <2>1 DEF HasKey, InCall
  <2>3. UsesInv'
    BY <2>1, <2>2 DEF KeyInv, UsesInv
  <2>4. \A j \in Keys : cache'[j] # None => cache'[j] = cache[j]
    BY <2>1 DEF Types
  <2>5. ASSUME NEW j \in Keys PROVE ToldTrue(j)'
    BY <2>1, <2>2, <2>4 DEF KeyInv, ToldTrue
  <2>6. ASSUME NEW j \in Keys PROVE AppliedOnce(j)'
    <3>1. CASE j = k
      BY <2>1, <3>1 DEF AppliedOnce
    <3>2. CASE j # k
      <4>1. cache'[j] = cache[j] /\ AppliedOnce(j)
        BY <2>1, <3>2 DEF Types, KeyInv
      <4> QED BY <2>1, <2>2, <3>2, <4>1 DEF AppliedOnce
    <3> QED BY <3>1, <3>2
  <2> QED BY <2>3, <2>5, <2>6 DEF KeyInv
<1>9. CASE Restart
  <2>1. /\ cache' = [k \in Keys |-> None] /\ spoilt' = Keys /\ pc' = [c \in Callers |-> "idle"]
    BY <1>9 DEF Restart
  <2> QED BY <2>1 DEF KeyInv, UsesInv, ToldTrue, AppliedOnce, HasKey
<1>10. CASE Edit \/ UNCHANGED vars
  <2>1. UNCHANGED <<cache, call, pc, uses, spoilt, successes>>
    BY <1>10 DEF Edit, vars, ghost
  <2> QED BY <2>1 DEF KeyInv, UsesInv, ToldTrue, AppliedOnce, HasKey, InCall
<1> QED BY <1>1, <1>2, <1>3, <1>4, <1>5, <1>6, <1>7, <1>8, <1>9, <1>10 DEF Next

\* Real calls of patch_apply with one idempotency key, one after the other,
\* patch once, and each of them hears of a patch that was made (mod.rs:681).
THEOREM KeyAppliesOnce == Spec => []OncePerKey
<1>1. Init => KeyInv
  BY DEF Init, KeyInv, UsesInv, ToldTrue, AppliedOnce, HasKey, InCall
<1>2. KeyInv => OncePerKey
  <2> SUFFICES ASSUME KeyInv PROVE OncePerKey
    OBVIOUS
  <2>1. ASSUME NEW k \in Keys, k \notin spoilt, uses[k] \subseteq {"real"} PROVE successes[k] <= 1
    BY <2>1 DEF KeyInv, AppliedOnce
  <2>2. ASSUME NEW k \in Keys, "dry" \notin uses[k], NEW c \in Callers, pc[c] = "done",
               call[c].key = k, Kind(call[c]) = "real"
        PROVE  successes[k] > 0
    BY <2>2 DEF KeyInv, ToldTrue, HasKey, Patches
  <2> QED BY <2>1, <2>2 DEF OncePerKey
<1> QED BY <1>1, <1>2, EngineStarts, EngineKeeps, KeyKeeps, PTL DEF Spec

-----------------------------------------------------------------------------
(* The automatic revert: who is alone with the repository finds it as it   *)
(* was, except for the file of the patch.                                  *)

RevertInv ==
    \A c \in Callers : alone[c] =>
        /\ index = head /\ began[c] = head
        /\ \A f \in Files : tree[f] # head[f] => call[c].op # "journal_append" /\ f = call[c].file
        /\ /\ result[c] # None /\ result[c].op = "patch" /\ result[c].reverted
           /\ call[c].op # "journal_append" /\ began[c][call[c].file] # Absent
           /\ process_dir = "workspace"
           => tree = began[c]

LEMMA RevertKeeps == EngineInv /\ RevertInv /\ [Next]_vars => RevertInv'
<1> SUFFICES ASSUME EngineInv, RevertInv, [Next]_vars PROVE RevertInv'
  OBVIOUS
<1> USE ResultFields, RequestFields, EngineAssumption DEF EngineInv
\* Whoever is no longer alone has nothing to show; the rest is about the caller that steps.
<1>1. ASSUME NEW c \in Callers, Call(c) PROVE RevertInv'
  <2>1. PICK r \in Requests :
          /\ call' = [call EXCEPT ![c] = r]
          /\ result' = [result EXCEPT ![c] = Finds(r)] \/ result' = [result EXCEPT ![c] = None]
    BY <1>1 DEF Call
  <2>2. /\ began' = [began EXCEPT ![c] = tree]
        /\ alone' = [alone EXCEPT ![c] = (tree = index /\ index = head)]
        /\ UNCHANGED <<tree, index, head, process_dir>>
    BY <1>1 DEF Call, repo, place
  <2>3. Finds(r) # None /\ Finds(r).op = "patch" => ~ Finds(r).reverted
    BY DEF Finds, Numbers
  <2>4. result'[c] = Finds(r) \/ result'[c] = None
    BY <2>1 DEF Types
  <2>5. alone'[c] = (tree = index /\ index = head) /\ began'[c] = tree
    <3>1. DOMAIN alone = Callers /\ DOMAIN began = Callers
      BY DEF Types
    <3> QED BY ONLY <2>2, <3>1, Zenon
  <2>6. \A d \in Callers \ {c} : /\ call'[d] = call[d] /\ result'[d] = result[d]
                                 /\ began'[d] = began[d] /\ alone'[d] = alone[d]
    BY <2>1, <2>2 DEF Types
  <2>7. SUFFICES ASSUME NEW d \in Callers, alone'[d]
                 PROVE  /\ index = head /\ began'[d] = head
                        /\ \A f \in Files : tree[f] # head[f] => call'[d].op # "journal_append" /\ f = call'[d].file
                        /\ /\ result'[d] # None /\ result'[d].op = "patch" /\ result'[d].reverted
                           /\ call'[d].op # "journal_append" /\ began'[d][call'[d].file] # Absent
                           /\ process_dir = "workspace"
                           => tree = began'[d]
    BY <2>2 DEF RevertInv
  <2>8. CASE d = c
    BY <2>3, <2>4, <2>5, <2>7, <2>8
  <2>9. CASE d # c
    <3>1. alone[d]
      BY <2>6, <2>7, <2>9
    <3> QED BY <2>6, <2>9, <3>1 DEF RevertInv
  <2> QED BY <2>8, <2>9
<1>2. ASSUME NEW c \in Callers,
             Policy(c) \/ Conflict(c) \/ CommitFails(c) \/ JournalPatch(c) \/ RememberPatch(c)
             \/ TestRun(c) \/ RevertFails(c) \/ RememberAppend(c)
      PROVE  RevertInv'
  <2>1. UNCHANGED <<tree, index, head, process_dir, began, alone, call, result>>
    BY <1>2 DEF Policy, Conflict, CommitFails, JournalPatch, RememberPatch, TestRun, RevertFails,
                RememberAppend, Fail, repo, place, ghost
  <2> QED BY <2>1 DEF RevertInv
<1>3. ASSUME NEW c \in Callers, DryRun(c) \/ Append(c) PROVE RevertInv'
  <2>1. /\ \E r \in Results : result' = [result EXCEPT ![c] = r] /\ (r.op = "patch" => ~ r.reverted)
        /\ UNCHANGED <<tree, index, head, process_dir, began, alone, call>>
    <3>1. CASE DryRun(c)
      BY <3>1 DEF DryRun, Return, repo, place, ghost
    <3>2. CASE Append(c)
      <4>1. PICK n : result' = [result EXCEPT ![c] = [op |-> "journal", offset |-> n]]
                     /\ n \in {journal, journalled[call[c].key]}
                     /\ (n # journal => call[c].key # NoKey /\ journalled[call[c].key] # None)
        BY <3>2 DEF Append
      <4>2. call[c] \in Requests
        BY <3>2 DEF Append, Stages
      <4>3. n \in Nat
        BY <4>1, <4>2 DEF Types
      <4>4. [op |-> "journal", offset |-> n] \in Results
        BY <4>3
      <4>5. UNCHANGED <<tree, index, head, process_dir, began, alone, call>>
        BY <3>2 DEF Append, repo, place, ghost
      <4> QED BY <4>1, <4>4, <4>5
    <3> QED BY <1>3, <3>1, <3>2
  <2> QED BY <2>1 DEF RevertInv, Types
<1>4. ASSUME NEW c \in Callers, Apply(c) PROVE RevertInv'
  <2>1. /\ tree' = [tree EXCEPT ![call[c].file] = Patched(call[c])]
        /\ alone' = [o \in Callers |-> IF o = c THEN alone[o] ELSE FALSE]
        /\ UNCHANGED <<index, head, process_dir, began, call, result>> /\ pc[c] = "apply"
    BY <1>4 DEF Apply, Disturb, place
  <2>2. call[c].op # "journal_append" /\ ~ (result[c] # None /\ result[c].op = "patch" /\ result[c].reverted)
    BY <2>1 DEF Stages
  <2>3. \A f \in Files : f # call[c].file => tree'[f] = tree[f]
    BY <2>1 DEF Types, Trees
  <2>4. \A d \in Callers : alone'[d] => d = c /\ alone[d]
    BY <2>1
  <2> QED BY <2>1, <2>2, <2>3, <2>4 DEF RevertInv
<1>5. ASSUME NEW c \in Callers, Commit(c) PROVE RevertInv'
  <2> DEFINE r == [op |-> "patch", dry |-> FALSE, sha |-> AutoCommit /\ index # head, reverted |-> FALSE]
  <2>1. /\ result' = [result EXCEPT ![c] = r] /\ UNCHANGED <<tree, index, process_dir, began, call>>
        /\ head' = (IF AutoCommit /\ index # head THEN index ELSE head)
        /\ alone' = [o \in Callers |-> IF o = c THEN alone[o] ELSE FALSE] \/ (alone' = alone /\ head' = head)
    BY <1>5 DEF Commit, Disturb, place
  <2>2. \A d \in Callers : alone'[d] => alone[d] /\ head' = head
    <3>1. SUFFICES ASSUME NEW d \in Callers, alone'[d] PROVE alone[d] /\ head' = head
      OBVIOUS
    <3>2. alone[d]
      BY <2>1, <3>1
    <3>3. index = head
      BY <3>2 DEF RevertInv
    <3> QED BY <2>1, <3>2, <3>3
  <2>3. r.op = "patch" /\ ~ r.reverted
    OBVIOUS
  <2> HIDE DEF r
  <2>4. \A d \in Callers : result'[d] = (IF d = c THEN r ELSE result[d])
    BY <2>1 DEF Types
  <2> QED BY <2>1, <2>2, <2>3, <2>4 DEF RevertInv
<1>6. ASSUME NEW c \in Callers, perform_auto_revert(c) PROVE RevertInv'
  <2>1. /\ Rollback /\ UNCHANGED <<process_dir, began, call>> /\ pc[c] = "revert"
        /\ alone' = [o \in Callers |-> IF o = c THEN alone[o] ELSE FALSE]
    BY <1>6 DEF perform_auto_revert, Disturb
  <2>2. call[c].op = "with_tests" /\ call[c] \in Requests
    BY <2>1 DEF Stages
  <2>3. SUFFICES ASSUME alone[c]
                 PROVE  /\ index' = head' /\ began[c] = head'
                        /\ \A f \in Files : tree'[f] # head'[f] => f = call[c].file
                        /\ began[c][call[c].file] # Absent /\ process_dir = "workspace" => tree' = began[c]
    BY <2>1, <2>2 DEF RevertInv
  <2>4. index = head /\ began[c] = head /\ \A f \in Files : tree[f] # head[f] => f = call[c].file
    BY <2>3 DEF RevertInv
  \* Elsewhere the workspace stays as it is, and nothing is promised.
  <2>5. CASE process_dir # "workspace"
    BY <2>1, <2>4, <2>5 DEF Rollback, repo
  <2>6. CASE process_dir = "workspace"
    <3>1. /\ tree' = [f \in Files |-> IF head[f] = Absent /\ index[f] = Absent THEN tree[f] ELSE head[f]]
          /\ index' = head /\ head' = head
      BY <2>1, <2>6 DEF Rollback, ResetHard
    <3>2. ASSUME began[c][call[c].file] # Absent PROVE tree' = began[c]
      <4>1. \A f \in Files : tree'[f] = head[f]
        BY <2>4, <3>1, <3>2
      <4>2. tree' = [f \in Files |-> tree'[f]] /\ head = [f \in Files |-> head[f]]
        BY <3>1 DEF Types, Trees
      <4> QED BY <4>1, <4>2, <2>4
    <3> QED BY <2>4, <3>1, <3>2
  <2> QED BY <2>5, <2>6
<1>7. CASE Expire
  BY <1>7 DEF Expire, repo, place, RevertInv
<1>8. CASE Edit
  <2>1. \A c \in Callers : ~ alone'[c]
    BY <1>8 DEF Edit
  <2> QED BY <2>1 DEF RevertInv
<1>9. CASE Restart
  BY <1>9 DEF Restart, repo, RevertInv
<1>10. CASE UNCHANGED vars
  BY <1>10 DEF vars, repo, place, ghost, RevertInv
<1> QED BY <1>1, <1>2, <1>3, <1>4, <1>5, <1>6, <1>7, <1>8, <1>9, <1>10 DEF Next

\* When the process runs in the workspace's repository, the reset of a failed test
\* run brings a tracked file back, and disturbs nothing else, when nobody else was
\* at work (mod.rs:1057, perform_auto_revert).
THEOREM RevertIsExact == Spec => []RevertRestores
<1>1. Init => RevertInv
  BY DEF Init, RevertInv
<1>2. EngineInv /\ RevertInv => RevertRestores
  <2> SUFFICES ASSUME EngineInv, RevertInv, process_dir = "workspace", NEW c \in Callers, Unreverted(c)
               PROVE  FALSE
    BY DEF RevertRestores
  <2>1. /\ pc[c] = "done" /\ call[c].op = "with_tests" /\ result[c].reverted /\ alone[c]
        /\ began[c][call[c].file] # Absent /\ tree # began[c]
    BY DEF Unreverted
  <2>2. result[c] # None /\ result[c] \in Results /\ result[c].op # "journal"
    BY <2>1 DEF EngineInv, Stages, Types
  <2>3. result[c].op = "patch"
    BY <2>2, ResultFields
  <2> QED BY <2>1, <2>2, <2>3 DEF RevertInv
<1> QED BY <1>1, <1>2, EngineStarts, EngineKeeps, RevertKeeps, PTL DEF Spec
=============================================================================
