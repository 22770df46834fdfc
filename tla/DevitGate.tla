-------------------------------- MODULE DevitGate --------------------------------
(***************************************************************************)
(* The approval of a patch (crates/cli/src/core/policy.rs and the first    *)
(* steps of patch_apply in mod.rs): what the classified changes of a patch *)
(* may do at a requested level under the engine's default level. A client  *)
(* asks at one level after another, as refusals that name a required level *)
(* make it do.                                                             *)
(***************************************************************************)
EXTENDS Naturals, Sequences, FiniteSets

CONSTANTS Patches,             \* sequences of changes; a change is the set of its traits
          MaxFilesModerate, MaxLinesModerate

Levels == {"Untrusted", "Ask", "Moderate", "Trusted", "Privileged"}

\* "escaping": refused by path security; "symlink out": absolute or upward target;
\* "outside": not under the allowed paths of the privileged level; "listed":
\* a binary of a whitelisted kind (the size is always given as 0); "20 lines" is
\* what a change has otherwise.
Traits == {"escaping", ".env", ".gitmodules", "symlink", "symlink out", "exec", "binary", "listed",
           "submodule", "protected", "outside", "21 lines", "many lines"}

ASSUME GateAssumption ==
    /\ Patches \subseteq Seq(SUBSET Traits)
    /\ MaxFilesModerate \in Nat /\ MaxLinesModerate \in Nat

VARIABLES changes, default_level, answers

gateVars == <<changes, default_level, answers>>

NotAsked == [passed |-> FALSE, required |-> "not asked", silent |-> FALSE]

GateInit ==
    /\ changes \in Patches /\ default_level \in Levels
    /\ answers = [l \in Levels |-> NotAsked]

-----------------------------------------------------------------------------
(* The policy. A decision: allow, and whether confirmation is required.    *)

Has(trait) == \E i \in DOMAIN changes : trait \in changes[i]

Rank == [Untrusted |-> 0, Ask |-> 1, Moderate |-> 2, Trusted |-> 3, Privileged |-> 4]

Effective(requested) ==
    IF Rank[requested] > Rank[default_level] THEN default_level ELSE requested

Lines(change) ==
    IF "many lines" \in change THEN MaxLinesModerate + 1
    ELSE IF "21 lines" \in change THEN 21 ELSE 20

TotalLines ==
    LET upTo[n \in 0..Len(changes)] == IF n = 0 THEN 0 ELSE upTo[n - 1] + Lines(changes[n])
    IN  upTo[Len(changes)]

CommonRefusal(level) ==
    \/ Has(".env")
    \/ level # "Privileged" /\ (Has(".gitmodules") \/ Has("symlink out"))

Risky == {"binary", "listed", "exec", "protected", "submodule", ".gitmodules", "symlink",
          "symlink out", ".env"}

IsSimple ==
    /\ Len(changes) <= 2
    /\ \A i \in DOMAIN changes : changes[i] \cap Risky = {} /\ Lines(changes[i]) <= 20

Allowed(level) ==
    ~ CommonRefusal(level) /\ (level = "Privileged" => ~ Has("outside"))

\* A slip: a protected path is forgotten at the moderate level.
ConfirmLess(level) ==
    CASE level = "Untrusted"  -> TRUE
      [] level = "Ask"        -> ~ IsSimple
      [] level = "Moderate"   -> \/ Len(changes) > MaxFilesModerate
                                 \/ TotalLines > MaxLinesModerate
                                 \/ \E trait \in {"exec", "binary", "listed", "submodule"} : Has(trait)
      [] level = "Trusted"    -> Has("exec") \/ Has("binary") \/ Has("protected")
      [] level = "Privileged" -> FALSE

\* An allowance with confirmation, or one downgraded to Ask.
NeedsConfirmation(level) ==
    CASE level = "Untrusted"  -> TRUE
      [] level = "Ask"        -> ~ IsSimple
      [] level = "Moderate"   -> \/ Len(changes) > MaxFilesModerate
                                 \/ TotalLines > MaxLinesModerate
                                 \/ \E trait \in {"protected", "exec", "binary", "listed", "submodule"} :
                                       Has(trait)
      [] level = "Trusted"    -> Has("exec") \/ Has("binary") \/ Has("protected")
      [] level = "Privileged" -> FALSE

\* What patch_apply makes of it: a confirmation is a warning when the request
\* was for Ask, and a refusal that names Ask otherwise.
Answer(requested) ==
    LET level == Effective(requested)
    IN  IF changes = <<>> \/ Has("escaping") THEN [NotAsked EXCEPT !.required = "none"]
        ELSE IF ~ Allowed(level) THEN [NotAsked EXCEPT !.required = "Higher"]
        ELSE IF ~ NeedsConfirmation(level) THEN [passed |-> TRUE, required |-> "none", silent |-> TRUE]
        ELSE IF requested = "Ask" THEN [passed |-> TRUE, required |-> "none", silent |-> FALSE]
        ELSE [NotAsked EXCEPT !.required = "Ask"]

Request(level) ==
    /\ answers[level] = NotAsked
    /\ answers' = [answers EXCEPT ![level] = Answer(level)]
    /\ UNCHANGED <<changes, default_level>>

GateNext == \E level \in Levels : Request(level)

GateSpec == GateInit /\ [][GateNext]_gateVars

-----------------------------------------------------------------------------
(* Properties.                                                             *)

\* A refusal that names Ask can be answered: the same patch passes at Ask, in
\* whatever order the two are asked. And the levels nest: what passes at Ask or
\* Moderate without a warning passes so at the levels above, up to Trusted
\* (policy.rs:176, mod.rs:785).
LevelsAgree ==
    LET asked == {l \in Levels : answers[l] # NotAsked}
    IN  /\ "Ask" \in asked
           => \A l \in asked : answers[l].required = "Ask" => answers["Ask"].passed
        /\ \A l, m \in asked \cap {"Ask", "Moderate", "Trusted"} :
              Rank[l] < Rank[m] /\ answers[l].silent => answers[m].silent
=============================================================================
