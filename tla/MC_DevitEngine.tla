---------------------------- MODULE MC_DevitEngine ----------------------------
\* Two callers, three calls with one key or none, one change from outside.
EXTENDS DevitEngine, TLC

Patch(op, kind, level, dry, key) ==
    [op |-> op, file |-> "f", kind |-> kind, level |-> level, dry |-> dry, key |-> key]

SomeRequests ==
    {Patch("patch_apply", "modify", "Ask", dry, "k") : dry \in BOOLEAN}
    \cup {Patch("with_tests", kind, "Moderate", FALSE, "k") : kind \in {"create", "delete"}}
    \cup {Patch("with_tests", "modify", "Moderate", FALSE, NoKey)}
    \cup {[op |-> "journal_append", key |-> "k"]}

\* One patch that modifies a file, with its tests, and its retries.
OnePatch == {Patch("with_tests", "modify", "Moderate", FALSE, "k")}

Symmetry == Permutations(Callers)
=============================================================================
