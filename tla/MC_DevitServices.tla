---------------------------- MODULE MC_DevitServices ----------------------------
(***************************************************************************)
(* The parts of the system that share no state, in one run: the part that  *)
(* moves is chosen at the start, and the others stay at one of their       *)
(* initial states.                                                         *)
(***************************************************************************)
EXTENDS DevitSnapshots, DevitWorkerBridge, DevitAckHandshake, DevitScreenshots, DevitLocal,
        DevitGate, DevitExecutor, DevitLsp, DevitStudioEdit, DevitJournal, TLC

VARIABLE part

services == <<snapVars, bridgeVars, ackVars, shotVars, localVars, gateVars>>
outer    == <<execVars, lspVars, editVars, journalVars>>
vars     == <<part, services, outer>>

\* Every pair of numbers, 0 included.
MCRates == [max_actions : 0..2, per_seconds : 0..2]

\* Every change with up to two traits, and every patch of up to three changes
\* with one trait in two of them.
MCPatches ==
    LET few(n) == {c \in SUBSET Traits : Cardinality(c) <= n}
    IN  {<<>>} \cup {<<c>> : c \in few(2)} \cup {<<c, d>> : c \in few(1), d \in few(1)}
        \cup {<<c, d, {}>> : c \in few(1), d \in few(1)}

\* Files of none, one and three lines, with a blank line, with and without a
\* final newline; edits that fit such files, and up to two of them.
MCTexts ==
    {[lines |-> <<"a", "b", "c">>, ended |-> FALSE], [lines |-> <<"a", "", "c">>, ended |-> TRUE],
     [lines |-> <<"a">>, ended |-> TRUE], [lines |-> <<>>, ended |-> FALSE]}

MCEdits ==
    LET Edit(op, start, end, content) == [op |-> op, start |-> start, end |-> end, content |-> content]
        ranges == {<<0, 2>>, <<1, 1>>, <<1, 3>>, <<2, 2>>, <<2, 3>>, <<3, 3>>}
        one == {Edit("replace", r[1], r[2], <<"x", "y">>) : r \in ranges}
               \cup {Edit("delete", r[1], r[2], <<>>) : r \in {<<1, 1>>, <<2, 3>>}}
               \cup {Edit("insert_after", n, n, <<"x", "">>) : n \in 0..3}
               \cup {Edit("replace_file", 1, 9, <<"x">>)}
    IN  {<<e>> : e \in one} \cup {<<e, f>> : e \in one, f \in one}

MCSymmetry == Permutations(Managers) \cup Permutations(Paths) \cup Permutations(Polls)

Init ==
    /\ part \in {"snapshots", "bridge", "ack", "screenshots", "local", "gate", "executor", "language", "edit",
               "journal"}
    /\ SnapInit /\ BridgeInit /\ AckInit /\ ShotInit /\ LocalInit /\ ExecInit /\ LspInit /\ EditInit
    /\ JournalInit
    /\ part # "snapshots" => workspace = [f \in Paths |-> 1] /\ max_snapshots = [m \in Managers |-> 1]
    /\ part # "bridge" => ~ eager
    /\ part # "screenshots" => capable /\ rate_limit = [max_actions |-> 1, per_seconds |-> 1]
    /\ part # "executor" => worker_type = "mcp" /\ parse_mode = "json"
    /\ part # "edit" => studio_file = NoText
    /\ IF part = "gate" THEN GateInit
       ELSE changes = <<>> /\ default_level = "Ask" /\ answers = [l \in Levels |-> NotAsked]

Only(p, step, others) == part = p /\ step /\ UNCHANGED <<part, others>>

Next ==
    \/ Only("snapshots", SnapNext, <<bridgeVars, ackVars, shotVars, localVars, gateVars, outer>>)
    \/ Only("bridge", BridgeNext, <<snapVars, ackVars, shotVars, localVars, gateVars, outer>>)
    \/ Only("ack", AckNext, <<snapVars, bridgeVars, shotVars, localVars, gateVars, outer>>)
    \/ Only("screenshots", ShotNext, <<snapVars, bridgeVars, ackVars, localVars, gateVars, outer>>)
    \/ Only("local", LocalNext, <<snapVars, bridgeVars, ackVars, shotVars, gateVars, outer>>)
    \/ Only("gate", GateNext, <<snapVars, bridgeVars, ackVars, shotVars, localVars, outer>>)
    \/ Only("executor", ExecNext, <<services, lspVars, editVars, journalVars>>)
    \/ Only("language", LspNext, <<services, execVars, editVars, journalVars>>)
    \/ Only("edit", EditNext, <<services, execVars, lspVars, journalVars>>)
    \/ Only("journal", JournalNext, <<services, execVars, lspVars, editVars>>)

Spec == Init /\ [][Next]_vars
=============================================================================
