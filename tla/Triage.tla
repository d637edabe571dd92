------------------------------- MODULE Triage -------------------------------
(***************************************************************************)
(* A session whose tools are those of the executor: Orchestrator with      *)
(* Returns <- Execution.                                                   *)
(***************************************************************************)
EXTENDS Orchestrator, Executor

\* The composition: execute_tool is the executor's, its arguments and results too.
ASSUME TriageAssumption ==
    /\ Args \subseteq ToolArgs
    /\ \A name \in ToolNames : \A args \in Args : Returns(name, args) = Execution(name, args)

\* The receipt of a result on one of the lists.
ReceiptOf(item) == chain[item.receipt_sequence + 1]

SettledItems == {findings[i] : i \in DOMAIN findings} \cup {rejected[i] : i \in DOMAIN rejected}

\* A tool is run only on evidence the analyst supplied for the tool its receipt names,
\* whatever path the Scout asked for.  (Where the rows of the result were read is another
\* matter: log2timeline's come from a directory the Scout chooses.)
OnlySuppliedEvidence ==
    \A item \in SettledItems :
        item.result.output.status # "error" =>
            LET tool == ReceiptOf(item).tool_name
            IN  /\ tool \in Dispatch /\ KindOf[tool] \in Evidence
                /\ item.result.output.on = KindOf[tool]

\* The catalog the Scout is shown and the executor, built in two places from the same
\* four options, agree both ways: a call is refused exactly when its tool is not on offer.
\* (A tool on offer may still fail: nobody looks whether its path exists before the
\* tool's input model raises.)
OfferedExactlyIfServed ==
    pc = "execute" =>
        LET tool == decision.tool_name
        IN  tool \in Offered <=> Refused(tool) \notin Returns(tool, decision.tool_args)

\* A tool offered to the Scout can succeed when it is called with valid arguments.
\* (README.md:97, "The agent is never offered a tool whose evidence is absent".)
OfferedToolsUsable ==
    pc = "execute" =>
        LET tool == decision.tool_name
            args == decision.tool_args
        IN  tool \in Offered /\ OthersAccepted(tool, args) =>
                \E result \in Returns(tool, args) : result.output.status # "error"

\* A path a receipt commits to is the one the tool was run on.
\* (docs/accuracy-report.md:121, the chain is the "record of which tools executed
\* against which evidence".)
ReceiptNamesItsEvidence ==
    \A item \in SettledItems :
        item.result.output.on # "nothing" =>
            ReceiptOf(item).input_sha256.sha256.path \in {"absent", item.result.output.on}
=============================================================================
