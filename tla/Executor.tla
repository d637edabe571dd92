------------------------------ MODULE Executor ------------------------------
(***************************************************************************)
(* The executor of src/sentinel/agents/wiring.py and the tool catalog of   *)
(* src/sentinel/cli.py: which tools a Scout is offered, and what comes of  *)
(* a call to one.                                                          *)
(*                                                                         *)
(* A path is named by the kind of evidence it is the command line's path   *)
(* of; "invented" is any other path, and "absent" is no path at all.       *)
(***************************************************************************)
EXTENDS Naturals

CONSTANTS
    Command,     \* "run" or "benchmark"
    Evidence,    \* the kinds of evidence given on the command line
    Missing,     \* those of them whose path does not exist
    Directories  \* those of them whose path is a directory, not a file

Kinds == {"image", "disk", "hive", "evtx"}

ASSUME EvidenceAssumption ==
    /\ Command \in {"run", "benchmark"}
    /\ Evidence \subseteq Kinds /\ Missing \subseteq Evidence
    /\ Directories \subseteq Evidence \ Missing
    /\ Command = "benchmark" => Evidence = {}

\* _DISPATCH, with the kind of evidence each tool reads.
KindOf ==
    [tool \in {"volatility.pslist", "volatility.netscan", "volatility.cmdline",
               "plaso.log2timeline", "regripper.amcache", "evtxecmd.parse_security"} |->
        CASE tool = "plaso.log2timeline" -> "disk"
          [] tool = "regripper.amcache" -> "hive"
          [] tool = "evtxecmd.parse_security" -> "evtx"
          [] OTHER -> "image"]
Dispatch == DOMAIN KindOf

\* Variant: a disk image brings the event log tool along.
CatalogWithDisk(evidence) ==
    {tool \in Dispatch : \/ KindOf[tool] \in evidence
                         \/ KindOf[tool] = "evtx" /\ "disk" \in evidence}

\* _build_tool_catalog: an option given is enough, nothing looks at its path.
Catalog(evidence) == {tool \in Dispatch : KindOf[tool] \in evidence}

\* What the Scout's prompt lists: the benchmark passes the whole _TOOL_CATALOG
\* to a Scout whose executor was built without evidence.
Offered == IF Command = "benchmark" THEN Dispatch ELSE Catalog(Evidence)

\* A Scout's tool_args: the path it gives for the evidence, if any, and its other
\* fields, which it may invent or leave out.  log2timeline's output_dir is one of the
\* others: the Scout chooses it, and the validator creates it.
ToolArgs == [path: Kinds \cup {"invented", "absent"}, others: {"valid", "invalid", "none"}]

\* The empty dictionary.
NoArgs == [path |-> "absent", others |-> "none"]

\* Variant: a path the Scout gives is kept.
PinUnlessGiven(tool, args) ==
    IF args.path = "absent" THEN [args EXCEPT !.path = KindOf[tool]] ELSE args

\* The command line's path replaces the Scout's.
Pin(tool, args) == [args EXCEPT !.path = KindOf[tool]]

\* The input model without its path: only log2timeline requires another field,
\* output_dir.
OthersAccepted(tool, args) ==
    \/ args.others = "valid"
    \/ args.others = "none" /\ tool # "plaso.log2timeline"

\* The path validator of the tool's input model: log2timeline takes any path
\* that exists, the other tools a file.
PathAccepted(tool, path) ==
    /\ path \in Evidence \ Missing
    /\ tool = "plaso.log2timeline" \/ path \notin Directories

\* The tool_name a wrapper puts in its result.
ResultName(tool) ==
    IF tool = "evtxecmd.parse_security" THEN "evtxecmd.security" ELSE tool

\* What a tool was run on, and where the rows of its result were read: in the program's
\* own output, or, log2timeline's, in the timeline.json of the directory the Scout chose.
Outcome == [status: {"ok", "partial", "error"}, on: Kinds \cup {"nothing"},
            rows: {"program", "scout_dir", "nothing"}]

RowsOf(tool) == IF tool = "plaso.log2timeline" THEN "scout_dir" ELSE "program"

Refused(tool) ==
    [tool_name |-> tool, output |-> [status |-> "error", on |-> "nothing", rows |-> "nothing"]]

\* _execute: the results a call may return.  A call whose arguments the input
\* model rejects returns none: the ValidationError leaves the executor.
Execution(tool, args) ==
    IF tool \notin Dispatch THEN {Refused(tool)}
    ELSE IF KindOf[tool] \notin Evidence THEN {Refused(tool)}
    ELSE LET pinned == Pin(tool, args)
         IN  IF OthersAccepted(tool, pinned) /\ PathAccepted(tool, pinned.path)
             THEN [tool_name: {ResultName(tool)},
                   output: [status: {"ok", "partial", "error"}, on: {pinned.path},
                            rows: {RowsOf(tool)}]]
             ELSE {}
=============================================================================
