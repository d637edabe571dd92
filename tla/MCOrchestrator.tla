--------------------------- MODULE MCOrchestrator ---------------------------
(* Orchestrator with small sets for TLC. *)
EXTENDS Orchestrator

MCToolNames == {"pslist", "netscan", ""}

\* A tool may find something or report an error; the result carries the
\* name it was called by.
MCReturns(name, args) == [tool_name: {name}, output: {"ok", "error"}]
=============================================================================
