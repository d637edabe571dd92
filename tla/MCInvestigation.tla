-------------------------- MODULE MCInvestigation --------------------------
(* Investigation with small sets for TLC: processes that use the same log   *)
(* name.                                                                    *)
EXTENDS Investigation

MCCommandOf == [p \in Processes |-> "run"]
MCCaseOf == [p \in Processes |-> "case"]
MCLogNameOf == MCCaseOf
MCSecretOf == [p \in Processes |-> "secret"]

MCMixed == [p \in Processes |-> IF p = "p1" THEN "run" ELSE "demo"]
=============================================================================
