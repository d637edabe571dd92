------------------------------ MODULE MCAgents ------------------------------
(* Agents with four tools of the catalog, a name that is none, the empty    *)
(* name; no arguments, or right ones with the path of other evidence, or    *)
(* with one that is nobody's.                                               *)
EXTENDS Agents

MCToolNames ==
    {"volatility.pslist", "plaso.log2timeline", "regripper.amcache",
     "evtxecmd.parse_security", "evtxecmd.security", ""}
MCArgs == {NoArgs, [path |-> "image", others |-> "valid"]}
MCInventedArgs == {NoArgs, [path |-> "invented", others |-> "valid"]}
=============================================================================
