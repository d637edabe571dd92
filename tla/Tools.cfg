\* Every wrapper, with its timeouts; a killed program may take four minutes to end.
SPECIFICATION Spec
CONSTANTS
    Tools = {"volatility.pslist", "volatility.netscan", "volatility.cmdline",
             "plaso.log2timeline", "regripper.amcache", "evtxecmd.security"}
    MaxLinger = 4
CHECK_DEADLOCK FALSE
INVARIANTS TypeOK NothingLeftBehind OverdueIsError OkSkipsNothing
PROPERTIES EveryStepCounts CallEnds
