\* pslist alone.  OkMeansAllParsed is violated.
SPECIFICATION Spec
CONSTANTS
    Tools = {"volatility.pslist"}
    MaxLinger = 1
CHECK_DEADLOCK FALSE
INVARIANT OkMeansAllParsed
