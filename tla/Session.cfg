\* Two tools, the empty name, four iterations, so that two misses can come with a finding
\* between them, two misses in a row, and a deadline of three ticks that a session of up
\* to seventeen ticks can cross at every await.
SPECIFICATION Spec
CONSTANTS
    CaseId = CaseId
    Secret = Secret
    None = None
    ToolNames <- MCToolNames
    EmptyName = ""
    Args = {a1}
    Outputs = {"ok", "error"}
    Returns <- MCReturns
    GateVerdicts = {"healthy", "caution", "stressed"}
    Timestamps = {0}
    MaxIterations = 4
    MaxConsecutiveStressed = 2
    MaxWallSeconds = 3
    AwaitTime = 1
CHECK_DEADLOCK FALSE
INVARIANTS TypeOK EveryReceiptSettledOnce ReceiptSignsResult ChainVerifies
    OverrunBounded StopReasonWarranted RecordKeepsPromise
PROPERTIES LedgerSpec EveryStepCounts
