\* Memory image and disk (a directory) supplied, a hive that does not exist, no event log,
\* remote gate.
SPECIFICATION AgentSpec
CONSTANTS
    CaseId = CaseId
    Secret = Secret
    None = None
    NotADict = NotADict
    RemoteGate = TRUE
    ToolNames <- MCToolNames
    EmptyName = ""
    Args <- MCArgs
    Outputs <- Outcome
    Returns <- Execution
    GateVerdicts = {"healthy", "caution", "stressed"}
    Timestamps = {0}
    MaxIterations = 3
    MaxConsecutiveStressed = 2
    MaxWallSeconds = 1
    AwaitTime = 0
    Command = "run"
    Evidence = {"image", "disk", "hive"}
    Missing = {"hive"}
    Directories = {"disk"}
CHECK_DEADLOCK FALSE
INVARIANTS OnlySuppliedEvidence OfferedExactlyIfServed FindingsWereApproved OutageEndsSession
PROPERTY KeepsProtocol
