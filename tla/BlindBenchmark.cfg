\* A session of `sentinel benchmark`.  OfferedToolsUsable is violated.
SPECIFICATION AgentSpec
CONSTANTS
    CaseId = CaseId
    Secret = Secret
    None = None
    NotADict = NotADict
    RemoteGate = TRUE
    ToolNames <- MCToolNames
    EmptyName = ""
    Args <- MCArgs
    Outputs <- Outcome
    Returns <- Execution
    GateVerdicts = {"healthy", "caution", "stressed"}
    Timestamps = {0}
    MaxIterations = 3
    MaxConsecutiveStressed = 2
    MaxWallSeconds = 1
    AwaitTime = 0
    Command = "benchmark"
    Evidence = {}
    Missing = {}
    Directories = {}
CHECK_DEADLOCK FALSE
INVARIANT OfferedToolsUsable
