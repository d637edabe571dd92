\* The Scout invents a path.  ReceiptNamesItsEvidence is violated.
SPECIFICATION AgentSpec
CONSTANTS
    CaseId = CaseId
    Secret = Secret
    None = None
    NotADict = NotADict
    RemoteGate = TRUE
    ToolNames <- MCToolNames
    EmptyName = ""
    Args <- MCInventedArgs
    Outputs <- Outcome
    Returns <- Execution
    GateVerdicts = {"healthy", "caution", "stressed"}
    Timestamps = {0}
    MaxIterations = 3
    MaxConsecutiveStressed = 2
    MaxWallSeconds = 1
    AwaitTime = 0
    Command = "run"
    Evidence = {"image", "disk"}
    Missing = {}
    Directories = {"disk"}
CHECK_DEADLOCK FALSE
INVARIANT ReceiptNamesItsEvidence
