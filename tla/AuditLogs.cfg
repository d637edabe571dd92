\* A run and a demo with the same log name, in one second or in two; a finished log is
\* damaged once.
SPECIFICATION Spec
CONSTANTS
    Processes = {"p1", "p2"}
    CommandOf <- MCMixed
    CaseOf <- MCCaseOf
    LogNameOf <- MCLogNameOf
    SecretOf <- MCSecretOf
    None = None
    Tools = {t1}
    Outputs = {"o1", "o2"}
    MaxReceipts = 2
    MaxSeconds = 1
    MaxFaults = 1
CHECK_DEADLOCK FALSE
INVARIANTS TypeOK ValidLogIsPrefixOfSession ExitZeroMeansSaved
    StoppedSaveIsBeginning
