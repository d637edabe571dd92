\* One session.  ExecutionsLogged is violated.
SPECIFICATION Spec
CONSTANTS
    Processes = {"p1"}
    CommandOf <- MCCommandOf
    CaseOf <- MCCaseOf
    LogNameOf <- MCLogNameOf
    SecretOf <- MCSecretOf
    None = None
    Tools = {t1}
    Outputs = {"o1", "o2"}
    MaxReceipts = 1
    MaxSeconds = 1
    MaxFaults = 0
CHECK_DEADLOCK FALSE
INVARIANT ExecutionsLogged
