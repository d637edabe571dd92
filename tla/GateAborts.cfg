\* Every failure the gate meets.  NeverAborts is violated.
SPECIFICATION Spec
CONSTANTS
    Numbers = {39, 40, 54, 55}
    OtherValues = {"nan", "true", "false", "huge", "text"}
    Failures = {"ConnectError", "TimeoutException", "ReadError", "WriteError",
                "RemoteProtocolError", "DecodingError", "TooManyRedirects"}
    MalformedBody = TRUE
CHECK_DEADLOCK FALSE
INVARIANT NeverAborts
