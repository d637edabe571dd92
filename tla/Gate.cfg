\* Ratios on both sides of both thresholds, every kind of failure.
SPECIFICATION Spec
CONSTANTS
    Numbers = {39, 40, 54, 55}
    OtherValues = {"nan", "true", "false", "huge", "text"}
    Failures = {"ConnectError", "TimeoutException", "ReadError", "WriteError",
                "RemoteProtocolError", "DecodingError", "TooManyRedirects"}
    MalformedBody = TRUE
CHECK_DEADLOCK FALSE
INVARIANTS TypeOK VerdictFollowsAnswer
PROPERTIES EvaluateEnds
