SPECIFICATION Spec
CONSTANTS
    Within <- MCWithin
    KeyFields <- MCKeyFields
    CaseFiles <- MCCaseFiles
    Found <- MCFound
    Unparsable = Unparsable
    NotADict = NotADict
    Absent = Absent
    MaxFindings = 3
INVARIANTS
    EveryFindingCountedOnce
    NothingMatchableLeft
    AtLeastHalfOfBest
    F1OfTheCounts
    ExitZeroMeansReported
CHECK_DEADLOCK FALSE
