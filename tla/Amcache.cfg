\* Two entries and more, each with up to two fields and a path.
SPECIFICATION Spec
CONSTANTS
    Fields = {"sha1", "publisher"}
    Values = {"", "a", "b"}
    Empty = ""
    MaxLines = 5
INVARIANTS
    EntriesOfTheirLines
    OkMeansEveryPath
CHECK_DEADLOCK FALSE
