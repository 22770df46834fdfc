SPECIFICATION Spec
CONSTANTS
    Files = {"f"}
    Callers = {c1, c2}
    Keys = {"k"}
    NoKey = NoKey
    None = None
    Absent = Absent
    Requests <- SomeRequests
    AutoCommit = TRUE
    AutoRevert = TRUE
    StartDirs = {"workspace"}
    MaxCalls = 3
    MaxEdits = 1
INVARIANT RevertedIsUndone
CHECK_DEADLOCK FALSE
