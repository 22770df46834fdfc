SPECIFICATION Spec
CONSTANTS
    Files = {"f"}
    Callers = {c1, c2}
    Keys = {"k"}
    NoKey = NoKey
    None = None
    Absent = Absent
    Requests <- SomeRequests
    AutoCommit = TRUE
    AutoRevert = TRUE
    StartDirs = {"workspace", "another repository"}
    MaxCalls = 3
    MaxEdits = 1
SYMMETRY Symmetry
INVARIANTS TypeOK OncePerKey RevertRestores JournalledOnce
CHECK_DEADLOCK FALSE
