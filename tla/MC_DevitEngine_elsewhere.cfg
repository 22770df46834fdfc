SPECIFICATION Spec
CONSTANTS
    Files = {"f"}
    Callers = {c1, c2}
    Keys = {"k"}
    NoKey = NoKey
    None = None
    Absent = Absent
    Requests <- OnePatch
    AutoCommit = TRUE
    AutoRevert = TRUE
    StartDirs = {"workspace", "another repository", "no repository"}
    MaxCalls = 3
    MaxEdits = 1
INVARIANT RevertedAnywhere
CHECK_DEADLOCK FALSE
