SPECIFICATION Spec
CONSTANTS
    Letters = {"x", "y", ""}
    Blank = ""
    Paths <- P
    Temps <- T
    TempOf <- TempName
    Procs <- Req
    Nowhere = Nowhere
    Scenarios <- Everything
INVARIANTS PrefixApplied DryRunPredicts RoundTrip
CHECK_DEADLOCK FALSE
