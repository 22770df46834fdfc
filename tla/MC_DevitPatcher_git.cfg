SPECIFICATION Spec
CONSTANTS
    Letters = {"x", "y", ""}
    Blank = ""
    Paths <- P
    Temps <- T
    TempOf <- TempName
    Procs <- Req
    Nowhere = Nowhere
    Scenarios <- Printable
INVARIANT NeverAnotherResult
CHECK_DEADLOCK FALSE
