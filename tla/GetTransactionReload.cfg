SPECIFICATION Spec
CONSTANTS
    Fns = {1, 2}
    Values = {1, 2}
    NotFound = NotFound
    Failed = Failed
    CtxErr = CtxErr
    Errors = {NotFound, Failed, CtxErr}
    None = None
    Concurrency = 2
    MaxChanges = 1
    MaxFaults = 0
    MayCancel = FALSE
INVARIANT NotFoundSearched
CHECK_DEADLOCK FALSE
