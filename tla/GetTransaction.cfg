SPECIFICATION FairSpec
CONSTANTS
    Fns = {1, 2}
    Values = {1, 2}
    NotFound = NotFound
    Failed = Failed
    CtxErr = CtxErr
    Errors = {NotFound, Failed, CtxErr}
    None = None
    Concurrency = 1
    MaxChanges = 1
    MaxFaults = 1
    MayCancel = TRUE
CHECK_DEADLOCK FALSE
INVARIANTS AllErrorsReturned ResultVerified HeldIsServed Answered
PROPERTIES ImplementsFirstSuccess SearchEnds
