SPECIFICATION FairSpec
CONSTANTS
    EpochNums = {1, 2}
    Handles = {"first", "second", "renumbered"}
    EpochOf <- EpochOfVersion
    ConfigOf <- OneConfig
    NoHandle = NoHandle
    Requests = {p1}
    Updaters = {u1, u2}
    NoUpdater = NoUpdater
    Ops = {"GetEpoch", "Newest"}
CHECK_DEADLOCK FALSE
INVARIANTS MappedOpen StuckOnlyNested
PROPERTIES ImplementsRegistry CallsReturn
