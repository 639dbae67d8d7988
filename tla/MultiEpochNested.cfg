SPECIFICATION FairSpec
CONSTANTS
    EpochNums = {1, 2}
    Handles = {"first", "renumbered"}
    EpochOf <- EpochOfVersion
    ConfigOf <- OneConfig
    NoHandle = NoHandle
    Requests = {p1}
    Updaters = {u1}
    NoUpdater = NoUpdater
    Ops = {"GetEpoch", "Oldest"}
PROPERTY UpdatesComplete
CHECK_DEADLOCK FALSE
