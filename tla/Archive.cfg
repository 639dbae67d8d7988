SPECIFICATION Spec
CONSTANTS
    EpochLen = 3
    ValueBytes = 2
    Epochs = {0, 2}
    Times <- MCTimes
    MaxSets = 2
    Networks = {"mainnet", "elsewhere"}
    Roots = {"undef", "c1", "c2"}
    Sigs = {"zero", "s1"}
    PutOffsets = {0, 7, 8}
    PutSizes = {0, 3, 4}
    MaxOffset = 7
    MaxSize = 3
    MaxTypedPuts = 2
    MaxSeals = 3
    Accounts = {"a", "b"}
    CompressedLens = {20, 117, 118, 119}
    MaxRecords = 3
    MaxCrashes = 1
    PairLen = 4
    FixedLen = 4
    Metas <- MCMetas
    Versions = {3, 4}
    MaxPairs = 3
INVARIANTS
    CompactIndexExact SigExistsExact BlockTimesExact TypedIndexExact GsfaFilesExact
    CarFileExact SplitCarExact IndexToolsExact MetadataExact NodesExact
CHECK_DEADLOCK FALSE
