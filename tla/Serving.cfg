SPECIFICATION Spec
CONSTANTS
    SigCars <- MCSigCars
    NumWorkers = 2
    AccumulatorCars <- MCAccumulatorCars
    Kinds = {"tx", "block", "epoch"}
    FlushOnKind = "block"
    IgnoreKinds = {"epoch"}
    SkipNodes = {0, 3, 4}
    QueueCap = 1
INVARIANTS
    HttpExact EpochOpenExact BlockExact SignaturesExact StreamsExact SealsEverySignature
    GeyserExact AccumulatorExact
PROPERTY EverythingEnds
CHECK_DEADLOCK FALSE
