SPECIFICATION FairSpec
CONSTANTS
    Size = 3
    Byte = {0, 1}
    File <- OddBytes
    Asked <- SomeReads
    MaxWrong = 1
    Readers = {r1, r2}
INVARIANTS Antichain ReadsExact OccupiedExact
PROPERTIES StoringHarmless ReadReturns
