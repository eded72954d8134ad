CONSTANTS
    UpdatesCapacity = 3
    ResultsCapacity = 2
    MaxBatch = 4
    MaxOutstanding = 7
SPECIFICATION FairSpec
INVARIANTS NobodyWaitsForRoom StopsOnlyWhenFull
PROPERTIES DeadlocksAreForGood NobodyIsStuck
CHECK_DEADLOCK FALSE
