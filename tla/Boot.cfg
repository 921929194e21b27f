SPECIFICATION Spec
CONSTANTS
    MaxDeaths = 2
    NSlow = 1
    NFast = 1
    NCpu = 2
    Mallocs = {m1, m2}
    BatchSize = 2
    MaxBatches = 3
INVARIANTS  FreedBatchesAreEmpty 
PROPERTIES BootSettles WorkersStart
CHECK_DEADLOCK FALSE
