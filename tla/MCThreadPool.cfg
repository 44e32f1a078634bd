CONSTANTS
    MaxThreads = 3
    MaxItems = 4
    MaxTapes = 1
    MaxBatches = 2
    MaxRuns = 2
    NSyncs = 2
SPECIFICATION Spec
INVARIANTS TypeOK NoAssertionFails LeftCounts EachItemOnce OneAtATime SameThreadsEverywhere
PROPERTIES MachineEnds
