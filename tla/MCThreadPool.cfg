\* Two generations of two workers: every restart, with and without threads
\* left over from the first generation.
CONSTANTS
    Thread = {w1, w2, w3, w4}
    Task = {k1, k2, tm}
    Timer = {tm}
    PoolSize = 2
    None = None
SPECIFICATION Spec
SYMMETRY Symmetry
CHECK_DEADLOCK FALSE
INVARIANTS
    TypeOK
    ShutdownDrains
    ShutdownStopsAll
    JoinDoesNotBlock
    EmptyTakeNeedsZombie
    SleepersMissedNotify
    ResetFindsNoThreads
    PoolInv
PROPERTIES
    IsTaskService
