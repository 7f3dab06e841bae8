\* As many timers as workers: the pool can starve, and only so.
CONSTANTS
    Thread = {w1, w2}
    Task = {k1, t1, t2}
    Timer = {t1, t2}
    PoolSize = 2
    None = None
SPECIFICATION FairSpec
CHECK_DEADLOCK FALSE
PROPERTIES
    TaskRuns
    WorkersLeave
