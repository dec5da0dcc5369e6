SPECIFICATION FairSpec
CONSTANTS
    Ticks = {a, b, c}
    MaxTimers = 1
    MaxWakeups = 3
CHECK_DEADLOCK FALSE
PROPERTY EveryTickRuns
