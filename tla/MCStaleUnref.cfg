SPECIFICATION FairSpec
CONSTANTS
    Timeouts = {t1, t2}
    MaxId = 2
    MaxIo = 0
    Calls = {"setTimeout", "unref", "unrefDead"}
    LateCalls = {"setTimeout"}
PROPERTY DrainReturns
