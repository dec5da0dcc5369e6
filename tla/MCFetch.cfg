SPECIFICATION PartsSpec
CONSTANTS
    \* Programs that unref() live timers only, and none late in the drain.
    Timeouts = {t1, t2}
    MaxId = 2
    MaxIo = 1
    Calls = {"startIo", "setTimeout", "setInterval", "ref", "unref", "refresh", "close", "repeat"}
    LateCalls = {"setTimeout", "setInterval", "ref", "refresh", "close", "repeat"}
    Responses = {a, b, c}
    MaxChunks = 2
    MaxSends = 2
    MaxOpens = 2
\* A request that has ended stops.
CHECK_DEADLOCK FALSE
INVARIANTS ReturnsClean BodiesAreWhole RequestsEndOnce
PROPERTIES SentinelSparesRefed DrainReturns RequestsEnd
