SPECIFICATION PartsSpec
CONSTANTS
    r1 = r1
    r2 = r2
    n1 = n1
    n2 = n2
    Requests <- TwoRequests
    Names <- TwoNames
    Settings <- SomeSettings
    Writers <- OneWriter
    MaxWrites = 1
    HighWater = 1
    Sends = {s1}
    MaxConnects = 1
    MaxDatagrams = 1
    Apis = {"events", "stream"}
    MaxMessages = 2
    Tests = {t1, t2}
    Suites = {d1, d2}
    None = None
    Ticks = {a, b, c}
    MaxTimers = 1
    MaxWakeups = 3
INVARIANTS AgentIsExact HearsWhileBound HearsInOrder TestsPassInOrder TicksInOrder
PROPERTIES ResponseIsWanted RequestsClose SendsAreCalledBack EndIsAnnounced HarnessAnswers TicksFinish
\* Each module comes to rest when the program has used it up to the bounds.
CHECK_DEADLOCK FALSE
