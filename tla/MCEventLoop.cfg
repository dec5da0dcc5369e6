\* Every call a program can make, in any turn.
SPECIFICATION Spec
CONSTANTS
    Timeouts = {t1, t2}
    MaxId = 3
    MaxIo = 1
    Calls = {"startIo", "setTimeout", "setInterval", "ref", "unref", "unrefDead", "refresh", "close", "clearById", "repeat"}
    LateCalls = {"startIo", "setTimeout", "setInterval", "ref", "unref", "unrefDead", "refresh", "close", "clearById", "repeat"}
SYMMETRY Symmetry
INVARIANTS LoopInv UnrefAgrees
PROPERTIES LoopImplementsService
