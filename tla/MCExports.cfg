SPECIFICATION BothSpec
CONSTANTS
    MaxId = 2
    MaxTasks = 1
    MaxHandles = 2
    ProgramJobs = {1}
    MaxMessages = 2
    Promises = {r1}
    MaxUses = 2
INVARIANTS TableIsExact StopSignals CallsAreClean PortsDeliver
PROPERTIES CallReturnsAtLast RejectionsAreReported
\* An instance that has panicked stops, and so do ports and promises that are used up.
CHECK_DEADLOCK FALSE
