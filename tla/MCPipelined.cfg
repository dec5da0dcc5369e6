CONSTANTS
    Conns = {c1}
    Requests <- TwoEach
    Kinds = {"none"}
    Settings <- SomeSettings
    FollowOverrun = TRUE
SPECIFICATION Spec
INVARIANT PipelinedInOrder
CHECK_DEADLOCK FALSE
