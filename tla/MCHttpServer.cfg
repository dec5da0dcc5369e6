\* One connection that asks twice, among others; three settings of the server.
CONSTANTS
    Conns = {c1}
    Requests <- TwoEach
    Kinds = {"none", "chunked", "badChunk", "badBody", "bad", "connect"}
    Settings <- SomeSettings
    FollowOverrun = FALSE
SPECIFICATION FairSpec
INVARIANTS ResponsesInOrder NothingIsOwed
PROPERTIES HalfOpenCloses
\* Nothing happens when every connection is closed.
CHECK_DEADLOCK FALSE
