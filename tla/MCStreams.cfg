SPECIFICATION PartsSpec
CONSTANTS
    MaxWrites = 3
    MaxWriteCalls = 2
    MaxAsked = 4
    HighWaterMarks = {0, 1}
    MaxChunks = 2
    MaxReadCalls = 3
    MaxRedirects = 2
INVARIANTS WritesInOrder ChunksInOrder UploadsAreWhole
PROPERTIES StreamsSettle UploadsSettle
\* A program that is done with a stream, or uses up the bounds, may stop; so does a fetch()
\* that has settled.
CHECK_DEADLOCK FALSE
