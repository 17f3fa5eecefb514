\* Parts whose last row may be forbidden.
SPECIFICATION FairSpec
CONSTANTS
    Chunk = 2
    NumberWrap = 256
    MaxRows = 3
    MCRows = {"new", "forbidden"}
    Files <- MCFiles
    MaxPart = 2
    MaxBatch = 1
PROPERTIES
    EveryPartAnswered
\* A client with no batch left to start, or that has left, is done.
CHECK_DEADLOCK FALSE
