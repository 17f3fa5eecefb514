\* Two batches, of users, single ones or scores; files of up to three parts.
SPECIFICATION FairSpec
CONSTANTS
    Chunk = 2
    NumberWrap = 256
    MaxRows = 5
    MCRows = {"new", "fails", "forbidden", "unparsed"}
    Files <- MCFiles
    MaxPart = 3
    MaxBatch = 2
INVARIANTS
    TypeOK
    CountsAgree
    TotalsKept
    ReplyEndsPart
PROPERTIES
    AnsweredIfLastQueued
\* A client with no batch left to start, or that has left, is done.
CHECK_DEADLOCK FALSE
