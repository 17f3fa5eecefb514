\* Two clients with two requests between them, of whose statements two may fail, the
\* process's death among them.
SPECIFICATION FairSpec
CONSTANTS
    admin = admin
    stud = stud
    NoAcct = NoAcct
    Accts <- MCAccts
    Socks = {s1, s2}
    InitTables <- MCTables
    FirstId = 3
    Ranges <- MCRanges
    MaxReq = 2
    MaxFaults = 2
INVARIANTS
    TypeOK
    PairsAdjacent
    RegNeedMeansSelectNext
    SessionIsARow
    AckLogShape
    ResultIsOwn
    SuccessIsReal
    NothingDropped
PROPERTIES
    ImplementsBook
    WaitEnds
