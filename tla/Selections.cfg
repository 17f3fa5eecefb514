\* Two logins and two selections, on up to two connections with one socket number.
SPECIFICATION FairSpec
CONSTANTS
    admin = admin
    teacher = teacher
    stud1 = stud1
    stud2 = stud2
    Nobody = Nobody
    Accts <- MCAccts
    Identity <- MCIdentity
    Ids <- MCIds
    Scores <- MCScores
    InitUsers <- MCUsers
    Inputs <- MCInputs
    PageSize = 2
    PageWrap = 256
    Merge = 2
    MaxReq = 4
    MaxConn = 2
    MaxChange = 1
    MaxFaults = 1
INVARIANTS
    TypeOK
    ListShownUncut
    OwnRows
PROPERTIES
    SelectionEnds
\* No request is left.
CHECK_DEADLOCK FALSE
