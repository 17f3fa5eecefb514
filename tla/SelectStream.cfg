\* One selection of up to three messages, of which one recv may return two.
SPECIFICATION Spec
CONSTANTS
    admin = admin
    teacher = teacher
    stud1 = stud1
    stud2 = stud2
    Nobody = Nobody
    Accts <- MCAccts
    Identity <- MCIdentity
    Ids <- MCIds
    Scores <- MCScores
    InitUsers <- MCUsers
    Inputs <- MCInputs
    PageSize = 2
    PageWrap = 256
    Merge = 2
    MaxReq = 2
    MaxConn = 1
    MaxChange = 1
    MaxFaults = 0
INVARIANTS
    ListShown
\* No request is left.
CHECK_DEADLOCK FALSE
