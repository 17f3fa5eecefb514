\* Two clients on two subjects and two accounts, one of them registered.
SPECIFICATION FairSpec
CONSTANTS
    Subjects = {1, 2}
    Accts = {"x", "y"}
    Socks = {1, 2}
    Scores = {60}
    Junk = 111
    InitCols <- MCCols
    InitUsers <- MCUsers
    MaxReq = 5
    MaxFaults = 1
INVARIANTS
    TypeOK
    OneRow
PROPERTIES
    ListFollowsColumns
    ScoresStand
    AnswersTellRows
    OperationEnds
\* No request is left.
CHECK_DEADLOCK FALSE
