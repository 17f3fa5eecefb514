\* One client: a subject dropped and added again, then scores for all.
SPECIFICATION Spec
CONSTANTS
    Subjects = {1, 2}
    Accts = {"x"}
    Socks = {1}
    Scores = {60, 90}
    Junk = 111
    InitCols <- MCCols
    InitUsers <- MCUsers
    MaxReq = 6
    MaxFaults = 0
INVARIANTS
    AddedAsShown
\* No request is left.
CHECK_DEADLOCK FALSE
