\* Two connections log in with one account and neither is told to exit.
SPECIFICATION Spec
CONSTANTS
    admin = admin
    stud = stud
    NoAcct = NoAcct
    Accts <- MCAccts
    Socks = {s1, s2, s3}
    InitTables <- MCTables
    FirstId = 3
    Ranges <- MCRanges
    MaxReq = 3
    MaxFaults = 0
INVARIANTS
    OneSessionPerAccount
SYMMETRY MCSymmetry
