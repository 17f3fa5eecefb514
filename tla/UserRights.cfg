\* An administrator, a teacher and a student on two connections.
SPECIFICATION Spec
CONSTANTS
    Users = {"admin", "teach", "stud"}
    Accts = {"a", "t", "s", "n"}
    NoAcct = "none"
    NoUser = "nobody"
    Socks = {1, 2}
    Rights = {"edit", "score", "grant"}
    Grant = "grant"
    DefaultRights <- MCDefault
    InitTable <- MCStaff
    MaxAsk = 2
    MaxReq = 4
    MaxFaults = 1
INVARIANTS
    TypeOK
    SnapshotIsOwn
    OnlyAdminGrants
    SessionFollows
PROPERTIES
    EditKeepsOthers
\* No request is left.
CHECK_DEADLOCK FALSE
