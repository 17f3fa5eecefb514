\* Three connections on two numbers, which come back as soon as they are closed.
SPECIFICATION Spec
CONSTANTS
    Socks = {s1, s2}
    NoSock = NoSock
    Nodes = {n1, n2}
    NoNode = NoNode
    Workers = {w1, w2}
    MaxConn = 3
INVARIANTS
    TypeOK
    FreedAfterUse
    ClosesItsOwn
    SavedUnlessRevived
SYMMETRY MCSymmetry
\* The accept loop waits for ever when nobody connects any more.
CHECK_DEADLOCK FALSE
