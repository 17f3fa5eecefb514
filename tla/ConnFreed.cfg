\* A buffer in use is freed by the worker that removes an earlier connection.
SPECIFICATION Spec
CONSTANTS
    Socks = {s1, s2}
    NoSock = NoSock
    Nodes = {n1, n2}
    NoNode = NoNode
    Workers = {w1, w2}
    MaxConn = 2
INVARIANTS
    NoUseAfterFree
SYMMETRY MCSymmetry
\* The accept loop waits for ever when nobody connects any more.
CHECK_DEADLOCK FALSE
