\* Four requests, the two threads in any order.  Notify may start a screen at any time
\* after RecvThread has shown it, also before RecvThread has ended it.
SPECIFICATION FairSpec
CONSTANTS
    Kicks = TRUE
    MaxSent = 4
    MaxEarly = 2
    Rights <- MCRights
    Visited <- MCVisited
INVARIANTS
    TypeOK
    AnswerToAsker
    OneRequest
    OwnRights
    SignedOut
PROPERTIES
    AskedOrDeserted
\* The program may exit.
CHECK_DEADLOCK FALSE
