CONSTANTS
    BufSize = 5
    HeadLen = 3
    EndLen = 7
    Requests <- MCRequests
    StaleLF = TRUE
SPECIFICATION FairSpec
CHECK_DEADLOCK FALSE
INVARIANT TypeOK
INVARIANT ClientGetsBody
INVARIANT EndsWithAllReceived
INVARIANT WaitsForSomeone
PROPERTY RequestEnds
