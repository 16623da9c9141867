SPECIFICATION FairSpec
CONSTANTS
    Number = 2
    Retries = 1
    Hash <- MCHashSmall
    NextOn = {"error", "timeout", "http_404"}
PROPERTY RequestEnds
CHECK_DEADLOCK FALSE
