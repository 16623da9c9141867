SPECIFICATION FairSpec
CONSTANTS
    Number = 3
    Retries = 3
    Hash <- MCHashSmall
    NextOn = {"error", "timeout", "invalid_header", "http_500"}
PROPERTY RequestEnds
CHECK_DEADLOCK FALSE
