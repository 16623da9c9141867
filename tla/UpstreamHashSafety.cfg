SPECIFICATION Spec
CONSTANTS
    Number = 3
    Retries = 3
    Hash <- MCHash
    NextOn = {"error", "timeout", "invalid_header", "http_500", "http_404"}
INVARIANTS
    TypeOK
    FailedPeerNotAskedAgain
    AttemptsBounded
CHECK_DEADLOCK FALSE
