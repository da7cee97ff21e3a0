SPECIFICATION Spec
CONSTANTS
    Messages <- Posts
    CONTENT_LENGTH = 4
    READ_BUFFER_SIZE = 20
    Pipelining = FALSE
    MaxRequests = 1
CHECK_DEADLOCK FALSE
INVARIANTS AllAnswered
