SPECIFICATION Spec
CONSTANTS
    Messages <- Typical
    CONTENT_LENGTH = 4
    READ_BUFFER_SIZE = 18
    Pipelining = TRUE
    MaxRequests = 3
    Headers = {3}
    Files = {0, 1, 2}
CHECK_DEADLOCK FALSE
INVARIANTS VerdictRight NoStall MappingLife
