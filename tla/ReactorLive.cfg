SPECIFICATION FairSpec
CONSTANTS
    Fds = {f1}
    Conns = {c1, c2}
    Workers = {w1}
    None = None
    MAX_FD = 1
    MAX_REQUESTS = 0
    LIFE = 1
    MaxSends = 1
CHECK_DEADLOCK FALSE
INVARIANTS TypeOK  EventHasTimer OpenHasTimer
PROPERTIES Reaped Stops
