SPECIFICATION Spec
CONSTANTS
    Fds = {f1, f2}
    Conns = {c1, c2}
    Workers = {w1, w2}
    None = None
    MAX_FD = 2
    MAX_REQUESTS = 0
    LIFE = 1
    MaxSends = 2
CHECK_DEADLOCK FALSE
SYMMETRY Symmetry
INVARIANTS Accepted UserCountExact OneHolder ReplyToAsker
PROPERTIES TickClosesInactive
