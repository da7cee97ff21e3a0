SPECIFICATION FairSpec
CONSTANTS
    Fds = {f1, f2}
    Conns = {c1, c2, c3}
    Workers = {w1, w2}
    None = None
    MAX_FD = 2
    MAX_REQUESTS = 0
    MaxActs = 3
CHECK_DEADLOCK FALSE
INVARIANTS OneHolder TablesAgree
PROPERTIES Served
