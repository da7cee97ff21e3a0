SPECIFICATION FairSpec
CONSTANTS
    Threads = {t1, t2, t3, t4}
    Cons = {m1, m2}
    None = None
    Main = Main
    UINT_MAX = 3
CHECK_DEADLOCK FALSE
INVARIANTS NoSharing CountsAgree UsesOpenConnection
PROPERTIES NullOnlyWhenAllLent PoolServes
