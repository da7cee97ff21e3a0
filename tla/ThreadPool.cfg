SPECIFICATION FairSpec
CONSTANTS
    Requests = {r1, r2, r3, r4}
    Threads = {t1, t2, t3}
    None = None
    Main = Main
    MAX_REQUESTS = 1
CHECK_DEADLOCK FALSE
INVARIANTS SemCountsQueue
PROPERTIES ImplementsWorkQueue Processed
