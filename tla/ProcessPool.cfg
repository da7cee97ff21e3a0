SPECIFICATION FairSpec
CONSTANTS
    m_process_number = 2
    Conns = {c1, c2}
CHECK_DEADLOCK FALSE
INVARIANTS NotificationsBacked ParentLast
PROPERTIES Terminates Answered
