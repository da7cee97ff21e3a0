SPECIFICATION FairSpec
CONSTANTS
    Writers = {w1, w2}
    MaxLines = 3
    MaxDay = 1
    m_split_lines = 2
    max_queue_size = 2
CHECK_DEADLOCK FALSE
INVARIANTS WriterOrder NoneLost FilesKept
PROPERTIES Logged
