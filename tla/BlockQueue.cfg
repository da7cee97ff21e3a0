SPECIFICATION FairSpec
CONSTANTS
    Items = {a, b}
    Producers = {p1, p2}
    Consumers = {c1, c2}
    None = None
    m_max_size = 2
    MaxPushes = 4
PROPERTIES ImplementsFifo Drained
