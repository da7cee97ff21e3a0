SPECIFICATION Spec
CONSTANTS
    Headers = {2, 4}
    Files = {1, 2}
    MaxReplies = 3
CHECK_DEADLOCK FALSE
INVARIANTS SendsReply MappingLife
PROPERTIES SentInFull
