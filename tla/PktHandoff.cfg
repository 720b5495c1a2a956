\* The outbound queue, two messages long.
SPECIFICATION FairSpec
CONSTANTS
    Cells = {c1, c2, c3}
    NULL = NULL
    PKT_QUEUE_MAX = 2
    Msgs = {m1, m2, m3}
    NoMsg = NoMsg
    EnqueuesUnderLock = FALSE
    DrainsQueue = FALSE
PROPERTIES
    ImplementsFifo
    EveryMsgTaken
