SPECIFICATION BenchSpec
CONSTANTS
    Parts = {"jit"}
    None = None
    BROKEN = BROKEN
    Invalid = Invalid
    NoPkt = NoPkt
    TicksPerSec = 18
    Epoch = 30
    TX_START_DELAY = 1
    TX_MARGIN_DELAY = 1
    TX_JIT_DELAY = 2
    TX_MAX_ADVANCE_DELAY = 24
    TX_DEVIATION_THRESHOLD = 1
    Word = 4096
    SleepTicks = 2
    Pkts = {p1, p2}
    JIT_QUEUE_MAX = 2
    TxTimes = {5, 11}
    AirTimes = {1}
    Horizon = 16
    Pace = "bursty"
    PerSec = 3
    Base = 10
    Shifts = {0, 1, 2, 5}
    Tolerance = 1
    Wait = 2
    Short = 1
    Long = 3
    Tokens = 9
    Prompt = TRUE
    MaxTime = 6
    Files <- MCFiles
    LGW_RF_CHAIN_NB = 2
    LGW_MULTI_NB = 2
    LutMax = 4
    CanFail = FALSE
PROPERTIES
    NotSentEarly
SYMMETRY Symmetry
CHECK_DEADLOCK FALSE
