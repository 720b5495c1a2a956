SPECIFICATION BenchSpec
CONSTANTS
    Parts = {"receive", "times", "logger", "txtest"}
    FifoDepth = 3
    Packets <- FifoPackets
    StdBw = 250000
    FskDr = 50000
    MaxPkt = {1, 8}
    Width = 30
    MaxArrivals = 5
    MaxFaults = 2
INVARIANTS
    FetchedOnceInOrder
PROPERTIES
    FetchedWithTime
    LoggerSound
    TxTestSound
CHECK_DEADLOCK FALSE
