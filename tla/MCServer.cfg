SPECIFICATION BenchSpec
CONSTANTS
    None = None
    Parts = {"main", "inbound", "phases", "stats", "weather"}
    Choices <- SomeChoices
    Check = 2
    Rotate = 4
    Hour = 2
    MaxFiles = 2
INVARIANTS
    LogBounded
    MacEndsFirst
PROPERTIES
    ServerEnds
    QueueIsFifo
    PhasesKept
    StatisticsTrue
    WeatherShown
CHECK_DEADLOCK FALSE
