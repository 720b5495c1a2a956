SPECIFICATION BenchSpec
CONSTANTS
    Nil = Nil
    Parts = {"reg", "hal", "lbt", "send", "polite", "sizes", "sx125x", "sx127x", "gps", "gpsPos"}
    Regs <- MCRegs
    FpgaRegs <- MCFpgaRegs
    Loregs <- MCLoregs
    Addrs <- MCAddrs
    Pages <- MCPages
    ByteBits = 3
    Chunk = 2
    Values <- MCValues
    Bursts <- MCBursts
    MaxFaults = 1
    OpenFaults = FALSE
    RfChains = {0, 1}
    MultiChains = {0}
    StdChain = 8
    FskChain = 9
    RfConfs <- MCRfConfs
    IfConfs <- MCIfConfs
    LutConfs <- MCLutConfs
    LutMax = 3
    DefaultLut <- MCDefaultLut
    Lbt = TRUE
    Restart = FALSE
    GainAtRun = FALSE
    FwFaults = FALSE
    LbtConfigs <- MCLbtConfigs
    StartFreq = 863000000
    ChannelNb = 3
    Grain = 2
    Wrap = 32
    Margin = 1
    MaxLong = 12
    MaxShort = 8
    MaxShort2 = 6
    TxStartDelay = 1
    LbtFreqs = {863200000, 863300000}
    Leads = {1, 4}
    Durations = {1, 4}
    MaxBusy = 4
    MaxRequests = 1
    TimeBursts <- MCTimeBursts
    PosBursts <- MCPosBursts
    Cps = 3
    Sub = 1
    Day = 4
    Epoch = 60
    CntMod = 11
    MaxPulses = 9
    PosTime = 4
    MaxLine = 2
INVARIANTS
    PageInStep
    RegistersSound
    RunsAsConfigured
    TalksWhenFree
PROPERTIES
    EmitsWhatWasSent
    RadiosSetUp
    GpsTimeSound
CHECK_DEADLOCK FALSE
