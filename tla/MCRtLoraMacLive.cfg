SPECIFICATION FairSpec
CONSTANTS
    r1 = r1
    r2 = r2
    c = c
    NoAddr = NoAddr
    Addr = {r1, r2, c}
    MaxChildren = 1
    Demands = {1, 2, 3, 4, 5, 6}
    nboTotSlots = 4
    nboSchGroups = 2
    NboSlotsInSch1 = 1
    MaxNodesInSm = 2
    MaxRelaysInUsi = 1
    NboSchUpdateSd = 1
    NboSchUpdateDc = 1
    PhaseTransPeriod = 2
    RegistrationRequests <- Requests
    MaxRrs = 2
PROPERTY
    PhasesProceed
