\* Two groups of four slots, four nodes, demands of one slot to relay size.
SPECIFICATION Spec
CONSTANTS
    n1 = n1
    n2 = n2
    n3 = n3
    n4 = n4
    Addr = {n1, n2, n3, n4}
    nboTotSlots = 4
    Demands = {1, 2, 3}
    nboSchGroups = 2
    NboSlotsInSch1 = 2
    MaxNodesInSm = 1
    MaxRelaysInUsi = 2
    NboSchUpdateSd = 1
    NboSchUpdateDc = 2
SYMMETRY Symmetry
INVARIANTS
    SlotsDisjoint
    ScheduledOnce
    SchedulesSound
PROPERTY
    SlotsKept
