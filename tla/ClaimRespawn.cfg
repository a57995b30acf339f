CONSTANTS
    Daemons = {d1}
    Containers = {c1}
    Slots = {k1}
    NoSlot = NoSlot
    NoContainer = NoContainer
    Threshold = 1
    MaxSpawns = 1
    PsOutcomes = {"listing", "nonzero_exit"}
SPECIFICATION FairSpec
PROPERTY EndedListenersAreRespawned
