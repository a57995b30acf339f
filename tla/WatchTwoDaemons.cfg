CONSTANTS
    Daemons = {d1, d2}
    Containers = {c1}
    Slots = {k1}
    NoSlot = NoSlot
    NoContainer = NoContainer
    Threshold = 1
    MaxSpawns = 1
    PsOutcomes = {"listing", "nonzero_exit", "missing_key"}
SPECIFICATION FairSpec
INVARIANTS
    SpawnMeetsNoRival
PROPERTIES
    GateSpec
    NewContainersGetAListener
    VanishedAreStopped
