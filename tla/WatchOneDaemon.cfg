CONSTANTS
    Daemons = {d1}
    Containers = {c1, c2}
    Slots = {k1, k2}
    NoSlot = NoSlot
    NoContainer = NoContainer
    Threshold = 2
    MaxSpawns = 1
    PsOutcomes = {"listing", "nonzero_exit"}
SPECIFICATION Spec
SYMMETRY Symmetry
INVARIANTS
    OneListenerPerContainer
    NoOrphanListener
    ActiveAreKnown
PROPERTIES
    ForgottenOnlyWhenQuiet
    LifeSpec
    
