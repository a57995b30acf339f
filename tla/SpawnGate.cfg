CONSTANTS
    Spawners = {a, b, c, d}
    MaxSpawns = 2
SPECIFICATION FairSpec
INVARIANTS
    PermitsConserved
    NoLostWakeup
PROPERTIES
    FirstComeFirstServed
    NoStarvation
