SPECIFICATION FairSystemSpec
CONSTANTS
    Source = "proc"
    NoSample = NoSample
    MaxTicks = 4
    MaxBoots = 1
    MaxRestarts = 1
INVARIANTS
    
    PercentIsThere
 
