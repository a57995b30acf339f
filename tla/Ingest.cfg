SPECIFICATION FairSpec
CONSTANTS
    Streams = {s1, s2}
    Malformed = malformed
    BatchSize = 2
    MaxSent = 4
    MaxFaults = 2
INVARIANTS
    ArrivalOrderKept
PROPERTIES
    ChannelSpec
    LossNeedsAFault
    EveryRecordIsSettled
