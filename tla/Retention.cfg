SPECIFICATION FairSpec
CONSTANTS
    d1 = d1
    d2 = d2
    Configured <- OneDaemon
    Others = {d2}
    RetentionDays = 2
    MetricsRetentionDays = 1
    Unset = unset
    MaxNow = 4
    MaxEntries = 1
    MaxStops = 1
INVARIANTS
    TypeOK
PROPERTIES
    OnlyExpiredEntriesGo
    ExpiredEntriesGo
