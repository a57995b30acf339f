SPECIFICATION FairSpec
CONSTANTS
    Polls = {p1, p2}
    Listeners = {c1, c2}
INVARIANTS
    NothingOutlivesTheProcess
    OnlyFailuresSkipTheFlush
PROPERTY ShutdownEnds
