SPECIFICATION FairSpec
CONSTANT MaxLines = 2
INVARIANTS
    LinesInOrder
    ReturnsWithEverything
    NothingOutlivesTheListener
PROPERTY ListenersEnd
