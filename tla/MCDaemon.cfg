SPECIFICATION FairSpec
CONSTANTS
    DecodesEmptyFirst = FALSE
    MaxReports = 1
    Exporters <- MCExporters
    N = 3
    QueueSize = 2
    SharedLoopVariables = FALSE
    Signals = {"HUP", "TERM"}
INVARIANTS
    TypeOK
    UsersStopFirst
    AtMostOneLate
    NothingLeftOpen
    NothingAfterClose
PROPERTY
    SignalEnds
CHECK_DEADLOCK FALSE
