SPECIFICATION FairSpec
CONSTANTS
    DecodesEmptyFirst = FALSE
    MaxReports = 0
    Exporters <- MCNoExporters
    N = 1
    QueueSize = 1
    SharedLoopVariables = FALSE
    Signals = {"TERM"}
PROPERTY StopReturns
CHECK_DEADLOCK FALSE
