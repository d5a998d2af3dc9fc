SPECIFICATION Spec
CONSTANTS
    DecodesEmptyFirst = TRUE
    MaxReports = 0
    Exporters <- MCNoExporters
    N = 1
    QueueSize = 1
    SharedLoopVariables = FALSE
    Signals = {}
INVARIANT ValidFileIsAccepted
CHECK_DEADLOCK FALSE
