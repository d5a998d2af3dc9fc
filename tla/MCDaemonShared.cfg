SPECIFICATION Spec
CONSTANTS
    DecodesEmptyFirst = FALSE
    MaxReports = 0
    Exporters <- MCNoExporters
    N = 2
    QueueSize = 1
    SharedLoopVariables = TRUE
    Signals = {}
INVARIANT EachGatewayMaintained
CHECK_DEADLOCK FALSE
