SPECIFICATION Spec
CONSTANTS
    default = default
    main = main
    lrgtable = main
    bgp = bgp
    lrg = lrg
    n1 = n1
    n2 = n2
    WorseToS = 0
    WorsePriority = 2
    WithBlackhole = {TRUE}
    Rival = FALSE
    TouchTarget = FALSE
    Prefix = {default}
    Prefix6 = {}
    Table = {main}
    Protocol = {bgp, lrg}
    NextHop = {n1, n2}
    Blackhole = Blackhole
    NoRoute = NoRoute
    Wildcard = Wildcard
    Configurations <- MCConfigurations
    QueueSize = 1
    InitialRib <- MCInitialRib
    External <- MCExternal
    MaxChanges = 2
    MaxOverflows = 0
    MaxListErrors = 0
    MaxRestarts = 0
PROPERTY BlackholeOnlyWhenMissing
CHECK_DEADLOCK FALSE
