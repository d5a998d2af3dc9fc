SPECIFICATION FairSpec
CONSTANTS
    default = default
    main = main
    lrgtable = main
    bgp = bgp
    lrg = lrg
    n1 = n1
    n2 = n2
    WorseToS = 1
    WorsePriority = 1
    WithBlackhole = {TRUE, FALSE}
    Rival = TRUE
    TouchTarget = TRUE
    Prefix = {default}
    Prefix6 = {}
    Table = {main}
    Protocol = {bgp, lrg}
    NextHop = {n1, n2}
    Blackhole = Blackhole
    NoRoute = NoRoute
    Wildcard = Wildcard
    Configurations <- MCConfigurations
    QueueSize = 1
    InitialRib <- MCInitialRib
    External <- MCExternal
    MaxChanges = 3
    MaxOverflows = 0
    MaxListErrors = 0
    MaxRestarts = 0
INVARIANTS
    TypeOK
    TargetIsInstalled
    CurrentIsReal
    SourcesAreCandidates
PROPERTIES
    Converges
    WritesItsSlotOnly
CHECK_DEADLOCK FALSE
