SPECIFICATION FairSpec
CONSTANTS
    default = default
    main = main
    lrgtable = lrgtable
    bgp = bgp
    lrg = lrg
    n1 = n1
    n2 = n2
    WorseToS = 0
    WorsePriority = 2
    WithBlackhole = {FALSE}
    Rival = FALSE
    TouchTarget = FALSE
    Prefix = {default}
    Prefix6 = {}
    Table = {main, lrgtable}
    Protocol = {bgp, lrg}
    NextHop = {n1, n2}
    Blackhole = Blackhole
    NoRoute = NoRoute
    Wildcard = Wildcard
    Configurations <- MCConfigurations
    QueueSize = 1
    InitialRib <- MCInitialRib
    External <- MCExternal
    MaxChanges = 2
    MaxOverflows = 1
    MaxListErrors = 1
    MaxRestarts = 1
INVARIANTS
    CandidatesFollowStream
    CandidatesAreKernels
    TargetIsInstalled
    GatewayRemains
    CurrentIsInstalled
    ExportedStateIsTrue
PROPERTY
    Converges
CHECK_DEADLOCK FALSE
