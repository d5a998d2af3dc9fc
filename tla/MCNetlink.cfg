SPECIFICATION FairSpec
CONSTANTS
    default = default
    default6 = default6
    main = main
    bgp = bgp
    n1 = n1
    n2 = n2
    Prefix = {default, default6}
    Prefix6 = {default6}
    Table = {main}
    Protocol = {bgp}
    NextHop = {n1, n2}
    Blackhole = Blackhole
    NoRoute = NoRoute
    Wildcard = Wildcard
    InitialRib <- MCInitialRib
    External <- MCExternal
    ChannelSize = 1
    SocketSize = 1
    MaxChanges = 2
    MaxOverflows = 1
    MaxErrors = 1
INVARIANTS
    TypeOK
    InjectorOwnsUpdates
    SomethingWillComeNext
    ViewIsRib
    NothingIsLost
PROPERTIES
    ImplementsRibStream
    EventuallyInSync
    StopEnds
CHECK_DEADLOCK FALSE
