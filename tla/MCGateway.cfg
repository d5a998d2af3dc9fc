SPECIFICATION ConfiguredSpec
CONSTANTS
    default = default
    other = other
    default6 = default6
    n1 = n1
    n2 = n2
    n6 = n6
    Prefix = {default, other, default6}
    Prefix6 = {default6}
    Table <- MCTable
    Protocol <- MCTable
    NextHop = {n1, n2, n6}
    NextHop6 = {n6}
    Blackhole = Blackhole
    NoRoute = NoRoute
    Wildcard = Wildcard
    BadPrefix = BadPrefix
    ipPlaceholder = ipPlaceholder
    NoPrefix = NoPrefix
    Failed = Failed
    MaxMetric = 9
    rt_tables <- MCLines
    rt_protos <- MCProtocols
    Documents <- MCDocuments
    Configurations <- MCConfigurations
    QueueSize = 1
    Update <- MCUpdate
INVARIANTS
    TypeOK
    CurrentTracksBest
    CurrentInToSlot
    CandidatesAreSources
    BlackholeNeverMissing
    OneRoutePerSlot
    BestIgnoresArrivalOrder
    SliceIsSet
    FollowsDocument
    FamilyKept
PROPERTIES
    LastRouteKept
    WantedRouteIsArmed
    ImplementsCandidateSlots
CHECK_DEADLOCK FALSE
