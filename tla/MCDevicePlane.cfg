\* Three requests that overlap, under a cap of one, through an outage, and a ring
\* of two.
SPECIFICATION PlaneFairSpec
CONSTANTS
    food1           = food1
    Unlimited       = Unlimited
    RequestIds      = {"net.unreachable", "net.blackhole", "net.latency", "net.conn_cap",
                       "http.slowloris"}
    Probes          = {food1}
    Templates      <- Overlaps
    StepLengths     = {2}
    BrownoutDefault = 4
    RebootDefault   = 4
    MaxAge          = 4
    MaxActivations  = 2
    MaxCalls        = 4
    Requests        = {1, 2, 3}
    MaxConns        = 1
    Capacity        = 2
INVARIANTS PlaneTypeOK OpenConnsAreTasks CapHolds JournalCountsEach JournalIsTheLatest
PROPERTIES DelayedIsAnswered
ACTION_CONSTRAINT OnlyThePlane
