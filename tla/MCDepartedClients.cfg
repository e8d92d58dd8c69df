\* A blackhole for one request, then a cap of one.
SPECIFICATION PlaneSpec
CONSTANTS
    food1           = food1
    Unlimited       = Unlimited
    RequestIds      = {"net.unreachable", "net.blackhole", "net.latency", "net.conn_cap",
                       "http.slowloris"}
    Probes          = {food1}
    Templates      <- Leaks
    StepLengths     = {2}
    BrownoutDefault = 4
    RebootDefault   = 4
    MaxAge          = 4
    MaxActivations  = 2
    MaxCalls        = 4
    Requests        = {1, 2}
    MaxConns        = 1
    Capacity        = 1
PROPERTY CapRefusesOnlyBeyond
