\* Overlapping outages with and without a reset, beside other faults.
SPECIFICATION FairSpec
CONSTANTS
    food1           = food1
    Unlimited       = Unlimited
    RequestIds      = {"http.error"}
    Probes          = {food1}
    Templates      <- OverlappingOutages
    StepLengths     = {2}
    BrownoutDefault = 6
    RebootDefault   = 4
    MaxAge          = 7
    MaxActivations  = 3
    MaxCalls        = 4
INVARIANTS TypeOK CountIsABudget OutageHasAnEnd ResetIsNotLost
PROPERTIES DeviceReturns
