\* A resetting brownout that fires with a probability below 1.
SPECIFICATION Spec
CONSTANTS
    food1           = food1
    Unlimited       = Unlimited
    RequestIds      = {}
    Probes          = {food1}
    Templates      <- LateBrownout
    StepLengths     = {2}
    BrownoutDefault = 6
    RebootDefault   = 4
    MaxAge          = 6
    MaxActivations  = 3
    MaxCalls        = 2
INVARIANT ResetIsNotLost
