\* A probe.open fault with a duration (docs/scenarios.md, Probe drama).
SPECIFICATION Spec
CONSTANTS
    food1           = food1
    Unlimited       = Unlimited
    RequestIds      = {}
    Probes          = {food1}
    Templates      <- ProbeDrama
    StepLengths     = {2}
    BrownoutDefault = 6
    RebootDefault   = 4
    MaxAge          = 6
    MaxActivations  = 3
    MaxCalls        = 1
INVARIANT ProbeHeals
