\* An outage in force when the snapshot is taken.
SPECIFICATION SessionSpec
CONSTANTS
    food1           = food1
    Unlimited       = Unlimited
    NotNumber       = NotNumber
    NaN             = NaN
    PlusInf         = PlusInf
    MinusInf        = MinusInf
    NotHms          = NotHms
    RequestIds      = {}
    Probes          = {food1}
    Templates      <- ClientFaults
    StepLengths     = {1}
    BrownoutDefault = 2
    RebootDefault   = 2
    MaxAge          = 3
    MaxActivations  = 1
    MaxCalls        = 3
    Keys            = {"COOK_SET", "CYCTIME", "COOK_NAME"}
    Slots           = {"client"}
    Scenarios      <- TwoScenarios
    Speeds          = {0, 1, 2}
    Advances        = {1}
    Forms           = {}
    Writes          = {}
    Fragments       = {}
    Profiles        = {}
    Factory        <- FactoryDevice
    Demo           <- DemoDevice
    MaxNow          = 2
INVARIANT ExpiresOnTime
