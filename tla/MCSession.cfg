\* Two runners over one clock, with outages, restores and writes.
SPECIFICATION SessionFairSpec
CONSTANTS
    food1           = food1
    Unlimited       = Unlimited
    NotNumber       = NotNumber
    NaN             = NaN
    PlusInf         = PlusInf
    MinusInf        = MinusInf
    NotHms          = NotHms
    RequestIds      = {}
    Probes          = {food1}
    Templates      <- ClientFaults
    StepLengths     = {1}
    BrownoutDefault = 2
    RebootDefault   = 2
    MaxAge          = 3
    MaxActivations  = 1
    MaxCalls        = 3
    Keys            = {"COOK_SET", "CYCTIME", "COOK_NAME"}
    Slots           = {"admin", "client"}
    Scenarios      <- TwoScenarios
    Speeds          = {0, 1, 2}
    Advances        = {1}
    Forms          <- WireForms
    Writes         <- DirectWrites
    Fragments      <- PatchedFields
    Profiles       <- CookProfiles
    Factory        <- FactoryDevice
    Demo           <- DemoDevice
    MaxNow          = 2
INVARIANTS SessionTypeOK ResumeRuns StepsAreOnTime DeviceInRange OutageHasAnEnd
PROPERTIES FormsAreLastWins RunnersKeepTimelines ReturnsUnlessStopped
