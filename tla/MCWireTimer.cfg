\* The cook timer set by POST COOK_TIMER.
SPECIFICATION Spec
CONSTANTS
    NoReading      = NoReading
    RampWindow     = 300
    HoldMargin     = 50
    OpenDropRate   = 8
    V17ShutdownSet = 320
    StartReading   = 700
    Foods          = {"food1"}
    TickLengths    = {10}
    PitReadings    = {700, 2300}
    FoodReadings   = {1800}
    TimerValues    = {1}
    CookSets       = {}
    FoodSets       = {}
    ControlValues <- TimerControl
    Personas       = {"2.3"}
    TimerPaths     = {"wire"}
    MaxWrites      = 4
PROPERTY ExpiryIsReported
