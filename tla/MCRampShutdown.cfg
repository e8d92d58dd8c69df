\* Firmware 1.7 with COOK_RAMP following a food probe close to its setpoint.
SPECIFICATION Spec
CONSTANTS
    NoReading      = NoReading
    RampWindow     = 300
    HoldMargin     = 50
    OpenDropRate   = 8
    V17ShutdownSet = 320
    StartReading   = 700
    Foods          = {"food1"}
    TickLengths    = {10}
    PitReadings    = {700, 1800}
    FoodReadings   = {1700}
    TimerValues    = {1}
    CookSets       = {}
    FoodSets       = {}
    ControlValues <- TimerControl
    Personas       = {"1.7"}
    TimerPaths     = {"core"}
    MaxWrites      = 4
INVARIANT ShutdownLetsTheFireDie
