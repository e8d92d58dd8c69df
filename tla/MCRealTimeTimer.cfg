\* The background loop at speed 1: ticks of a tenth of a second.
SPECIFICATION FairSpec
CONSTANTS
    NoReading      = NoReading
    RampWindow     = 300
    HoldMargin     = 50
    OpenDropRate   = 8
    V17ShutdownSet = 320
    StartReading   = 700
    Foods          = {"food1"}
    TickLengths    = {1}
    PitReadings    = {700, 2300}
    FoodReadings   = {1800}
    TimerValues    = {3}
    CookSets       = {}
    FoodSets       = {}
    ControlValues <- TimerControl
    Personas       = {"2.3"}
    TimerPaths     = {"core"}
    MaxWrites      = 2
PROPERTY TimerExpires
