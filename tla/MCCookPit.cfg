\* Output, lid, ramp, alarms and probes, with the timer set over the wire and
\* by state fragments.
SPECIFICATION Spec
CONSTANTS
    NoReading      = NoReading
    RampWindow     = 300
    HoldMargin     = 50
    OpenDropRate   = 8
    V17ShutdownSet = 320
    StartReading   = 700
    Foods          = {"food1"}
    TickLengths    = {10}
    PitReadings    = {700, 1900, 2249}
    FoodReadings   = {1650, 1900}
    TimerValues    = {0, 1}
    CookSets       = {2250}
    FoodSets       = {1700}
    ControlValues <- PitControl
    Personas       = {"2.3"}
    TimerPaths     = {"wire", "fragment"}
    MaxWrites      = 3
INVARIANTS LidOpenOnlyBelowTarget RampStaysBetween AlarmsWaitForWarmUp
