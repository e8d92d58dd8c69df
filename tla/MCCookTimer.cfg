\* The cook timer set by Simulation.apply_write, in whole-second ticks.
SPECIFICATION FairSpec
CONSTANTS
    NoReading      = NoReading
    RampWindow     = 300
    HoldMargin     = 50
    OpenDropRate   = 8
    V17ShutdownSet = 320
    StartReading   = 700
    Foods          = {"food1"}
    TickLengths    = {10, 20}
    PitReadings    = {700, 2300}
    FoodReadings   = {1800}
    TimerValues    = {0, 1, 3}
    CookSets       = {2250}
    FoodSets       = {}
    ControlValues <- TimerControl
    Personas       = {"1.7", "2.3"}
    TimerPaths     = {"core"}
    MaxWrites      = 4
INVARIANTS TypeOK TimerKeepsSimTime FanOffWhileShutDown ShutdownEndsWithItsTimer
           ForcedSetpointStands
PROPERTIES ExpiryIsReported AlarmStays SetpointMovesForACause TimerExpires
