--------------------------- MODULE CookController ---------------------------
(***************************************************************************)
(* The cook controller of the virtual CyberQ: the cook timer with its      *)
(* TIMEOUT_ACTION, the ramped setpoint, open-lid detection, fan output,    *)
(* alarms and statuses that one control tick computes (core/control.py),   *)
(* and every call that writes the state the tick reads: the wire POST      *)
(* (xml/post_parse.py), Simulation.apply_write and the convenience calls   *)
(* (core/simulation.py) and the raw state fragments of scenarios and       *)
(* PATCH /state (scenario/runner.py).                                      *)
(*                                                                         *)
(* The thermal models are the environment: a tick reads any pit and meat   *)
(* temperature of a given set.  Sensor and power faults are not part of    *)
(* this module.  `pit.lidOpen` stands for SimState.lid_open and            *)
(* PitThermal.lid_open, which every step and reset leaves equal.           *)
(***************************************************************************)
EXTENDS ControlLaw

CONSTANTS
    Foods,          \* the food probes, a subset of food1..food3
    TickLengths,    \* dt of a sub-step, tenths of a simulated second
    PitReadings,    \* what PitThermal may read, tenths degF
    FoodReadings,   \* what MeatThermal may read, tenths degF
    TimerValues,    \* whole seconds a cook timer may be set to
    CookSets,       \* pit setpoints that may be written
    FoodSets,       \* food setpoints that may be written
    ControlValues,  \* what each field of the CONTROL block may be set to
    Personas,       \* firmware versions, a subset of 1.7 and 2.3
    TimerPaths,     \* which of the three ways to write the timer are used;
                    \* with "fragment", probes are patched as well
    V17ShutdownSet, \* ControlConstants.v17_shutdown_set_tenths
    StartReading,   \* PitProfile.start_f, tenths degF
    MaxWrites       \* bound on the calls made between Init and the end

TimeoutActions == {"NO_ACTION", "HOLD", "ALARM", "SHUTDOWN"}
TimerStatuses  == {"OK", "HOLD", "ALARM", "SHUTDOWN"}
CookStatuses   == {"OK", "HIGH", "LOW", "ERROR", "HOLD"}
FoodStatuses   == {"OK", "DONE", "ERROR"}
ProbeReading   == Int \cup {NoReading}

DemoFoodSet == [food1 |-> 1550, food2 |-> 1800, food3 |-> 1600]

TimerType == [remaining : Nat, running : BOOLEAN, status : TimerStatuses]
LatchType == [hold : BOOLEAN, shutdown : BOOLEAN]
CookType  == [temp : ProbeReading, set : Int, status : CookStatuses, connected : BOOLEAN]
FoodType  == [temp : ProbeReading, set : Int, status : FoodStatuses, connected : BOOLEAN,
              meat : BOOLEAN]
PitType   == [armed : BOOLEAN, lidOpen : BOOLEAN, prev : Int]
ControlType ==
    [timeoutAction : TimeoutActions, ramp : Foods \cup {"OFF"},
     opendetect : BOOLEAN, cookhold : Int, alarmdev : Int, propband : Int]

ASSUME CookControllerAssumption ==
    /\ Foods \subseteq DOMAIN DemoFoodSet
    /\ TickLengths \subseteq Nat \ {0}
    /\ PitReadings \subseteq Int /\ FoodReadings \subseteq Int
    /\ CookSets \subseteq Int /\ FoodSets \subseteq Int
    /\ TimerValues \subseteq Nat
    /\ ControlValues \in
         [timeoutAction : SUBSET TimeoutActions, ramp : SUBSET (Foods \cup {"OFF"}),
          opendetect : SUBSET BOOLEAN, cookhold : SUBSET Int, alarmdev : SUBSET Int,
          propband : SUBSET Int]
    /\ Personas \subseteq {"1.7", "2.3"}
    /\ TimerPaths \subseteq {"wire", "core", "fragment"}
    /\ V17ShutdownSet \in Int /\ StartReading \in Int
    /\ MaxWrites \in Nat

VARIABLES
    timer,    \* DeviceState.timer
    latch,    \* SimState.timeout_hold_active and timeout_shutdown_active
    cook,     \* DeviceState.cook
    food,     \* DeviceState.food1..food3, and whether a meat model drives each
    control,  \* DeviceState.control
    pit,      \* SimState.cook_armed and lid_open, Simulation._prev_cook_temp_tenths
    fwver,    \* DeviceState.fwver
    output,   \* DeviceState.output_percent
    history   \* no part of the program: what the properties remember

vars == <<timer, latch, cook, food, control, pit, fwver, output, history>>

NoLatch   == [hold |-> FALSE, shutdown |-> FALSE]
FreshPit(reading) == [armed |-> FALSE, lidOpen |-> FALSE, prev |-> reading]

\* get_persona(fwver).shutdown_fan_off
ShutdownIsFanOff(version) == version # "1.7"

-----------------------------------------------------------------------------
(* What the properties remember: whether the last step was a tick, which    *)
(* TIMEOUT_ACTION the last expiry applied (until a new countdown, a clear,   *)
(* a reset or a new profile), the simulated tenths of a second until the     *)
(* running countdown is due, whether a 1.7 SHUTDOWN was the last to set      *)
(* COOK_SET, whether a tick has found a plugged pit within ALARMDEV of the   *)
(* setpoint aimed at, since the start, a reset or a new profile, and how     *)
(* many calls have been made.                                                *)

HistoryType == [settled : BOOLEAN, expiredAs : TimeoutActions \cup {"NONE"}, due : Nat,
                forced : BOOLEAN, warm : BOOLEAN, writes : 0..MaxWrites]

\* A call other than a tick.  It may end an expiry, set a countdown or COOK_SET,
\* or start with a pit that has not been warm.
Write(expiredAs, due, forced, warm) ==
    /\ history.writes < MaxWrites
    /\ history' = [settled   |-> FALSE,
                   expiredAs |-> expiredAs,
                   due       |-> due,
                   forced    |-> forced,
                   warm      |-> warm,
                   writes    |-> history.writes + 1]

PlainWrite == Write(history.expiredAs, history.due, history.forced, history.warm)

\* What a write that sets the countdown to s seconds leaves to remember.
CountdownWrite(s) ==
    Write(IF s > 0 THEN "NONE" ELSE history.expiredAs, 10 * s, history.forced, history.warm)

-----------------------------------------------------------------------------
\* factory_control
FactoryControl ==
    [timeoutAction |-> "NO_ACTION", ramp |-> "OFF", opendetect |-> TRUE,
     cookhold |-> 2000, alarmdev |-> 500, propband |-> 300]

FactoryFood == [f \in Foods |-> [temp |-> NoReading, set |-> 1800,
                                 status |-> "OK", connected |-> TRUE, meat |-> FALSE]]

\* demo_state differs from factory_state, names aside, in the food setpoints.
DemoFood == [f \in Foods |-> [FactoryFood[f] EXCEPT !.set = DemoFoodSet[f]]]

IdleTimer == [remaining |-> 0, running |-> FALSE, status |-> "OK"]

FactoryCook == [temp |-> StartReading, set |-> 2750, status |-> "OK", connected |-> TRUE]

\* Simulation.__init__ on factory_state(fwver), with _sync_probe_from_pit.
Init ==
    /\ timer = IdleTimer
    /\ latch = NoLatch
    /\ cook = FactoryCook
    /\ food = FactoryFood
    /\ control = FactoryControl
    /\ pit = FreshPit(StartReading)
    /\ fwver \in Personas
    /\ output = 0
    /\ history = [settled |-> FALSE, expiredAs |-> "NONE", due |-> 0, forced |-> FALSE,
                  warm |-> FALSE, writes |-> 0]

-----------------------------------------------------------------------------
\* _advance_timer counts only then.
Counting == timer.running /\ timer.remaining > 0

\* Mutant: one second a tick, however long the tick.
RemainingLessOne(dt) ==
    IF timer.remaining > 1 THEN timer.remaining - 1 ELSE 0

\* Mutant: clamped at 1.
RemainingAtLeastOne(dt) ==
    LET r == RoundHalfEven(10 * timer.remaining - dt, 10)
    IN  IF r > 1 THEN r ELSE 1

\* max(0, round(remaining_s - dt))
RemainingAfter(dt) ==
    LET r == RoundHalfEven(10 * timer.remaining - dt, 10)
    IN  IF r > 0 THEN r ELSE 0

Expires(dt) == Counting /\ RemainingAfter(dt) = 0

ExpiresAs(dt, action) == Expires(dt) /\ control.timeoutAction = action

\* Mutant: SHUTDOWN drops the setpoint on no firmware version.
SetAfterTimerHoldOnly(dt) ==
    IF ExpiresAs(dt, "HOLD") THEN control.cookhold ELSE cook.set

\* Mutant: SHUTDOWN drops the setpoint on every firmware version.
SetAfterTimerAnyVersion(dt) ==
    IF ExpiresAs(dt, "HOLD") THEN control.cookhold
    ELSE IF ExpiresAs(dt, "SHUTDOWN") THEN V17ShutdownSet
    ELSE cook.set

\* _apply_timeout_action: COOK_SET after the timer part of a tick.
SetAfterTimer(dt) ==
    IF ExpiresAs(dt, "HOLD") THEN control.cookhold
    ELSE IF ExpiresAs(dt, "SHUTDOWN") /\ ~ShutdownIsFanOff(fwver) THEN V17ShutdownSet
    ELSE cook.set

\* Mutant: an ALARM expiry is not reported.
TimerStatusWithoutAlarm(running, remaining, latched, alarming) ==
    IF running \/ remaining > 0  THEN "OK"
    ELSE IF latched.shutdown     THEN "SHUTDOWN"
    ELSE IF latched.hold         THEN "HOLD"
    ELSE "OK"

\* _update_timer_status
TimerStatus(running, remaining, latched, alarming) ==
    IF running \/ remaining > 0                          THEN "OK"
    ELSE IF latched.shutdown                             THEN "SHUTDOWN"
    ELSE IF latched.hold                                 THEN "HOLD"
    ELSE IF control.timeoutAction = "ALARM" /\ alarming  THEN "ALARM"
    ELSE "OK"

\* _advance_timer, with the timeout action's latches and the timer status.
AdvanceTimer(dt) ==
    LET remaining == IF Counting THEN RemainingAfter(dt) ELSE timer.remaining
        running   == timer.running /\ ~Expires(dt)
    IN  /\ latch' = [hold     |-> latch.hold \/ ExpiresAs(dt, "HOLD"),
                     shutdown |-> latch.shutdown \/ ExpiresAs(dt, "SHUTDOWN")]
        /\ timer' = [remaining |-> remaining,
                     running   |-> running,
                     status    |-> TimerStatus(running, remaining, latch',
                                     timer.status = "ALARM" \/ ExpiresAs(dt, "ALARM"))]

\* The meat step and the food statuses: only a connected probe with a meat
\* model gets a new reading.
ReadFoods(reading) ==
    food' = [f \in Foods |->
        LET temp == IF food[f].meat /\ food[f].connected THEN reading[f] ELSE food[f].temp
        IN  [food[f] EXCEPT !.temp   = temp,
                            !.status = FoodStatus(food[f].connected, temp, food[f].set)]]

\* The tick reads a plugged pit within ALARMDEV of the setpoint it aims at.
WarmPit(dt, reading) ==
    LET target == EffectiveCookSet(SetAfterTimer(dt), control.ramp, food')
    IN  cook.connected /\ reading >= target - control.alarmdev

\* One powered sub-step of dt: thermal step, then control_tick.
Tick(dt, reading, foodReading) ==
    /\ AdvanceTimer(dt)
    /\ ReadFoods(foodReading)
    /\ LET set    == SetAfterTimer(dt)
           target == EffectiveCookSet(set, control.ramp, food')
           lid    == LidOpenAfter(pit.lidOpen, control.opendetect, reading, pit.prev,
                                  dt, target)
           armed  == pit.armed \/ (cook.connected /\ reading >= target - control.alarmdev)
       IN  /\ pit' = [armed |-> armed, lidOpen |-> lid, prev |-> reading]
           /\ output' = IF (latch'.shutdown /\ ShutdownIsFanOff(fwver)) \/ lid
                        THEN 0
                        ELSE OutputPercent(reading, target, control.propband)
           /\ cook' = [cook EXCEPT
                !.temp   = reading,
                !.set    = set,
                !.status = CookStatus(cook.connected, reading, set, control.alarmdev,
                                      armed, lid, latch'.hold)]
    /\ history' = [history EXCEPT
         !.settled   = TRUE,
         !.expiredAs = IF Expires(dt) THEN control.timeoutAction ELSE @,
         !.due       = IF ~Counting THEN @ ELSE IF @ > dt THEN @ - dt ELSE 0,
         !.forced    = \/ @ /\ ~ExpiresAs(dt, "HOLD")
                       \/ ExpiresAs(dt, "SHUTDOWN") /\ ~ShutdownIsFanOff(fwver),
         !.warm      = @ \/ WarmPit(dt, reading)]
    /\ UNCHANGED <<control, fwver>>

-----------------------------------------------------------------------------
(* The three ways to write the cook timer. *)

\* xml/post_parse.py _apply_timer: POST COOK_TIMER on the device port.
PostTimer(s) ==
    /\ "wire" \in TimerPaths
    /\ CountdownWrite(s)
    /\ timer' = [timer EXCEPT !.remaining = s, !.running = s > 0]
    /\ UNCHANGED <<latch, cook, food, control, pit, fwver, output>>

\* Mutant: a new countdown leaves the latches of the last one.
ApplyTimerKeepsLatch(s) ==
    /\ "core" \in TimerPaths
    /\ CountdownWrite(s)
    /\ timer' = [remaining |-> s, running |-> s > 0,
                 status |-> IF s > 0 THEN "OK" ELSE timer.status]
    /\ UNCHANGED <<latch, cook, food, control, pit, fwver, output>>

\* Mutant: stopping the timer clears the latches as well.
ApplyTimerAlwaysClears(s) ==
    /\ "core" \in TimerPaths
    /\ CountdownWrite(s)
    /\ timer' = [remaining |-> s, running |-> s > 0, status |-> "OK"]
    /\ latch' = NoLatch
    /\ UNCHANGED <<cook, food, control, pit, fwver, output>>

\* Mutant: a new countdown leaves the status of the last one.
ApplyTimerKeepsStatus(s) ==
    /\ "core" \in TimerPaths
    /\ CountdownWrite(s)
    /\ timer' = [timer EXCEPT !.remaining = s, !.running = s > 0]
    /\ latch' = IF s > 0 THEN NoLatch ELSE latch
    /\ UNCHANGED <<cook, food, control, pit, fwver, output>>

\* Simulation._apply_timer: apply_write("COOK_TIMER", ...).
ApplyTimer(s) ==
    /\ "core" \in TimerPaths
    /\ CountdownWrite(s)
    /\ timer' = [remaining |-> s, running |-> s > 0,
                 status |-> IF s > 0 THEN "OK" ELSE timer.status]
    /\ latch' = IF s > 0 THEN NoLatch ELSE latch
    /\ UNCHANGED <<cook, food, control, pit, fwver, output>>

\* scenario/runner.py _apply_timer_fragment: any of the three fields.
PatchTimer ==
    /\ "fragment" \in TimerPaths
    /\ \/ \E s \in TimerValues :
            /\ CountdownWrite(s)
            /\ timer' = [timer EXCEPT !.remaining = s, !.running = s > 0]
       \/ \E running \in BOOLEAN :
            /\ PlainWrite
            /\ timer' = [timer EXCEPT !.running = running]
       \/ \E status \in TimerStatuses :
            /\ PlainWrite
            /\ timer' = [timer EXCEPT !.status = status]
    /\ UNCHANGED <<latch, cook, food, control, pit, fwver, output>>

-----------------------------------------------------------------------------
(* Setpoints and the CONTROL block: the three write paths agree on these. *)

WriteCookSet(set) ==
    /\ Write(history.expiredAs, history.due, FALSE, history.warm)
    /\ cook' = [cook EXCEPT !.set = set]
    /\ UNCHANGED <<timer, latch, food, control, pit, fwver, output>>

WriteFoodSet(f, set) ==
    /\ PlainWrite
    /\ food' = [food EXCEPT ![f].set = set]
    /\ UNCHANGED <<timer, latch, cook, control, pit, fwver, output>>

WriteControl ==
    /\ PlainWrite
    /\ \E field \in DOMAIN ControlValues : \E value \in ControlValues[field] :
          control' = [control EXCEPT ![field] = value]
    /\ UNCHANGED <<timer, latch, cook, food, pit, fwver, output>>

\* clear_alarms
ClearAlarms ==
    /\ Write("NONE", history.due, history.forced, history.warm)
    /\ latch' = NoLatch
    /\ timer' = [timer EXCEPT !.status = "OK", !.running = timer.remaining > 0]
    /\ UNCHANGED <<cook, food, control, pit, fwver, output>>

SetPersona(version) ==
    /\ PlainWrite
    /\ fwver' = version
    /\ UNCHANGED <<timer, latch, cook, food, control, pit, output>>

-----------------------------------------------------------------------------
(* Probes, profiles and resets. *)

\* set_pit_temp_f
SetPitTemp(reading) ==
    /\ PlainWrite
    /\ cook' = [cook EXCEPT !.temp = reading]
    /\ pit' = [pit EXCEPT !.prev = reading]
    /\ UNCHANGED <<timer, latch, food, control, fwver, output>>

\* set_food_temp_f
SetFoodTemp(f, reading) ==
    /\ PlainWrite
    /\ food' = [food EXCEPT ![f].temp = reading]
    /\ UNCHANGED <<timer, latch, cook, control, pit, fwver, output>>

\* An open probe, and one reconnected before its next reading.
Unplugged(probe) ==
    [probe EXCEPT !.connected = FALSE, !.temp = NoReading, !.status = "ERROR"]
PluggedIn(probe) == [probe EXCEPT !.connected = TRUE, !.status = "OK"]

\* disconnect_probe
DisconnectProbe ==
    /\ PlainWrite
    /\ \/ cook' = Unplugged(cook) /\ UNCHANGED food
       \/ /\ \E f \in Foods : food' = [food EXCEPT ![f] = Unplugged(@)]
          /\ UNCHANGED cook
    /\ UNCHANGED <<timer, latch, control, pit, fwver, output>>

\* reconnect_probe
ReconnectProbe ==
    /\ PlainWrite
    /\ \/ cook' = PluggedIn(cook) /\ UNCHANGED food
       \/ /\ \E f \in Foods : food' = [food EXCEPT ![f] = PluggedIn(@)]
          /\ UNCHANGED cook
    /\ UNCHANGED <<timer, latch, control, pit, fwver, output>>

\* The probes one field of a raw probe fragment can leave.
Patched(probe, readings, statuses) ==
    {[probe EXCEPT !.connected = connected] : connected \in BOOLEAN}
        \cup {[probe EXCEPT !.temp = temp] : temp \in readings \cup {NoReading}}
        \cup {[probe EXCEPT !.status = status] : status \in statuses}

\* scenario/runner.py _apply_probe_fragment; its setpoint is WriteCookSet's and
\* WriteFoodSet's.
PatchProbe ==
    /\ "fragment" \in TimerPaths
    /\ PlainWrite
    /\ \/ cook' \in Patched(cook, PitReadings, CookStatuses) /\ UNCHANGED food
       \/ /\ \E f \in Foods :
               \E probe \in Patched(food[f], FoodReadings, FoodStatuses) :
                  food' = [food EXCEPT ![f] = probe]
          /\ UNCHANGED cook
    /\ UNCHANGED <<timer, latch, control, pit, fwver, output>>

\* set_food_profile, for the foods of a profile, plugged in or not.
ProfileFoods(foodSet, meatStart, plugged, unplugged) ==
    [f \in Foods |->
        IF f \in plugged
        THEN [food[f] EXCEPT !.set = foodSet, !.connected = TRUE, !.temp = meatStart,
                             !.meat = TRUE]
        ELSE IF f \in unplugged
        THEN [Unplugged(food[f]) EXCEPT !.set = foodSet, !.meat = FALSE]
        ELSE food[f]]

\* Mutant: a new pit is as armed as the last.
LoadProfileStaysArmed(set, start, foodSet, meatStart, plugged, unplugged) ==
    /\ plugged \cap unplugged = {}
    /\ Write("NONE", history.due, FALSE, FALSE)
    /\ cook' = [cook EXCEPT !.set = set, !.temp = start]
    /\ latch' = NoLatch
    /\ pit' = [FreshPit(start) EXCEPT !.armed = pit.armed]
    /\ food' = ProfileFoods(foodSet, meatStart, plugged, unplugged)
    /\ UNCHANGED <<timer, control, fwver, output>>

\* set_profile: a new pit at its start temperature, a fresh SimState, and for
\* each food the profile names, set_food_profile.
LoadProfile(set, start, foodSet, meatStart, plugged, unplugged) ==
    /\ plugged \cap unplugged = {}
    /\ Write("NONE", history.due, FALSE, FALSE)
    /\ cook' = [cook EXCEPT !.set = set, !.temp = start]
    /\ latch' = NoLatch
    /\ pit' = FreshPit(start)
    /\ food' = ProfileFoods(foodSet, meatStart, plugged, unplugged)
    /\ UNCHANGED <<timer, control, fwver, output>>

\* reset("factory" | "demo"), _reset_to; a power return that resets does the
\* same, to the factory state.
Reset ==
    /\ Write("NONE", 0, FALSE, FALSE)
    /\ timer' = IdleTimer
    /\ latch' = NoLatch
    /\ cook' = FactoryCook
    /\ food' \in {FactoryFood, DemoFood}
    /\ control' = FactoryControl
    /\ pit' = FreshPit(StartReading)
    /\ output' = 0
    /\ UNCHANGED fwver

-----------------------------------------------------------------------------
Ticks ==
    \E dt \in TickLengths, reading \in PitReadings :
        \E foodReading \in [Foods -> FoodReadings] : Tick(dt, reading, foodReading)

Next ==
    \/ Ticks
    \/ \E s \in TimerValues : PostTimer(s) \/ ApplyTimer(s)
    \/ PatchTimer
    \/ \E set \in CookSets : WriteCookSet(set)
    \/ \E f \in Foods, set \in FoodSets : WriteFoodSet(f, set)
    \/ WriteControl
    \/ ClearAlarms
    \/ \E version \in Personas : SetPersona(version)
    \/ \E reading \in PitReadings : SetPitTemp(reading)
    \/ \E f \in Foods, reading \in FoodReadings : SetFoodTemp(f, reading)
    \/ DisconnectProbe
    \/ ReconnectProbe
    \/ PatchProbe
    \/ \E set \in CookSets, start \in PitReadings, foodSet \in FoodSets,
          meatStart \in FoodReadings, plugged, unplugged \in SUBSET Foods :
             LoadProfile(set, start, foodSet, meatStart, plugged, unplugged)
    \/ Reset

Spec == Init /\ [][Next]_vars

\* The background loop keeps ticking while the clock is not frozen.
FairSpec == Spec /\ WF_vars(Ticks)

-----------------------------------------------------------------------------
TypeOK ==
    /\ timer \in TimerType
    /\ latch \in LatchType
    /\ cook \in CookType
    /\ food \in [Foods -> FoodType]
    /\ control \in ControlType
    /\ pit \in PitType
    /\ fwver \in Personas
    /\ output \in Percent
    /\ history \in HistoryType

Target == EffectiveCookSet(cook.set, control.ramp, food)

\* A running countdown has exactly the simulated time left that it was given
\* less what has passed (control.py:208, "Count the cook timer down"), however
\* the clock speed cuts the time into whole-second ticks.
TimerKeepsSimTime == Counting => 10 * timer.remaining = history.due

\* PROTOCOL 11.2: TIMER_STATUS names the action of the countdown that has just
\* expired, not that of an earlier one.
ReportOf(action) == IF action = "NO_ACTION" THEN "OK" ELSE action

ExpiryIsReported ==
    [][ (Counting /\ history'.settled /\ ~timer'.running /\ timer'.remaining = 0)
          => timer'.status = ReportOf(control.timeoutAction) ]_vars

\* No tick takes an ALARM away, whatever else was written meanwhile, as long as
\* it finds TIMEOUT_ACTION at ALARM (control.py:242, "ALARM reads ALARM until an
\* admin clear"); where TIMEOUT_ACTION was changed the alarm is forgotten.
AlarmStays ==
    [][ (timer.status = "ALARM" /\ control.timeoutAction = "ALARM" /\ history'.settled)
          => timer'.status = "ALARM" ]_vars

\* From 2.3 on, a SHUTDOWN expiry keeps the fan off through every later tick
\* and write, until an operator clears it, sets a new countdown, loads a
\* profile or resets (control.py:188).
FanOffWhileShutDown ==
    (history.settled /\ history.expiredAs = "SHUTDOWN" /\ ShutdownIsFanOff(fwver))
        => output = 0

\* A shutdown does not outlive the countdown that fired it: with any other
\* expiry, or none, a pit a full band too cold gets full fan (the latches are
\* cleared where a new countdown is set, simulation.py:356).
ShutdownEndsWithItsTimer ==
    (/\ history.settled
     /\ history.expiredAs # "SHUTDOWN"
     /\ ~pit.lidOpen
     /\ cook.temp <= Target - control.propband
     /\ control.propband > 0)
        => output = 100

\* The setpoint a 1.7 SHUTDOWN forces outlives clears, countdowns, persona changes
\* and ticks until somebody sets another, and while it stands only COOK_RAMP can
\* blow on a pit that is not below it (control.py:229).
ForcedSetpointStands ==
    history.forced =>
        /\ cook.set = V17ShutdownSet
        /\ (history.settled /\ cook.temp >= V17ShutdownSet /\ output > 0)
              => control.ramp # "OFF" /\ Target > V17ShutdownSet

\* On 1.7 a SHUTDOWN expiry leaves the fire to die: at or above the 32 degree
\* setpoint it forces, the fan is off (control.py:229).
ShutdownLetsTheFireDie ==
    (/\ history.settled
     /\ history.expiredAs = "SHUTDOWN"
     /\ cook.set = V17ShutdownSet
     /\ cook.temp >= V17ShutdownSet)
        => output = 0

\* A tick moves the stored COOK_SET only when a countdown expires in it, and
\* only as the timeout action says; COOK_RAMP never writes it (control.py:109).
SetpointMovesForACause ==
    [][ (history'.settled /\ cook'.set # cook.set)
          => /\ Counting /\ timer'.remaining = 0
             /\ \/ control.timeoutAction = "HOLD" /\ cook'.set = control.cookhold
                \/ /\ control.timeoutAction = "SHUTDOWN" /\ fwver = "1.7"
                   /\ cook'.set = V17ShutdownSet ]_vars

\* Every countdown ends (DESIGN 6.4: "Counts down to 00:00:00").
TimerExpires == Counting ~> ~Counting

\* No deviation alarm before a tick has found the pit, with its probe plugged in,
\* within ALARMDEV of the setpoint aimed at: not after a start, nor after a reset
\* or a new profile, whatever the pit before it was (PROTOCOL 9.5, warm-up gating).
AlarmsWaitForWarmUp ==
    (history.settled /\ cook.status \in {"HIGH", "LOW"}) => history.warm

\* Open-lid detection pauses the blower and the LOW alarm, and it never holds
\* either back once the pit is at its target again (control.py:286).
LidOpenOnlyBelowTarget ==
    (history.settled /\ pit.lidOpen)
        => /\ control.opendetect
           /\ cook.temp < Target
           /\ output = 0
           /\ cook.status # "LOW"

\* The ramp aims nowhere but between COOK_SET and the hold temperature of the
\* food it follows, never beyond either (DESIGN 6.4, COOK_RAMP).
RampStaysBetween ==
    control.ramp # "OFF" =>
        LET hold == food[control.ramp].set + HoldMargin
        IN  \/ cook.set <= Target /\ Target <= hold
            \/ hold <= Target /\ Target <= cook.set
            \/ Target = cook.set

-----------------------------------------------------------------------------
(* What the proofs need on top: inductive parts.                            *)

\* A SHUTDOWN that is still in force is in the latch.
ShutdownIsLatched == history.expiredAs = "SHUTDOWN" => latch.shutdown

\* Where every new countdown clears the latches, none is set while one counts,
\* and the shutdown latch is that of the last expiry.
LatchesAreFresh ==
    /\ latch.hold \/ latch.shutdown => ~Counting
    /\ latch.shutdown => history.expiredAs = "SHUTDOWN"

\* Nothing else is under way while the status is ALARM.
AlarmIsLast ==
    timer.status = "ALARM" =>
        /\ ~timer.running /\ timer.remaining = 0
        /\ ~latch.hold /\ ~latch.shutdown

\* Only a pit that has been warm has its alarm armed.
ArmedWasWarm == pit.armed => history.warm

\* The time left, running or not, is what the countdown is still due.
TimeLeftIsDue == timer.remaining > 0 => 10 * timer.remaining = history.due
=============================================================================
