-------------------------- MODULE CookTimerProofs --------------------------
(***************************************************************************)
(* The safety and action properties of the cook controller, proved from    *)
(* the types (CookControllerProofs) and inductive facts about the countdown *)
(* and its latches: ShutdownIsLatched, LatchesAreFresh, TimeLeftIsDue,     *)
(* AlarmIsLast and ArmedWasWarm.                                           *)
(***************************************************************************)
EXTENDS CookControllerProofs

\* What the calls remember.
LEMMA WriteRemembers ==
    ASSUME NEW e, NEW d, NEW forced, NEW warm, Write(e, d, forced, warm)
    PROVE  /\ history'.settled = FALSE /\ history'.expiredAs = e /\ history'.due = d
           /\ history'.forced = forced /\ history'.warm = warm
BY DEF Write

LEMMA CountdownRemembers ==
    ASSUME NEW s \in TimerValues, CountdownWrite(s)
    PROVE  /\ s \in Nat
           /\ history'.settled = FALSE
           /\ history'.due = 10 * s
           /\ history'.expiredAs = IF s > 0 THEN "NONE" ELSE history.expiredAs
           /\ history'.forced = history.forced /\ history'.warm = history.warm
BY CookControllerAssumption DEF CountdownWrite, Write

LEMMA ProfileRemembers ==
    ASSUME \E set \in CookSets, start \in PitReadings, foodSet \in FoodSets,
              meatStart \in FoodReadings, plugged, unplugged \in SUBSET Foods :
                 LoadProfile(set, start, foodSet, meatStart, plugged, unplugged)
    PROVE  /\ history'.settled = FALSE /\ history'.expiredAs = "NONE"
           /\ history'.due = history.due
           /\ history'.forced = FALSE
           /\ latch' = NoLatch /\ timer' = timer /\ control' = control /\ ~pit'.armed
<1>1. PICK set \in CookSets, start \in PitReadings, foodSet \in FoodSets,
           meatStart \in FoodReadings, plugged \in SUBSET Foods, unplugged \in SUBSET Foods :
             LoadProfile(set, start, foodSet, meatStart, plugged, unplugged)
  OBVIOUS
<1>2. /\ Write("NONE", history.due, FALSE, FALSE)
      /\ latch' = NoLatch /\ timer' = timer /\ control' = control /\ ~pit'.armed
  BY <1>1 DEF LoadProfile, FreshPit
<1>3. /\ history'.settled = FALSE /\ history'.expiredAs = "NONE"
      /\ history'.due = history.due /\ history'.forced = FALSE
  BY <1>2 DEF Write
<1>4. QED
  BY <1>2, <1>3

\* What a timer fragment does, apart from the status.
LEMMA PatchRemembers ==
    ASSUME PatchTimer
    PROVE  /\ latch' = latch
           /\ \/ \E s \in TimerValues :
                    CountdownWrite(s) /\ timer' = [timer EXCEPT !.remaining = s,
                                                             !.running = s > 0]
              \/ /\ history'.settled = FALSE
                 /\ history'.expiredAs = history.expiredAs
                 /\ history'.due = history.due
                 /\ \/ \E running \in BOOLEAN : timer' = [timer EXCEPT !.running = running]
                    \/ \E status \in TimerStatuses : timer' = [timer EXCEPT !.status = status]
<1>1. PlainWrite => /\ history'.settled = FALSE
                    /\ history'.expiredAs = history.expiredAs
                    /\ history'.due = history.due
  BY DEF PlainWrite, Write
<1>2. QED
  BY <1>1, Zenon DEF PatchTimer

\* Calls other than ticks leave the last step unsettled.
LEMMA CallsUnsettle ==
    ASSUME Next, ~Ticks
    PROVE  history'.settled = FALSE
<1> USE DEF PlainWrite, Write
<1>1. CASE \E s \in TimerValues : PostTimer(s) \/ ApplyTimer(s)
  <2>1. PICK s \in TimerValues : CountdownWrite(s)
    BY <1>1 DEF PostTimer, ApplyTimer
  <2>2. QED
    BY <2>1, CountdownRemembers
<1>2. CASE PatchTimer
  <2>1. history'.settled = FALSE \/ \E s \in TimerValues : CountdownWrite(s)
    BY <1>2, PatchRemembers, Zenon
  <2>2. QED
    BY <2>1, CountdownRemembers, Zenon
<1>3. CASE \E set \in CookSets : WriteCookSet(set)
  BY <1>3 DEF WriteCookSet
<1>4. CASE \E f \in Foods, set \in FoodSets : WriteFoodSet(f, set)
  BY <1>4 DEF WriteFoodSet
<1>5. CASE \/ WriteControl \/ ClearAlarms \/ DisconnectProbe \/ ReconnectProbe
           \/ PatchProbe \/ Reset
  BY <1>5 DEF WriteControl, ClearAlarms, DisconnectProbe, ReconnectProbe, PatchProbe, Reset
<1>6. CASE \E version \in Personas : SetPersona(version)
  BY <1>6 DEF SetPersona
<1>7. CASE \E reading \in PitReadings : SetPitTemp(reading)
  BY <1>7 DEF SetPitTemp
<1>8. CASE \E f \in Foods, reading \in FoodReadings : SetFoodTemp(f, reading)
  BY <1>8 DEF SetFoodTemp
<1>9. CASE \E set \in CookSets, start \in PitReadings, foodSet \in FoodSets,
              meatStart \in FoodReadings, plugged, unplugged \in SUBSET Foods :
                 LoadProfile(set, start, foodSet, meatStart, plugged, unplugged)
  BY <1>9, ProfileRemembers
<1>10. QED
  BY <1>1, <1>2, <1>3, <1>4, <1>5, <1>6, <1>7, <1>8, <1>9 DEF Next

\* The calls that touch neither the countdown, nor its latches, nor what is
\* remembered of it.
LEMMA PlainCalls ==
    ASSUME \/ \E set \in CookSets : WriteCookSet(set)
           \/ \E f \in Foods, set \in FoodSets : WriteFoodSet(f, set)
           \/ WriteControl
           \/ \E version \in Personas : SetPersona(version)
           \/ \E reading \in PitReadings : SetPitTemp(reading)
           \/ \E f \in Foods, reading \in FoodReadings : SetFoodTemp(f, reading)
           \/ DisconnectProbe
           \/ ReconnectProbe
           \/ PatchProbe
    PROVE  /\ UNCHANGED <<timer, latch>>
           /\ history'.expiredAs = history.expiredAs
           /\ history'.due = history.due
BY DEF WriteCookSet, WriteFoodSet, WriteControl, SetPersona, SetPitTemp, SetFoodTemp,
       DisconnectProbe, ReconnectProbe, PatchProbe, PlainWrite, Write

LEMMA ShutdownStaysLatched ==
    ASSUME TypeOK, ShutdownIsLatched, [Next]_vars
    PROVE  ShutdownIsLatched'
<1> USE DEF ShutdownIsLatched
<1>1. CASE Ticks
  <2>1. PICK dt \in TickLengths, reading \in PitReadings,
             foodReading \in [Foods -> FoodReadings] : Tick(dt, reading, foodReading)
    BY <1>1 DEF Ticks
  <2>2. history'.expiredAs =
          IF Expires(dt) THEN control.timeoutAction ELSE history.expiredAs
    BY <2>1 DEF Tick, TypeOK, HistoryType
  <2>3. latch'.shutdown = (latch.shutdown \/ ExpiresAs(dt, "SHUTDOWN"))
    BY <2>1 DEF Tick, AdvanceTimer
  <2>4. QED
    BY <2>2, <2>3 DEF ExpiresAs
<1>2. CASE \E s \in TimerValues : PostTimer(s) \/ ApplyTimer(s)
  <2>1. PICK s \in TimerValues : PostTimer(s) \/ ApplyTimer(s)
    BY <1>2
  <2>2. CountdownWrite(s) /\ (latch' = latch \/ s > 0)
    BY <2>1 DEF PostTimer, ApplyTimer
  <2>3. QED
    BY <2>2, CountdownRemembers
<1>3. CASE PatchTimer
  <2>1. latch' = latch
    BY <1>3, PatchRemembers, Zenon
  <2>2. history'.expiredAs = history.expiredAs \/ \E s \in TimerValues : CountdownWrite(s)
    BY <1>3, PatchRemembers, Zenon
  <2>3. history'.expiredAs \in {"NONE", history.expiredAs}
    BY <2>2, CountdownRemembers
  <2>4. QED
    BY <2>1, <2>3
<1>4. CASE ClearAlarms \/ Reset
  BY <1>4 DEF ClearAlarms, Reset, Write
<1>5. CASE \E set \in CookSets, start \in PitReadings, foodSet \in FoodSets,
              meatStart \in FoodReadings, plugged, unplugged \in SUBSET Foods :
                 LoadProfile(set, start, foodSet, meatStart, plugged, unplugged)
  BY <1>5, ProfileRemembers
<1>6. CASE UNCHANGED vars
  BY <1>6 DEF vars
<1>7. QED
  BY <1>1, <1>2, <1>3, <1>4, <1>5, <1>6, PlainCalls DEF Next

\* From 2.3 on, a SHUTDOWN expiry keeps the fan off in every later control
\* tick until it is cleared, whichever of the three paths writes the timer and
\* whatever else is written meanwhile (control.py:188).
THEOREM FanStaysOff == Spec => []FanOffWhileShutDown
<1> DEFINE Inv == ShutdownIsLatched /\ FanOffWhileShutDown
<1>1. Init => Inv
  BY DEF Init, ShutdownIsLatched, FanOffWhileShutDown
<1>2. TypeOK /\ Inv /\ [Next]_vars => Inv'
  <2> SUFFICES ASSUME TypeOK, Inv, [Next]_vars PROVE Inv'
    OBVIOUS
  <2>1. ShutdownIsLatched'
    BY ShutdownStaysLatched
  <2>2. CASE Ticks
    <3>1. output' = 0 \/ ~(latch'.shutdown /\ ShutdownIsFanOff(fwver))
      BY <2>2 DEF Ticks, Tick
    <3>2. fwver' = fwver
      BY <2>2 DEF Ticks, Tick
    <3>3. QED
      BY <2>1, <3>1, <3>2 DEF FanOffWhileShutDown, ShutdownIsLatched, ShutdownIsFanOff
  <2>3. CASE Next /\ ~Ticks
    BY <2>1, <2>3, CallsUnsettle DEF FanOffWhileShutDown
  <2>4. CASE UNCHANGED vars
    BY <2>1, <2>4 DEF vars, FanOffWhileShutDown, ShutdownIsFanOff
  <2>5. QED
    BY <2>2, <2>3, <2>4
<1>3. Inv => FanOffWhileShutDown
  OBVIOUS
<1>4. QED
  BY <1>1, <1>2, <1>3, TypeCorrect, PTL DEF Spec

-----------------------------------------------------------------------------
\* What a tick leaves, in terms of the setpoint the controller then aims at.
LEMMA TickOutcome ==
    ASSUME TypeOK, NEW dt \in TickLengths, NEW reading \in PitReadings,
           NEW foodReading \in [Foods -> FoodReadings], Tick(dt, reading, foodReading)
    PROVE  /\ Target' \in Int /\ cook'.temp \in Int /\ cook'.temp = reading
           /\ cook'.set = SetAfterTimer(dt)
           /\ pit'.lidOpen = LidOpenAfter(pit.lidOpen, control.opendetect, reading,
                                          pit.prev, dt, Target')
           /\ output' = IF (latch'.shutdown /\ ShutdownIsFanOff(fwver)) \/ pit'.lidOpen
                        THEN 0
                        ELSE OutputPercent(reading, Target', control.propband)
           /\ cook'.status = CookStatus(cook.connected, reading, cook'.set,
                                control.alarmdev, pit'.armed, pit'.lidOpen, latch'.hold)
<1>1. TypeOK'
  BY TickKeepsTypes
<1>2. cook'.temp = reading /\ cook'.set = SetAfterTimer(dt)
  BY DEF Tick, TypeOK, CookType
<1>3. Target' = EffectiveCookSet(SetAfterTimer(dt), control.ramp, food')
  BY <1>2 DEF Tick, Target
<1>4. Target' \in Int
  <2>1. cook'.set \in Int /\ control'.ramp \in Foods \cup {"OFF"}
        /\ food' \in [Foods -> FoodType]
    BY <1>1 DEF TypeOK, CookType, ControlType
  <2>2. control' = control
    BY DEF Tick
  <2>3. QED
    BY <1>2, <1>3, <2>1, <2>2, TargetIsInt
<1>5. pit'.lidOpen = LidOpenAfter(pit.lidOpen, control.opendetect, reading,
                                  pit.prev, dt, Target')
  BY <1>3 DEF Tick
<1>6. output' = IF (latch'.shutdown /\ ShutdownIsFanOff(fwver)) \/ pit'.lidOpen
                THEN 0
                ELSE OutputPercent(reading, Target', control.propband)
  BY <1>3 DEF Tick
<1>7. cook'.status = CookStatus(cook.connected, reading, cook'.set,
                       control.alarmdev, pit'.armed, pit'.lidOpen, latch'.hold)
  BY <1>2, <1>3 DEF Tick, TypeOK, CookType
<1>8. reading \in Int
  BY CookControllerAssumption
<1>9. QED
  BY <1>2, <1>4, <1>5, <1>6, <1>7, <1>8

\* What a tick remembers.
LEMMA TickRemembers ==
    ASSUME TypeOK, NEW dt \in TickLengths, NEW reading, NEW foodReading,
           Tick(dt, reading, foodReading)
    PROVE  /\ dt \in Nat \ {0}
           /\ history'.settled = TRUE
           /\ history'.expiredAs = IF Expires(dt) THEN control.timeoutAction
                                   ELSE history.expiredAs
           /\ history'.due = IF ~Counting THEN history.due
                             ELSE IF history.due > dt THEN history.due - dt ELSE 0
           /\ control' = control /\ fwver' = fwver
BY CookControllerAssumption DEF Tick, TypeOK, HistoryType

\* Open-lid detection never pauses the blower or mutes the LOW alarm of a pit
\* that is at the setpoint aimed at, nor once OPENDETECT is off (control.py:266).
THEOREM LidPausesOnlyBelowTarget == Spec => []LidOpenOnlyBelowTarget
<1>1. Init => LidOpenOnlyBelowTarget
  BY DEF Init, LidOpenOnlyBelowTarget
<1>2. TypeOK /\ LidOpenOnlyBelowTarget /\ [Next]_vars => LidOpenOnlyBelowTarget'
  <2> SUFFICES ASSUME TypeOK, LidOpenOnlyBelowTarget, [Next]_vars
               PROVE  LidOpenOnlyBelowTarget'
    OBVIOUS
  <2>1. CASE Ticks
    <3>1. PICK dt \in TickLengths, reading \in PitReadings,
               foodReading \in [Foods -> FoodReadings] : Tick(dt, reading, foodReading)
      BY <2>1 DEF Ticks
    <3>2. SUFFICES ASSUME pit'.lidOpen
                   PROVE  /\ control'.opendetect /\ cook'.temp < Target'
                          /\ output' = 0 /\ cook'.status # "LOW"
      BY DEF LidOpenOnlyBelowTarget
    <3>3. control' = control
      BY <3>1, TickRemembers
    <3>4. cook'.temp < Target'
      <4>1. pit.prev # NoReading
        BY ControlLawAssumption DEF TypeOK, PitType
      <4>2. QED
        BY <3>1, <3>2, <4>1, TickOutcome DEF LidOpenAfter
    <3>5. output' = 0
      BY <3>1, <3>2, TickOutcome
    <3>6. cook'.status # "LOW"
      <4>1. cook'.status = CookStatus(cook.connected, reading, cook'.set,
                               control.alarmdev, pit'.armed, TRUE, latch'.hold)
        BY <3>1, <3>2, TickOutcome
      <4>2. QED
        BY <4>1 DEF CookStatus
    <3>7. control.opendetect
      BY <3>1, <3>2, TickOutcome DEF LidOpenAfter
    <3>8. QED
      BY <3>3, <3>4, <3>5, <3>6, <3>7
  <2>2. CASE Next /\ ~Ticks
    BY <2>2, CallsUnsettle DEF LidOpenOnlyBelowTarget
  <2>3. CASE UNCHANGED vars
    BY <2>3 DEF vars, LidOpenOnlyBelowTarget, Target
  <2>4. QED
    BY <2>1, <2>2, <2>3
<1>3. QED
  BY <1>1, <1>2, TypeCorrect, PTL DEF Spec

\* With COOK_RAMP on, the controller never aims beyond COOK_SET on one side or
\* the hold temperature of the food on the other (control.py:104).
THEOREM RampAimsBetween == Spec => []RampStaysBetween
<1>1. TypeOK => RampStaysBetween
  <2> SUFFICES ASSUME TypeOK, control.ramp # "OFF"
               PROVE  LET hold == food[control.ramp].set + HoldMargin
                      IN  \/ cook.set <= Target /\ Target <= hold
                          \/ hold <= Target /\ Target <= cook.set
                          \/ Target = cook.set
    BY DEF RampStaysBetween
  <2> DEFINE p == food[control.ramp]
  <2>1. control.ramp \in Foods /\ cook.set \in Int /\ p \in FoodType
    BY DEF TypeOK, ControlType, CookType
  <2>2. CASE ~p.connected \/ p.temp = NoReading
    BY <2>2 DEF Target, EffectiveCookSet
  <2>3. CASE p.connected /\ p.temp # NoReading
    <3>1. p.set \in Int /\ p.temp \in Int
      BY <2>1, <2>3 DEF FoodType, ProbeReading
    <3>2. Target = RampTarget(cook.set, p)
      BY <2>3 DEF Target, EffectiveCookSet
    <3> HIDE DEF p
    <3>3. \/ cook.set <= Target /\ Target <= p.set + HoldMargin
          \/ p.set + HoldMargin <= Target /\ Target <= cook.set
      BY <2>1, <3>1, <3>2, RampIsBetween
    <3>4. QED
      BY <3>3 DEF p
  <2>4. QED
    BY <2>2, <2>3
<1>2. QED
  BY <1>1, TypeCorrect, PTL

-----------------------------------------------------------------------------
\* A tick of k whole seconds takes k seconds off the countdown.
LEMMA WholeSecondTick ==
    ASSUME NEW dt \in Nat \ {0}, dt % 10 = 0, timer.remaining \in Nat
    PROVE  10 * RemainingAfter(dt) =
             IF 10 * timer.remaining > dt THEN 10 * timer.remaining - dt ELSE 0
<1> DEFINE k == dt \div 10
<1>1. k \in Nat /\ dt = 10 * k
  OBVIOUS
<1>2. 10 * timer.remaining - dt = 10 * (timer.remaining - k) /\ timer.remaining - k \in Int
  BY <1>1
<1>3. RoundHalfEven(10 * (timer.remaining - k), 10) = timer.remaining - k
  BY <1>2, RoundExact
<1>4. RemainingAfter(dt) = IF timer.remaining - k > 0 THEN timer.remaining - k ELSE 0
  BY <1>2, <1>3 DEF RemainingAfter
<1>5. QED
  BY <1>1, <1>4

\* Cut into ticks of whole seconds, however long each, a running countdown
\* loses exactly the simulated time that passes (control.py:212); the ticks of
\* the background loop at speed 1 are no whole seconds.
THEOREM CountdownKeepsTime ==
    ASSUME \A dt \in TickLengths : dt % 10 = 0
    PROVE  Spec => []TimerKeepsSimTime
<1>1. Init => TimeLeftIsDue
  BY DEF Init, IdleTimer, TimeLeftIsDue
<1>2. TypeOK /\ TimeLeftIsDue /\ [Next]_vars => TimeLeftIsDue'
  <2> SUFFICES ASSUME TypeOK, TimeLeftIsDue, [Next]_vars PROVE TimeLeftIsDue'
    OBVIOUS
  <2>1. CASE Ticks
    <3>1. PICK dt \in TickLengths, reading \in PitReadings,
               foodReading \in [Foods -> FoodReadings] : Tick(dt, reading, foodReading)
      BY <2>1 DEF Ticks
    <3>2. timer'.remaining = IF Counting THEN RemainingAfter(dt) ELSE timer.remaining
      BY <3>1 DEF Tick, AdvanceTimer
    <3>3. /\ dt \in Nat \ {0} /\ dt % 10 = 0
          /\ history'.due = IF ~Counting THEN history.due
                            ELSE IF history.due > dt THEN history.due - dt ELSE 0
      BY <3>1, TickRemembers
    <3>4. timer.remaining \in Nat
      BY DEF TypeOK, TimerType
    <3>5. CASE Counting
      <4>1. 10 * RemainingAfter(dt) =
              IF 10 * timer.remaining > dt THEN 10 * timer.remaining - dt ELSE 0
        BY <3>3, <3>4, WholeSecondTick
      <4>2. 10 * timer.remaining = history.due
        BY <3>5 DEF Counting, TimeLeftIsDue
      <4>3. QED
        BY <3>2, <3>3, <3>5, <4>1, <4>2 DEF TimeLeftIsDue
    <3>6. CASE ~Counting
      BY <3>2, <3>3, <3>6 DEF TimeLeftIsDue
    <3>7. QED
      BY <3>5, <3>6
  <2>2. CASE \E s \in TimerValues : PostTimer(s) \/ ApplyTimer(s)
    <3>1. PICK s \in TimerValues : PostTimer(s) \/ ApplyTimer(s)
      BY <2>2
    <3>2. CASE PostTimer(s)
      BY <3>2, CountdownRemembers DEF PostTimer, TypeOK, TimerType, TimeLeftIsDue
    <3>3. CASE ApplyTimer(s)
      BY <3>3, CountdownRemembers DEF ApplyTimer, TimeLeftIsDue
    <3>4. QED
      BY <3>1, <3>2, <3>3
  <2>3. CASE PatchTimer
    <3>1. CASE \E s \in TimerValues :
                 CountdownWrite(s) /\ timer' = [timer EXCEPT !.remaining = s, !.running = s > 0]
      <4>1. PICK s \in TimerValues : CountdownWrite(s) /\ timer'.remaining = s
        BY <3>1 DEF TypeOK, TimerType
      <4>2. QED
        BY <4>1, CountdownRemembers DEF TimeLeftIsDue
    <3>2. CASE /\ history'.due = history.due
               /\ \/ \E running \in BOOLEAN : timer' = [timer EXCEPT !.running = running]
                  \/ \E status \in TimerStatuses : timer' = [timer EXCEPT !.status = status]
      <4>1. timer'.remaining = timer.remaining
        BY <3>2 DEF TypeOK, TimerType
      <4>2. QED
        BY <3>2, <4>1 DEF TimeLeftIsDue
    <3>3. QED
      BY <2>3, <3>1, <3>2, PatchRemembers, Zenon
  <2>4. CASE ClearAlarms
    BY <2>4, WriteRemembers DEF ClearAlarms, TimeLeftIsDue, TypeOK, TimerType
  <2>5. CASE Reset
    BY <2>5 DEF Reset, IdleTimer, TimeLeftIsDue
  <2>6. CASE \E set \in CookSets, start \in PitReadings, foodSet \in FoodSets,
                meatStart \in FoodReadings, plugged, unplugged \in SUBSET Foods :
                   LoadProfile(set, start, foodSet, meatStart, plugged, unplugged)
    BY <2>6, ProfileRemembers DEF TimeLeftIsDue
  <2>7. CASE UNCHANGED vars
    BY <2>7 DEF vars, TimeLeftIsDue
  <2>8. QED
    BY <2>1, <2>2, <2>3, <2>4, <2>5, <2>6, <2>7, PlainCalls DEF Next, TimeLeftIsDue
<1>3. TimeLeftIsDue => TimerKeepsSimTime
  BY DEF TimeLeftIsDue, TimerKeepsSimTime, Counting
<1>4. QED
  BY <1>1, <1>2, <1>3, TypeCorrect, PTL DEF Spec

-----------------------------------------------------------------------------
\* Where only Simulation.apply_write sets the timer, the latches are those of
\* the last expiry.
LEMMA CoreKeepsLatchesFresh ==
    ASSUME TimerPaths \subseteq {"core"}, TypeOK, LatchesAreFresh, [Next]_vars
    PROVE  LatchesAreFresh'
<1> USE DEF LatchesAreFresh
<1>1. CASE Ticks
  <2>1. PICK dt \in TickLengths, reading \in PitReadings,
             foodReading \in [Foods -> FoodReadings] : Tick(dt, reading, foodReading)
    BY <1>1 DEF Ticks
  <2>2. /\ latch'.hold = (latch.hold \/ ExpiresAs(dt, "HOLD"))
        /\ latch'.shutdown = (latch.shutdown \/ ExpiresAs(dt, "SHUTDOWN"))
        /\ timer'.running = (timer.running /\ ~Expires(dt))
        /\ timer'.remaining = IF Counting THEN RemainingAfter(dt) ELSE timer.remaining
    BY <2>1 DEF Tick, AdvanceTimer
  <2>3. history'.expiredAs = IF Expires(dt) THEN control.timeoutAction
                             ELSE history.expiredAs
    BY <2>1, TickRemembers
  <2>4. Counting' => Counting /\ ~Expires(dt)
    BY <2>2 DEF Counting
  <2>5. Expires(dt) => Counting
    BY DEF Expires
  <2>6. latch'.hold \/ latch'.shutdown => ~Counting'
    BY <2>2, <2>4 DEF ExpiresAs
  <2>7. latch'.shutdown => history'.expiredAs = "SHUTDOWN"
    BY <2>2, <2>3, <2>5 DEF ExpiresAs
  <2>8. QED
    BY <2>6, <2>7
<1>2. CASE \E s \in TimerValues : PostTimer(s) \/ ApplyTimer(s)
  <2>1. PICK s \in TimerValues : ApplyTimer(s)
    BY <1>2 DEF PostTimer
  <2>2. /\ timer'.remaining = s
        /\ latch' = IF s > 0 THEN NoLatch ELSE latch
    BY <2>1 DEF ApplyTimer
  <2>3. /\ s \in Nat
        /\ history'.expiredAs = IF s > 0 THEN "NONE" ELSE history.expiredAs
    BY <2>1, CountdownRemembers DEF ApplyTimer
  <2>4. QED
    BY <2>2, <2>3 DEF NoLatch, Counting
<1>3. CASE PatchTimer
  BY <1>3 DEF PatchTimer
<1>4. CASE ClearAlarms
  BY <1>4 DEF ClearAlarms, NoLatch
<1>5. CASE Reset
  BY <1>5 DEF Reset, NoLatch
<1>6. CASE \E set \in CookSets, start \in PitReadings, foodSet \in FoodSets,
              meatStart \in FoodReadings, plugged, unplugged \in SUBSET Foods :
                 LoadProfile(set, start, foodSet, meatStart, plugged, unplugged)
  <2>1. latch' = NoLatch
    BY <1>6, ProfileRemembers
  <2>2. QED
    BY <2>1 DEF NoLatch
<1>7. CASE UNCHANGED vars
  BY <1>7 DEF vars, Counting
<1>8. QED
  BY <1>1, <1>2, <1>3, <1>4, <1>5, <1>6, <1>7, PlainCalls DEF Next, Counting

LEMMA CoreLatchesFresh ==
    ASSUME TimerPaths \subseteq {"core"}
    PROVE  Spec => [](TypeOK /\ LatchesAreFresh)
<1>1. Init => LatchesAreFresh
  BY DEF Init, LatchesAreFresh, NoLatch
<1>2. TypeOK /\ LatchesAreFresh /\ [Next]_vars => LatchesAreFresh'
  BY CoreKeepsLatchesFresh
<1>3. QED
  BY <1>1, <1>2, TypeCorrect, PTL DEF Spec

\* With the timer set by Simulation.apply_write, a shutdown ends with its
\* countdown: after any other expiry, or none, a pit a whole proportional band
\* below the setpoint aimed at gets full fan (simulation.py:356).
THEOREM ShutdownDoesNotOutlive ==
    ASSUME TimerPaths \subseteq {"core"}
    PROVE  Spec => []ShutdownEndsWithItsTimer
<1>1. Init => ShutdownEndsWithItsTimer
  BY DEF Init, ShutdownEndsWithItsTimer
<1>2. /\ TypeOK /\ LatchesAreFresh /\ LatchesAreFresh' /\ ShutdownEndsWithItsTimer
      /\ [Next]_vars
      => ShutdownEndsWithItsTimer'
  <2> SUFFICES ASSUME TypeOK, LatchesAreFresh', ShutdownEndsWithItsTimer, [Next]_vars
               PROVE  ShutdownEndsWithItsTimer'
    OBVIOUS
  <2>1. CASE Ticks
    <3>1. PICK dt \in TickLengths, reading \in PitReadings,
               foodReading \in [Foods -> FoodReadings] : Tick(dt, reading, foodReading)
      BY <2>1 DEF Ticks
    <3>2. SUFFICES ASSUME history'.expiredAs # "SHUTDOWN", ~pit'.lidOpen,
                          cook'.temp <= Target' - control'.propband, control'.propband > 0
                   PROVE  output' = 100
      BY DEF ShutdownEndsWithItsTimer
    <3>3. ~latch'.shutdown
      BY <3>2 DEF LatchesAreFresh
    <3>4. control' = control /\ control.propband \in Int
      BY <3>1, TickRemembers DEF TypeOK, ControlType
    <3>5. PICK target \in Int :
            target = Target' /\ output' = OutputPercent(reading, target, control.propband)
      BY <3>1, <3>2, <3>3, TickOutcome
    <3>6. reading \in Int /\ cook'.temp = reading
      BY <3>1, TickOutcome
    <3>7. reading <= target - control.propband /\ control.propband > 0
      BY <3>2, <3>4, <3>5, <3>6, Zenon
    <3>8. OutputPercent(reading, target, control.propband) = 100
      BY <3>4, <3>6, <3>7 DEF OutputPercent
    <3>9. QED
      BY <3>5, <3>8
  <2>2. CASE Next /\ ~Ticks
    BY <2>2, CallsUnsettle DEF ShutdownEndsWithItsTimer
  <2>3. CASE UNCHANGED vars
    BY <2>3 DEF vars, ShutdownEndsWithItsTimer, Target
  <2>4. QED
    BY <2>1, <2>2, <2>3
<1>3. QED
  BY <1>1, <1>2, CoreLatchesFresh, PTL DEF Spec

\* With the timer set by Simulation.apply_write, the tick in which a countdown
\* expires reports the TIMEOUT_ACTION it applied (control.py:237).
THEOREM ExpiryReported ==
    ASSUME TimerPaths \subseteq {"core"}
    PROVE  Spec => ExpiryIsReported
<1>1. TypeOK /\ LatchesAreFresh /\ [Next]_vars
      => [(Counting /\ history'.settled /\ ~timer'.running /\ timer'.remaining = 0)
            => timer'.status = ReportOf(control.timeoutAction)]_vars
  <2> SUFFICES ASSUME TypeOK, LatchesAreFresh, Next, Counting, history'.settled,
                      ~timer'.running, timer'.remaining = 0
               PROVE  timer'.status = ReportOf(control.timeoutAction)
    OBVIOUS
  <2>1. PICK dt \in TickLengths, reading \in PitReadings,
             foodReading \in [Foods -> FoodReadings] : Tick(dt, reading, foodReading)
    BY CallsUnsettle DEF Ticks
  <2>2. Expires(dt)
    <3>1. timer'.running = (timer.running /\ ~Expires(dt))
      BY <2>1 DEF Tick, AdvanceTimer
    <3>2. QED
      BY <3>1 DEF Counting
  <2>3. ~latch.hold /\ ~latch.shutdown
    BY DEF LatchesAreFresh
  <2>4. /\ latch'.hold = (control.timeoutAction = "HOLD")
        /\ latch'.shutdown = (control.timeoutAction = "SHUTDOWN")
    BY <2>1, <2>2, <2>3 DEF Tick, AdvanceTimer, ExpiresAs
  <2>5. timer'.status =
          IF latch'.shutdown THEN "SHUTDOWN"
          ELSE IF latch'.hold THEN "HOLD"
          ELSE IF /\ control.timeoutAction = "ALARM"
                  /\ timer.status = "ALARM" \/ ExpiresAs(dt, "ALARM") THEN "ALARM"
          ELSE "OK"
    BY <2>1, <2>2 DEF Tick, AdvanceTimer, TimerStatus, Expires
  <2>6. control.timeoutAction \in {"NO_ACTION", "HOLD", "ALARM", "SHUTDOWN"}
    BY DEF TypeOK, ControlType, TimeoutActions
  <2>7. QED
    BY <2>2, <2>4, <2>5, <2>6 DEF TimerStatus, ReportOf, ExpiresAs
<1>2. QED
  BY <1>1, CoreLatchesFresh, PTL DEF Spec, ExpiryIsReported

-----------------------------------------------------------------------------
\* While the status is ALARM the countdown is over and no latch is set, where
\* the timer is written by apply_write alone.
LEMMA AlarmStaysLast ==
    ASSUME TimerPaths \subseteq {"core"}, TypeOK, AlarmIsLast, [Next]_vars
    PROVE  AlarmIsLast'
<1> USE DEF AlarmIsLast
<1>1. CASE Ticks
  <2>1. PICK dt \in TickLengths, reading \in PitReadings,
             foodReading \in [Foods -> FoodReadings] : Tick(dt, reading, foodReading)
    BY <1>1 DEF Ticks
  <2>2. /\ timer'.remaining \in Nat
        /\ timer'.status = TimerStatus(timer'.running, timer'.remaining, latch',
                              timer.status = "ALARM" \/ ExpiresAs(dt, "ALARM"))
    BY <2>1, TickKeepsTypes DEF Tick, AdvanceTimer, TypeOK, TimerType
  <2> QED
    BY <2>2 DEF TimerStatus
<1>2. CASE \E s \in TimerValues : PostTimer(s) \/ ApplyTimer(s)
  <2>1. PICK s \in TimerValues : ApplyTimer(s)
    BY <1>2 DEF PostTimer
  <2>2. /\ timer'.remaining = s
        /\ timer'.status = IF s > 0 THEN "OK" ELSE timer.status
        /\ timer'.running = (s > 0)
        /\ latch' = IF s > 0 THEN NoLatch ELSE latch
    BY <2>1 DEF ApplyTimer
  <2>3. s \in Nat
    BY CookControllerAssumption
  <2>4. CASE s > 0
    BY <2>2, <2>4
  <2>5. CASE s = 0
    BY <2>2, <2>5
  <2> QED
    BY <2>3, <2>4, <2>5
<1>3. CASE PatchTimer \/ PatchProbe
  BY <1>3 DEF PatchTimer, PatchProbe
<1>4. CASE \/ \E set \in CookSets : WriteCookSet(set)
           \/ \E f \in Foods, set \in FoodSets : WriteFoodSet(f, set)
           \/ WriteControl
           \/ \E version \in Personas : SetPersona(version)
           \/ \E reading \in PitReadings : SetPitTemp(reading)
           \/ \E f \in Foods, reading \in FoodReadings : SetFoodTemp(f, reading)
           \/ DisconnectProbe
           \/ ReconnectProbe
  BY <1>4 DEF WriteCookSet, WriteFoodSet, WriteControl, SetPersona, SetPitTemp, SetFoodTemp,
              DisconnectProbe, ReconnectProbe
<1>5. CASE ClearAlarms \/ Reset
  <2>1. CASE ClearAlarms
    <3> DEFINE going == timer.remaining > 0
    <3>1. timer' = [timer EXCEPT !.status = "OK", !.running = going]
      BY <2>1, Zenon DEF ClearAlarms
    <3> HIDE DEF going
    <3>2. timer'.status = "OK"
      BY <3>1 DEF TypeOK, TimerType
    <3> QED
      BY <3>2
  <2>2. CASE Reset
    BY <2>2 DEF Reset, IdleTimer
  <2> QED
    BY <1>5, <2>1, <2>2
<1>6. CASE \E set \in CookSets, start \in PitReadings, foodSet \in FoodSets,
              meatStart \in FoodReadings, plugged, unplugged \in SUBSET Foods :
                 LoadProfile(set, start, foodSet, meatStart, plugged, unplugged)
  <2>1. latch' = NoLatch /\ timer' = timer
    BY <1>6, ProfileRemembers, Zenon DEF LoadProfile
  <2> QED
    BY <2>1 DEF NoLatch
<1>7. CASE UNCHANGED vars
  BY <1>7 DEF vars
<1>8. QED
  BY <1>1, <1>2, <1>3, <1>4, <1>5, <1>6, <1>7 DEF Next

\* With TIMEOUT_ACTION at ALARM no tick takes an ALARM away, where the timer is
\* written by apply_write alone (control.py:242).
THEOREM AlarmKept ==
    ASSUME TimerPaths \subseteq {"core"}
    PROVE  Spec => AlarmStays
<1>1. Init => AlarmIsLast
  BY DEF Init, IdleTimer, AlarmIsLast
<1>2. TypeOK /\ AlarmIsLast /\ [Next]_vars => AlarmIsLast'
  BY AlarmStaysLast
<1>3. TypeOK /\ AlarmIsLast /\ [Next]_vars
      => [(timer.status = "ALARM" /\ control.timeoutAction = "ALARM" /\ history'.settled)
            => timer'.status = "ALARM"]_vars
  <2> SUFFICES ASSUME TypeOK, AlarmIsLast, Next, timer.status = "ALARM",
                      control.timeoutAction = "ALARM", history'.settled
               PROVE  timer'.status = "ALARM"
    OBVIOUS
  <2>1. PICK dt \in TickLengths, reading \in PitReadings,
             foodReading \in [Foods -> FoodReadings] : Tick(dt, reading, foodReading)
    BY CallsUnsettle DEF Ticks
  <2>2. ~Counting
    BY DEF AlarmIsLast, Counting
  <2>3. ~ExpiresAs(dt, "HOLD") /\ ~ExpiresAs(dt, "SHUTDOWN") /\ ~Expires(dt)
    BY <2>2 DEF ExpiresAs, Expires
  <2>4. ~latch'.hold /\ ~latch'.shutdown
    BY <2>1, <2>3 DEF Tick, AdvanceTimer, AlarmIsLast
  <2>5. /\ ~timer'.running /\ timer'.remaining = 0
        /\ timer'.status = TimerStatus(timer'.running, timer'.remaining, latch',
                              timer.status = "ALARM" \/ ExpiresAs(dt, "ALARM"))
    BY <2>1, <2>2 DEF Tick, AdvanceTimer, AlarmIsLast
  <2> QED
    BY <2>4, <2>5 DEF TimerStatus
<1>4. QED
  BY <1>1, <1>2, <1>3, TypeCorrect, PTL DEF Spec, AlarmStays

-----------------------------------------------------------------------------
\* What a call other than a tick does to the setpoint a shutdown has forced, and to
\* the arming of the alarm.
LEMMA CallsKeepForcedAndArmed ==
    ASSUME TypeOK, Next, ~Ticks
    PROVE  /\ history'.forced => history.forced /\ cook'.set = cook.set
           /\ pit'.armed => pit.armed /\ history'.warm = history.warm
<1>0. cook \in CookType /\ pit \in PitType
  BY DEF TypeOK
<1>1. CASE \E s \in TimerValues : PostTimer(s) \/ ApplyTimer(s)
  <2>1. PICK s \in TimerValues : CountdownWrite(s) /\ UNCHANGED <<cook, pit>>
    BY <1>1 DEF PostTimer, ApplyTimer
  <2>2. QED
    BY <2>1, CountdownRemembers
<1>2. CASE PatchTimer
  <2>1. UNCHANGED <<cook, pit>>
    BY <1>2, Zenon DEF PatchTimer
  <2>2. PlainWrite \/ \E s \in TimerValues : CountdownWrite(s)
    BY <1>2, Zenon DEF PatchTimer
  <2>3. PlainWrite => history'.forced = history.forced /\ history'.warm = history.warm
    BY DEF PlainWrite, Write
  <2>4. history'.forced = history.forced /\ history'.warm = history.warm
    BY <2>2, <2>3, CountdownRemembers
  <2>5. QED
    BY <2>1, <2>4
<1>3. CASE \/ \E f \in Foods, set \in FoodSets : WriteFoodSet(f, set)
           \/ WriteControl \/ ClearAlarms
           \/ \E version \in Personas : SetPersona(version)
           \/ \E f \in Foods, reading \in FoodReadings : SetFoodTemp(f, reading)
  BY <1>3 DEF WriteFoodSet, WriteControl, ClearAlarms, SetPersona, SetFoodTemp, PlainWrite, Write
<1>4. CASE \E set \in CookSets : WriteCookSet(set)
  BY <1>4 DEF WriteCookSet, Write
<1>5. CASE \E reading \in PitReadings : SetPitTemp(reading)
  BY <1>0, <1>5 DEF SetPitTemp, PlainWrite, Write, CookType, PitType
<1>6. CASE DisconnectProbe \/ ReconnectProbe \/ PatchProbe
  <2>1. /\ history'.forced = history.forced /\ history'.warm = history.warm
        /\ pit' = pit
    BY <1>6 DEF DisconnectProbe, ReconnectProbe, PatchProbe, PlainWrite, Write
  <2>2. \/ cook' \in {cook, Unplugged(cook), PluggedIn(cook)}
        \/ cook' \in Patched(cook, PitReadings, CookStatuses)
    BY <1>6 DEF DisconnectProbe, ReconnectProbe, PatchProbe
  <2>3. cook'.set = cook.set
    BY <1>0, <2>2 DEF Unplugged, PluggedIn, Patched, CookType
  <2>4. QED
    BY <2>1, <2>3
<1>7. CASE Reset
  BY <1>7 DEF Reset, Write, FreshPit
<1>8. CASE \E set \in CookSets, start \in PitReadings, foodSet \in FoodSets,
              meatStart \in FoodReadings, plugged, unplugged \in SUBSET Foods :
                 LoadProfile(set, start, foodSet, meatStart, plugged, unplugged)
  BY <1>8, ProfileRemembers
<1>9. QED
  BY <1>1, <1>2, <1>3, <1>4, <1>5, <1>6, <1>7, <1>8 DEF Next

\* The setpoint a SHUTDOWN forces on firmware 1.7 stands until somebody sets
\* another, whatever else is written meanwhile, and while it stands nothing but
\* COOK_RAMP blows on a pit that is not below it (control.py:229).
THEOREM ForcedSetpointHolds == Spec => []ForcedSetpointStands
<1>1. Init => ForcedSetpointStands
  BY DEF Init, ForcedSetpointStands
<1>2. TypeOK /\ ForcedSetpointStands /\ [Next]_vars => ForcedSetpointStands'
  <2> SUFFICES ASSUME TypeOK, ForcedSetpointStands, [Next]_vars, history'.forced
               PROVE  /\ cook'.set = V17ShutdownSet
                      /\ (history'.settled /\ cook'.temp >= V17ShutdownSet /\ output' > 0)
                            => control'.ramp # "OFF" /\ Target' > V17ShutdownSet
    BY DEF ForcedSetpointStands
  <2>1. CASE Ticks
    <3>1. PICK dt \in TickLengths, reading \in PitReadings,
               foodReading \in [Foods -> FoodReadings] : Tick(dt, reading, foodReading)
      BY <2>1 DEF Ticks
    <3>2. history'.forced = (\/ history.forced /\ ~ExpiresAs(dt, "HOLD")
                             \/ ExpiresAs(dt, "SHUTDOWN") /\ ~ShutdownIsFanOff(fwver))
      BY <3>1 DEF Tick, TypeOK, HistoryType
    <3>3. cook'.set = V17ShutdownSet
      <4>1. cook'.set = SetAfterTimer(dt)
        BY <3>1, TickOutcome
      <4>2. CASE history.forced /\ ~ExpiresAs(dt, "HOLD")
        BY <4>1, <4>2 DEF SetAfterTimer, ForcedSetpointStands
      <4>3. CASE ExpiresAs(dt, "SHUTDOWN") /\ ~ShutdownIsFanOff(fwver)
        BY <4>1, <4>3 DEF SetAfterTimer, ExpiresAs
      <4>4. QED
        BY <3>2, <4>2, <4>3
    <3>4. ASSUME cook'.temp >= V17ShutdownSet, output' > 0
          PROVE  control'.ramp # "OFF" /\ Target' > V17ShutdownSet
      <4>1. PICK target \in Int :
              /\ target = Target'
              /\ output' = IF (latch'.shutdown /\ ShutdownIsFanOff(fwver)) \/ pit'.lidOpen
                           THEN 0
                           ELSE OutputPercent(reading, target, control.propband)
        BY <3>1, TickOutcome
      <4>2. OutputPercent(reading, target, control.propband) # 0
        BY <3>4, <4>1
      <4>3. reading \in Int /\ reading >= V17ShutdownSet /\ V17ShutdownSet \in Int
        BY <3>1, <3>4, TickOutcome, CookControllerAssumption
      <4>4. target > reading
        BY <4>2, <4>3 DEF OutputPercent
      <4>5. control'.ramp = "OFF" => target = V17ShutdownSet
        BY <3>3, <4>1 DEF Target, EffectiveCookSet
      <4>6. QED
        BY <4>1, <4>3, <4>4, <4>5
    <3>5. QED
      BY <3>3, <3>4
  <2>2. CASE Next /\ ~Ticks
    BY <2>2, CallsUnsettle, CallsKeepForcedAndArmed DEF ForcedSetpointStands
  <2>3. CASE UNCHANGED vars
    BY <2>3 DEF vars, ForcedSetpointStands, Target
  <2>4. QED
    BY <2>1, <2>2, <2>3
<1>3. QED
  BY <1>1, <1>2, TypeCorrect, PTL DEF Spec

-----------------------------------------------------------------------------
\* Every step that leaves the state settled is a tick.
LEMMA SettledByTick ==
    ASSUME Next, history'.settled
    PROVE  \E dt \in TickLengths, reading \in PitReadings :
               \E foodReading \in [Foods -> FoodReadings] : Tick(dt, reading, foodReading)
BY CallsUnsettle DEF Ticks

\* A tick moves the stored COOK_SET only where a countdown expires in it, and
\* only as the timeout action and the firmware say (control.py:229), whatever
\* wrote the countdown, the action or the setpoint before.
THEOREM SetpointMovedByExpiry == Spec => SetpointMovesForACause
<1>1. TypeOK /\ [Next]_vars
      => [(history'.settled /\ cook'.set # cook.set)
            => /\ Counting /\ timer'.remaining = 0
               /\ \/ control.timeoutAction = "HOLD" /\ cook'.set = control.cookhold
                  \/ /\ control.timeoutAction = "SHUTDOWN" /\ fwver = "1.7"
                     /\ cook'.set = V17ShutdownSet]_vars
  <2> SUFFICES ASSUME TypeOK, Next, history'.settled, cook'.set # cook.set
               PROVE  /\ Counting /\ timer'.remaining = 0
                      /\ \/ control.timeoutAction = "HOLD" /\ cook'.set = control.cookhold
                         \/ /\ control.timeoutAction = "SHUTDOWN" /\ fwver = "1.7"
                            /\ cook'.set = V17ShutdownSet
    OBVIOUS
  <2>1. PICK dt \in TickLengths, reading \in PitReadings,
             foodReading \in [Foods -> FoodReadings] : Tick(dt, reading, foodReading)
    BY SettledByTick
  <2>2. cook'.set = SetAfterTimer(dt)
    BY <2>1, TickOutcome
  <2>3. Expires(dt)
    BY <2>2 DEF SetAfterTimer, ExpiresAs
  <2>4. Counting /\ RemainingAfter(dt) = 0
    BY <2>3 DEF Expires
  <2>5. timer'.remaining = 0
    BY <2>1, <2>4 DEF Tick, AdvanceTimer
  <2>6. \/ control.timeoutAction = "HOLD" /\ cook'.set = control.cookhold
        \/ /\ control.timeoutAction = "SHUTDOWN" /\ ~ShutdownIsFanOff(fwver)
           /\ cook'.set = V17ShutdownSet
    BY <2>2 DEF SetAfterTimer, ExpiresAs
  <2> QED
    BY <2>4, <2>5, <2>6 DEF ShutdownIsFanOff
<1>2. QED
  BY <1>1, TypeCorrect, PTL DEF Spec, SetpointMovesForACause

\* After a start, a reset or a new profile, no tick raises a deviation alarm before
\* one has found the pit, with its probe plugged in, within ALARMDEV of the
\* setpoint it aims at (control.py:308): no arming outlives the pit it is of.
THEOREM NoAlarmBeforeWarmUp == Spec => []AlarmsWaitForWarmUp
<1> DEFINE Inv == ArmedWasWarm /\ AlarmsWaitForWarmUp
<1>1. Init => Inv
  BY DEF Init, FreshPit, ArmedWasWarm, AlarmsWaitForWarmUp
<1>2. TypeOK /\ Inv /\ [Next]_vars => Inv'
  <2> SUFFICES ASSUME TypeOK, Inv, [Next]_vars PROVE Inv'
    OBVIOUS
  <2>1. CASE Ticks
    <3>1. PICK dt \in TickLengths, reading \in PitReadings,
               foodReading \in [Foods -> FoodReadings] : Tick(dt, reading, foodReading)
      BY <2>1 DEF Ticks
    <3>2. pit'.armed = (pit.armed \/ WarmPit(dt, reading))
      BY <3>1 DEF Tick, WarmPit
    <3>3. history'.warm = (history.warm \/ WarmPit(dt, reading))
      BY <3>1 DEF Tick, TypeOK, HistoryType
    <3>4. ArmedWasWarm'
      BY <3>2, <3>3 DEF ArmedWasWarm
    <3>5. cook'.status \in {"HIGH", "LOW"} => pit'.armed
      BY <3>1, TickOutcome DEF CookStatus
    <3>6. QED
      BY <3>4, <3>5 DEF ArmedWasWarm, AlarmsWaitForWarmUp
  <2>2. CASE Next /\ ~Ticks
    BY <2>2, CallsUnsettle, CallsKeepForcedAndArmed DEF ArmedWasWarm, AlarmsWaitForWarmUp
  <2>3. CASE UNCHANGED vars
    BY <2>3 DEF vars, ArmedWasWarm, AlarmsWaitForWarmUp
  <2>4. QED
    BY <2>1, <2>2, <2>3
<1>3. QED
  BY <1>1, <1>2, TypeCorrect, PTL DEF Spec
=============================================================================
