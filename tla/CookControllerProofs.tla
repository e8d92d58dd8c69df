------------------------ MODULE CookControllerProofs ------------------------
(***************************************************************************)
(* Proofs about the cook controller, for every set of foods, readings,     *)
(* setpoints and tick lengths the assumptions of CookController allow.     *)
(***************************************************************************)
EXTENDS CookController, RoundingProofs, TLAPS

\* The fan output is a percentage, whatever the proportional band.
LEMMA OutputIsPercent ==
    ASSUME NEW temp \in Int, NEW target \in Int, NEW band \in Int
    PROVE  OutputPercent(temp, target, band) \in Percent
<1> DEFINE error == target - temp
<1>1. CASE error <= 0
  BY <1>1 DEF OutputPercent, Percent
<1>2. CASE error > 0 /\ error >= band
  BY <1>2 DEF OutputPercent, Percent
<1>3. CASE error > 0 /\ error < band
  <2>1. band \in Nat \ {0} /\ 100 * error \in Int
    BY <1>3
  <2>2. 0 * band <= 100 * error /\ 100 * error <= 100 * band
    BY <1>3
  <2> DEFINE n == 100 * error
  <2>3. n \in Int /\ 0 \in Int /\ 100 \in Int /\ 0 * band <= n /\ n <= 100 * band
    BY <2>1, <2>2
  <2> HIDE DEF n
  <2>4. /\ RoundHalfEven(n, band) \in Int
        /\ 0 <= RoundHalfEven(n, band)
        /\ RoundHalfEven(n, band) <= 100
    BY <2>1, <2>3, RoundWithin, Zenon
  <2>5. OutputPercent(temp, target, band) = RoundHalfEven(n, band)
    BY <1>3 DEF OutputPercent, n
  <2>6. QED
    BY <2>4, <2>5 DEF Percent
<1>4. QED
  BY <1>1, <1>2, <1>3

\* The ramp aims between COOK_SET and the hold temperature of its food.
LEMMA RampIsBetween ==
    ASSUME NEW cookSet \in Int, NEW p, p.set \in Int, p.temp \in Int
    PROVE  LET hold == p.set + HoldMargin
               target == RampTarget(cookSet, p)
           IN  /\ target \in Int
               /\ \/ cookSet <= target /\ target <= hold
                  \/ hold <= target /\ target <= cookSet
<1> DEFINE hold == p.set + HoldMargin
           gap == p.set - p.temp
           n == RampWindow * hold + gap * (cookSet - hold)
<1>1. HoldMargin \in Int /\ hold \in Int /\ gap \in Int /\ RampWindow \in Nat \ {0}
  BY ControlLawAssumption
<1>2. CASE gap <= 0 \/ gap >= RampWindow
  BY <1>1, <1>2 DEF RampTarget
<1>3. CASE gap > 0 /\ gap < RampWindow
  <2>1. RampTarget(cookSet, p) = RoundHalfEven(n, RampWindow)
    BY <1>1, <1>3 DEF RampTarget
  <2> HIDE DEF hold, gap
  <2>2. n \in Int
    BY <1>1
  <2>3. CASE cookSet <= hold
    <3>1. cookSet * RampWindow <= n /\ n <= hold * RampWindow
      BY <1>1, <1>3, <2>3, SMT
    <3>2. QED
      BY <1>1, <2>1, <2>2, <3>1, RoundWithin DEF hold
  <2>4. CASE hold < cookSet
    <3>1. hold * RampWindow <= n /\ n <= cookSet * RampWindow
      BY <1>1, <1>3, <2>4, SMT
    <3>2. QED
      BY <1>1, <2>1, <2>2, <3>1, RoundWithin DEF hold
  <2>5. QED
    BY <1>1, <2>3, <2>4
<1>4. QED
  BY <1>1, <1>2, <1>3

-----------------------------------------------------------------------------
\* The setpoint the controller aims at is an integer.
LEMMA TargetIsInt ==
    ASSUME NEW cookSet \in Int, NEW ramp \in Foods \cup {"OFF"},
           NEW foods \in [Foods -> FoodType]
    PROVE  EffectiveCookSet(cookSet, ramp, foods) \in Int
<1>1. CASE ramp = "OFF" \/ ~foods[ramp].connected \/ foods[ramp].temp = NoReading
  BY <1>1 DEF EffectiveCookSet
<1>2. CASE ramp # "OFF" /\ foods[ramp].connected /\ foods[ramp].temp # NoReading
  <2>1. foods[ramp].set \in Int /\ foods[ramp].temp \in Int
    BY <1>2 DEF FoodType, ProbeReading
  <2>2. EffectiveCookSet(cookSet, ramp, foods) = RampTarget(cookSet, foods[ramp])
    BY <1>2 DEF EffectiveCookSet
  <2> HIDE DEF EffectiveCookSet
  <2>3. QED
    BY <2>1, <2>2, RampIsBetween
<1>3. QED
  BY <1>1, <1>2

\* What is left of a countdown is a whole number of seconds, never negative.
LEMMA RemainingIsNat ==
    ASSUME NEW dt \in Nat \ {0}, timer.remaining \in Nat
    PROVE  RemainingAfter(dt) \in Nat
<1> DEFINE n == 10 * timer.remaining - dt
           r == RoundHalfEven(n, 10)
<1>1. n \in Int
  OBVIOUS
<1>2. r \in Int
  BY <1>1 DEF RoundHalfEven
<1>3. RemainingAfter(dt) = IF r > 0 THEN r ELSE 0
  BY DEF RemainingAfter
<1> HIDE DEF r
<1>4. QED
  BY <1>2, <1>3

LEMMA TickKeepsTypes ==
    ASSUME TypeOK, NEW dt \in TickLengths, NEW reading \in PitReadings,
           NEW foodReading \in [Foods -> FoodReadings], Tick(dt, reading, foodReading)
    PROVE  TypeOK'
<1> DEFINE set    == SetAfterTimer(dt)
           target == EffectiveCookSet(set, control.ramp, food')
           lid    == LidOpenAfter(pit.lidOpen, control.opendetect, reading, pit.prev,
                                  dt, target)
           armed  == pit.armed \/ (cook.connected /\ reading >= target - control.alarmdev)
<1>1. dt \in Nat \ {0} /\ reading \in Int /\ \A f \in Foods : foodReading[f] \in Int
  BY CookControllerAssumption
<1>2. timer' \in TimerType
  <2>1. timer.remaining \in Nat
    BY DEF TypeOK, TimerType
  <2>2. RemainingAfter(dt) \in Nat
    BY <1>1, <2>1, RemainingIsNat
  <2>3. (timer.running /\ ~Expires(dt)) \in BOOLEAN
    BY DEF TypeOK, TimerType, Expires
  <2>4. \A x, y, l, a : TimerStatus(x, y, l, a) \in TimerStatuses
    BY DEF TimerStatus, TimerStatuses
  <2>5. QED
    BY <2>1, <2>2, <2>3, <2>4 DEF Tick, AdvanceTimer, TimerType
<1>3. latch' \in LatchType
  BY DEF Tick, AdvanceTimer, TypeOK, LatchType, ExpiresAs
<1>4. set \in Int
  BY CookControllerAssumption DEF SetAfterTimer, TypeOK, CookType, ControlType
<1>5. food' \in [Foods -> FoodType]
  <2>1. \A c, t, s : FoodStatus(c, t, s) \in FoodStatuses
    BY DEF FoodStatus, FoodStatuses
  <2>2. QED
    BY <1>1, <2>1 DEF Tick, ReadFoods, TypeOK, FoodType, ProbeReading
<1>6. target \in Int
  BY <1>4, <1>5, TargetIsInt DEF TypeOK, ControlType
<1>7. lid \in BOOLEAN
  BY DEF LidOpenAfter, TypeOK, PitType, ControlType
<1>8. armed \in BOOLEAN
  BY DEF TypeOK, PitType, CookType
<1> HIDE DEF set, target, lid, armed
<1>9. /\ pit' = [armed |-> armed, lidOpen |-> lid, prev |-> reading]
      /\ output' = IF (latch'.shutdown /\ ShutdownIsFanOff(fwver)) \/ lid
                   THEN 0
                   ELSE OutputPercent(reading, target, control.propband)
      /\ cook' = [cook EXCEPT
           !.temp   = reading,
           !.set    = set,
           !.status = CookStatus(cook.connected, reading, set, control.alarmdev,
                                 armed, lid, latch'.hold)]
  BY DEF Tick, set, target, lid, armed
<1>10. pit' \in PitType
  BY <1>1, <1>7, <1>8, <1>9 DEF PitType, ProbeReading
<1>11. output' \in Percent
  <2>1. OutputPercent(reading, target, control.propband) \in Percent
    BY <1>1, <1>6, OutputIsPercent DEF TypeOK, ControlType
  <2>2. 0 \in Percent
    BY DEF Percent
  <2>3. QED
    BY <1>9, <2>1, <2>2
<1>12. cook' \in CookType
  <2>1. \A c, t, s, d, a, l, h : CookStatus(c, t, s, d, a, l, h) \in CookStatuses
    BY DEF CookStatus, CookStatuses
  <2>2. QED
    BY <1>1, <1>4, <1>9, <2>1 DEF TypeOK, CookType, ProbeReading
<1>13. history' \in HistoryType
  <2> DEFINE e == IF Expires(dt) THEN control.timeoutAction ELSE history.expiredAs
             d == IF ~Counting THEN history.due
                  ELSE IF history.due > dt THEN history.due - dt ELSE 0
             forced == \/ history.forced /\ ~ExpiresAs(dt, "HOLD")
                       \/ ExpiresAs(dt, "SHUTDOWN") /\ ~ShutdownIsFanOff(fwver)
             warm == history.warm \/ WarmPit(dt, reading)
  <2>1. e \in TimeoutActions \cup {"NONE"}
    BY DEF TypeOK, HistoryType, ControlType
  <2>2. d \in Nat
    BY <1>1 DEF TypeOK, HistoryType
  <2>3. history' = [history EXCEPT !.settled = TRUE, !.expiredAs = e, !.due = d,
                                  !.forced = forced, !.warm = warm]
    BY DEF Tick
  <2>4. forced \in BOOLEAN
    OBVIOUS
  <2>5. warm \in BOOLEAN
    BY DEF TypeOK, HistoryType, WarmPit, CookType
  <2> HIDE DEF e, d, forced, warm
  <2>6. QED
    BY <2>1, <2>2, <2>3, <2>4, <2>5 DEF TypeOK, HistoryType
<1>14. control' \in ControlType /\ fwver' \in Personas
  BY DEF Tick, TypeOK
<1>15. QED
  BY <1>2, <1>3, <1>5, <1>10, <1>11, <1>12, <1>13, <1>14 DEF TypeOK

LEMMA InitHasTypes == Init => TypeOK
<1> SUFFICES ASSUME Init PROVE TypeOK
  OBVIOUS
<1> USE CookControllerAssumption
    DEF Init, IdleTimer, NoLatch, FactoryCook, FactoryFood, FactoryControl, FreshPit
<1>1. timer \in TimerType
  BY DEF TimerType, TimerStatuses
<1>2. latch \in LatchType
  BY DEF LatchType
<1>3. cook \in CookType
  BY DEF CookType, ProbeReading, CookStatuses
<1>4. food \in [Foods -> FoodType]
  BY DEF FoodType, ProbeReading, FoodStatuses
<1>5. control \in ControlType
  BY DEF ControlType, TimeoutActions
<1>6. pit \in PitType
  BY DEF PitType, ProbeReading
<1>7. output \in Percent
  BY DEF Percent
<1>8. history \in HistoryType
  BY DEF HistoryType
<1>9. QED
  BY <1>1, <1>2, <1>3, <1>4, <1>5, <1>6, <1>7, <1>8 DEF TypeOK

\* What a call other than a tick leaves in the history.
LEMMA WriteKeepsHistoryType ==
    ASSUME history \in HistoryType, NEW e \in TimeoutActions \cup {"NONE"}, NEW d \in Nat,
           NEW forced \in BOOLEAN, NEW warm \in BOOLEAN, Write(e, d, forced, warm)
    PROVE  history' \in HistoryType /\ ~history'.settled
BY CookControllerAssumption DEF Write, HistoryType

LEMMA TimerWritesKeepTypes ==
    ASSUME TypeOK,
           \/ \E s \in TimerValues : PostTimer(s) \/ ApplyTimer(s)
           \/ PatchTimer
    PROVE  TypeOK'
<1> USE DEF TypeOK, TimerType, LatchType
<1>0. ASSUME NEW s \in Nat
      PROVE  [timer EXCEPT !.remaining = s, !.running = s > 0]
               \in TimerType
  <2>1. CASE s > 0
    <3>1. [timer EXCEPT !.remaining = s, !.running = s > 0]
            = [timer EXCEPT !.remaining = s, !.running = TRUE]
      BY <2>1, Zenon
    <3>2. QED
      BY <3>1
  <2>2. CASE ~(s > 0)
    <3>1. (s > 0) = FALSE
      BY <2>2
    <3>2. [timer EXCEPT !.remaining = s, !.running = s > 0]
            = [timer EXCEPT !.remaining = s, !.running = FALSE]
      BY <3>1, Zenon
    <3>3. QED
      BY <3>2
  <2>3. QED
    BY <2>1, <2>2
<1>1. ASSUME NEW s \in TimerValues, CountdownWrite(s)
      PROVE  s \in Nat /\ history' \in HistoryType
  <2>1. s \in Nat /\ 10 * s \in Nat
    BY CookControllerAssumption
  <2>2. /\ (IF s > 0 THEN "NONE" ELSE history.expiredAs) \in TimeoutActions \cup {"NONE"}
        /\ history.forced \in BOOLEAN /\ history.warm \in BOOLEAN
    BY DEF HistoryType
  <2>3. QED
    BY <1>1, <2>1, <2>2, CookControllerAssumption DEF CountdownWrite, Write, HistoryType
<1>2. ASSUME PlainWrite
      PROVE  history' \in HistoryType
  BY <1>2, WriteKeepsHistoryType DEF PlainWrite, HistoryType
<1>3. ASSUME NEW s \in TimerValues, PostTimer(s)
      PROVE  TypeOK'
  <2>1. s \in Nat /\ history' \in HistoryType
    BY <1>1, <1>3 DEF PostTimer
  <2>2. timer' \in TimerType
    BY <1>0, <1>3, <2>1 DEF PostTimer
  <2>3. QED
    BY <1>3, <2>1, <2>2 DEF PostTimer
<1>4. ASSUME NEW s \in TimerValues, ApplyTimer(s)
      PROVE  TypeOK'
  <2>1. s \in Nat /\ history' \in HistoryType
    BY <1>1, <1>4 DEF ApplyTimer
  <2>2. QED
    BY <1>4, <2>1 DEF ApplyTimer, NoLatch, TimerStatuses
<1>5. CASE PatchTimer
  <2>1. CASE \E s \in TimerValues :
               CountdownWrite(s) /\ timer' = [timer EXCEPT !.remaining = s, !.running = s > 0]
    <3>1. PICK s \in TimerValues :
            CountdownWrite(s) /\ timer' = [timer EXCEPT !.remaining = s, !.running = s > 0]
      BY <2>1
    <3>2. s \in Nat /\ history' \in HistoryType
      BY <1>1, <3>1
    <3>3. timer' \in TimerType
      BY <1>0, <3>1, <3>2
    <3>4. QED
      BY <1>5, <3>2, <3>3 DEF PatchTimer
  <2>2. CASE \E running \in BOOLEAN : PlainWrite /\ timer' = [timer EXCEPT !.running = running]
    BY <1>2, <1>5, <2>2 DEF PatchTimer
  <2>3. CASE \E status \in TimerStatuses :
               PlainWrite /\ timer' = [timer EXCEPT !.status = status]
    BY <1>2, <1>5, <2>3 DEF PatchTimer
  <2>4. QED
    BY <1>5, <2>1, <2>2, <2>3 DEF PatchTimer
<1>6. QED
  BY <1>3, <1>4, <1>5

\* Plugging a probe in or out leaves a probe.
LEMMA CookStaysTyped ==
    ASSUME NEW p \in CookType
    PROVE  Unplugged(p) \in CookType /\ PluggedIn(p) \in CookType
BY DEF Unplugged, PluggedIn, CookType, ProbeReading, CookStatuses

LEMMA FoodStaysTyped ==
    ASSUME NEW p \in FoodType
    PROVE  Unplugged(p) \in FoodType /\ PluggedIn(p) \in FoodType
BY DEF Unplugged, PluggedIn, FoodType, ProbeReading, FoodStatuses

LEMMA PatchedCookIsTyped ==
    ASSUME NEW p \in CookType
    PROVE  Patched(p, PitReadings, CookStatuses) \subseteq CookType
BY CookControllerAssumption DEF Patched, CookType, ProbeReading

LEMMA PatchedFoodIsTyped ==
    ASSUME NEW p \in FoodType
    PROVE  Patched(p, FoodReadings, FoodStatuses) \subseteq FoodType
BY CookControllerAssumption DEF Patched, FoodType, ProbeReading

LEMMA OtherCallsKeepTypes ==
    ASSUME TypeOK,
           \/ \E set \in CookSets : WriteCookSet(set)
           \/ \E f \in Foods, set \in FoodSets : WriteFoodSet(f, set)
           \/ WriteControl
           \/ ClearAlarms
           \/ \E version \in Personas : SetPersona(version)
           \/ \E reading \in PitReadings : SetPitTemp(reading)
           \/ \E f \in Foods, reading \in FoodReadings : SetFoodTemp(f, reading)
           \/ DisconnectProbe
           \/ ReconnectProbe
           \/ PatchProbe
           \/ Reset
    PROVE  TypeOK'
<1> USE CookControllerAssumption DEF TypeOK, TimerType, LatchType, CookType, PitType
<1>1. ASSUME PlainWrite
      PROVE  history' \in HistoryType
  BY <1>1, WriteKeepsHistoryType DEF PlainWrite, HistoryType
<1>2. ASSUME NEW d \in Nat, NEW forced \in BOOLEAN, NEW warm \in BOOLEAN,
             Write("NONE", d, forced, warm)
      PROVE  history' \in HistoryType
  BY <1>2, WriteKeepsHistoryType
<1>3. ASSUME NEW set \in CookSets, WriteCookSet(set)
      PROVE  TypeOK'
  <2>1. history' \in HistoryType
    BY <1>3 DEF WriteCookSet, Write, HistoryType
  <2>2. QED
    BY <1>3, <2>1 DEF WriteCookSet
<1>4. ASSUME NEW f \in Foods, NEW set \in FoodSets, WriteFoodSet(f, set)
      PROVE  TypeOK'
  BY <1>1, <1>4 DEF WriteFoodSet, FoodType
<1>5. CASE WriteControl
  <2>1. PICK field \in DOMAIN ControlValues : \E value \in ControlValues[field] :
               control' = [control EXCEPT ![field] = value]
    BY <1>5 DEF WriteControl
  <2>2. PICK value \in ControlValues[field] : control' = [control EXCEPT ![field] = value]
    BY <2>1
  <2>3. field \in {"timeoutAction", "ramp", "opendetect", "cookhold", "alarmdev", "propband"}
    OBVIOUS
  <2>4. control' \in ControlType
    BY <2>2, <2>3 DEF ControlType
  <2>5. QED
    BY <1>1, <1>5, <2>4 DEF WriteControl
<1>6. CASE ClearAlarms
  <2>1. history' \in HistoryType
    BY <1>2, <1>6 DEF ClearAlarms, HistoryType
  <2>2. timer' \in TimerType
    <3>1. CASE timer.remaining > 0
      BY <1>6, <3>1 DEF ClearAlarms, TimerStatuses
    <3>2. CASE timer.remaining = 0
      <4>1. (timer.remaining > 0) = FALSE
        BY <3>2
      <4>2. timer' = [timer EXCEPT !.status = "OK", !.running = FALSE]
        BY <1>6, <4>1, Zenon DEF ClearAlarms
      <4>3. QED
        BY <4>2 DEF TimerStatuses
    <3>3. QED
      BY <3>1, <3>2
  <2>3. QED
    BY <1>6, <2>1, <2>2 DEF ClearAlarms, NoLatch
<1>7. ASSUME NEW version \in Personas, SetPersona(version)
      PROVE  TypeOK'
  BY <1>1, <1>7 DEF SetPersona
<1>8. ASSUME NEW reading \in PitReadings, SetPitTemp(reading)
      PROVE  TypeOK'
  BY <1>1, <1>8 DEF SetPitTemp, ProbeReading
<1>9. ASSUME NEW f \in Foods, NEW reading \in FoodReadings, SetFoodTemp(f, reading)
      PROVE  TypeOK'
  BY <1>1, <1>9 DEF SetFoodTemp, FoodType, ProbeReading
<1>10. ASSUME NEW p \in FoodType
       PROVE  Unplugged(p) \in FoodType /\ PluggedIn(p) \in FoodType
  BY FoodStaysTyped, <1>10
<1>11. CASE DisconnectProbe
  <2>1. cook' \in CookType
    <3> HIDE DEF CookType
    <3>1. QED
      BY <1>11, CookStaysTyped DEF DisconnectProbe
  <2>2. food' \in [Foods -> FoodType]
    BY <1>10, <1>11 DEF DisconnectProbe
  <2>3. QED
    BY <1>1, <1>11, <2>1, <2>2 DEF DisconnectProbe
<1>12. CASE ReconnectProbe
  <2>1. cook' \in CookType
    <3> HIDE DEF CookType
    <3>1. QED
      BY <1>12, CookStaysTyped DEF ReconnectProbe
  <2>2. food' \in [Foods -> FoodType]
    BY <1>10, <1>12 DEF ReconnectProbe
  <2>3. QED
    BY <1>1, <1>12, <2>1, <2>2 DEF ReconnectProbe
<1>13. CASE Reset
  <2>1. history' \in HistoryType
    BY <1>2, <1>13 DEF Reset
  <2>2. /\ FactoryCook \in CookType
        /\ FactoryControl \in ControlType
        /\ IdleTimer \in TimerType
        /\ FreshPit(StartReading) \in PitType
        /\ NoLatch \in LatchType
    BY DEF FactoryCook, ProbeReading, CookStatuses, FactoryControl, ControlType,
           TimeoutActions, IdleTimer, TimerStatuses, FreshPit, NoLatch
  <2>3. FactoryFood \in [Foods -> FoodType]
    BY DEF FactoryFood, FoodType, ProbeReading, FoodStatuses
  <2>4. DemoFood \in [Foods -> FoodType]
    <3>1. \A f \in Foods : DemoFoodSet[f] \in Int
      BY DEF DemoFoodSet
    <3>2. QED
      BY <2>3, <3>1 DEF DemoFood, FoodType
  <2>5. output' \in Percent
    BY <1>13 DEF Reset, Percent
  <2>6. QED
    BY <1>13, <2>1, <2>2, <2>3, <2>4, <2>5 DEF Reset
<1>14. CASE PatchProbe
  <2>1. cook' \in CookType
    <3> HIDE DEF CookType
    <3>1. QED
      BY <1>14, PatchedCookIsTyped DEF PatchProbe
  <2>2. ASSUME NEW f \in Foods
        PROVE  Patched(food[f], FoodReadings, FoodStatuses) \subseteq FoodType
    BY PatchedFoodIsTyped
  <2>3. food' \in [Foods -> FoodType]
    BY <1>14, <2>2 DEF PatchProbe
  <2>4. QED
    BY <1>1, <1>14, <2>1, <2>3 DEF PatchProbe
<1>15. QED
  BY <1>3, <1>4, <1>5, <1>6, <1>7, <1>8, <1>9, <1>11, <1>12, <1>13, <1>14

LEMMA LoadProfileKeepsTypes ==
    ASSUME TypeOK, NEW set \in CookSets, NEW start \in PitReadings, NEW foodSet \in FoodSets,
           NEW meatStart \in FoodReadings, NEW plugged \in SUBSET Foods,
           NEW unplugged \in SUBSET Foods,
           LoadProfile(set, start, foodSet, meatStart, plugged, unplugged)
    PROVE  TypeOK'
<1> USE CookControllerAssumption DEF TypeOK, LoadProfile
<1>1. history' \in HistoryType
  BY WriteKeepsHistoryType DEF HistoryType
<1>2. food' \in [Foods -> FoodType]
  <2>1. foodSet \in Int /\ meatStart \in Int
    OBVIOUS
  <2>2. ASSUME NEW p \in FoodType
        PROVE  [p EXCEPT !.set = foodSet, !.connected = TRUE, !.temp = meatStart,
                         !.meat = TRUE] \in FoodType
    BY <2>1 DEF FoodType, ProbeReading
  <2>3. ASSUME NEW p \in FoodType
        PROVE  [Unplugged(p) EXCEPT !.set = foodSet, !.meat = FALSE] \in FoodType
    <3>1. Unplugged(p) \in FoodType
      BY FoodStaysTyped
    <3>2. QED
      BY <2>1, <3>1 DEF FoodType
  <2>4. QED
    BY <2>2, <2>3 DEF ProfileFoods
<1>3. QED
  BY <1>1, <1>2 DEF NoLatch, LatchType, FreshPit, PitType, CookType, ProbeReading

\* Every step of the controller, or a stutter, keeps the types.
LEMMA NextKeepsTypes == TypeOK /\ [Next]_vars => TypeOK'
<1> SUFFICES ASSUME TypeOK, [Next]_vars PROVE TypeOK'
  OBVIOUS
<1>1. CASE Ticks
  BY <1>1, TickKeepsTypes DEF Ticks
<1>2. CASE UNCHANGED vars
  BY <1>2 DEF vars, TypeOK
<1>3. CASE \E set \in CookSets, start \in PitReadings, foodSet \in FoodSets,
              meatStart \in FoodReadings, plugged, unplugged \in SUBSET Foods :
                 LoadProfile(set, start, foodSet, meatStart, plugged, unplugged)
  BY <1>3, LoadProfileKeepsTypes
<1>4. CASE \/ \E s \in TimerValues : PostTimer(s) \/ ApplyTimer(s)
           \/ PatchTimer
  BY <1>4, TimerWritesKeepTypes
<1>5. QED
  BY <1>1, <1>2, <1>3, <1>4, OtherCallsKeepTypes DEF Next

\* Every reachable state of the controller is well typed; in particular the fan
\* output the wire and the thermal model read is always a percentage
\* (control.py:72, compute_output_percent), for any proportional band.
THEOREM TypeCorrect == Spec => []TypeOK
BY InitHasTypes, NextKeepsTypes, PTL DEF Spec
=============================================================================
