----------------------------- MODULE ControlLaw -----------------------------
(***************************************************************************)
(* The pure part of the CyberQ control law (core/control.py): the fan      *)
(* output, the ramped setpoint, open-lid detection and the probe statuses, *)
(* as operators on the values one control tick reads.                      *)
(*                                                                         *)
(* Temperatures and setpoints are tenths of a degree Fahrenheit and tick   *)
(* lengths are tenths of a simulated second, so that every value here is   *)
(* an integer.                                                             *)
(***************************************************************************)
EXTENDS Integers, Rounding

CONSTANTS RampWindow,   \* ControlConstants.ramp_window_tenths
          HoldMargin,   \* ControlConstants.hold_margin_tenths
          OpenDropRate, \* ControlConstants.open_drop_rate_tenths_per_s
          NoReading     \* None: the probe has no temperature

ASSUME ControlLawAssumption ==
    /\ RampWindow \in Nat \ {0}
    /\ HoldMargin \in Nat
    /\ OpenDropRate \in Nat
    /\ NoReading \notin Int

Percent == 0..100

\* Mutant: no clamp at a whole proportional band.
OutputPercentUnclamped(temp, target, band) ==
    IF target <= temp THEN 0 ELSE RoundHalfEven(100 * (target - temp), band)

\* compute_output_percent: proportional below the setpoint, bang-bang when the
\* band is degenerate.
OutputPercent(temp, target, band) ==
    LET error == target - temp
    IN  IF error <= 0 THEN 0
        ELSE IF error >= band THEN 100
        ELSE RoundHalfEven(100 * error, band)

\* Mutant: the interpolation carried on past the food's setpoint.
RampTargetPastDone(cookSet, food) ==
    LET hold == food.set + HoldMargin
        gap  == food.set - food.temp
    IN  IF gap >= RampWindow THEN cookSet
        ELSE RoundHalfEven(RampWindow * hold + gap * (cookSet - hold), RampWindow)

\* The setpoint COOK_RAMP aims at for a food probe that can drive it.
RampTarget(cookSet, food) ==
    LET hold == food.set + HoldMargin
        gap  == food.set - food.temp
    IN  IF gap <= 0 THEN hold
        ELSE IF gap >= RampWindow THEN cookSet
        ELSE RoundHalfEven(RampWindow * hold + gap * (cookSet - hold), RampWindow)

\* effective_cook_set: COOK_SET unless COOK_RAMP names a probe with a reading.
EffectiveCookSet(cookSet, ramp, food) ==
    IF \/ ramp = "OFF"
       \/ ~food[ramp].connected
       \/ food[ramp].temp = NoReading
    THEN cookSet
    ELSE RampTarget(cookSet, food[ramp])

\* Mutant: a fall opens the lid above the target too.
LidOpenAfterAnyFall(lidOpen, opendetect, temp, prev, dt, target) ==
    /\ opendetect
    /\ IF prev = NoReading
       THEN lidOpen
       ELSE IF lidOpen THEN temp < prev
                       ELSE 10 * (prev - temp) >= OpenDropRate * dt

\* _update_open_lid: a fast fall below the target opens the lid, and it stays
\* open until the pit stops falling or is back at the target.
LidOpenAfter(lidOpen, opendetect, temp, prev, dt, target) ==
    /\ opendetect
    /\ IF prev = NoReading
       THEN lidOpen
       ELSE /\ temp < target
            /\ IF lidOpen THEN temp < prev
                          ELSE 10 * (prev - temp) >= OpenDropRate * dt

\* _update_cook_status: the deviation alarm counts only once armed, and LOW
\* not while the lid is open.
CookStatus(connected, temp, set, alarmdev, armed, lidOpen, hold) ==
    IF ~connected                                              THEN "ERROR"
    ELSE IF armed /\ temp - set >= alarmdev                    THEN "HIGH"
    ELSE IF armed /\ set - temp >= alarmdev /\ ~lidOpen        THEN "LOW"
    ELSE IF hold                                               THEN "HOLD"
    ELSE "OK"

\* _update_food_statuses, for one food probe.
FoodStatus(connected, temp, set) ==
    IF ~connected \/ temp = NoReading THEN "ERROR"
    ELSE IF temp >= set               THEN "DONE"
    ELSE "OK"
=============================================================================
