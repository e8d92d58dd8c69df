-------------------------- MODULE MCCookController --------------------------
(***************************************************************************)
(* Instances of CookController for TLC.  The temperatures are chosen       *)
(* around the thresholds of the control law: the 32 degree shutdown        *)
(* setpoint, the edges of the proportional band, of the ramp window and of *)
(* the alarm band.                                                         *)
(***************************************************************************)
EXTENDS CookController

\* The timer runs: every timeout action, a hot and a cold pit, COOK_RAMP on or off.
TimerControl ==
    [timeoutAction |-> TimeoutActions, ramp |-> Foods \cup {"OFF"}, opendetect |-> {},
     cookhold |-> {2000}, alarmdev |-> {}, propband |-> {}]

\* The pit runs: everything that shapes output, lid and alarms.
PitControl ==
    [timeoutAction |-> {"SHUTDOWN"}, ramp |-> Foods \cup {"OFF"}, opendetect |-> BOOLEAN,
     cookhold |-> {1000}, alarmdev |-> {100}, propband |-> {0}]
=============================================================================
