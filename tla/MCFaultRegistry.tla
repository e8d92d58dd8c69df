-------------------------- MODULE MCFaultRegistry --------------------------
(***************************************************************************)
(* Instances of FaultRegistry for TLC.  Durations are short multiples of   *)
(* the sub-step, so that outages overlap, and the default outage lengths   *)
(* stand in the same order as in the code.                                 *)
(***************************************************************************)
EXTENDS FaultRegistry

CONSTANTS food1

Power(id, duration, count, chance, reset) ==
    [id |-> id, duration |-> duration, count |-> count, chance |-> chance,
     reset |-> reset, probe |-> food1]

Other(id, duration, count, chance) == Power(id, duration, count, chance, FALSE)

\* Outages that overlap, beside faults of the other families.  The resetting
\* brownout starts at once, and outlasts by two sub-steps what is left of a
\* reboot it may find in force.
OverlappingOutages ==
    {Power("power.brownout", 6, Unlimited, "always", TRUE),
     Power("power.reboot", 4, Unlimited, "always", FALSE),
     Power("power.reboot", Unlimited, Unlimited, "maybe", FALSE),
     Other("probe.open", 3, Unlimited, "maybe"),
     Other("probe.open", Unlimited, 2, "always"),
     Other("http.error", Unlimited, 2, "always"),
     Other("http.error", Unlimited, 0, "maybe"),
     Other("http.error", 2, Unlimited, "never")}

\* A resetting brownout that fires only with a probability.
LateBrownout ==
    {Power("power.brownout", 4, Unlimited, "maybe", TRUE)}

\* A probe opened for a while.
ProbeDrama ==
    {Other("probe.open", 4, Unlimited, "always")}

\* Of these instances only the late brownout's may lose a reset.
ASSUME LateBrownoutDoesNotOutlast == ResetsOutlast <=> Templates # LateBrownout
=============================================================================
