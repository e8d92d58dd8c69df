--------------------------- MODULE MCDevicePlane ---------------------------
(***************************************************************************)
(* Instances of DevicePlane for TLC.                                       *)
(***************************************************************************)
EXTENDS DevicePlane

CONSTANTS food1

Template(id, duration, count, chance) ==
    [id |-> id, duration |-> duration, count |-> count, chance |-> chance,
     reset |-> FALSE, probe |-> food1]

\* Faults that let the requests overlap under a cap of one connection, and an
\* outage of one sub-step.
Overlaps ==
    {Template("net.conn_cap", Unlimited, Unlimited, "always"),
     Template("net.latency", Unlimited, 2, "maybe"),
     Template("http.slowloris", Unlimited, Unlimited, "maybe"),
     Template("net.blackhole", Unlimited, 1, "always"),
     Template("power.reboot", 4, Unlimited, "always")}

\* The plane reads neither the configuration nor the probes: the requests and the
\* admin calls that change them add nothing but states to it.
OnlyThePlane == UNCHANGED <<config, probes>>

\* A blackhole for one request, then a cap.
Leaks ==
    {Template("net.blackhole", Unlimited, 1, "always"),
     Template("net.conn_cap", Unlimited, Unlimited, "always")}
=============================================================================
