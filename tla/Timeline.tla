------------------------------ MODULE Timeline ------------------------------
(***************************************************************************)
(* What scenarios promise (docs/scenarios.md): of every loaded timeline    *)
(* the steps are applied once each, in the order of their times, steps of  *)
(* one time as they are written, and none before its time has come.        *)
(* Several may be loaded over one clock, and the clock is anybody's.       *)
(***************************************************************************)
EXTENDS Integers, Sequences

CONSTANTS
    Runners,  \* who may load a timeline
    Timelines \* what may be loaded: sequences of steps with a time `at`

VARIABLES
    timeline, \* what each has loaded
    applied,  \* the positions of the steps each has applied
    now       \* the simulated time

timelineVars == <<timeline, applied, now>>

\* Whether step p of a timeline comes before step q.
Before(steps, p, q) ==
    \/ steps[p].at < steps[q].at
    \/ steps[p].at = steps[q].at /\ p < q

Init ==
    /\ timeline = [r \in Runners |-> <<>>]
    /\ applied = [r \in Runners |-> {}]
    /\ now \in Nat

Load(r) ==
    /\ \E steps \in Timelines : timeline' = [timeline EXCEPT ![r] = steps]
    /\ applied' = [applied EXCEPT ![r] = {}]
    /\ now' = now

Apply(r, p) ==
    /\ p \notin applied[r]
    /\ timeline[r][p].at <= now
    /\ \A q \in DOMAIN timeline[r] : Before(timeline[r], q, p) => q \in applied[r]
    /\ applied' = [applied EXCEPT ![r] = @ \cup {p}]
    /\ UNCHANGED <<timeline, now>>

TimePasses ==
    /\ now' \in Nat
    /\ UNCHANGED <<timeline, applied>>

Next ==
    \/ TimePasses
    \/ \E r \in Runners : Load(r) \/ \E p \in DOMAIN timeline[r] : Apply(r, p)

Spec == Init /\ [][Next]_timelineVars
=============================================================================
