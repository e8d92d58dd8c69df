---------------------- MODULE SessionRefinementProofs ----------------------
(***************************************************************************)
(* A session implements Timeline, for any scenarios and any number of      *)
(* runners: the step a runner applies is the one before which all those    *)
(* of smaller rank have been applied, and the invariant of the session     *)
(* says that its time has come.                                            *)
(***************************************************************************)
EXTENDS SessionProofs

\* Timeline's variables, as a session has them.
Written == [slot \in Slots |-> Steps(slot)]
Applied == [slot \in Slots |-> {Sorted(Steps(slot))[i] : i \in 1..runners[slot].index}]

LEMMA PromisedVariables ==
    Promised!timelineVars = <<Written, Applied, clock.now>>
BY DEF Promised!timelineVars, Written, Applied

LEMMA TimelinesAreWritten ==
    ASSUME NEW name \in DOMAIN Scenarios
    PROVE  Scenarios[name].timeline \in {<<>>} \cup {Scenarios[n].timeline : n \in DOMAIN Scenarios}
OBVIOUS

\* Of one runner: what it has applied depends on its name and index only.
LEMMA OthersKeepTimelines ==
    ASSUME NEW slot \in Slots, runners'[slot] = runners[slot]
    PROVE  Steps(slot)' = Steps(slot) /\ Written'[slot] = Written[slot]
           /\ Applied'[slot] = Applied[slot]
BY DEF Steps, Written, Applied

\* The clock's operations do not move it.
LEMMA ClockStands ==
    ASSUME NEW c, ClockRuns(c)
    PROVE  /\ Frozen(c).now = c.now /\ Resumed(c).now = c.now
           /\ \A speed \in Speeds : Scaled(c, speed).now = c.now
BY DEF Frozen, Resumed, Scaled, ClockRuns, ClockType

LEMMA TimeStepStands ==
    ASSUME NEW c, ClockRuns(c), NEW op, IsStep(op), op.kind = "time"
    PROVE  ClockAfter(op, c).now = c.now
<1>1. /\ \E v \in Speeds : op.scale \in {{}, {v}}
      /\ op.speed \in Speeds
  BY DEF IsStep
<1> DEFINE scaled  == IF op.scale = {} THEN c ELSE Scaled(c, CHOOSE v \in op.scale : TRUE)
           stopped == IF op.freeze THEN Frozen(scaled) ELSE scaled
<1>2. op.scale # {} => (CHOOSE v \in op.scale : TRUE) \in Speeds
  BY <1>1
<1>3. ClockRuns(scaled) /\ scaled.now = c.now
  BY <1>2, ClockOperations, ClockStands
<1> HIDE DEF scaled
<1>4. ClockRuns(stopped) /\ stopped.now = c.now
  BY <1>3, ClockOperations, ClockStands
<1>5. ClockAfter(op, c) \in {stopped, Resumed(stopped), Scaled(stopped, op.speed)}
  BY DEF ClockAfter, scaled
<1> HIDE DEF stopped
<1>6. QED
  BY <1>1, <1>4, <1>5, ClockStands

-----------------------------------------------------------------------------
\* While nobody loads a scenario or applies a step, only time passes.
LEMMA OnlyTimePasses ==
    ASSUME ControlOK, ControlOK', runners' = runners
    PROVE  Promised!Next
<1>1. clock'.now \in Nat
  BY SessionAssumption DEF ControlOK, ClockRuns, ClockType
<1>2. Written' = Written /\ Applied' = Applied
  BY DEF Written, Applied, Steps
<1>3. QED
  BY <1>1, <1>2 DEF Promised!Next, Promised!TimePasses, Written, Applied

\* A runner made anew, or dropped, has applied nothing.
LEMMA RunnerLoads ==
    ASSUME ControlOK, NEW slot \in Slots, NEW name \in DOMAIN Scenarios \cup {NoScenario},
           runners' = [runners EXCEPT ![slot] = [name |-> name, index |-> 0]],
           clock' = clock
    PROVE  Promised!Next
<1>1. /\ runners'[slot] = [name |-> name, index |-> 0]
      /\ \A s \in Slots \ {slot} : runners'[s] = runners[s]
  BY DEF ControlOK, RunnersType
<1>2. \A s \in Slots \ {slot} : Written'[s] = Written[s] /\ Applied'[s] = Applied[s]
  BY <1>1, OthersKeepTimelines
<1>3. Written'[slot] \in {<<>>} \cup {Scenarios[n].timeline : n \in DOMAIN Scenarios}
  BY <1>1, TimelinesAreWritten DEF Written, Steps
<1>4. Applied'[slot] = {}
  BY <1>1 DEF Applied
<1>5. /\ Written' = [Written EXCEPT ![slot] = Written'[slot]]
      /\ Applied' = [Applied EXCEPT ![slot] = {}]
  BY <1>2, <1>4 DEF Written, Applied
<1>6. Promised!Load(slot)
  BY <1>3, <1>5 DEF Promised!Load, Written, Applied
<1>7. QED
  BY <1>6 DEF Promised!Next

\* The step applied is the next by its rank: all before it are applied, itself
\* is not, and its time has come.
LEMMA RunnerApplies ==
    ASSUME ControlOK, NEW slot \in Slots, ApplyStep(slot)
    PROVE  Promised!Next
<1> DEFINE steps == Steps(slot)
           k     == runners[slot].index
<1>1. /\ ~Done(slot) /\ NextStep(slot).at <= clock.now
      /\ Apply(NextStep(slot))
      /\ runners' = [runners EXCEPT ![slot].index = @ + 1]
  BY DEF ApplyStep, ControlOK, StepsAreOnTime
<1>2. IsTimeline(steps) /\ IsStep(NextStep(slot))
  BY <1>1, StepsAreATimeline, NextStepIsAStep DEF ControlOK
<1>3. k \in Nat /\ k + 1 \in 1..Len(steps)
  BY <1>1, NextStepIsAStep DEF ControlOK, RunnersType
<1>4. PICK p \in DOMAIN steps : p = Sorted(steps)[k + 1] /\ Rank(steps, p) = k
  <2> HIDE DEF steps, k
  <2>1. \E p \in DOMAIN steps : p = Sorted(steps)[k + 1] /\ Rank(steps, p) = (k + 1) - 1
    BY <1>2, <1>3, SortedIsPermutation
  <2>2. (k + 1) - 1 = k
    BY <1>3
  <2>3. QED
    BY <2>1, <2>2
<1>5. steps[p].at <= clock.now
  BY <1>1, <1>4 DEF NextStep
<1>6. clock'.now = clock.now
  BY <1>1, <1>2, TimeStepStands DEF Apply, WithProfile, ControlOK
<1>7. /\ runners'[slot].name = runners[slot].name
      /\ runners'[slot].index = k + 1
      /\ \A s \in Slots \ {slot} : runners'[s] = runners[s]
  BY <1>1 DEF ControlOK, RunnersType
<1>8. Written' = Written
  BY <1>7 DEF Written, Steps
<1> HIDE DEF k, steps
<1>9. \A i \in 1..k : i \in 1..Len(steps) /\ Rank(steps, Sorted(steps)[i]) = i - 1
  BY <1>2, <1>3, SortedIsPermutation DEF IsTimeline
<1>10. p \notin {Sorted(steps)[i] : i \in 1..k}
  BY <1>3, <1>4, <1>9
<1>11. ASSUME NEW q \in DOMAIN steps, SortsBefore(steps, q, p)
       PROVE  q \in {Sorted(steps)[i] : i \in 1..k}
  <2>1. Rank(steps, q) < k /\ Rank(steps, q) + 1 \in 1..Len(steps)
        /\ Sorted(steps)[Rank(steps, q) + 1] = q
    BY <1>2, <1>4, <1>11, RanksAreOrdered, SortedIsPermutation
  <2>2. Rank(steps, q) \in Int /\ Rank(steps, q) >= 0
    BY <1>2, RanksAreOrdered DEF IsTimeline
  <2>3. Rank(steps, q) + 1 \in 1..k
    BY <1>3, <2>1, <2>2
  <2>4. QED
    BY <2>1, <2>3
<1>12. Applied'[slot] = Applied[slot] \cup {p}
  <2>1. Applied'[slot] = {Sorted(steps)[i] : i \in 1..(k + 1)}
    BY <1>7 DEF Applied, Steps, steps
  <2>2. Applied[slot] = {Sorted(steps)[i] : i \in 1..k}
    BY DEF Applied, steps, k
  <2>3. 1..(k + 1) = 1..k \cup {k + 1}
    BY <1>3
  <2>4. QED
    BY <1>4, <2>1, <2>2, <2>3
<1>13. Applied' = [Applied EXCEPT ![slot] = @ \cup {p}]
  BY <1>7, <1>12, OthersKeepTimelines DEF Applied
<1>14. Written[slot] = steps /\ Applied[slot] = {Sorted(steps)[i] : i \in 1..k}
  BY DEF Written, Applied, steps, k
<1>15. \A q \in DOMAIN steps : Promised!Before(steps, q, p) => SortsBefore(steps, q, p)
  BY DEF Promised!Before, SortsBefore
<1>16. Promised!Apply(slot, p)
  BY <1>5, <1>6, <1>8, <1>10, <1>11, <1>13, <1>14, <1>15 DEF Promised!Apply, Written, Applied
<1>17. p \in DOMAIN Written[slot]
  BY <1>4, <1>14
<1>18. \E pos \in DOMAIN Written[slot] : Promised!Apply(slot, pos)
  BY <1>16, <1>17
<1>19. QED
  BY <1>18 DEF Promised!Next, Written

-----------------------------------------------------------------------------
LEMMA StepRefines ==
    ASSUME ControlOK, ControlOK', [SessionNext]_sessionVars
    PROVE  [Promised!Next]_(Promised!timelineVars)
<1>1. CASE \E slot \in Slots : ApplyStep(slot)
  BY <1>1, RunnerApplies
<1>2. CASE \E slot \in Slots : \E name \in DOMAIN Scenarios : LoadScenario(slot, name)
  BY <1>2, RunnerLoads DEF LoadScenario
<1>3. CASE \E slot \in Slots : StopScenario(slot)
  BY <1>3, RunnerLoads DEF StopScenario
<1>4. CASE runners' = runners
  BY <1>4, OnlyTimePasses
<1>5. QED
  BY <1>1, <1>2, <1>3, <1>4, SessionStepCases
     DEF TickLoop, Substep, StepScenario, Advance, SetClock, Patch, ResetDevice, Snapshot,
         Restore, SetProfile, Write, Post, FaultAndProbeCalls, sessionVars

LEMMA InitRefines == SessionInit => Promised!Init
<1> SUFFICES ASSUME SessionInit PROVE Promised!Init
  OBVIOUS
<1>1. \A slot \in Slots : runners[slot] = [name |-> NoScenario, index |-> 0]
  BY DEF SessionInit
<1>2. Written = [slot \in Slots |-> <<>>] /\ Applied = [slot \in Slots |-> {}]
  BY <1>1 DEF Written, Applied, Steps
<1>3. clock.now \in Nat
  BY InitControls, SessionAssumption DEF ControlOK, ClockRuns, ClockType
<1>4. QED
  BY <1>2, <1>3 DEF Promised!Init, Written, Applied

\* Whatever the other runners, the clock's calls and restores do, each runner
\* applies its timeline's steps once each, in order and not early.
THEOREM KeepsTimelines == SessionSpec => RunnersKeepTimelines
BY InitRefines, StepRefines, ControlIsKept, PTL
   DEF SessionSpec, RunnersKeepTimelines, Promised!Spec
=============================================================================
