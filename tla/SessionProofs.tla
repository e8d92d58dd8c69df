--------------------------- MODULE SessionProofs ---------------------------
(***************************************************************************)
(* Proofs about a session, for any scenarios, speeds, forms, writes and    *)
(* fragments, and any number of runners: it is well typed, the clock       *)
(* resumes, steps are on time, outages end, writes stay within the limits, *)
(* a form is last-wins, and without a restore durations hold.              *)
(***************************************************************************)
EXTENDS Session, FaultRegistryProofs, WireFormProofs, FiniteSetTheorems, TLAPS

-----------------------------------------------------------------------------
(* Sorting a timeline.                                                      *)

IsTimeline(steps) ==
    /\ Len(steps) \in Nat
    /\ DOMAIN steps = 1..Len(steps)
    /\ \A i \in 1..Len(steps) : steps[i].at \in Nat

\* How many steps come before step p.
Rank(steps, p) == Cardinality({q \in DOMAIN steps : SortsBefore(steps, q, p)})

\* Two steps are in one order or the other.
LEMMA SortsBeforeIsTotal ==
    ASSUME NEW steps, IsTimeline(steps)
    PROVE  /\ \A p \in DOMAIN steps : ~SortsBefore(steps, p, p)
           /\ \A p, q \in DOMAIN steps :
                 p # q => SortsBefore(steps, p, q) \/ SortsBefore(steps, q, p)
           /\ \A p, q, r \in DOMAIN steps :
                 SortsBefore(steps, p, q) /\ SortsBefore(steps, q, r) => SortsBefore(steps, p, r)
<1>1. \A p \in DOMAIN steps : steps[p].at \in Nat /\ p \in Nat
  BY DEF IsTimeline
<1> QED
  BY <1>1 DEF SortsBefore

LEMMA TimelineIsFinite ==
    ASSUME NEW steps, IsTimeline(steps)
    PROVE  IsFiniteSet(DOMAIN steps) /\ Cardinality(DOMAIN steps) = Len(steps)
<1>1. 1 \in Int /\ Len(steps) \in Int /\ Len(steps) \in Nat /\ DOMAIN steps = 1..Len(steps)
  BY DEF IsTimeline
<1>2. /\ IsFiniteSet(1..Len(steps))
      /\ Cardinality(1..Len(steps)) = IF 1 > Len(steps) THEN 0 ELSE Len(steps) - 1 + 1
  BY <1>1, FS_Interval
<1>3. QED
  BY <1>1, <1>2

\* A step that comes before another has the smaller rank.
LEMMA RanksAreOrdered ==
    ASSUME NEW steps, IsTimeline(steps)
    PROVE  /\ \A p \in DOMAIN steps : Rank(steps, p) \in 0..(Len(steps) - 1)
           /\ \A p, q \in DOMAIN steps :
                 SortsBefore(steps, p, q) => Rank(steps, p) < Rank(steps, q)
<1> DEFINE N == Len(steps)
           Earlier(p) == {q \in DOMAIN steps : SortsBefore(steps, q, p)}
<1>1. N \in Nat /\ IsFiniteSet(DOMAIN steps) /\ Cardinality(DOMAIN steps) = N
  BY TimelineIsFinite DEF IsTimeline
<1>2. \A p \in DOMAIN steps : /\ IsFiniteSet(Earlier(p))
                              /\ Cardinality(Earlier(p)) \in Nat
  BY <1>1, FS_Subset, FS_CardinalityType
<1>3. ASSUME NEW p \in DOMAIN steps
      PROVE  Rank(steps, p) \in 0..(N - 1)
  <2>1. IsFiniteSet(DOMAIN steps \ {p}) /\ Cardinality(DOMAIN steps \ {p}) = N - 1
    BY <1>1, FS_RemoveElement
  <2>2. Earlier(p) \subseteq DOMAIN steps \ {p}
    BY SortsBeforeIsTotal
  <2>3. Cardinality(Earlier(p)) <= N - 1
    BY <2>1, <2>2, FS_Subset
  <2>4. N - 1 \in Int
    BY <1>1
  <2>5. QED
    BY <1>2, <2>3, <2>4 DEF Rank
<1>4. ASSUME NEW p \in DOMAIN steps, NEW q \in DOMAIN steps, SortsBefore(steps, p, q)
      PROVE  Rank(steps, p) < Rank(steps, q)
  <2>1. Earlier(p) \in SUBSET Earlier(q)
    BY <1>4, SortsBeforeIsTotal
  <2>2. p \in Earlier(q) /\ p \notin Earlier(p)
    BY <1>4, SortsBeforeIsTotal
  <2>3. /\ Cardinality(Earlier(p)) <= Cardinality(Earlier(q))
        /\ Cardinality(Earlier(q)) # Cardinality(Earlier(p))
    BY <1>2, <2>1, <2>2, FS_Subset
  <2>4. QED
    BY <1>2, <2>3 DEF Rank
<1>5. QED
  BY <1>3, <1>4

\* So the positions in the order of their times are a permutation.
LEMMA SortedIsPermutation ==
    ASSUME NEW steps, IsTimeline(steps)
    PROVE  /\ Sorted(steps) \in [1..Len(steps) -> DOMAIN steps]
           /\ \A i \in 1..Len(steps) : Rank(steps, Sorted(steps)[i]) = i - 1
           /\ \A p \in DOMAIN steps : Rank(steps, p) + 1 \in 1..Len(steps)
                                      /\ Sorted(steps)[Rank(steps, p) + 1] = p
<1> DEFINE N == Len(steps)
           rank == [p \in DOMAIN steps |-> Rank(steps, p)]
<1>1. N \in Nat /\ IsFiniteSet(DOMAIN steps) /\ Cardinality(DOMAIN steps) = N /\ DOMAIN steps = 1..N
  BY TimelineIsFinite DEF IsTimeline
<1>2. IsFiniteSet(0..(N - 1)) /\ Cardinality(0..(N - 1)) = N
  <2>1. 0 \in Int /\ N - 1 \in Int
    BY <1>1
  <2>2. /\ IsFiniteSet(0..(N - 1))
        /\ Cardinality(0..(N - 1)) = IF 0 > N - 1 THEN 0 ELSE N - 1 - 0 + 1
    BY <2>1, FS_Interval
  <2>3. QED
    BY <1>1, <2>2
<1>3. \A p, q \in DOMAIN steps : Rank(steps, p) = Rank(steps, q) => p = q
  <2>1. \A p \in DOMAIN steps : Rank(steps, p) \in Int
    BY <1>1, RanksAreOrdered
  <2>2. QED
    BY <2>1, RanksAreOrdered, SortsBeforeIsTotal
<1>4. rank \in Injection(DOMAIN steps, 0..(N - 1))
  <2>1. \A p \in DOMAIN steps : rank[p] = Rank(steps, p)
    OBVIOUS
  <2>2. rank \in [DOMAIN steps -> 0..(N - 1)]
    BY RanksAreOrdered
  <2> HIDE DEF rank
  <2>3. QED
    BY <1>3, <2>1, <2>2 DEF Injection, IsInjective
<1>5. rank \in Surjection(DOMAIN steps, 0..(N - 1))
  BY <1>1, <1>2, <1>4, FS_Injection
<1>6. \A i \in 1..N : \E p \in DOMAIN steps : Rank(steps, p) = i - 1
  <2>1. \A i \in 1..N : i - 1 \in 0..(N - 1)
    BY <1>1
  <2>2. QED
    BY <1>5, <2>1 DEF Surjection
<1>7. Sorted(steps) = [i \in 1..N |-> CHOOSE p \in DOMAIN steps : Rank(steps, p) = i - 1]
  BY <1>1 DEF Sorted, Rank
<1>8. \A i \in 1..N : /\ Sorted(steps)[i] \in DOMAIN steps
                      /\ Rank(steps, Sorted(steps)[i]) = i - 1
  BY <1>6, <1>7
<1>9. Sorted(steps) \in [1..N -> DOMAIN steps]
  BY <1>7, <1>8
<1>10. ASSUME NEW p \in DOMAIN steps
       PROVE  Rank(steps, p) + 1 \in 1..N /\ Sorted(steps)[Rank(steps, p) + 1] = p
  <2> DEFINE i == Rank(steps, p) + 1
  <2>1. Rank(steps, p) \in 0..(N - 1)
    BY RanksAreOrdered
  <2>2. i \in 1..N /\ i - 1 = Rank(steps, p)
    BY <1>1, <2>1
  <2> HIDE DEF i
  <2>3. Sorted(steps)[i] \in DOMAIN steps /\ Rank(steps, Sorted(steps)[i]) = Rank(steps, p)
    BY <1>8, <2>2
  <2>4. i \in 1..N /\ Sorted(steps)[i] = p
    BY <1>3, <2>2, <2>3
  <2>5. QED
    BY <2>4 DEF i
<1>11. QED
  BY <1>8, <1>9, <1>10

-----------------------------------------------------------------------------
(* The steps of a session.                                                  *)

\* What a call may set the clock to.
ClockCall(c) == c \in {Scaled(clock, speed) : speed \in Speeds} \cup {Frozen(clock), Resumed(clock)}

LEMMA SessionStepCases ==
    ASSUME [SessionNext]_sessionVars
    PROVE  \/ TickLoop
           \/ Substep
           \/ \E slot \in Slots : ApplyStep(slot)
           \/ \E slot \in Slots : \E name \in DOMAIN Scenarios : LoadScenario(slot, name)
           \/ \E slot \in Slots : StepScenario(slot)
           \/ \E slot \in Slots : StopScenario(slot)
           \/ \E n \in Advances : Advance(n)
           \/ \E c : ClockCall(c) /\ SetClock(c)
           \/ \E values \in Fragments : Patch(values)
           \/ ResetDevice
           \/ Snapshot
           \/ \E blob \in saved : \E stop \in Stops : \E ids \in SUBSET DOMAIN blob.faults :
                 Restore(blob, stop, ids)
           \/ \E profile \in Profiles : SetProfile(profile)
           \/ \E w \in Writes : Write(w)
           \/ \E form \in Forms : Post(form)
           \/ FaultAndProbeCalls
           \/ UNCHANGED sessionVars
<1>1. SessionNext => \/ Running
                     \/ \E slot \in Slots : ScenarioCalls(slot)
                     \/ TimeCalls
                     \/ StateCalls
                     \/ FaultAndProbeCalls
                     \/ \E w \in Writes : Write(w)
                     \/ \E form \in Forms : Post(form)
  BY DEF SessionNext, Calls
<1>2. TimeCalls => (\E n \in Advances : Advance(n)) \/ (\E c : ClockCall(c) /\ SetClock(c))
  BY DEF TimeCalls, ClockCall
<1>3. Restores => \E blob \in saved : \E stop \in Stops : \E ids \in SUBSET DOMAIN blob.faults :
                     Restore(blob, stop, ids)
  BY DEF Restores, Stops
<1>4. QED
  BY <1>1, <1>2, <1>3 DEF Running, ScenarioCalls, StateCalls

-----------------------------------------------------------------------------
(* The clock.                                                               *)

ClockType == [now : 0..MaxNow, speed : Speeds, resume : Speeds]

ClockRuns(c) ==
    /\ c \in ClockType
    /\ c.resume > 0
    /\ c.speed > 0 => c.resume = c.speed

LEMMA ClockOperations ==
    ASSUME NEW c, ClockRuns(c)
    PROVE  /\ ClockRuns(Frozen(c))
           /\ ClockRuns(Resumed(c))
           /\ \A speed \in Speeds : ClockRuns(Scaled(c, speed))
           /\ ClockRuns([c EXCEPT !.now = CountUpTo(@, MaxNow)])
<1>1. 0 \in Speeds /\ Speeds \subseteq Nat /\ MaxNow \in Nat
  BY SessionAssumption
<1>2. c \in ClockType /\ c.now \in 0..MaxNow /\ c.speed \in Nat /\ c.resume \in Nat
  BY <1>1 DEF ClockRuns, ClockType
<1>3. ClockRuns(Frozen(c))
  <2> DEFINE prior == IF c.speed > 0 THEN c.speed ELSE c.resume
  <2>1. prior \in Speeds /\ prior > 0
    BY <1>1, <1>2 DEF ClockRuns, ClockType
  <2>2. Frozen(c) = [[c EXCEPT !.resume = prior] EXCEPT !.speed = 0]
    BY Zenon DEF Frozen
  <2> HIDE DEF prior
  <2>3. [c EXCEPT !.resume = prior] \in ClockType
    BY <1>2, <2>1 DEF ClockType
  <2>4. Frozen(c) \in ClockType /\ Frozen(c).resume = prior /\ Frozen(c).speed = 0
    BY <1>1, <1>2, <2>1, <2>2, <2>3 DEF ClockType
  <2>5. QED
    BY <2>1, <2>4 DEF ClockRuns
<1>4. ClockRuns(Resumed(c))
  BY <1>1, <1>2 DEF ClockRuns, ClockType, Resumed
<1>5. ASSUME NEW speed \in Speeds
      PROVE  ClockRuns(Scaled(c, speed))
  BY <1>1, <1>2 DEF ClockRuns, ClockType, Scaled
<1>6. CountUpTo(c.now, MaxNow) \in 0..MaxNow
  BY <1>1, <1>2, CountStaysBounded
<1>7. ClockRuns([c EXCEPT !.now = CountUpTo(@, MaxNow)])
  BY <1>2, <1>6 DEF ClockRuns, ClockType
<1>8. QED
  BY <1>3, <1>4, <1>5, <1>7

LEMMA NewClockRuns ==
    ASSUME NEW speed \in Speeds, NEW now \in 0..MaxNow
    PROVE  ClockRuns(NewClock(speed, now))
BY SessionAssumption DEF NewClock, ClockRuns, ClockType, RealTime

LEMMA TimeStepKeepsClock ==
    ASSUME NEW c, ClockRuns(c), NEW op, IsStep(op), op.kind = "time"
    PROVE  ClockRuns(ClockAfter(op, c))
<1>1. /\ \E v \in Speeds : op.scale \in {{}, {v}}
      /\ op.speed \in Speeds
  BY DEF IsStep
<1> DEFINE scaled  == IF op.scale = {} THEN c ELSE Scaled(c, CHOOSE v \in op.scale : TRUE)
           stopped == IF op.freeze THEN Frozen(scaled) ELSE scaled
<1>2. ClockRuns(scaled)
  <2>1. op.scale # {} => (CHOOSE v \in op.scale : TRUE) \in Speeds
    BY <1>1
  <2>2. QED
    BY <2>1, ClockOperations
<1> HIDE DEF scaled
<1>3. ClockRuns(stopped)
  BY <1>2, ClockOperations
<1>4. ClockAfter(op, c) \in {stopped, Resumed(stopped), Scaled(stopped, op.speed)}
  BY DEF ClockAfter, scaled
<1> HIDE DEF stopped
<1>5. QED
  BY <1>1, <1>3, <1>4, ClockOperations

-----------------------------------------------------------------------------
(* Timelines, as they are loaded.                                           *)

RunnersType == [Slots -> [name : DOMAIN Scenarios \cup {NoScenario}, index : Nat]]

LEMMA StepsAreATimeline ==
    ASSUME runners \in RunnersType, NEW slot \in Slots
    PROVE  /\ IsTimeline(Steps(slot))
           /\ \A i \in 1..Len(Steps(slot)) : IsStep(Steps(slot)[i])
<1>1. CASE runners[slot].name = NoScenario
  BY <1>1 DEF Steps, IsTimeline
<1>2. CASE runners[slot].name # NoScenario
  <2> DEFINE steps == Scenarios[runners[slot].name].timeline
  <2>1. IsScenario(Scenarios[runners[slot].name])
    BY <1>2, SessionAssumption DEF RunnersType
  <2>2. /\ Len(steps) \in Nat
        /\ steps = [i \in 1..Len(steps) |-> steps[i]]
        /\ \A i \in DOMAIN steps : IsStep(steps[i])
    BY <2>1 DEF IsScenario
  <2>3. Steps(slot) = steps
    BY <1>2 DEF Steps
  <2> HIDE DEF steps
  <2>4. DOMAIN steps = 1..Len(steps)
    BY <2>2
  <2>5. \A i \in DOMAIN steps : steps[i].at \in Nat
    BY <2>2, SessionAssumption DEF IsStep
  <2>6. QED
    BY <2>2, <2>3, <2>4, <2>5 DEF IsTimeline
<1>3. QED
  BY <1>1, <1>2

\* The next step of a runner that is not done is a step of its timeline.
LEMMA NextStepIsAStep ==
    ASSUME runners \in RunnersType, NEW slot \in Slots, ~Done(slot)
    PROVE  /\ IsStep(NextStep(slot))
           /\ NextStep(slot).at \in 0..MaxNow
           /\ runners[slot].index + 1 \in 1..Len(Steps(slot))
<1>1. IsTimeline(Steps(slot)) /\ \A i \in 1..Len(Steps(slot)) : IsStep(Steps(slot)[i])
  BY StepsAreATimeline
<1>2. runners[slot].index \in Nat /\ runners[slot].index < Len(Steps(slot))
  BY <1>1 DEF RunnersType, Done, IsTimeline
<1>3. runners[slot].index + 1 \in 1..Len(Steps(slot))
  BY <1>1, <1>2 DEF IsTimeline
<1>4. Sorted(Steps(slot))[runners[slot].index + 1] \in 1..Len(Steps(slot))
  BY <1>1, <1>3, SortedIsPermutation DEF IsTimeline
<1>5. IsStep(NextStep(slot))
  BY <1>1, <1>4 DEF NextStep
<1>6. QED
  BY <1>3, <1>5 DEF IsStep

-----------------------------------------------------------------------------
(* The clock resumes, and steps are on time.                                *)

\* What a blob keeps of the clock.
ClockIsKept(blob) == blob.now \in 0..MaxNow /\ blob.speed \in Speeds

WorkType == [left : Nat, slot : Slots \cup {NoSlot}]

\* The part of the state that says who goes on, and when.
ControlOK ==
    /\ ClockRuns(clock)
    /\ work \in WorkType
    /\ runners \in RunnersType
    /\ \A blob \in saved : ClockIsKept(blob)
    /\ StepsAreOnTime

\* No step is due between two calls.
LEMMA IdleIsOnTime ==
    ASSUME Idle
    PROVE  work = NoWork /\ work.slot \notin Slots /\ work \in WorkType
BY SessionAssumption DEF Idle, NoWork, WorkType

\* Neither is it after a step that leaves work to nobody.
LEMMA NobodyIsOnTime ==
    ASSUME work'.slot = NoSlot
    PROVE  StepsAreOnTime'
BY SessionAssumption DEF StepsAreOnTime

LEMMA SubstepKeepsControl ==
    ASSUME ControlOK, Substep
    PROVE  ControlOK'
<1>1. /\ work.left > 0
      /\ clock' = [clock EXCEPT !.now = CountUpTo(@, MaxNow)]
      /\ work' = [work EXCEPT !.left = @ - 1]
      /\ runners' = runners /\ saved' = saved
  BY DEF Substep
<1>2. ClockRuns(clock')
  BY <1>1, ClockOperations DEF ControlOK
<1>3. work' \in WorkType /\ work'.left = work.left - 1 /\ work'.slot = work.slot
  BY <1>1 DEF ControlOK, WorkType
<1>4. StepsAreOnTime'
  <2> SUFFICES ASSUME work.slot \in Slots
               PROVE  /\ ~Done(work.slot)
                      /\ IF work'.left > 0 THEN clock'.now + work'.left = NextStep(work.slot).at
                                           ELSE NextStep(work.slot).at <= clock'.now
    BY <1>1, <1>3 DEF StepsAreOnTime, NextStep, Done, Steps
  <2> DEFINE at == NextStep(work.slot).at
  <2>1. ~Done(work.slot) /\ clock.now + work.left = at
    BY <1>1 DEF ControlOK, StepsAreOnTime
  <2>2. at \in 0..MaxNow /\ MaxNow \in Nat
    BY <2>1, NextStepIsAStep, SessionAssumption DEF ControlOK
  <2>3. clock.now \in Nat /\ work.left \in Nat
    BY <2>2 DEF ControlOK, ClockRuns, ClockType, WorkType
  <2> HIDE DEF at
  <2>4. clock.now < MaxNow
    BY <1>1, <2>1, <2>2, <2>3
  <2>5. clock'.now = clock.now + 1
    BY <1>1, <2>4 DEF CountUpTo, ControlOK, ClockRuns, ClockType
  <2>6. IF work'.left > 0 THEN clock'.now + work'.left = at ELSE at <= clock'.now
    BY <1>1, <1>3, <2>1, <2>2, <2>3, <2>5
  <2>7. QED
    BY <2>1, <2>6 DEF at
<1>5. QED
  BY <1>1, <1>2, <1>3, <1>4 DEF ControlOK

LEMMA ApplyKeepsControl ==
    ASSUME ControlOK, NEW slot \in Slots, ApplyStep(slot)
    PROVE  ControlOK'
<1>1. /\ work.slot = slot /\ work.left = 0
      /\ Apply(NextStep(slot))
      /\ runners' = [runners EXCEPT ![slot].index = @ + 1]
      /\ saved' = saved
  BY DEF ApplyStep
<1>2. ~Done(slot)
  BY <1>1 DEF ControlOK, StepsAreOnTime
<1>3. IsStep(NextStep(slot))
  BY <1>2, NextStepIsAStep DEF ControlOK
<1>4. runners' \in RunnersType
  BY <1>1 DEF ControlOK, RunnersType
<1>5. ClockRuns(clock')
  BY <1>1, <1>3, TimeStepKeepsClock DEF Apply, ControlOK
<1>6. work' \in WorkType /\ work'.slot = NoSlot
  BY <1>1, <1>3 DEF Apply, NoWork, WorkType, IsStep
<1>7. QED
  BY <1>1, <1>4, <1>5, <1>6, NobodyIsOnTime DEF ControlOK

\* Time passes up to the step's, if it is not over.
LEMMA StepScenarioKeepsControl ==
    ASSUME ControlOK, NEW slot \in Slots, StepScenario(slot)
    PROVE  ControlOK'
<1> DEFINE at == NextStep(slot).at
<1>1. /\ ~Done(slot)
      /\ work' = [left |-> SubstepsTo(at), slot |-> slot]
      /\ clock' = clock /\ runners' = runners /\ saved' = saved
  BY DEF StepScenario
<1>2. at \in Nat /\ clock.now \in Nat
  BY <1>1, NextStepIsAStep, SessionAssumption DEF ControlOK, ClockRuns, ClockType
<1>3. NextStep(slot)' = NextStep(slot) /\ Done(slot)' = Done(slot)
  BY <1>1 DEF NextStep, Done, Steps
<1>4. work' \in WorkType /\ work'.slot = slot /\ work'.left = SubstepsTo(at)
  BY <1>1, <1>2 DEF SubstepsTo, WorkType
<1>5. IF work'.left > 0 THEN clock'.now + work'.left = at ELSE at <= clock'.now
  <2> HIDE DEF at
  <2> QED
    BY <1>1, <1>2, <1>4 DEF SubstepsTo
<1>6. StepsAreOnTime'
  BY <1>1, <1>3, <1>4, <1>5 DEF StepsAreOnTime, NextStep, Done, Steps
<1>7. QED
  BY <1>1, <1>4, <1>6 DEF ControlOK

\* The calls that leave the clock, the runners and the blobs alone.
LEMMA CallKeepsControl ==
    ASSUME ControlOK, Idle, UNCHANGED <<clock, work, runners, saved>>
    PROVE  ControlOK'
<1>1. work' \in WorkType /\ work'.slot = NoSlot
  BY IdleIsOnTime DEF NoWork
<1>2. QED
  BY <1>1, NobodyIsOnTime DEF ControlOK

\* The runners, the clock, the blobs or the time to pass change.
LEMMA CallsKeepControl ==
    ASSUME ControlOK, Idle,
           work' = work \/ \E n \in Nat : work' = [work EXCEPT !.left = n],
           ClockRuns(clock'), runners' \in RunnersType,
           \A blob \in saved' : ClockIsKept(blob)
    PROVE  ControlOK'
<1>1. work' \in WorkType /\ work'.slot = NoSlot
  BY IdleIsOnTime DEF NoWork, WorkType
<1>2. QED
  BY <1>1, NobodyIsOnTime DEF ControlOK

LEMMA StepKeepsControl ==
    ASSUME ControlOK, [SessionNext]_sessionVars
    PROVE  ControlOK'
<1>0. /\ ClockRuns(clock) /\ runners \in RunnersType
      /\ \A blob \in saved : ClockIsKept(blob)
      /\ clock.speed \in Nat /\ Advances \subseteq Nat
  BY SessionAssumption DEF ControlOK, ClockRuns, ClockType
<1>1. CASE TickLoop
  BY <1>0, <1>1, CallsKeepControl DEF TickLoop
<1>2. CASE Substep
  BY <1>2, SubstepKeepsControl
<1>3. CASE \E slot \in Slots : ApplyStep(slot)
  BY <1>3, ApplyKeepsControl
<1>4. CASE \E slot \in Slots : \E name \in DOMAIN Scenarios : LoadScenario(slot, name)
  <2>1. PICK slot \in Slots, name \in DOMAIN Scenarios : LoadScenario(slot, name)
    BY <1>4
  <2>2. runners' = [runners EXCEPT ![slot] = [name |-> name, index |-> 0]]
    BY <2>1 DEF LoadScenario
  <2>3. runners' \in RunnersType
    BY <1>0, <2>2 DEF RunnersType
  <2>4. Idle /\ UNCHANGED <<clock, work, saved>>
    BY <2>1 DEF LoadScenario
  <2>5. QED
    BY <1>0, <2>3, <2>4, CallsKeepControl
<1>5. CASE \E slot \in Slots : StepScenario(slot)
  BY <1>5, StepScenarioKeepsControl
<1>6. CASE \E slot \in Slots : StopScenario(slot)
  <2>1. PICK slot \in Slots : StopScenario(slot)
    BY <1>6
  <2>2. runners' = [runners EXCEPT ![slot] = [name |-> NoScenario, index |-> 0]]
    BY <2>1 DEF StopScenario
  <2>3. runners' \in RunnersType
    BY <1>0, <2>2 DEF RunnersType
  <2>4. Idle /\ UNCHANGED <<clock, work, saved>>
    BY <2>1 DEF StopScenario
  <2>5. QED
    BY <1>0, <2>3, <2>4, CallsKeepControl
<1>7. CASE \E n \in Advances : Advance(n)
  BY <1>0, <1>7, CallsKeepControl DEF Advance
<1>8. CASE \E c : ClockCall(c) /\ SetClock(c)
  <2>1. PICK c : ClockCall(c) /\ SetClock(c)
    BY <1>8
  <2>2. ClockRuns(c)
    BY <1>0, <2>1, ClockOperations DEF ClockCall
  <2>3. QED
    BY <1>0, <2>1, <2>2, CallsKeepControl DEF SetClock
<1>9. CASE Snapshot
  <2>1. \A blob \in saved' : blob.now = clock.now /\ blob.speed = clock.speed
    BY <1>9 DEF Snapshot
  <2>2. \A blob \in saved' : ClockIsKept(blob)
    BY <1>0, <2>1 DEF ClockRuns, ClockType, ClockIsKept
  <2>3. Idle /\ UNCHANGED <<clock, work, runners>>
    BY <1>9 DEF Snapshot
  <2>4. QED
    BY <1>0, <2>2, <2>3, CallsKeepControl
<1>10. CASE \E blob \in saved : \E stop \in Stops : \E ids \in SUBSET DOMAIN blob.faults :
               Restore(blob, stop, ids)
  <2>1. PICK blob \in saved : \E stop \in Stops : \E ids \in SUBSET DOMAIN blob.faults :
               Restore(blob, stop, ids)
    BY <1>10
  <2>2. clock' \in {clock, NewClock(blob.speed, blob.now)}
    BY <2>1 DEF Restore
  <2>3. ClockRuns(clock')
    BY <1>0, <2>2, NewClockRuns DEF ClockIsKept
  <2>4. Idle /\ UNCHANGED <<work, runners, saved>>
    BY <2>1 DEF Restore
  <2>5. QED
    BY <1>0, <2>3, <2>4, CallsKeepControl
<1>11. CASE (\E values \in Fragments : Patch(values)) \/ ResetDevice
  BY <1>11, CallKeepsControl DEF Patch, ResetDevice
<1>12. CASE \E profile \in Profiles : SetProfile(profile)
  BY <1>12, CallKeepsControl DEF SetProfile
<1>13. CASE (\E w \in Writes : Write(w)) \/ (\E form \in Forms : Post(form))
  BY <1>13, CallKeepsControl DEF Write, Post
<1>14. CASE FaultAndProbeCalls
  BY <1>14, CallKeepsControl DEF FaultAndProbeCalls
<1>15. CASE UNCHANGED sessionVars
  BY <1>15 DEF sessionVars, ControlOK, StepsAreOnTime, NextStep, Done, Steps
<1>16. QED
  BY <1>1, <1>2, <1>3, <1>4, <1>5, <1>6, <1>7, <1>8, <1>9, <1>10, <1>11, <1>12, <1>13,
     <1>14, <1>15, SessionStepCases

LEMMA InitControls == SessionInit => ControlOK
<1> SUFFICES ASSUME SessionInit PROVE ControlOK
  OBVIOUS
<1>1. PICK speed \in Speeds : clock = NewClock(speed, 0)
  BY DEF SessionInit
<1>2. ClockRuns(clock)
  BY <1>1, NewClockRuns, SessionAssumption
<1>3. work \in WorkType /\ work.slot = NoSlot
  BY DEF SessionInit, NoWork, WorkType
<1>4. runners \in RunnersType /\ saved = {}
  BY DEF SessionInit, RunnersType
<1>5. QED
  BY <1>2, <1>3, <1>4, SessionAssumption DEF ControlOK, StepsAreOnTime

LEMMA ControlIsKept == SessionSpec => []ControlOK
BY InitControls, StepKeepsControl, PTL DEF SessionSpec

\* However freezes, scales, scenario steps and restores follow each other,
\* resume without a speed sets the clock going and leaves the speed of one that
\* runs alone.
THEOREM ClockResumes == SessionSpec => []ResumeRuns
<1>1. ControlOK => ResumeRuns
  BY DEF ControlOK, ClockRuns, ResumeRuns
<1>2. QED
  BY <1>1, ControlIsKept, PTL

\* Whatever restores and the other runners do to the clock, a runner's step is
\* applied when its time has come, and time passes for it exactly up to then.
THEOREM OnTime == SessionSpec => []StepsAreOnTime
<1>1. ControlOK => StepsAreOnTime
  BY DEF ControlOK
<1>2. QED
  BY <1>1, ControlIsKept, PTL

-----------------------------------------------------------------------------
(* The device stays within its limits.                                      *)

\* Every field is within its limits, but for those that are remembered as raw.
WithinLimits(dev, raw) ==
    /\ dev \in DeviceType
    /\ raw \subseteq Fields
    /\ \A f \in Fields : InRange(f, dev[f]) \/ f \in raw

DeviceOK ==
    /\ WithinLimits(device, memory.raw)
    /\ \A blob \in saved : WithinLimits(blob.device, blob.memory.raw)

LEMMA OverlaidIsWithin ==
    ASSUME NEW dev, NEW raw, WithinLimits(dev, raw), NEW values, IsFragment(values)
    PROVE  WithinLimits(Overlaid(dev, values), raw \cup DOMAIN values)
<1>1. dev \in [Fields -> Nat] /\ values \in [DOMAIN values -> Nat]
      /\ DOMAIN values \subseteq Fields
  BY DEF WithinLimits, DeviceType, IsFragment
<1>2. Overlaid(dev, values) =
          [f \in Fields |-> IF f \in DOMAIN values THEN values[f] ELSE dev[f]]
  BY <1>1 DEF Overlaid
<1>3. Overlaid(dev, values) \in DeviceType
  BY <1>1, <1>2 DEF DeviceType
<1>4. \A f \in Fields \ DOMAIN values : Overlaid(dev, values)[f] = dev[f]
  BY <1>2
<1>5. QED
  BY <1>1, <1>3, <1>4 DEF WithinLimits

\* The two devices it is reset to.
LEMMA ResetsAreWithin == WithinLimits(Factory, {}) /\ WithinLimits(Demo, {})
BY SessionAssumption DEF WithinLimits

\* What a call remembers as raw.
LEMMA RememberedRaw ==
    ASSUME NEW raw, NEW fresh, NEW more, Remember(raw, fresh, more)
    PROVE  memory'.raw = raw
BY DEF Remember

\* A device written to by its rules.
LEMMA WrittenIsWithin ==
    ASSUME WithinLimits(device, memory.raw), Kept(device, device'),
           memory'.raw = StillRaw
    PROVE  WithinLimits(device', memory'.raw)
<1>1. \A f \in Fields : f \in memory'.raw <=> f \in memory.raw /\ device'[f] = device[f]
  BY DEF StillRaw, WithinLimits
<1>2. device' \in DeviceType
  BY DEF Kept, DeviceType
<1>3. QED
  BY <1>1, <1>2 DEF Kept, WithinLimits, StillRaw

LEMMA WithProfileIsWithin ==
    ASSUME WithinLimits(device, memory.raw), NEW profile, IsProfile(profile),
           NEW fragment, IsFragment(fragment), WithProfile(profile, fragment)
    PROVE  WithinLimits(device', memory'.raw)
<1>1. IsFragment(profile.values)
  BY DEF IsProfile
<1>2. WithinLimits(Overlaid(device, profile.values), memory.raw \cup DOMAIN profile.values)
  BY <1>1, OverlaidIsWithin
<1>3. device' = Overlaid(Overlaid(device, profile.values), fragment)
  BY DEF WithProfile
<1>4. memory'.raw = memory.raw \cup DOMAIN profile.values \cup DOMAIN fragment
  BY RememberedRaw DEF WithProfile
<1>5. QED
  BY <1>2, <1>3, <1>4, OverlaidIsWithin

LEMMA NothingIsAFragment == IsFragment(Nothing)
BY DEF IsFragment, Nothing

LEMMA ApplyKeepsDevice ==
    ASSUME WithinLimits(device, memory.raw), NEW step, IsStep(step), Apply(step)
    PROVE  WithinLimits(device', memory'.raw)
<1>1. CASE step.kind = "set"
  <2>1. /\ device' = Overlaid(device, step.values)
        /\ Remember(memory.raw \cup DOMAIN step.values, {}, 0)
    BY <1>1 DEF Apply
  <2>2. IsFragment(step.values)
    BY <1>1 DEF IsStep
  <2>3. QED
    BY <2>1, <2>2, OverlaidIsWithin, RememberedRaw
<1>2. CASE step.kind = "profile"
  BY <1>2, WithProfileIsWithin, NothingIsAFragment DEF Apply, IsStep
<1>3. CASE step.kind = "inject"
  <2>1. device' = device /\ Remember(memory.raw, {step.fault.id}, 0)
    BY <1>3 DEF Apply
  <2>2. QED
    BY <2>1, RememberedRaw
<1>4. CASE step.kind = "clear"
  <2>1. device' = device /\ Remember(memory.raw, {}, 0)
    BY <1>4 DEF Apply
  <2>2. QED
    BY <2>1, RememberedRaw
<1>5. CASE step.kind \in {"time", "assert"}
  BY <1>5 DEF Apply
<1>6. QED
  BY <1>1, <1>2, <1>3, <1>4, <1>5 DEF Apply

LEMMA LoadKeepsDevice ==
    ASSUME WithinLimits(device, memory.raw), NEW slot \in Slots,
           NEW name \in DOMAIN Scenarios, LoadScenario(slot, name)
    PROVE  WithinLimits(device', memory'.raw)
<1>1. IsScenario(Scenarios[name])
  BY SessionAssumption
<1>2. IsFragment(Scenarios[name].initial)
  BY <1>1 DEF IsScenario
<1>3. CASE /\ device' = Overlaid(device, Scenarios[name].initial)
           /\ Remember(memory.raw \cup DOMAIN Scenarios[name].initial, {}, 0)
  BY <1>2, <1>3, OverlaidIsWithin, RememberedRaw
<1>4. CASE \E profile \in Scenarios[name].profile : WithProfile(profile, Scenarios[name].initial)
  BY <1>1, <1>2, <1>4, WithProfileIsWithin DEF IsScenario
<1>5. QED
  BY <1>3, <1>4 DEF LoadScenario

LEMMA StepKeepsDevice ==
    ASSUME ControlOK, DeviceOK, [SessionNext]_sessionVars
    PROVE  DeviceOK'
<1> DEFINE Blobs == \A blob \in saved : WithinLimits(blob.device, blob.memory.raw)
<1>0. WithinLimits(device, memory.raw) /\ Blobs
  BY DEF DeviceOK
<1>a. ASSUME WithinLimits(device', memory'.raw), saved' = saved
      PROVE  DeviceOK'
  BY <1>0, <1>a DEF DeviceOK
<1>b. ASSUME device' = device, memory'.raw = memory.raw, saved' = saved
      PROVE  DeviceOK'
  BY <1>0, <1>a, <1>b
<1>1. CASE TickLoop
  BY <1>1, <1>b DEF TickLoop
<1>2. CASE Substep
  <2>1. /\ device' = IF config' = "factory" THEN Factory ELSE device
        /\ memory'.raw = IF config' = "factory" THEN {} ELSE memory.raw
        /\ saved' = saved
    BY <1>2, RememberedRaw DEF Substep
  <2>2. QED
    BY <1>0, <1>a, <2>1, ResetsAreWithin
<1>3. CASE \E slot \in Slots : ApplyStep(slot)
  <2>1. PICK slot \in Slots : ApplyStep(slot)
    BY <1>3
  <2>2. ~Done(slot) /\ Apply(NextStep(slot)) /\ saved' = saved
    BY <2>1 DEF ApplyStep, ControlOK, StepsAreOnTime
  <2>3. IsStep(NextStep(slot))
    BY <2>2, NextStepIsAStep DEF ControlOK
  <2>4. QED
    BY <1>0, <1>a, <2>2, <2>3, ApplyKeepsDevice
<1>4. CASE \E slot \in Slots : \E name \in DOMAIN Scenarios : LoadScenario(slot, name)
  <2>1. PICK slot \in Slots, name \in DOMAIN Scenarios : LoadScenario(slot, name)
    BY <1>4
  <2>2. saved' = saved
    BY <2>1 DEF LoadScenario
  <2>3. QED
    BY <1>0, <1>a, <2>1, <2>2, LoadKeepsDevice
<1>5. CASE \E slot \in Slots : StepScenario(slot) \/ StopScenario(slot)
  BY <1>5, <1>b DEF StepScenario, StopScenario
<1>6. CASE \E n \in Advances : Advance(n)
  BY <1>6, <1>b DEF Advance
<1>7. CASE \E c : ClockCall(c) /\ SetClock(c)
  BY <1>7, <1>b DEF SetClock
<1>8. CASE \E values \in Fragments : Patch(values)
  <2>1. PICK values \in Fragments : Patch(values)
    BY <1>8
  <2>2. /\ device' = Overlaid(device, values) /\ saved' = saved
        /\ memory'.raw = memory.raw \cup DOMAIN values
    BY <2>1, RememberedRaw DEF Patch
  <2>3. IsFragment(values)
    BY SessionAssumption
  <2>4. QED
    BY <1>0, <1>a, <2>2, <2>3, OverlaidIsWithin
<1>9. CASE ResetDevice
  <2>1. device' \in {Factory, Demo} /\ memory'.raw = {} /\ saved' = saved
    BY <1>9, RememberedRaw DEF ResetDevice
  <2>2. QED
    BY <1>a, <2>1, ResetsAreWithin
<1>10. CASE Snapshot
  <2>1. device' = device /\ memory' = memory
        /\ \A blob \in saved' : blob.device = device /\ blob.memory = memory
    BY <1>10 DEF Snapshot
  <2>2. QED
    BY <1>0, <2>1 DEF DeviceOK
<1>11. CASE \E blob \in saved : \E stop \in Stops : \E ids \in SUBSET DOMAIN blob.faults :
               Restore(blob, stop, ids)
  <2>1. PICK blob \in saved : \E stop \in Stops : \E ids \in SUBSET DOMAIN blob.faults :
               Restore(blob, stop, ids)
    BY <1>11
  <2>2. device' = blob.device /\ memory'.raw = blob.memory.raw /\ saved' = saved
    BY <2>1 DEF Restore
  <2>3. QED
    BY <1>0, <1>a, <2>2
<1>12. CASE \E profile \in Profiles : SetProfile(profile)
  <2>1. PICK profile \in Profiles : SetProfile(profile)
    BY <1>12
  <2>2. WithProfile(profile, Nothing) /\ saved' = saved /\ IsProfile(profile)
    BY <2>1, SessionAssumption DEF SetProfile
  <2>3. QED
    BY <1>0, <1>a, <2>2, WithProfileIsWithin, NothingIsAFragment
<1>13. CASE \E w \in Writes : Write(w)
  <2>1. PICK w \in Writes : Write(w)
    BY <1>13
  <2>2. w.raw \in RawType /\ w.strict \in BOOLEAN
    BY SessionAssumption
  <2>3. /\ device' = AfterWrite(device, w.key, w.raw, w.strict).device
        /\ memory'.raw = StillRaw /\ saved' = saved
    BY <2>1, RememberedRaw DEF Write
  <2>4. Kept(device, device')
    BY <1>0, <2>2, <2>3, WriteKeeps DEF WithinLimits, DeviceType
  <2>5. QED
    BY <1>0, <1>a, <2>3, <2>4, WrittenIsWithin
<1>14. CASE \E form \in Forms : Post(form)
  <2>1. PICK form \in Forms : Post(form)
    BY <1>14
  <2>2. form \in FormType
    BY SessionAssumption
  <2>3. /\ device' = AfterForm(device, form, FALSE).device
        /\ memory'.raw = StillRaw /\ saved' = saved
    BY <2>1, RememberedRaw DEF Post
  <2>4. Kept(device, device')
    BY <1>0, <2>2, <2>3, FormKeeps DEF WithinLimits, DeviceType
  <2>5. QED
    BY <1>0, <1>a, <2>3, <2>4, WrittenIsWithin
<1>15. CASE FaultAndProbeCalls
  BY <1>15, <1>b, RememberedRaw DEF FaultAndProbeCalls
<1>16. CASE UNCHANGED sessionVars
  BY <1>16, <1>b DEF sessionVars
<1>17. QED
  BY <1>1, <1>2, <1>3, <1>4, <1>5, <1>6, <1>7, <1>8, <1>9, <1>10, <1>11, <1>12, <1>13,
     <1>14, <1>15, <1>16, SessionStepCases

\* No POST, apply_write, reset, restore or step of a scenario leaves a field out
\* of the table's limits that no fragment or profile put there.
THEOREM WithinTable == SessionSpec => []DeviceInRange
<1>1. SessionInit => DeviceOK
  BY ResetsAreWithin DEF SessionInit, DeviceOK
<1>2. DeviceOK => DeviceInRange
  BY DEF DeviceOK, WithinLimits, DeviceInRange
<1>3. QED
  BY <1>1, <1>2, ControlIsKept, StepKeepsDevice, PTL DEF SessionSpec

-----------------------------------------------------------------------------
(* The registry: types, and outages that end.                               *)

\* The faults and, beside them, what else the registry's types say.
FaultsOK ==
    /\ DOMAIN faults \subseteq Ids
    /\ \A id \in DOMAIN faults : faults[id] \in FaultType
    /\ OutageIds \subseteq PowerIds
    /\ OutageHasAnEnd

BesideOK ==
    /\ probes \in [Probes -> BOOLEAN]
    /\ config \in {"factory", "set"}
    /\ history \in HistoryType

LEMMA FaultsAndBeside == FaultsOK /\ BesideOK <=> TypeOK /\ OutageHasAnEnd
BY DEF FaultsOK, BesideOK, TypeOK

LEMMA FaultsAdded ==
    ASSUME FaultsOK, NEW t \in TemplateType, faults' = WithFault(t)
    PROVE  FaultsOK' /\ DOMAIN faults' = DOMAIN faults \cup {t.id}
<1>1. t.id \in Ids /\ Injected(t) \in FaultType /\ ~Injected(t).offline
  BY InjectedIsTyped
<1>2. faults' = [id \in DOMAIN faults \cup {t.id} |->
                   IF id = t.id THEN Injected(t) ELSE faults[id]]
  BY DEF WithFault, Injected
<1>3. QED
  BY <1>1, <1>2 DEF FaultsOK, OutageIds, OutageHasAnEnd

LEMMA FaultsTaken ==
    ASSUME FaultsOK, NEW ids \in SUBSET DOMAIN faults, faults' = [id \in ids |-> faults[id]]
    PROVE  FaultsOK' /\ DOMAIN faults' = ids
BY DEF FaultsOK, OutageIds, OutageHasAnEnd

LEMMA FaultsCleared ==
    ASSUME faults' = [id \in {} |-> FALSE]
    PROVE  FaultsOK' /\ DOMAIN faults' = {}
BY DEF FaultsOK, OutageIds, OutageHasAnEnd

LEMMA FaultsKept ==
    ASSUME FaultsOK, faults' = faults
    PROVE  FaultsOK' /\ DOMAIN faults' = DOMAIN faults
BY DEF FaultsOK, OutageIds, OutageHasAnEnd

\* What a blob keeps of the registry; a restore lets its faults start anew.
RegistryIsKept(blob) ==
    /\ blob.config \in {"factory", "set"}
    /\ blob.probes \in [Probes -> BOOLEAN]
    /\ DOMAIN blob.faults \subseteq Ids
    /\ \A id \in DOMAIN blob.faults :
          /\ blob.faults[id] \in FaultType
          /\ blob.faults[id].offline => /\ id \in PowerIds
                                        /\ blob.faults[id].duration # Unlimited
                                        /\ blob.faults[id].age < blob.faults[id].duration
    /\ blob.unplugged \subseteq Probes
    /\ blob.memory.elapsed \in [DOMAIN blob.faults -> 0..MaxAge]

LEMMA InjectedAnewIsTyped ==
    ASSUME NEW f \in FaultType,
           f.offline => f.duration # Unlimited /\ f.age < f.duration
    PROVE  LET anew == [f EXCEPT !.age = 0, !.activations = 0]
           IN  /\ anew \in FaultType
               /\ anew.offline = f.offline
               /\ anew.offline => anew.duration # Unlimited /\ anew.age < anew.duration
<1> DEFINE young == [f EXCEPT !.age = 0]
<1>1. 0 \in 0..MaxAge /\ 0 \in 0..MaxActivations
  BY FaultRegistryAssumption
<1>2. young \in FaultType /\ young.offline = f.offline /\ young.duration = f.duration
      /\ young.age = 0
  BY <1>1 DEF FaultType
<1>3. (f.duration # Unlimited /\ f.age < f.duration) => 0 < f.duration
  BY FaultRegistryAssumption DEF FaultType, Limit
<1> HIDE DEF young
<1>4. [young EXCEPT !.activations = 0] \in FaultType
  BY <1>1, <1>2 DEF FaultType
<1>5. /\ [young EXCEPT !.activations = 0].offline = f.offline
      /\ [young EXCEPT !.activations = 0].duration = f.duration
      /\ [young EXCEPT !.activations = 0].age = 0
  BY <1>2 DEF FaultType
<1>6. [f EXCEPT !.age = 0, !.activations = 0] = [young EXCEPT !.activations = 0]
  BY Zenon DEF young
<1>7. QED
  BY <1>3, <1>4, <1>5, <1>6

LEMMA FaultsRestored ==
    ASSUME NEW blob, RegistryIsKept(blob), NEW ids \in SUBSET DOMAIN blob.faults,
           faults' = InjectedAnew(blob, ids)
    PROVE  FaultsOK' /\ DOMAIN faults' = ids
<1> DEFINE anew(f) == [f EXCEPT !.age = 0, !.activations = 0]
<1>1. \A id \in ids :
         /\ anew(blob.faults[id]) \in FaultType
         /\ anew(blob.faults[id]).offline =>
               /\ id \in PowerIds
               /\ anew(blob.faults[id]).duration # Unlimited
               /\ anew(blob.faults[id]).age < anew(blob.faults[id]).duration
  BY InjectedAnewIsTyped DEF RegistryIsKept
<1>2. faults' = [id \in ids |-> anew(blob.faults[id])]
  BY DEF InjectedAnew
<1> HIDE DEF anew
<1>3. ids \subseteq Ids
  BY DEF RegistryIsKept
<1>4. QED
  BY <1>1, <1>2, <1>3 DEF FaultsOK, OutageIds, OutageHasAnEnd

\* How long the faults have been registered.
LEMMA ElapsedIsTyped ==
    ASSUME memory.elapsed \in [DOMAIN faults -> 0..MaxAge], NEW raw, NEW fresh, NEW more,
           DOMAIN faults' \subseteq DOMAIN faults \cup fresh, Remember(raw, fresh, more)
    PROVE  memory'.elapsed \in [DOMAIN faults' -> 0..MaxAge]
<1>1. memory'.elapsed = RegisteredFor(fresh, more)
  BY DEF Remember
<1>2. 0 \in 0..MaxAge /\ \A n \in 0..MaxAge : CountUpTo(n, MaxAge) \in 0..MaxAge
  BY CountStaysBounded, FaultRegistryAssumption
<1>3. QED
  BY <1>1, <1>2 DEF RegisteredFor

\* The registry's part of the invariant.
RegistryOK ==
    /\ FaultsOK
    /\ BesideOK
    /\ memory.elapsed \in [DOMAIN faults -> 0..MaxAge]
    /\ \A blob \in saved : RegistryIsKept(blob)

\* A call that has `unplugged` and `owed` for its history.
LEMMA CallIsTyped ==
    ASSUME history \in HistoryType, NEW owed \in SUBSET PowerIds,
           NEW unplugged \in SUBSET Probes, Call(history.fired, owed, unplugged)
    PROVE  history' \in HistoryType
BY CallKeepsHistoryType DEF HistoryType

\* Everything about the registry is as before, but that a call has been made.
LEMMA QuietStepKeepsRegistry ==
    ASSUME RegistryOK, faults' = faults, probes' = probes,
           config' \in {config, "set"}, history' \in HistoryType,
           memory'.elapsed \in [DOMAIN faults' -> 0..MaxAge], saved' = saved
    PROVE  RegistryOK'
<1>1. config' \in {"factory", "set"}
  BY DEF RegistryOK, BesideOK
<1>2. QED
  BY <1>1, FaultsKept DEF RegistryOK, BesideOK

\* An action of the registry, with what it leaves registered.
LEMMA RegistryStepIsKept ==
    ASSUME RegistryOK, TypeOK', OutageHasAnEnd', NEW raw, NEW fresh, NEW more,
           DOMAIN faults' \subseteq DOMAIN faults \cup fresh,
           Remember(raw, fresh, more), saved' = saved
    PROVE  RegistryOK'
<1>1. memory'.elapsed \in [DOMAIN faults' -> 0..MaxAge]
  BY ElapsedIsTyped DEF RegistryOK
<1>2. QED
  BY <1>1 DEF RegistryOK, FaultsOK, BesideOK, TypeOK

\* What a profile plugs and unplugs.
LEMMA PluggedIsTyped ==
    ASSUME BesideOK, NEW profile, IsProfile(profile)
    PROVE  /\ Overlaid(probes, profile.plugged) \in [Probes -> BOOLEAN]
           /\ UnpluggedBy(profile) \in SUBSET Probes
<1>1. /\ DOMAIN profile.plugged \subseteq Probes
      /\ profile.plugged \in [DOMAIN profile.plugged -> BOOLEAN]
      /\ probes \in [Probes -> BOOLEAN]
  BY DEF IsProfile, BesideOK
<1>2. QED
  BY <1>1 DEF Overlaid, UnpluggedBy

LEMMA WithProfileKeepsRegistry ==
    ASSUME RegistryOK, NEW profile, IsProfile(profile), NEW fragment,
           WithProfile(profile, fragment), history' \in HistoryType, saved' = saved
    PROVE  RegistryOK'
<1>1. /\ probes' = Overlaid(probes, profile.plugged) /\ config' = "set" /\ faults' = faults
      /\ Remember(memory.raw \cup DOMAIN profile.values \cup DOMAIN fragment, {}, 0)
  BY DEF WithProfile
<1>2. probes' \in [Probes -> BOOLEAN]
  BY <1>1, PluggedIsTyped DEF RegistryOK
<1>3. FaultsOK' /\ DOMAIN faults' = DOMAIN faults
  BY <1>1, FaultsKept DEF RegistryOK
<1>4. memory'.elapsed \in [DOMAIN faults' -> 0..MaxAge]
  BY <1>1, <1>3, ElapsedIsTyped DEF RegistryOK
<1>5. QED
  BY <1>1, <1>2, <1>3, <1>4 DEF RegistryOK, BesideOK

\* Sub-steps, also those of a registry whose clock stands.
LEMMA SubstepKeepsRegistry ==
    ASSUME RegistryOK, Substep
    PROVE  RegistryOK'
<1>1. PICK dt \in Nat :
             \/ \E firing \in MayFire(SimIds \cap DOMAIN faults) : PoweredStep(dt, firing)
             \/ OfflineStep(dt)
  BY DEF Substep
<1>2. TypeOK /\ OutageHasAnEnd
  BY FaultsAndBeside DEF RegistryOK
<1>3. TypeOK'
  BY <1>1, <1>2, PoweredStepKeepsTypes, OfflineStepKeepsTypes
<1>4. OutageHasAnEnd'
  BY <1>1, <1>2, PoweredStepKeepsEnds, OfflineStepKeepsEnds
<1>5. DOMAIN faults' \subseteq DOMAIN faults
  <2>1. CASE OfflineStep(dt)
    BY <2>1 DEF OfflineStep
  <2>2. ASSUME NEW firing, PoweredStep(dt, firing)
        PROVE  DOMAIN faults' \subseteq DOMAIN faults
    BY <2>2 DEF PoweredStep
  <2>3. QED
    BY <1>1, <2>1, <2>2
<1>6. PICK raw : Remember(raw, {}, 1) /\ saved' = saved
  BY DEF Substep
<1>7. QED
  BY <1>3, <1>4, <1>5, <1>6, RegistryStepIsKept

LEMMA ApplyKeepsRegistry ==
    ASSUME RegistryOK, NEW step, IsStep(step), Apply(step), saved' = saved
    PROVE  RegistryOK'
<1>0. /\ FaultsOK /\ BesideOK /\ history \in HistoryType
      /\ memory.elapsed \in [DOMAIN faults -> 0..MaxAge]
  BY DEF RegistryOK, BesideOK
<1>1. CASE step.kind = "set"
  <2>1. /\ faults' = faults /\ probes' = probes /\ config' = "set" /\ history' = history
        /\ Remember(memory.raw \cup DOMAIN step.values, {}, 0)
    BY <1>1 DEF Apply
  <2>2. memory'.elapsed \in [DOMAIN faults' -> 0..MaxAge]
    BY <1>0, <2>1, ElapsedIsTyped
  <2>3. QED
    BY <1>0, <2>1, <2>2, QuietStepKeepsRegistry
<1>2. CASE step.kind = "profile"
  <2>1. /\ WithProfile(step.profile, Nothing) /\ IsProfile(step.profile)
        /\ history' = [history EXCEPT !.unplugged = UnpluggedBy(step.profile)]
    BY <1>2 DEF Apply, IsStep
  <2>2. history' \in HistoryType
    BY <1>0, <2>1, PluggedIsTyped DEF HistoryType
  <2>3. QED
    BY <2>1, <2>2, WithProfileKeepsRegistry
<1>3. CASE step.kind = "inject"
  <2>1. /\ faults' = WithFault(step.fault) /\ step.fault \in TemplateType
        /\ history' = [history EXCEPT !.fired[step.fault.id] = 0,
                                      !.owed = @ \ {step.fault.id}]
        /\ UNCHANGED <<probes, config>>
        /\ Remember(memory.raw, {step.fault.id}, 0)
    BY <1>3 DEF Apply, IsStep
  <2>2. FaultsOK' /\ DOMAIN faults' = DOMAIN faults \cup {step.fault.id}
    BY <1>0, <2>1, FaultsAdded
  <2>3. history' \in HistoryType
    <3>1. PICK id \in Ids : id = step.fault.id
      BY <2>1 DEF TemplateType
    <3>2. PICK fired \in [Ids -> 0..(MaxActivations + 1)] :
             fired = [history.fired EXCEPT ![id] = 0]
      <4>1. [history.fired EXCEPT ![id] = 0] \in [Ids -> 0..(MaxActivations + 1)]
        BY <1>0, FaultRegistryAssumption DEF HistoryType
      <4>2. QED
        BY <4>1
    <3>3. history' = [history EXCEPT !.fired = fired, !.owed = @ \ {id}]
      BY <2>1, <3>1, <3>2, Zenon
    <3>4. QED
      BY <1>0, <3>2, <3>3 DEF HistoryType
  <2>4. memory'.elapsed \in [DOMAIN faults' -> 0..MaxAge]
    BY <1>0, <2>1, <2>2, ElapsedIsTyped
  <2>5. QED
    BY <2>1, <2>2, <2>3, <2>4 DEF RegistryOK, BesideOK
<1>4. CASE step.kind = "clear"
  <2>1. /\ faults' = [id \in DOMAIN faults \ {step.id} |-> faults[id]]
        /\ history' = [history EXCEPT !.owed = @ \ {step.id}]
        /\ UNCHANGED <<probes, config>>
        /\ Remember(memory.raw, {}, 0)
    BY <1>4 DEF Apply
  <2>2. FaultsOK' /\ DOMAIN faults' = DOMAIN faults \ {step.id}
    BY <1>0, <2>1, FaultsTaken
  <2>3. history' \in HistoryType
    BY <1>0, <2>1 DEF HistoryType
  <2>4. memory'.elapsed \in [DOMAIN faults' -> 0..MaxAge]
    BY <1>0, <2>1, <2>2, ElapsedIsTyped
  <2>5. QED
    BY <2>1, <2>2, <2>3, <2>4 DEF RegistryOK, BesideOK
<1>5. CASE step.kind \in {"time", "assert"}
  <2>1. UNCHANGED <<vars, memory>>
    BY <1>5 DEF Apply
  <2>2. QED
    BY <1>0, <2>1, QuietStepKeepsRegistry DEF vars
<1>6. QED
  BY <1>1, <1>2, <1>3, <1>4, <1>5 DEF Apply

LEMMA LoadKeepsRegistry ==
    ASSUME RegistryOK, NEW slot \in Slots, NEW name \in DOMAIN Scenarios,
           LoadScenario(slot, name)
    PROVE  RegistryOK'
<1>0. history \in HistoryType /\ history.owed \in SUBSET PowerIds
      /\ history.unplugged \in SUBSET Probes /\ saved' = saved
  BY DEF RegistryOK, BesideOK, HistoryType, LoadScenario
<1>1. CASE AdminWrite /\ \E raw : Remember(raw, {}, 0)
  <2>1. /\ faults' = faults /\ probes' = probes /\ config' = "set"
        /\ Call(history.fired, history.owed, history.unplugged)
    BY <1>1 DEF AdminWrite
  <2>2. history' \in HistoryType
    BY <1>0, <2>1, CallIsTyped
  <2>3. memory'.elapsed \in [DOMAIN faults' -> 0..MaxAge]
    BY <1>1, <2>1, ElapsedIsTyped DEF RegistryOK
  <2>4. QED
    BY <1>0, <2>1, <2>2, <2>3, QuietStepKeepsRegistry
<1>2. ASSUME NEW profile \in Scenarios[name].profile,
             Call(history.fired, history.owed, UnpluggedBy(profile)),
             WithProfile(profile, Scenarios[name].initial)
      PROVE  RegistryOK'
  <2>1. IsProfile(profile)
    BY SessionAssumption DEF IsScenario
  <2>2. UnpluggedBy(profile) \in SUBSET Probes
    BY <2>1, PluggedIsTyped DEF RegistryOK
  <2>3. history' \in HistoryType
    BY <1>0, <1>2, <2>2, CallIsTyped
  <2>4. QED
    BY <1>0, <1>2, <2>1, <2>3, WithProfileKeepsRegistry
<1>3. QED
  BY <1>1, <1>2 DEF LoadScenario

LEMMA SetProfileKeepsRegistry ==
    ASSUME RegistryOK, NEW profile \in Profiles, SetProfile(profile)
    PROVE  RegistryOK'
<1>1. IsProfile(profile) /\ saved' = saved
  BY SessionAssumption DEF SetProfile
<1>2. UnpluggedBy(profile) \in SUBSET Probes
  BY <1>1, PluggedIsTyped DEF RegistryOK
<1>3. history' \in HistoryType
  BY <1>2, CallIsTyped DEF SetProfile, RegistryOK, BesideOK, HistoryType
<1>4. QED
  BY <1>1, <1>3, WithProfileKeepsRegistry DEF SetProfile

\* What a snapshot dumps is what it was taken of.
LEMMA SnapshotKeepsRegistry ==
    ASSUME RegistryOK, Snapshot
    PROVE  RegistryOK'
<1>1. history' \in HistoryType
  BY CallIsTyped DEF Snapshot, RegistryOK, BesideOK, HistoryType
<1>2. UNCHANGED <<faults, probes, config, memory>>
  BY DEF Snapshot
<1>3. ASSUME NEW blob \in saved'
      PROVE  RegistryIsKept(blob)
  <2>1. /\ blob.config = config /\ blob.probes = probes /\ blob.faults = faults
        /\ blob.unplugged = history.unplugged /\ blob.memory = memory
    BY <1>3 DEF Snapshot
  <2>2. \A id \in DOMAIN faults :
           faults[id].offline => /\ id \in PowerIds
                                 /\ faults[id].duration # Unlimited
                                 /\ faults[id].age < faults[id].duration
    BY DEF RegistryOK, FaultsOK, OutageIds, OutageHasAnEnd
  <2>3. history.unplugged \subseteq Probes
    BY DEF RegistryOK, BesideOK, HistoryType
  <2>4. QED
    BY <2>1, <2>2, <2>3 DEF RegistryOK, FaultsOK, BesideOK, RegistryIsKept
<1>4. FaultsOK' /\ DOMAIN faults' = DOMAIN faults
  BY <1>2, FaultsKept DEF RegistryOK
<1>5. QED
  BY <1>1, <1>2, <1>3, <1>4 DEF RegistryOK, BesideOK

LEMMA RestoreKeepsRegistry ==
    ASSUME RegistryOK, NEW blob \in saved, NEW stop,
           NEW ids \in SUBSET DOMAIN blob.faults, Restore(blob, stop, ids)
    PROVE  RegistryOK'
<1>1. RegistryIsKept(blob)
  BY DEF RegistryOK
<1>2. /\ probes' = blob.probes /\ config' = blob.config /\ saved' = saved
      /\ history'.unplugged = blob.unplugged
  BY DEF Restore
<1>3. history' \in HistoryType
  <2>1. history.calls + 1 \in 0..MaxCalls
    BY FaultRegistryAssumption DEF Restore, RegistryOK, BesideOK, HistoryType
  <2>2. [id \in Ids |-> 0] \in [Ids -> 0..(MaxActivations + 1)]
    BY FaultRegistryAssumption
  <2>3. blob.unplugged \subseteq Probes
    BY <1>1 DEF RegistryIsKept
  <2>4. /\ history.fired \in [Ids -> 0..(MaxActivations + 1)]
        /\ history.owed \subseteq PowerIds
    BY DEF RegistryOK, BesideOK, HistoryType
  <2>5. QED
    BY <2>1, <2>2, <2>3, <2>4 DEF Restore, HistoryType
<1>4. CASE stop = "faults"
  <2>1. faults' = InjectedAnew(blob, ids)
        /\ memory'.elapsed = [id \in ids |-> blob.memory.elapsed[id]]
    BY <1>4 DEF Restore
  <2>2. FaultsOK' /\ DOMAIN faults' = ids
    BY <1>1, <2>1, FaultsRestored
  <2>3. memory'.elapsed \in [DOMAIN faults' -> 0..MaxAge]
    BY <1>1, <2>1, <2>2 DEF RegistryIsKept
  <2>4. QED
    BY <1>1, <1>2, <1>3, <2>2, <2>3 DEF RegistryOK, BesideOK, RegistryIsKept
<1>5. CASE stop # "faults"
  <2>1. faults' = faults /\ memory'.elapsed = memory.elapsed
    BY <1>5 DEF Restore
  <2>2. FaultsOK' /\ DOMAIN faults' = DOMAIN faults
    BY <2>1, FaultsKept DEF RegistryOK
  <2>3. QED
    BY <1>1, <1>2, <1>3, <2>1, <2>2 DEF RegistryOK, BesideOK, RegistryIsKept
<1>6. QED
  BY <1>4, <1>5

\* The calls that are the registry's own.
LEMMA RegistryCallKeepsRegistry ==
    ASSUME RegistryOK, AdminCalls, NEW raw, NEW fresh, NEW more,
           DOMAIN faults' \subseteq DOMAIN faults \cup fresh,
           Remember(raw, fresh, more), saved' = saved
    PROVE  RegistryOK'
<1>1. TypeOK /\ OutageHasAnEnd
  BY FaultsAndBeside DEF RegistryOK
<1>2. TypeOK' /\ OutageHasAnEnd'
  BY <1>1, CallsKeepTypes, CallsKeepEnds
<1>3. QED
  BY <1>2, RegistryStepIsKept

LEMMA FaultAndProbeCallsKeepRegistry ==
    ASSUME RegistryOK, FaultAndProbeCalls
    PROVE  RegistryOK'
<1>0. saved' = saved
  BY DEF FaultAndProbeCalls
<1>1. ASSUME NEW t \in Templates, Inject(t), Remember(memory.raw, {t.id}, 0)
      PROVE  RegistryOK'
  <2>1. DOMAIN faults' \subseteq DOMAIN faults \cup {t.id}
    BY <1>1 DEF Inject, WithFault
  <2>2. QED
    BY <1>0, <1>1, <2>1, RegistryCallKeepsRegistry DEF AdminCalls
<1>2. ASSUME NEW t \in Templates, DisconnectFor(t), Remember(memory.raw, {t.id}, 0)
      PROVE  RegistryOK'
  <2>1. t \in TemplateType /\ t.id = "probe.open" /\ t.id \in Ids /\ t.probe \in Probes
    BY <1>2, FaultRegistryAssumption DEF DisconnectFor, TemplateType
  <2>2. FaultsOK' /\ DOMAIN faults' = DOMAIN faults \cup {t.id}
    BY <1>2, <2>1, FaultsAdded DEF DisconnectFor, RegistryOK
  <2>3. /\ [history.fired EXCEPT ![t.id] = 0] \in [Ids -> 0..(MaxActivations + 1)]
        /\ history.owed \in SUBSET PowerIds
        /\ history.unplugged \cup {t.probe} \in SUBSET Probes
        /\ history \in HistoryType
    BY <2>1, FaultRegistryAssumption DEF RegistryOK, BesideOK, HistoryType
  <2>4. history' \in HistoryType
    BY <1>2, <2>3, CallKeepsHistoryType DEF DisconnectFor
  <2>5. probes' \in [Probes -> BOOLEAN] /\ config' = config
    BY <1>2 DEF DisconnectFor, RegistryOK, BesideOK
  <2>6. memory'.elapsed \in [DOMAIN faults' -> 0..MaxAge]
    BY <1>2, <2>2, ElapsedIsTyped DEF RegistryOK
  <2>7. QED
    BY <1>0, <2>2, <2>4, <2>5, <2>6 DEF RegistryOK, BesideOK
<1>3. ASSUME \/ \E id \in DOMAIN faults : Clear({id})
             \/ Clear(DOMAIN faults)
             \/ \E p \in Probes : Disconnect(p) \/ Reconnect(p),
             Remember(memory.raw, {}, 0)
      PROVE  RegistryOK'
  <2>1. DOMAIN faults' \subseteq DOMAIN faults
    BY <1>3 DEF Clear, Disconnect, Reconnect
  <2>2. AdminCalls
    BY <1>3 DEF AdminCalls
  <2>3. QED
    BY <1>0, <1>3, <2>1, <2>2, RegistryCallKeepsRegistry
<1>4. QED
  BY <1>1, <1>2, <1>3 DEF FaultAndProbeCalls

LEMMA ResetDeviceKeepsRegistry ==
    ASSUME RegistryOK, ResetDevice
    PROVE  RegistryOK'
<1>0. Remember({}, {}, 0) /\ saved' = saved
  BY DEF ResetDevice
<1>1. CASE Reset
  <2>1. DOMAIN faults' = {} /\ AdminCalls
    BY <1>1 DEF Reset, AdminCalls
  <2>2. QED
    BY <1>0, <2>1, RegistryCallKeepsRegistry
<1>2. CASE /\ Call(history.fired, {}, {})
           /\ faults' = [id \in {} |-> FALSE]
           /\ probes' = AllConnected
           /\ config' = "set"
  <2>1. FaultsOK' /\ DOMAIN faults' = {}
    BY <1>2, FaultsCleared
  <2>2. history' \in HistoryType
    BY <1>2, CallIsTyped DEF RegistryOK, BesideOK
  <2>3. memory'.elapsed \in [DOMAIN faults' -> 0..MaxAge]
    BY <1>0, <2>1, ElapsedIsTyped DEF RegistryOK
  <2>4. QED
    BY <1>0, <1>2, <2>1, <2>2, <2>3 DEF RegistryOK, BesideOK, AllConnected
<1>3. QED
  BY <1>1, <1>2 DEF ResetDevice

LEMMA WritesKeepRegistry ==
    ASSUME RegistryOK,
           \/ \E values \in Fragments : Patch(values)
           \/ \E w \in Writes : Write(w)
           \/ \E form \in Forms : Post(form)
    PROVE  RegistryOK'
<1>1. ASSUME NEW values \in Fragments, Patch(values)
      PROVE  RegistryOK'
  <2>1. faults' = faults /\ AdminCalls /\ saved' = saved
    BY <1>1 DEF Patch, AdminWrite, AdminCalls
  <2>2. QED
    BY <1>1, <2>1, RegistryCallKeepsRegistry DEF Patch
<1>2. ASSUME NEW w \in Writes, Write(w)
      PROVE  RegistryOK'
  <2>1. /\ faults' = faults /\ probes' = probes /\ saved' = saved
        /\ config' \in {config, "set"}
        /\ Call(history.fired, history.owed, history.unplugged)
        /\ Remember(StillRaw, {}, 0)
    BY <1>2 DEF Write, ConfigAfter
  <2>2. history' \in HistoryType
    BY <2>1, CallIsTyped DEF RegistryOK, BesideOK, HistoryType
  <2>3. memory'.elapsed \in [DOMAIN faults' -> 0..MaxAge]
    BY <2>1, ElapsedIsTyped DEF RegistryOK
  <2>4. QED
    BY <2>1, <2>2, <2>3, QuietStepKeepsRegistry
<1>3. ASSUME NEW form \in Forms, Post(form)
      PROVE  RegistryOK'
  <2>1. Request({}) /\ Remember(StillRaw, {}, 0) /\ saved' = saved
    BY <1>3 DEF Post
  <2>2. TypeOK /\ OutageHasAnEnd /\ {} \in SUBSET (RequestIds \cap DOMAIN faults)
    BY FaultsAndBeside DEF RegistryOK
  <2>3. TypeOK' /\ OutageHasAnEnd'
    BY <2>1, <2>2, RequestKeepsTypes, RequestKeepsEnds
  <2>4. DOMAIN faults' \subseteq DOMAIN faults
    BY <2>1 DEF Request
  <2>5. QED
    BY <2>1, <2>3, <2>4, RegistryStepIsKept
<1>4. QED
  BY <1>1, <1>2, <1>3

LEMMA TimeCallsKeepRegistry ==
    ASSUME RegistryOK, UNCHANGED <<faults, probes, config, memory, saved>>,
           history' = history \/ Call(history.fired, history.owed, history.unplugged)
    PROVE  RegistryOK'
<1>1. history' \in HistoryType
  BY CallIsTyped DEF RegistryOK, BesideOK, HistoryType
<1>2. memory'.elapsed \in [DOMAIN faults' -> 0..MaxAge]
  BY DEF RegistryOK
<1>3. QED
  BY <1>1, <1>2, QuietStepKeepsRegistry

LEMMA StepKeepsRegistry ==
    ASSUME ControlOK, RegistryOK, [SessionNext]_sessionVars
    PROVE  RegistryOK'
<1>1. CASE TickLoop
  BY <1>1, TimeCallsKeepRegistry DEF TickLoop, vars
<1>2. CASE \E slot \in Slots : ApplyStep(slot)
  <2>1. PICK slot \in Slots : ApplyStep(slot)
    BY <1>2
  <2>2. ~Done(slot) /\ Apply(NextStep(slot)) /\ saved' = saved
    BY <2>1 DEF ApplyStep, ControlOK, StepsAreOnTime
  <2>3. IsStep(NextStep(slot))
    BY <2>2, NextStepIsAStep DEF ControlOK
  <2>4. QED
    BY <2>2, <2>3, ApplyKeepsRegistry
<1>3. CASE \E slot \in Slots : StepScenario(slot)
  BY <1>3, TimeCallsKeepRegistry DEF StepScenario, vars
<1>4. CASE \E slot \in Slots : StopScenario(slot)
  BY <1>4, TimeCallsKeepRegistry DEF StopScenario
<1>5. CASE \E n \in Advances : Advance(n)
  BY <1>5, TimeCallsKeepRegistry DEF Advance
<1>6. CASE \E c : ClockCall(c) /\ SetClock(c)
  BY <1>6, TimeCallsKeepRegistry DEF SetClock
<1>7. CASE \E blob \in saved : \E stop \in Stops : \E ids \in SUBSET DOMAIN blob.faults :
              Restore(blob, stop, ids)
  BY <1>7, RestoreKeepsRegistry
<1>8. CASE UNCHANGED sessionVars
  BY <1>8, TimeCallsKeepRegistry DEF sessionVars, vars
<1>9. QED
  BY <1>1, <1>2, <1>3, <1>4, <1>5, <1>6, <1>7, <1>8, SessionStepCases, SubstepKeepsRegistry,
     LoadKeepsRegistry, SetProfileKeepsRegistry, SnapshotKeepsRegistry,
     FaultAndProbeCallsKeepRegistry, ResetDeviceKeepsRegistry, WritesKeepRegistry

-----------------------------------------------------------------------------
(* All of it together.                                                      *)

\* No runner has applied more steps than its timeline has.
CursorsOK == \A slot \in Slots : runners[slot].index <= Len(Steps(slot))

LEMMA StepKeepsCursors ==
    ASSUME ControlOK, CursorsOK, [SessionNext]_sessionVars
    PROVE  CursorsOK'
<1>1. ASSUME runners' = runners
      PROVE  CursorsOK'
  BY <1>1 DEF CursorsOK, Steps
<1>2. ASSUME NEW slot \in Slots, NEW name,
             runners' = [runners EXCEPT ![slot] = [name |-> name, index |-> 0]],
             name \in DOMAIN Scenarios \cup {NoScenario}
      PROVE  CursorsOK'
  <2>1. runners'[slot].index = 0 /\ runners'[slot].name = name
    BY <1>2 DEF ControlOK, RunnersType
  <2>2. Steps(slot)' = IF name = NoScenario THEN <<>> ELSE Scenarios[name].timeline
    BY <2>1 DEF Steps
  <2>3. Len(Steps(slot)') \in Nat
    <3>1. CASE name = NoScenario
      BY <2>2, <3>1
    <3>2. CASE name # NoScenario
      BY <1>2, <2>2, <3>2, SessionAssumption DEF IsScenario
    <3>3. QED
      BY <3>1, <3>2
  <2>4. \A s \in Slots \ {slot} : runners'[s] = runners[s]
    BY <1>2 DEF ControlOK, RunnersType
  <2>5. QED
    BY <2>1, <2>3, <2>4 DEF CursorsOK, Steps
<1>3. ASSUME NEW slot \in Slots, ApplyStep(slot)
      PROVE  CursorsOK'
  <2>1. ~Done(slot) /\ runners' = [runners EXCEPT ![slot].index = @ + 1]
    BY <1>3 DEF ApplyStep, ControlOK, StepsAreOnTime
  <2>2. runners[slot].index + 1 \in 1..Len(Steps(slot)) /\ IsTimeline(Steps(slot))
    BY <2>1, NextStepIsAStep, StepsAreATimeline DEF ControlOK
  <2>3. /\ runners'[slot].index = runners[slot].index + 1
        /\ runners'[slot].name = runners[slot].name
        /\ \A s \in Slots \ {slot} : runners'[s] = runners[s]
    BY <2>1 DEF ControlOK, RunnersType
  <2>4. Steps(slot)' = Steps(slot)
    BY <2>3 DEF Steps
  <2>5. QED
    BY <2>2, <2>3, <2>4 DEF CursorsOK, Steps, IsTimeline
<1>4. ASSUME NEW slot \in Slots,
             StopScenario(slot) \/ \E name \in DOMAIN Scenarios : LoadScenario(slot, name)
      PROVE  CursorsOK'
  BY <1>2, <1>4 DEF StopScenario, LoadScenario
<1>5. \/ runners' = runners
      \/ \E slot \in Slots : \/ ApplyStep(slot)
                             \/ StopScenario(slot)
                             \/ \E name \in DOMAIN Scenarios : LoadScenario(slot, name)
  BY SessionStepCases
     DEF TickLoop, Substep, StepScenario, Advance, SetClock, Patch, ResetDevice, Snapshot,
         Restore, SetProfile, Write, Post, FaultAndProbeCalls, sessionVars
<1>6. QED
  BY <1>1, <1>3, <1>4, <1>5

LEMMA StepKeepsLive ==
    ASSUME live \in BOOLEAN, [SessionNext]_sessionVars
    PROVE  live' \in BOOLEAN
<1>1. live' = live \/ \E blob \in saved : \E stop \in Stops : \E ids \in SUBSET DOMAIN blob.faults :
                           Restore(blob, stop, ids)
  BY SessionStepCases
     DEF TickLoop, Substep, ApplyStep, LoadScenario, StepScenario, StopScenario, Advance,
         SetClock, Patch, ResetDevice, Snapshot, SetProfile, Write, Post,
         FaultAndProbeCalls, sessionVars
<1>2. QED
  BY <1>1 DEF Restore

\* The inductive invariant of a session.
SessionInv == ControlOK /\ DeviceOK /\ RegistryOK /\ CursorsOK /\ live \in BOOLEAN

LEMMA SessionInvImplies ==
    ASSUME SessionInv
    PROVE  SessionTypeOK /\ OutageHasAnEnd /\ SavedOutagesEnd
<1> USE DEF SessionInv
<1>1. TypeOK /\ OutageHasAnEnd
  BY FaultsAndBeside DEF RegistryOK
<1>2. /\ clock.now \in 0..MaxNow /\ clock.speed \in Speeds /\ clock.resume \in Nat
      /\ work.left \in Nat /\ work.slot \in Slots \cup {NoSlot}
  BY SessionAssumption DEF ControlOK, ClockRuns, ClockType, WorkType
<1>3. \A slot \in Slots : /\ runners[slot].name \in DOMAIN Scenarios \cup {NoScenario}
                          /\ runners[slot].index \in 0..Len(Steps(slot))
  <2>1. ASSUME NEW slot \in Slots
        PROVE  runners[slot].index \in 0..Len(Steps(slot))
    <3>1. runners[slot].index \in Nat /\ IsTimeline(Steps(slot))
      BY StepsAreATimeline DEF ControlOK, RunnersType
    <3>2. QED
      BY <3>1 DEF CursorsOK, IsTimeline
  <2>2. QED
    BY <2>1 DEF ControlOK, RunnersType
<1>4. device \in DeviceType /\ memory.raw \subseteq Fields
  BY DEF DeviceOK, WithinLimits
<1>5. ASSUME NEW blob \in saved
      PROVE  IsBlob(blob)
  <2>1. ClockIsKept(blob) /\ RegistryIsKept(blob) /\ WithinLimits(blob.device, blob.memory.raw)
    BY DEF ControlOK, RegistryOK, DeviceOK
  <2>2. QED
    BY <2>1 DEF ClockIsKept, RegistryIsKept, WithinLimits, IsBlob
<1>6. memory.elapsed \in [DOMAIN faults -> 0..MaxAge] /\ SavedOutagesEnd
  BY DEF RegistryOK, RegistryIsKept, SavedOutagesEnd
<1>7. QED
  BY <1>1, <1>2, <1>3, <1>4, <1>5, <1>6 DEF SessionTypeOK

LEMMA SessionInvHolds == SessionSpec => []SessionInv
<1>1. SessionInit => SessionInv
  <2> SUFFICES ASSUME SessionInit PROVE SessionInv
    OBVIOUS
  <2>1. Init /\ saved = {} /\ memory.elapsed = [id \in {} |-> 0]
    BY DEF SessionInit
  <2>2. TypeOK /\ OutageHasAnEnd /\ DOMAIN faults = {}
    BY <2>1, InitHasTypes DEF Init, OutageHasAnEnd, OutageIds
  <2>3. RegistryOK
    BY <2>1, <2>2, FaultsAndBeside DEF RegistryOK
  <2>4. CursorsOK
    BY DEF SessionInit, CursorsOK, Steps
  <2>5. DeviceOK
    BY ResetsAreWithin DEF SessionInit, DeviceOK
  <2>6. QED
    BY <2>3, <2>4, <2>5, InitControls DEF SessionInv, SessionInit
<1>2. SessionInv /\ [SessionNext]_sessionVars => SessionInv'
  BY StepKeepsControl, StepKeepsDevice, StepKeepsRegistry, StepKeepsCursors, StepKeepsLive
     DEF SessionInv
<1>3. QED
  BY <1>1, <1>2, PTL DEF SessionSpec

\* A session stays well typed, the blobs it keeps included: however restores fail
\* half way and runners are replaced, no runner is beyond its timeline, and every
\* registered fault has its time of registration.
THEOREM SessionTypes == SessionSpec => []SessionTypeOK
BY SessionInvHolds, SessionInvImplies, PTL

\* Every outage in force has a duration that has not passed, those a restore has
\* brought back and those of a registry whose clock stands included
\* (core/simulation.py:614, core/faults/power.py:50).
THEOREM SessionOutagesEnd == SessionSpec => []OutageHasAnEnd
BY SessionInvHolds, SessionInvImplies, PTL

-----------------------------------------------------------------------------
(* Forms.                                                                   *)

LEMMA LastAcceptedIsLastWins ==
    ASSUME NEW form \in FormType, NEW f \in Fields, NEW value,
           LastCounts(form, Len(form), f, device[f], value)
    PROVE  value = LastAccepted(form, f)
<1> DEFINE counting == {i \in DOMAIN form :
                          /\ Field(form[i].key) = f
                          /\ Validate(form[i].key, form[i].raw, FALSE).verdict = "accepted"
                          /\ \A j \in 1..i :
                               ~(\/ Validate(form[j].key, form[j].raw, FALSE).verdict = "raised"
                                 \/ Validate(form[j].key, form[j].raw, FALSE).value = NaN)}
           last == CHOOSE i \in counting : \A j \in counting : j <= i
<1>1. DOMAIN form = 1..Len(form) /\ Len(form) \in Nat
  BY DEF FormType
<1>2. counting = Counting(form, Len(form), f)
  BY <1>1 DEF Counting, Accepting, Raising, Validated
<1>3. LastAccepted(form, f) = IF counting = {} THEN device[f] ELSE Storing(form[last])
  BY DEF LastAccepted, Storing, Validated
<1> HIDE DEF counting
<1>4. counting \subseteq Nat
  BY <1>1, <1>2 DEF Counting
<1>5. CASE counting = {}
  BY <1>2, <1>3, <1>5 DEF LastCounts
<1>6. CASE counting # {}
  <2>1. PICK k : IsLastOf(k, counting) /\ value = Storing(form[k])
    BY <1>2, <1>6 DEF LastCounts
  <2>2. IsLastOf(last, counting)
    BY <2>1 DEF IsLastOf
  <2> HIDE DEF last
  <2>3. last = k
    BY <1>4, <2>1, <2>2, OneLast
  <2>4. QED
    BY <1>3, <1>6, <2>1, <2>3
<1>7. QED
  BY <1>5, <1>6

\* Every POST applies the keys of its form that come before one that raises, and
\* leaves each field with the last value accepted for it (post_parse.py:249).
THEOREM LastWinsOnTheWire == SessionSpec => FormsAreLastWins
<1>1. SessionInv /\ [SessionNext]_sessionVars
        => [ \A form \in Forms : Post(form) =>
                \A f \in Fields : device'[f] = LastAccepted(form, f) ]_sessionVars
  <2> SUFFICES ASSUME SessionInv, NEW form \in Forms, Post(form), NEW f \in Fields
               PROVE  device'[f] = LastAccepted(form, f)
    OBVIOUS
  <2>1. form \in FormType /\ device \in [Fields -> Nat]
    BY SessionAssumption DEF SessionInv, DeviceOK, WithinLimits, DeviceType
  <2>2. device' = AfterForm(device, form, FALSE).device
    BY DEF Post
  <2>3. LastCounts(form, Len(form), f, device[f], device'[f])
    BY <2>1, <2>2, FormIsLastWins DEF LastWins
  <2>4. QED
    BY <2>1, <2>3, LastAcceptedIsLastWins
<1>2. QED
  BY <1>1, SessionInvHolds, PTL DEF SessionSpec, FormsAreLastWins

-----------------------------------------------------------------------------
(* Durations, where nothing is restored.                                    *)

\* What a call that takes no time does to one fault: it stays as it is, or is new.
StaysOrIsNew(id, fresh) ==
    \/ id \in DOMAIN faults \ fresh /\ faults'[id] = faults[id]
    \/ /\ id \in fresh
       /\ faults'[id].age = 0
       /\ faults'[id].duration # Unlimited => 0 < faults'[id].duration

LEMMA CallKeepsAges ==
    ASSUME AgesAreElapsed, live' = live, NEW raw, NEW fresh, Remember(raw, fresh, 0),
           \A id \in DOMAIN faults' : StaysOrIsNew(id, fresh)
    PROVE  AgesAreElapsed'
<1>1. ASSUME NEW id \in DOMAIN faults'
      PROVE  /\ memory'.elapsed[id] = faults'[id].age
             /\ faults'[id].duration # Unlimited => faults'[id].age < faults'[id].duration
  <2>1. memory'.elapsed[id] = IF id \in fresh THEN 0 ELSE memory.elapsed[id]
    BY <1>1 DEF Remember, RegisteredFor
  <2>2. StaysOrIsNew(id, fresh)
    BY <1>1
  <2>3. QED
    BY <2>1, <2>2 DEF AgesAreElapsed, StaysOrIsNew
<1>2. QED
  BY <1>1 DEF AgesAreElapsed

\* Nothing new, and maybe something less.
LEMMA FewerKeepAges ==
    ASSUME AgesAreElapsed, live' = live, NEW raw, Remember(raw, {}, 0),
           NEW ids \in SUBSET DOMAIN faults, faults' = [id \in ids |-> faults[id]]
    PROVE  AgesAreElapsed'
<1>1. \A id \in DOMAIN faults' : StaysOrIsNew(id, {})
  BY DEF StaysOrIsNew
<1>2. QED
  BY <1>1, CallKeepsAges

LEMMA SameKeepAges ==
    ASSUME AgesAreElapsed, live' = live, faults' = faults,
           memory' = memory \/ \E raw : Remember(raw, {}, 0)
    PROVE  AgesAreElapsed'
<1>1. CASE memory' = memory
  BY <1>1 DEF AgesAreElapsed
<1>2. CASE \E raw : Remember(raw, {}, 0)
  <2>1. PICK raw : Remember(raw, {}, 0)
    BY <1>2
  <2>2. \A id \in DOMAIN faults' : StaysOrIsNew(id, {})
    BY DEF StaysOrIsNew
  <2>3. QED
    BY <2>1, <2>2, CallKeepsAges
<1>3. QED
  BY <1>1, <1>2

LEMMA InjectionKeepsAges ==
    ASSUME AgesAreElapsed, live' = live, NEW t \in TemplateType, LastsAWhile(t),
           faults' = WithFault(t), NEW raw, Remember(raw, {t.id}, 0)
    PROVE  AgesAreElapsed'
<1>1. faults' = [id \in DOMAIN faults \cup {t.id} |->
                   IF id = t.id THEN Injected(t) ELSE faults[id]]
  BY DEF WithFault, Injected
<1>2. Injected(t).age = 0 /\ Injected(t).duration = t.duration
  BY DEF Injected
<1>3. t.duration # Unlimited => 0 < t.duration
  BY DEF TemplateType, Limit, LastsAWhile
<1>4. \A id \in DOMAIN faults' : StaysOrIsNew(id, {t.id})
  BY <1>1, <1>2, <1>3 DEF StaysOrIsNew
<1>5. QED
  BY <1>4, CallKeepsAges

\* A sub-step makes what it leaves registered a second older, and leaves nothing
\* whose duration has passed.
LEMMA OneSecondOlder ==
    ASSUME NEW f \in FaultType
    PROVE  /\ Older(f, 1).age = CountUpTo(f.age, MaxAge)
           /\ Older(f, 1).duration = f.duration
           /\ (~Expired(Older(f, 1)) /\ f.duration # Unlimited)
                => Older(f, 1).age < Older(f, 1).duration
<1>1. MaxAge \in Nat /\ f.age \in 0..MaxAge
  BY FaultRegistryAssumption DEF FaultType
<1>2. Older(f, 1).age = CountUpTo(f.age, MaxAge)
  BY <1>1 DEF Older, CountUpTo, FaultType
<1>3. Older(f, 1).duration = f.duration /\ Older(f, 1) \in FaultType
  BY AgeingKeepsFault
<1>4. QED
  BY <1>2, <1>3 DEF Expired, FaultType, Limit

LEMMA FiringKeepsAge ==
    ASSUME NEW id \in DOMAIN faults, faults[id] \in FaultType
    PROVE  AfterFiring(id).age = faults[id].age
BY DEF AfterFiring, FaultType

LEMMA SubstepKeepsAges ==
    ASSUME RegistryOK, AgesAreElapsed, Substep
    PROVE  AgesAreElapsed'
<1>0. \A id \in DOMAIN faults : faults[id] \in FaultType
  BY DEF RegistryOK, FaultsOK
<1>1. live /\ live' = live /\ \E raw : Remember(raw, {}, 1)
  BY DEF Substep, AgesAreElapsed
<1>2. \/ \E firing \in MayFire(SimIds \cap DOMAIN faults) : PoweredStep(1, firing)
      \/ OfflineStep(1)
  BY <1>1 DEF Substep
<1>3. ASSUME NEW id \in DOMAIN faults'
      PROVE  /\ id \in DOMAIN faults
             /\ \E f \in FaultType : /\ f.age = faults[id].age
                                     /\ faults'[id] = Older(f, 1)
                                     /\ ~Expired(Older(f, 1))
  <2>1. CASE \E firing \in MayFire(SimIds \cap DOMAIN faults) : PoweredStep(1, firing)
    <3>1. PICK firing \in MayFire(SimIds \cap DOMAIN faults) : PoweredStep(1, firing)
      BY <2>1
    <3> DEFINE fired == [i \in DOMAIN faults |->
                           IF i \in firing THEN AfterFiring(i) ELSE faults[i]]
               left  == {i \in DOMAIN faults : /\ ~(i \in firing /\ Spent(fired[i]))
                                               /\ ~Expired(Older(fired[i], 1))}
    <3>2. faults' = [i \in left |-> Older(fired[i], 1)]
      BY <3>1 DEF PoweredStep
    <3>3. /\ id \in DOMAIN faults
          /\ faults'[id] = Older(fired[id], 1) /\ ~Expired(Older(fired[id], 1))
      BY <1>3, <3>2
    <3>4. fired[id] \in FaultType /\ fired[id].age = faults[id].age
      BY <1>0, <3>3, FiringKeepsFault, FiringKeepsAge
    <3>5. QED
      BY <3>3, <3>4
  <2>2. CASE OfflineStep(1)
    <3> DEFINE left == {i \in DOMAIN faults : ~Expired(Older(faults[i], 1))}
    <3>1. \/ faults' = [i \in {} |-> FALSE]
          \/ faults' = [i \in left |-> Older(faults[i], 1)]
      BY <2>2 DEF OfflineStep
    <3>2. /\ id \in DOMAIN faults
          /\ faults'[id] = Older(faults[id], 1) /\ ~Expired(Older(faults[id], 1))
      BY <1>3, <3>1
    <3>3. QED
      BY <1>0, <3>2
  <2>3. QED
    BY <1>2, <2>1, <2>2
<1>4. ASSUME NEW id \in DOMAIN faults'
      PROVE  /\ memory'.elapsed[id] = faults'[id].age
             /\ faults'[id].duration # Unlimited => faults'[id].age < faults'[id].duration
  <2>1. PICK f \in FaultType : /\ f.age = faults[id].age
                               /\ faults'[id] = Older(f, 1)
                               /\ ~Expired(Older(f, 1))
    BY <1>3, <1>4
  <2>2. memory'.elapsed[id] = CountUpTo(memory.elapsed[id], MaxAge)
    BY <1>1, <1>4 DEF Remember, RegisteredFor
  <2>3. memory.elapsed[id] = faults[id].age
    BY <1>3, <1>4 DEF AgesAreElapsed
  <2>4. QED
    BY <2>1, <2>2, <2>3, OneSecondOlder
<1>5. QED
  BY <1>1, <1>4 DEF AgesAreElapsed

\* What a scenario injects.
LEMMA StepLastsAWhile ==
    ASSUME DurationsArePositive, runners \in RunnersType, NEW slot \in Slots, ~Done(slot),
           NextStep(slot).kind = "inject"
    PROVE  LastsAWhile(NextStep(slot).fault)
<1>1. PICK i \in 1..Len(Steps(slot)) : NextStep(slot) = Steps(slot)[i]
  <2>1. runners[slot].index + 1 \in 1..Len(Steps(slot)) /\ IsTimeline(Steps(slot))
    BY NextStepIsAStep, StepsAreATimeline
  <2>2. Sorted(Steps(slot))[runners[slot].index + 1] \in 1..Len(Steps(slot))
    BY <2>1, SortedIsPermutation DEF IsTimeline
  <2>3. QED
    BY <2>2 DEF NextStep
<1>2. CASE runners[slot].name = NoScenario
  BY <1>1, <1>2 DEF Steps
<1>3. CASE runners[slot].name # NoScenario
  <2>1. runners[slot].name \in DOMAIN Scenarios
    BY <1>3 DEF RunnersType
  <2>2. Steps(slot) = Scenarios[runners[slot].name].timeline
    BY <1>3 DEF Steps
  <2>3. i \in DOMAIN Steps(slot)
    BY <1>1, StepsAreATimeline DEF IsTimeline
  <2>4. QED
    BY <1>1, <2>1, <2>2, <2>3 DEF DurationsArePositive
<1>4. QED
  BY <1>2, <1>3

LEMMA ApplyKeepsAges ==
    ASSUME AgesAreElapsed, live' = live, NEW step, IsStep(step), Apply(step),
           step.kind = "inject" => LastsAWhile(step.fault)
    PROVE  AgesAreElapsed'
<1>1. CASE step.kind = "inject"
  <2>1. /\ faults' = WithFault(step.fault) /\ step.fault \in TemplateType
        /\ Remember(memory.raw, {step.fault.id}, 0)
    BY <1>1 DEF Apply, IsStep
  <2>2. QED
    BY <1>1, <2>1, InjectionKeepsAges
<1>2. CASE step.kind = "clear"
  <2>1. /\ faults' = [id \in DOMAIN faults \ {step.id} |-> faults[id]]
        /\ Remember(memory.raw, {}, 0)
    BY <1>2 DEF Apply
  <2>2. QED
    BY <2>1, FewerKeepAges
<1>3. CASE step.kind \in {"set", "profile", "time", "assert"}
  <2>1. faults' = faults /\ (memory' = memory \/ \E raw : Remember(raw, {}, 0))
    BY <1>3 DEF Apply, WithProfile, vars
  <2>2. QED
    BY <2>1, SameKeepAges
<1>4. QED
  BY <1>1, <1>2, <1>3 DEF Apply

LEMMA FaultCallsKeepAges ==
    ASSUME DurationsArePositive, AgesAreElapsed, FaultAndProbeCalls
    PROVE  AgesAreElapsed'
<1>0. live' = live
  BY DEF FaultAndProbeCalls
<1>1. ASSUME NEW t \in Templates, Inject(t) \/ DisconnectFor(t),
             Remember(memory.raw, {t.id}, 0)
      PROVE  AgesAreElapsed'
  <2>1. t \in TemplateType /\ LastsAWhile(t) /\ faults' = WithFault(t)
    BY <1>1, FaultRegistryAssumption DEF DurationsArePositive, Inject, DisconnectFor
  <2>2. QED
    BY <1>0, <1>1, <2>1, InjectionKeepsAges
<1>2. ASSUME NEW ids \in SUBSET DOMAIN faults, Clear(ids), Remember(memory.raw, {}, 0)
      PROVE  AgesAreElapsed'
  <2>1. faults' = [id \in DOMAIN faults \ ids |-> faults[id]]
    BY <1>2 DEF Clear
  <2>2. QED
    BY <1>0, <1>2, <2>1, FewerKeepAges
<1>3. ASSUME NEW p \in Probes, Disconnect(p) \/ Reconnect(p), Remember(memory.raw, {}, 0)
      PROVE  AgesAreElapsed'
  BY <1>0, <1>3, SameKeepAges DEF Disconnect, Reconnect
<1>4. QED
  BY <1>1, <1>2, <1>3 DEF FaultAndProbeCalls

\* The restores the cases of a step name are those of Restores.
LEMMA RestoreIsAmongRestores ==
    ASSUME NEW blob \in saved, NEW stop \in Stops, NEW ids \in SUBSET DOMAIN blob.faults,
           Restore(blob, stop, ids)
    PROVE  Restores
<1>1. CASE stop = "faults"
  BY <1>1 DEF Restores
<1>2. CASE stop # "faults"
  <2>1. Restore(blob, stop, {})
    BY <1>2 DEF Restore
  <2>2. QED
    BY <1>2, <2>1 DEF Restores
<1>3. QED
  BY <1>1, <1>2

LEMMA StepKeepsAges ==
    ASSUME DurationsArePositive, ControlOK, RegistryOK, AgesAreElapsed,
           [SessionNext]_sessionVars, [~Restores]_sessionVars
    PROVE  AgesAreElapsed'
<1>1. CASE UNCHANGED sessionVars
  BY <1>1, SameKeepAges DEF sessionVars, vars
<1>2. CASE \E slot \in Slots : ApplyStep(slot)
  <2>1. PICK slot \in Slots : ApplyStep(slot)
    BY <1>2
  <2>2. ~Done(slot) /\ Apply(NextStep(slot)) /\ live' = live
    BY <2>1 DEF ApplyStep, ControlOK, StepsAreOnTime
  <2>3. IsStep(NextStep(slot))
    BY <2>2, NextStepIsAStep DEF ControlOK
  <2>4. QED
    BY <2>2, <2>3, ApplyKeepsAges, StepLastsAWhile DEF ControlOK
<1>3. CASE /\ \E blob \in saved : \E stop \in Stops : \E ids \in SUBSET DOMAIN blob.faults :
                 Restore(blob, stop, ids)
           /\ ~UNCHANGED sessionVars
  BY <1>3, RestoreIsAmongRestores
<1>4. CASE \/ TickLoop
           \/ \E slot \in Slots : StepScenario(slot) \/ StopScenario(slot)
           \/ \E n \in Advances : Advance(n)
           \/ \E c : SetClock(c)
           \/ Snapshot
  BY <1>4, SameKeepAges
     DEF TickLoop, StepScenario, StopScenario, Advance, SetClock, Snapshot, vars
<1>5. CASE \/ \E slot \in Slots : \E name \in DOMAIN Scenarios : LoadScenario(slot, name)
           \/ \E values \in Fragments : Patch(values)
           \/ \E profile \in Profiles : SetProfile(profile)
           \/ \E w \in Writes : Write(w)
  <2>1. faults' = faults /\ live' = live /\ \E raw : Remember(raw, {}, 0)
    BY <1>5 DEF LoadScenario, Patch, SetProfile, WithProfile, AdminWrite, Write
  <2>2. QED
    BY <2>1, SameKeepAges
<1>6. CASE \E form \in Forms : Post(form)
  <2>1. Request({}) /\ live' = live /\ \E raw : Remember(raw, {}, 0)
    BY <1>6 DEF Post
  <2>2. faults' = [id \in DOMAIN faults |-> faults[id]]
    BY <2>1 DEF Request
  <2>3. QED
    BY <2>1, <2>2, FewerKeepAges
<1>7. CASE ResetDevice
  <2>1. Remember({}, {}, 0) /\ live' = live /\ DOMAIN faults' = {}
    BY <1>7 DEF ResetDevice, Reset
  <2>2. QED
    BY <2>1 DEF AgesAreElapsed
<1>8. QED
  BY <1>1, <1>2, <1>3, <1>4, <1>5, <1>6, <1>7, SessionStepCases, SubstepKeepsAges,
     FaultCallsKeepAges

\* Where nothing is restored, no fault stays registered for as long as its
\* duration, whatever freezes, scales, advances and scenarios do to the clock
\* (faults/__init__.py:59): a restore is all that makes a fault last longer.
THEOREM DurationsHold ==
    ASSUME DurationsArePositive
    PROVE  SessionSpec /\ NothingRestored => []ExpiresOnTime
<1>1. SessionInit => AgesAreElapsed
  BY DEF SessionInit, Init, AgesAreElapsed
<1>2. AgesAreElapsed => ExpiresOnTime
  BY DEF AgesAreElapsed, ExpiresOnTime
<1>3. SessionInv /\ AgesAreElapsed /\ [SessionNext]_sessionVars /\ [~Restores]_sessionVars
        => AgesAreElapsed'
  BY StepKeepsAges DEF SessionInv
<1>4. QED
  BY <1>1, <1>2, <1>3, SessionInvHolds, PTL DEF SessionSpec, NothingRestored
=============================================================================
