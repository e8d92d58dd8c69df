------------------------------ MODULE Session ------------------------------
(***************************************************************************)
(* A session with the simulator: Simulation (core/simulation.py) with its  *)
(* clock (core/clock.py), the background tick loop (web/server.py), the    *)
(* scenario runners (scenario/runner.py), snapshot and restore, as the     *)
(* admin plane (web/admin_app.py) and the in-process client                *)
(* (client/admin_client.py) drive them, over the fault registry.           *)
(*                                                                         *)
(* Calls run one at a time.  A call that lets time pass runs sub-step by   *)
(* sub-step, nothing else in between.  Time is counted in sub-steps: a     *)
(* tick of the loop at speed v is v of them.  Of a snapshot the device,    *)
(* probes, clock and faults are kept.  No countdown runs here, so that     *)
(* only writes change the device.                                          *)
(***************************************************************************)
EXTENDS FaultRegistry, WireForm

CONSTANTS
    Slots,     \* who keeps a runner: the admin app, an in-process client
    Scenarios, \* by name: the initial profile, if any, the initial fragment, and
               \* the timeline as written
    Speeds,    \* of the clock; 0 is frozen
    Advances,  \* what clients advance by
    Forms,     \* POSTed: sequences of a key and a raw value
    Writes,    \* by apply_write: a key, a raw value, whether strict
    Fragments, \* PATCHed: the raw values of some fields
    Profiles,  \* cook profiles: the fields they write, the probes they plug or unplug
    Factory,   \* factory_state
    Demo,      \* demo_state
    MaxNow     \* bound: the clock is counted up to it

RealTime == 1
NoSlot == "nobody"
NoScenario == "none"

DeviceType == [Fields -> Nat]

IsFragment(values) == DOMAIN values \subseteq Fields /\ values \in [DOMAIN values -> Nat]
IsProfile(profile) ==
    /\ IsFragment(profile.values)
    /\ DOMAIN profile.plugged \subseteq Probes
    /\ profile.plugged \in [DOMAIN profile.plugged -> BOOLEAN]

\* TimelineStep; what a step of time advances is in sub-steps.
IsStep(step) ==
    /\ step.at \in 0..MaxNow
    /\ step.kind \in {"set", "profile", "inject", "clear", "time", "assert"}
    /\ step.kind = "set"     => IsFragment(step.values)
    /\ step.kind = "profile" => IsProfile(step.profile)
    /\ step.kind = "inject"  => step.fault \in TemplateType
    /\ step.kind = "clear"   => step.id \in Ids
    /\ step.kind = "time"    => /\ \E v \in Speeds : step.scale \in {{}, {v}}
                               /\ step.freeze \in BOOLEAN
                               /\ step.resume \in {"no", "prior", "at"}
                               /\ step.speed \in Speeds
                               /\ step.advance \in Nat

IsScenario(scenario) ==
    /\ \A profile \in scenario.profile : IsProfile(profile)
    /\ IsFragment(scenario.initial)
    /\ Len(scenario.timeline) \in Nat
    /\ scenario.timeline = [i \in 1..Len(scenario.timeline) |-> scenario.timeline[i]]
    /\ \A i \in DOMAIN scenario.timeline : IsStep(scenario.timeline[i])

ASSUME SessionAssumption ==
    /\ NoSlot \notin Slots
    /\ NoScenario \notin DOMAIN Scenarios
    /\ MaxNow \in Nat
    /\ {0, RealTime} \subseteq Speeds /\ Speeds \subseteq Nat
    /\ Advances \subseteq Nat
    /\ {Factory, Demo} \subseteq DeviceType
    /\ \A f \in Fields : InRange(f, Factory[f]) /\ InRange(f, Demo[f])
    /\ \A name \in DOMAIN Scenarios : IsScenario(Scenarios[name])
    /\ Forms \subseteq FormType
    /\ Writes \subseteq [key : STRING, raw : RawType, strict : BOOLEAN]
    /\ \A values \in Fragments : IsFragment(values)
    /\ \A profile \in Profiles : IsProfile(profile)

VARIABLES
    clock,   \* VirtualClock: _now, _speed and _resume_speed
    live,    \* whether the registry goes by that clock, and not by one replaced
    work,    \* of the call under way: the sub-steps left, and the runner, if
             \* any, that then applies its next step
    runners, \* of each slot: its scenario, and the steps applied so far
    device,  \* the writable part of DeviceState
    saved,   \* the blob a client keeps, if it took one
    memory   \* no part of the program: the fields last written unvalidated,
             \* and the time each fault has been registered, snapshots included

sessionVars == <<vars, clock, live, work, runners, device, saved, memory>>

NoWork == [left |-> 0, slot |-> NoSlot]
Idle == work = NoWork
-----------------------------------------------------------------------------
(* VirtualClock.                                                            *)

\* A new clock.
NewClock(speed, now) ==
    [now |-> now, speed |-> speed, resume |-> IF speed > 0 THEN speed ELSE RealTime]

\* Mutant: a clock frozen twice remembers the freeze.
FrozenForgetful(c) == [c EXCEPT !.resume = c.speed, !.speed = 0]

\* freeze
Frozen(c) == [c EXCEPT !.resume = IF c.speed > 0 THEN c.speed ELSE @, !.speed = 0]

\* scale, and resume at a given speed.
Scaled(c, speed) == [c EXCEPT !.speed = speed, !.resume = IF speed > 0 THEN speed ELSE @]

\* resume
Resumed(c) == [c EXCEPT !.speed = c.resume]

-----------------------------------------------------------------------------
(* Scenarios.                                                               *)

Steps(slot) ==
    IF runners[slot].name = NoScenario THEN <<>> ELSE Scenarios[runners[slot].name].timeline

\* Mutant: steps of one time in the reverse order.
SortsBeforeUnstably(steps, p, q) ==
    steps[p].at < steps[q].at \/ (steps[p].at = steps[q].at /\ p > q)

\* Whether step p of a timeline is sorted before step q.
SortsBefore(steps, p, q) ==
    steps[p].at < steps[q].at \/ (steps[p].at = steps[q].at /\ p < q)

\* sorted_timeline, as the positions in the order of their times.
Sorted(steps) ==
    [i \in DOMAIN steps |->
        CHOOSE p \in DOMAIN steps :
            Cardinality({q \in DOMAIN steps : SortsBefore(steps, q, p)}) = i - 1]

\* done
Done(slot) == runners[slot].index >= Len(Steps(slot))

\* The step a runner is about to apply.
NextStep(slot) == Steps(slot)[Sorted(Steps(slot))[runners[slot].index + 1]]

\* _apply_time: its operations in their order.  A resume at 1 is taken for
\* "resume: true", 1 being equal to True.
ClockAfter(op, c) ==
    LET scaled  == IF op.scale = {} THEN c ELSE Scaled(c, CHOOSE v \in op.scale : TRUE)
        stopped == IF op.freeze THEN Frozen(scaled) ELSE scaled
    IN  IF op.resume = "no" THEN stopped
        ELSE IF op.resume = "prior" \/ op.speed = RealTime THEN Resumed(stopped)
        ELSE Scaled(stopped, op.speed)

\* Some fields of a device, or some probes, overwritten.
Overlaid(old, values) == [f \in DOMAIN old |-> IF f \in DOMAIN values THEN values[f] ELSE old[f]]

-----------------------------------------------------------------------------
(* What the properties remember.                                            *)

\* How long the faults have been registered, those in `fresh` from now on.
RegisteredFor(fresh, more) ==
    [id \in DOMAIN faults' |-> IF id \in fresh THEN 0
                               ELSE IF more = 0 THEN memory.elapsed[id]
                               ELSE CountUpTo(memory.elapsed[id], MaxAge)]

Remember(raw, fresh, more) ==
    memory' = [raw |-> raw, elapsed |-> RegisteredFor(fresh, more)]

\* After a validated write.
StillRaw == {f \in memory.raw : device'[f] = device[f]}

-----------------------------------------------------------------------------
SessionInit ==
    /\ Init
    /\ \E speed \in Speeds : clock = NewClock(speed, 0)
    /\ live = TRUE
    /\ work = NoWork
    /\ runners = [slot \in Slots |-> [name |-> NoScenario, index |-> 0]]
    /\ device = Factory
    /\ saved = {}
    /\ memory = [raw |-> {}, elapsed |-> [id \in {} |-> 0]]

-----------------------------------------------------------------------------
(* Time passes.                                                             *)

\* Mutant: the loop does not tick in an outage.
TickLoopPowered ==
    /\ Idle
    /\ work' = [work EXCEPT !.left = IF Powered THEN clock.speed ELSE 0]
    /\ UNCHANGED <<vars, clock, live, runners, device, saved, memory>>

\* _tick_loop: a no-op while the clock is frozen.
TickLoop ==
    /\ Idle
    /\ work' = [work EXCEPT !.left = clock.speed]
    /\ UNCHANGED <<vars, clock, live, runners, device, saved, memory>>

\* _substep: the registry goes by the clock it was made with.
Substep ==
    /\ work.left > 0
    /\ LET dt == IF live THEN 1 ELSE 0
       IN  \/ \E firing \in MayFire(SimIds \cap DOMAIN faults) : PoweredStep(dt, firing)
           \/ OfflineStep(dt)
    /\ clock' = [clock EXCEPT !.now = CountUpTo(@, MaxNow)]
    /\ work' = [work EXCEPT !.left = @ - 1]
    /\ device' = IF config' = "factory" THEN Factory ELSE device
    /\ Remember(IF config' = "factory" THEN {} ELSE memory.raw, {}, 1)
    /\ UNCHANGED <<live, runners, saved>>

\* time/advance
Advance(n) ==
    /\ Idle
    /\ Call(history.fired, history.owed, history.unplugged)
    /\ work' = [work EXCEPT !.left = n]
    /\ UNCHANGED <<faults, probes, config, clock, live, runners, device, saved, memory>>

\* time/freeze, time/scale and time/resume
SetClock(c) ==
    /\ Idle
    /\ Call(history.fired, history.owed, history.unplugged)
    /\ clock' = c
    /\ UNCHANGED <<faults, probes, config, live, work, runners, device, saved, memory>>

TimeCalls ==
    \/ \E n \in Advances : Advance(n)
    \/ \E speed \in Speeds : SetClock(Scaled(clock, speed))
    \/ SetClock(Frozen(clock))
    \/ SetClock(Resumed(clock))

-----------------------------------------------------------------------------
(* Scenario runners.                                                        *)

UnpluggedBy(profile) ==
    {p \in Probes : IF p \in DOMAIN profile.plugged THEN ~profile.plugged[p]
                                                    ELSE p \in history.unplugged}

\* set_profile: setpoints and names, and the probes it plugs or unplugs; and a
\* fragment written over it.
WithProfile(profile, fragment) ==
    /\ device' = Overlaid(Overlaid(device, profile.values), fragment)
    /\ probes' = Overlaid(probes, profile.plugged)
    /\ config' = "set"
    /\ UNCHANGED faults
    /\ Remember(memory.raw \cup DOMAIN profile.values \cup DOMAIN fragment, {}, 0)

Nothing == [f \in {} |-> 0]

\* scenario/load: apply_initial, and a runner at the first step.
LoadScenario(slot, name) ==
    /\ Idle
    /\ runners' = [runners EXCEPT ![slot] = [name |-> name, index |-> 0]]
    /\ \/ /\ Scenarios[name].profile = {}
          /\ AdminWrite
          /\ device' = Overlaid(device, Scenarios[name].initial)
          /\ Remember(memory.raw \cup DOMAIN Scenarios[name].initial, {}, 0)
       \/ \E profile \in Scenarios[name].profile :
             /\ Call(history.fired, history.owed, UnpluggedBy(profile))
             /\ WithProfile(profile, Scenarios[name].initial)
    /\ UNCHANGED <<clock, live, work, saved>>

\* scenario/stop
StopScenario(slot) ==
    /\ Idle
    /\ Call(history.fired, history.owed, history.unplugged)
    /\ runners' = [runners EXCEPT ![slot] = [name |-> NoScenario, index |-> 0]]
    /\ UNCHANGED <<faults, probes, config, clock, live, work, device, saved, memory>>

\* Mutant: the step's time is taken for the time that has to pass.
SubstepsToFromNow(at) == at

\* Mutant: backward as well.
SubstepsToBackward(at) == at - clock.now

\* _advance_to: never backward.
SubstepsTo(at) == IF at > clock.now THEN at - clock.now ELSE 0

\* scenario/step: time passes up to the next step ...
StepScenario(slot) ==
    /\ Idle
    /\ ~Done(slot)
    /\ work' = [left |-> SubstepsTo(NextStep(slot).at), slot |-> slot]
    /\ UNCHANGED <<vars, clock, live, runners, device, saved, memory>>

\* ... which is then applied.
Apply(step) ==
    \/ /\ step.kind = "set"
       /\ device' = Overlaid(device, step.values)
       /\ config' = "set"
       /\ work' = NoWork
       /\ UNCHANGED <<faults, probes, history, clock>>
       /\ Remember(memory.raw \cup DOMAIN step.values, {}, 0)
    \/ /\ step.kind = "profile"
       /\ WithProfile(step.profile, Nothing)
       /\ history' = [history EXCEPT !.unplugged = UnpluggedBy(step.profile)]
       /\ work' = NoWork
       /\ UNCHANGED clock
    \/ /\ step.kind = "inject"
       /\ faults' = WithFault(step.fault)
       /\ history' = [history EXCEPT !.fired[step.fault.id] = 0, !.owed = @ \ {step.fault.id}]
       /\ work' = NoWork
       /\ UNCHANGED <<probes, config, clock, device>>
       /\ Remember(memory.raw, {step.fault.id}, 0)
    \/ /\ step.kind = "clear"
       /\ faults' = [id \in DOMAIN faults \ {step.id} |-> faults[id]]
       /\ history' = [history EXCEPT !.owed = @ \ {step.id}]
       /\ work' = NoWork
       /\ UNCHANGED <<probes, config, clock, device>>
       /\ Remember(memory.raw, {}, 0)
    \/ /\ step.kind = "time"
       /\ clock' = ClockAfter(step, clock)
       /\ work' = [left |-> step.advance, slot |-> NoSlot]
       /\ UNCHANGED <<vars, device, memory>>
    \/ /\ step.kind = "assert"
       /\ work' = NoWork
       /\ UNCHANGED <<vars, clock, device, memory>>

\* The cursor moves before the step is applied: a failed assert is not asked again.
ApplyStep(slot) ==
    /\ work.slot = slot
    /\ work.left = 0
    /\ Apply(NextStep(slot))
    /\ runners' = [runners EXCEPT ![slot].index = @ + 1]
    /\ UNCHANGED <<live, saved>>

ScenarioCalls(slot) ==
    \/ \E name \in DOMAIN Scenarios : LoadScenario(slot, name)
    \/ StepScenario(slot)
    \/ StopScenario(slot)

-----------------------------------------------------------------------------
(* Snapshot and restore.                                                    *)

\* state/snapshot
Snapshot ==
    /\ Idle
    /\ Call(history.fired, history.owed, history.unplugged)
    /\ saved' = {[device |-> device, config |-> config, probes |-> probes, faults |-> faults,
                  now |-> clock.now, speed |-> clock.speed,
                  unplugged |-> history.unplugged, memory |-> memory]}
    /\ UNCHANGED <<faults, probes, config, clock, live, work, runners, device, memory>>

\* Mutant: a restored fault has lost its duration.
InjectedForGood(blob, ids) ==
    [id \in ids |-> [blob.faults[id] EXCEPT !.age = 0, !.activations = 0,
                                            !.duration = Unlimited]]

\* Faults of a blob, injected into a new registry: they start anew, and an
\* outage that was in force is at once.
InjectedAnew(blob, ids) ==
    [id \in ids |-> [blob.faults[id] EXCEPT !.age = 0, !.activations = 0]]

\* Where a restore may fail on a blob that lacks a part: after the device, after
\* the clock, or after some of the faults.
Stops == {"device", "clock", "faults"}

\* state/restore, up to where it fails, if it does.  Between the new clock and
\* the new registry it leaves the old registry with the old clock.
Restore(blob, stop, ids) ==
    LET renewed == stop = "faults"
    IN  /\ Idle
        /\ history.calls < MaxCalls
        /\ history' = [fired     |-> IF renewed THEN [id \in Ids |-> 0] ELSE history.fired,
                       owed      |-> IF renewed
                                     THEN {id \in ids \cap PowerIds : /\ blob.faults[id].offline
                                                                      /\ blob.faults[id].reset}
                                     ELSE history.owed,
                       unplugged |-> blob.unplugged,
                       calls     |-> history.calls + 1]
        /\ device' = blob.device
        /\ config' = blob.config
        /\ probes' = blob.probes
        /\ clock' = IF stop = "device" THEN clock ELSE NewClock(blob.speed, blob.now)
        /\ live' = (renewed \/ (live /\ stop = "device"))
        /\ faults' = IF renewed THEN InjectedAnew(blob, ids) ELSE faults
        /\ memory' = [raw     |-> blob.memory.raw,
                      elapsed |-> IF renewed THEN [id \in ids |-> blob.memory.elapsed[id]]
                                             ELSE memory.elapsed]
        /\ UNCHANGED <<work, runners, saved>>

\* The ways a restore goes.
Restores ==
    \E blob \in saved :
        \/ \E stop \in Stops \ {"faults"} : Restore(blob, stop, {})
        \/ \E ids \in SUBSET DOMAIN blob.faults : Restore(blob, "faults", ids)

-----------------------------------------------------------------------------
(* Device state, probes and faults.                                         *)

\* PATCH state: a raw fragment.
Patch(values) ==
    /\ Idle
    /\ AdminWrite
    /\ device' = Overlaid(device, values)
    /\ Remember(memory.raw \cup DOMAIN values, {}, 0)
    /\ UNCHANGED <<clock, live, work, runners, saved>>

\* state/reset, to the factory or the demo state.
ResetDevice ==
    /\ Idle
    /\ \/ Reset /\ device' = Factory
       \/ /\ Call(history.fired, {}, {})
          /\ faults' = [id \in {} |-> FALSE]
          /\ probes' = AllConnected
          /\ config' = "set"
          /\ device' = Demo
    /\ Remember({}, {}, 0)
    /\ UNCHANGED <<clock, live, work, runners, saved>>

\* POST profile
SetProfile(profile) ==
    /\ Idle
    /\ Call(history.fired, history.owed, UnpluggedBy(profile))
    /\ WithProfile(profile, Nothing)
    /\ UNCHANGED <<clock, live, work, runners, saved>>

StateCalls ==
    \/ \E values \in Fragments : Patch(values)
    \/ ResetDevice
    \/ Snapshot
    \/ Restores
    \/ \E profile \in Profiles : SetProfile(profile)

\* Whether anybody has changed the configuration, with the device now at `to`.
ConfigAfter(to) == IF to = device THEN config ELSE "set"

\* A write by Simulation.apply_write.
Write(w) ==
    /\ Idle
    /\ Call(history.fired, history.owed, history.unplugged)
    /\ device' = AfterWrite(device, w.key, w.raw, w.strict).device
    /\ config' = ConfigAfter(device')
    /\ UNCHANGED <<faults, probes, clock, live, work, runners, saved>>
    /\ Remember(StillRaw, {}, 0)

\* A POST on the device plane, which is not there in an outage.
Post(form) ==
    /\ Idle
    /\ Powered
    /\ Request({})
    /\ device' = AfterForm(device, form, FALSE).device
    /\ config' = ConfigAfter(device')
    /\ Remember(StillRaw, {}, 0)
    /\ UNCHANGED <<clock, live, work, runners, saved>>

\* Disconnecting a probe for some time also injects probe.open.
DisconnectFor(t) ==
    /\ t.id = "probe.open"
    /\ Call([history.fired EXCEPT ![t.id] = 0], history.owed, history.unplugged \cup {t.probe})
    /\ probes' = [probes EXCEPT ![t.probe] = FALSE]
    /\ faults' = WithFault(t)
    /\ UNCHANGED config

FaultAndProbeCalls ==
    /\ Idle
    /\ \/ \E t \in Templates : /\ Inject(t) \/ DisconnectFor(t)
                               /\ Remember(memory.raw, {t.id}, 0)
       \/ /\ \/ \E id \in DOMAIN faults : Clear({id})
             \/ Clear(DOMAIN faults)
             \/ \E p \in Probes : Disconnect(p) \/ Reconnect(p)
          /\ Remember(memory.raw, {}, 0)
    /\ UNCHANGED <<clock, live, work, runners, device, saved>>

-----------------------------------------------------------------------------
\* What the admin plane, or an in-process client, may ask for.
Calls(slot) == ScenarioCalls(slot) \/ TimeCalls \/ StateCalls \/ FaultAndProbeCalls

\* What happens by itself.
Running == TickLoop \/ Substep \/ \E slot \in Slots : ApplyStep(slot)

SessionNext ==
    \/ Running
    \/ \E slot \in Slots : Calls(slot)
    \/ \E w \in Writes : Write(w)
    \/ \E form \in Forms : Post(form)

SessionSpec == SessionInit /\ [][SessionNext]_sessionVars

\* Calls that have begun end, and the loop ticks.
SessionFairSpec == SessionSpec /\ WF_sessionVars(Running)

-----------------------------------------------------------------------------
\* What snapshot dumps.
IsBlob(blob) ==
    /\ blob.device \in DeviceType
    /\ blob.config \in {"factory", "set"}
    /\ blob.probes \in [Probes -> BOOLEAN]
    /\ DOMAIN blob.faults \subseteq Ids
    /\ \A id \in DOMAIN blob.faults : /\ blob.faults[id] \in FaultType
                                      /\ blob.faults[id].offline => id \in PowerIds
    /\ blob.now \in 0..MaxNow
    /\ blob.speed \in Speeds
    /\ blob.unplugged \subseteq Probes
    /\ blob.memory.raw \subseteq Fields
    /\ blob.memory.elapsed \in [DOMAIN blob.faults -> 0..MaxAge]

SessionTypeOK ==
    /\ TypeOK
    /\ clock.now \in 0..MaxNow /\ clock.speed \in Speeds /\ clock.resume \in Nat
    /\ live \in BOOLEAN
    /\ work.left \in Nat /\ work.slot \in Slots \cup {NoSlot}
    /\ \A slot \in Slots : /\ runners[slot].name \in DOMAIN Scenarios \cup {NoScenario}
                           /\ runners[slot].index \in 0..Len(Steps(slot))
    /\ device \in DeviceType
    /\ \A blob \in saved : IsBlob(blob)
    /\ memory.raw \subseteq Fields
    /\ memory.elapsed \in [DOMAIN faults -> 0..MaxAge]

\* However freezes, scales, scenario steps and restores follow each other,
\* resume without a speed sets the clock going, and does not change the speed of
\* one that runs (clock.py:92, "remembering the prior speed").
ResumeRuns ==
    /\ clock.resume > 0
    /\ clock.speed > 0 => clock.resume = clock.speed

\* While time passes for a scenario's step it passes exactly up to the step's
\* time, and the step is applied then, or at once when that time is over:
\* whatever restores and other runners did to the clock (runner.py:190,
\* "never backward").
StepsAreOnTime ==
    work.slot \in Slots =>
        LET at == NextStep(work.slot).at
        IN  /\ ~Done(work.slot)
            /\ IF work.left > 0 THEN clock.now + work.left = at ELSE at <= clock.now

\* Every field is within the limits of the table of writable parameters, unless
\* a fragment or a profile, which are not validated, put it out of them: no
\* POST, apply_write, reset or restore does (validation.py:280).
DeviceInRange ==
    \A f \in Fields : InRange(f, device[f]) \/ f \in memory.raw

\* A timeline's steps are applied once each, in order and not early, by each
\* runner, whatever the other runner, the clock's calls and restores do
\* (docs/scenarios.md, "Steps run in `at` order; steps sharing the same `at` run
\* in listed order").
Promised ==
    INSTANCE Timeline WITH
        Runners   <- Slots,
        Timelines <- {<<>>} \cup {Scenarios[name].timeline : name \in DOMAIN Scenarios},
        timeline  <- [slot \in Slots |-> Steps(slot)],
        applied   <- [slot \in Slots |->
                        {Sorted(Steps(slot))[i] : i \in 1..runners[slot].index}],
        now       <- clock.now

RunnersKeepTimelines == Promised!Spec

\* The keys of a form that come before one that raises are applied, each key's
\* last accepted value counts, and nothing else of the device changes
\* (post_parse.py:249, "Duplicate keys are last-wins").
LastAccepted(form, f) ==
    LET Result(i) == Validate(form[i].key, form[i].raw, FALSE)
        Raises(i) == Result(i).verdict = "raised" \/ Result(i).value = NaN
        counting  == {i \in DOMAIN form : /\ Field(form[i].key) = f
                                          /\ Result(i).verdict = "accepted"
                                          /\ \A j \in 1..i : ~Raises(j)}
        last      == CHOOSE i \in counting : \A j \in counting : j <= i
    IN  IF counting = {} THEN device[f] ELSE Stored(form[last].key, Result(last).value)

FormsAreLastWins ==
    [][ \A form \in Forms : Post(form) => \A f \in Fields : device'[f] = LastAccepted(form, f)
      ]_sessionVars

\* Every outage ends, those a restore brought back and those scenarios began
\* included, unless the clock is left frozen or a restore failed half way and
\* left the registry a clock that stands.
ReturnsUnlessStopped ==
    <>[](clock.speed > 0 /\ live) => DeviceReturns

\* A fault with a duration is gone when it has been registered for that many
\* simulated seconds, the time before a snapshot included, whenever the registry
\* has the clock of the simulation
\* (faults/__init__.py:59, "Auto-expire after this many *simulated* seconds";
\* simulation.py:583, "so :meth:`restore` reproduces the run exactly").
ExpiresOnTime ==
    live => \A id \in DOMAIN faults :
               faults[id].duration # Unlimited => memory.elapsed[id] < faults[id].duration

-----------------------------------------------------------------------------
(* What the proofs need on top: inductive parts.                            *)

\* A snapshot keeps the outages in force with durations that had not passed, so
\* that those a restore brings back, with no age, end as well.
SavedOutagesEnd ==
    \A blob \in saved : \A id \in DOMAIN blob.faults :
        blob.faults[id].offline => /\ blob.faults[id].duration # Unlimited
                                   /\ blob.faults[id].age < blob.faults[id].duration

\* No fault is injected to expire before time passes.
LastsAWhile(fault) == fault.duration # 0

DurationsArePositive ==
    /\ \A t \in Templates : LastsAWhile(t)
    /\ \A name \in DOMAIN Scenarios :
          LET steps == Scenarios[name].timeline
          IN  \A i \in DOMAIN steps : steps[i].kind = "inject" => LastsAWhile(steps[i].fault)

\* Where nothing is restored, a fault is as old as it has been registered for,
\* and has not outlived its duration.
AgesAreElapsed ==
    /\ live
    /\ \A id \in DOMAIN faults :
          /\ memory.elapsed[id] = faults[id].age
          /\ faults[id].duration # Unlimited => faults[id].age < faults[id].duration

NothingRestored == [][~Restores]_sessionVars
=============================================================================
