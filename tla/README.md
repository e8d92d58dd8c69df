# Virtual CyberQ in TLA+

A TLA+ development of `virtualcyberq`, a simulator of the BBQ Guru CyberQ WiFi
barbecue controller.  The program keeps a simulated pit, controller and network
plane, serves the device's own HTTP interface on one port and an admin interface
(time, faults, snapshots, scenarios, the request journal) on another.  The modules
here model its state machines, TLC checks them on small instances, and TLAPS proves
the properties that matter most for every value of the constants.

Paths below are relative to `src/virtualcyberq/` of the repository unless they
begin with `docs/`.

## 1. Inventory

### Components, their state and their operations

| component | source | state | operations |
|---|---|---|---|
| Control law | `core/control.py` | none (operates on `DeviceState` and `SimState`) | `control_tick`: timer, timeout action, ramped setpoint, open lid, fan output, statuses |
| Simulation | `core/simulation.py` | `DeviceState`, `SimState`, thermal models, fault registry, `_prev_cook_temp_tenths` | `_substep`, `step`/`advance`, `apply_write`, probe/profile/persona calls, `reset`, `snapshot`/`restore` |
| Wire parser | `xml/post_parse.py` | none | `parse_and_apply`: POST keys applied one by one to `DeviceState` |
| State fragments | `scenario/runner.py` | none | raw patches of timer, probes, CONTROL, system |
| Fault registry | `core/faults/__init__.py` | registered faults by id, with start, activations, offline flag | `inject`, `clear`, `tick`, `apply_sim_faults`, `query_request` |
| Fault handlers | `core/faults/{power,sensor,network,http}.py` | through the registry | outages; open, short, noisy, stuck probes; refused, lost, late, dripped, malformed answers |
| Device-plane middleware | `web/device_faults.py` | `_open_conns`; one asyncio task per request | power check, body, app, fault decision, delay, drip, hang, refusal |
| Request journal | `web/server.py` | ring of records, two totals | `record`, `clear`, `entries` |
| Clock and tick loop | `core/clock.py`, `web/server.py` | now, speed, frozen, speed to resume | `freeze`, `resume`, `scale`, `advance`, background stepping every 0.1 s |
| Snapshot | `core/simulation.py`, `core/rng.py` | a JSON blob | dump and restore of state, physics, clock, rng, faults |
| Scenario runner | `scenario/` | a timeline and a cursor in it, one runner per slot | load, step, stop; a step advances the clock to its time, then sets, loads a profile, injects, clears, runs the clock or asserts |
| Server and harness | `web/server.py`, `testing/` | threads, event loops | start, stop, drive in process |
| Thermal models | `core/thermal.py`, `core/profiles.py` | pit and meat temperatures | floating-point step |
| Units, validation | `core/units.py`, `core/validation.py` | none | the table of writable parameters, clamping or rejecting, conversion to tenths |
| Rendering | `xml/` | none | pure functions of the state |

### How they interact

- The server's background task calls `Simulation.step` every 0.1 s of wall time; it
  cuts the simulated time into sub-steps.  A powered sub-step runs thermal step,
  `control_tick`, the sim faults that fire, the clock and fault expiry, in that order.
  An unpowered one only moves the clock and expires faults, and applies the return of
  power.
- Device requests, admin requests and the background task are asyncio tasks of one event
  loop.  A sub-step and an admin handler have no await inside, so each is atomic.  A device
  request awaits its body, a delay, a drip or for ever, and between its power check and its
  answer anything may happen.
- A device POST writes `DeviceState` through the wire parser, an admin call through
  `apply_write` or a state fragment.  The three paths do not do the same thing: only
  `apply_write` clears the latches of the last timeout.
- Faults reach the sub-step through the registry's offline flags and the probes' connected
  flags, and requests through the decision `query_request` returns.  Each fault id
  has a handler of one of the two families: sim faults are used up by sub-steps, request faults by requests.
- The admin app and the in-process client each have a slot for a scenario runner.  A runner moves the clock
  itself, up to the time of its next step, and its steps may freeze or scale it; so may any client, and a restore
  replaces clock and registry under the runners.
- A power return with `reset` calls the same `_reset_to` as the admin reset, which clears the
  registry that is being stepped.

### What is hard, and what makes each part correct

| part | hard behaviour | correctness |
|---|---|---|
| Cook timer | integer countdown under fractional ticks; three write paths; writes between the ticks of a countdown | it keeps simulated time, ends, reports and applies the action in force when it expires, and a timeout lasts until the operator starts over, and no longer |
| Fan, ramp, lid, alarms | each reads what the others left in this tick or the last | the fan is off when it must be; the lid flag never hides a pit at its target; the ramp stays between its two setpoints; no alarm before warm-up |
| Outages | overlap, default lengths, re-injection, a reset owed by one of several | every outage ends; no reset is lost |
| Fault counts | those of sim faults are used up by sub-steps, those of request faults by concurrent requests; injection again half way | a count is a budget |
| Sensor faults | change visible state, nothing undoes it | readings come back |
| Device plane | tasks suspended at awaits; clients that leave; power lost meanwhile | connections are counted exactly; the cap holds and refuses only beyond it; delayed answers are completed; the journal has each request once |
| Snapshot | what a blob does not hold; failure half way | a restored simulation continues like the dumped one |
| Scenario, clock | freeze, resume and restores with several owners of the clock; two timelines over it | each timeline's steps are applied once, in order, on time; a resume sets the clock going |
| Writes | lenient and strict validation, NaN and infinities, a form that fails on one key | no validated write leads out of the limits; a form does what its keys do one by one |

`PROJECT.json` lists the hazards one by one, each at its line, with the properties that cover it
or the reason that none does yet.

## 2. Modules

| module | models | extends |
|---|---|---|
| `Rounding` | Python's `round` | `Integers` |
| `ControlLaw` | the pure part of `core/control.py`: fan output, ramp target, open lid, cook and food statuses | `Integers`, `Rounding` |
| `CookController` | one control tick and every call that writes what it reads | `ControlLaw` |
| `CookControllerProofs`, `CookTimerProofs` | theorems about it | `CookController`, `RoundingProofs` |
| `FaultRegistry` | the registry, power faults, `probe.open`, powered and unpowered sub-steps, power return | `Integers`, `FiniteSets` |
| `FaultRegistryProofs` | theorems about it | `FaultRegistry`, `TLAPS` |
| `DevicePlane` | the middleware's concurrent requests and the journal, over `FaultRegistry` | `FaultRegistry`, `Sequences` |
| `DevicePlaneProofs` | theorems about it | `DevicePlane`, `FaultRegistryProofs` |
| `WireForm` | the table of writable parameters, validation, units, POST forms, `apply_write` | `Integers`, `Sequences`, `Rounding` |
| `Timeline` | what scenarios promise: the abstract specification | `Integers`, `Sequences` |
| `Session` | clock, tick loop, scenario runners, snapshot and restore, writes, over the registry; implements `Timeline` | `FaultRegistry`, `WireForm` |
| `RoundingProofs`, `WireFormProofs`, `SessionProofs` | theorems about them | the module they name, `TLAPS` |
| `SessionRefinementProofs` | a session implements `Timeline` | `SessionProofs` |
| `MCCookController`, `MCFaultRegistry`, `MCDevicePlane`, `MCSession` | instances for TLC | the module they name |

### ControlLaw and CookController

Temperatures and setpoints are tenths of a degree, times are tenths of a simulated second, as
integers.  `OutputPercent` is `compute_output_percent`, `RampTarget` and `EffectiveCookSet` are
`effective_cook_set`, `LidOpenAfter` is `_update_open_lid`, `CookStatus` and `FoodStatus` are the
two status functions.  `RoundHalfEven` is Python's `round`: the code rounds the countdown, the
output and the ramp, and a property depends on each.

| variable | code |
|---|---|
| `timer` | `DeviceState.timer` (remaining_s, running, status) |
| `latch` | `SimState.timeout_hold_active`, `timeout_shutdown_active` |
| `cook`, `food` | the probes, and whether a meat model drives a food probe |
| `control` | the CONTROL block: timeout action, ramp, opendetect, cookhold, alarmdev, propband |
| `pit` | `SimState.cook_armed`, `lid_open`, `Simulation._prev_cook_temp_tenths` |
| `fwver`, `output` | the persona's version, `output_percent` |
| `history` | not in the program: whether the last step was a tick, the action of the last expiry, the time the countdown is due, whether the setpoint of a 1.7 SHUTDOWN is the last that was set, whether a tick has read a warm pit since the last new start, the number of calls |

| action | code |
|---|---|
| `Tick` | a powered sub-step: thermal reading, then the whole of `control_tick` |
| `PostTimer`, `ApplyTimer`, `PatchTimer` | the three ways to write the cook timer: wire POST, `apply_write`, state fragment |
| `WriteCookSet`, `WriteFoodSet`, `WriteControl` | setpoints and CONTROL, the same over every path |
| `ClearAlarms`, `SetPersona`, `SetPitTemp`, `SetFoodTemp`, `DisconnectProbe`, `ReconnectProbe`, `PatchProbe`, `LoadProfile`, `Reset` | the calls of `core/simulation.py` and of probe fragments |

The thermal models are the environment: a tick may read any temperature of a set chosen around
the thresholds.  That is more than the physics can do, so the safety results hold of it too.
`DeviceState.output_percent` set by a raw fragment is left out: the next tick overwrites it before
reading it.  `SimState.phase` is written and never read, and is left out.

### FaultRegistry

`faults` maps the id of every registered fault to its fields with its age in place of its start
time; the clock is not otherwise modelled.  `enabled = False` and a probability of 0 are the chance
"never", 1 is "always", the rest "maybe".  `PoweredStep` and `OfflineStep` are the two branches of
`_substep`: in an outage only the clock, expiry and `_maybe_apply_power_return` run.  `AfterFiring`
is the handler and `_record_activation`, `Spent` and `Expired` are the two ways a fault is
dropped.  `Inject`, `Clear`, `Reset`, `AdminWrite`, `Disconnect` and `Reconnect` are the admin
calls, `Request` is one device request with the faults that fire on it.  Of the device's
configuration only "factory" or "set" is kept: that is what a reset on return is about.  `history`
remembers firings since injection, the outages that owe a reset, unplugged probes and the number of
calls.

### DevicePlane

`tasks` holds a record per request: its stage (waiting for its body, delayed, dripping, hung, held
in an outage, answered, refused, failed, dropped), whether its client still waits, and whether its answer is
still to be dripped.  `openConns` is `_open_conns`; `journal` is the ring with its totals; `memory`
holds what the properties need.  A request arrives whole (`Arrive`), in part (`ArrivePartly`, then
`BodyArrives`), or in an outage (`ArriveInOutage`); `Handle` is everything from the power check to the
next await in one step, because nothing in it awaits: app, registry, journal, decision.  `Fail` is the same where
the app raises: a POST with a value that raises in it, as a NaN does, is applied up to that key (`xml/post_parse.py:276`), the exception leaves
`_run` at the call of the app (`web/device_faults.py:107`), and `_decide_and_flush` is never run.  So no fault fires, nothing is
journaled, and only the counter comes down.  Requests are numbered in the order they come (`IsNext`); they finish in any order.
`Resume` and `FinishDrip` are the wake-ups.  `GiveUp` is a client that leaves: starlette raises in
a task that reads a body, no other task notices.  `ClearJournal` is the admin DELETE.

The registry's own actions are taken over unchanged, `Request` as a conjunct of `Handle` and `Fail`.  Every step of the
plane is by construction one of the registry or leaves its variables alone, so that the registry's theorems hold of the plane as
well; that is a lemma of its proofs (`PlaneStepsRegistry`), not a result.  `Request` is not guarded by power because a
request whose body comes during an outage is still handled (`web/device_faults.py:73`).

### WireForm

Pure operators.  A submitted value is a record of what the program's readings of it give: the number `float()`
makes of it, in hundredths so that ties and fractions are there, the seconds of an `HH:MM:SS`, its length.  `float()` may
also refuse it or give NaN or an infinity.  `CanonicalParams` and `NetworkParams` are the whole table of
`core/validation.py`.  `Validate` is `validate_write` with its three outcomes: accepted with a value, rejected, or an
exception, which is what `round` and `int` do with NaN and infinities.  `AfterForm` is `parse_and_apply`: key by key, a
rejected key skipped, a key that raises ending the form with what came before it applied.  `AfterWrite` is
`apply_write`, which shares the validation but makes a number of every value that is no temperature and no timer.
What a write of the timer or of a setpoint does besides storing a value is in `CookController`.

### Session

Time is counted in sub-steps: a tick of the loop at speed v is v of them, an advance of n is n.  A call that takes time
sets `work`, and nothing else happens until it has run: handlers do not await while they step the simulation.

| variable | code |
|---|---|
| `clock` | `VirtualClock._now`, `_speed`, `_resume_speed` |
| `live` | whether the registry holds the simulation's clock: a restore that fails between the two leaves it with the one replaced |
| `work` | the sub-steps left of the call under way, and the runner whose next step follows |
| `runners` | per slot, the scenario loaded and `ScenarioRunner._index` |
| `device` | the fields of `DeviceState` that `Keys` names |
| `saved` | the blob a client keeps |
| `memory` | not in the program: fields written unvalidated, and how long each fault has been registered |
| the registry's | as in `FaultRegistry`; its sub-steps, resets and calls are conjuncts of this module's actions |

| action | code |
|---|---|
| `TickLoop`, `Substep`, `Advance`, `SetClock` | `_tick_loop`, `_substep`, the time routes |
| `LoadScenario`, `StepScenario`, `ApplyStep`, `StopScenario` | the scenario routes; `_advance_to` up to the step, then `_apply_step` |
| `Snapshot`, `Restore` | the snapshot routes; `Stops` says where a restore of a deficient blob fails |
| `Patch`, `ResetDevice`, `SetProfile`, `DisconnectFor`, `FaultAndProbeCalls` | the state, profile, probe and fault routes |
| `Write`, `Post` | `apply_write`, a POST on the device plane |

`Timeline` says what `docs/scenarios.md` promises: of every timeline the steps are applied once each, in the
order of their times, those of one time as they are written, none before its time.  `Promised` maps the cursor to the set
of the positions applied.  The cursor counts positions of the sorted timeline, so the mapping holds
only if the sort is stable and the clock has got to the step's time whatever others did to it.

## 3. Runs

`tlc -workers 2 -config <cfg> <module>`.

| run | module, cfg | shows |
|---|---|---|
| cook_timer | `MCCookController`, `MCCookTimer.cfg` | the timer set by `apply_write` under whole-second ticks: it keeps simulated time and ends; its expiry is reported and applied, moves COOK_SET for no other reason, and a shutdown lasts as long as it must and no longer; on 1.7 and 2.3, with COOK_RAMP on or off |
| cook_pit | `MCCookController`, `MCCookPit.cfg` | fan, lid, ramp and alarms agree, with every call between the ticks, timer over the wire and raw probe and timer fragments included |
| outages | `MCFaultRegistry`, `MCOutages.cfg` | overlapping brownouts and reboots with and without reset and duration, beside probe and http faults |
| device_plane | `MCDevicePlane`, `MCDevicePlane.cfg` | three overlapping requests under a cap, delays, drips, a blackhole, failures of the app and an outage, and a ring of two |
| session | `MCSession`, `MCSession.cfg` | two runners over one clock, among freezes, speeds, forms, direct writes, fragments, profiles, resets, outages, snapshots and restores that fail half way; the refinement of `Timeline` |
| realtime_timer | `MCCookController`, `MCRealTimeTimer.cfg` | violates `TimerExpires` |
| wire_timer | `MCCookController`, `MCWireTimer.cfg` | violates `ExpiryIsReported` |
| ramp_shutdown | `MCCookController`, `MCRampShutdown.cfg` | violates `ShutdownLetsTheFireDie` |
| late_brownout | `MCFaultRegistry`, `MCLateBrownout.cfg` | violates `ResetIsNotLost` |
| probe_drama | `MCFaultRegistry`, `MCProbeDrama.cfg` | violates `ProbeHeals` |
| departed_clients | `MCDevicePlane`, `MCDepartedClients.cfg` | violates `CapRefusesOnlyBeyond` |
| restored_run | `MCSession`, `MCRestoredRun.cfg` | violates `ExpiresOnTime` |

### What the properties say

- **Timer.**  `TimerKeepsSimTime` ties the integer countdown to the simulated time that has
  passed.  `ExpiryIsReported` and `SetpointMovesForACause` tie an expiry's report and effect to
  the settings in force at that tick.  `FanOffWhileShutDown` and `ShutdownEndsWithItsTimer`
  are the two sides of a shutdown: nothing but the operator ends it, and no later countdown inherits it.
  `ForcedSetpointStands` is the first of them for 1.7, where a shutdown is a low setpoint: it stands until somebody writes
  another, and only COOK_RAMP can blow past it.  That COOK_RAMP does is against the code's own comment:
  `ShutdownLetsTheFireDie`, of `ramp_shutdown`.  `AlarmStays`: an alarm is
  still there after any number of ticks and other writes, although it is kept in nothing but the status a tick
  recomputes.  `TimerExpires` says that every countdown ends.
- **Pit.**  `LidOpenOnlyBelowTarget`: open-lid detection never holds back the fan or the LOW
  alarm of a pit that is at its target.  `RampStaysBetween`: COOK_RAMP aims between COOK_SET
  and the food's hold temperature, rounding included.  `AlarmsWaitForWarmUp`: no deviation alarm before a tick has
  found the pit near the setpoint aimed at, since the start, the last reset or the last profile.  It goes by what ticks have read
  (`history.warm`), not by the armed flag, so that an armed flag left over from another pit breaks it.
- **Faults.**  `CountIsABudget`, `OutageHasAnEnd`, `DeviceReturns`; `ResetIsNotLost`: an outage that
  asked for a reset and has not had it is still in force; `ProbeHeals`: an open probe reads
  again when no fault names it.
- **Device plane.**  `OpenConnsAreTasks`: the counter is the number of tasks under way.  `CapHolds`: of those
  let in under the cap no more than `max_conns` are under way.  `JournalCountsEach` and
  `JournalIsTheLatest`: each decided or held request is in the totals once, one on which
  the app has raised is not, and the ring holds the last ones in order.  `DelayedIsAnswered`: a delayed answer is completed whatever becomes of its client,
  the power or the fault.  `CapRefusesOnlyBeyond`: the cap refuses only
  when more than `max_conns` clients are connected.

- **Session.**  `ResumeRuns`: whatever freezes, scales, timelines and restores follow each other, a resume sets the
  clock going, and does not change the speed of one that runs.  `StepsAreOnTime`: while time passes for a step it is
  exactly the time that is missing.  `RunnersKeepTimelines`: the refinement.  `DeviceInRange`: no POST, `apply_write`, reset or
  restore leads a field out of its limits, where fragments and profiles may.  `FormsAreLastWins`: what a form leaves, said from the
  form as a whole, equals what its keys do one by one.  `ReturnsUnlessStopped`: every outage ends, those a
  restore brought back included, unless the clock is left frozen or the registry without its clock.  `ExpiresOnTime`: a duration
  counts simulated seconds across a restore.

Every property of a passing run has a mutant: a small change of one definition, kept beside it and
marked "Mutant", under which the run finds the property violated.

### Bounds

| bound | value | why it is enough |
|---|---|---|
| `MaxWrites` | 4 (timer), 3 (pit) | a timeout action, a first countdown, a second one, and one write between them is the longest story of a shutdown; three writes set COOK_RAMP or the alarm band, one other field, and one probe or profile event.  Ticks are not bounded |
| `TimerValues` | 0, 1, 3 s against ticks of 1 and 2 s | a tick that divides what is left, one that overshoots it, and a timer that is stopped |
| `PitReadings`, `FoodReadings` | two or three values | on either side of the shutdown setpoint, of the band, of the ramp window and of the alarm band; 224.9 degrees is a tenth below the setpoint |
| `Foods` | one probe | no function reads two food probes; COOK_RAMP names one |
| `StepLengths` | 2 s | `_MAX_SUBSTEP_S`; durations are multiples of it, and half as long again for overlap |
| `MaxAge`, `MaxActivations` | the longest duration, the largest count | an age beyond every duration and an activation beyond every count make no difference.  The model stops counting there, it does not stop |
| `MaxCalls` | 4, 2, 1; 3 in the session runs | two outages, a write between, and one call more; sub-steps are not bounded.  In `MCSession` an injection, a snapshot and a restore, or two scenarios and a call between; steps of a scenario, ticks of the loop are not counted.  Without the liveness property the session passes with 4 too |
| `MaxNow` | 2 | the time of the last step of a timeline; the clock stops counting there, it does not stop |
| `Slots`, `Scenarios`, `Speeds` | two of each, 0 to 2 | two steps at one time, written out of order, in one timeline; a freeze, scale, advance and resume in the other; a tick of two sub-steps |
| `Forms`, `Writes` | two and three | a value above the limits, an unknown key, a NaN, a text too long, a tie, a duplicate; an infinity, a text where a number is expected, a strict write |
| `Requests` | three | two connections beyond the cap of one, one entry more than the ring holds; two in `departed_clients`; the theorems hold for any number |
| `Capacity` | 2 | the third entry overwrites the first of two, so that their order is there to be seen |
| `ControlValues` | see `MCCookController` | `cook_timer` takes every timeout action and COOK_RAMP on and off; `cook_pit` what shapes lid, ramp and alarms |
| `OnlyThePlane` | an action constraint of `device_plane` | leaves out the steps that change the device's configuration or its probes.  The plane, the outages and the request faults read neither, so that no behaviour of the plane is lost; those steps are in `outages` and `session` |

`MaxCalls` of 5 or a fourth request take `device_plane` beyond five minutes; what a fourth
request could add to the counter, the cap and the journal is covered by the proofs.  In `MCOutages` the resetting brownout outlasts the sub-steps it may find
itself hidden behind, because one that does not loses its reset: that is `late_brownout`.

Deadlock is checked in every run: a sub-step, or in the session a tick of the loop, is always possible.

### Fairness

- `FairSpec` of `CookController` and `FaultRegistry` is weak fairness of the ticks and
  sub-steps: `_tick_loop` (`web/server.py`) wakes every 0.1 s for as long as the server runs, and nothing a
  client does disables it other than freezing the clock, which neither module models.  Every liveness property
  of theirs is therefore one of an unfrozen clock.  `MCCookTimer` ticks in whole seconds, as `advance` does
  in tests and the loop does at speed 10 and 20; `MCRealTimeTimer` ticks in tenths, as the loop does at speed 1.
- `SessionFairSpec` is weak fairness of what happens by itself: the loop ticks, and a call that has begun ends.  Clients
  may do nothing for ever, and may leave the clock frozen: `ReturnsUnlessStopped` says so in its premise.
- `PlaneFairSpec` is weak fairness of each request's `Resume` and `FinishDrip`: `asyncio.sleep` returns, and the
  event loop runs a task that is ready.  Nothing is assumed of clients or of the registry.

### Findings

Where the documents and the code disagree, the run that shows it checks what the document says:

1. `realtime_timer`.  The countdown is stored as `round(remaining_s - dt)`.  With `dt` of a tenth of a second,
   at speed 1, it rounds back to what it was, and the timer never expires (`docs/DESIGN.md:456`).
2. `wire_timer`.  `POST COOK_TIMER` does not clear the latches of the last expiry, as `apply_write` does, so the
   next expiry is reported as the last one's action (`docs/CYBERQ_PROTOCOL.md:732`).
3. `ramp_shutdown`.  On 1.7 the shutdown setpoint of 32 degrees is overridden by COOK_RAMP in the same tick, and
   the fan keeps blowing (`core/control.py:229`).
4. `late_brownout`.  The duration of an outage counts from its injection.  One that first fires in the sub-step its
   duration ends in is dropped before the next sub-step looks, and its reset is lost (`core/faults/power.py:57`).
5. `probe_drama`.  A probe opened by `probe.open` stays open when the fault expires
   (`core/faults/sensor.py:7`, `docs/scenarios.md:228`).
6. `departed_clients`.  A blackholed task outlives its client and is counted as a connection for good, so the cap
   refuses clients that are alone (`docs/DESIGN.md:543`).
7. `restored_run`.  A restore injects the faults of the blob anew, with their whole duration before them
   (`core/simulation.py:583`, `core/faults/__init__.py:59`).

One more, met in the model and without a run of its own: a POST on which the app raises is applied in part and is not in the
journal (`web/device_faults.py:107`), which `docs/DESIGN.md:605` wants for "what its client actually sent".
`JournalCountsEach` therefore says which requests it counts, and that these are not among them.

## 4. Proofs

`tlapm <module>` checks them.  All are theorems of the specification without fairness, for all values of the
constants that meet the named assumptions of each module (`ControlLawAssumption`, `CookControllerAssumption`,
`FaultRegistryAssumption`, `DevicePlaneAssumption`, `WireFormAssumption`, `SessionAssumption`, mostly types and
the sign of a constant).

| theorem | property | argument |
|---|---|---|
| `TypeCorrect` | `CookController!TypeOK` | inductive; the fan's range rests on lemmas on `RoundHalfEven` and `OutputPercent` |
| `FanStaysOff` | `FanOffWhileShutDown` | `ShutdownIsLatched`: a SHUTDOWN expiry that is not over is in the latch, whichever path writes the timer; the property alone is not inductive, because a tick reads the latch and not the history |
| `LidPausesOnlyBelowTarget` | `LidOpenOnlyBelowTarget` | what a tick leaves, from its types alone; every other call unsettles the state |
| `RampAimsBetween` | `RampStaysBetween` | an interpolation rounded to an integer stays between its two integer ends |
| `CountdownKeepsTime` | `TimerKeepsSimTime` | `TimeLeftIsDue`, which also covers a paused timer; assumes whole-second ticks |
| `ShutdownDoesNotOutlive` | `ShutdownEndsWithItsTimer` | `LatchesAreFresh`; assumes that the timer is written by `apply_write` only |
| `ExpiryReported` | `ExpiryIsReported` | `LatchesAreFresh`, the same assumption |
| `AlarmKept` | `AlarmStays` | `AlarmIsLast`: while the status is ALARM nothing runs and no latch is set, so that a tick finds the alarm again; assumes that the timer is written by `apply_write` only |
| `ForcedSetpointHolds` | `ForcedSetpointStands` | every path that writes COOK_SET ends what is remembered of the shutdown, and a tick moves it for a HOLD only; what a tick leaves the fan at then follows from `EffectiveCookSet` and `OutputPercent` |
| `SetpointMovedByExpiry` | `SetpointMovesForACause` | a settled state is one a tick has left, and a tick moves COOK_SET where its timer expires only (`TickOutcome`) |
| `NoAlarmBeforeWarmUp` | `AlarmsWaitForWarmUp` | `ArmedWasWarm`: the armed flag is set only by a tick that has read a warm pit, and every call that forgets the pit clears it |
| `FaultTypes` | `FaultRegistry!TypeOK` | inductive; only power faults are outages |
| `OutagesEnd` | `OutageHasAnEnd` | the handlers' defaults when an outage begins, `tick` when it ends |
| `CountBudget` | `CountIsABudget` | `ActivationsAreFirings` and `CountsAreInReach`: up to the bound the counter is the number of firings, and no count is beyond the bound |
| `ResetsAreHad` | `ResetIsNotLost` | `OwedInv`: every fault comes from a template, an outage in force has begun, and one that asks for a reset and is not yet in force can still begin, now or when the outage before it ends; assumes `ResetsOutlast` |
| `PlaneKeepsBudget` | | `CountBudget`, with the lemma `PlaneStepsRegistry` |
| `PlaneKeepsOutages` | | the same lemma with `OutagesEnd` and `ResetsAreHad`; assumes `ResetsOutlast` |
| `PlaneTypes`, `ConnectionsAreCounted`, `CapIsACap` | `PlaneTypeOK`, `OpenConnsAreTasks`, `CapHolds` | `PlaneInv`, the three with `CappedWereHandled`: `openConns` is a natural number only because it counts tasks, and the cap is preserved by an arrival only because the counter is exact; cardinalities by `FiniteSetTheorems` |
| `CapRefusesTheRightOnes` | `CapRefusesOnlyBeyond` | `LiveAreConnected`: every task that is counted has a client, so that what the cap compares is the number of clients; assumes `ClientsStay` |
| `JournalCounts`, `JournalShowsTheLatest` | `JournalCountsEach`, `JournalIsTheLatest` | `JournalInv`, the two with `OrderIsOfTaken`: the order in which requests were decided is as long as the total, and of the requests taken; the ring is its end since the last clearing, which an entry appended and one dropped at the front keep (`RingShowsTheEnd`) |
| `AcceptedIsInRange` | | for each kind of the table: clamping leads into the limits, NaN is accepted only as a temperature and raises, and rounding does not lead out again because the limits are multiples of what is rounded to |
| `FormKeeps` | | a form leaves each field as it was or within its limits: by its shortest prefix that does not, `NatMin`, since the induction theorems of the library are out of reach |
| `FormIsLastWins` | | the shortest prefix of a form that does not leave each field with its last accepted value ends in a key that is accepted, rejected or raises, and none of the three breaks it |
| `ClockResumes` | `ResumeRuns` | `ClockRuns`, kept by every operation of the clock, a scenario's step of several and a restore's new clock included |
| `OnTime` | `StepsAreOnTime` | `ControlOK`: the clock with it, because a sub-step counts exactly only below `MaxNow`, which no step's time exceeds, and because nothing but the call under way runs until it ends |
| `WithinTable` | `DeviceInRange` | `DeviceOK`, the same of every blob, since a restore brings both the fields and what was raw of them back; `AcceptedIsInRange` and `FormKeeps` for writes |
| `SessionTypes`, `SessionOutagesEnd` | `SessionTypeOK`, `OutageHasAnEnd` | `SessionInv`: the registry's types, cursors no further than their timelines, and of every blob that the outages it keeps have an end (`SavedOutagesEnd`), because a restore brings them back |
| `LastWinsOnTheWire` | `FormsAreLastWins` | `FormIsLastWins`, on the devices `SessionInv` allows |
| `DurationsHold` | `ExpiresOnTime` | `AgesAreElapsed`: as long as nothing is restored a fault's age is how long it has been registered, and below its duration; assumes `NothingRestored` and `DurationsArePositive` |
| `KeepsTimelines` | `RunnersKeepTimelines` | ranks: `SortedIsPermutation` says that the sort gives each position once, at its rank, by counting (`FS_Injection`); so the steps before the next one are those of smaller rank, all applied, and `ControlOK` says its time has come |

Eight of these theorems have a hypothesis, in each case one that the code needs: a run shows what goes wrong
without it.

| hypothesis | of | without it |
|---|---|---|
| ticks of whole seconds | `CountdownKeepsTime` | `realtime_timer` |
| the timer is written by `apply_write` only | `ShutdownDoesNotOutlive`, `ExpiryReported`, `AlarmKept` | `wire_timer` |
| `ResetsOutlast`: an outage that asks for a reset begins at once and outlasts the sub-step it begins in, even after the rest of another outage | `ResetsAreHad`, `PlaneKeepsOutages` | `late_brownout` |
| `ClientsStay`: no client leaves a task that is delayed, drips or hangs | `CapRefusesTheRightOnes` | `departed_clients` |
| `NothingRestored` | `DurationsHold` | `restored_run` |

`DurationsArePositive`, also assumed by `DurationsHold`, is no restriction to speak of: a fault of duration 0 is in the
registry until the next sub-step looks, which is as long as its duration.  That the hypotheses can be met is
checked as well: `MCFaultRegistry` asserts that `ResetsOutlast` holds of every instance but the late
brownout's, `MCSession` that `DurationsArePositive` holds of its templates and scenarios, and in `device_plane` and
`session` there are behaviours in which clients stay and nothing is restored.

Only model-checked: the liveness properties (`TimerExpires`, `DeviceReturns`, `DelayedIsAnswered`,
`ReturnsUnlessStopped`), which are out of the prover's reach, with the fairness they need.  Every invariant and every
action property of a passing run is a theorem.  `ProbeHeals` is violated by any `probe.open` that expires on a plugged probe, so no
theorem says more of it than the run `probe_drama`.

## 5. What is not modelled

- Thermal physics: floating point, replaced by any reading of a set.  So nothing is said of how hot
  a pit gets, only of what the controller does with what it reads.  The ramp target is computed on integers where the code
  multiplies floats: of 1,165,986 inputs compared, 16 differ by a tenth of a degree, at ties; the fan output agrees on all.
- Content of answers: the XML, the pages, and the http faults that only change status, body or content type.
  Journal entries keep which request and which faults.
- Sensor faults other than `probe.open`, and so readings under them.
- In `Session`, the control loop and the thermal models: no countdown runs there and no temperature moves, so that
  the device changes by writes alone.  The hidden state of the control loop in a blob is therefore not compared.
- The generator: every draw is a choice, so that nothing is said of the determinism of a run or of what a restore draws next.
- Server start and stop, and uvicorn.
- The threads of the in-process harness.  `testing/harness.py:11` has admin calls in process "so admin ops don't race the
  HTTP loop", but they run in the test's thread while requests and ticks run in the server's, and the code takes no lock.
  The modules take every call to be atomic, as it is over HTTP; a model of the threads would start at single reads and
  writes of attributes, for instance of a fault replaced between its firing and the drop of its id in `_record_activation`.
- Rendering: pure, and of no state.  Loading of scenario files and builtins, and the messages of a failed assertion.
- Network, name, wifi and smtp fields have their limits in `WireForm`, and no effect in the program beyond being read back.

## 6. Plan

Done, in this order: `ControlLaw`, `CookController`, its proofs; `FaultRegistry`, its proofs; `DevicePlane`, its proofs;
`WireForm`, `Timeline`, `Session`, the proofs about them.

Next, most important first:

1. `SensorFaults`: short, noise, drift, stuck and spike beside `probe.open`, with the probe state they change and
   the control loop reads.  Property: once no fault names a probe, its reading is the pit's or the meat's; which of the
   handlers restore it.
2. `Simulation`: `CookController` and `FaultRegistry` in one specification, with `Substep` as their joint step, the outage
   freezing the controller, and the return of power resetting it; it refines both (`INSTANCE` with the joined variables).
   Properties: no tick in an outage; a latch or alarm survives an outage without reset, and none survives one with.
3. A coarse thermal feedback for the open lid: it closes once the pit stops falling.

Theorems to come: the types of `SensorFaults` and the return of a reading under the hypothesis that its handler
restores it; that `Simulation` implements both of its parts, which carries the theorems of `CookController` and
`FaultRegistry` over to it; and that a session without restores implements the registry, whose counts are then budgets
there as well.
