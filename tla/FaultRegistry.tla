--------------------------- MODULE FaultRegistry ---------------------------
(***************************************************************************)
(* The fault registry (core/faults/__init__.py) with its power and         *)
(* probe-open handlers (core/faults/power.py, sensor.py), stepped by       *)
(* Simulation._substep and queried by the device-plane middleware.         *)
(*                                                                         *)
(* A registered fault keeps its age, clock.now() - started_s: the clock    *)
(* itself is not modelled.  enabled = False and probability <= 0 are the   *)
(* chance "never"; scope is the choice of which faults a request meets.    *)
(* What the firing changes is modelled for the power faults (an outage)    *)
(* and for probe.open (an open probe); of the device's configuration only  *)
(* whether it is the factory's is kept.                                    *)
(***************************************************************************)
EXTENDS Integers, FiniteSets

CONSTANTS
    RequestIds,      \* the network and http faults, which fire on requests
    Probes,          \* the probes a probe.open fault may name
    Templates,       \* the faults clients inject, as records of an id and its fields
    StepLengths,     \* dt of a sub-step, seconds
    BrownoutDefault, \* _DEFAULT_BROWNOUT_S
    RebootDefault,   \* _DEFAULT_REBOOT_S
    Unlimited,       \* None, as a duration or a count
    MaxAge,          \* bound: ages are counted up to it
    MaxActivations,  \* bound: activations are counted up to it
    MaxCalls         \* bound on the calls made between Init and the end

PowerIds == {"power.brownout", "power.reboot"}
SimIds   == PowerIds \cup {"probe.open"}
Ids      == SimIds \cup RequestIds
Limit    == Nat \cup {Unlimited}
Chances  == {"always", "maybe", "never"}

TemplateType == [id : Ids, duration : Limit, count : Limit, chance : Chances,
                 reset : BOOLEAN, probe : Probes]

FaultType == [duration : Limit, count : Limit, chance : Chances, reset : BOOLEAN,
              probe : Probes, offline : BOOLEAN, age : 0..MaxAge,
              activations : 0..MaxActivations]

ASSUME FaultRegistryAssumption ==
    /\ RequestIds \cap SimIds = {}
    /\ Unlimited \notin Nat
    /\ MaxAge \in Nat /\ MaxActivations \in Nat \ {0} /\ MaxCalls \in Nat
    /\ StepLengths \subseteq Nat \ {0}
    /\ BrownoutDefault \in 0..MaxAge /\ RebootDefault \in 0..MaxAge
    /\ Templates \subseteq TemplateType
    /\ \A t \in Templates : /\ t.duration # Unlimited => t.duration <= MaxAge
                            /\ t.count # Unlimited => t.count <= MaxActivations

VARIABLES
    faults,  \* FaultRegistry._faults: the registered faults, by id
    probes,  \* ProbeState.connected of each probe
    config,  \* the device configuration: "factory", or "set" by somebody
    history  \* no part of the program: what the properties remember

vars == <<faults, probes, config, history>>

AllConnected == [p \in Probes |-> TRUE]

\* is_powered: no registered fault is an outage in force.
OutageIds == {id \in DOMAIN faults : faults[id].offline}
Powered == OutageIds = {}

-----------------------------------------------------------------------------
(* What the properties remember: how often each id has fired since it was   *)
(* last injected, which power faults have cut the power and still owe the   *)
(* factory reset they asked for, which probes somebody unplugged, and how   *)
(* many calls have been made.                                               *)

HistoryType == [fired : [Ids -> 0..(MaxActivations + 1)], owed : SUBSET PowerIds,
                unplugged : SUBSET Probes, calls : 0..MaxCalls]

Call(fired, owed, unplugged) ==
    /\ history.calls < MaxCalls
    /\ history' = [fired |-> fired, owed |-> owed, unplugged |-> unplugged,
                   calls |-> history.calls + 1]

\* Counting up to a bound.
CountUpTo(n, bound) == IF n < bound THEN n + 1 ELSE bound

FiredMore(ids) ==
    [id \in Ids |-> IF id \in ids THEN CountUpTo(history.fired[id], MaxActivations + 1)
                                  ELSE history.fired[id]]

-----------------------------------------------------------------------------
Init ==
    /\ faults = [id \in {} |-> FALSE]
    /\ probes = AllConnected
    /\ config = "factory"
    /\ history = [fired |-> [id \in Ids |-> 0], owed |-> {}, unplugged |-> {}, calls |-> 0]

-----------------------------------------------------------------------------
(* The admin surface.                                                       *)

\* The registry with a fault added or replaced: it starts now, with no activations.
WithFault(t) ==
    [id \in DOMAIN faults \cup {t.id} |->
        IF id = t.id
        THEN [duration |-> t.duration, count |-> t.count, chance |-> t.chance,
              reset |-> t.reset, probe |-> t.probe, offline |-> FALSE,
              age |-> 0, activations |-> 0]
        ELSE faults[id]]

\* inject
Inject(t) ==
    /\ Call([history.fired EXCEPT ![t.id] = 0], history.owed \ {t.id}, history.unplugged)
    /\ faults' = WithFault(t)
    /\ UNCHANGED <<probes, config>>

\* clear one fault, or clear_all of them.
Clear(ids) ==
    /\ Call(history.fired, history.owed \ ids, history.unplugged)
    /\ faults' = [id \in DOMAIN faults \ ids |-> faults[id]]
    /\ UNCHANGED <<probes, config>>

\* Simulation.reset, over the admin plane: it clears the registry as well.
Reset ==
    /\ Call(history.fired, {}, {})
    /\ faults' = [id \in {} |-> FALSE]
    /\ probes' = AllConnected
    /\ config' = "factory"

\* A write over the admin plane reaches the device powered or not.
AdminWrite ==
    /\ Call(history.fired, history.owed, history.unplugged)
    /\ config' = "set"
    /\ UNCHANGED <<faults, probes>>

\* disconnect_probe and reconnect_probe
Disconnect(p) ==
    /\ Call(history.fired, history.owed, history.unplugged \cup {p})
    /\ probes' = [probes EXCEPT ![p] = FALSE]
    /\ UNCHANGED <<faults, config>>

Reconnect(p) ==
    /\ Call(history.fired, history.owed, history.unplugged \ {p})
    /\ probes' = [probes EXCEPT ![p] = TRUE]
    /\ UNCHANGED <<faults, config>>

-----------------------------------------------------------------------------
(* Firing and expiry.                                                       *)

\* _should_fire leaves these sets of the candidates: all that always fire and
\* any of those whose probability lets them.
MayFire(candidates) ==
    {ids \in SUBSET candidates :
        \A id \in candidates : /\ faults[id].chance = "always" => id \in ids
                               /\ faults[id].chance = "never" => id \notin ids}

\* The duration a power handler leaves: its default where the fault gave none.
OutageLength(id, duration) ==
    IF duration # Unlimited THEN duration
    ELSE IF id = "power.brownout" THEN BrownoutDefault ELSE RebootDefault

\* Mutant: every fault that fires marks the device offline.
AfterFiringAnyFault(id) ==
    [faults[id] EXCEPT !.activations = CountUpTo(@, MaxActivations), !.offline = TRUE,
                       !.duration = OutageLength(id, @)]

\* _record_activation, after _brownout or _reboot if it is a power fault.
AfterFiring(id) ==
    LET f == [faults[id] EXCEPT !.activations = CountUpTo(@, MaxActivations)]
    IN  IF id \in PowerIds
        THEN [f EXCEPT !.offline = TRUE, !.duration = OutageLength(id, @)]
        ELSE f

\* Mutant: one activation too many.
SpentTooLate(f) == f.count # Unlimited /\ f.activations > f.count

\* Mutant: the tick that reaches the duration does not drop the fault.
ExpiredTooLate(f) == f.duration # Unlimited /\ f.age > f.duration

\* _record_activation drops a fault that has used its count up ...
Spent(f) == f.count # Unlimited /\ f.activations >= f.count

\* ... and tick drops one whose duration has passed.
Expired(f) == f.duration # Unlimited /\ f.age >= f.duration

Older(f, dt) == [f EXCEPT !.age = IF @ + dt < MaxAge THEN @ + dt ELSE MaxAge]

\* A sub-step of dt with the power on: physics and control, the sim faults
\* that fire, the clock, and expiry.
PoweredStep(dt, firing) ==
    /\ Powered
    /\ LET fired == [id \in DOMAIN faults |->
                       IF id \in firing THEN AfterFiring(id) ELSE faults[id]]
           left  == {id \in DOMAIN faults : /\ ~(id \in firing /\ Spent(fired[id]))
                                            /\ ~Expired(Older(fired[id], dt))}
       IN  faults' = [id \in left |-> Older(fired[id], dt)]
    /\ probes' = [p \in Probes |->
                    probes[p] /\ ~("probe.open" \in firing /\ faults["probe.open"].probe = p)]
    /\ history' = [history EXCEPT
         !.fired = FiredMore(firing),
         !.owed  = {id \in firing \cap PowerIds : faults[id].reset}]
    /\ UNCHANGED config

\* Mutant: asked of the outages still registered, not of those that are over.
ResetsOnReturnTooLate(left) == \E id \in OutageIds \cap left : faults[id].reset

\* _maybe_apply_power_return: an outage that has just expired asked for a reset.
ResetsOnReturn(left) == \E id \in OutageIds \ left : faults[id].reset

\* Mutant: the branch of an outage returns before the clock has moved.
OfflineStepStandsStill(dt) == ~Powered /\ UNCHANGED vars

\* A sub-step of dt in an outage: only the clock and expiry, and a factory
\* reset when an outage that asked for one is over.
OfflineStep(dt) ==
    /\ ~Powered
    /\ LET left == {id \in DOMAIN faults : ~Expired(Older(faults[id], dt))}
       IN  IF ResetsOnReturn(left)
           THEN /\ faults' = [id \in {} |-> FALSE]
                /\ probes' = AllConnected
                /\ config' = "factory"
                /\ history' = [history EXCEPT !.owed = {}, !.unplugged = {}]
           ELSE /\ faults' = [id \in left |-> Older(faults[id], dt)]
                /\ UNCHANGED <<probes, config, history>>

Substeps ==
    \E dt \in StepLengths :
        \/ \E firing \in MayFire(SimIds \cap DOMAIN faults) : PoweredStep(dt, firing)
        \/ OfflineStep(dt)

\* A device-plane request: it may write the configuration, and query_request
\* lets faults fire, those in whose scope its path is.  The power is looked at
\* when a request arrives and not again when its body has come, so an outage
\* may have begun (web/device_faults.py:73).  A request on which the app raises is
\* one on which nothing fires.
Request(firing) ==
    /\ Call(FiredMore(firing), history.owed, history.unplugged)
    /\ config' \in {config, "set"}
    /\ LET left == {id \in DOMAIN faults : ~(id \in firing /\ Spent(AfterFiring(id)))}
       IN  faults' = [id \in left |-> IF id \in firing THEN AfterFiring(id) ELSE faults[id]]
    /\ UNCHANGED probes

\* What may fire on a request: of the faults whose scope its path is in.
RequestFirings ==
    UNION {MayFire(matched) : matched \in SUBSET (RequestIds \cap DOMAIN faults)}

-----------------------------------------------------------------------------
AdminCalls ==
    \/ \E t \in Templates : Inject(t)
    \/ \E id \in DOMAIN faults : Clear({id})
    \/ Clear(DOMAIN faults)
    \/ Reset
    \/ AdminWrite
    \/ \E p \in Probes : Disconnect(p) \/ Reconnect(p)

Next ==
    \/ Substeps
    \/ AdminCalls
    \/ \E firing \in RequestFirings : Request(firing)

Spec == Init /\ [][Next]_vars

\* The background loop keeps stepping while the clock is not frozen.
FairSpec == Spec /\ WF_vars(Substeps)

-----------------------------------------------------------------------------
TypeOK ==
    /\ DOMAIN faults \subseteq Ids
    /\ \A id \in DOMAIN faults : faults[id] \in FaultType
    /\ OutageIds \subseteq PowerIds
    /\ probes \in [Probes -> BOOLEAN]
    /\ config \in {"factory", "set"}
    /\ history \in HistoryType

\* A fault with a count is gone once it has fired that often since it was
\* injected, however sub-steps and requests take turns (faults/__init__.py:60,
\* "Auto-expire after this many activations"); a count of 0 still fires once.
CountIsABudget ==
    \A id \in DOMAIN faults :
        faults[id].count # Unlimited =>
            \/ history.fired[id] = 0
            \/ history.fired[id] < faults[id].count

\* Every outage in force has an end: a duration, given or by default, that has
\* not passed yet.
OutageHasAnEnd ==
    \A id \in OutageIds : /\ faults[id].duration # Unlimited
                          /\ faults[id].age < faults[id].duration

\* A power cut that asked for a factory reset on return and has not had it is
\* still an outage in force (power.py:57, "reset config on return"): however
\* outages overlap, none ends with the configuration it was to reset.  It holds
\* of outages that outlast the sub-step they begin in, as those of MCOutages do;
\* MCLateBrownout has one that does not.  ResetsOutlast says which do.
ResetIsNotLost == history.owed \subseteq OutageIds

\* The device comes back from every outage, one injected without a duration
\* included (power.py:39, the default outage windows).
DeviceReturns == ~Powered ~> Powered

\* Once no probe.open fault names it, a probe nobody unplugged reads again
\* (sensor.py:7, "clearing a sensor fault restores the true reading").
ProbeHeals ==
    \A p \in Probes :
        \/ probes[p]
        \/ p \in history.unplugged
        \/ "probe.open" \in DOMAIN faults /\ faults["probe.open"].probe = p

-----------------------------------------------------------------------------
(* What the proofs need on top: inductive parts.                            *)

\* Up to the bound, a fault's activations are the firings since its injection.
ActivationsAreFirings ==
    \A id \in DOMAIN faults :
        faults[id].activations =
            IF history.fired[id] < MaxActivations THEN history.fired[id] ELSE MaxActivations

\* No count is beyond the bound up to which activations are counted.
CountsAreInReach ==
    \A id \in DOMAIN faults : faults[id].count # Unlimited
                                => faults[id].count <= MaxActivations

\* Whether a fault asks for a reset on return, and may get to cut the power.
AsksForReset(id, f) == id \in PowerIds /\ f.reset /\ f.chance # "never"

LengthOf(t) == OutageLength(t.id, t.duration)

\* The outages that ask for a reset start at once, are not spent by it, and
\* outlast their first sub-step, even if they have aged during the rest of an
\* outage of the other kind: one that expires costs two sub-steps more, one that
\* is cleared or brings a reset itself a single one.  By the time another can be
\* injected, an outage has lasted for a sub-step.
ResetsOutlast ==
    \A t \in Templates :
        AsksForReset(t.id, t) =>
            /\ t.chance = "always"
            /\ t.count = Unlimited \/ t.count > 1
            /\ \A dt \in StepLengths : dt < LengthOf(t)
            /\ \A u \in Templates : u.id \in PowerIds \ {t.id} =>
                  \A first, last, dt \in StepLengths :
                     LengthOf(u) + (IF u.reset THEN 0 ELSE last) + dt <= LengthOf(t) + first

\* What a registered fault still shares with the template it came from.
ComesFrom(id, t) ==
    /\ t.id = id
    /\ faults[id].count = t.count /\ faults[id].chance = t.chance /\ faults[id].reset = t.reset
    /\ OutageLength(id, faults[id].duration) = LengthOf(t)

FaultsComeFromTemplates ==
    \A id \in DOMAIN faults : \E t \in Templates : ComesFrom(id, t)

\* An outage in force has lasted for a sub-step at least.
OutagesHaveBegun ==
    \A id \in OutageIds : \E first \in StepLengths : first <= faults[id].age

\* A fault can still cut the power in the next sub-step, or waits for the end of
\* an outage that began before it was injected.
CanBegin(id) ==
    /\ faults[id].activations = 0
    /\ \/ /\ Powered
          /\ \A dt \in StepLengths :
                faults[id].age + dt < OutageLength(id, faults[id].duration)
       \/ \E other \in OutageIds, first \in StepLengths :
             faults[id].age + first <= faults[other].age

ResetsCanBegin ==
    \A id \in DOMAIN faults \ OutageIds : AsksForReset(id, faults[id]) => CanBegin(id)

\* What is owed was asked for.
OwedWasAsked == \A id \in history.owed \cap DOMAIN faults : faults[id].reset
=============================================================================
