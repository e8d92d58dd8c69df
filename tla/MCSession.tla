----------------------------- MODULE MCSession -----------------------------
(***************************************************************************)
(* Instances of Session for TLC: two runners, a scenario with two steps at *)
(* one time, and one that runs the clock.                                  *)
(***************************************************************************)
EXTENDS Session, TLC

CONSTANTS food1

Number(n) == [number |-> n, seconds |-> NotHms, length |-> 3]
Word(n) == [number |-> NotNumber, seconds |-> NotHms, length |-> n]
Pair(key, raw) == [key |-> key, raw |-> raw]

\* Factory defaults: COOK_SET 275.0, CYCTIME 6, a name of 4 letters.
FactoryDevice == [COOK_SET |-> 2750, CYCTIME |-> 6, COOK_NAME |-> 4]
DemoDevice == [FactoryDevice EXCEPT !.COOK_NAME = 13]

\* A form that fails on its third key, and one with a key twice.
WireForms ==
    {<<Pair("COOK_SET", Number(60000)), Pair("OUTPUT_PERCENT", Number(100)),
       Pair("CYCTIME", Number(NaN)), Pair("COOK_NAME", Word(2))>>,
     <<Pair("CYCTIME", Number(450)), Pair("COOK_NAME", Word(20)),
       Pair("CYCTIME", Word(3)), Pair("CYCTIME", Number(850))>>}

DirectWrites ==
    {[key |-> "COOK_NAME", raw |-> Word(5), strict |-> FALSE],
     [key |-> "COOK_SET", raw |-> Number(PlusInf), strict |-> FALSE],
     [key |-> "COOK_SET", raw |-> Number(3100), strict |-> TRUE]}

Outage(id, duration, reset) ==
    [id |-> id, duration |-> duration, count |-> Unlimited, chance |-> "always",
     reset |-> reset, probe |-> food1]

ClientFaults == {Outage("power.brownout", 2, TRUE), Outage("probe.open", 1, FALSE)}

TimeOp(scale, freeze, resume, speed, advance) ==
    [scale |-> scale, freeze |-> freeze, resume |-> resume, speed |-> speed,
     advance |-> advance, kind |-> "time"]

At(at, step) == [at |-> at] @@ step

\* Written out of order, with two steps at one time.
Overheated ==
    [profile |-> {}, initial |-> [COOK_SET |-> 9999],
     timeline |-> <<At(2, [kind |-> "assert"]),
                    At(1, [kind |-> "inject", fault |-> Outage("power.reboot", 2, FALSE)]),
                    At(2, [kind |-> "clear", id |-> "power.reboot"])>>]

Clocked ==
    [profile |-> {[values |-> [COOK_SET |-> 2250], plugged |-> [p \in {} |-> TRUE]]},
     initial |-> Nothing,
     timeline |-> <<At(0, TimeOp({2}, TRUE, "no", 0, 1)),
                    At(1, TimeOp({}, FALSE, "at", 1, 0)),
                    At(1, [kind |-> "set", values |-> [CYCTIME |-> 20]]),
                    At(2, [kind |-> "profile",
                     profile |-> [values |-> [COOK_SET |-> 2250],
                                  plugged |-> [p \in {food1} |-> FALSE]]])>>]

TwoScenarios == [overheated |-> Overheated, clocked |-> Clocked]

PatchedFields == {[CYCTIME |-> 3]}

CookProfiles ==
    {[values |-> [COOK_SET |-> 2250], plugged |-> [p \in {food1} |-> TRUE]]}

\* Nothing that these instances inject expires before time passes.
ASSUME InjectedFaultsLast == DurationsArePositive
=============================================================================
