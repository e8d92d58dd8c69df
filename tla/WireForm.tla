------------------------------ MODULE WireForm ------------------------------
(***************************************************************************)
(* Writes to the device: validation (core/validation.py), the conversion   *)
(* to the units of the state (core/units.py), the wire form of a POST      *)
(* (xml/post_parse.py) and Simulation.apply_write.                         *)
(*                                                                         *)
(* A submitted value is what the readings of it give: the number float()   *)
(* makes of it, in hundredths, the seconds of an HH:MM:SS, its length.     *)
(* Of a stored text only the length is kept.  Temperatures are stored in   *)
(* tenths of a degree.  What else a write of the timer changes is in       *)
(* CookController.                                                         *)
(***************************************************************************)
EXTENDS Integers, Sequences, Rounding

CONSTANTS
    Keys,      \* the writable keys in play
    NotNumber, \* what float() refuses
    NaN,
    PlusInf,
    MinusInf,
    NotHms     \* what is no HH:MM:SS

\* ParamSpec; limits in hundredths of what is submitted.
Numeric(kind, low, high) ==
    [kind |-> kind, low |-> 100 * low, high |-> 100 * high, choices |-> {}, maxLen |-> 0]
Temp(low, high) == Numeric("temp", low, high)
Whole(low, high) == Numeric("int", low, high)
Choice(choices) == [kind |-> "enum", low |-> 0, high |-> 0, choices |-> choices, maxLen |-> 0]
Text(maxLen) == [kind |-> "string", low |-> 0, high |-> 0, choices |-> {}, maxLen |-> maxLen]
Timer == [kind |-> "timer", low |-> 0, high |-> 0, choices |-> {}, maxLen |-> 0]

\* The canonical writable keys ...
CanonicalParams ==
    [COOK_NAME |-> Text(16), FOOD1_NAME |-> Text(16), FOOD2_NAME |-> Text(16),
     FOOD3_NAME |-> Text(16), COOK_SET |-> Temp(32, 475), FOOD1_SET |-> Temp(32, 475),
     FOOD2_SET |-> Temp(32, 475), FOOD3_SET |-> Temp(32, 475), _COOK_TIMER |-> Timer,
     COOK_TIMER |-> Timer, COOKHOLD |-> Temp(32, 475), TIMEOUT_ACTION |-> Choice(0..3),
     ALARMDEV |-> Temp(10, 100), COOK_RAMP |-> Choice(0..3), OPENDETECT |-> Choice(0..1),
     CYCTIME |-> Whole(4, 10), PROPBAND |-> Temp(5, 100), MENU_SCROLLING |-> Choice(0..1),
     LCD_BACKLIGHT |-> Whole(0, 100), LCD_CONTRAST |-> Whole(0, 100),
     DEG_UNITS |-> Choice(0..1), ALARM_BEEPS |-> Whole(0, 5), KEY_BEEPS |-> Choice(0..1)]

\* ... and those of the network and mail configuration.
NetworkParams ==
    [IP |-> Text(15), NM |-> Text(15), GW |-> Text(15), DNS |-> Text(15),
     WIFIMODE |-> Choice(0..1), DHCP |-> Choice(0..1), SSID |-> Text(32),
     WIFI_ENC |-> Choice(0..6), WIFI_KEY |-> Text(64), HTTP_PORT |-> Whole(1, 65535),
     SMTP_HOST |-> Text(64), SMTP_PORT |-> Whole(0, 65535), SMTP_USER |-> Text(64),
     SMTP_PWD |-> Text(64), SMTP_TO |-> Text(64), SMTP_FROM |-> Text(64),
     SMTP_SUBJ |-> Text(64), SMTP_ALERT |-> Whole(0, 1440)]

\* WRITABLE_PARAMS.  What is not in it, the read-only keys included, is
\* rejected; IGNOREDTAG and REBOOT are skipped.
Writable == DOMAIN CanonicalParams \cup DOMAIN NetworkParams
Param(key) == IF key \in DOMAIN CanonicalParams THEN CanonicalParams[key]
                                                ELSE NetworkParams[key]

ASSUME WireFormAssumption ==
    /\ Keys \subseteq Writable
    /\ {NotNumber, NaN, PlusInf, MinusInf} \cap Int = {}
    /\ NaN \notin {NotNumber, PlusInf, MinusInf}
    /\ NotNumber \notin {PlusInf, MinusInf}
    /\ PlusInf # MinusInf
    /\ NotHms \notin Nat

RawType == [number : Int \cup {NotNumber, NaN, PlusInf, MinusInf},
            seconds : Nat \cup {NotHms}, length : Nat]

\* The pairs of a POST body.
FormType == Seq([key : STRING, raw : RawType])

-----------------------------------------------------------------------------
(* Numbers.                                                                 *)

\* Comparisons as of floats: all with NaN are false.
Below(x, bound) == x = MinusInf \/ (x \in Int /\ x < bound)
Above(x, bound) == x = PlusInf \/ (x \in Int /\ x > bound)

\* Mutant: only what is too high is clamped.
ClampedAbove(x, param) == IF Above(x, param.high) THEN param.high ELSE x

\* What a number is clamped to.
Clamped(x, param) ==
    IF Below(x, param.low) THEN param.low
    ELSE IF Above(x, param.high) THEN param.high ELSE x

-----------------------------------------------------------------------------
(* validate_write: a write is accepted with a value, rejected, or the       *)
(* validation raises, as int() and round() do of NaN and infinities.        *)

Accept(value) == [verdict |-> "accepted", value |-> value]
Reject == [verdict |-> "rejected", value |-> 0]
Raise  == [verdict |-> "raised", value |-> 0]

\* A temperature keeps its fraction and lets NaN pass.
ValidateNumeric(param, raw, strict) ==
    LET x == Clamped(raw.number, param)
    IN  IF raw.number = NotNumber \/ (strict /\ x # raw.number) THEN Reject
        ELSE IF param.kind = "temp" THEN Accept(x)
        ELSE IF x = NaN THEN Raise ELSE Accept(RoundHalfEven(x, 100))

ValidateEnum(param, raw) ==
    IF raw.number \in {NaN, PlusInf, MinusInf} THEN Raise
    ELSE IF raw.number \in Int /\ raw.number % 100 = 0
            /\ raw.number \div 100 \in param.choices
         THEN Accept(raw.number \div 100)
    ELSE Reject

ValidateString(param, raw, strict) ==
    IF raw.length <= param.maxLen THEN Accept(raw.length)
    ELSE IF strict THEN Reject ELSE Accept(param.maxLen)

ValidateTimer(raw) == IF raw.seconds = NotHms THEN Reject ELSE Accept(raw.seconds)

Validate(key, raw, strict) ==
    IF key \notin Writable THEN Reject
    ELSE LET param == Param(key)
         IN  IF param.kind = "enum" THEN ValidateEnum(param, raw)
             ELSE IF param.kind = "string" THEN ValidateString(param, raw, strict)
             ELSE IF param.kind = "timer" THEN ValidateTimer(raw)
             ELSE ValidateNumeric(param, raw, strict)

-----------------------------------------------------------------------------
(* The device: the value stored for each field.                             *)

\* The two keys of the timer write one field.
Field(key) == IF key = "_COOK_TIMER" THEN "COOK_TIMER" ELSE key
Fields == {Field(key) : key \in Keys}

\* What a field may hold by the table.
InRange(field, value) ==
    LET param == Param(field)
    IN  /\ value \in Nat
        /\ param.kind = "temp"   => 10 * value \in param.low..param.high
        /\ param.kind = "int"    => 100 * value \in param.low..param.high
        /\ param.kind = "enum"   => value \in param.choices
        /\ param.kind = "string" => value <= param.maxLen

\* float_to_tenths, for temperatures.
Stored(key, value) == IF Param(key).kind = "temp" THEN RoundHalfEven(value, 10) ELSE value

\* One key of a form: the device after it, and whether it raised.  A NaN
\* temperature is accepted, and raises when it is converted.
AfterKey(device, key, raw, strict) ==
    LET result == Validate(key, raw, strict)
    IN  IF result.verdict = "raised" \/ result.value = NaN
        THEN [device |-> device, raised |-> TRUE]
        ELSE [device |-> IF result.verdict = "accepted"
                         THEN [device EXCEPT ![Field(key)] = Stored(key, result.value)]
                         ELSE device,
              raised |-> FALSE]

\* Mutant: a key that is not accepted ends the form.
AfterFormStopping(device, form, strict) ==
    LET after[i \in 0..Len(form)] ==
            IF i = 0 THEN [device |-> device, raised |-> FALSE]
            ELSE IF after[i - 1].raised
                    \/ Validate(form[i].key, form[i].raw, strict).verdict # "accepted"
            THEN [device |-> after[i - 1].device, raised |-> TRUE]
            ELSE AfterKey(after[i - 1].device, form[i].key, form[i].raw, strict)
    IN  after[Len(form)]

\* The next key of a form, none after one that raised.
AfterPair(before, pair, strict) ==
    IF before.raised THEN before ELSE AfterKey(before.device, pair.key, pair.raw, strict)

\* parse_and_apply: key by key, until one raises.
AfterForm(device, form, strict) ==
    LET after[i \in 0..Len(form)] ==
            IF i = 0 THEN [device |-> device, raised |-> FALSE]
                     ELSE AfterPair(after[i - 1], form[i], strict)
    IN  after[Len(form)]

\* Simulation.apply_write: as one key of a form, but every value that is not a
\* temperature or a timer is first made a number, a text included.
AfterWrite(device, key, raw, strict) ==
    IF /\ Validate(key, raw, strict).verdict = "accepted"
       /\ Param(key).kind = "string" /\ raw.number \notin Int
    THEN [device |-> device, raised |-> TRUE]
    ELSE AfterKey(device, key, raw, strict)
=============================================================================
