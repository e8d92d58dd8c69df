--------------------------- MODULE WireFormProofs ---------------------------
(***************************************************************************)
(* Proofs about writes to the device: what validation accepts is within    *)
(* the limits of the table once it is stored, a form, which is a recursive *)
(* function of its length, puts no field out of them, and of each field it *)
(* is the last accepted value that counts.                                 *)
(***************************************************************************)
EXTENDS WireForm, RoundingProofs, SequenceTheorems, WellFoundedInduction, TLAPS

\* The numeric parameters of the table.
IsRange(kind, param) ==
    \E low, high \in Nat : low <= high /\ param = Numeric(kind, low, high)

ParamType(param) ==
    \/ IsRange("temp", param)
    \/ IsRange("int", param)
    \/ \E choices \in SUBSET Nat : param = Choice(choices)
    \/ \E maxLen \in Nat : param = Text(maxLen)
    \/ param = Timer

-----------------------------------------------------------------------------
(* The table.                                                               *)

LEMMA RangeOf ==
    ASSUME NEW kind, NEW low \in Nat, NEW high \in Nat, low <= high
    PROVE  IsRange(kind, Numeric(kind, low, high))
BY DEF IsRange

LEMMA CanonicalTypes ==
    ASSUME NEW key \in DOMAIN CanonicalParams
    PROVE  ParamType(CanonicalParams[key])
BY RangeOf DEF CanonicalParams, ParamType, Temp, Whole

LEMMA NetworkTypes ==
    ASSUME NEW key \in DOMAIN NetworkParams
    PROVE  ParamType(NetworkParams[key])
BY RangeOf DEF NetworkParams, ParamType, Temp, Whole

LEMMA ParamTypes ==
    ASSUME NEW key \in Writable
    PROVE  ParamType(Param(key))
BY CanonicalTypes, NetworkTypes DEF Writable, Param

\* Both keys of the timer are of the kind of the field they write.
LEMMA FieldParam ==
    ASSUME NEW key \in Writable
    PROVE  Field(key) \in Writable /\ Param(Field(key)) = Param(key)
<1>1. CASE key = "_COOK_TIMER"
  <2>1. {"COOK_TIMER", "_COOK_TIMER"} \subseteq DOMAIN CanonicalParams
    BY DEF CanonicalParams
  <2>2. CanonicalParams["COOK_TIMER"] = Timer /\ CanonicalParams["_COOK_TIMER"] = Timer
    BY DEF CanonicalParams
  <2>3. QED
    BY <1>1, <2>1, <2>2 DEF Field, Writable, Param
<1>2. CASE key # "_COOK_TIMER"
  BY <1>2 DEF Field
<1>3. QED
  BY <1>1, <1>2

-----------------------------------------------------------------------------
(* Validation.                                                              *)

\* What is no NaN is clamped into the limits.
LEMMA ClampedWithin ==
    ASSUME NEW kind, NEW low \in Nat, NEW high \in Nat, low <= high,
           NEW x \in Int \cup {PlusInf, MinusInf}
    PROVE  Clamped(x, Numeric(kind, low, high)) \in (100 * low)..(100 * high)
BY WireFormAssumption DEF Clamped, Below, Above, Numeric

\* An accepted number is within the limits when it is stored.
LEMMA AcceptedNumber ==
    ASSUME NEW kind \in {"temp", "int"}, NEW low \in Nat, NEW high \in Nat, low <= high,
           NEW raw \in RawType, NEW strict \in BOOLEAN,
           ValidateNumeric(Numeric(kind, low, high), raw, strict).verdict = "accepted",
           ValidateNumeric(Numeric(kind, low, high), raw, strict).value # NaN
    PROVE  LET value == ValidateNumeric(Numeric(kind, low, high), raw, strict).value
           IN  IF kind = "temp" THEN 10 * RoundHalfEven(value, 10) \in (100 * low)..(100 * high)
                                     /\ RoundHalfEven(value, 10) \in Nat
                                ELSE 100 * value \in (100 * low)..(100 * high) /\ value \in Nat
<1> DEFINE param == Numeric(kind, low, high)
           x == Clamped(raw.number, param)
<1>1. param.kind = kind
  BY DEF Numeric
<1>2. /\ raw.number # NotNumber
      /\ ValidateNumeric(param, raw, strict)
           = IF kind = "temp" THEN Accept(x)
             ELSE IF x = NaN THEN Raise ELSE Accept(RoundHalfEven(x, 100))
  BY <1>1 DEF ValidateNumeric, Accept, Reject, Raise
<1>3. x # NaN
  BY <1>2 DEF Accept, Raise
<1>4. raw.number # NaN
  BY <1>3, WireFormAssumption DEF Clamped, Below, Above
<1>5. raw.number \in Int \cup {PlusInf, MinusInf}
  BY <1>2, <1>4 DEF RawType
<1>6. x \in (100 * low)..(100 * high)
  BY <1>5, ClampedWithin
<1>7. CASE kind = "temp"
  <2>1. ValidateNumeric(param, raw, strict).value = x
    BY <1>2, <1>7 DEF Accept
  <2> HIDE DEF x
  <2>2. x \in Int /\ (10 * low) * 10 <= x /\ x <= (10 * high) * 10
    BY <1>6
  <2>3. /\ RoundHalfEven(x, 10) \in Int
        /\ 10 * low <= RoundHalfEven(x, 10)
        /\ RoundHalfEven(x, 10) <= 10 * high
    BY <2>2, RoundWithin
  <2>4. QED
    BY <1>7, <2>1, <2>3
<1>8. CASE kind = "int"
  <2>1. ValidateNumeric(param, raw, strict).value = RoundHalfEven(x, 100)
    BY <1>2, <1>3, <1>8 DEF Accept
  <2> HIDE DEF x
  <2>2. x \in Int /\ low * 100 <= x /\ x <= high * 100
    BY <1>6
  <2>3. /\ RoundHalfEven(x, 100) \in Int
        /\ low <= RoundHalfEven(x, 100)
        /\ RoundHalfEven(x, 100) <= high
    BY <2>2, RoundWithin
  <2>4. QED
    BY <1>8, <2>1, <2>3
<1>9. QED
  BY <1>7, <1>8

\* Whatever is accepted, lenient or strict, is within the limits of its field
\* when it is stored; only NaN is not, and is never stored (validation.py:280).
THEOREM AcceptedIsInRange ==
    ASSUME NEW key \in Writable, NEW raw \in RawType, NEW strict \in BOOLEAN,
           Validate(key, raw, strict).verdict = "accepted",
           Validate(key, raw, strict).value # NaN
    PROVE  LET stored == Stored(key, Validate(key, raw, strict).value)
           IN  stored \in Nat /\ InRange(Field(key), stored)
<1> DEFINE param == Param(key)
           result == Validate(key, raw, strict)
           stored == Stored(key, result.value)
<1>1. result = IF param.kind = "enum" THEN ValidateEnum(param, raw)
               ELSE IF param.kind = "string" THEN ValidateString(param, raw, strict)
               ELSE IF param.kind = "timer" THEN ValidateTimer(raw)
               ELSE ValidateNumeric(param, raw, strict)
  BY DEF Validate
<1>2. InRange(Field(key), stored)
        <=> /\ stored \in Nat
            /\ param.kind = "temp"   => 10 * stored \in param.low..param.high
            /\ param.kind = "int"    => 100 * stored \in param.low..param.high
            /\ param.kind = "enum"   => stored \in param.choices
            /\ param.kind = "string" => stored <= param.maxLen
  BY FieldParam DEF InRange
<1>3. stored = IF param.kind = "temp" THEN RoundHalfEven(result.value, 10) ELSE result.value
  BY DEF Stored
<1>4. ParamType(param)
  BY ParamTypes
<1> HIDE DEF param, result, stored
<1>5. ASSUME NEW kind \in {"temp", "int"}, IsRange(kind, param)
      PROVE  stored \in Nat /\ InRange(Field(key), stored)
  <2>1. PICK low, high \in Nat : low <= high /\ param = Numeric(kind, low, high)
    BY <1>5 DEF IsRange
  <2>2. /\ param.kind = kind
        /\ param.low = 100 * low
        /\ param.high = 100 * high
    BY <2>1 DEF Numeric
  <2>3. result = ValidateNumeric(Numeric(kind, low, high), raw, strict)
    BY <1>1, <2>1, <2>2
  <2>4. IF kind = "temp" THEN 10 * stored \in param.low..param.high /\ stored \in Nat
                         ELSE 100 * stored \in param.low..param.high /\ stored \in Nat
    <3>1. result.verdict = "accepted" /\ result.value # NaN
      BY DEF result
    <3>2. QED
      BY <1>3, <2>1, <2>2, <2>3, <3>1, AcceptedNumber
  <2>5. QED
    BY <1>2, <2>2, <2>4
<1>6. ASSUME NEW choices \in SUBSET Nat, param = Choice(choices)
      PROVE  stored \in Nat /\ InRange(Field(key), stored)
  <2>1. param.kind = "enum" /\ param.choices = choices
    BY <1>6 DEF Choice
  <2>2. result = ValidateEnum(param, raw) /\ result.verdict = "accepted"
    BY <1>1, <2>1 DEF result
  <2>3. result.value \in choices
    BY <2>1, <2>2 DEF ValidateEnum, Accept, Reject, Raise
  <2>4. QED
    BY <1>2, <1>3, <2>1, <2>3
<1>7. ASSUME NEW maxLen \in Nat, param = Text(maxLen)
      PROVE  stored \in Nat /\ InRange(Field(key), stored)
  <2>1. param.kind = "string" /\ param.maxLen = maxLen
    BY <1>7 DEF Text
  <2>2. result = ValidateString(param, raw, strict) /\ result.verdict = "accepted"
    BY <1>1, <2>1 DEF result
  <2>3. result.value \in 0..maxLen
    BY <2>1, <2>2 DEF ValidateString, Accept, Reject, RawType
  <2>4. QED
    BY <1>2, <1>3, <2>1, <2>3
<1>8. ASSUME param = Timer
      PROVE  stored \in Nat /\ InRange(Field(key), stored)
  <2>1. param.kind = "timer"
    BY <1>8 DEF Timer
  <2>2. result = ValidateTimer(raw) /\ result.verdict = "accepted"
    BY <1>1, <2>1 DEF result
  <2>3. result.value \in Nat
    BY <2>2 DEF ValidateTimer, Accept, Reject, RawType
  <2>4. QED
    BY <1>2, <1>3, <2>1, <2>3
<1>9. stored \in Nat /\ InRange(Field(key), stored)
  BY <1>4, <1>5, <1>6, <1>7, <1>8 DEF ParamType
<1>10. QED
  BY <1>9 DEF stored, result

-----------------------------------------------------------------------------
(* What writes leave of a device.                                           *)

\* Each field is as before or within its limits.
Kept(before, after) ==
    /\ after \in [Fields -> Nat]
    /\ \A f \in Fields : after[f] = before[f] \/ InRange(f, after[f])

Outcome == [device : [Fields -> Nat], raised : BOOLEAN]

LEMMA KeyKeeps ==
    ASSUME NEW device \in [Fields -> Nat], NEW key, NEW raw \in RawType,
           NEW strict \in BOOLEAN
    PROVE  /\ AfterKey(device, key, raw, strict) \in Outcome
           /\ Kept(device, AfterKey(device, key, raw, strict).device)
<1> DEFINE result == Validate(key, raw, strict)
           stored == Stored(key, result.value)
<1>1. CASE result.verdict = "raised" \/ result.value = NaN
  BY <1>1 DEF AfterKey, Outcome, Kept
<1>2. CASE /\ ~(result.verdict = "raised" \/ result.value = NaN)
           /\ result.verdict # "accepted"
  BY <1>2 DEF AfterKey, Outcome, Kept
<1>3. CASE result.verdict = "accepted" /\ result.value # NaN
  <2>1. key \in Writable
    BY <1>3 DEF Validate, Reject
  <2>2. stored \in Nat /\ InRange(Field(key), stored)
    BY <1>3, <2>1, AcceptedIsInRange
  <2>3. AfterKey(device, key, raw, strict)
          = [device |-> [device EXCEPT ![Field(key)] = stored], raised |-> FALSE]
    BY <1>3 DEF AfterKey
  <2> HIDE DEF stored, result
  <2> DEFINE after == [device EXCEPT ![Field(key)] = stored]
  <2>4. /\ after \in [Fields -> Nat]
        /\ \A f \in Fields : after[f] = IF f = Field(key) THEN stored ELSE device[f]
    BY <2>2
  <2> HIDE DEF after
  <2>5. Kept(device, after)
    BY <2>2, <2>4 DEF Kept
  <2>6. AfterKey(device, key, raw, strict) = [device |-> after, raised |-> FALSE]
    BY <2>3 DEF after
  <2>7. QED
    BY <2>4, <2>5, <2>6 DEF Outcome
<1>4. QED
  BY <1>1, <1>2, <1>3

LEMMA WriteKeeps ==
    ASSUME NEW device \in [Fields -> Nat], NEW key, NEW raw \in RawType,
           NEW strict \in BOOLEAN
    PROVE  Kept(device, AfterWrite(device, key, raw, strict).device)
<1>1. Kept(device, device)
  BY DEF Kept
<1>2. QED
  BY <1>1, KeyKeeps DEF AfterWrite

-----------------------------------------------------------------------------
(* Forms, by their smallest counterexample.                                 *)

LEMMA NatMin ==
    ASSUME NEW T, T \subseteq Nat, T # {}
    PROVE  \E x \in T : \A y \in T : x <= y
<1> DEFINE R == {p \in Nat \X Nat : p[1] < p[2]}
<1>1. IsWellFoundedOn(R, Nat)
  BY NatLessThanWellFounded DEF OpToRel
<1>2. \A y, x \in Nat : y < x => <<y, x>> \in R
  OBVIOUS
<1>3. PICK x \in T : \A y \in T : <<y, x>> \notin R
  <2> HIDE DEF R
  <2> QED
    BY <1>1, WFMin
<1> HIDE DEF R
<1>4. \A y \in T : ~(y < x)
  BY <1>2, <1>3
<1>5. QED
  BY <1>4

\* The devices after each prefix of a form.
Prefixes(after, n, device, form, strict) ==
    /\ after \in [0..n -> Outcome]
    /\ after[0] = [device |-> device, raised |-> FALSE]
    /\ \A i \in 1..n : after[i] = AfterPair(after[i - 1], form[i], strict)

LEMMA PairKeeps ==
    ASSUME NEW before \in Outcome, NEW pair \in [key : STRING, raw : RawType],
           NEW strict \in BOOLEAN
    PROVE  /\ AfterPair(before, pair, strict) \in Outcome
           /\ Kept(before.device, AfterPair(before, pair, strict).device)
<1>1. before.device \in [Fields -> Nat]
  BY DEF Outcome
<1>2. CASE before.raised
  BY <1>1, <1>2 DEF AfterPair, Kept
<1>3. CASE ~before.raised
  BY <1>1, <1>3, KeyKeeps DEF AfterPair
<1>4. QED
  BY <1>2, <1>3

LEMMA PrefixesExist ==
    ASSUME NEW device \in [Fields -> Nat], NEW form \in FormType, NEW strict \in BOOLEAN
    PROVE  \E after : Prefixes(after, Len(form), device, form, strict)
<1> DEFINE Start == [device |-> device, raised |-> FALSE]
           T == {m \in 0..Len(form) : ~\E after : Prefixes(after, m, device, form, strict)}
<1>1. Start \in Outcome /\ Len(form) \in Nat
  BY DEF Outcome, FormType
<1>2. \A i \in 1..Len(form) : form[i] \in [key : STRING, raw : RawType]
  BY ElementOfSeq DEF FormType
<1> SUFFICES ASSUME T # {} PROVE FALSE
  BY <1>1
<1>3. PICK m \in T : \A y \in T : m <= y
  <2>1. T \subseteq Nat
    BY <1>1
  <2> HIDE DEF T
  <2>2. QED
    BY <2>1, NatMin
<1>4. CASE m = 0
  <2>1. Prefixes([i \in 0..0 |-> Start], 0, device, form, strict)
    BY <1>1 DEF Prefixes
  <2>2. QED
    BY <1>4, <2>1
<1>5. CASE m # 0
  <2>1. m \in 1..Len(form) /\ m - 1 \in 0..Len(form) /\ m - 1 \notin T
    BY <1>1, <1>3, <1>5
  <2>2. PICK before : Prefixes(before, m - 1, device, form, strict)
    BY <2>1
  <2> DEFINE last == AfterPair(before[m - 1], form[m], strict)
             after == [i \in 0..m |-> IF i = m THEN last ELSE before[i]]
  <2>3. before \in [0..(m - 1) -> Outcome]
    BY <2>2 DEF Prefixes
  <2>4. before[m - 1] \in Outcome
    BY <2>1, <2>3
  <2>5. last \in Outcome
    BY <1>2, <2>1, <2>4, PairKeeps
  <2>6. \A i \in 0..m : after[i] = IF i = m THEN last ELSE before[i]
    OBVIOUS
  <2>7. after[m] = AfterPair(after[m - 1], form[m], strict)
    BY <2>1, <2>6
  <2> HIDE DEF last
  <2>8. after \in [0..m -> Outcome]
    BY <2>1, <2>3, <2>5
  <2> HIDE DEF after
  <2>9. \A i \in 1..m : after[i] = AfterPair(after[i - 1], form[i], strict)
    <3> SUFFICES ASSUME NEW i \in 1..m, i # m
                 PROVE  after[i] = AfterPair(after[i - 1], form[i], strict)
      BY <2>7
    <3>1. i \in 1..(m - 1) /\ i \in 0..m /\ i - 1 \in 0..m /\ i - 1 # m
      BY <2>1
    <3>2. after[i] = before[i] /\ after[i - 1] = before[i - 1]
      BY <2>6, <3>1
    <3>3. before[i] = AfterPair(before[i - 1], form[i], strict)
      BY <2>2, <3>1 DEF Prefixes
    <3>4. QED
      BY <3>2, <3>3
  <2>10. after[0] = Start
    <3>1. 0 \in 0..m /\ 0 # m
      BY <2>1
    <3>2. QED
      BY <2>2, <2>6, <3>1 DEF Prefixes
  <2>11. Prefixes(after, m, device, form, strict)
    BY <2>8, <2>9, <2>10 DEF Prefixes
  <2>12. QED
    BY <2>11
<1>6. QED
  BY <1>4, <1>5

LEMMA FormPrefixes ==
    ASSUME NEW device \in [Fields -> Nat], NEW form \in FormType, NEW strict \in BOOLEAN
    PROVE  \E after : /\ Prefixes(after, Len(form), device, form, strict)
                      /\ AfterForm(device, form, strict) = after[Len(form)]
<1> DEFINE Body(g) == [i \in 0..Len(form) |->
                         IF i = 0 THEN [device |-> device, raised |-> FALSE]
                                  ELSE AfterPair(g[i - 1], form[i], strict)]
           chosen == CHOOSE g : g = Body(g)
<1>1. PICK after : Prefixes(after, Len(form), device, form, strict)
  BY PrefixesExist
<1>2. Len(form) \in Nat
  BY DEF FormType
<1>3. after = Body(after)
  BY <1>1, <1>2 DEF Prefixes
<1>4. chosen = Body(chosen)
  BY <1>3, Zenon
<1>5. AfterForm(device, form, strict) = chosen[Len(form)]
  BY DEF AfterForm
<1> HIDE DEF chosen
<1>6. /\ DOMAIN chosen = 0..Len(form)
      /\ \A i \in 0..Len(form) : chosen[i] = Body(chosen)[i]
  BY <1>4
<1> DEFINE T == {i \in 0..Len(form) : chosen[i] # after[i]}
<1>7. T = {}
  <2> SUFFICES ASSUME T # {} PROVE FALSE
    OBVIOUS
  <2>1. PICK i \in T : \A j \in T : i <= j
    <3>1. T \subseteq Nat
      BY <1>2
    <3> HIDE DEF T
    <3>2. QED
      BY <3>1, NatMin
  <2>2. i \in 0..Len(form) /\ chosen[i] # after[i]
    OBVIOUS
  <2>3. i # 0
    BY <1>1, <1>6, <2>2 DEF Prefixes
  <2>4. i \in 1..Len(form) /\ i - 1 \in 0..Len(form) /\ i - 1 \notin T
    BY <1>2, <2>1, <2>2, <2>3
  <2>5. chosen[i - 1] = after[i - 1]
    BY <2>4
  <2>6. chosen[i] = AfterPair(chosen[i - 1], form[i], strict)
    BY <1>6, <2>2, <2>3
  <2>7. after[i] = AfterPair(after[i - 1], form[i], strict)
    BY <1>1, <2>4 DEF Prefixes
  <2>8. QED
    BY <2>2, <2>5, <2>6, <2>7
<1>8. chosen[Len(form)] = after[Len(form)]
  BY <1>2, <1>7
<1>9. QED
  BY <1>1, <1>5, <1>8

\* Whatever a form holds, and wherever it raises, parse_and_apply leaves each
\* field as it was or within its limits (post_parse.py:249).
THEOREM FormKeeps ==
    ASSUME NEW device \in [Fields -> Nat], NEW form \in FormType, NEW strict \in BOOLEAN
    PROVE  Kept(device, AfterForm(device, form, strict).device)
<1>1. PICK after : /\ Prefixes(after, Len(form), device, form, strict)
                   /\ AfterForm(device, form, strict) = after[Len(form)]
  BY FormPrefixes
<1>2. Len(form) \in Nat
  BY DEF FormType
<1> DEFINE T == {i \in 0..Len(form) : ~Kept(device, after[i].device)}
<1>3. T = {}
  <2> SUFFICES ASSUME T # {} PROVE FALSE
    OBVIOUS
  <2>1. PICK i \in T : \A j \in T : i <= j
    <3>1. T \subseteq Nat
      BY <1>2
    <3> HIDE DEF T
    <3>2. QED
      BY <3>1, NatMin
  <2>2. i \in 0..Len(form) /\ ~Kept(device, after[i].device)
    OBVIOUS
  <2>3. i # 0
    BY <1>1, <2>2 DEF Prefixes, Kept
  <2>4. i \in 1..Len(form) /\ i - 1 \in 0..Len(form) /\ i - 1 \notin T
    BY <1>2, <2>1, <2>2, <2>3
  <2>5. Kept(device, after[i - 1].device)
    BY <2>4
  <2>6. after[i - 1] \in Outcome /\ form[i] \in [key : STRING, raw : RawType]
    BY <1>1, <2>4, ElementOfSeq DEF Prefixes, FormType
  <2>7. after[i] = AfterPair(after[i - 1], form[i], strict)
    BY <1>1, <2>4 DEF Prefixes
  <2>8. Kept(after[i - 1].device, after[i].device)
    BY <2>6, <2>7, PairKeeps
  <2>9. Kept(device, after[i].device)
    BY <2>5, <2>8 DEF Kept
  <2>10. QED
    BY <2>2, <2>9
<1>4. QED
  BY <1>1, <1>2, <1>3

-----------------------------------------------------------------------------
(* What a form leaves of one field: the last value accepted for it before   *)
(* anything raised.                                                         *)

Validated(pair) == Validate(pair.key, pair.raw, FALSE)
Raising(pair) == Validated(pair).verdict = "raised" \/ Validated(pair).value = NaN
Accepting(pair, f) == Field(pair.key) = f /\ Validated(pair).verdict = "accepted"
Storing(pair) == Stored(pair.key, Validated(pair).value)

\* The pairs among the first n that count for a field.
Counting(form, n, f) ==
    {i \in 1..n : Accepting(form[i], f) /\ \A j \in 1..i : ~Raising(form[j])}

IsLastOf(k, S) == k \in S /\ \A j \in S : j <= k

\* A field after the first n pairs.
LastCounts(form, n, f, before, after) ==
    LET counting == Counting(form, n, f)
    IN  /\ counting = {} => after = before
        /\ counting # {} => \E k : IsLastOf(k, counting) /\ after = Storing(form[k])

LEMMA OneLast ==
    ASSUME NEW S, S \subseteq Nat, NEW k, NEW m, IsLastOf(k, S), IsLastOf(m, S)
    PROVE  k = m
BY DEF IsLastOf

\* What one more pair adds to those that count.
LEMMA OneMoreCounts ==
    ASSUME NEW form, NEW n \in Nat \ {0}, NEW f
    PROVE  Counting(form, n, f) =
             Counting(form, n - 1, f) \cup
               (IF Accepting(form[n], f) /\ \A j \in 1..n : ~Raising(form[j]) THEN {n} ELSE {})
<1>1. 1..n = 1..(n - 1) \cup {n} /\ n \notin 1..(n - 1)
  OBVIOUS
<1>2. QED
  BY <1>1 DEF Counting

\* One pair, of which nothing before has raised.
LEMMA PairCounts ==
    ASSUME NEW before \in Outcome, ~before.raised, NEW pair, NEW f \in Fields
    PROVE  LET next == AfterPair(before, pair, FALSE)
           IN  /\ next.raised <=> Raising(pair)
               /\ next.device[f] = IF Accepting(pair, f) /\ ~Raising(pair)
                                   THEN Storing(pair) ELSE before.device[f]
<1>1. AfterPair(before, pair, FALSE) = AfterKey(before.device, pair.key, pair.raw, FALSE)
  BY DEF AfterPair
<1>2. before.device \in [Fields -> Nat]
  BY DEF Outcome
<1> DEFINE next == AfterPair(before, pair, FALSE)
<1>3. CASE Raising(pair)
  <2>1. next = [device |-> before.device, raised |-> TRUE]
    BY <1>1, <1>3 DEF AfterKey, Raising, Validated
  <2> HIDE DEF next
  <2>2. next.raised /\ next.device[f] = before.device[f]
    BY <2>1
  <2>3. QED
    BY <1>3, <2>2 DEF next
<1>4. CASE ~Raising(pair) /\ Validated(pair).verdict # "accepted"
  <2>1. next = [device |-> before.device, raised |-> FALSE]
    BY <1>1, <1>4 DEF AfterKey, Raising, Validated
  <2> HIDE DEF next
  <2>2. ~next.raised /\ next.device[f] = before.device[f]
    BY <2>1
  <2>3. ~Accepting(pair, f)
    BY <1>4 DEF Accepting
  <2>4. QED
    BY <1>4, <2>2, <2>3 DEF next
<1>5. CASE ~Raising(pair) /\ Validated(pair).verdict = "accepted"
  <2>1. next = [device |-> [before.device EXCEPT ![Field(pair.key)] = Storing(pair)],
                raised |-> FALSE]
    BY <1>1, <1>5 DEF AfterKey, Raising, Validated, Storing
  <2>2. [before.device EXCEPT ![Field(pair.key)] = Storing(pair)][f]
          = IF Field(pair.key) = f THEN Storing(pair) ELSE before.device[f]
    BY <1>2
  <2> HIDE DEF next
  <2>3. /\ ~next.raised
        /\ next.device[f] = IF Field(pair.key) = f THEN Storing(pair) ELSE before.device[f]
    BY <2>1, <2>2
  <2>4. Accepting(pair, f) <=> Field(pair.key) = f
    BY <1>5 DEF Accepting
  <2>5. QED
    BY <1>5, <2>3, <2>4 DEF next
<1>6. QED
  BY <1>3, <1>4, <1>5

\* After the first i pairs.
LastWins(form, i, device, outcome) ==
    /\ outcome.raised <=> \E j \in 1..i : Raising(form[j])
    /\ \A f \in Fields : LastCounts(form, i, f, device[f], outcome.device[f])

LEMMA PairKeepsLastWins ==
    ASSUME NEW form, NEW i \in Nat \ {0}, NEW device, NEW before \in Outcome,
           LastWins(form, i - 1, device, before)
    PROVE  LastWins(form, i, device, AfterPair(before, form[i], FALSE))
<1> DEFINE next == AfterPair(before, form[i], FALSE)
<1>1. \A j : j \in 1..i <=> j \in 1..(i - 1) \/ j = i
  OBVIOUS
<1>2. before.raised <=> \E j \in 1..(i - 1) : Raising(form[j])
  BY DEF LastWins
<1>3. next.raised <=> \E j \in 1..i : Raising(form[j])
  <2>1. CASE before.raised
    BY <1>1, <1>2, <2>1 DEF AfterPair
  <2>2. CASE ~before.raised
    <3>1. CASE Fields = {}
      BY <1>1, <1>2, <2>2 DEF AfterPair, AfterKey, Raising, Validated
    <3>2. CASE Fields # {}
      BY <1>1, <1>2, <2>2, <3>2, PairCounts
    <3>3. QED
      BY <3>1, <3>2
  <2>3. QED
    BY <2>1, <2>2
<1>4. ASSUME NEW f \in Fields
      PROVE  LastCounts(form, i, f, device[f], next.device[f])
  <2>1. LastCounts(form, i - 1, f, device[f], before.device[f])
    BY DEF LastWins
  <2>2. Counting(form, i - 1, f) \subseteq 1..(i - 1)
    BY DEF Counting
  <2>3. CASE Accepting(form[i], f) /\ \A j \in 1..i : ~Raising(form[j])
    <3>1. Counting(form, i, f) = Counting(form, i - 1, f) \cup {i}
      BY <2>3, OneMoreCounts
    <3>2. IsLastOf(i, Counting(form, i, f))
      BY <2>2, <3>1 DEF IsLastOf
    <3>3. ~before.raised /\ ~Raising(form[i])
      BY <1>1, <1>2, <2>3
    <3>4. next.device[f] = Storing(form[i])
      BY <2>3, <3>3, PairCounts
    <3>5. QED
      BY <3>1, <3>2, <3>4 DEF LastCounts
  <2>4. CASE ~(Accepting(form[i], f) /\ \A j \in 1..i : ~Raising(form[j]))
    <3>1. Counting(form, i, f) = Counting(form, i - 1, f)
      BY <2>4, OneMoreCounts
    <3>2. next.device[f] = before.device[f]
      <4>1. CASE before.raised
        BY <4>1 DEF AfterPair
      <4>2. CASE ~before.raised
        <5>1. ~(Accepting(form[i], f) /\ ~Raising(form[i]))
          BY <1>1, <1>2, <2>4, <4>2
        <5>2. QED
          BY <4>2, <5>1, PairCounts
      <4>3. QED
        BY <4>1, <4>2
    <3>3. QED
      BY <2>1, <3>1, <3>2 DEF LastCounts
  <2>5. QED
    BY <2>3, <2>4
<1>5. QED
  BY <1>3, <1>4 DEF LastWins

\* Of every form, each field keeps the last value that was accepted for it before
\* any of its keys raised, and the value it had if there is none
\* (post_parse.py:249, "Duplicate keys are last-wins").
THEOREM FormIsLastWins ==
    ASSUME NEW device \in [Fields -> Nat], NEW form \in FormType
    PROVE  LastWins(form, Len(form), device, AfterForm(device, form, FALSE))
<1>1. PICK after : /\ Prefixes(after, Len(form), device, form, FALSE)
                   /\ AfterForm(device, form, FALSE) = after[Len(form)]
  BY FormPrefixes
<1>2. Len(form) \in Nat
  BY DEF FormType
<1> DEFINE T == {i \in 0..Len(form) : ~LastWins(form, i, device, after[i])}
<1>3. T = {}
  <2> SUFFICES ASSUME T # {} PROVE FALSE
    OBVIOUS
  <2>1. PICK i \in T : \A j \in T : i <= j
    <3>1. T \subseteq Nat
      BY <1>2
    <3> HIDE DEF T
    <3>2. QED
      BY <3>1, NatMin
  <2>2. i \in 0..Len(form) /\ ~LastWins(form, i, device, after[i])
    OBVIOUS
  <2>3. LastWins(form, 0, device, after[0])
    <3>1. \A f \in Fields : Counting(form, 0, f) = {}
      BY DEF Counting
    <3>2. after[0] = [device |-> device, raised |-> FALSE]
      BY <1>1 DEF Prefixes
    <3>3. ~after[0].raised /\ after[0].device = device
      BY <3>2
    <3>4. QED
      BY <3>1, <3>3 DEF LastWins, LastCounts
  <2>4. i \in 1..Len(form) /\ i \in Nat \ {0} /\ i - 1 \in 0..Len(form) /\ i - 1 \notin T
    BY <1>2, <2>1, <2>2, <2>3
  <2>5. LastWins(form, i - 1, device, after[i - 1])
    BY <2>4
  <2>6. after[i - 1] \in Outcome /\ after[i] = AfterPair(after[i - 1], form[i], FALSE)
    BY <1>1, <2>4 DEF Prefixes
  <2>7. LastWins(form, i, device, after[i])
    BY <2>4, <2>5, <2>6, PairKeepsLastWins
  <2>8. QED
    BY <2>2, <2>7
<1>4. LastWins(form, Len(form), device, after[Len(form)])
  <2>1. Len(form) \in 0..Len(form) /\ Len(form) \notin T
    BY <1>2, <1>3
  <2>2. QED
    BY <2>1
<1>5. QED
  BY <1>1, <1>4
=============================================================================
