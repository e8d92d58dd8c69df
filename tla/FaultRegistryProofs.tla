------------------------ MODULE FaultRegistryProofs ------------------------
(***************************************************************************)
(* Proofs about the fault registry, for any set of templates, sub-step     *)
(* lengths and bounds: its types, that a count is a budget, that every     *)
(* outage has an end, and that those that outlast the sub-step they begin  *)
(* in have the reset they owe.                                             *)
(***************************************************************************)
EXTENDS FaultRegistry, TLAPS

LEMMA StepLengthsAreNatural == StepLengths \subseteq Nat
BY FaultRegistryAssumption

\* Counting up to a bound stays within it.
LEMMA CountStaysBounded ==
    ASSUME NEW b \in Nat, NEW n \in 0..b
    PROVE  CountUpTo(n, b) \in 0..b
BY DEF CountUpTo

\* Firing and growing older keep a fault a fault, and what the handlers and the
\* clock leave alone.
LEMMA FiringKeepsFault ==
    ASSUME NEW id \in DOMAIN faults, faults[id] \in FaultType
    PROVE  /\ AfterFiring(id) \in FaultType
           /\ AfterFiring(id).count = faults[id].count
           /\ AfterFiring(id).activations = CountUpTo(faults[id].activations, MaxActivations)
           /\ AfterFiring(id).offline => faults[id].offline \/ id \in PowerIds
           /\ id \in PowerIds => AfterFiring(id).duration # Unlimited
           /\ id \notin PowerIds => /\ AfterFiring(id).offline = faults[id].offline
                                   /\ AfterFiring(id).duration = faults[id].duration
                                   /\ AfterFiring(id).age = faults[id].age
<1>1. CountUpTo(faults[id].activations, MaxActivations) \in 0..MaxActivations
  BY CountStaysBounded, FaultRegistryAssumption DEF FaultType
<1> DEFINE f == [faults[id] EXCEPT !.activations = CountUpTo(@, MaxActivations)]
<1>2. /\ f \in FaultType /\ f.count = faults[id].count /\ f.offline = faults[id].offline
      /\ f.activations = CountUpTo(faults[id].activations, MaxActivations)
      /\ f.duration = faults[id].duration /\ f.age = faults[id].age
  BY <1>1 DEF FaultType
<1>3. /\ OutageLength(id, f.duration) \in Limit
      /\ OutageLength(id, f.duration) # Unlimited
  BY <1>2, FaultRegistryAssumption DEF FaultType, OutageLength, Limit
<1> HIDE DEF f
<1>4. CASE id \in PowerIds
  <2>1. AfterFiring(id) = [f EXCEPT !.offline = TRUE, !.duration = OutageLength(id, @)]
    BY <1>4 DEF AfterFiring, f
  <2>2. QED
    BY <1>2, <1>3, <1>4, <2>1 DEF FaultType
<1>5. CASE id \notin PowerIds
  <2>1. AfterFiring(id) = f
    BY <1>5 DEF AfterFiring, f
  <2>2. QED
    BY <1>2, <1>5, <2>1
<1>6. QED
  BY <1>4, <1>5

LEMMA AgeingKeepsFault ==
    ASSUME NEW f \in FaultType, NEW dt \in Nat
    PROVE  /\ Older(f, dt) \in FaultType
           /\ Older(f, dt).count = f.count
           /\ Older(f, dt).activations = f.activations
           /\ Older(f, dt).offline = f.offline
           /\ Older(f, dt).duration = f.duration
<1>1. MaxAge \in Nat /\ f.age \in 0..MaxAge
  BY FaultRegistryAssumption DEF FaultType
<1>2. (IF f.age + dt < MaxAge THEN f.age + dt ELSE MaxAge) \in 0..MaxAge
  BY <1>1
<1>3. QED
  BY <1>2 DEF Older, FaultType

\* What the firing of some registered faults leaves in the history.
LEMMA FiredMoreIsTyped ==
    ASSUME history \in HistoryType, NEW ids
    PROVE  FiredMore(ids) \in [Ids -> 0..(MaxActivations + 1)]
<1>1. \A id \in Ids : CountUpTo(history.fired[id], MaxActivations + 1)
                        \in 0..(MaxActivations + 1)
  BY CountStaysBounded, FaultRegistryAssumption DEF HistoryType
<1>2. QED
  BY <1>1 DEF FiredMore, HistoryType

LEMMA CallKeepsHistoryType ==
    ASSUME history \in HistoryType, NEW fired \in [Ids -> 0..(MaxActivations + 1)],
           NEW owed \in SUBSET PowerIds, NEW unplugged \in SUBSET Probes,
           Call(fired, owed, unplugged)
    PROVE  history' \in HistoryType
BY FaultRegistryAssumption DEF Call, HistoryType

\* The fault a template injects.
Injected(t) ==
    [duration |-> t.duration, count |-> t.count, chance |-> t.chance, reset |-> t.reset,
     probe |-> t.probe, offline |-> FALSE, age |-> 0, activations |-> 0]

LEMMA InjectedIsTyped ==
    ASSUME NEW t \in TemplateType
    PROVE  t.id \in Ids /\ Injected(t) \in FaultType /\ ~Injected(t).offline
BY FaultRegistryAssumption DEF TemplateType, Injected, FaultType

-----------------------------------------------------------------------------
LEMMA InitHasTypes == Init => TypeOK
BY FaultRegistryAssumption DEF Init, TypeOK, HistoryType, AllConnected, OutageIds

LEMMA CallsKeepTypes ==
    ASSUME TypeOK, AdminCalls
    PROVE  TypeOK'
<1> USE DEF TypeOK, AdminCalls
<1>0. /\ history.fired \in [Ids -> 0..(MaxActivations + 1)]
      /\ history.owed \in SUBSET PowerIds /\ history.unplugged \in SUBSET Probes
  BY DEF HistoryType
<1>1. ASSUME NEW t \in Templates, Inject(t)
      PROVE  TypeOK'
  <2>1. t.id \in Ids /\ Injected(t) \in FaultType
    BY InjectedIsTyped, FaultRegistryAssumption
  <2>2. faults' = [id \in DOMAIN faults \cup {t.id} |->
                     IF id = t.id THEN Injected(t) ELSE faults[id]]
    BY <1>1 DEF Inject, WithFault, Injected
  <2>3. [history.fired EXCEPT ![t.id] = 0] \in [Ids -> 0..(MaxActivations + 1)]
    BY <1>0, <2>1, FaultRegistryAssumption
  <2>4. history' \in HistoryType
    BY <1>0, <1>1, <2>3, CallKeepsHistoryType DEF Inject
  <2>5. ~Injected(t).offline
    BY DEF Injected
  <2>6. QED
    BY <1>1, <2>1, <2>2, <2>4, <2>5 DEF Inject, WithFault, OutageIds
<1>2. ASSUME NEW ids, Clear(ids)
      PROVE  TypeOK'
  <2>1. history' \in HistoryType
    BY <1>0, <1>2, CallKeepsHistoryType DEF Clear
  <2>2. QED
    BY <1>2, <2>1 DEF Clear, OutageIds
<1>3. CASE Reset
  <2>1. history' \in HistoryType
    BY <1>0, <1>3, CallKeepsHistoryType DEF Reset
  <2>2. QED
    BY <1>3, <2>1 DEF Reset, OutageIds, AllConnected
<1>4. CASE AdminWrite
  <2>1. history' \in HistoryType
    BY <1>0, <1>4, CallKeepsHistoryType DEF AdminWrite
  <2>2. QED
    BY <1>4, <2>1 DEF AdminWrite, OutageIds
<1>5. ASSUME NEW p \in Probes, Disconnect(p) \/ Reconnect(p)
      PROVE  TypeOK'
  <2>1. history' \in HistoryType
    BY <1>0, <1>5, CallKeepsHistoryType DEF Disconnect, Reconnect
  <2>2. QED
    BY <1>5, <2>1 DEF Disconnect, Reconnect, OutageIds
<1>6. QED
  BY <1>1, <1>2, <1>3, <1>4, <1>5

\* Sub-steps of any length, none included.
LEMMA PoweredStepKeepsTypes ==
    ASSUME TypeOK, NEW dt \in Nat,
           NEW firing \in MayFire(SimIds \cap DOMAIN faults), PoweredStep(dt, firing)
    PROVE  TypeOK'
<1> USE DEF TypeOK
<1> DEFINE fired == [id \in DOMAIN faults |->
                       IF id \in firing THEN AfterFiring(id) ELSE faults[id]]
           left  == {id \in DOMAIN faults : /\ ~(id \in firing /\ Spent(fired[id]))
                                            /\ ~Expired(Older(fired[id], dt))}
<1>1. faults' = [id \in left |-> Older(fired[id], dt)]
  BY DEF PoweredStep
<1>2. \A id \in DOMAIN faults : /\ fired[id] \in FaultType
                                /\ fired[id].offline => id \in PowerIds
  BY FiringKeepsFault DEF OutageIds
<1> HIDE DEF fired
<1>3. \A id \in DOMAIN faults : /\ Older(fired[id], dt) \in FaultType
                                /\ Older(fired[id], dt).offline => id \in PowerIds
  BY <1>2, AgeingKeepsFault
<1>4. /\ DOMAIN faults' \subseteq Ids
      /\ \A id \in DOMAIN faults' : faults'[id] \in FaultType
      /\ OutageIds' \subseteq PowerIds
  BY <1>1, <1>3 DEF OutageIds
<1>5. history' \in HistoryType
  BY FiredMoreIsTyped DEF PoweredStep, HistoryType
<1>6. probes' \in [Probes -> BOOLEAN] /\ config' = config
  BY DEF PoweredStep
<1>7. QED
  BY <1>4, <1>5, <1>6

LEMMA OfflineStepKeepsTypes ==
    ASSUME TypeOK, NEW dt \in Nat, OfflineStep(dt)
    PROVE  TypeOK'
<1> USE DEF TypeOK
<1> DEFINE left == {id \in DOMAIN faults : ~Expired(Older(faults[id], dt))}
<1>1. \A id \in DOMAIN faults : /\ Older(faults[id], dt) \in FaultType
                                /\ Older(faults[id], dt).offline = faults[id].offline
  BY AgeingKeepsFault
<1>2. CASE ResetsOnReturn(left)
  <2>1. /\ faults' = [id \in {} |-> FALSE]
        /\ probes' = AllConnected
        /\ config' = "factory"
        /\ history' = [history EXCEPT !.owed = {}, !.unplugged = {}]
    BY <1>2 DEF OfflineStep
  <2>2. history' \in HistoryType
    BY <2>1 DEF HistoryType
  <2>3. probes' \in [Probes -> BOOLEAN]
    BY <2>1 DEF AllConnected
  <2>4. DOMAIN faults' = {} /\ OutageIds' = {}
    BY <2>1 DEF OutageIds
  <2>5. QED
    BY <2>1, <2>2, <2>3, <2>4
<1>3. CASE ~ResetsOnReturn(left)
  <2>1. /\ faults' = [id \in left |-> Older(faults[id], dt)]
        /\ UNCHANGED <<probes, config, history>>
    BY <1>3 DEF OfflineStep
  <2>2. QED
    BY <1>1, <2>1 DEF OutageIds
<1>4. QED
  BY <1>2, <1>3

LEMMA SubstepsKeepTypes ==
    ASSUME TypeOK, Substeps
    PROVE  TypeOK'
BY PoweredStepKeepsTypes, OfflineStepKeepsTypes, StepLengthsAreNatural DEF Substeps

LEMMA RequestKeepsTypes ==
    ASSUME TypeOK, NEW firing \in SUBSET (RequestIds \cap DOMAIN faults), Request(firing)
    PROVE  TypeOK'
<1> USE DEF TypeOK
<1> DEFINE left == {id \in DOMAIN faults : ~(id \in firing /\ Spent(AfterFiring(id)))}
<1>1. faults' = [id \in left |-> IF id \in firing THEN AfterFiring(id) ELSE faults[id]]
  BY DEF Request
<1>2. \A id \in DOMAIN faults : AfterFiring(id) \in FaultType
  BY FiringKeepsFault
<1>3. \A id \in DOMAIN faults : AfterFiring(id).offline => id \in PowerIds
  BY FiringKeepsFault DEF OutageIds
<1>4. history' \in HistoryType
  BY FiredMoreIsTyped, CallKeepsHistoryType DEF Request, HistoryType
<1>5. QED
  BY <1>1, <1>2, <1>3, <1>4 DEF Request, OutageIds

\* Only network and http faults fire on a request.
LEMMA RequestFiringsAreRequestFaults ==
    RequestFirings \subseteq SUBSET (RequestIds \cap DOMAIN faults)
BY DEF RequestFirings, MayFire

\* The steps of the registry, with the faults that fire on a request.
LEMMA StepCases ==
    ASSUME [Next]_vars
    PROVE  \/ Substeps
           \/ \E firing \in SUBSET (RequestIds \cap DOMAIN faults) : Request(firing)
           \/ \E t \in Templates : Inject(t)
           \/ \E id \in DOMAIN faults : Clear({id})
           \/ Clear(DOMAIN faults)
           \/ Reset
           \/ AdminWrite
           \/ \E p \in Probes : Disconnect(p) \/ Reconnect(p)
           \/ UNCHANGED vars
BY RequestFiringsAreRequestFaults DEF Next, AdminCalls

\* Every reachable registry is well typed; in particular only a power fault can
\* take the device offline (faults/power.py:86).
THEOREM FaultTypes == Spec => []TypeOK
<1>1. TypeOK /\ [Next]_vars => TypeOK'
  <2> SUFFICES ASSUME TypeOK, [Next]_vars PROVE TypeOK'
    OBVIOUS
  <2>1. CASE UNCHANGED vars
    BY <2>1 DEF vars, TypeOK, OutageIds
  <2>2. QED
    BY <2>1, StepCases, CallsKeepTypes, SubstepsKeepTypes, RequestKeepsTypes DEF AdminCalls
<1>2. QED
  BY <1>1, InitHasTypes, PTL DEF Spec

-----------------------------------------------------------------------------
\* A fault that has a duration, and is not expired, has not reached it.
LEMMA UnexpiredEnds ==
    ASSUME NEW f \in FaultType, ~Expired(f), f.duration # Unlimited
    PROVE  f.age < f.duration
BY FaultRegistryAssumption DEF Expired, FaultType, Limit

LEMMA PoweredStepKeepsEnds ==
    ASSUME TypeOK, NEW dt \in Nat, NEW firing, PoweredStep(dt, firing)
    PROVE  OutageHasAnEnd'
<1> DEFINE fired == [id \in DOMAIN faults |->
                       IF id \in firing THEN AfterFiring(id) ELSE faults[id]]
           left  == {id \in DOMAIN faults : /\ ~(id \in firing /\ Spent(fired[id]))
                                            /\ ~Expired(Older(fired[id], dt))}
<1>1. faults' = [id \in left |-> Older(fired[id], dt)] /\ Powered
  BY DEF PoweredStep
<1>2. \A id \in DOMAIN faults : /\ fired[id] \in FaultType
                                /\ fired[id].offline => fired[id].duration # Unlimited
  BY <1>1, FiringKeepsFault DEF Powered, OutageIds, TypeOK
<1> HIDE DEF fired
<1>3. \A id \in left : /\ Older(fired[id], dt) \in FaultType
                       /\ ~Expired(Older(fired[id], dt))
                       /\ Older(fired[id], dt).offline
                            => Older(fired[id], dt).duration # Unlimited
  BY <1>2, AgeingKeepsFault
<1>4. QED
  BY UnexpiredEnds, <1>1, <1>3 DEF OutageHasAnEnd, OutageIds

LEMMA OfflineStepKeepsEnds ==
    ASSUME TypeOK, OutageHasAnEnd, NEW dt \in Nat, OfflineStep(dt)
    PROVE  OutageHasAnEnd'
<1> DEFINE left == {id \in DOMAIN faults : ~Expired(Older(faults[id], dt))}
<1>1. \A id \in left : /\ Older(faults[id], dt) \in FaultType
                       /\ ~Expired(Older(faults[id], dt))
                       /\ Older(faults[id], dt).offline
                            => Older(faults[id], dt).duration # Unlimited
  BY AgeingKeepsFault DEF TypeOK, OutageHasAnEnd, OutageIds
<1>2. \/ faults' = [id \in {} |-> FALSE]
      \/ faults' = [id \in left |-> Older(faults[id], dt)]
  BY DEF OfflineStep
<1>3. QED
  BY UnexpiredEnds, <1>1, <1>2 DEF OutageHasAnEnd, OutageIds

LEMMA RequestKeepsEnds ==
    ASSUME TypeOK, OutageHasAnEnd,
           NEW firing \in SUBSET (RequestIds \cap DOMAIN faults), Request(firing)
    PROVE  OutageHasAnEnd'
<1>1. \A id \in firing : /\ AfterFiring(id).offline = faults[id].offline
                         /\ AfterFiring(id).duration = faults[id].duration
                         /\ AfterFiring(id).age = faults[id].age
  <2>1. firing \cap PowerIds = {}
    BY FaultRegistryAssumption DEF SimIds
  <2>2. QED
    BY <2>1, FiringKeepsFault DEF TypeOK
<1>2. \A id \in DOMAIN faults' :
         /\ id \in DOMAIN faults
         /\ faults'[id] = IF id \in firing THEN AfterFiring(id) ELSE faults[id]
  BY DEF Request
<1>3. QED
  BY <1>1, <1>2 DEF OutageHasAnEnd, OutageIds

LEMMA CallsKeepEnds ==
    ASSUME OutageHasAnEnd, AdminCalls
    PROVE  OutageHasAnEnd'
<1>1. ASSUME NEW t \in Templates, Inject(t)
      PROVE  OutageHasAnEnd'
  <2>1. faults' = [id \in DOMAIN faults \cup {t.id} |->
                     IF id = t.id THEN Injected(t) ELSE faults[id]]
    BY <1>1 DEF Inject, WithFault, Injected
  <2>2. ~Injected(t).offline
    BY DEF Injected
  <2>3. QED
    BY <2>1, <2>2 DEF OutageHasAnEnd, OutageIds
<1>2. ASSUME NEW ids, Clear(ids)
      PROVE  OutageHasAnEnd'
  BY <1>2 DEF Clear, OutageHasAnEnd, OutageIds
<1>3. CASE Reset
  BY <1>3 DEF Reset, OutageHasAnEnd, OutageIds
<1>4. QED
  BY <1>1, <1>2, <1>3
     DEF AdminCalls, AdminWrite, Disconnect, Reconnect, OutageHasAnEnd, OutageIds

\* Every outage in force has a duration, given or by default, that has not yet
\* passed, whatever is injected, cleared or requested meanwhile
\* (faults/power.py:50, faults/__init__.py:243).
THEOREM OutagesEnd == Spec => []OutageHasAnEnd
<1>1. Init => OutageHasAnEnd
  BY DEF Init, OutageHasAnEnd, OutageIds
<1>2. TypeOK /\ OutageHasAnEnd /\ [Next]_vars => OutageHasAnEnd'
  <2> SUFFICES ASSUME TypeOK, OutageHasAnEnd, [Next]_vars PROVE OutageHasAnEnd'
    OBVIOUS
  <2>1. CASE Substeps
    BY <2>1, PoweredStepKeepsEnds, OfflineStepKeepsEnds, StepLengthsAreNatural DEF Substeps
  <2>2. CASE UNCHANGED vars
    BY <2>2 DEF vars, OutageHasAnEnd, OutageIds
  <2>3. QED
    BY <2>1, <2>2, StepCases, RequestKeepsEnds, CallsKeepEnds DEF AdminCalls
<1>3. QED
  BY <1>1, <1>2, FaultTypes, PTL DEF Spec

-----------------------------------------------------------------------------
CountInv == ActivationsAreFirings /\ CountsAreInReach /\ CountIsABudget

\* A fault that fires and is not spent has fired less often than its count.
LEMMA FiringKeepsBudget ==
    ASSUME TypeOK, CountInv, NEW firing, NEW id \in DOMAIN faults,
           FiredMore(firing) = history'.fired
    PROVE  LET f == IF id \in firing THEN AfterFiring(id) ELSE faults[id]
               n == history'.fired[id]
           IN  /\ f.activations = IF n < MaxActivations THEN n ELSE MaxActivations
               /\ f.count = faults[id].count
               /\ (~(id \in firing /\ Spent(f)) /\ f.count # Unlimited)
                    => n = 0 \/ n < f.count
<1> DEFINE old == history.fired[id]
           n   == history'.fired[id]
           a   == faults[id].activations
           c   == faults[id].count
<1>1. /\ id \in Ids /\ old \in 0..(MaxActivations + 1) /\ MaxActivations \in Nat \ {0}
      /\ faults[id] \in FaultType /\ c \in Limit
  BY FaultRegistryAssumption DEF TypeOK, HistoryType, FaultType
<1>2. /\ a = IF old < MaxActivations THEN old ELSE MaxActivations
      /\ c # Unlimited => c \in Nat /\ c <= MaxActivations
      /\ c # Unlimited => old = 0 \/ old < c
  BY <1>1 DEF CountInv, ActivationsAreFirings, CountsAreInReach, CountIsABudget, Limit
<1>3. CASE id \notin firing
  <2>1. n = old
    BY <1>1, <1>3 DEF FiredMore
  <2>2. QED
    BY <1>2, <1>3, <2>1
<1>4. CASE id \in firing
  <2>1. n = IF old < MaxActivations + 1 THEN old + 1 ELSE MaxActivations + 1
    BY <1>1, <1>4 DEF FiredMore, CountUpTo
  <2>2. /\ AfterFiring(id).activations = IF a < MaxActivations THEN a + 1 ELSE MaxActivations
        /\ AfterFiring(id).count = c
    BY <1>1, FiringKeepsFault DEF CountUpTo
  <2>3. AfterFiring(id).activations = IF n < MaxActivations THEN n ELSE MaxActivations
    BY <1>1, <1>2, <2>1, <2>2
  <2>4. (~Spent(AfterFiring(id)) /\ c # Unlimited) => n < c
    BY <1>1, <1>2, <2>1, <2>2, <2>3 DEF Spent
  <2>5. QED
    BY <1>4, <2>2, <2>3, <2>4
<1>5. QED
  BY <1>3, <1>4

\* A fault with a count is gone once it has fired that often since it was
\* injected, in sub-steps or on requests (faults/__init__.py:273).
THEOREM CountBudget == Spec => []CountIsABudget
<1>1. Init => CountInv
  BY DEF Init, CountInv, ActivationsAreFirings, CountsAreInReach, CountIsABudget
<1>2. TypeOK /\ CountInv /\ [Next]_vars => CountInv'
  <2> SUFFICES ASSUME TypeOK, CountInv, [Next]_vars PROVE CountInv'
    OBVIOUS
  <2> USE DEF CountInv, ActivationsAreFirings, CountsAreInReach, CountIsABudget
  <2>1. CASE Substeps
    <3>1. PICK dt \in StepLengths :
            \/ \E firing \in MayFire(SimIds \cap DOMAIN faults) : PoweredStep(dt, firing)
            \/ OfflineStep(dt)
      BY <2>1 DEF Substeps
    <3>2. ASSUME NEW firing, PoweredStep(dt, firing)
          PROVE  CountInv'
      <4> DEFINE fired == [id \in DOMAIN faults |->
                             IF id \in firing THEN AfterFiring(id) ELSE faults[id]]
                 left  == {id \in DOMAIN faults : /\ ~(id \in firing /\ Spent(fired[id]))
                                                  /\ ~Expired(Older(fired[id], dt))}
      <4>1. faults' = [id \in left |-> Older(fired[id], dt)]
        BY <3>2 DEF PoweredStep
      <4>2. history'.fired = FiredMore(firing)
        BY <3>2 DEF PoweredStep, TypeOK, HistoryType
      <4>3. \A id \in DOMAIN faults : fired[id] \in FaultType
        BY FiringKeepsFault DEF TypeOK
      <4>4. ASSUME NEW id \in left
            PROVE  /\ fired[id].activations =
                        IF history'.fired[id] < MaxActivations THEN history'.fired[id]
                                                               ELSE MaxActivations
                   /\ fired[id].count = faults[id].count
                   /\ fired[id].count # Unlimited
                        => history'.fired[id] = 0 \/ history'.fired[id] < fired[id].count
        <5> HIDE DEF CountInv, ActivationsAreFirings, CountsAreInReach, CountIsABudget
        <5>1. fired[id] = IF id \in firing THEN AfterFiring(id) ELSE faults[id]
          OBVIOUS
        <5>2. ~(id \in firing /\ Spent(fired[id]))
          OBVIOUS
        <5> HIDE DEF fired, left
        <5>3. id \in DOMAIN faults
          BY DEF left
        <5>4. QED
          BY <4>2, <5>1, <5>2, <5>3, FiringKeepsBudget
      <4> HIDE DEF fired
      <4>5. \A id \in left : /\ Older(fired[id], dt).activations = fired[id].activations
                             /\ Older(fired[id], dt).count = fired[id].count
        BY <4>3, AgeingKeepsFault, StepLengthsAreNatural
      <4>6. QED
        BY <4>1, <4>4, <4>5
    <3>3. CASE OfflineStep(dt)
      <4> DEFINE left == {id \in DOMAIN faults : ~Expired(Older(faults[id], dt))}
      <4>1. \A id \in left : /\ Older(faults[id], dt).activations = faults[id].activations
                             /\ Older(faults[id], dt).count = faults[id].count
        BY AgeingKeepsFault, StepLengthsAreNatural DEF TypeOK
      <4>2. \/ faults' = [id \in {} |-> FALSE]
            \/ faults' = [id \in left |-> Older(faults[id], dt)]
        BY <3>3 DEF OfflineStep
      <4>3. history'.fired = history.fired
        BY <3>3 DEF OfflineStep, TypeOK, HistoryType
      <4>4. QED
        BY <4>1, <4>2, <4>3
    <3>4. QED
      BY <3>1, <3>2, <3>3
  <2>2. ASSUME NEW firing \in SUBSET (RequestIds \cap DOMAIN faults), Request(firing)
        PROVE  CountInv'
    <3> DEFINE left == {id \in DOMAIN faults : ~(id \in firing /\ Spent(AfterFiring(id)))}
    <3>1. /\ faults' = [id \in left |-> IF id \in firing THEN AfterFiring(id) ELSE faults[id]]
          /\ history'.fired = FiredMore(firing)
      BY <2>2 DEF Request, Call
    <3>2. \A id \in left :
             LET f == IF id \in firing THEN AfterFiring(id) ELSE faults[id]
                 n == history'.fired[id]
             IN  /\ f.activations = IF n < MaxActivations THEN n ELSE MaxActivations
                 /\ f.count = faults[id].count
                 /\ f.count # Unlimited => n = 0 \/ n < f.count
      <4> HIDE DEF CountInv, ActivationsAreFirings, CountsAreInReach, CountIsABudget
      <4>1. QED
        BY <3>1, FiringKeepsBudget
    <3>3. QED
      BY <3>1, <3>2
  <2>3. ASSUME NEW t \in Templates, Inject(t)
        PROVE  CountInv'
    <3>1. /\ faults' = [id \in DOMAIN faults \cup {t.id} |->
                          IF id = t.id THEN Injected(t) ELSE faults[id]]
          /\ history'.fired = [history.fired EXCEPT ![t.id] = 0]
      BY <2>3 DEF Inject, WithFault, Injected, Call
    <3>2. /\ Injected(t).activations = 0 /\ Injected(t).count = t.count
          /\ t.count # Unlimited => t.count <= MaxActivations
          /\ MaxActivations \in Nat \ {0} /\ t.id \in Ids
      BY FaultRegistryAssumption, InjectedIsTyped DEF Injected
    <3>3. /\ history'.fired[t.id] = 0
          /\ \A id \in DOMAIN faults \ {t.id} : history'.fired[id] = history.fired[id]
      BY <3>1, <3>2 DEF TypeOK, HistoryType
    <3>4. QED
      BY <3>1, <3>2, <3>3
  <2>4. ASSUME NEW ids, Clear(ids)
        PROVE  CountInv'
    BY <2>4 DEF Clear, Call
  <2>5. CASE Reset
    BY <2>5 DEF Reset
  <2>6. CASE faults' = faults /\ history'.fired = history.fired
    BY <2>6
  <2>7. CASE AdminWrite \/ \E p \in Probes : Disconnect(p) \/ Reconnect(p)
    <3>1. faults' = faults /\ history'.fired = history.fired
      BY <2>7 DEF AdminWrite, Disconnect, Reconnect, Call
    <3>2. QED
      BY <2>6, <3>1
  <2>8. CASE UNCHANGED vars
    BY <2>6, <2>8 DEF vars
  <2>9. QED
    <3> HIDE DEF CountInv
    <3>1. QED
      BY <2>1, <2>2, <2>3, <2>4, <2>5, <2>7, <2>8, StepCases
<1>3. CountInv => CountIsABudget
  BY DEF CountInv
<1>4. QED
  BY <1>1, <1>2, <1>3, FaultTypes, PTL DEF Spec

-----------------------------------------------------------------------------
(* No reset on return is lost, where outages that ask for one outlast the   *)
(* sub-step they begin in.                                                  *)

OwedInv ==
    /\ FaultsComeFromTemplates /\ OutagesHaveBegun /\ ResetsCanBegin
    /\ OwedWasAsked /\ ResetIsNotLost

\* An outage lasts no longer than ages are counted, by default or as injected.
LEMMA LengthsAreBounded ==
    /\ \A t \in Templates : LengthOf(t) \in 0..MaxAge
    /\ \A id, duration : OutageLength(id, OutageLength(id, duration))
                           = OutageLength(id, duration)
<1>1. ASSUME NEW t \in Templates PROVE LengthOf(t) \in 0..MaxAge
  <2>1. /\ t.duration \in Limit
        /\ t.duration # Unlimited => t.duration <= MaxAge
    BY FaultRegistryAssumption DEF TemplateType
  <2>2. QED
    BY <2>1, FaultRegistryAssumption DEF LengthOf, OutageLength, Limit
<1>2. QED
  BY <1>1, FaultRegistryAssumption DEF OutageLength

LEMMA RegisteredLengthsAreBounded ==
    ASSUME FaultsComeFromTemplates, NEW id \in DOMAIN faults
    PROVE  OutageLength(id, faults[id].duration) \in 0..MaxAge
BY LengthsAreBounded DEF FaultsComeFromTemplates, ComesFrom

\* There is at most one outage beside a power fault that is none.
LEMMA TheOtherOutage ==
    ASSUME TypeOK, NEW id \in PowerIds \ OutageIds, NEW other \in OutageIds
    PROVE  OutageIds = {other}
BY DEF TypeOK, PowerIds

\* What a registered fault that asks for a reset owes to its template.
LEMMA AskingTemplate ==
    ASSUME ResetsOutlast, TypeOK, FaultsComeFromTemplates,
           NEW id \in DOMAIN faults, AsksForReset(id, faults[id])
    PROVE  /\ faults[id].chance = "always"
           /\ faults[id].count = Unlimited \/ faults[id].count > 1
           /\ \A other \in OutageIds \ {id} : \A first, last, dt \in StepLengths :
                 OutageLength(other, faults[other].duration)
                      + (IF faults[other].reset THEN 0 ELSE last) + dt
                   <= OutageLength(id, faults[id].duration) + first
<1>1. PICK t \in Templates : ComesFrom(id, t)
  BY DEF FaultsComeFromTemplates
<1>2. AsksForReset(t.id, t)
  BY <1>1 DEF ComesFrom, AsksForReset
<1>3. ASSUME NEW other \in OutageIds \ {id}, NEW first \in StepLengths,
             NEW last \in StepLengths, NEW dt \in StepLengths
      PROVE  OutageLength(other, faults[other].duration)
                  + (IF faults[other].reset THEN 0 ELSE last) + dt
               <= OutageLength(id, faults[id].duration) + first
  <2>1. other \in DOMAIN faults /\ other \in PowerIds
    BY DEF OutageIds, TypeOK
  <2>2. PICK u \in Templates : ComesFrom(other, u)
    BY <2>1 DEF FaultsComeFromTemplates
  <2>3. u.id \in PowerIds \ {t.id}
    BY <1>1, <2>1, <2>2 DEF ComesFrom
  <2>4. LengthOf(u) + (IF u.reset THEN 0 ELSE last) + dt <= LengthOf(t) + first
    BY <1>2, <2>3 DEF ResetsOutlast
  <2>5. QED
    BY <1>1, <2>2, <2>4 DEF ComesFrom
<1>4. QED
  BY <1>1, <1>2, <1>3 DEF ResetsOutlast, ComesFrom

\* An outage in force has not lasted for its length.
LEMMA InForceIsWithinLength ==
    ASSUME TypeOK, OutageHasAnEnd, NEW id \in OutageIds
    PROVE  faults[id].age < OutageLength(id, faults[id].duration)
BY DEF OutageHasAnEnd, OutageLength

\* A fault that waits for outages can still begin when one of them is taken away.
LEMMA TakenAwayLeavesRoom ==
    ASSUME ResetsOutlast, TypeOK, OutageHasAnEnd, OwedInv,
           NEW id \in DOMAIN faults \ OutageIds, AsksForReset(id, faults[id]),
           faults'[id] = faults[id],
           OutageIds' \subseteq OutageIds,
           \A other \in OutageIds' : faults'[other].age = faults[other].age
    PROVE  CanBegin(id)'
<1>1. CanBegin(id) /\ id \in PowerIds
  BY DEF OwedInv, ResetsCanBegin, AsksForReset
<1>2. CASE Powered
  BY <1>1, <1>2 DEF CanBegin, Powered, OutageIds
<1>3. CASE ~Powered
  <2>1. PICK other \in OutageIds, first \in StepLengths :
          faults[id].age + first <= faults[other].age
    BY <1>1, <1>3 DEF CanBegin
  <2>2. CASE other \in OutageIds'
    BY <1>1, <2>1, <2>2 DEF CanBegin
  <2>3. CASE other \notin OutageIds'
    <3>1. Powered'
      BY <1>1, <2>3, TheOtherOutage DEF Powered
    <3>2. ASSUME NEW dt \in StepLengths
          PROVE  faults[id].age + dt < OutageLength(id, faults[id].duration)
      <4>1. /\ faults[other].age \in Nat /\ faults[id].age \in Nat
            /\ first \in Nat /\ dt \in Nat
        BY FaultRegistryAssumption DEF TypeOK, FaultType, OutageIds
      <4>2. /\ OutageLength(other, faults[other].duration) \in Nat
            /\ OutageLength(id, faults[id].duration) \in Nat
        BY RegisteredLengthsAreBounded, FaultRegistryAssumption DEF OwedInv, OutageIds
      <4>3. faults[other].age < OutageLength(other, faults[other].duration)
        BY InForceIsWithinLength
      <4>4. OutageLength(other, faults[other].duration)
                 + (IF faults[other].reset THEN 0 ELSE first) + dt
              <= OutageLength(id, faults[id].duration) + first
        BY AskingTemplate DEF OwedInv
      <4>5. QED
        BY <2>1, <4>1, <4>2, <4>3, <4>4
    <3>3. QED
      BY <1>1, <3>1, <3>2 DEF CanBegin
  <2>4. QED
    BY <2>2, <2>3
<1>4. QED
  BY <1>2, <1>3

\* A firing leaves the length of an outage, and what a fault asked for.
LEMMA FiringKeepsTemplate ==
    ASSUME NEW id \in DOMAIN faults, faults[id] \in FaultType
    PROVE  /\ AfterFiring(id).count = faults[id].count
           /\ AfterFiring(id).chance = faults[id].chance
           /\ AfterFiring(id).reset = faults[id].reset
           /\ AfterFiring(id).age = faults[id].age
           /\ OutageLength(id, AfterFiring(id).duration) = OutageLength(id, faults[id].duration)
           /\ id \in PowerIds => /\ AfterFiring(id).offline
                                 /\ AfterFiring(id).duration
                                      = OutageLength(id, faults[id].duration)
<1> DEFINE f == [faults[id] EXCEPT !.activations = CountUpTo(@, MaxActivations)]
<1>1. /\ f.count = faults[id].count /\ f.chance = faults[id].chance
      /\ f.reset = faults[id].reset /\ f.age = faults[id].age
      /\ f.duration = faults[id].duration
      /\ f = [f EXCEPT !.activations = f.activations]
      /\ DOMAIN f = {"duration", "count", "chance", "reset", "probe", "offline", "age",
                     "activations"}
  BY DEF FaultType
<1> HIDE DEF f
<1>2. CASE id \in PowerIds
  <2>1. AfterFiring(id) = [f EXCEPT !.offline = TRUE, !.duration = OutageLength(id, @)]
    BY <1>2 DEF AfterFiring, f
  <2>2. QED
    BY <1>1, <2>1, LengthsAreBounded
<1>3. CASE id \notin PowerIds
  <2>1. AfterFiring(id) = f
    BY <1>3 DEF AfterFiring, f
  <2>2. QED
    BY <1>1, <1>3, <2>1
<1>4. QED
  BY <1>2, <1>3

\* Growing older leaves what the template said, and counts at most the sub-step.
LEMMA AgeingKeepsTemplate ==
    ASSUME NEW f \in FaultType, NEW dt \in StepLengths
    PROVE  /\ Older(f, dt).chance = f.chance /\ Older(f, dt).reset = f.reset
           /\ Older(f, dt).age \in Nat
           /\ Older(f, dt).age <= f.age + dt
           /\ Older(f, dt).age >= f.age
           /\ Older(f, dt).age < MaxAge => Older(f, dt).age = f.age + dt
<1>1. dt \in Nat \ {0} /\ MaxAge \in Nat /\ f.age \in 0..MaxAge
  BY FaultRegistryAssumption DEF FaultType
<1>2. /\ Older(f, dt).chance = f.chance /\ Older(f, dt).reset = f.reset
      /\ Older(f, dt).age = IF f.age + dt < MaxAge THEN f.age + dt ELSE MaxAge
  BY DEF Older, FaultType
<1>3. QED
  BY <1>1, <1>2

\* In a sub-step with the power on every fault that asks for a reset begins its
\* outage, and outlasts the sub-step.
LEMMA PoweredStepKeepsOwed ==
    ASSUME ResetsOutlast, TypeOK, OwedInv, NEW dt \in StepLengths,
           NEW firing \in MayFire(SimIds \cap DOMAIN faults), PoweredStep(dt, firing),
           TypeOK', OutageHasAnEnd'
    PROVE  OwedInv'
<1> DEFINE fired == [id \in DOMAIN faults |->
                       IF id \in firing THEN AfterFiring(id) ELSE faults[id]]
           left  == {id \in DOMAIN faults : /\ ~(id \in firing /\ Spent(fired[id]))
                                            /\ ~Expired(Older(fired[id], dt))}
<1>1. faults' = [id \in left |-> Older(fired[id], dt)] /\ Powered
  BY DEF PoweredStep
<1>2. firing \subseteq DOMAIN faults
  BY DEF MayFire
<1>3. ASSUME NEW id \in DOMAIN faults
      PROVE  /\ fired[id] \in FaultType
             /\ fired[id].count = faults[id].count
             /\ fired[id].chance = faults[id].chance
             /\ fired[id].reset = faults[id].reset
             /\ fired[id].age = faults[id].age
             /\ OutageLength(id, fired[id].duration) = OutageLength(id, faults[id].duration)
             /\ fired[id].offline <=> id \in firing /\ id \in PowerIds
  <2>1. faults[id] \in FaultType /\ ~faults[id].offline
    BY <1>1 DEF TypeOK, Powered, OutageIds
  <2>2. CASE id \in firing
    BY <2>1, <2>2, FiringKeepsFault, FiringKeepsTemplate
  <2>3. CASE id \notin firing
    BY <2>1, <2>3
  <2>4. QED
    BY <2>2, <2>3
<1>4. ASSUME NEW id \in firing \cap PowerIds, faults[id].reset
      PROVE  id \in left
  <2>1. id \in DOMAIN faults /\ faults[id].chance # "never"
    BY <1>2 DEF MayFire
  <2>2. AsksForReset(id, faults[id]) /\ id \notin OutageIds
    BY <1>1, <1>4, <2>1 DEF AsksForReset, Powered
  <2>3. /\ faults[id].activations = 0
        /\ faults[id].age + dt < OutageLength(id, faults[id].duration)
    BY <1>1, <2>1, <2>2 DEF OwedInv, ResetsCanBegin, CanBegin, Powered
  <2>4. faults[id].count = Unlimited \/ faults[id].count > 1
    BY <2>1, <2>2, AskingTemplate DEF OwedInv
  <2>5. fired[id] = AfterFiring(id) /\ AfterFiring(id).activations = 1
    <3>1. CountUpTo(0, MaxActivations) = 1
      BY FaultRegistryAssumption DEF CountUpTo
    <3>2. QED
      BY <2>1, <2>3, <3>1, FiringKeepsFault DEF TypeOK
  <2>6. ~Spent(fired[id])
    <3>1. faults[id].count = Unlimited \/ faults[id].count \in Nat
      BY <2>1 DEF TypeOK, FaultType, Limit
    <3>2. QED
      BY <1>3, <2>1, <2>4, <2>5, <3>1 DEF Spent
  <2>7. fired[id].duration = OutageLength(id, faults[id].duration)
    BY <2>1, <2>5, FiringKeepsTemplate DEF TypeOK
  <2> HIDE DEF fired
  <2>8. /\ Older(fired[id], dt).age <= faults[id].age + dt
        /\ Older(fired[id], dt).age \in Nat
        /\ Older(fired[id], dt).duration = OutageLength(id, faults[id].duration)
    BY <1>3, <2>1, <2>7, AgeingKeepsFault, AgeingKeepsTemplate, StepLengthsAreNatural
  <2>9. OutageLength(id, faults[id].duration) \in Nat /\ faults[id].age \in Nat /\ dt \in Nat
    BY <2>1, RegisteredLengthsAreBounded, FaultRegistryAssumption DEF OwedInv, TypeOK, FaultType
  <2>10. ~Expired(Older(fired[id], dt))
    BY <2>3, <2>8, <2>9 DEF Expired
  <2>11. QED
    BY <2>1, <2>6, <2>10
<1> HIDE DEF fired
<1>5. ASSUME NEW id \in left
      PROVE  /\ id \in DOMAIN faults
             /\ faults'[id].count = faults[id].count
             /\ faults'[id].chance = faults[id].chance
             /\ faults'[id].reset = faults[id].reset
             /\ OutageLength(id, faults'[id].duration) = OutageLength(id, faults[id].duration)
             /\ faults'[id].offline <=> id \in firing /\ id \in PowerIds
  <2>1. id \in DOMAIN faults /\ faults'[id] = Older(fired[id], dt)
    BY <1>1
  <2>2. fired[id] \in FaultType
    BY <1>3, <2>1
  <2>3. /\ faults'[id].count = fired[id].count
        /\ faults'[id].offline = fired[id].offline
        /\ faults'[id].duration = fired[id].duration
    BY <2>1, <2>2, AgeingKeepsFault, StepLengthsAreNatural
  <2>4. faults'[id].chance = fired[id].chance /\ faults'[id].reset = fired[id].reset
    BY <2>1, <2>2, AgeingKeepsTemplate
  <2>5. QED
    BY <1>3, <2>1, <2>3, <2>4
<1>6. DOMAIN faults' = left
  BY <1>1
<1> HIDE DEF left
<1>7. FaultsComeFromTemplates'
  BY <1>5, <1>6 DEF OwedInv, FaultsComeFromTemplates, ComesFrom
<1>8. OutagesHaveBegun'
  <2> SUFFICES ASSUME NEW id \in OutageIds' PROVE dt <= faults'[id].age
    BY DEF OutagesHaveBegun
  <2>1. id \in left /\ id \in DOMAIN faults
    BY <1>5, <1>6 DEF OutageIds
  <2>2. faults'[id].age < OutageLength(id, faults'[id].duration)
    BY DEF OutageHasAnEnd, OutageLength
  <2>3. OutageLength(id, faults'[id].duration) \in 0..MaxAge
    BY <1>5, <2>1, RegisteredLengthsAreBounded DEF OwedInv
  <2>4. faults'[id].age = faults[id].age + dt
    <3>1. faults'[id].age = Older(fired[id], dt).age
      BY <1>1, <2>1
    <3>2. Older(fired[id], dt).age \in Nat /\ MaxAge \in Nat
      BY <1>3, <2>1, AgeingKeepsTemplate, FaultRegistryAssumption
    <3>3. Older(fired[id], dt).age < MaxAge
      BY <2>2, <2>3, <3>1, <3>2
    <3>4. QED
      BY <1>3, <2>1, <3>1, <3>3, AgeingKeepsTemplate
  <2>5. QED
    BY <2>1, <2>4, FaultRegistryAssumption DEF TypeOK, FaultType
<1>9. ResetsCanBegin'
  <2> SUFFICES ASSUME NEW id \in DOMAIN faults' \ OutageIds', AsksForReset(id, faults'[id])
               PROVE  FALSE
    BY DEF ResetsCanBegin
  <2>1. id \in left /\ id \in DOMAIN faults /\ id \notin firing /\ id \in PowerIds
    BY <1>5, <1>6 DEF OutageIds, AsksForReset
  <2>2. AsksForReset(id, faults[id])
    BY <1>5, <2>1 DEF AsksForReset
  <2>3. faults[id].chance = "always"
    BY <2>1, <2>2, AskingTemplate DEF OwedInv
  <2>4. id \in firing
    BY <2>1, <2>3 DEF MayFire, SimIds
  <2>5. QED
    BY <2>1, <2>4
<1>10. history'.owed = {id \in firing \cap PowerIds : faults[id].reset}
  BY DEF PoweredStep, TypeOK, HistoryType
<1>11. OwedWasAsked'
  BY <1>5, <1>6, <1>10 DEF OwedWasAsked
<1>12. ResetIsNotLost'
  BY <1>4, <1>5, <1>6, <1>10 DEF ResetIsNotLost, OutageIds
<1>13. QED
  BY <1>7, <1>8, <1>9, <1>11, <1>12 DEF OwedInv

\* The same in an outage: what still waits for its end finds it within reach, and
\* what is owed is not over unless the device is reset.
LEMMA OfflineStepKeepsOwed ==
    ASSUME ResetsOutlast, TypeOK, OutageHasAnEnd, OwedInv, NEW dt \in StepLengths,
           OfflineStep(dt), OutageHasAnEnd'
    PROVE  OwedInv'
<1> DEFINE left == {id \in DOMAIN faults : ~Expired(Older(faults[id], dt))}
<1>1. CASE ResetsOnReturn(left)
  <2>1. faults' = [id \in {} |-> FALSE] /\ history'.owed = {}
    BY <1>1 DEF OfflineStep, TypeOK, HistoryType
  <2>2. QED
    BY <2>1 DEF OwedInv, FaultsComeFromTemplates, OutagesHaveBegun, ResetsCanBegin,
                OwedWasAsked, ResetIsNotLost, OutageIds
<1>2. CASE ~ResetsOnReturn(left)
  <2>1. /\ faults' = [id \in left |-> Older(faults[id], dt)]
        /\ history' = history /\ ~Powered
    BY <1>2 DEF OfflineStep
  <2>2. ASSUME NEW id \in left
        PROVE  /\ id \in DOMAIN faults /\ faults[id] \in FaultType
               /\ faults[id].age \in Nat /\ faults'[id].age \in Nat
               /\ faults'[id].count = faults[id].count
               /\ faults'[id].chance = faults[id].chance
               /\ faults'[id].reset = faults[id].reset
               /\ faults'[id].duration = faults[id].duration
               /\ faults'[id].offline = faults[id].offline
               /\ faults'[id].activations = faults[id].activations
               /\ faults'[id].age >= faults[id].age
               /\ faults'[id].age <= faults[id].age + dt
               /\ faults'[id].age < MaxAge => faults'[id].age = faults[id].age + dt
    <3>1. id \in DOMAIN faults /\ faults'[id] = Older(faults[id], dt)
      BY <2>1
    <3>2. faults[id] \in FaultType /\ faults[id].age \in Nat
      BY <3>1 DEF TypeOK, FaultType
    <3>3. /\ faults'[id].count = faults[id].count
          /\ faults'[id].duration = faults[id].duration
          /\ faults'[id].offline = faults[id].offline
          /\ faults'[id].activations = faults[id].activations
      BY <3>1, <3>2, AgeingKeepsFault, StepLengthsAreNatural
    <3>4. /\ faults'[id].chance = faults[id].chance
          /\ faults'[id].reset = faults[id].reset
          /\ faults'[id].age \in Nat
          /\ faults'[id].age >= faults[id].age
          /\ faults'[id].age <= faults[id].age + dt
          /\ faults'[id].age < MaxAge => faults'[id].age = faults[id].age + dt
      BY <3>1, <3>2, AgeingKeepsTemplate
    <3>5. QED
      BY <3>1, <3>2, <3>3, <3>4
  <2>3. DOMAIN faults' = left
    BY <2>1
  <2>4. \A id \in OutageIds \ left : ~faults[id].reset
    BY <1>2 DEF ResetsOnReturn
  <2>5. left \subseteq DOMAIN faults
    OBVIOUS
  <2> HIDE DEF left
  <2>6. OutageIds' = OutageIds \cap left
    BY <2>2, <2>3, <2>5 DEF OutageIds
  <2>7. FaultsComeFromTemplates'
    BY <2>2, <2>3 DEF OwedInv, FaultsComeFromTemplates, ComesFrom
  <2>8. OutagesHaveBegun'
    <3> SUFFICES ASSUME NEW id \in OutageIds'
                 PROVE  \E first \in StepLengths : first <= faults'[id].age
      BY DEF OutagesHaveBegun
    <3>1. PICK first \in StepLengths : first <= faults[id].age
      BY <2>6 DEF OwedInv, OutagesHaveBegun
    <3>2. first \in Nat
      BY FaultRegistryAssumption
    <3>3. QED
      BY <2>2, <2>6, <3>1, <3>2
  <2>9. ResetsCanBegin'
    <3> SUFFICES ASSUME NEW id \in DOMAIN faults' \ OutageIds', AsksForReset(id, faults'[id])
                 PROVE  CanBegin(id)'
      BY DEF ResetsCanBegin
    <3>1. id \in left /\ id \in DOMAIN faults \ OutageIds
      BY <2>2, <2>3, <2>6
    <3>2. AsksForReset(id, faults[id]) /\ id \in PowerIds
      BY <2>2, <3>1 DEF AsksForReset
    <3>3. /\ faults'[id].activations = 0
          /\ \E other \in OutageIds, first \in StepLengths :
                faults[id].age + first <= faults[other].age
      BY <2>1, <2>2, <3>1, <3>2 DEF OwedInv, ResetsCanBegin, CanBegin
    <3>4. PICK other \in OutageIds, first \in StepLengths :
            faults[id].age + first <= faults[other].age
      BY <3>3
    <3>5. /\ faults[other].age \in Nat /\ faults[id].age \in Nat /\ faults'[id].age \in Nat
          /\ first \in Nat /\ dt \in Nat /\ MaxAge \in Nat
      BY <2>2, <3>1, FaultRegistryAssumption DEF TypeOK, FaultType, OutageIds
    <3>6. /\ OutageLength(other, faults[other].duration) \in 0..MaxAge
          /\ OutageLength(id, faults[id].duration) \in Nat
      BY <3>1, RegisteredLengthsAreBounded, FaultRegistryAssumption DEF OwedInv, OutageIds
    <3>7. CASE other \in left
      <4>1. other \in OutageIds'
        BY <2>6, <3>7
      <4>2. faults'[other].age < OutageLength(other, faults'[other].duration)
        BY <4>1 DEF OutageHasAnEnd, OutageLength
      <4>3. faults'[other].age = faults[other].age + dt
        BY <2>2, <3>5, <3>6, <3>7, <4>2
      <4>4. faults'[id].age <= faults[id].age + dt
        BY <2>2, <3>1
      <4>5. faults'[id].age + first <= faults'[other].age
        BY <3>4, <3>5, <4>3, <4>4
      <4>6. QED
        BY <3>3, <4>1, <4>5 DEF CanBegin
    <3>8. CASE other \notin left
      <4>1. Powered'
        BY <2>6, <3>1, <3>2, <3>8, TheOtherOutage DEF Powered
      <4>2. ASSUME NEW next \in StepLengths
            PROVE  faults'[id].age + next < OutageLength(id, faults'[id].duration)
        <5>1. faults[other].age < OutageLength(other, faults[other].duration)
          BY InForceIsWithinLength
        <5>2. OutageLength(other, faults[other].duration) + dt + next
                <= OutageLength(id, faults[id].duration) + first
          <6>1. OutageLength(other, faults[other].duration)
                     + (IF faults[other].reset THEN 0 ELSE dt) + next
                  <= OutageLength(id, faults[id].duration) + first
            BY <3>1, <3>2, AskingTemplate DEF OwedInv
          <6>2. QED
            BY <2>4, <3>8, <6>1
        <5>3. /\ faults'[id].age <= faults[id].age + dt
              /\ faults'[id].duration = faults[id].duration /\ next \in Nat
          BY <2>2, <3>1, FaultRegistryAssumption
        <5>4. QED
          BY <3>4, <3>5, <3>6, <5>1, <5>2, <5>3
      <4>3. QED
        BY <3>3, <4>1, <4>2 DEF CanBegin
    <3>9. QED
      BY <3>7, <3>8
  <2>10. OwedWasAsked'
    BY <2>1, <2>2, <2>3 DEF OwedInv, OwedWasAsked
  <2>11. ResetIsNotLost'
    <3>1. \A id \in history.owed : id \in OutageIds /\ faults[id].reset
      BY DEF OwedInv, ResetIsNotLost, OwedWasAsked, OutageIds
    <3>2. QED
      BY <2>1, <2>4, <2>6, <3>1 DEF ResetIsNotLost
  <2>12. QED
    BY <2>7, <2>8, <2>9, <2>10, <2>11 DEF OwedInv
<1>3. QED
  BY <1>1, <1>2

\* Calls and requests: injecting, clearing and resetting take outages away, with
\* what they owe.
LEMMA CallsKeepOwed ==
    ASSUME ResetsOutlast, TypeOK, OutageHasAnEnd, OwedInv, AdminCalls
    PROVE  OwedInv'
<1> USE DEF OwedInv
<1>1. ASSUME NEW t \in Templates, Inject(t)
      PROVE  OwedInv'
  <2>1. /\ faults' = [id \in DOMAIN faults \cup {t.id} |->
                        IF id = t.id THEN Injected(t) ELSE faults[id]]
        /\ history'.owed = history.owed \ {t.id}
    BY <1>1 DEF Inject, WithFault, Injected, Call
  <2>2. /\ Injected(t).count = t.count /\ Injected(t).chance = t.chance
        /\ Injected(t).reset = t.reset /\ Injected(t).duration = t.duration
        /\ Injected(t).age = 0 /\ Injected(t).activations = 0 /\ ~Injected(t).offline
    BY DEF Injected
  <2>3. OutageIds' = OutageIds \ {t.id}
    BY <2>1, <2>2 DEF OutageIds
  <2>4. \A id \in DOMAIN faults \ {t.id} : id \in DOMAIN faults' /\ faults'[id] = faults[id]
    BY <2>1
  <2>5. DOMAIN faults' = DOMAIN faults \cup {t.id} /\ faults'[t.id] = Injected(t)
    BY <2>1
  <2>6. FaultsComeFromTemplates'
    <3>1. ComesFrom(t.id, t)'
      BY <2>2, <2>5 DEF ComesFrom, LengthOf
    <3>2. QED
      BY <2>4, <2>5, <3>1 DEF FaultsComeFromTemplates, ComesFrom
  <2>7. OutagesHaveBegun'
    BY <2>3, <2>4 DEF OutagesHaveBegun, OutageIds
  <2>8. ResetsCanBegin'
    <3> SUFFICES ASSUME NEW id \in DOMAIN faults' \ OutageIds', AsksForReset(id, faults'[id])
                 PROVE  CanBegin(id)'
      BY DEF ResetsCanBegin
    <3>1. CASE id = t.id
      <4>1. faults'[id].activations = 0 /\ faults'[id].age = 0
        BY <2>2, <2>5, <3>1
      <4>2. CASE Powered'
        <5>1. AsksForReset(t.id, t)
          BY <2>2, <2>5, <3>1 DEF AsksForReset
        <5>2. \A dt \in StepLengths : dt < OutageLength(id, faults'[id].duration)
          BY <2>2, <2>5, <3>1, <5>1 DEF ResetsOutlast, LengthOf
        <5>3. \A dt \in StepLengths : 0 + dt = dt
          BY FaultRegistryAssumption
        <5>4. QED
          BY <4>1, <4>2, <5>2, <5>3 DEF CanBegin
      <4>3. CASE ~Powered'
        <5>1. PICK other : other \in OutageIds' /\ other \in OutageIds
          BY <2>3, <4>3 DEF Powered
        <5>2. PICK first \in StepLengths : first <= faults[other].age
          BY <5>1 DEF OutagesHaveBegun
        <5>3. faults'[other] = faults[other]
          BY <2>3, <2>4, <5>1 DEF OutageIds
        <5>4. 0 + first = first
          BY FaultRegistryAssumption
        <5>5. QED
          BY <4>1, <5>1, <5>2, <5>3, <5>4 DEF CanBegin
      <4>4. QED
        BY <4>2, <4>3
    <3>2. CASE id # t.id
      <4>1. /\ id \in DOMAIN faults \ OutageIds
            /\ faults'[id] = faults[id]
        BY <2>3, <2>4, <2>5, <3>2
      <4>2. \A other \in OutageIds' : faults'[other].age = faults[other].age
        BY <2>3, <2>4 DEF OutageIds
      <4>3. AsksForReset(id, faults[id])
        BY <4>1
      <4>4. QED
        BY <2>3, <4>1, <4>2, <4>3, TakenAwayLeavesRoom
    <3>3. QED
      BY <3>1, <3>2
  <2>9. OwedWasAsked' /\ ResetIsNotLost'
    BY <2>1, <2>3, <2>4, <2>5 DEF OwedWasAsked, ResetIsNotLost
  <2>10. QED
    BY <2>6, <2>7, <2>8, <2>9
<1>2. ASSUME NEW ids, Clear(ids)
      PROVE  OwedInv'
  <2>1. /\ faults' = [id \in DOMAIN faults \ ids |-> faults[id]]
        /\ history'.owed = history.owed \ ids
    BY <1>2 DEF Clear, Call
  <2>2. /\ DOMAIN faults' = DOMAIN faults \ ids
        /\ \A id \in DOMAIN faults' : faults'[id] = faults[id]
    BY <2>1
  <2>3. OutageIds' = OutageIds \ ids
    BY <2>2 DEF OutageIds
  <2>4. FaultsComeFromTemplates'
    BY <2>2 DEF FaultsComeFromTemplates, ComesFrom
  <2>5. OutagesHaveBegun'
    BY <2>2, <2>3 DEF OutagesHaveBegun, OutageIds
  <2>6. ResetsCanBegin'
    <3> SUFFICES ASSUME NEW id \in DOMAIN faults' \ OutageIds', AsksForReset(id, faults'[id])
                 PROVE  CanBegin(id)'
      BY DEF ResetsCanBegin
    <3>1. id \in DOMAIN faults \ OutageIds /\ faults'[id] = faults[id]
      BY <2>2, <2>3
    <3>2. \A other \in OutageIds' : faults'[other].age = faults[other].age
      BY <2>2 DEF OutageIds
    <3>3. AsksForReset(id, faults[id])
      BY <3>1
    <3>4. QED
      BY <2>3, <3>1, <3>2, <3>3, TakenAwayLeavesRoom
  <2>7. OwedWasAsked' /\ ResetIsNotLost'
    BY <2>1, <2>2, <2>3 DEF OwedWasAsked, ResetIsNotLost
  <2>8. QED
    BY <2>4, <2>5, <2>6, <2>7
<1>3. CASE Reset
  <2>1. faults' = [id \in {} |-> FALSE] /\ history'.owed = {}
    BY <1>3 DEF Reset, Call
  <2>2. QED
    BY <2>1 DEF FaultsComeFromTemplates, OutagesHaveBegun, ResetsCanBegin, OwedWasAsked,
                ResetIsNotLost, OutageIds
<1>4. CASE AdminWrite \/ \E p \in Probes : Disconnect(p) \/ Reconnect(p)
  <2>1. faults' = faults /\ history'.owed = history.owed
    BY <1>4 DEF AdminWrite, Disconnect, Reconnect, Call
  <2>2. QED
    BY <2>1 DEF FaultsComeFromTemplates, ComesFrom, OutagesHaveBegun, ResetsCanBegin, CanBegin,
                Powered, OwedWasAsked, ResetIsNotLost, OutageIds
<1>5. QED
  BY <1>1, <1>2, <1>3, <1>4 DEF AdminCalls

\* A request fires no power fault.
LEMMA RequestKeepsOwed ==
    ASSUME TypeOK, OwedInv, NEW firing \in SUBSET (RequestIds \cap DOMAIN faults),
           Request(firing)
    PROVE  OwedInv'
<1> DEFINE left == {id \in DOMAIN faults : ~(id \in firing /\ Spent(AfterFiring(id)))}
<1>1. /\ faults' = [id \in left |-> IF id \in firing THEN AfterFiring(id) ELSE faults[id]]
      /\ history'.owed = history.owed
  BY DEF Request, Call
<1>2. firing \cap PowerIds = {} /\ firing \subseteq DOMAIN faults
  BY FaultRegistryAssumption DEF SimIds
<1>3. ASSUME NEW id \in left
      PROVE  /\ id \in DOMAIN faults
             /\ faults'[id].count = faults[id].count
             /\ faults'[id].chance = faults[id].chance
             /\ faults'[id].reset = faults[id].reset
             /\ faults'[id].offline = faults[id].offline
             /\ OutageLength(id, faults'[id].duration) = OutageLength(id, faults[id].duration)
             /\ id \in PowerIds => faults'[id] = faults[id]
  <2>1. id \in DOMAIN faults /\ faults[id] \in FaultType
    BY DEF TypeOK
  <2>2. CASE id \in firing
    <3>1. faults'[id] = AfterFiring(id)
      BY <1>1, <2>2
    <3>2. QED
      BY <1>2, <2>1, <2>2, <3>1, FiringKeepsFault, FiringKeepsTemplate
  <2>3. CASE id \notin firing
    BY <1>1, <2>1, <2>3
  <2>4. QED
    BY <2>2, <2>3
<1>4. DOMAIN faults' = left /\ left \subseteq DOMAIN faults
  BY <1>1
<1>5. PowerIds \cap DOMAIN faults \subseteq left
  BY <1>2
<1> HIDE DEF left
<1>6. OutageIds' = OutageIds /\ OutageIds \subseteq PowerIds
  BY <1>3, <1>4, <1>5 DEF OutageIds, TypeOK
<1>7. FaultsComeFromTemplates'
  BY <1>3, <1>4 DEF OwedInv, FaultsComeFromTemplates, ComesFrom
<1>8. \A id \in OutageIds : faults'[id] = faults[id]
  BY <1>3, <1>4, <1>5, <1>6 DEF OutageIds
<1>9. OutagesHaveBegun'
  BY <1>6, <1>8 DEF OwedInv, OutagesHaveBegun
<1>10. ResetsCanBegin'
  <2> SUFFICES ASSUME NEW id \in DOMAIN faults' \ OutageIds', AsksForReset(id, faults'[id])
               PROVE  CanBegin(id)'
    BY DEF ResetsCanBegin
  <2>1. /\ id \in DOMAIN faults \ OutageIds /\ faults'[id] = faults[id]
        /\ AsksForReset(id, faults[id])
    BY <1>3, <1>4, <1>6 DEF AsksForReset
  <2>2. CanBegin(id)
    BY <2>1 DEF OwedInv, ResetsCanBegin
  <2>3. QED
    BY <1>6, <1>8, <2>1, <2>2 DEF CanBegin, Powered
<1>11. OwedWasAsked' /\ ResetIsNotLost'
  BY <1>1, <1>3, <1>4, <1>6 DEF OwedInv, OwedWasAsked, ResetIsNotLost
<1>12. QED
  BY <1>7, <1>9, <1>10, <1>11 DEF OwedInv

\* Where the outages that ask for a factory reset outlast the sub-step they begin
\* in, none of them ends without it, however outages overlap and whatever is
\* injected, cleared or requested meanwhile (power.py:57, simulation.py:567).
THEOREM ResetsAreHad ==
    ASSUME ResetsOutlast
    PROVE  Spec => []ResetIsNotLost
<1>1. Init => OwedInv
  BY DEF Init, OwedInv, FaultsComeFromTemplates, OutagesHaveBegun, ResetsCanBegin,
         OwedWasAsked, ResetIsNotLost, OutageIds
<1>2. (/\ TypeOK /\ OutageHasAnEnd /\ OwedInv /\ [Next]_vars
       /\ TypeOK' /\ OutageHasAnEnd') => OwedInv'
  <2> SUFFICES ASSUME TypeOK, OutageHasAnEnd, OwedInv, [Next]_vars, TypeOK', OutageHasAnEnd'
               PROVE  OwedInv'
    OBVIOUS
  <2>1. CASE Substeps
    BY <2>1, PoweredStepKeepsOwed, OfflineStepKeepsOwed DEF Substeps
  <2>2. CASE AdminCalls
    BY <2>2, CallsKeepOwed
  <2>3. CASE UNCHANGED vars
    BY <2>3 DEF vars, OwedInv, FaultsComeFromTemplates, ComesFrom, OutagesHaveBegun,
                ResetsCanBegin, CanBegin, Powered, OwedWasAsked, ResetIsNotLost, OutageIds
  <2>4. QED
    BY <2>1, <2>2, <2>3, StepCases, RequestKeepsOwed DEF AdminCalls
<1>3. OwedInv => ResetIsNotLost
  BY DEF OwedInv
<1>4. QED
  BY <1>1, <1>2, <1>3, FaultTypes, OutagesEnd, PTL DEF Spec
=============================================================================
