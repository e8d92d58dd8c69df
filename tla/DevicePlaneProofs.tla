------------------------- MODULE DevicePlaneProofs -------------------------
(***************************************************************************)
(* Proofs about the device plane, for any finite set of requests, any cap  *)
(* and any registry: that the connection counter is the number of tasks    *)
(* under way, that net.conn_cap is a cap and whom it refuses, that the     *)
(* journal counts each request and shows the latest, and that what is      *)
(* proved of the registry alone holds under the plane.                     *)
(***************************************************************************)
EXTENDS DevicePlane, FaultRegistryProofs, FiniteSetTheorems, SequenceTheorems

\* Every step of the device plane is one of the registry, or leaves it alone: the
\* plane is built that way, which is what carries the registry's theorems over.
LEMMA PlaneStepsRegistry == PlaneSpec => Spec
<1>1. PlaneInit => Init
  BY DEF PlaneInit
<1>2. [PlaneNext]_<<vars, planeVars>> => [Next]_vars
  <2> SUFFICES ASSUME PlaneNext PROVE [Next]_vars
    OBVIOUS
  <2>1. CASE Substeps \/ AdminCalls
    BY <2>1 DEF Next
  <2>2. ASSUME NEW r \in Requests, NEW firing \in RequestFirings,
               Arrive(r, firing) \/ BodyArrives(r, firing)
        PROVE  Next
    BY <2>2 DEF Arrive, BodyArrives, Handle, Next
  <2>6. ASSUME NEW r \in Requests, ArriveAndFail(r) \/ BodyArrivesAndFails(r)
        PROVE  Next
    <3>1. {} \in MayFire({})
      BY DEF MayFire
    <3>2. {} \in RequestFirings
      BY <3>1 DEF RequestFirings
    <3>3. QED
      BY <2>6, <3>2 DEF ArriveAndFail, BodyArrivesAndFails, Fail, Next
  <2>3. ASSUME NEW r \in Requests, Resume(r) \/ FinishDrip(r)
        PROVE  UNCHANGED vars
    BY <2>3 DEF Resume, FinishDrip, Finish
  <2>4. ASSUME NEW r \in Requests, ArrivePartly(r) \/ ArriveInOutage(r) \/ GiveUp(r)
        PROVE  UNCHANGED vars
    BY <2>4 DEF ArrivePartly, ArriveInOutage, GiveUp
  <2>5. CASE ClearJournal
    BY <2>5 DEF ClearJournal
  <2>7. QED
    BY <2>1, <2>2, <2>3, <2>4, <2>5, <2>6 DEF PlaneNext
<1>3. QED
  BY <1>1, <1>2, PTL DEF PlaneSpec, Spec

\* So what holds of the registry alone holds under concurrent requests: a count
\* is a budget however requests and sub-steps interleave (faults/__init__.py:273).
THEOREM PlaneKeepsBudget == PlaneSpec => []CountIsABudget
BY PlaneStepsRegistry, CountBudget, PTL

\* So does what is said of outages: whatever requests do meanwhile, one whose
\* body comes during the outage included, each has an end, and none that outlasts
\* its first sub-step loses the reset it owes (web/device_faults.py:73).
THEOREM PlaneKeepsOutages ==
    ASSUME ResetsOutlast
    PROVE  PlaneSpec => [](OutageHasAnEnd /\ ResetIsNotLost)
BY PlaneStepsRegistry, OutagesEnd, ResetsAreHad, PTL

-----------------------------------------------------------------------------
\* The counter when one request starts or ends, or none does.
LEMMA LiveIsFinite == IsFiniteSet(Live) /\ Cardinality(Live) \in Nat
BY DevicePlaneAssumption, FS_Subset, FS_CardinalityType DEF Live

LEMMA OneStarts ==
    ASSUME OpenConnsAreTasks, NEW r \in Requests, r \notin Live,
           Live' = Live \cup {r}, openConns' = openConns + 1
    PROVE  OpenConnsAreTasks'
BY LiveIsFinite, FS_AddElement DEF OpenConnsAreTasks

LEMMA OneEnds ==
    ASSUME OpenConnsAreTasks, NEW r \in Live,
           Live' = Live \ {r}, openConns' = openConns - 1
    PROVE  OpenConnsAreTasks'
BY LiveIsFinite, FS_RemoveElement DEF OpenConnsAreTasks

LEMMA NoneStartsOrEnds ==
    ASSUME OpenConnsAreTasks, Live' = Live, openConns' = openConns
    PROVE  OpenConnsAreTasks'
BY DEF OpenConnsAreTasks

\* Handling a request counts it exactly while it is under way, if `open` is the
\* number of the others and one.
LEMMA HandlingCounts ==
    ASSUME PlaneTypeOK, NEW r \in Requests, NEW firing, NEW open \in Nat,
           open = Cardinality(Live \cup {r}), Handle(r, firing, open)
    PROVE  /\ OpenConnsAreTasks'
           /\ Live' = IF StageAfter(firing, open) \in LiveStages THEN Live \cup {r}
                                                                 ELSE Live \ {r}
<1> DEFINE stage == StageAfter(firing, open)
<1>1. tasks' = [tasks EXCEPT ![r] = [stage   |-> stage,
                                     waiting |-> stage \in LiveStages,
                                     drip    |-> stage = "delayed" /\ "http.slowloris" \in firing]]
  BY DEF Handle, Becomes
<1>2. openConns' = IF stage \in LiveStages THEN open ELSE open - 1
  BY DEF Handle
<1> HIDE DEF stage
<1>3. Live' = IF stage \in LiveStages THEN Live \cup {r} ELSE Live \ {r}
  BY <1>1 DEF Live, PlaneTypeOK, TaskType
<1>4. IsFiniteSet(Live \cup {r})
  BY LiveIsFinite, FS_AddElement
<1>5. Cardinality((Live \cup {r}) \ {r}) = open - 1
  BY <1>4, FS_RemoveElement
<1>6. (Live \cup {r}) \ {r} = Live \ {r}
  OBVIOUS
<1>7. OpenConnsAreTasks'
  BY <1>2, <1>3, <1>5, <1>6 DEF OpenConnsAreTasks
<1>8. QED
  BY <1>3, <1>7 DEF stage

-----------------------------------------------------------------------------
LEMMA RecordIsTyped ==
    ASSUME PlaneTypeOK, NEW r \in Requests, NEW fired \in SUBSET RequestIds, Record(r, fired)
    PROVE  /\ journal' \in [records : Seq(Entry), total : Nat, totalFired : Nat]
           /\ memory' \in [order : Seq(Entry), capped : SUBSET Requests, cleared : Nat]
<1> DEFINE entry == [request |-> r, fired |-> fired]
<1>1. entry \in Entry /\ Cardinality(fired) \in Nat
  BY DevicePlaneAssumption, FS_Subset, FS_CardinalityType DEF Entry
<1> HIDE DEF entry
<1>2. \A s \in Seq(Entry) : Append(s, entry) \in Seq(Entry)
  BY <1>1
<1>3. Appended(journal.records, entry) \in Seq(Entry)
  <2>1. journal.records \in Seq(Entry)
    BY DEF PlaneTypeOK
  <2>2. Len(journal.records) >= Capacity => journal.records # <<>>
    BY <2>1, DevicePlaneAssumption
  <2>3. Len(journal.records) >= Capacity => Tail(journal.records) \in Seq(Entry)
    BY <2>1, <2>2
  <2>4. Len(journal.records) \in Nat /\ Capacity \in Nat
    BY <2>1, DevicePlaneAssumption
  <2>5. QED
    BY <1>2, <2>1, <2>3, <2>4 DEF Appended
<1>4. /\ journal' = [records    |-> Appended(journal.records, entry),
                     total      |-> journal.total + 1,
                     totalFired |-> journal.totalFired + Cardinality(fired)]
      /\ memory' = [order   |-> Append(memory.order, entry),
                     capped  |-> IF "net.conn_cap" \in fired THEN memory.capped \cup {r}
                                                             ELSE memory.capped,
                     cleared |-> memory.cleared]
  BY DEF Record, entry
<1>5. QED
  BY <1>1, <1>2, <1>3, <1>4 DEF PlaneTypeOK

PlaneInv == PlaneTypeOK /\ OpenConnsAreTasks /\ CappedWereHandled /\ CapHolds

\* A handled request keeps the plane well typed and counted, and is let in under
\* the cap only where that leaves max_conns or fewer under way.
LEMMA HandleKeepsInv ==
    ASSUME PlaneInv, NEW r \in Requests, NEW firing \in SUBSET RequestIds, NEW open \in Nat,
           open = Cardinality(Live \cup {r}), open >= 1, Handle(r, firing, open),
           tasks[r].stage \in {"unsent", "body"}
    PROVE  PlaneInv'
<1> DEFINE stage == StageAfter(firing, open)
<1>0. PlaneTypeOK /\ OpenConnsAreTasks /\ CappedWereHandled /\ CapHolds
  BY DEF PlaneInv
<1>1. stage \in Stages \ {"unsent", "body"}
  BY DEF StageAfter, Stages, LiveStages
<1>2. /\ tasks' = [tasks EXCEPT ![r] = [stage   |-> stage,
                                        waiting |-> stage \in LiveStages,
                                        drip    |-> stage = "delayed"
                                                     /\ "http.slowloris" \in firing]]
      /\ openConns' = IF stage \in LiveStages THEN open ELSE open - 1
      /\ Record(r, firing)
  BY DEF Handle, Becomes
<1>3. /\ OpenConnsAreTasks'
      /\ Live' = IF stage \in LiveStages THEN Live \cup {r} ELSE Live \ {r}
  BY <1>0, HandlingCounts
<1>4. memory'.capped = IF "net.conn_cap" \in firing THEN memory.capped \cup {r}
                                                   ELSE memory.capped
  BY <1>0, <1>2 DEF Record, PlaneTypeOK
<1>5. ("net.conn_cap" \in firing /\ stage \in LiveStages) => open <= MaxConns
  BY DevicePlaneAssumption DEF StageAfter, Refuses, LiveStages
<1> HIDE DEF stage
<1>6. PlaneTypeOK'
  <2>1. tasks' \in [Requests -> TaskType]
    BY <1>0, <1>1, <1>2 DEF PlaneTypeOK, TaskType
  <2>2. openConns' \in Nat
    BY <1>2
  <2>3. QED
    BY <1>0, <1>2, <2>1, <2>2, RecordIsTyped DEF PlaneTypeOK
<1>7. CappedWereHandled'
  BY <1>0, <1>1, <1>2, <1>4 DEF CappedWereHandled, PlaneTypeOK
<1>8. CapHolds'
  <2>1. r \notin memory.capped
    BY <1>0 DEF CappedWereHandled
  <2>2. CASE "net.conn_cap" \in firing /\ stage \in LiveStages
    <3>1. memory'.capped \cap Live' \subseteq Live \cup {r}
      BY <1>3, <2>2
    <3>2. /\ IsFiniteSet(Live \cup {r})
          /\ Cardinality(memory'.capped \cap Live') \in Nat
      BY <3>1, LiveIsFinite, FS_AddElement, FS_Subset, FS_CardinalityType
    <3>3. Cardinality(memory'.capped \cap Live') <= open
      BY <3>1, <3>2, FS_Subset
    <3>4. QED
      BY <1>5, <2>2, <3>2, <3>3, DevicePlaneAssumption DEF CapHolds
  <2>3. CASE ~("net.conn_cap" \in firing /\ stage \in LiveStages)
    <3>1. memory'.capped \cap Live' = (memory.capped \cap Live) \ {r}
      BY <1>3, <1>4, <2>1, <2>3
    <3>2. (memory.capped \cap Live) \ {r} = memory.capped \cap Live
      BY <2>1
    <3>3. QED
      BY <1>0, <3>1, <3>2 DEF CapHolds
  <2>4. QED
    BY <2>2, <2>3
<1>9. QED
  BY <1>3, <1>6, <1>7, <1>8 DEF PlaneInv

\* A step that changes neither what is journaled nor who is let in keeps the cap
\* as long as nothing that was let in starts again.
LEMMA CapStays ==
    ASSUME CapHolds, memory'.capped = memory.capped,
           memory.capped \cap Live' \subseteq memory.capped \cap Live
    PROVE  CapHolds'
<1>1. /\ IsFiniteSet(memory.capped \cap Live)
      /\ Cardinality(memory.capped \cap Live) \in Nat
  BY LiveIsFinite, FS_Subset, FS_CardinalityType
<1>2. /\ Cardinality(memory.capped \cap Live') \in Nat
      /\ Cardinality(memory.capped \cap Live') <= Cardinality(memory.capped \cap Live)
  BY <1>1, FS_Subset, FS_CardinalityType
<1>3. QED
  BY <1>1, <1>2, DevicePlaneAssumption DEF CapHolds

LEMMA FinishKeepsInv ==
    ASSUME PlaneInv, NEW r \in Live, Finish(r)
    PROVE  PlaneInv'
<1>0. /\ PlaneTypeOK /\ OpenConnsAreTasks /\ CappedWereHandled /\ CapHolds
      /\ r \in Requests
  BY DEF PlaneInv, Live
<1>1. Live' = Live \ {r}
  BY <1>0 DEF Finish, Becomes, Live, LiveStages, PlaneTypeOK, TaskType
<1>2. OpenConnsAreTasks'
  BY <1>0, <1>1, OneEnds DEF Finish
<1>3. openConns' \in Nat
  BY <1>1, <1>2, LiveIsFinite, FS_Subset, FS_CardinalityType DEF OpenConnsAreTasks
<1>4. PlaneTypeOK'
  BY <1>0, <1>3 DEF Finish, Becomes, PlaneTypeOK, TaskType, Stages
<1>5. CappedWereHandled'
  BY <1>0 DEF Finish, Becomes, CappedWereHandled, PlaneTypeOK
<1>6. CapHolds'
  BY <1>0, <1>1, CapStays DEF Finish
<1>7. QED
  BY <1>2, <1>4, <1>5, <1>6 DEF PlaneInv

\* Where the app raises, the task ends uncounted, and nothing is let in.
LEMMA FailKeepsInv ==
    ASSUME PlaneInv, NEW r \in Requests, NEW open \in Nat,
           open = Cardinality(Live \cup {r}), open >= 1, Fail(r, open)
    PROVE  PlaneInv'
<1>0. PlaneTypeOK /\ OpenConnsAreTasks /\ CappedWereHandled /\ CapHolds
  BY DEF PlaneInv
<1>1. /\ tasks' = [tasks EXCEPT ![r] = [stage |-> "failed", waiting |-> FALSE,
                                        drip |-> FALSE]]
      /\ openConns' = open - 1
      /\ UNCHANGED <<journal, memory>>
  BY DEF Fail, Becomes
<1>2. Live' = Live \ {r}
  BY <1>0, <1>1 DEF Live, LiveStages, PlaneTypeOK, TaskType
<1>3. Cardinality((Live \cup {r}) \ {r}) = open - 1
  BY LiveIsFinite, FS_AddElement, FS_RemoveElement
<1>4. (Live \cup {r}) \ {r} = Live \ {r}
  OBVIOUS
<1>5. OpenConnsAreTasks'
  BY <1>1, <1>2, <1>3, <1>4 DEF OpenConnsAreTasks
<1>6. openConns' \in Nat
  BY <1>1
<1>7. PlaneTypeOK'
  BY <1>0, <1>1, <1>6 DEF PlaneTypeOK, TaskType, Stages
<1>8. CappedWereHandled'
  BY <1>0, <1>1 DEF CappedWereHandled, PlaneTypeOK
<1>9. CapHolds'
  BY <1>0, <1>1, <1>2, CapStays
<1>10. QED
  BY <1>5, <1>7, <1>8, <1>9 DEF PlaneInv

\* The open connections with one request that arrives, or whose body does.
LEMMA ArrivalIsCounted ==
    ASSUME OpenConnsAreTasks, NEW r \in Requests
    PROVE  \E open \in Nat \ {0} :
              /\ open = Cardinality(Live \cup {r})
              /\ tasks[r].stage = "unsent" => openConns + 1 = open
              /\ tasks[r].stage = "body" => openConns = open
<1>1. tasks[r].stage = "unsent" => r \notin Live
  BY DEF Live, LiveStages
<1>2. tasks[r].stage = "body" => Live \cup {r} = Live
  BY DEF Live, LiveStages
<1>3. Cardinality(Live \cup {r}) \in Nat /\ IsFiniteSet(Live \cup {r})
  BY LiveIsFinite, FS_AddElement, FS_CardinalityType
<1>4. Cardinality(Live \cup {r}) # 0
  BY <1>3, FS_EmptySet
<1>5. QED
  BY <1>1, <1>2, <1>3, <1>4, LiveIsFinite, FS_AddElement DEF OpenConnsAreTasks

LEMMA PlaneInitHasInv == PlaneInit => PlaneInv
<1> SUFFICES ASSUME PlaneInit PROVE PlaneInv
  OBVIOUS
<1>1. PlaneTypeOK
  BY DevicePlaneAssumption DEF PlaneInit, PlaneTypeOK, TaskType, Stages
<1>2. Live = {}
  BY DEF PlaneInit, Live, LiveStages
<1>3. OpenConnsAreTasks
  BY <1>2, FS_EmptySet DEF PlaneInit, OpenConnsAreTasks
<1>4. memory.capped = {} /\ Cardinality({}) = 0
  BY FS_EmptySet DEF PlaneInit
<1>5. CapHolds
  BY <1>2, <1>4, DevicePlaneAssumption DEF CapHolds
<1>6. QED
  BY <1>1, <1>3, <1>4, <1>5 DEF PlaneInv, CappedWereHandled

LEMMA PlaneStepKeepsInv ==
    ASSUME PlaneInv, [PlaneNext]_<<vars, planeVars>>
    PROVE  PlaneInv'
<1>0. /\ PlaneTypeOK /\ OpenConnsAreTasks /\ CappedWereHandled /\ CapHolds
      /\ openConns \in Nat
  BY DEF PlaneInv, PlaneTypeOK
<1>1. CASE UNCHANGED planeVars
  BY <1>1 DEF planeVars, PlaneInv, PlaneTypeOK, OpenConnsAreTasks, CappedWereHandled,
              CapHolds, Live
<1>2. ASSUME NEW r \in Requests, NEW firing \in RequestFirings, Arrive(r, firing)
      PROVE  PlaneInv'
  <2>1. firing \in SUBSET RequestIds
    BY RequestFiringsAreRequestFaults
  <2>2. PICK open \in Nat \ {0} :
          /\ open = Cardinality(Live \cup {r})
          /\ tasks[r].stage = "unsent" => openConns + 1 = open
    BY <1>0, ArrivalIsCounted
  <2>3. tasks[r].stage = "unsent" /\ Handle(r, firing, open)
    BY <1>2, <2>2 DEF Arrive, IsNext
  <2>4. QED
    BY <2>1, <2>2, <2>3, HandleKeepsInv
<1>3. ASSUME NEW r \in Requests, NEW firing \in RequestFirings, BodyArrives(r, firing)
      PROVE  PlaneInv'
  <2>1. firing \in SUBSET RequestIds
    BY RequestFiringsAreRequestFaults
  <2>2. PICK open \in Nat \ {0} :
          /\ open = Cardinality(Live \cup {r})
          /\ tasks[r].stage = "body" => openConns = open
    BY <1>0, ArrivalIsCounted
  <2>3. tasks[r].stage = "body" /\ Handle(r, firing, open)
    BY <1>3, <2>2 DEF BodyArrives
  <2>4. QED
    BY <2>1, <2>2, <2>3, HandleKeepsInv
<1>4. ASSUME NEW r \in Requests, ArrivePartly(r)
      PROVE  PlaneInv'
  <2>1. /\ tasks[r].stage = "unsent" /\ openConns' = openConns + 1
        /\ tasks' = [tasks EXCEPT ![r] = [stage |-> "body", waiting |-> TRUE,
                                          drip |-> FALSE]]
        /\ UNCHANGED <<journal, memory>>
    BY <1>4 DEF ArrivePartly, IsNext, Becomes
  <2>2. r \notin Live /\ r \notin memory.capped
    BY <1>0, <2>1 DEF Live, LiveStages, CappedWereHandled
  <2>3. Live' = Live \cup {r}
    BY <1>0, <2>1 DEF Live, LiveStages, PlaneTypeOK, TaskType
  <2>4. OpenConnsAreTasks'
    BY <1>0, <2>1, <2>2, <2>3, OneStarts
  <2>5. PlaneTypeOK'
    BY <1>0, <2>1 DEF PlaneTypeOK, TaskType, Stages, LiveStages
  <2>6. CappedWereHandled'
    BY <1>0, <2>1, <2>2 DEF CappedWereHandled, PlaneTypeOK
  <2>7. CapHolds'
    BY <1>0, <2>1, <2>2, <2>3, CapStays
  <2>8. QED
    BY <2>4, <2>5, <2>6, <2>7 DEF PlaneInv
<1>5. ASSUME NEW r \in Requests, ArriveInOutage(r)
      PROVE  PlaneInv'
  <2>1. /\ tasks[r].stage = "unsent" /\ openConns' = openConns
        /\ tasks' = [tasks EXCEPT ![r] = [stage |-> "off", waiting |-> TRUE,
                                          drip |-> FALSE]]
        /\ Record(r, {})
    BY <1>5 DEF ArriveInOutage, IsNext, Becomes
  <2>2. /\ journal' \in [records : Seq(Entry), total : Nat, totalFired : Nat]
        /\ memory' \in [order : Seq(Entry), capped : SUBSET Requests, cleared : Nat]
        /\ memory'.capped = memory.capped
    <3>1. {} \in SUBSET RequestIds
      OBVIOUS
    <3>2. QED
      BY <1>0, <2>1, <3>1, RecordIsTyped DEF Record
  <2>3. Live' = Live
    BY <1>0, <2>1 DEF Live, LiveStages, PlaneTypeOK, TaskType
  <2>4. OpenConnsAreTasks' /\ CapHolds'
    BY <1>0, <2>1, <2>2, <2>3, CapStays, NoneStartsOrEnds
  <2>5. PlaneTypeOK'
    BY <1>0, <2>1, <2>2 DEF PlaneTypeOK, TaskType, Stages
  <2>6. CappedWereHandled'
    BY <1>0, <2>1, <2>2 DEF CappedWereHandled, PlaneTypeOK
  <2>7. QED
    BY <2>4, <2>5, <2>6 DEF PlaneInv
<1>6. ASSUME NEW r \in Requests, GiveUp(r)
      PROVE  PlaneInv'
  <2>1. /\ tasks' = [tasks EXCEPT ![r] =
                       [stage   |-> IF tasks[r].stage = "body" THEN "dropped"
                                                               ELSE tasks[r].stage,
                        waiting |-> FALSE, drip |-> tasks[r].drip]]
        /\ openConns' = IF tasks[r].stage = "body" THEN openConns - 1 ELSE openConns
        /\ UNCHANGED <<journal, memory>>
    BY <1>6 DEF GiveUp, Becomes, StageLeft
  <2>2. Live' = IF tasks[r].stage = "body" THEN Live \ {r} ELSE Live
    BY <1>0, <2>1 DEF Live, LiveStages, PlaneTypeOK, TaskType
  <2>3. OpenConnsAreTasks'
    <3>1. CASE tasks[r].stage = "body"
      BY <1>0, <2>1, <2>2, <3>1, OneEnds DEF Live, LiveStages
    <3>2. CASE tasks[r].stage # "body"
      BY <1>0, <2>1, <2>2, <3>2, NoneStartsOrEnds
    <3>3. QED
      BY <3>1, <3>2
  <2>4. openConns' \in Nat
    <3>1. Live' \subseteq Live
      BY <2>2
    <3>2. QED
      BY <2>3, <3>1, LiveIsFinite, FS_Subset, FS_CardinalityType DEF OpenConnsAreTasks
  <2>5. PlaneTypeOK'
    BY <1>0, <2>1, <2>4 DEF PlaneTypeOK, TaskType, Stages
  <2>6. CappedWereHandled'
    BY <1>0, <2>1 DEF CappedWereHandled, PlaneTypeOK
  <2>7. CapHolds'
    BY <1>0, <2>1, <2>2, CapStays
  <2>8. QED
    BY <2>3, <2>5, <2>6, <2>7 DEF PlaneInv
<1>7. ASSUME NEW r \in Requests, Resume(r) \/ FinishDrip(r)
      PROVE  PlaneInv'
  <2>1. r \in Live
    BY <1>7 DEF Resume, FinishDrip, Live, LiveStages
  <2>2. CASE Finish(r)
    BY <2>1, <2>2, FinishKeepsInv
  <2>3. CASE ~Finish(r)
    <3>1. /\ tasks' = [tasks EXCEPT ![r] = [stage |-> "dripping", drip |-> FALSE,
                                            waiting |-> tasks[r].waiting]]
          /\ tasks[r].stage = "delayed"
          /\ UNCHANGED <<openConns, journal, memory>>
      BY <1>7, <2>3 DEF Resume, FinishDrip, Becomes
    <3>2. Live' = Live
      BY <1>0, <3>1 DEF Live, LiveStages, PlaneTypeOK, TaskType
    <3>3. PlaneTypeOK'
      BY <1>0, <3>1 DEF PlaneTypeOK, TaskType, Stages, LiveStages
    <3>4. CappedWereHandled'
      BY <1>0, <3>1 DEF CappedWereHandled, PlaneTypeOK
    <3>5. OpenConnsAreTasks' /\ CapHolds'
      BY <1>0, <3>1, <3>2, CapStays, NoneStartsOrEnds
    <3>6. QED
      BY <3>3, <3>4, <3>5 DEF PlaneInv
  <2>4. QED
    BY <2>2, <2>3
<1>8. CASE ClearJournal
  <2>1. /\ UNCHANGED <<tasks, openConns>>
        /\ journal' = [journal EXCEPT !.records = <<>>]
        /\ memory' = [memory EXCEPT !.cleared = journal.total]
    BY <1>8 DEF ClearJournal
  <2>2. PlaneTypeOK' /\ memory'.capped = memory.capped
    <3>1. <<>> \in Seq(Entry)
      OBVIOUS
    <3>2. journal' \in [records : Seq(Entry), total : Nat, totalFired : Nat]
      <4> HIDE DEF Entry
      <4>1. QED
        BY <1>0, <2>1, <3>1 DEF PlaneTypeOK
    <3>3. /\ memory' \in [order : Seq(Entry), capped : SUBSET Requests, cleared : Nat]
          /\ memory'.capped = memory.capped
      BY <1>0, <2>1 DEF PlaneTypeOK
    <3>4. QED
      BY <1>0, <2>1, <3>2, <3>3 DEF PlaneTypeOK
  <2>3. Live' = Live
    BY <2>1 DEF Live
  <2>4. OpenConnsAreTasks' /\ CapHolds'
    BY <1>0, <2>1, <2>2, <2>3, CapStays, NoneStartsOrEnds
  <2>5. QED
    BY <1>0, <2>1, <2>2, <2>4 DEF PlaneInv, CappedWereHandled
<1>9. ASSUME NEW r \in Requests, ArriveAndFail(r) \/ BodyArrivesAndFails(r)
      PROVE  PlaneInv'
  <2>1. PICK open \in Nat \ {0} :
          /\ open = Cardinality(Live \cup {r})
          /\ tasks[r].stage = "unsent" => openConns + 1 = open
          /\ tasks[r].stage = "body" => openConns = open
    BY <1>0, ArrivalIsCounted
  <2>2. Fail(r, open)
    BY <1>9, <2>1 DEF ArriveAndFail, BodyArrivesAndFails, IsNext
  <2>3. QED
    BY <2>1, <2>2, FailKeepsInv
<1>10. QED
  BY <1>1, <1>2, <1>3, <1>4, <1>5, <1>6, <1>7, <1>8, <1>9 DEF PlaneNext

LEMMA PlaneInvHolds == PlaneSpec => []PlaneInv
BY PlaneInitHasInv, PlaneStepKeepsInv, PTL DEF PlaneSpec

\* Every reachable device plane is well typed.
THEOREM PlaneTypes == PlaneSpec => []PlaneTypeOK
BY PlaneInvHolds, PTL DEF PlaneInv

\* The connection counter is the number of tasks under way: each is counted once
\* when it starts and uncounted once when it ends (device_faults.py:78).
THEOREM ConnectionsAreCounted == PlaneSpec => []OpenConnsAreTasks
BY PlaneInvHolds, PTL DEF PlaneInv

\* net.conn_cap is a cap: of the requests let in while it fired, at most
\* max_conns are ever under way together (network.py:97).
THEOREM CapIsACap == PlaneSpec => []CapHolds
BY PlaneInvHolds, PTL DEF PlaneInv

-----------------------------------------------------------------------------
(* The journal.                                                             *)

JournalInv == OrderIsOfTaken /\ JournalCountsEach /\ JournalIsTheLatest

\* A sequence with one more entry at its end.
LEMMA OneMore ==
    ASSUME NEW S, NEW s \in Seq(S), NEW n \in Nat, n = Len(s), NEW e \in S
    PROVE  /\ Append(s, e) \in Seq(S)
           /\ Len(Append(s, e)) = n + 1
           /\ Append(s, e)[n + 1] = e
           /\ \A i \in 1..n : Append(s, e)[i] = s[i]
OBVIOUS

\* The last k entries of a sequence.
TheEnd(s, k) == SubSeq(s, Len(s) - k + 1, Len(s))

LEMMA LastEntries ==
    ASSUME NEW S, NEW s \in Seq(S), NEW k \in 0..Len(s)
    PROVE  /\ TheEnd(s, k) \in Seq(S)
           /\ Len(TheEnd(s, k)) = k
           /\ \A i \in 1..k : TheEnd(s, k)[i] = s[Len(s) - k + i]
<1>1. PICK n \in Nat : n = Len(s)
  OBVIOUS
<1>2. \A i \in (n - k + 1)..n : s[i] \in S
  BY <1>1, ElementOfSeq
<1>3. PICK first \in Int : first = n - k + 1
  <2>1. k \in Int /\ n \in Int
    BY <1>1
  <2>2. n - k + 1 \in Int
    BY <2>1
  <2>3. QED
    BY <2>2
<1>4. /\ SubSeq(s, first, n) \in Seq(S)
      /\ Len(SubSeq(s, first, n)) = IF first <= n THEN n - first + 1 ELSE 0
      /\ \A i \in 1..(n - first + 1) : SubSeq(s, first, n)[i] = s[first + i - 1]
  BY <1>2, <1>3, SubSeqProperties
<1>5. /\ n - first + 1 = k
      /\ (IF first <= n THEN n - first + 1 ELSE 0) = k
      /\ \A i \in 1..k : first + i - 1 = n - k + i
  BY <1>1, <1>3
<1>6. QED
  BY <1>1, <1>3, <1>4, <1>5 DEF TheEnd

\* How many entries a ring of k shows after one more.
KeptNext(k) == IF k < Capacity THEN k + 1 ELSE k

\* A sequence that gets one more entry and loses its first, if it was as long as
\* the ring, shows the end of the order that gets the same entry.
LEMMA RingShowsTheEnd ==
    ASSUME NEW order \in Seq(Entry), NEW entry \in Entry,
           NEW k \in 0..Len(order), k <= Capacity
    PROVE  Appended(TheEnd(order, k), entry) = TheEnd(Append(order, entry), KeptNext(k))
<1>1. PICK longer : longer = Append(order, entry)
  OBVIOUS
<1>2. PICK n \in Nat : n = Len(order)
  OBVIOUS
<1>3. /\ longer \in Seq(Entry) /\ Len(longer) = n + 1 /\ longer[n + 1] = entry
      /\ \A i \in 1..n : longer[i] = order[i]
  BY <1>1, <1>2, OneMore
<1>4. PICK records \in Seq(Entry) :
        /\ records = TheEnd(order, k) /\ Len(records) = k
        /\ \A i \in 1..k : records[i] = order[n - k + i]
  <2>1. /\ TheEnd(order, k) \in Seq(Entry) /\ Len(TheEnd(order, k)) = k
        /\ \A i \in 1..k : TheEnd(order, k)[i] = order[Len(order) - k + i]
    BY LastEntries
  <2>2. QED
    BY <1>2, <2>1, Zenon
<1>5. PICK m \in 1..(n + 1) : m = KeptNext(k)
  BY <1>2, DevicePlaneAssumption DEF KeptNext
<1>6. PICK end \in Seq(Entry) :
        /\ end = TheEnd(longer, m) /\ Len(end) = m
        /\ \A i \in 1..m : end[i] = longer[n + 1 - m + i]
  <2>1. m \in 0..Len(longer)
    BY <1>3
  <2>2. /\ TheEnd(longer, m) \in Seq(Entry) /\ Len(TheEnd(longer, m)) = m
        /\ \A i \in 1..m : TheEnd(longer, m)[i] = longer[Len(longer) - m + i]
    BY <1>3, <2>1, LastEntries
  <2>3. QED
    BY <1>3, <2>2
<1>7. end[m] = entry
  <2>1. m \in 1..m /\ n + 1 - m + m = n + 1
    OBVIOUS
  <2>2. end[m] = longer[n + 1 - m + m]
    BY <1>6, <2>1
  <2>3. QED
    BY <1>3, <2>1, <2>2
<1>8. CASE k < Capacity
  <2>1. PICK ring : ring = Append(records, entry)
    OBVIOUS
  <2>2. Appended(records, entry) = ring /\ m = k + 1
    BY <1>4, <1>5, <1>8, <2>1 DEF Appended, KeptNext
  <2>3. /\ ring \in Seq(Entry) /\ Len(ring) = m /\ ring[m] = entry
        /\ \A i \in 1..k : ring[i] = records[i]
    BY <1>4, <2>1, <2>2, OneMore
  <2>4. ASSUME NEW i \in 1..k
        PROVE  ring[i] = end[i]
    <3>1. PICK j \in 1..n : j = n - k + i /\ j = n + 1 - m + i
      <4>1. n - k + i \in 1..n /\ n - k + i = n + 1 - m + i
        BY <1>2, <2>2
      <4>2. QED
        BY <4>1
    <3>2. i \in 1..m
      BY <2>2
    <3>3. end[i] = longer[j] /\ ring[i] = records[i] /\ records[i] = order[j]
      BY <1>4, <1>6, <2>3, <3>1, <3>2
    <3>4. QED
      BY <1>3, <3>1, <3>3
  <2>5. \A i \in 1..m : ring[i] = end[i]
    <3>1. \A i \in 1..m : i \in 1..k \/ i = m
      BY <2>2
    <3>2. QED
      BY <1>7, <2>3, <2>4, <3>1
  <2>6. ring = end
    BY <1>6, <2>3, <2>5, SeqEqual
  <2>7. QED
    BY <1>1, <1>4, <1>5, <1>6, <2>2, <2>6
<1>9. CASE k = Capacity
  <2>1. PICK rest : rest = Tail(records)
    OBVIOUS
  <2>2. PICK ring : ring = Append(rest, entry)
    OBVIOUS
  <2>3. Appended(records, entry) = ring /\ m = k /\ k >= 1
    BY <1>4, <1>5, <1>9, <2>1, <2>2, DevicePlaneAssumption DEF Appended, KeptNext
  <2>4. records # <<>>
    <3>1. Len(records) # 0
      BY <1>4, <2>3
    <3>2. QED
      BY <3>1, EmptySeq
  <2>5. /\ rest \in Seq(Entry) /\ Len(rest) = k - 1 /\ k - 1 \in Nat
        /\ \A i \in 1..(k - 1) : rest[i] = records[i + 1]
    BY <1>4, <2>1, <2>3, <2>4, HeadTailProperties
  <2>6. /\ ring \in Seq(Entry) /\ Len(ring) = k - 1 + 1 /\ ring[k - 1 + 1] = entry
        /\ \A i \in 1..(k - 1) : ring[i] = rest[i]
    BY <2>2, <2>5, OneMore
  <2>7. k - 1 + 1 = m
    BY <2>3
  <2>8. ASSUME NEW i \in 1..(k - 1)
        PROVE  ring[i] = end[i]
    <3>1. PICK j \in 1..n : j = n - k + (i + 1) /\ j = n + 1 - m + i
      <4>1. n - k + (i + 1) \in 1..n /\ n - k + (i + 1) = n + 1 - m + i
        BY <1>2, <2>3
      <4>2. QED
        BY <4>1
    <3>2. i \in 1..m /\ i + 1 \in 1..k
      BY <2>3
    <3>3. end[i] = longer[j] /\ ring[i] = rest[i] /\ rest[i] = records[i + 1]
      BY <1>6, <2>5, <2>6, <3>1, <3>2
    <3>4. records[i + 1] = order[j]
      BY <1>4, <3>1, <3>2
    <3>5. QED
      BY <1>3, <3>1, <3>3, <3>4
  <2>9. \A i \in 1..m : ring[i] = end[i]
    <3>1. \A i \in 1..m : i \in 1..(k - 1) \/ i = m
      BY <2>3
    <3>2. QED
      BY <1>7, <2>6, <2>7, <2>8, <3>1
  <2>10. ring = end
    BY <1>6, <2>6, <2>7, <2>9, SeqEqual
  <2>11. QED
    BY <1>1, <1>4, <1>5, <1>6, <2>3, <2>10
<1>10. QED
  BY <1>2, <1>8, <1>9, DevicePlaneAssumption

\* The requests are finitely many, and so are the faults that fire on one.
LEMMA TakenIsFinite == IsFiniteSet(Taken) /\ Cardinality(Taken) \in Nat
BY DevicePlaneAssumption, FS_Subset, FS_CardinalityType DEF Taken

\* A request that is journaled: it is the last of the order, its firings are new,
\* and the ring shows the end of the order.
LEMMA RecordKeepsJournal ==
    ASSUME PlaneTypeOK, JournalInv, NEW r \in Requests, NEW fired \in SUBSET RequestIds,
           Record(r, fired), r \notin Taken, Taken' = Taken \cup {r}
    PROVE  JournalInv'
<1>1. PICK entry : entry = [request |-> r, fired |-> fired]
  OBVIOUS
<1>2. entry \in Entry /\ entry.request = r /\ entry.fired = fired
  BY <1>1 DEF Entry
<1>3. PICK n \in Nat : n = Len(memory.order) /\ n = journal.total
  BY DEF JournalInv, OrderIsOfTaken, PlaneTypeOK
<1>4. /\ journal'.records = Appended(journal.records, entry)
      /\ journal'.total = n + 1
      /\ journal'.totalFired = journal.totalFired + Cardinality(fired)
      /\ memory'.order = Append(memory.order, entry)
      /\ memory'.cleared = memory.cleared
  BY <1>1, <1>3 DEF Record
<1>5. /\ journal.records \in Seq(Entry) /\ memory.order \in Seq(Entry)
      /\ memory.cleared \in 0..n
  BY <1>3 DEF PlaneTypeOK, JournalInv, OrderIsOfTaken
<1>6. /\ Len(memory'.order) = n + 1
      /\ memory'.order[n + 1] = entry
      /\ \A i \in 1..n : memory'.order[i] = memory.order[i]
  <2>1. PICK order \in Seq(Entry) : order = memory.order
    BY <1>5
  <2>2. /\ Len(Append(order, entry)) = n + 1
        /\ Append(order, entry)[n + 1] = entry
        /\ \A i \in 1..n : Append(order, entry)[i] = order[i]
    <3>1. entry \in Entry /\ n = Len(order)
      BY <1>2, <1>3, <2>1
    <3>2. QED
      BY <3>1, OneMore
  <2>3. QED
    BY <1>4, <2>1, <2>2
<1>7. 1..(n + 1) = (1..n) \cup {n + 1} /\ n + 1 \notin 1..n
  OBVIOUS
<1>8. Journaled' = Taken'
  <2>1. {memory.order[i].request : i \in 1..n} = Taken
    BY <1>3 DEF JournalInv, OrderIsOfTaken, Journaled
  <2>2. {memory'.order[i].request : i \in 1..(n + 1)}
           = {memory.order[i].request : i \in 1..n} \cup {r}
    BY <1>2, <1>6, <1>7
  <2>3. QED
    BY <1>6, <2>1, <2>2 DEF Journaled
<1>9. Cardinality(Taken') = n + 1
  <2>1. IsFiniteSet(Taken) /\ Cardinality(Taken) = n
    BY <1>3, TakenIsFinite DEF JournalInv, JournalCountsEach
  <2>2. Cardinality(Taken \cup {r}) = n + 1
    BY <2>1, FS_AddElement
  <2>3. QED
    BY <2>2
<1>10. /\ IsFiniteSet(Firings')
       /\ Cardinality(Firings') = journal.totalFired + Cardinality(fired)
  <2>1. Firings = UNION {{i} \X memory.order[i].fired : i \in 1..n}
    BY <1>3 DEF Firings
  <2>2. Firings' = UNION {{i} \X memory'.order[i].fired : i \in 1..(n + 1)}
    BY <1>6 DEF Firings
  <2>3. Firings' = Firings \cup ({n + 1} \X fired)
    <3>1. {{i} \X memory'.order[i].fired : i \in 1..(n + 1)}
             = {{i} \X memory.order[i].fired : i \in 1..n} \cup {{n + 1} \X fired}
      BY <1>2, <1>6, <1>7
    <3>2. QED
      BY <2>1, <2>2, <3>1
  <2>4. Firings \cap ({n + 1} \X fired) = {}
    BY <1>7, <2>1
  <2>5. /\ IsFiniteSet({n + 1} \X fired)
        /\ Cardinality({n + 1} \X fired) = Cardinality(fired)
    <3>1. IsFiniteSet(fired) /\ Cardinality(fired) \in Nat
      BY DevicePlaneAssumption, FS_Subset, FS_CardinalityType
    <3>2. IsFiniteSet({n + 1}) /\ Cardinality({n + 1}) = 1
      BY FS_Singleton
    <3>3. QED
      BY <3>1, <3>2, FS_Product
  <2>6. IsFiniteSet(Firings) /\ Cardinality(Firings) = journal.totalFired
    BY DEF JournalInv, OrderIsOfTaken, JournalCountsEach
  <2>7. /\ IsFiniteSet(Firings \cup ({n + 1} \X fired))
        /\ Cardinality(Firings \cup ({n + 1} \X fired))
             = journal.totalFired + Cardinality(fired) - Cardinality({})
    BY <2>4, <2>5, <2>6, FS_Union
  <2>8. /\ Cardinality({}) = 0 /\ Cardinality(fired) \in Nat /\ journal.totalFired \in Nat
    BY DevicePlaneAssumption, FS_Subset, FS_CardinalityType, FS_EmptySet DEF PlaneTypeOK
  <2>9. QED
    BY <2>3, <2>7, <2>8
<1>11. OrderIsOfTaken' /\ JournalCountsEach'
  BY <1>4, <1>5, <1>6, <1>8, <1>9, <1>10 DEF OrderIsOfTaken, JournalCountsEach
<1>12. JournalIsTheLatest'
  <2>1. PICK since \in 0..n : since = n - memory.cleared
    BY <1>5
  <2>2. PICK k \in 0..n : k = IF since < Capacity THEN since ELSE Capacity
    BY <2>1, DevicePlaneAssumption
  <2>3. /\ k <= Capacity
        /\ KeptNext(k) = IF since + 1 < Capacity THEN since + 1 ELSE Capacity
    BY <2>1, <2>2, DevicePlaneAssumption DEF KeptNext
  <2>4. journal.records = TheEnd(memory.order, k)
    BY <1>3, <2>1, <2>2 DEF JournalInv, JournalIsTheLatest, TheEnd
  <2>5. journal'.records = TheEnd(memory'.order, KeptNext(k))
    BY <1>2, <1>3, <1>4, <1>5, <2>3, <2>4, RingShowsTheEnd
  <2>6. journal'.total - memory'.cleared = since + 1
    BY <1>4, <1>5, <2>1
  <2>7. (IF journal'.total - memory'.cleared < Capacity
         THEN journal'.total - memory'.cleared ELSE Capacity) = KeptNext(k)
    BY <2>3, <2>6
  <2>8. Len(memory'.order) = journal'.total
    BY <1>4, <1>6
  <2>9. QED
    BY <2>5, <2>7, <2>8, Zenon DEF JournalIsTheLatest, TheEnd
<1>13. QED
  BY <1>11, <1>12 DEF JournalInv

LEMMA NothingJournaled ==
    ASSUME JournalInv, UNCHANGED <<journal, memory>>, Taken' = Taken
    PROVE  JournalInv'
BY DEF JournalInv, OrderIsOfTaken, JournalCountsEach, JournalIsTheLatest, Firings, Journaled

\* Clearing empties the ring and leaves the totals.
LEMMA ClearKeepsJournal ==
    ASSUME PlaneTypeOK, JournalInv, ClearJournal
    PROVE  JournalInv'
<1>1. /\ journal'.records = <<>> /\ journal'.total = journal.total
      /\ journal'.totalFired = journal.totalFired
      /\ memory'.order = memory.order /\ memory'.cleared = journal.total
      /\ Taken' = Taken
  BY DEF ClearJournal, PlaneTypeOK, Taken
<1>2. Firings' = Firings /\ Journaled' = Journaled
  BY <1>1 DEF Firings, Journaled
<1>3. PICK n \in Nat : n = journal.total
  BY DEF PlaneTypeOK
<1>4. OrderIsOfTaken' /\ JournalCountsEach'
  BY <1>1, <1>2, <1>3 DEF JournalInv, OrderIsOfTaken, JournalCountsEach
<1>5. JournalIsTheLatest'
  <2>1. n - n = 0 /\ (IF n - n < Capacity THEN n - n ELSE Capacity) = 0 /\ n - 0 + 1 = n + 1
    BY DevicePlaneAssumption
  <2>2. SubSeq(memory.order, n + 1, n) = <<>>
    BY SubSeqEmpty
  <2>3. QED
    BY <1>1, <1>3, <2>1, <2>2 DEF JournalIsTheLatest
<1>6. QED
  BY <1>4, <1>5 DEF JournalInv

LEMMA PlaneStepKeepsJournal ==
    ASSUME PlaneTypeOK, JournalInv, [PlaneNext]_<<vars, planeVars>>
    PROVE  JournalInv'
<1>0. tasks \in [Requests -> TaskType]
  BY DEF PlaneTypeOK
<1>1. CASE UNCHANGED planeVars
  BY <1>1, NothingJournaled DEF planeVars, Taken
<1>2. ASSUME NEW r \in Requests, NEW firing \in RequestFirings, NEW open,
             tasks[r].stage \in {"unsent", "body"}, Handle(r, firing, open)
      PROVE  JournalInv'
  <2>1. firing \in SUBSET RequestIds
    BY RequestFiringsAreRequestFaults
  <2>2. PICK stage, waiting, drip :
          /\ stage \notin {"unsent", "body", "failed", "dropped"}
          /\ tasks' = [tasks EXCEPT ![r] = [stage |-> stage, waiting |-> waiting,
                                            drip |-> drip]]
    <3>1. StageAfter(firing, open) \notin {"unsent", "body", "failed", "dropped"}
      BY DEF StageAfter
    <3>2. QED
      BY <1>2, <3>1 DEF Handle, Becomes
  <2>3. r \notin Taken /\ Taken' = Taken \cup {r}
    BY <1>0, <1>2, <2>2 DEF Taken
  <2>4. QED
    BY <1>2, <2>1, <2>3, RecordKeepsJournal DEF Handle
<1>3. ASSUME NEW r \in Requests, ArriveInOutage(r)
      PROVE  JournalInv'
  <2>1. r \notin Taken /\ Taken' = Taken \cup {r}
    BY <1>0, <1>3 DEF ArriveInOutage, IsNext, Becomes, Taken
  <2>2. {} \in SUBSET RequestIds
    OBVIOUS
  <2>3. QED
    BY <1>3, <2>1, <2>2, RecordKeepsJournal DEF ArriveInOutage
<1>4. ASSUME NEW r \in Requests,
             \/ ArrivePartly(r) \/ GiveUp(r) \/ Resume(r) \/ FinishDrip(r)
             \/ ArriveAndFail(r) \/ BodyArrivesAndFails(r)
      PROVE  JournalInv'
  <2>1. CASE ArrivePartly(r)
    <3>1. Taken' = Taken
      BY <1>0, <2>1 DEF ArrivePartly, IsNext, Becomes, Taken
    <3>2. QED
      BY <2>1, <3>1, NothingJournaled DEF ArrivePartly
  <2>2. CASE GiveUp(r)
    <3>1. Taken' = Taken
      BY <1>0, <2>2 DEF GiveUp, Becomes, StageLeft, Taken
    <3>2. QED
      BY <2>2, <3>1, NothingJournaled DEF GiveUp
  <2>3. CASE Resume(r) \/ FinishDrip(r)
    <3>1. PICK stage, waiting, drip :
            /\ stage \in {"answered", "dripping"}
            /\ tasks[r].stage \in {"delayed", "dripping"}
            /\ tasks' = [tasks EXCEPT ![r] = [stage |-> stage, waiting |-> waiting,
                                              drip |-> drip]]
            /\ UNCHANGED <<journal, memory>>
      BY <2>3 DEF Resume, FinishDrip, Finish, Becomes
    <3>2. Taken' = Taken
      BY <1>0, <3>1 DEF Taken
    <3>3. QED
      BY <3>1, <3>2, NothingJournaled
  <2>4. CASE ArriveAndFail(r) \/ BodyArrivesAndFails(r)
    <3>1. /\ tasks[r].stage \in {"unsent", "body"}
          /\ tasks' = [tasks EXCEPT ![r] = [stage |-> "failed", waiting |-> FALSE,
                                            drip |-> FALSE]]
          /\ UNCHANGED <<journal, memory>>
      BY <2>4 DEF ArriveAndFail, BodyArrivesAndFails, IsNext, Fail, Becomes
    <3>2. Taken' = Taken
      BY <1>0, <3>1 DEF Taken
    <3>3. QED
      BY <3>1, <3>2, NothingJournaled
  <2>5. QED
    BY <1>4, <2>1, <2>2, <2>3, <2>4
<1>5. CASE ClearJournal
  BY <1>5, ClearKeepsJournal
<1>6. QED
  BY <1>1, <1>2, <1>3, <1>4, <1>5 DEF PlaneNext, Arrive, BodyArrives, IsNext

LEMMA PlaneInitHasJournal == PlaneInit => JournalInv
<1> SUFFICES ASSUME PlaneInit PROVE JournalInv
  OBVIOUS
<1>1. /\ journal.records = <<>> /\ journal.total = 0 /\ journal.totalFired = 0
      /\ memory.order = <<>> /\ memory.cleared = 0
  BY DEF PlaneInit
<1>2. Taken = {} /\ Len(memory.order) = 0
  BY <1>1 DEF PlaneInit, Taken
<1>3. Firings = {} /\ Journaled = {}
  BY <1>2 DEF Firings, Journaled
<1>4. IsFiniteSet({}) /\ Cardinality({}) = 0
  BY FS_EmptySet
<1>5. OrderIsOfTaken /\ JournalCountsEach
  BY <1>1, <1>2, <1>3, <1>4 DEF OrderIsOfTaken, JournalCountsEach
<1>6. JournalIsTheLatest
  <2>1. 0 - 0 = 0 /\ (IF 0 - 0 < Capacity THEN 0 - 0 ELSE Capacity) = 0 /\ 0 - 0 + 1 = 1
    BY DevicePlaneAssumption
  <2>2. SubSeq(memory.order, 1, 0) = <<>>
    BY SubSeqEmpty
  <2>3. QED
    BY <1>1, <2>1, <2>2 DEF JournalIsTheLatest
<1>7. QED
  BY <1>5, <1>6 DEF JournalInv

LEMMA JournalInvHolds == PlaneSpec => []JournalInv
BY PlaneTypes, PlaneInitHasJournal, PlaneStepKeepsJournal, PTL DEF PlaneSpec

\* Every request that was decided or held is in the journal's totals exactly
\* once, and every firing on it, and none on which the app has raised, in whatever
\* order tasks, clients and the clearing of the journal take turns (server.py:107).
THEOREM JournalCounts == PlaneSpec => []JournalCountsEach
BY JournalInvHolds, PTL DEF JournalInv

\* For any capacity, the journal shows the last requests since it was cleared, as
\* many as it has room for, in the order in which they were decided (server.py:93).
THEOREM JournalShowsTheLatest == PlaneSpec => []JournalIsTheLatest
BY JournalInvHolds, PTL DEF JournalInv

-----------------------------------------------------------------------------
(* Whom the cap refuses.                                                    *)

\* A task moved on: whether it and the others count and have a client.
LEMMA OneMovesOn ==
    ASSUME PlaneTypeOK, LiveAreConnected, NEW r \in Requests, NEW stage, NEW waiting,
           NEW drip, Becomes(r, stage, waiting, drip), stage \in LiveStages => waiting
    PROVE  LiveAreConnected'
BY DEF PlaneTypeOK, TaskType, LiveAreConnected, Live, Connected, Becomes

\* Handling a request: it waits for its answer as long as its task counts.
LEMMA HandledIsConnected ==
    ASSUME PlaneTypeOK, LiveAreConnected, NEW r \in Requests, NEW firing, NEW open,
           Handle(r, firing, open)
    PROVE  LiveAreConnected'
<1> DEFINE stage == StageAfter(firing, open)
<1>1. Becomes(r, stage, stage \in LiveStages, stage = "delayed" /\ "http.slowloris" \in firing)
  BY DEF Handle
<1> HIDE DEF stage
<1>2. QED
  BY <1>1, OneMovesOn

LEMMA PlaneStepKeepsClients ==
    ASSUME PlaneTypeOK, LiveAreConnected, PlaneNext,
           \A r \in Requests : GiveUp(r) => tasks[r].stage \notin LiveStages \ {"body"}
    PROVE  LiveAreConnected'
<1>1. CASE UNCHANGED tasks
  BY <1>1 DEF LiveAreConnected, Live, Connected
<1>2. ASSUME NEW r \in Requests, NEW firing \in RequestFirings,
             Arrive(r, firing) \/ BodyArrives(r, firing)
      PROVE  LiveAreConnected'
  BY <1>2, HandledIsConnected DEF Arrive, BodyArrives
<1>3. ASSUME NEW r \in Requests, ArrivePartly(r) \/ ArriveInOutage(r)
      PROVE  LiveAreConnected'
  <2>1. Becomes(r, "body", TRUE, FALSE) \/ Becomes(r, "off", TRUE, FALSE)
    BY <1>3 DEF ArrivePartly, ArriveInOutage
  <2>2. QED
    BY <2>1, OneMovesOn
<1>4. ASSUME NEW r \in Requests, GiveUp(r)
      PROVE  LiveAreConnected'
  <2>1. Becomes(r, StageLeft(r), FALSE, tasks[r].drip)
    BY <1>4 DEF GiveUp
  <2>2. StageLeft(r) \notin LiveStages
    BY <1>4 DEF StageLeft, LiveStages
  <2>3. QED
    BY <2>1, <2>2, OneMovesOn
<1>5. ASSUME NEW r \in Requests, Resume(r) \/ FinishDrip(r)
      PROVE  LiveAreConnected'
  <2>1. CASE Becomes(r, "answered", FALSE, FALSE)
    BY <2>1, OneMovesOn DEF LiveStages
  <2>2. CASE tasks[r].stage = "delayed" /\ Becomes(r, "dripping", tasks[r].waiting, FALSE)
    <3>1. tasks[r].waiting
      BY <2>2 DEF LiveAreConnected, Live, Connected, LiveStages
    <3>2. QED
      BY <2>2, <3>1, OneMovesOn
  <2>3. QED
    BY <1>5, <2>1, <2>2 DEF Resume, FinishDrip, Finish
<1>6. ASSUME NEW r \in Requests, ArriveAndFail(r) \/ BodyArrivesAndFails(r)
      PROVE  LiveAreConnected'
  <2>1. Becomes(r, "failed", FALSE, FALSE)
    BY <1>6 DEF ArriveAndFail, BodyArrivesAndFails, Fail
  <2>2. QED
    BY <2>1, OneMovesOn DEF LiveStages
<1>7. QED
  BY <1>1, <1>2, <1>3, <1>4, <1>5, <1>6 DEF PlaneNext, planeVars, ClearJournal

\* Only a request that is handled is refused, with itself and the tasks under way
\* counted.
LEMMA RefusedWhenHandled ==
    ASSUME PlaneInv, PlaneNext, NEW r \in Requests,
           tasks[r].stage # "refused", tasks'[r].stage = "refused"
    PROVE  \E firing \in RequestFirings :
               Refuses(firing, Cardinality(Live \cup {r}))
<1>0. PlaneTypeOK /\ OpenConnsAreTasks
  BY DEF PlaneInv
<1>1. ASSUME NEW q \in Requests, NEW stage, NEW waiting, NEW drip,
             Becomes(q, stage, waiting, drip)
      PROVE  q = r /\ stage = "refused"
  BY <1>0, <1>1 DEF Becomes, PlaneTypeOK, TaskType
<1>2. ASSUME NEW q \in Requests, NEW firing, NEW open, Handle(q, firing, open)
      PROVE  q = r /\ StageAfter(firing, open) = "refused"
  BY <1>1, <1>2 DEF Handle
<1>3. tasks' # tasks
  OBVIOUS
<1>4. ASSUME NEW q \in Requests
      PROVE  /\ ~ArrivePartly(q) /\ ~ArriveInOutage(q) /\ ~Resume(q) /\ ~FinishDrip(q)
             /\ ~GiveUp(q) /\ ~ArriveAndFail(q) /\ ~BodyArrivesAndFails(q)
  <2>1. ~ArrivePartly(q) /\ ~ArriveInOutage(q)
    BY <1>0 DEF ArrivePartly, ArriveInOutage, Becomes, PlaneTypeOK, TaskType
  <2>2. ~Resume(q) /\ ~FinishDrip(q)
    BY <1>0 DEF Resume, FinishDrip, Finish, Becomes, PlaneTypeOK, TaskType
  <2>3. ~GiveUp(q)
    <3>1. GiveUp(q) => q = r /\ StageLeft(q) = "refused"
      BY <1>1 DEF GiveUp
    <3>2. QED
      BY <3>1 DEF StageLeft
  <2>4. ~ArriveAndFail(q) /\ ~BodyArrivesAndFails(q)
    <3>1. ArriveAndFail(q) \/ BodyArrivesAndFails(q) => Becomes(q, "failed", FALSE, FALSE)
      BY DEF ArriveAndFail, BodyArrivesAndFails, Fail
    <3>2. Becomes(q, "failed", FALSE, FALSE) => "failed" = "refused"
      BY <1>1
    <3>3. QED
      BY <3>1, <3>2
  <2>5. QED
    BY <2>1, <2>2, <2>3, <2>4
<1>5. PICK q \in Requests, firing \in RequestFirings : Arrive(q, firing) \/ BodyArrives(q, firing)
  BY <1>3, <1>4 DEF PlaneNext, planeVars, ClearJournal
<1>6. PICK open : /\ Handle(q, firing, open)
                  /\ open = Cardinality(Live \cup {q})
  BY <1>0, <1>5, ArrivalIsCounted DEF Arrive, BodyArrives, IsNext
<1>7. q = r /\ StageAfter(firing, open) = "refused"
  BY <1>2, <1>6
<1>8. Refuses(firing, open)
  BY <1>7 DEF StageAfter
<1>9. QED
  BY <1>6, <1>7, <1>8

\* As long as no client leaves a task that is delayed, drips or hangs, the cap
\* refuses only when more than max_conns clients are connected (network.py:97):
\* the tasks that outlive their clients are all that goes wrong with the
\* counter, whatever the faults, the outages and the bodies that are lost.
THEOREM CapRefusesTheRightOnes == PlaneSpec /\ ClientsStay => CapRefusesOnlyBeyond
<1> DEFINE Stay == \A r \in Requests : GiveUp(r) => tasks[r].stage \notin LiveStages \ {"body"}
           Right == \A r \in Requests :
                       (/\ tasks[r].stage # "refused" /\ tasks'[r].stage = "refused"
                        /\ "net.unreachable" \notin DOMAIN faults)
                          => Cardinality(Connected \cup {r}) > MaxConns
<1>1. PlaneInit => LiveAreConnected
  BY DEF PlaneInit, LiveAreConnected, Live, LiveStages
<1>2. PlaneInv /\ LiveAreConnected /\ [PlaneNext]_<<vars, planeVars>>
        /\ [Stay]_<<vars, planeVars>> => LiveAreConnected'
  <2>1. CASE UNCHANGED <<vars, planeVars>>
    BY <2>1 DEF planeVars, LiveAreConnected, Live, Connected
  <2>2. CASE PlaneNext /\ Stay
    BY <2>2, PlaneStepKeepsClients DEF PlaneInv
  <2>3. QED
    BY <2>1, <2>2
<1>3. PlaneInv /\ LiveAreConnected /\ [PlaneNext]_<<vars, planeVars>>
        => [Right]_<<vars, planeVars>>
  <2> SUFFICES ASSUME PlaneInv, LiveAreConnected, PlaneNext, NEW r \in Requests,
                      tasks[r].stage # "refused", tasks'[r].stage = "refused",
                      "net.unreachable" \notin DOMAIN faults
               PROVE  Cardinality(Connected \cup {r}) > MaxConns
    OBVIOUS
  <2>1. PICK firing \in RequestFirings : Refuses(firing, Cardinality(Live \cup {r}))
    BY RefusedWhenHandled
  <2>2. firing \subseteq DOMAIN faults
    BY DEF RequestFirings, MayFire
  <2>3. Cardinality(Live \cup {r}) > MaxConns
    BY <2>1, <2>2 DEF Refuses
  <2>4. Live \cup {r} \subseteq Connected \cup {r}
    BY DEF LiveAreConnected
  <2>5. IsFiniteSet(Connected \cup {r})
    BY DevicePlaneAssumption, FS_Subset DEF Connected
  <2>6. /\ Cardinality(Live \cup {r}) \in Nat /\ Cardinality(Connected \cup {r}) \in Nat
        /\ Cardinality(Live \cup {r}) <= Cardinality(Connected \cup {r})
    BY <2>4, <2>5, FS_Subset, FS_CardinalityType
  <2>7. QED
    BY <2>3, <2>6, DevicePlaneAssumption
<1>4. QED
  BY <1>1, <1>2, <1>3, PlaneInvHolds, PTL DEF PlaneSpec, ClientsStay, CapRefusesOnlyBeyond
=============================================================================
