---------------------------- MODULE DevicePlane ----------------------------
(***************************************************************************)
(* The device plane: DeviceFaultMiddleware (web/device_faults.py) serving  *)
(* concurrent requests over the fault registry, and the request journal    *)
(* (web/server.py).  Every request is an asyncio task of one event loop:   *)
(* it is interleaved with the others, with the sub-steps and with admin    *)
(* calls where it awaits, and nowhere else.                                *)
(*                                                                         *)
(* What an answer contains is left out, and with it the faults that only   *)
(* change its status, body or content type.  net.latency stands for a      *)
(* delay above zero, http.slowloris for a body sent in several pieces.     *)
(* The server does not cancel the task of a client that has left: only a   *)
(* task that waits for the rest of a body notices.                         *)
(***************************************************************************)
EXTENDS FaultRegistry, Sequences

CONSTANTS
    Requests,  \* the requests clients make, numbered in the order they come
    MaxConns,  \* max_conns of net.conn_cap
    Capacity   \* RequestJournal's capacity

\* Stages in which a task counts among the open connections: it waits for the
\* body, sleeps out a delay, drips the answer, or hangs.
LiveStages == {"body", "delayed", "dripping", "hung"}

\* "off" is a request that came in an outage, held and not counted; "failed" one
\* on which the app has raised, "dropped" one whose client left before its body
\* was there.
Stages == LiveStages \cup {"unsent", "off", "answered", "refused", "failed", "dropped"}

TaskType == [stage : Stages, waiting : BOOLEAN, drip : BOOLEAN]

ASSUME DevicePlaneAssumption ==
    /\ IsFiniteSet(Requests) /\ Requests \subseteq Nat /\ IsFiniteSet(RequestIds)
    /\ MaxConns \in Nat
    /\ Capacity \in Nat \ {0}

VARIABLES
    tasks,      \* of each request: its stage, whether its client still waits,
                \* and whether its delayed answer is to be dripped
    openConns,  \* DeviceFaultMiddleware._open_conns
    journal,    \* RequestJournal: _records, oldest first, _total, _total_fired
    memory      \* no part of the program: the order in which requests were
                \* journaled, the firings on each, those let in under the cap,
                \* and the total when the journal was last cleared

planeVars == <<tasks, openConns, journal, memory>>

Entry == [request : Requests, fired : SUBSET RequestIds]

Live == {r \in Requests : tasks[r].stage \in LiveStages}

PlaneInit ==
    /\ Init
    /\ tasks = [r \in Requests |-> [stage |-> "unsent", waiting |-> FALSE, drip |-> FALSE]]
    /\ openConns = 0
    /\ journal = [records |-> <<>>, total |-> 0, totalFired |-> 0]
    /\ memory = [order |-> <<>>, capped |-> {}, cleared |-> 0]

-----------------------------------------------------------------------------
\* Mutant: a full ring keeps its oldest entry.
AppendedKeepingOldest(records, entry) ==
    IF Len(records) < Capacity THEN Append(records, entry) ELSE records

\* The ring after one more entry: beyond its capacity the oldest is dropped.
Appended(records, entry) ==
    IF Len(records) < Capacity THEN Append(records, entry)
                               ELSE Append(Tail(records), entry)

\* _record, and the journal's record.
Record(r, fired) ==
    LET entry == [request |-> r, fired |-> fired]
    IN  /\ journal' = [records    |-> Appended(journal.records, entry),
                       total      |-> journal.total + 1,
                       totalFired |-> journal.totalFired + Cardinality(fired)]
        /\ memory' = [order   |-> Append(memory.order, entry),
                       capped  |-> IF "net.conn_cap" \in fired THEN memory.capped \cup {r}
                                                               ELSE memory.capped,
                       cleared |-> memory.cleared]

\* Mutant: one connection beyond the cap is let in.
RefusesOffByOne(firing, open) ==
    \/ "net.unreachable" \in firing
    \/ "net.conn_cap" \in firing /\ open > MaxConns + 1

\* decision.refuse, with `open` connections counted.
Refuses(firing, open) ==
    \/ "net.unreachable" \in firing
    \/ "net.conn_cap" \in firing /\ open > MaxConns

\* The stage in which _decide_and_flush first awaits, or ends.
StageAfter(firing, open) ==
    IF Refuses(firing, open)              THEN "refused"
    ELSE IF "net.blackhole" \in firing    THEN "hung"
    ELSE IF "net.latency" \in firing      THEN "delayed"
    ELSE IF "http.slowloris" \in firing   THEN "dripping"
    ELSE "answered"

\* r is the request that comes next.
IsNext(r) ==
    /\ tasks[r].stage = "unsent"
    /\ \A q \in Requests : q < r => tasks[q].stage # "unsent"

\* The task of one request moves on.
Becomes(r, stage, waiting, drip) ==
    tasks' = [tasks EXCEPT ![r] = [stage |-> stage, waiting |-> waiting, drip |-> drip]]

\* The rest of _run once the whole request is there, up to its first await,
\* where the app returns: it has applied the request, the registry is asked
\* once, the journal records, and the decision is enacted.  `open` counts this
\* request.
Handle(r, firing, open) ==
    LET stage == StageAfter(firing, open)
    IN  /\ Request(firing)
        /\ Record(r, firing)
        /\ Becomes(r, stage, stage \in LiveStages,
                   stage = "delayed" /\ "http.slowloris" \in firing)
        /\ openConns' = IF stage \in LiveStages THEN open ELSE open - 1

\* Mutant: a task ends uncounted only if the app returns.
FailStillCounted(r, open) ==
    /\ Request({})
    /\ Becomes(r, "failed", FALSE, FALSE)
    /\ openConns' = open
    /\ UNCHANGED <<journal, memory>>

\* The same where the app raises, as it does on a form with a value that raises
\* in it, such as a NaN (post_parse.py:276): the keys before that one are applied, and nothing
\* after the app is run.  The registry is not asked, so that no fault fires, the
\* journal has no record, and the server answers 500 in the place of the app.
Fail(r, open) ==
    /\ Request({})
    /\ Becomes(r, "failed", FALSE, FALSE)
    /\ openConns' = open - 1
    /\ UNCHANGED <<journal, memory>>

\* A request that is there as a whole, a GET or a POST with its body.
Arrive(r, firing) ==
    /\ Powered
    /\ IsNext(r)
    /\ Handle(r, firing, openConns + 1)

ArriveAndFail(r) ==
    /\ Powered
    /\ IsNext(r)
    /\ Fail(r, openConns + 1)

\* A POST the body of which is still on its way: request.body() awaits it.
ArrivePartly(r) ==
    /\ Powered
    /\ IsNext(r)
    /\ Becomes(r, "body", TRUE, FALSE)
    /\ openConns' = openConns + 1
    /\ UNCHANGED <<vars, journal, memory>>

\* The power is not looked at again.
BodyArrives(r, firing) ==
    /\ tasks[r].stage = "body"
    /\ Handle(r, firing, openConns)

BodyArrivesAndFails(r) ==
    /\ tasks[r].stage = "body"
    /\ Fail(r, openConns)

\* Mutant: what comes in an outage is not journaled.
ArriveInOutageUnrecorded(r) ==
    /\ ~Powered
    /\ IsNext(r)
    /\ Becomes(r, "off", TRUE, FALSE)
    /\ UNCHANGED <<vars, openConns, journal, memory>>

\* In an outage a request is journaled, and held for good.
ArriveInOutage(r) ==
    /\ ~Powered
    /\ IsNext(r)
    /\ Becomes(r, "off", TRUE, FALSE)
    /\ Record(r, {})
    /\ UNCHANGED <<vars, openConns>>

\* Where a task is once its client has left.
StageLeft(r) == IF tasks[r].stage = "body" THEN "dropped" ELSE tasks[r].stage

\* Mutant: whenever a client leaves, its connection is no longer counted.
GiveUpAlwaysUncounts(r) ==
    /\ tasks[r].waiting
    /\ Becomes(r, StageLeft(r), FALSE, tasks[r].drip)
    /\ openConns' = openConns - 1
    /\ UNCHANGED <<vars, journal, memory>>

\* A client leaves.  A task that reads the body fails, unrecorded, and is no
\* longer counted; any other goes on as if the client were there.
GiveUp(r) ==
    /\ tasks[r].waiting
    /\ Becomes(r, StageLeft(r), FALSE, tasks[r].drip)
    /\ openConns' = IF tasks[r].stage = "body" THEN openConns - 1 ELSE openConns
    /\ UNCHANGED <<vars, journal, memory>>

\* The rest of a task that has slept or dripped.
Finish(r) ==
    /\ Becomes(r, "answered", FALSE, FALSE)
    /\ openConns' = openConns - 1
    /\ UNCHANGED <<vars, journal, memory>>

\* Mutant: a delayed answer waits for a client that still waits.
ResumeForClient(r) ==
    /\ tasks[r].stage = "delayed" /\ tasks[r].waiting
    /\ \/ ~tasks[r].drip /\ Finish(r)
       \/ /\ tasks[r].drip
          /\ Becomes(r, "dripping", tasks[r].waiting, FALSE)
          /\ UNCHANGED <<vars, openConns, journal, memory>>

\* A delay is over.
Resume(r) ==
    /\ tasks[r].stage = "delayed"
    /\ \/ ~tasks[r].drip /\ Finish(r)
       \/ /\ tasks[r].drip
          /\ Becomes(r, "dripping", tasks[r].waiting, FALSE)
          /\ UNCHANGED <<vars, openConns, journal, memory>>

\* The last piece of a dripped answer is sent.
FinishDrip(r) ==
    /\ tasks[r].stage = "dripping"
    /\ Finish(r)

\* DELETE /__admin/requests: the totals survive.
ClearJournal ==
    /\ journal' = [journal EXCEPT !.records = <<>>]
    /\ memory' = [memory EXCEPT !.cleared = journal.total]
    /\ UNCHANGED <<vars, tasks, openConns>>

-----------------------------------------------------------------------------
PlaneNext ==
    \/ (Substeps \/ AdminCalls) /\ UNCHANGED planeVars
    \/ ClearJournal
    \/ \E r \in Requests :
          \/ \E firing \in RequestFirings : Arrive(r, firing) \/ BodyArrives(r, firing)
          \/ ArriveAndFail(r) \/ BodyArrivesAndFails(r)
          \/ ArrivePartly(r)
          \/ ArriveInOutage(r)
          \/ GiveUp(r)
          \/ Resume(r)
          \/ FinishDrip(r)

PlaneSpec == PlaneInit /\ [][PlaneNext]_<<vars, planeVars>>

\* The event loop wakes what sleeps: a delay ends and a drip goes on.
PlaneFairSpec ==
    PlaneSpec /\ \A r \in Requests : WF_<<vars, planeVars>>(Resume(r) \/ FinishDrip(r))

-----------------------------------------------------------------------------
PlaneTypeOK ==
    /\ tasks \in [Requests -> TaskType]
    /\ openConns \in Nat
    /\ journal \in [records : Seq(Entry), total : Nat, totalFired : Nat]
    /\ memory \in [order : Seq(Entry), capped : SUBSET Requests, cleared : Nat]

\* The counter net.conn_cap is asked about is the number of tasks under way:
\* every task is counted once when it starts and uncounted once when it ends,
\* by an answer, a refusal, an exception or a lost client (device_faults.py:78).
OpenConnsAreTasks == openConns = Cardinality(Live)

\* Of the requests let in while net.conn_cap fired, no more than max_conns are
\* ever under way together, in whatever order their delays and bodies end
\* (network.py:97).
CapHolds == Cardinality(memory.capped \cap Live) <= MaxConns

\* The requests that were decided or held.
Taken == {r \in Requests : tasks[r].stage \notin {"unsent", "body", "failed", "dropped"}}

\* The requests that were journaled.
Journaled == {memory.order[i].request : i \in 1..Len(memory.order)}

\* The faults that fired, each with the place of its request.
Firings == UNION {{i} \X memory.order[i].fired : i \in 1..Len(memory.order)}

\* Every request that was decided or held is in the totals exactly once, and
\* every firing is counted (server.py:107).  One on which the app has raised is
\* in none, though part of it is applied: of these requests the journal does not
\* tell "what its client actually sent" (DESIGN 9).
JournalCountsEach ==
    /\ journal.total = Cardinality(Taken)
    /\ journal.total = Cardinality(Journaled)
    /\ journal.totalFired = Cardinality(Firings)

\* The journal shows the last requests handled since it was cleared, as many as
\* it has room for, in the order they were decided (server.py:93).
JournalIsTheLatest ==
    LET since == journal.total - memory.cleared
        kept  == IF since < Capacity THEN since ELSE Capacity
    IN  journal.records = SubSeq(memory.order, journal.total - kept + 1, journal.total)

\* A request that is delayed or dripped gets its whole answer, whether or not
\* its client, the power or the fault that delayed it is still there.
DelayedIsAnswered ==
    \A r \in Requests :
        tasks[r].stage \in {"delayed", "dripping"} ~> tasks[r].stage = "answered"

\* The requests whose client is still there.
Connected == {r \in Requests : tasks[r].waiting}

\* The cap refuses a request only when more than max_conns clients are
\* connected, this one included (DESIGN 8: "Cap concurrent connections; refuse
\* beyond it").
CapRefusesOnlyBeyond ==
    [][ \A r \in Requests :
          (/\ tasks[r].stage # "refused" /\ tasks'[r].stage = "refused"
           /\ "net.unreachable" \notin DOMAIN faults)
             => Cardinality(Connected \cup {r}) > MaxConns ]_<<vars, planeVars>>

\* No client leaves once its request is with the app and not answered yet.
ClientsStay ==
    [][ \A r \in Requests : GiveUp(r) => tasks[r].stage \notin LiveStages \ {"body"}
      ]_<<vars, planeVars>>

-----------------------------------------------------------------------------
(* What the proofs need on top: inductive parts.                            *)

\* Where the clients stay, every task that is counted has one.
LiveAreConnected == Live \subseteq Connected

\* A request is let in under the cap when it is handled, not before.
CappedWereHandled ==
    \A r \in memory.capped : tasks[r].stage \notin {"unsent", "body"}

\* The order in which requests were journaled is of those taken, as long as the
\* total, and the journal was not cleared in the future.
OrderIsOfTaken ==
    /\ Len(memory.order) = journal.total
    /\ memory.cleared <= journal.total
    /\ Journaled = Taken
    /\ IsFiniteSet(Firings)
=============================================================================
