----------------------------- MODULE Conformance -----------------------------
(***************************************************************************)
(* The daily conformance job, the declarations it reads, the runs it and   *)
(* a user request, and the evidence that comes in meanwhile                *)
(* (apps/server: conformance-daily.job.ts; packages/policy: activations;   *)
(* packages/replay: planConformance, findings).                            *)
(*                                                                         *)
(* Time is counted in ticks, DayLength of them a day. What the runtime     *)
(* does is a world: the tool calls it makes, what comes of each, and the   *)
(* declarations there are at first.                                        *)
(***************************************************************************)
EXTENDS ConformanceEvidence

CONSTANTS
    DocumentOf,        \* the accepted Policy Versions and their documents
    World,             \* what the runtime and the operator may do
    DayLength, CronAt, \* the ticks of a day, and when the job is due
    LastTick,          \* bound: the end of time
    MaxRuns            \* bound: runs

Version == DOMAIN DocumentOf

Nature == {"auto", "prompted", "refused", "approved", "denied", "blocked"}

\* What the daily job may end with.
DailyResult == {"none", "changed", "requested", "failed"}

Activation == [id : Nat, version : Version, at : Nat]

ASSUME ConformanceAssumption ==
    /\ DayLength \in Nat \ {0} /\ CronAt \in 0..(DayLength - 1) /\ LastTick \in Nat
    /\ MaxRuns \in Nat /\ Null \notin Version \cup DailyResult \cup Activation
    /\ \A v \in Version : DocumentOf[v] \in PolicyDocument
    /\ \A w \in World :
          /\ w.start \in 0..LastTick /\ w.declarations \in Nat
          /\ w.activations \subseteq [id : 1..w.declarations, version : Version, at : 0..w.start]
          /\ \A a, b \in w.activations : a.id = b.id => a = b
          /\ \A c \in w.calls : c.nature \in Nature /\ IsOperations(c.operations)
                                /\ c.at \in Nat /\ c.asksAt \in Nat

VARIABLES
    world,           \* the world
    now,             \* the clock
    activations,     \* policy_activations
    declaring,       \* a declaration that has read the clock and is not stored
    cron,            \* the day the schedule last sent its job for, and whether it waits
    job,             \* the daily job: [pc, day, version, known, result]
    outcomes,        \* agent_actions: what is stored of the outcome of a call
    observed,        \* runtime_observations
    runs             \* replay_runs of the kind conformance, in the order of requests

vars == <<world, now, activations, declaring, cron, job, outcomes, observed, runs>>
evidence == <<outcomes, observed>>

-----------------------------------------------------------------------------
(* The runtime                                                              *)

\* The outcome a transcript tells in the end.
OutcomeOf(nature) ==
    CASE nature \in {"auto", "prompted", "approved"} -> "executed"
      [] nature = "refused" -> "rejected_by_human"
      [] nature \in {"denied", "blocked"} -> "blocked_by_runtime"

Asks(nature) == nature \in {"prompted", "refused", "approved", "denied"}

HookDecisionOf(nature) ==
    CASE nature = "approved" -> "allow" [] nature = "denied" -> "deny" [] OTHER -> Null

Row(c, event) ==
    [event |-> event, session |-> c.session, input |-> c.input, mode |-> c.mode,
     actionKey |-> IF event = "pre_tool_use" THEN c.actionKey ELSE Null,
     hookDecision |-> IF event = "pre_tool_use" THEN Null ELSE HookDecisionOf(c.nature),
     at |-> IF event = "pre_tool_use" THEN c.at ELSE c.asksAt]

\* What the hooks of a Session that has them observe of a call.
RowsOf(c) ==
    IF ~c.isCovered THEN {}
    ELSE {Row(c, "pre_tool_use")} \cup
         IF Asks(c.nature) THEN {Row(c, "permission_request")} ELSE {}

AllRows == UNION {RowsOf(c) : c \in world.calls}

CallOf(actionKey) == CHOOSE c \in world.calls : c.actionKey = actionKey

-----------------------------------------------------------------------------

IdleJob == [pc |-> "idle", day |-> Null, version |-> Null, known |-> {}, result |-> Null]

Init ==
    /\ world \in World
    /\ now = world.start
    /\ activations = world.activations
    /\ declaring = Null
    /\ cron = [day |-> (world.start \div DayLength) - 1, isDue |-> FALSE]
    /\ job = IdleJob
    /\ outcomes = [k \in {} |-> Null]
    /\ observed = {}
    /\ runs = <<>>

Tick ==
    /\ now < LastTick
    /\ now' = now + 1
    /\ UNCHANGED <<world, activations, declaring, cron, job, evidence, runs>>

\* A transcript is imported: what it tells of a call is unknown or what came of it.
ImportAction(c) ==
    /\ \E outcome \in {"unknown", OutcomeOf(c.nature)} :
          /\ c.actionKey \in DOMAIN outcomes =>
                outcomes[c.actionKey] = "unknown" /\ outcome # "unknown"
          /\ outcomes' = [k \in DOMAIN outcomes \cup {c.actionKey} |->
                            IF k = c.actionKey THEN outcome ELSE outcomes[k]]
    /\ UNCHANGED <<world, now, activations, declaring, cron, job, observed, runs>>

\* A spool is flushed; an observation may come late.
IngestObservation(row) ==
    /\ row \notin observed
    /\ observed' = observed \cup {row}
    /\ UNCHANGED <<world, now, activations, declaring, cron, job, outcomes, runs>>

-----------------------------------------------------------------------------
(* Declarations                                                             *)

Declared == Cardinality(activations) + (IF declaring = Null THEN 0 ELSE 1)

\* declareActivation reads the clock.
Declare(v) ==
    /\ declaring = Null /\ Declared < world.declarations
    /\ declaring' = [version |-> v, at |-> now]
    /\ UNCHANGED <<world, now, activations, cron, job, evidence, runs>>

\* And then stores the row, under an id that says nothing of the time.
StoreActivation ==
    /\ declaring # Null
    /\ \E id \in 1..world.declarations :
          /\ \A row \in activations : row.id # id
          /\ activations' = activations \cup
                              {[id |-> id, version |-> declaring.version, at |-> declaring.at]}
    /\ declaring' = Null
    /\ UNCHANGED <<world, now, cron, job, evidence, runs>>

IsNewer(a, b) == a.at > b.at \/ (a.at = b.at /\ a.id > b.id)

FindLatestActivation(asOf) ==
    LET rows == {row \in activations : row.at <= asOf}
    IN IF rows = {} THEN Null
       ELSE CHOOSE a \in rows : \A b \in rows \ {a} : IsNewer(a, b)

ListActivationsBetween(from, to) == {row \in activations : from < row.at /\ row.at <= to}

-----------------------------------------------------------------------------
(* Runs                                                                     *)

WindowOf(day) == [from |-> day * DayLength, to |-> (day + 1) * DayLength - 1]

ActionOf(k) ==
    [actionKey |-> k, session |-> CallOf(k).session, operations |-> CallOf(k).operations,
     outcome |-> outcomes[k], at |-> CallOf(k).at]

\* What prepare and collectObservations read: the Actions of the window, and all
\* observations of the Sessions that have an Action or an observation in it.
ReadActions(window) == {a \in {ActionOf(k) : k \in DOMAIN outcomes} : IsInWindow(a.at, window)}

ListObservationSessions(window) ==
    {row.session : row \in {r \in observed : IsInWindow(r.at, window)}}

GetObservations(sessions) == {row \in observed : row.session \in sessions}

ReadObservations(window) ==
    GetObservations({a.session : a \in ReadActions(window)} \cup ListObservationSessions(window))

\* The times the findings page reads its gaps from, each once and in order.
ListObservationTimes(window) ==
    LET times == {row.at : row \in {r \in observed : IsInWindow(r.at, window)}}
    IN CHOOSE s \in [1..Cardinality(times) -> times] : \A i, j \in DOMAIN s : i < j => s[i] < s[j]

LastActionKey(actions) ==
    IF actions = {} THEN Null
    ELSE LET IsAfter(a, b) == a.at > b.at \/ (a.at = b.at /\ RankOf(a.actionKey) > RankOf(b.actionKey))
         IN (CHOOSE a \in actions : \A b \in actions \ {a} : IsAfter(a, b)).actionKey

\* The inputsHash tells how many Actions and observations there are, and not which.
InputsHash(v, day) ==
    LET actions == ReadActions(WindowOf(day))
    IN <<DocumentOf[v], day, Cardinality(actions), LastActionKey(actions),
         Cardinality(ReadObservations(WindowOf(day)))>>

\* requestConformanceReplay: a completed run of the same inputs is the answer, else
\* one is queued.
Request(v, day) ==
    IF \E n \in DOMAIN runs : runs[n].status = "completed" /\ runs[n].inputsHash = InputsHash(v, day)
    THEN UNCHANGED runs
    ELSE runs' = Append(runs, [version |-> v, day |-> day, inputsHash |-> InputsHash(v, day),
                               status |-> "queued", result |-> Null, isWhole |-> FALSE])

\* A user requests a run of any version.
RequestRun(v) ==
    /\ Len(runs) < MaxRuns
    /\ \E c \in world.calls : Request(v, c.at \div DayLength)
    /\ UNCHANGED <<world, now, activations, declaring, cron, job, evidence>>

\* Every call and observation of the world is stored, and every outcome is known.
EverythingIsKnown ==
    /\ observed = AllRows
    /\ \A c \in world.calls :
          c.actionKey \in DOMAIN outcomes /\ outcomes[c.actionKey] = OutcomeOf(c.nature)

\* The job of a run: one whose inputs have changed fails.
ExecuteRun(n) ==
    /\ runs[n].status = "queued"
    /\ LET window == WindowOf(runs[n].day)
       IN IF InputsHash(runs[n].version, runs[n].day) # runs[n].inputsHash
          THEN runs' = [runs EXCEPT ![n].status = "failed"]
          ELSE \E rows \in SetToSeqs(ReadObservations(window)) :
                  runs' = [runs EXCEPT
                             ![n].status = "completed",
                             ![n].isWhole = EverythingIsKnown,
                             ![n].result = ComputeConformance(DocumentOf[runs[n].version],
                                                              ReadActions(window), rows, window)]
    /\ UNCHANGED <<world, now, activations, declaring, cron, job, evidence>>

-----------------------------------------------------------------------------
(* The daily job                                                            *)

\* The schedule: once for the days since it last sent one, now or when the server is
\* up again.
CronFires ==
    /\ (now - CronAt) \div DayLength > cron.day
    /\ now >= CronAt
    /\ cron' = [day |-> (now - CronAt) \div DayLength, isDue |-> TRUE]
    /\ UNCHANGED <<world, now, activations, declaring, job, evidence, runs>>

PreviousUtcDay == (now \div DayLength) - 1

\* The first read: the declaration in effect when the day began.
BeginJob ==
    /\ job.pc = "idle" /\ cron.isDue
    /\ LET latest == FindLatestActivation(WindowOf(PreviousUtcDay).from)
       IN job' = IF latest = Null
                 THEN [IdleJob EXCEPT !.pc = "done", !.day = PreviousUtcDay,
                                      !.known = activations, !.result = "none"]
                 ELSE [IdleJob EXCEPT !.pc = "list", !.day = PreviousUtcDay,
                                      !.known = activations, !.version = latest]
    /\ UNCHANGED <<world, now, activations, declaring, cron, evidence, runs>>

\* Mutant: the list begins after the starting declaration.
ListAfterStart ==
    /\ job.pc = "list"
    /\ LET during == ListActivationsBetween(job.version.at, WindowOf(job.day).to)
           switched == {row \in during : row.version # job.version.version}
       IN job' = IF switched = {} THEN [job EXCEPT !.pc = "request"]
                 ELSE [job EXCEPT !.pc = "done", !.result = "changed"]
    /\ UNCHANGED <<world, now, activations, declaring, cron, evidence, runs>>

\* The second read: what was declared since, and in the same tick.
ListDuring ==
    /\ job.pc = "list"
    /\ LET during == ListActivationsBetween(job.version.at - 1, WindowOf(job.day).to)
           switched == {row \in during : row.version # job.version.version}
       IN job' = IF switched = {} THEN [job EXCEPT !.pc = "request"]
                 ELSE [job EXCEPT !.pc = "done", !.result = "changed"]
    /\ UNCHANGED <<world, now, activations, declaring, cron, evidence, runs>>

RequestDaily ==
    /\ job.pc = "request" /\ Len(runs) < MaxRuns
    /\ Request(job.version.version, job.day)
    /\ job' = [job EXCEPT !.pc = "done", !.result = "requested"]
    /\ UNCHANGED <<world, now, activations, declaring, cron, evidence>>

\* A read or the request of the run is answered with an error: the job logs it and
\* ends well, so that it is not delivered again.
JobFails ==
    /\ job.pc \in {"list", "request"} \/ (job.pc = "idle" /\ cron.isDue)
    /\ job' = [IdleJob EXCEPT !.pc = "done", !.day = PreviousUtcDay, !.result = "failed"]
    /\ UNCHANGED <<world, now, activations, declaring, cron, evidence, runs>>

EndJob ==
    /\ job.pc = "done"
    /\ job' = IdleJob
    /\ cron' = [cron EXCEPT !.isDue = FALSE]
    /\ UNCHANGED <<world, now, activations, declaring, evidence, runs>>

\* The server stops before the queue has heard of the end: the job is delivered again.
Crash ==
    /\ job.pc # "idle"
    /\ job' = IdleJob
    /\ UNCHANGED <<world, now, activations, declaring, cron, evidence, runs>>

Next ==
    \/ Tick
    \/ \E c \in world.calls : ImportAction(c)
    \/ \E row \in AllRows : IngestObservation(row)
    \/ \E v \in Version : Declare(v) \/ RequestRun(v)
    \/ StoreActivation
    \/ \E n \in DOMAIN runs : ExecuteRun(n)
    \/ CronFires \/ BeginJob \/ ListDuring \/ RequestDaily \/ JobFails \/ EndJob \/ Crash

Spec == Init /\ [][Next]_vars

-----------------------------------------------------------------------------
(* Properties                                                               *)

Window == WindowOf(job.day)
Effective(rows) ==
    LET before == {row \in rows : row.at <= Window.from}
    IN {row \in rows : row.at <= Window.to /\ \A other \in before : other.at <= row.at}

\* The job checks a day against the one version that was declared for all of it: of
\* what was stored when it began, no other is from the moment of the starting
\* declaration (whose order nobody can tell) to the end of the day.
DayIsCheckedAgainstItsVersion ==
    job.result = "requested" =>
        /\ \E row \in job.known : row.at <= Window.from
        /\ \A row \in Effective(job.known) : row.version = job.version.version

EffectOn(c, v) == IF DOMAIN c.operations = {} THEN Null ELSE ActionEffect(c.operations, DocumentOf[v])

\* What a call amounts to, told by what the runtime did with it.
TrueKind(c, v) ==
    CASE EffectOn(c, v) = "deny" /\ OutcomeOf(c.nature) = "executed" -> "violation"
      [] EffectOn(c, v) = "ask" /\ c.nature = "auto" /\ c.isCovered -> "under_asked"
      [] /\ EffectOn(c, v) = "allow"
         /\ \/ c.nature = "refused"
            \/ c.nature = "prompted" /\ c.isCovered -> "over_asked"
      [] OTHER -> Null

\* A run that has read all there is to read reports what the runtime did, each call
\* for itself, though requests for permission do not name the call they are for and
\* some come on another day.
FindingsTellWhatHappened ==
    \A n \in DOMAIN runs :
        runs[n].isWhole =>
            \A c \in world.calls :
                LET of == {f \in runs[n].result.findings :
                              \E a \in f.members : a.actionKey = c.actionKey}
                    isInIt == IsInWindow(c.at, WindowOf(runs[n].day))
                    kind == TrueKind(c, runs[n].version)
                IN IF isInIt /\ kind # Null
                   THEN \E f \in of : of = {f} /\ f.signature.kind = kind
                   ELSE of = {}

\* A day's length without an observation is in a gap the findings page shows, and no
\* gap it shows has an observation inside.
NoSilenceIsMissed ==
    \A n \in DOMAIN runs :
        LET window == [WindowOf(runs[n].day) EXCEPT !.to = @ + DayLength]
            gaps == FindObservationGaps(ListObservationTimes(window), window, DayLength)
        IN /\ \A from \in window.from..(window.to + 1 - DayLength) :
                 (\A row \in observed : row.at \notin from..(from + DayLength - 1)) =>
                    \E gap \in gaps : gap.from <= from /\ from + DayLength - 1 <= gap.to
           /\ \A gap \in gaps, row \in observed : row.at \notin (gap.from + 1)..(gap.to - 1)

\* The Rule a draft is given for a finding reaches every Action of it, and moves
\* decisions in the one direction its Effect stands for.
DraftsMoveOneWay ==
    \A n \in DOMAIN runs : runs[n].status = "completed" =>
        \A f \in runs[n].result.findings, effect \in Effect :
            IsEffectAllowedForFinding(f.signature.kind, effect) =>
                LET document == DocumentOf[runs[n].version]
                    id == CHOOSE id \in 1..(Cardinality(document.rules) + 1) :
                             \A rule \in document.rules : rule.ruleId # id
                    rule == RuleDraftFromFinding(f.signature, effect, id)
                    edited == [document EXCEPT !.rules = @ \cup {rule}]
                IN /\ \A a \in f.members :
                         \E i \in DOMAIN a.operations : rule \in Matched(a.operations[i], edited)
                   /\ \A c \in world.calls : DOMAIN c.operations # {} =>
                         LET old == ActionEffect(c.operations, document)
                             new == ActionEffect(c.operations, edited)
                         IN IF effect = "allow" THEN ~IsWider(new, old) ELSE ~IsWider(old, new)

\* A finding can be acted on: it tells what happened, and the Rule drafted from it does
\* what its Effect says to the Actions it names and the others. The worlds it is
\* checked in have no two equal calls in flight at a time: a request for permission
\* tells the input of its call and not which of them it is, so that
\* pairPermissionRequests may give the one's answer to the other.
FindingsCanBeActedOn == FindingsTellWhatHappened /\ DraftsMoveOneWay
=============================================================================
