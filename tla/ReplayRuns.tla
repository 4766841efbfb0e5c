----------------------------- MODULE ReplayRuns -----------------------------
(***************************************************************************)
(* A Replay Run from its request to its result: packages/replay over the   *)
(* job queue, which delivers a job at least once.                          *)
(*                                                                         *)
(* A server process has one worker of the replay.run queue, and recovers   *)
(* interrupted runs once when it starts, while its worker already runs and *)
(* while another server process may. An action is the code from one await  *)
(* to the next. The kinds of run differ in what they compute and not in    *)
(* what happens here.                                                      *)
(*                                                                         *)
(* The inputs of a run (versions, window, classifier version, recorded     *)
(* Actions) are told apart by their inputsHash; inputs is what the store   *)
(* holds now.                                                              *)
(***************************************************************************)
EXTENDS Integers, FiniteSets

CONSTANTS
    Run,          \* replay run ids; how many there are is a bound
    Server,       \* server processes that may be up at once
    Request,      \* concurrent requests for a run
    Inputs,       \* inputsHashes
    MaxFault,     \* bound: failed calls and crashes in a behaviour
    None          \* stands for null

ASSUME ReplayAssumption ==
    /\ MaxFault \in Nat
    /\ None \notin Inputs \cup Run

VARIABLES
    run,          \* replay_runs, by id
    waiting,      \* jobs of a run that wait for delivery: none, one, or more
    worker,       \* the worker of a server and the job it handles
    boot,         \* what a server has done of its recovery
    request,      \* the requests being handled
    inputs,       \* the inputsHash the store's contents have now
    faults        \* faults so far

vars == <<run, waiting, worker, boot, request, inputs, faults>>

-----------------------------------------------------------------------------

RunStatus == {"absent", "queued", "running", "completed", "failed"}

\* "late" is startedAt more than STALE_RUN_MS ago.
RunRow ==
    [status : RunStatus, inputs : Inputs \cup {None},
     result : Inputs \cup {None}, late : BOOLEAN]

NoRun == [status |-> "absent", inputs |-> None, result |-> None, late |-> FALSE]

\* "record" holds the computed completion; "failQueued" and "markFailed" are on
\* their way to write a failure.
WorkerState ==
    [at : {"idle", "plan", "claim", "record", "failQueued", "markFailed"},
     run : Run \cup {None}, inputs : Inputs \cup {None}]

IdleWorker == [at |-> "idle", run |-> None, inputs |-> None]

BootState == [at : {"down", "stale", "list", "send", "up"}, todo : SUBSET Run]
Down == [at |-> "down", todo |-> {}]

RequestState ==
    [at : {"idle", "find", "insert", "send"},
     inputs : Inputs \cup {None}, run : Run \cup {None}]

IdleRequest == [at |-> "idle", inputs |-> None, run |-> None]

TypeOK ==
    /\ run \in [Run -> RunRow]
    /\ waiting \in [Run -> 0..2]
    /\ worker \in [Server -> WorkerState]
    /\ boot \in [Server -> BootState]
    /\ request \in [Request -> RequestState]
    /\ inputs \in Inputs
    /\ faults \in 0..MaxFault

Init ==
    /\ run = [n \in Run |-> NoRun]
    /\ waiting = [n \in Run |-> 0]
    /\ worker = [s \in Server |-> IdleWorker]
    /\ boot = [s \in Server |-> Down]
    /\ request = [q \in Request |-> IdleRequest]
    /\ inputs \in Inputs
    /\ faults = 0

Status(n) == run[n].status
IsUp(s) == boot[s].at # "down"

\* Bound: a third waiting job of one run adds nothing to two, so it is not
\* counted.
Sent(n) == [waiting EXCEPT ![n] = IF @ < 2 THEN @ + 1 ELSE @]

Fault == faults < MaxFault /\ faults' = faults + 1

-----------------------------------------------------------------------------
(* requestReplay, requestConformanceReplay and requestAdoptionReplay        *)

\* The plan: what the versions and the recorded Actions are now.
PlanRequest(q) ==
    /\ request[q].at = "idle"
    /\ \E s \in Server : IsUp(s)
    /\ request' = [request EXCEPT ![q] =
                     [IdleRequest EXCEPT !.at = "find", !.inputs = inputs]]
    /\ UNCHANGED <<run, waiting, worker, boot, inputs, faults>>

\* findCompletedByInputsHash: a completed run of the same inputs is the answer.
FindCompleted(q) ==
    /\ request[q].at = "find"
    /\ request' = [request EXCEPT ![q] =
                     IF \E n \in Run : /\ Status(n) = "completed"
                                       /\ run[n].inputs = request[q].inputs
                     THEN IdleRequest
                     ELSE [@ EXCEPT !.at = "insert"]]
    /\ UNCHANGED <<run, waiting, worker, boot, inputs, faults>>

InsertQueuedRun(q, n) ==
    /\ request[q].at = "insert"
    /\ Status(n) = "absent"
    /\ run' = [run EXCEPT ![n] =
                 [NoRun EXCEPT !.status = "queued", !.inputs = request[q].inputs]]
    /\ request' = [request EXCEPT ![q].at = "send", ![q].run = n]
    /\ UNCHANGED <<waiting, worker, boot, inputs, faults>>

SendJob(q) ==
    /\ request[q].at = "send"
    /\ waiting' = Sent(request[q].run)
    /\ request' = [request EXCEPT ![q] = IdleRequest]
    /\ UNCHANGED <<run, worker, boot, inputs, faults>>

\* A call of the request fails, or its server ends. Bound: a request with no run
\* left to insert ends here too.
AbortRequest(q) ==
    /\ request[q].at # "idle"
    /\ request' = [request EXCEPT ![q] = IdleRequest]
    /\ \/ Fault
       \/ /\ request[q].at = "insert"
          /\ \A n \in Run : Status(n) # "absent"
          /\ UNCHANGED faults
    /\ UNCHANGED <<run, waiting, worker, boot, inputs>>

-----------------------------------------------------------------------------
(* runReplay, the handler of a job                                          *)

\* The job ends: it was handled, whatever became of the run.
Finish(s) == worker' = [worker EXCEPT ![s] = IdleWorker]
Goto(s, step) == worker' = [worker EXCEPT ![s].at = step]
SetStatus(n, status) == run' = [run EXCEPT ![n].status = status]

\* A delivery, and getRun: only a queued run is executed.
Deliver(s, n) ==
    /\ IsUp(s)
    /\ worker[s].at = "idle"
    /\ waiting[n] > 0
    /\ waiting' = [waiting EXCEPT ![n] = @ - 1]
    /\ IF Status(n) = "queued"
       THEN worker' = [worker EXCEPT ![s] =
                         [IdleWorker EXCEPT !.at = "plan", !.run = n]]
       ELSE UNCHANGED worker
    /\ UNCHANGED <<run, boot, request, inputs, faults>>

\* Mutant of Plan: the inputs are not compared.
PlanAnyInputs(s) ==
    /\ worker[s].at = "plan"
    /\ worker' = [worker EXCEPT ![s].at = "claim", ![s].inputs = inputs]
    /\ UNCHANGED <<run, waiting, boot, request, inputs, faults>>

\* The plan of the run as the store is now, compared with the run's inputsHash. A
\* plan may be refused (replay.classifier_version_mismatch).
Plan(s) ==
    /\ worker[s].at = "plan"
    /\ \/ /\ inputs = run[worker[s].run].inputs
          /\ worker' = [worker EXCEPT ![s].at = "claim", ![s].inputs = inputs]
       \/ Goto(s, "failQueued")
    /\ UNCHANGED <<run, waiting, boot, request, inputs, faults>>

\* Mutant of FailQueued: the failure is written whatever the status is.
FailAnyway(s) ==
    /\ worker[s].at = "failQueued"
    /\ SetStatus(worker[s].run, "failed")
    /\ Finish(s)
    /\ UNCHANGED <<waiting, boot, request, inputs, faults>>

\* failQueuedRun, guarded by the status.
FailQueued(s) ==
    LET n == worker[s].run IN
    /\ worker[s].at = "failQueued"
    /\ IF Status(n) = "queued" THEN SetStatus(n, "failed") ELSE UNCHANGED run
    /\ Finish(s)
    /\ UNCHANGED <<waiting, boot, request, inputs, faults>>

\* Mutant of Claim: the update has no condition on the status.
ClaimAny(s) ==
    /\ worker[s].at = "claim"
    /\ SetStatus(worker[s].run, "running")
    /\ Goto(s, "record")
    /\ UNCHANGED <<waiting, boot, request, inputs, faults>>

\* markRunning, guarded by the status: it tells whether this delivery has the run.
Claim(s) ==
    LET n == worker[s].run IN
    /\ worker[s].at = "claim"
    /\ IF Status(n) = "queued"
       THEN SetStatus(n, "running") /\ Goto(s, "record")
       ELSE Finish(s) /\ UNCHANGED run
    /\ UNCHANGED <<waiting, boot, request, inputs, faults>>

\* recordCompletion, one transaction, whatever the status of the run is by now.
Record(s) ==
    LET n == worker[s].run IN
    /\ worker[s].at = "record"
    /\ run' = [run EXCEPT ![n].status = "completed", ![n].result = worker[s].inputs]
    /\ Finish(s)
    /\ UNCHANGED <<waiting, boot, request, inputs, faults>>

\* markFailed has no condition either.
MarkFailed(s) ==
    /\ worker[s].at = "markFailed"
    /\ SetStatus(worker[s].run, "failed")
    /\ Finish(s)
    /\ UNCHANGED <<waiting, boot, request, inputs, faults>>

-----------------------------------------------------------------------------
(* Faults                                                                   *)

\* A job that was not handled is delivered again, until its retries are used up.
Redelivered(n) == waiting' \in {Sent(n), waiting}

\* A read of the plan throws, and so does the handler.
PlanThrows(s) ==
    /\ worker[s].at = "plan"
    /\ Fault
    /\ Redelivered(worker[s].run)
    /\ Finish(s)
    /\ UNCHANGED <<run, boot, request, inputs>>

\* The call that claims or completes the run, or the computation, throws: execute
\* catches it and goes on to mark the run failed.
ExecuteThrows(s) ==
    /\ worker[s].at \in {"claim", "record"}
    /\ Fault
    /\ Goto(s, "markFailed")
    /\ UNCHANGED <<run, waiting, boot, request, inputs>>

\* Marking a failure throws: persistFailure logs it, and the job ends.
MarkThrows(s) ==
    /\ worker[s].at \in {"failQueued", "markFailed"}
    /\ Fault
    /\ Finish(s)
    /\ UNCHANGED <<run, waiting, boot, request, inputs>>

\* The server process ends: its job is delivered again once it expires.
Crash(s) ==
    /\ IsUp(s)
    /\ Fault
    /\ IF worker[s].at = "idle" THEN UNCHANGED waiting ELSE Redelivered(worker[s].run)
    /\ boot' = [boot EXCEPT ![s] = Down]
    /\ Finish(s)
    /\ UNCHANGED <<run, request, inputs>>

-----------------------------------------------------------------------------
(* Servers start, recover, and stop                                         *)

Start(s) ==
    /\ boot[s].at = "down"
    /\ boot' = [boot EXCEPT ![s].at = "stale"]
    /\ UNCHANGED <<run, waiting, worker, request, inputs, faults>>

\* failStaleRunningRuns, one update.
FailStaleRuns(s) ==
    /\ boot[s].at = "stale"
    /\ run' = [n \in Run |-> IF Status(n) = "running" /\ run[n].late
                             THEN [run[n] EXCEPT !.status = "failed"]
                             ELSE run[n]]
    /\ boot' = [boot EXCEPT ![s].at = "list"]
    /\ UNCHANGED <<waiting, worker, request, inputs, faults>>

\* Mutant of ListQueued: nothing is sent again.
ListNothing(s) ==
    /\ boot[s].at = "list"
    /\ boot' = [boot EXCEPT ![s] = [at |-> "send", todo |-> {}]]
    /\ UNCHANGED <<run, waiting, worker, request, inputs, faults>>

ListQueued(s) ==
    /\ boot[s].at = "list"
    /\ boot' = [boot EXCEPT ![s] =
                  [at |-> "send", todo |-> {n \in Run : Status(n) = "queued"}]]
    /\ UNCHANGED <<run, waiting, worker, request, inputs, faults>>

Resend(s) ==
    /\ boot[s].at = "send"
    /\ \E n \in boot[s].todo :
         /\ waiting' = Sent(n)
         /\ boot' = [boot EXCEPT ![s].todo = @ \ {n}]
    /\ UNCHANGED <<run, worker, request, inputs, faults>>

Recovered(s) == boot[s].at = "send" /\ boot[s].todo = {}

EndRecovery(s) ==
    /\ Recovered(s)
    /\ boot' = [boot EXCEPT ![s].at = "up"]
    /\ UNCHANGED <<run, waiting, worker, request, inputs, faults>>

\* A call of the recovery throws: swallowed, the server goes on.
RecoveryThrows(s) ==
    /\ boot[s].at \in {"stale", "list", "send"}
    /\ Fault
    /\ boot' = [boot EXCEPT ![s] = [at |-> "up", todo |-> {}]]
    /\ UNCHANGED <<run, waiting, worker, request, inputs>>

\* jobQueue.stop is graceful: the job at hand is finished first.
Stop(s) ==
    /\ boot[s].at = "up"
    /\ worker[s].at = "idle"
    /\ boot' = [boot EXCEPT ![s] = Down]
    /\ UNCHANGED <<run, waiting, worker, request, inputs, faults>>

-----------------------------------------------------------------------------
(* Time, and what else writes to the store                                  *)

BecomesLate(n) ==
    /\ Status(n) = "running"
    /\ ~run[n].late
    /\ run' = [run EXCEPT ![n].late = TRUE]
    /\ UNCHANGED <<waiting, worker, boot, request, inputs, faults>>

\* An import, a reclassification or an edit of a draft.
ChangeInputs(i) ==
    /\ i # inputs
    /\ inputs' = i
    /\ UNCHANGED <<run, waiting, worker, boot, request, faults>>

-----------------------------------------------------------------------------

RequestStep(q) ==
    \/ PlanRequest(q)
    \/ FindCompleted(q)
    \/ \E n \in Run : InsertQueuedRun(q, n)
    \/ SendJob(q)
    \/ AbortRequest(q)

Delivery(s) == \E n \in Run : Deliver(s, n)
HandlerStep(s) ==
    Plan(s) \/ FailQueued(s) \/ Claim(s) \/ Record(s) \/ MarkFailed(s)

RecoveryStep(s) == FailStaleRuns(s) \/ ListQueued(s) \/ Resend(s) \/ EndRecovery(s)

FaultStep(s) ==
    \/ PlanThrows(s)
    \/ ExecuteThrows(s)
    \/ MarkThrows(s)
    \/ RecoveryThrows(s)
    \/ Crash(s)

Next ==
    \/ \E q \in Request : RequestStep(q)
    \/ \E s \in Server :
         \/ Delivery(s)
         \/ HandlerStep(s)
         \/ RecoveryStep(s)
         \/ FaultStep(s)
         \/ Start(s)
         \/ Stop(s)
    \/ \E n \in Run : BecomesLate(n)
    \/ \E i \in Inputs : ChangeInputs(i)

\* The queue delivers what waits to a server that is up, though servers come and
\* go (strong); a handler and a recovery go on at the next await, a server that is
\* down is started, and time passes (weak). Nothing makes a fault, a request, a
\* change of inputs or a stop happen.
Fairness ==
    /\ \A s \in Server : WF_vars(HandlerStep(s)) /\ WF_vars(RecoveryStep(s))
    /\ \A s \in Server, n \in Run : SF_vars(Deliver(s, n))
    /\ \A s \in Server : WF_vars(Start(s))
    /\ \A n \in Run : WF_vars(BecomesLate(n))

Spec == Init /\ [][Next]_vars

FairSpec == Spec /\ Fairness

-----------------------------------------------------------------------------

\* A result is recorded under the inputsHash it was computed from, however long
\* the job waited and whatever was imported or edited meanwhile (ACR-0015: "fails
\* with replay.inputs_changed instead of recording a result under a hash it does
\* not match").
ResultIsOfItsInputs ==
    \A n \in Run : Status(n) = "completed" => run[n].result = run[n].inputs

\* A run is executed by one delivery, however many of its jobs there are: no two
\* workers hold a completion of it, and none holds one of a run that has a result.
ExecutedOnce ==
    \A s \in Server : worker[s].at = "record" =>
        /\ run[worker[s].run].result = None
        /\ \A t \in Server \ {s} :
             worker[t].at = "record" => worker[t].run # worker[s].run

\* Servers that keep being restarted and get through their recovery.
RestartedAgainAndAgain == []<>(\E s \in Server : Recovered(s))

\* "a run whose job was lost still executes" (packages/replay/lib/app/module.ts:209):
\* with restarts, no run stays queued.
LostJobsStillExecute ==
    RestartedAgainAndAgain =>
        \A n \in Run : (Status(n) = "queued") ~> (Status(n) # "queued")

\* "Fails runs left running past 60 s" (packages/replay/lib/app/module.ts:208):
\* with restarts, no run stays running, though the worker that ran it is gone.
InterruptedRunsEnd ==
    RestartedAgainAndAgain =>
        \A n \in Run : (Status(n) = "running") ~> (Status(n) # "running")

\* With restarts, no run stays queued or running for ever.
NoRunIsStuck == LostJobsStillExecute /\ InterruptedRunsEnd

\* "A failure found before the claim fails the run only while it is still queued,
\* so it never overwrites a run another delivery claimed or completed"
\* (docs/acr/0015-job-queue.md:33): a run that is completed, or that a worker is
\* about to complete, becomes failed only by a delivery one of whose own calls
\* threw. Recovery, which fails late runs, is left aside.
OthersAreLeftAlone ==
    [][\A n \in Run :
         /\ ~run[n].late
         /\ \/ Status(n) = "completed"
            \/ /\ Status(n) = "running"
               /\ \E s \in Server : worker[s].at = "record" /\ worker[s].run = n
         /\ \A s \in Server : worker[s].at = "markFailed" => worker[s].run # n
         => run'[n].status # "failed"]_vars

\* A run as its row tells, without the clock, and the runs whose completion a
\* worker holds.
Lives ==
    [n \in Run |->
        [status |-> run[n].status, inputs |-> run[n].inputs, result |-> run[n].result]]
Computed == {worker[s].run : s \in {t \in Server : worker[t].at = "record"}}

Lifecycle == INSTANCE RunLifecycle WITH life <- Lives, computing <- Computed

\* Through repeated deliveries, failed calls, crashes and recoveries the table keeps
\* the promise of RunLifecycle: markRunning lets one delivery execute a run, and what
\* that one records is the result of the inputs the run was requested for.
ImplementsRunLifecycle == Lifecycle!Spec
=============================================================================
