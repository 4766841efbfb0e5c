-------------------------- MODULE ReplayRunsProofs --------------------------
(***************************************************************************)
(* Proofs about ReplayRuns, for any number of runs, server processes,      *)
(* requests, inputs and faults: a run is executed by one delivery, its     *)
(* result is recorded under the inputs it was computed from, and the table *)
(* implements RunLifecycle.                                                *)
(*                                                                         *)
(* The inductive invariant says what the guarded update of markRunning     *)
(* gives: a run that has left "queued" never comes back to it, so at most  *)
(* one delivery ever gets past the claim.                                  *)
(***************************************************************************)
EXTENDS ReplayRuns, TLAPS

\* A worker that is busy has a run of the table.
WorkersHaveRuns ==
    \A s \in Server : worker[s].at # "idle" =>
        worker[s].run \in Run /\ Status(worker[s].run) # "absent"

\* What a worker computes, it computes from the inputs of its run.
WorkersHaveInputs ==
    \A s \in Server : worker[s].at \in {"claim", "record"} =>
        worker[s].inputs = run[worker[s].run].inputs

\* The run of a worker past its claim is not queued any more.
ClaimedRunsLeftTheQueue ==
    \A s \in Server : worker[s].at = "record" => Status(worker[s].run) # "queued"

\* A run that waits has no result.
WaitingRunsHaveNoResult ==
    \A n \in Run : Status(n) \in {"absent", "queued"} => run[n].result = None

\* A result is of the inputs of its run, and a completed run has that result.
ResultsMatch ==
    \A n \in Run :
        /\ run[n].result # None => run[n].result = run[n].inputs
        /\ Status(n) = "completed" => run[n].result = run[n].inputs

IInv ==
    /\ TypeOK
    /\ WorkersHaveRuns
    /\ WorkersHaveInputs
    /\ ClaimedRunsLeftTheQueue
    /\ WaitingRunsHaveNoResult
    /\ ResultsMatch
    /\ ExecutedOnce

-----------------------------------------------------------------------------

LEMMA RowTypes ==
    /\ NoRun \in RunRow
    /\ IdleWorker \in WorkerState
    /\ Down \in BootState
    /\ IdleRequest \in RequestState
PROOF
<1>1. NoRun \in RunRow
  BY DEF NoRun, RunRow, RunStatus
<1>2. IdleWorker \in WorkerState
  BY DEF IdleWorker, WorkerState
<1>3. Down \in BootState
  BY DEF Down, BootState
<1>4. IdleRequest \in RequestState
  BY DEF IdleRequest, RequestState
<1> QED
  BY <1>1, <1>2, <1>3, <1>4

LEMMA SentType ==
    ASSUME waiting \in [Run -> 0..2], NEW n
    PROVE  Sent(n) \in [Run -> 0..2]
PROOF
<1>1. CASE n \in Run
  <2>1. waiting[n] \in 0..2 /\ (waiting[n] < 2 => waiting[n] + 1 \in 0..2)
    BY <1>1
  <2> QED
    BY <1>1, <2>1 DEF Sent
<1>2. CASE n \notin Run
  BY <1>2 DEF Sent
<1> QED
  BY <1>1, <1>2

LEMMA FaultType ==
    ASSUME faults \in 0..MaxFault, Fault
    PROVE  faults' \in 0..MaxFault
  BY ReplayAssumption DEF Fault

LEMMA InitIInv == Init => IInv
PROOF
<1> SUFFICES ASSUME Init
             PROVE  IInv
  OBVIOUS
<1>1. TypeOK
  BY RowTypes, ReplayAssumption DEF Init, TypeOK
<1>2. /\ \A s \in Server : worker[s].at = "idle"
      /\ \A n \in Run : Status(n) = "absent" /\ run[n].result = None
  BY DEF Init, IdleWorker, NoRun, Status
<1> QED
  BY <1>1, <1>2
  DEF IInv, WorkersHaveRuns, WorkersHaveInputs, ClaimedRunsLeftTheQueue,
      WaitingRunsHaveNoResult, ResultsMatch, ExecutedOnce

\* A step that touches neither the runs nor what the workers hold.
LEMMA ElsewhereKeeps ==
    ASSUME IInv, TypeOK', UNCHANGED <<run, worker>>
    PROVE  IInv'
  BY DEF IInv, WorkersHaveRuns, WorkersHaveInputs, ClaimedRunsLeftTheQueue,
         WaitingRunsHaveNoResult, ResultsMatch, ExecutedOnce, Status

\* A worker that drops its job, while the runs stay.
LEMMA FinishKeeps ==
    ASSUME IInv, TypeOK', NEW s \in Server, Finish(s), UNCHANGED run
    PROVE  IInv'
  BY DEF IInv, TypeOK, Finish, IdleWorker, WorkersHaveRuns, WorkersHaveInputs,
         ClaimedRunsLeftTheQueue, WaitingRunsHaveNoResult, ResultsMatch,
         ExecutedOnce, Status

LEMMA RequestTypes ==
    ASSUME TypeOK, NEW q \in Request, RequestStep(q)
    PROVE  TypeOK'
PROOF
<1>1. CASE PlanRequest(q) \/ FindCompleted(q) \/ AbortRequest(q)
  <2>1. request' \in [Request -> RequestState]
    <3>1. \E s \in RequestState : request' = [request EXCEPT ![q] = s]
      <4>1. CASE PlanRequest(q)
        BY <4>1 DEF PlanRequest, TypeOK, RequestState, IdleRequest
      <4>2. CASE FindCompleted(q)
        <5>1. [request[q] EXCEPT !.at = "insert"] \in RequestState
          BY DEF TypeOK, RequestState
        <5> QED
          BY <4>2, <5>1, RowTypes DEF FindCompleted, TypeOK
      <4>3. CASE AbortRequest(q)
        BY <4>3, RowTypes DEF AbortRequest
      <4> QED
        BY <1>1, <4>1, <4>2, <4>3
    <3> QED
      BY <3>1 DEF TypeOK
  <2> QED
    BY <1>1, <2>1, FaultType DEF PlanRequest, FindCompleted, AbortRequest, TypeOK
<1>2. ASSUME NEW n \in Run, InsertQueuedRun(q, n)
      PROVE  TypeOK'
  BY <1>2 DEF InsertQueuedRun, TypeOK, RequestState, RunRow, NoRun, RunStatus
<1>3. CASE SendJob(q)
  BY <1>3, RowTypes, SentType DEF SendJob, TypeOK
<1> QED
  BY <1>1, <1>2, <1>3 DEF RequestStep

LEMMA RequestKeeps ==
    ASSUME IInv, NEW q \in Request, RequestStep(q)
    PROVE  IInv'
PROOF
<1>t. TypeOK /\ TypeOK'
  BY RequestTypes DEF IInv
<1>1. CASE PlanRequest(q) \/ FindCompleted(q) \/ AbortRequest(q) \/ SendJob(q)
  BY <1>1, <1>t, ElsewhereKeeps
  DEF PlanRequest, FindCompleted, AbortRequest, SendJob
<1>2. ASSUME NEW n \in Run, InsertQueuedRun(q, n)
      PROVE  IInv'
  <2>1. /\ Status(n) = "absent"
        /\ run'[n].status = "queued" /\ run'[n].result = None
        /\ \A m \in Run \ {n} : run'[m] = run[m]
        /\ UNCHANGED worker
    BY <1>2, <1>t DEF InsertQueuedRun, TypeOK, NoRun
  <2>2. \A s \in Server : worker[s].at # "idle" => worker[s].run # n
    BY <2>1 DEF IInv, WorkersHaveRuns
  <2>3. \A s \in Server : worker[s].at # "idle" =>
           run'[worker[s].run] = run[worker[s].run]
    BY <2>1, <2>2 DEF IInv, WorkersHaveRuns
  <2>4. /\ WorkersHaveRuns' /\ WorkersHaveInputs'
        /\ ClaimedRunsLeftTheQueue' /\ ExecutedOnce'
    BY <2>1, <2>3
    DEF IInv, WorkersHaveRuns, WorkersHaveInputs, ClaimedRunsLeftTheQueue,
        ExecutedOnce, Status
  <2>5. WaitingRunsHaveNoResult' /\ ResultsMatch'
    BY <2>1 DEF IInv, WaitingRunsHaveNoResult, ResultsMatch, Status
  <2> QED
    BY <1>t, <2>4, <2>5 DEF IInv
<1> QED
  BY <1>1, <1>2 DEF RequestStep

-----------------------------------------------------------------------------
(* The handler of a job                                                     *)

\* Writing the status of a run, and its result with it.
LEMMA StatusWritten ==
    ASSUME TypeOK, NEW n \in Run, NEW st \in RunStatus, SetStatus(n, st)
    PROVE  /\ run' \in [Run -> RunRow]
           /\ run'[n].status = st
           /\ run'[n].inputs = run[n].inputs
           /\ run'[n].result = run[n].result
           /\ \A m \in Run \ {n} : run'[m] = run[m]
PROOF
<1>1. run' = [run EXCEPT ![n] = [run[n] EXCEPT !.status = st]]
  BY DEF SetStatus
<1>2. run[n] \in RunRow
  BY DEF TypeOK
<1>3. /\ [run[n] EXCEPT !.status = st] \in RunRow
      /\ [run[n] EXCEPT !.status = st].status = st
      /\ [run[n] EXCEPT !.status = st].inputs = run[n].inputs
      /\ [run[n] EXCEPT !.status = st].result = run[n].result
  BY <1>2 DEF RunRow
<1> QED
  BY <1>1, <1>3 DEF TypeOK

\* A worker that goes on at another step keeps its run and its inputs.
LEMMA WorkerGoesOn ==
    ASSUME TypeOK, NEW s \in Server, NEW step, Goto(s, step),
           step \in {"claim", "record", "failQueued", "markFailed"}
    PROVE  /\ worker' \in [Server -> WorkerState]
           /\ worker'[s].at = step
           /\ worker'[s].run = worker[s].run
           /\ worker'[s].inputs = worker[s].inputs
           /\ \A t \in Server \ {s} : worker'[t] = worker[t]
PROOF
<1>1. worker' = [worker EXCEPT ![s] = [worker[s] EXCEPT !.at = step]]
  BY DEF Goto
<1>2. worker[s] \in WorkerState
  BY DEF TypeOK
<1>3. /\ [worker[s] EXCEPT !.at = step] \in WorkerState
      /\ [worker[s] EXCEPT !.at = step].at = step
      /\ [worker[s] EXCEPT !.at = step].run = worker[s].run
      /\ [worker[s] EXCEPT !.at = step].inputs = worker[s].inputs
  BY <1>2 DEF WorkerState
<1> QED
  BY <1>1, <1>3 DEF TypeOK

LEMMA WorkerFinishes ==
    ASSUME TypeOK, NEW s \in Server, Finish(s)
    PROVE  /\ worker' \in [Server -> WorkerState]
           /\ worker'[s] = IdleWorker
           /\ \A t \in Server \ {s} : worker'[t] = worker[t]
  BY RowTypes DEF TypeOK, Finish

\* A worker on its way to write a failure holds nothing that matters.
LEMMA TurnsToFailure ==
    ASSUME IInv, TypeOK', NEW s \in Server, worker[s].at # "idle",
           NEW step \in {"failQueued", "markFailed"}, Goto(s, step), UNCHANGED run
    PROVE  IInv'
PROOF
<1>1. /\ worker'[s].at = step
      /\ worker'[s].run = worker[s].run
      /\ \A t \in Server \ {s} : worker'[t] = worker[t]
  BY WorkerGoesOn DEF IInv
<1> QED
  BY <1>1
  DEF IInv, WorkersHaveRuns, WorkersHaveInputs, ClaimedRunsLeftTheQueue,
      WaitingRunsHaveNoResult, ResultsMatch, ExecutedOnce, Status

\* A run that fails, while its worker is done with it or recovery fails it.
LEMMA FailureKeeps ==
    ASSUME IInv, TypeOK',
           \A n \in Run : \/ run'[n] = run[n]
                         \/ /\ Status(n) # "absent"
                            /\ run'[n].status = "failed"
                            /\ run'[n].inputs = run[n].inputs
                            /\ run'[n].result = run[n].result,
           \A s \in Server : worker'[s] = worker[s] \/ worker'[s] = IdleWorker
    PROVE  IInv'
PROOF
<1>1. \A s \in Server : worker'[s].at # "idle" => worker'[s] = worker[s]
  BY DEF IdleWorker
<1>2. \A n \in Run : /\ run'[n].inputs = run[n].inputs
                     /\ run'[n].result = run[n].result
                     /\ run'[n].status = run[n].status \/ run'[n].status = "failed"
                     /\ run[n].status = "absent" => run'[n].status = "absent"
  BY DEF Status
<1>3. WorkersHaveRuns' /\ WorkersHaveInputs'
  BY <1>1, <1>2 DEF IInv, WorkersHaveRuns, WorkersHaveInputs, Status
<1>4. ClaimedRunsLeftTheQueue' /\ ExecutedOnce'
  BY <1>1, <1>2 DEF IInv, WorkersHaveRuns, ClaimedRunsLeftTheQueue, ExecutedOnce, Status
<1>5. WaitingRunsHaveNoResult' /\ ResultsMatch'
  BY <1>2 DEF IInv, WaitingRunsHaveNoResult, ResultsMatch, Status
<1> QED
  BY <1>3, <1>4, <1>5 DEF IInv

\* A delivery reads a run that waits, or has nothing to do.
LEMMA DeliverKeeps ==
    ASSUME IInv, NEW s \in Server, NEW n \in Run, Deliver(s, n)
    PROVE  IInv'
PROOF
<1> DEFINE w == [IdleWorker EXCEPT !.at = "plan", !.run = n]
<1>t. TypeOK
  BY DEF IInv
<1>1. w \in WorkerState /\ w.at = "plan" /\ w.run = n
  BY DEF IdleWorker, WorkerState
<1>2. waiting' \in [Run -> 0..2]
  <2>1. waiting[n] \in 0..2 /\ waiting[n] > 0 /\ waiting[n] - 1 \in 0..2
    BY <1>t DEF Deliver, TypeOK
  <2> QED
    BY <1>t, <2>1 DEF Deliver, TypeOK
<1>3. CASE Status(n) = "queued"
  <2>1. /\ worker'[s] = w
        /\ \A t \in Server \ {s} : worker'[t] = worker[t]
        /\ worker' \in [Server -> WorkerState]
        /\ UNCHANGED run
    BY <1>3, <1>1, <1>t DEF Deliver, TypeOK
  <2> HIDE DEF w
  <2>2. TypeOK'
    BY <1>2, <1>t, <2>1 DEF Deliver, TypeOK
  <2> QED
    BY <1>1, <1>3, <2>1, <2>2
    DEF IInv, WorkersHaveRuns, WorkersHaveInputs, ClaimedRunsLeftTheQueue,
        WaitingRunsHaveNoResult, ResultsMatch, ExecutedOnce, Status
<1>4. CASE Status(n) # "queued"
  <2>1. TypeOK'
    BY <1>2, <1>4, <1>t DEF Deliver, TypeOK
  <2> QED
    BY <1>4, <2>1, ElsewhereKeeps DEF Deliver
<1> QED
  BY <1>3, <1>4

\* The plan goes on with the inputs of the run, or not at all.
LEMMA PlanKeeps ==
    ASSUME IInv, NEW s \in Server, Plan(s)
    PROVE  IInv'
PROOF
<1> DEFINE n == worker[s].run
           w == [worker[s] EXCEPT !.at = "claim", !.inputs = inputs]
<1>t. TypeOK
  BY DEF IInv
<1>1. CASE inputs = run[n].inputs /\ worker' = [worker EXCEPT ![s] = w]
  <2>1. worker[s] \in WorkerState /\ inputs \in Inputs
    BY <1>t DEF TypeOK
  <2>2. w \in WorkerState /\ w.at = "claim" /\ w.run = n /\ w.inputs = run[n].inputs
    BY <1>1, <2>1 DEF WorkerState
  <2>3. /\ worker'[s] = w
        /\ \A t \in Server \ {s} : worker'[t] = worker[t]
        /\ worker' \in [Server -> WorkerState]
    <3> HIDE DEF w
    <3> QED
      BY <1>1, <1>t, <2>2 DEF TypeOK
  <2> HIDE DEF w
  <2>4. TypeOK'
    BY <1>t, <2>3 DEF Plan, TypeOK
  <2>5. worker[s].at # "idle" /\ UNCHANGED run
    BY DEF Plan
  <2> QED
    BY <2>2, <2>3, <2>4, <2>5
    DEF IInv, WorkersHaveRuns, WorkersHaveInputs, ClaimedRunsLeftTheQueue,
        WaitingRunsHaveNoResult, ResultsMatch, ExecutedOnce, Status
<1>2. CASE Goto(s, "failQueued")
  <2>1. TypeOK'
    BY <1>2, <1>t, WorkerGoesOn DEF Plan, TypeOK
  <2> QED
    BY <1>2, <2>1, TurnsToFailure DEF Plan
<1> QED
  BY <1>1, <1>2 DEF Plan

\* The claim: the run leaves the queue, so no other worker can have claimed it and
\* it has no result.
LEMMA ClaimKeeps ==
    ASSUME IInv, NEW s \in Server, Claim(s)
    PROVE  IInv'
PROOF
<1> DEFINE n == worker[s].run
<1>t. TypeOK /\ n \in Run
  BY DEF IInv, Claim, WorkersHaveRuns
<1>1. CASE Status(n) = "queued"
  <2>1. /\ run' \in [Run -> RunRow]
        /\ run'[n].status = "running"
        /\ run'[n].inputs = run[n].inputs
        /\ run'[n].result = run[n].result
        /\ \A m \in Run \ {n} : run'[m] = run[m]
    BY <1>1, <1>t, StatusWritten DEF Claim, RunStatus
  <2>2. /\ worker' \in [Server -> WorkerState]
        /\ worker'[s].at = "record"
        /\ worker'[s].run = n
        /\ worker'[s].inputs = worker[s].inputs
        /\ \A t \in Server \ {s} : worker'[t] = worker[t]
    BY <1>1, <1>t, WorkerGoesOn DEF Claim
  <2>3. TypeOK'
    BY <1>t, <2>1, <2>2 DEF Claim, TypeOK
  <2>4. \A t \in Server : worker[t].at = "record" => worker[t].run # n
    BY <1>1 DEF IInv, ClaimedRunsLeftTheQueue
  <2>5. run[n].result = None /\ worker[s].inputs = run[n].inputs
    BY <1>1, <1>t DEF IInv, WaitingRunsHaveNoResult, WorkersHaveInputs, Claim
  <2>6. WorkersHaveRuns' /\ WorkersHaveInputs'
    BY <1>t, <2>1, <2>2, <2>5 DEF IInv, WorkersHaveRuns, WorkersHaveInputs, Status
  <2>7. ClaimedRunsLeftTheQueue' /\ ExecutedOnce'
    BY <1>t, <2>1, <2>2, <2>4, <2>5
    DEF IInv, WorkersHaveRuns, ClaimedRunsLeftTheQueue, ExecutedOnce, Status
  <2>8. WaitingRunsHaveNoResult' /\ ResultsMatch'
    BY <1>t, <2>1, <2>5 DEF IInv, WaitingRunsHaveNoResult, ResultsMatch, Status
  <2> QED
    BY <2>3, <2>6, <2>7, <2>8 DEF IInv
<1>2. CASE Status(n) # "queued"
  <2>1. TypeOK'
    BY <1>2, <1>t, WorkerFinishes DEF Claim, TypeOK
  <2> QED
    BY <1>2, <2>1, FinishKeeps DEF Claim
<1> QED
  BY <1>1, <1>2

\* The result is that of the inputs the run was planned from, which are its own.
LEMMA RecordKeeps ==
    ASSUME IInv, NEW s \in Server, Record(s)
    PROVE  IInv'
PROOF
<1> DEFINE n == worker[s].run
           row == [run[n] EXCEPT !.status = "completed", !.result = worker[s].inputs]
<1>t. TypeOK /\ n \in Run
  BY DEF IInv, Record, WorkersHaveRuns
<1>1. run[n] \in RunRow /\ worker[s] \in WorkerState
  BY <1>t DEF TypeOK
<1>2. run[n].inputs = worker[s].inputs
  BY <1>t DEF IInv, Record, WorkersHaveInputs
<1>3. /\ row \in RunRow /\ row.status = "completed"
      /\ row.inputs = run[n].inputs /\ row.result = run[n].inputs
  BY <1>1, <1>2 DEF RunRow, RunStatus, WorkerState
<1>4. run' = [run EXCEPT ![n] = row]
  BY DEF Record
<1>5. /\ run' \in [Run -> RunRow] /\ run'[n] = row
      /\ \A m \in Run \ {n} : run'[m] = run[m]
  <2> HIDE DEF row
  <2> QED
    BY <1>t, <1>3, <1>4 DEF TypeOK
<1>6. /\ worker' \in [Server -> WorkerState] /\ worker'[s] = IdleWorker
      /\ \A t \in Server \ {s} : worker'[t] = worker[t]
  BY <1>t, WorkerFinishes DEF Record
<1>7. TypeOK'
  BY <1>t, <1>5, <1>6 DEF Record, TypeOK
<1>8. \A t \in Server \ {s} : worker[t].at = "record" => worker[t].run # n
  BY DEF IInv, ExecutedOnce, Record
<1> HIDE DEF row
<1>9. WorkersHaveRuns' /\ WorkersHaveInputs'
  BY <1>t, <1>3, <1>5, <1>6
  DEF IInv, WorkersHaveRuns, WorkersHaveInputs, IdleWorker, Status
<1>10. ClaimedRunsLeftTheQueue' /\ ExecutedOnce'
  BY <1>t, <1>3, <1>5, <1>6, <1>8
  DEF IInv, WorkersHaveRuns, ClaimedRunsLeftTheQueue, ExecutedOnce, IdleWorker, Status
<1>11. WaitingRunsHaveNoResult' /\ ResultsMatch'
  BY <1>t, <1>3, <1>5 DEF IInv, WaitingRunsHaveNoResult, ResultsMatch, Status
<1> QED
  BY <1>7, <1>9, <1>10, <1>11 DEF IInv

\* failQueuedRun and markFailed: a failure is no result, and no claim.
LEMMA FailKeeps ==
    ASSUME IInv, NEW s \in Server, FailQueued(s) \/ MarkFailed(s)
    PROVE  IInv'
PROOF
<1> DEFINE n == worker[s].run
<1>t. TypeOK /\ n \in Run /\ Status(n) # "absent"
  BY DEF IInv, FailQueued, MarkFailed, WorkersHaveRuns
<1>1. Finish(s)
  BY DEF FailQueued, MarkFailed
<1>2. /\ worker' \in [Server -> WorkerState]
      /\ worker'[s] = IdleWorker
      /\ \A t \in Server \ {s} : worker'[t] = worker[t]
  BY <1>t, <1>1, WorkerFinishes
<1>3. CASE UNCHANGED run
  <2>1. TypeOK'
    BY <1>t, <1>2, <1>3 DEF FailQueued, MarkFailed, TypeOK
  <2> QED
    BY <1>1, <1>3, <2>1, FinishKeeps
<1>4. CASE SetStatus(n, "failed")
  <2>1. /\ run' \in [Run -> RunRow]
        /\ run'[n].status = "failed"
        /\ run'[n].inputs = run[n].inputs
        /\ run'[n].result = run[n].result
        /\ \A m \in Run \ {n} : run'[m] = run[m]
    BY <1>t, <1>4, StatusWritten DEF RunStatus
  <2>2. TypeOK'
    BY <1>t, <1>2, <2>1 DEF FailQueued, MarkFailed, TypeOK
  <2> QED
    BY <1>t, <1>2, <2>1, <2>2, FailureKeeps
<1> QED
  BY <1>3, <1>4 DEF FailQueued, MarkFailed

\* A failed call or a crash loses what the worker had; it writes no run.
LEMMA FaultKeeps ==
    ASSUME IInv, NEW s \in Server, FaultStep(s)
    PROVE  IInv'
PROOF
<1>t. TypeOK
  BY DEF IInv
<1>1. faults' \in 0..MaxFault
  BY <1>t, FaultType
  DEF FaultStep, PlanThrows, ExecuteThrows, MarkThrows, RecoveryThrows, Crash, TypeOK
<1>2. waiting' \in [Run -> 0..2]
  BY <1>t, SentType
  DEF FaultStep, PlanThrows, ExecuteThrows, MarkThrows, RecoveryThrows, Crash,
      Redelivered, TypeOK
<1>3. CASE PlanThrows(s) \/ MarkThrows(s) \/ Crash(s)
  <2>1. Finish(s) /\ UNCHANGED run
    BY <1>3 DEF PlanThrows, MarkThrows, Crash
  <2>2. boot' \in [Server -> BootState]
    BY <1>3, <1>t, RowTypes DEF PlanThrows, MarkThrows, Crash, TypeOK
  <2>3. TypeOK'
    BY <1>t, <1>1, <1>2, <1>3, <2>1, <2>2, WorkerFinishes
    DEF PlanThrows, MarkThrows, Crash, TypeOK
  <2> QED
    BY <2>1, <2>3, FinishKeeps
<1>4. CASE ExecuteThrows(s)
  <2>1. TypeOK'
    BY <1>t, <1>1, <1>4, WorkerGoesOn DEF ExecuteThrows, TypeOK
  <2> QED
    BY <1>4, <2>1, TurnsToFailure DEF ExecuteThrows
<1>5. CASE RecoveryThrows(s)
  <2>1. [at |-> "up", todo |-> {}] \in BootState
    BY DEF BootState
  <2>2. TypeOK'
    BY <1>t, <1>1, <1>5, <2>1 DEF RecoveryThrows, TypeOK
  <2> QED
    BY <1>5, <2>2, ElsewhereKeeps DEF RecoveryThrows
<1> QED
  BY <1>3, <1>4, <1>5 DEF FaultStep

\* Servers start, recover and stop: recovery fails runs, and sends jobs.
LEMMA RecoveryKeeps ==
    ASSUME IInv, NEW s \in Server, RecoveryStep(s) \/ Start(s) \/ Stop(s)
    PROVE  IInv'
PROOF
<1>t. TypeOK
  BY DEF IInv
<1>1. boot' \in [Server -> BootState]
  <2>1. \E b \in BootState : boot' = [boot EXCEPT ![s] = b]
    <3>0. boot[s] \in BootState
      BY <1>t DEF TypeOK
    <3>1. \A a \in {"stale", "list", "up"} : [boot[s] EXCEPT !.at = a] \in BootState
      BY <3>0 DEF BootState
    <3>2. \A n : [boot[s] EXCEPT !.todo = boot[s].todo \ {n}] \in BootState
      BY <3>0 DEF BootState
    <3>3. [at |-> "send", todo |-> {n \in Run : Status(n) = "queued"}] \in BootState
      BY DEF BootState
    <3>4. CASE FailStaleRuns(s) \/ EndRecovery(s) \/ Start(s)
      <4>1. \E a \in {"stale", "list", "up"} :
               boot' = [boot EXCEPT ![s] = [boot[s] EXCEPT !.at = a]]
        BY <3>4 DEF FailStaleRuns, EndRecovery, Start
      <4> QED
        BY <3>1, <4>1
    <3>5. CASE ListQueued(s) \/ Stop(s)
      BY <3>3, <3>5, RowTypes DEF ListQueued, Stop
    <3>6. CASE Resend(s)
      <4>1. \E n : boot' = [boot EXCEPT ![s] =
                               [boot[s] EXCEPT !.todo = boot[s].todo \ {n}]]
        BY <3>6 DEF Resend
      <4> QED
        BY <3>2, <4>1
    <3> QED
      BY <3>4, <3>5, <3>6 DEF RecoveryStep
  <2> QED
    BY <1>t, <2>1 DEF TypeOK
<1>2. waiting' \in [Run -> 0..2]
  BY <1>t, SentType
  DEF RecoveryStep, FailStaleRuns, ListQueued, Resend, EndRecovery, Start, Stop, TypeOK
<1>3. CASE FailStaleRuns(s)
  <2>1. \A n \in Run : \/ run'[n] = run[n]
                      \/ /\ Status(n) # "absent"
                         /\ run'[n] = [run[n] EXCEPT !.status = "failed"]
    BY <1>3 DEF FailStaleRuns
  <2>2. \A n \in Run : LET row == [run[n] EXCEPT !.status = "failed"] IN
           /\ row \in RunRow /\ row.status = "failed"
           /\ row.inputs = run[n].inputs /\ row.result = run[n].result
    BY <1>t DEF TypeOK, RunRow, RunStatus
  <2>3. run' \in [Run -> RunRow]
    <3>1. run' = [n \in Run |-> run'[n]]
      BY <1>3 DEF FailStaleRuns
    <3>2. \A n \in Run : run'[n] \in RunRow
      BY <1>t, <2>1, <2>2 DEF TypeOK
    <3> QED
      BY <3>1, <3>2
  <2>4. TypeOK'
    BY <1>t, <1>1, <1>2, <1>3, <2>3 DEF FailStaleRuns, TypeOK
  <2> QED
    BY <1>3, <2>1, <2>2, <2>4, FailureKeeps DEF FailStaleRuns
<1>4. CASE ListQueued(s) \/ Resend(s) \/ EndRecovery(s) \/ Start(s) \/ Stop(s)
  <2>1. UNCHANGED <<run, worker, request, inputs, faults>>
    BY <1>4 DEF ListQueued, Resend, EndRecovery, Start, Stop
  <2>2. TypeOK'
    BY <1>t, <1>1, <1>2, <2>1 DEF TypeOK
  <2> QED
    BY <2>1, <2>2, ElsewhereKeeps
<1> QED
  BY <1>3, <1>4 DEF RecoveryStep

\* Time passes, and the store's contents change: a run keeps its inputs, its
\* status and its result.
LEMMA EnvironmentKeeps ==
    ASSUME IInv, (\E n \in Run : BecomesLate(n)) \/ (\E i \in Inputs : ChangeInputs(i))
    PROVE  IInv'
PROOF
<1>t. TypeOK
  BY DEF IInv
<1>1. ASSUME NEW n \in Run, BecomesLate(n)
      PROVE  IInv'
  <2> DEFINE row == [run[n] EXCEPT !.late = TRUE]
  <2>1. /\ row \in RunRow /\ row.status = run[n].status
        /\ row.inputs = run[n].inputs /\ row.result = run[n].result
    BY <1>t DEF TypeOK, RunRow
  <2>2. run' = [run EXCEPT ![n] = row]
    BY <1>1 DEF BecomesLate
  <2> HIDE DEF row
  <2>3. /\ run' \in [Run -> RunRow]
        /\ \A m \in Run : /\ run'[m].status = run[m].status
                          /\ run'[m].inputs = run[m].inputs
                          /\ run'[m].result = run[m].result
    BY <1>t, <2>1, <2>2 DEF TypeOK
  <2>4. TypeOK'
    BY <1>1, <1>t, <2>3 DEF BecomesLate, TypeOK
  <2>5. UNCHANGED worker
    BY <1>1 DEF BecomesLate
  <2>6. WorkersHaveRuns' /\ WorkersHaveInputs'
    BY <2>3, <2>5 DEF IInv, WorkersHaveRuns, WorkersHaveInputs, Status
  <2>7. ClaimedRunsLeftTheQueue' /\ ExecutedOnce'
    BY <2>3, <2>5
    DEF IInv, WorkersHaveRuns, ClaimedRunsLeftTheQueue, ExecutedOnce, Status
  <2>8. WaitingRunsHaveNoResult' /\ ResultsMatch'
    BY <2>3 DEF IInv, WaitingRunsHaveNoResult, ResultsMatch, Status
  <2> QED
    BY <2>4, <2>6, <2>7, <2>8 DEF IInv
<1>2. ASSUME NEW i \in Inputs, ChangeInputs(i)
      PROVE  IInv'
  BY <1>2, <1>t, ElsewhereKeeps DEF ChangeInputs, TypeOK
<1> QED
  BY <1>1, <1>2

-----------------------------------------------------------------------------

LEMMA NextIInv ==
    ASSUME IInv, [Next]_vars
    PROVE  IInv'
PROOF
<1>1. CASE UNCHANGED vars
  <2>1. TypeOK'
    BY <1>1 DEF IInv, TypeOK, vars
  <2> QED
    BY <1>1, <2>1, ElsewhereKeeps DEF vars
<1>2. CASE Next
  BY <1>2, RequestKeeps, DeliverKeeps, PlanKeeps, ClaimKeeps, RecordKeeps, FailKeeps,
     FaultKeeps, RecoveryKeeps, EnvironmentKeeps
  DEF Next, Delivery, HandlerStep
<1> QED
  BY <1>1, <1>2

\* A run is executed by one delivery, though the queue delivers its job to several
\* workers, again after a crash, and again from each recovery.
THEOREM RunsExecuteOnce == Spec => []ExecutedOnce
PROOF
<1>1. IInv => ExecutedOnce
  BY DEF IInv
<1> QED
  BY <1>1, InitIInv, NextIInv, PTL DEF Spec

\* A completed run holds the result of the inputs it was requested for.
THEOREM ResultsAreOfTheirInputs == Spec => []ResultIsOfItsInputs
PROOF
<1>1. IInv => ResultIsOfItsInputs
  BY DEF IInv, ResultsMatch, ResultIsOfItsInputs
<1> QED
  BY <1>1, InitIInv, NextIInv, PTL DEF Spec

\* The condition of OthersAreLeftAlone: the run is completed, or held by a worker past its
\* claim, is not late, and no delivery is about to write its failure by its id alone.
IsOfOthers(n) ==
    /\ ~run[n].late
    /\ Status(n) \in {"completed", "running"}
    /\ \A s \in Server : worker[s].at = "markFailed" => worker[s].run # n

\* Of the writes to a run, each but those fails only a queued run.
LEMMA NotFailedByOthers ==
    ASSUME IInv, [Next]_vars, NEW n \in Run, IsOfOthers(n)
    PROVE  run'[n].status # "failed"
PROOF
<1> USE DEF IsOfOthers, Status
<1>t. TypeOK /\ run[n] \in RunRow /\ run[n].status # "failed"
  BY DEF IInv, TypeOK
<1>q. ASSUME NEW s \in Server, worker[s].at # "idle"
      PROVE  worker[s].run \in Run
  BY <1>q DEF IInv, WorkersHaveRuns
<1>1. CASE UNCHANGED run
  BY <1>1, <1>t
<1>2. ASSUME NEW s \in Server, FailQueued(s)
      PROVE  run'[n].status # "failed"
  <2>1. CASE run[worker[s].run].status = "queued"
    BY <1>2, <1>q, <1>t, <2>1, StatusWritten DEF FailQueued, RunStatus
  <2>2. CASE run[worker[s].run].status # "queued"
    BY <1>2, <1>t, <2>2 DEF FailQueued
  <2> QED
    BY <2>1, <2>2
<1>3. ASSUME NEW s \in Server, Claim(s)
      PROVE  run'[n].status # "failed"
  <2>1. CASE run[worker[s].run].status = "queued"
    BY <1>3, <1>q, <1>t, <2>1, StatusWritten DEF Claim, RunStatus
  <2>2. CASE run[worker[s].run].status # "queued"
    BY <1>3, <1>t, <2>2 DEF Claim
  <2> QED
    BY <2>1, <2>2
<1>4. ASSUME NEW s \in Server, Record(s)
      PROVE  run'[n].status # "failed"
  <2>1. \A m \in Run : run[m] \in RunRow
    BY <1>t DEF TypeOK
  <2>2. worker[s].run \in Run
    BY <1>4, <1>q DEF Record
  <2>3. CASE worker[s].run = n
    BY <1>4, <1>t, <2>3 DEF Record, TypeOK, RunRow
  <2>4. CASE worker[s].run # n
    BY <1>4, <1>t, <2>2, <2>4 DEF Record, TypeOK
  <2> QED
    BY <2>3, <2>4
<1>5. ASSUME NEW s \in Server, MarkFailed(s)
      PROVE  run'[n].status # "failed"
  BY <1>5, <1>q, <1>t, StatusWritten DEF MarkFailed, RunStatus
<1>6. ASSUME NEW s \in Server, FailStaleRuns(s)
      PROVE  run'[n].status # "failed"
  BY <1>6, <1>t DEF FailStaleRuns
<1>7. ASSUME NEW m \in Run, BecomesLate(m)
      PROVE  run'[n].status # "failed"
  BY <1>7, <1>t DEF BecomesLate, TypeOK, RunRow
<1>8. ASSUME NEW q \in Request, NEW m \in Run, InsertQueuedRun(q, m)
      PROVE  run'[n].status # "failed"
  BY <1>8, <1>t DEF InsertQueuedRun, TypeOK
<1>9. ASSUME NEW q \in Request, RequestStep(q)
      PROVE  run'[n].status # "failed"
  BY <1>9, <1>1, <1>8 DEF RequestStep, PlanRequest, FindCompleted, SendJob, AbortRequest
<1>10. ASSUME NEW s \in Server, Delivery(s) \/ HandlerStep(s)
       PROVE  run'[n].status # "failed"
  BY <1>10, <1>1, <1>2, <1>3, <1>4, <1>5 DEF Delivery, Deliver, HandlerStep, Plan
<1>11. ASSUME NEW s \in Server, RecoveryStep(s) \/ FaultStep(s) \/ Start(s) \/ Stop(s)
       PROVE  run'[n].status # "failed"
  BY <1>11, <1>1, <1>6
  DEF RecoveryStep, ListQueued, Resend, EndRecovery, FaultStep, PlanThrows, ExecuteThrows,
      MarkThrows, RecoveryThrows, Crash, Start, Stop
<1> QED
  BY <1>1, <1>7, <1>9, <1>10, <1>11 DEF Next, ChangeInputs, vars

\* A run that is completed, or that a delivery is about to complete, is failed by no other
\* delivery that found its failure before its own claim (failQueuedRun).
THEOREM RunsOfOthersAreLeftAlone == Spec => OthersAreLeftAlone
PROOF
<1> DEFINE LeavesAlone ==
      \A n \in Run :
         /\ ~run[n].late
         /\ \/ Status(n) = "completed"
            \/ /\ Status(n) = "running"
               /\ \E s \in Server : worker[s].at = "record" /\ worker[s].run = n
         /\ \A s \in Server : worker[s].at = "markFailed" => worker[s].run # n
         => run'[n].status # "failed"
<1>1. IInv /\ [Next]_vars => [LeavesAlone]_vars
  BY NotFailedByOthers DEF IsOfOthers
<1> QED
  BY <1>1, InitIInv, NextIInv, PTL DEF Spec, OthersAreLeftAlone

\* Every variable keeps its type.
THEOREM TypesHold == Spec => []TypeOK
PROOF
<1>1. IInv => TypeOK
  BY DEF IInv
<1> QED
  BY <1>1, InitIInv, NextIInv, PTL DEF Spec

-----------------------------------------------------------------------------
(* The table implements RunLifecycle                                        *)

\* A request past its plan has the inputs it planned for.
RequestsHaveInputs ==
    \A q \in Request : request[q].at \in {"find", "insert"} => request[q].inputs \in Inputs

\* Every run of the table was requested for some inputs: with ResultsMatch, a run
\* without a result is not completed.
RunsHaveInputs == \A n \in Run : Status(n) # "absent" => run[n].inputs \in Inputs

LInv == RequestsHaveInputs /\ RunsHaveInputs

LEMMA InitLInv == Init => LInv
  BY DEF Init, LInv, RequestsHaveInputs, RunsHaveInputs, IdleRequest, NoRun, Status

\* A step after which every run of the table is of the inputs it was of.
LEMMA RunsKeepInputs ==
    ASSUME LInv, UNCHANGED request,
           \A n \in Run : /\ run'[n].inputs = run[n].inputs
                          /\ Status(n) = "absent" => run'[n].status = "absent"
    PROVE  LInv'
  BY DEF LInv, RequestsHaveInputs, RunsHaveInputs, Status

LEMMA WrittenKeepsInputs ==
    ASSUME IInv, LInv, UNCHANGED request, NEW n \in Run, NEW st \in RunStatus,
           Status(n) # "absent", SetStatus(n, st)
    PROVE  LInv'
PROOF
<1>1. TypeOK
  BY DEF IInv
<1>2. \A m \in Run : /\ run'[m].inputs = run[m].inputs
                     /\ Status(m) = "absent" => run'[m].status = "absent"
  BY <1>1, StatusWritten DEF Status
<1> QED
  BY <1>2, RunsKeepInputs

LEMMA RequestKeepsInputs ==
    ASSUME IInv, LInv, NEW q \in Request, RequestStep(q)
    PROVE  LInv'
PROOF
<1>t. TypeOK
  BY DEF IInv
<1>1. CASE PlanRequest(q)
  BY <1>1, <1>t
  DEF PlanRequest, TypeOK, LInv, RequestsHaveInputs, RunsHaveInputs, Status, IdleRequest,
      RequestState
<1>2. CASE FindCompleted(q) \/ SendJob(q) \/ AbortRequest(q)
  BY <1>2, <1>t
  DEF FindCompleted, SendJob, AbortRequest, TypeOK, LInv, RequestsHaveInputs,
      RunsHaveInputs, Status, IdleRequest, RequestState
<1>3. ASSUME NEW n \in Run, InsertQueuedRun(q, n)
      PROVE  LInv'
  <2>1. request[q].inputs \in Inputs
    BY <1>3 DEF InsertQueuedRun, LInv, RequestsHaveInputs
  <2>2. RunsHaveInputs'
    BY <1>3, <1>t, <2>1 DEF InsertQueuedRun, TypeOK, LInv, RunsHaveInputs, Status, NoRun
  <2>3. RequestsHaveInputs'
    BY <1>3, <1>t DEF InsertQueuedRun, TypeOK, RequestState, LInv, RequestsHaveInputs
  <2> QED
    BY <2>2, <2>3 DEF LInv
<1> QED
  BY <1>1, <1>2, <1>3 DEF RequestStep

LEMMA NextLInv ==
    ASSUME IInv, LInv, [Next]_vars
    PROVE  LInv'
PROOF
<1>t. TypeOK
  BY DEF IInv
<1>q. ASSUME NEW s \in Server, worker[s].at # "idle"
      PROVE  worker[s].run \in Run /\ Status(worker[s].run) # "absent"
  BY <1>q DEF IInv, WorkersHaveRuns
<1>1. CASE UNCHANGED <<run, request>>
  BY <1>1 DEF LInv, RequestsHaveInputs, RunsHaveInputs, Status
<1>2. ASSUME NEW s \in Server, FailQueued(s) \/ MarkFailed(s) \/ Claim(s)
      PROVE  LInv'
  <2>1. /\ UNCHANGED request
        /\ \/ UNCHANGED run
           \/ SetStatus(worker[s].run, "failed")
           \/ SetStatus(worker[s].run, "running")
        /\ worker[s].at # "idle"
    BY <1>2 DEF FailQueued, MarkFailed, Claim
  <2> QED
    BY <2>1, <1>1, <1>q, WrittenKeepsInputs DEF RunStatus
<1>3. ASSUME NEW s \in Server, Record(s)
      PROVE  LInv'
  <2>1. UNCHANGED request /\ worker[s].at # "idle"
    BY <1>3 DEF Record
  <2>2. \A m \in Run : /\ run'[m].inputs = run[m].inputs
                       /\ Status(m) = "absent" => run'[m].status = "absent"
    BY <1>3, <1>t, <1>q, <2>1 DEF Record, TypeOK, RunRow, Status
  <2> QED
    BY <2>1, <2>2, RunsKeepInputs
<1>4. ASSUME NEW s \in Server, FailStaleRuns(s)
      PROVE  LInv'
  <2>1. \A m \in Run : /\ run'[m].inputs = run[m].inputs
                       /\ Status(m) = "absent" => run'[m].status = "absent"
    BY <1>4, <1>t DEF FailStaleRuns, TypeOK, RunRow, Status
  <2> QED
    BY <1>4, <2>1, RunsKeepInputs DEF FailStaleRuns
<1>5. ASSUME NEW n \in Run, BecomesLate(n)
      PROVE  LInv'
  <2>1. \A m \in Run : /\ run'[m].inputs = run[m].inputs
                       /\ Status(m) = "absent" => run'[m].status = "absent"
    BY <1>5, <1>t DEF BecomesLate, TypeOK, RunRow, Status
  <2> QED
    BY <1>5, <2>1, RunsKeepInputs DEF BecomesLate
<1>6. ASSUME NEW s \in Server, Delivery(s) \/ HandlerStep(s)
      PROVE  LInv'
  BY <1>6, <1>1, <1>2, <1>3 DEF Delivery, Deliver, HandlerStep, Plan
<1>7. ASSUME NEW s \in Server, RecoveryStep(s) \/ FaultStep(s) \/ Start(s) \/ Stop(s)
      PROVE  LInv'
  BY <1>7, <1>1, <1>4
  DEF RecoveryStep, ListQueued, Resend, EndRecovery, FaultStep, PlanThrows, ExecuteThrows,
      MarkThrows, RecoveryThrows, Crash, Start, Stop
<1> QED
  BY <1>1, <1>5, <1>6, <1>7, RequestKeepsInputs DEF Next, ChangeInputs, vars

\* What the mapping gives a run.
LEMMA LifeOf ==
    \A n \in Run : /\ Lives[n].status = run[n].status
                   /\ Lives[n].inputs = run[n].inputs
                   /\ Lives[n].result = run[n].result
  BY DEF Lives

\* A step that no reader of the table and of the completions sees.
LEMMA UnseenByLifecycle ==
    ASSUME UNCHANGED <<Lives, Computed>>
    PROVE  [Lifecycle!Next]_(Lifecycle!vars)
  BY DEF Lifecycle!vars

\* The runs of the other workers stay what they were.
LEMMA ComputedKept ==
    ASSUME NEW s \in Server, \A t \in Server \ {s} : worker'[t] = worker[t],
           worker[s].at # "record", worker'[s].at # "record"
    PROVE  Computed' = Computed
  BY DEF Computed

LEMMA ComputedGrows ==
    ASSUME NEW s \in Server, \A t \in Server \ {s} : worker'[t] = worker[t],
           worker[s].at # "record", worker'[s].at = "record"
    PROVE  Computed' = Computed \cup {worker'[s].run}
  BY DEF Computed

\* No other worker holds a completion of the run (ExecutedOnce).
LEMMA ComputedShrinks ==
    ASSUME ExecutedOnce,
           NEW s \in Server, \A t \in Server \ {s} : worker'[t] = worker[t],
           worker[s].at = "record", worker'[s].at # "record"
    PROVE  Computed' = Computed \ {worker[s].run}
  BY DEF Computed, ExecutedOnce

LEMMA FinishedWorker ==
    ASSUME TypeOK, NEW s \in Server, Finish(s)
    PROVE  worker'[s].at = "idle" /\ \A t \in Server \ {s} : worker'[t] = worker[t]
  BY WorkerFinishes DEF IdleWorker

\* A worker without a completion drops its job.
LEMMA FinishUnseen ==
    ASSUME TypeOK, NEW s \in Server, worker[s].at # "record", Finish(s), UNCHANGED run
    PROVE  [Lifecycle!Next]_(Lifecycle!vars)
PROOF
<1>1. Computed' = Computed
  BY FinishedWorker, ComputedKept
<1>2. Lives' = Lives
  BY DEF Lives
<1> QED
  BY <1>1, <1>2, UnseenByLifecycle

\* Writing a status is writing it in the table.
LEMMA StatusSeen ==
    ASSUME TypeOK, NEW n \in Run, NEW st \in RunStatus, SetStatus(n, st)
    PROVE  Lives' = [Lives EXCEPT ![n].status = st]
PROOF
<1>1. /\ run'[n].status = st
      /\ run'[n].inputs = run[n].inputs
      /\ run'[n].result = run[n].result
      /\ \A m \in Run \ {n} : run'[m] = run[m]
  BY StatusWritten
<1> QED
  BY <1>1 DEF Lives

\* One run fails.
LEMMA FailureSeen ==
    ASSUME TypeOK, NEW n \in Run, Status(n) # "absent", SetStatus(n, "failed"),
           Computed' = Computed
    PROVE  Lifecycle!Next
PROOF
<1>1. Lives' = [Lives EXCEPT ![n].status = "failed"]
  BY StatusSeen DEF RunStatus
<1>2. Lives' = [m \in Run |-> IF m \in {n} THEN [Lives[m] EXCEPT !.status = "failed"]
                                           ELSE Lives[m]]
  BY <1>1 DEF Lives
<1>3. Lifecycle!Fail({n})
  BY <1>2, LifeOf DEF Lifecycle!Fail, Lifecycle!Failed, Status
<1> QED
  BY <1>3 DEF Lifecycle!Next

LEMMA RequestSeen ==
    ASSUME IInv, LInv, NEW q \in Request, RequestStep(q)
    PROVE  [Lifecycle!Next]_(Lifecycle!vars)
PROOF
<1>1. CASE UNCHANGED <<run, worker>>
  BY <1>1, UnseenByLifecycle DEF Lives, Computed
<1>2. ASSUME NEW n \in Run, InsertQueuedRun(q, n)
      PROVE  Lifecycle!Next
  <2> DEFINE i == request[q].inputs
  <2>1. i \in Inputs /\ Lives[n].status = "absent" /\ Computed' = Computed
    BY <1>2, LifeOf
    DEF InsertQueuedRun, LInv, RequestsHaveInputs, Status, Computed
  <2>2. /\ run'[n].status = "queued" /\ run'[n].inputs = i /\ run'[n].result = None
        /\ \A m \in Run \ {n} : run'[m] = run[m]
    BY <1>2 DEF InsertQueuedRun, IInv, TypeOK, NoRun
  <2>3. Lives' = [Lives EXCEPT ![n] = [status |-> "queued", inputs |-> i, result |-> None]]
    BY <2>2 DEF Lives
  <2>4. Lifecycle!Enqueue(n, i)
    BY <2>1, <2>3 DEF Lifecycle!Enqueue
  <2> QED
    BY <2>1, <2>4 DEF Lifecycle!Next
<1> QED
  BY <1>1, <1>2 DEF RequestStep, PlanRequest, FindCompleted, SendJob, AbortRequest

LEMMA HandlerSeen ==
    ASSUME IInv, LInv, NEW s \in Server, Delivery(s) \/ HandlerStep(s)
    PROVE  [Lifecycle!Next]_(Lifecycle!vars)
PROOF
<1> DEFINE n == worker[s].run
<1>t. TypeOK /\ ExecutedOnce
  BY DEF IInv
<1>q. worker[s].at # "idle" => n \in Run /\ Status(n) # "absent"
  BY DEF IInv, WorkersHaveRuns
<1>1. CASE Delivery(s) \/ Plan(s)
  <2>1. /\ worker[s].at # "record" /\ worker'[s].at # "record"
        /\ \A t \in Server \ {s} : worker'[t] = worker[t]
    <3>1. CASE Delivery(s)
      BY <1>t, <3>1 DEF Delivery, Deliver, TypeOK, IdleWorker
    <3>2. CASE Plan(s)
      <4>1. worker[s] \in WorkerState /\ worker[s].at = "plan"
        BY <1>t, <3>2 DEF Plan, TypeOK
      <4>2. CASE Goto(s, "failQueued")
        BY <1>t, <4>1, <4>2, WorkerGoesOn
      <4>3. CASE worker' = [worker EXCEPT ![s].at = "claim", ![s].inputs = inputs]
        BY <1>t, <4>1, <4>3 DEF TypeOK, WorkerState
      <4> QED
        BY <3>2, <4>2, <4>3 DEF Plan
    <3> QED
      BY <1>1, <3>1, <3>2
  <2>2. UNCHANGED run
    BY <1>1 DEF Delivery, Deliver, Plan
  <2> QED
    BY <2>1, <2>2, ComputedKept, UnseenByLifecycle DEF Lives
<1>2. CASE FailQueued(s) \/ MarkFailed(s)
  <2>1. worker[s].at \notin {"idle", "record"} /\ Finish(s)
    BY <1>2 DEF FailQueued, MarkFailed
  <2>2. Computed' = Computed
    BY <2>1, <1>t, FinishedWorker, ComputedKept
  <2>3. CASE UNCHANGED run
    BY <2>1, <2>3, <1>t, FinishUnseen
  <2>4. CASE SetStatus(n, "failed")
    BY <2>1, <2>2, <2>4, <1>q, <1>t, FailureSeen
  <2> QED
    BY <1>2, <2>3, <2>4 DEF FailQueued, MarkFailed
<1>3. CASE Claim(s)
  <2>1. CASE Status(n) = "queued"
    <3>1. worker[s].at = "claim" /\ SetStatus(n, "running") /\ Goto(s, "record")
      BY <1>3, <2>1 DEF Claim
    <3>2. Computed' = Computed \cup {n}
      BY <3>1, <1>t, WorkerGoesOn, ComputedGrows
    <3>3. Lives' = [Lives EXCEPT ![n].status = "running"]
      BY <3>1, <1>q, <1>t, StatusSeen DEF RunStatus
    <3>4. n \in Run /\ Lifecycle!Execute(n)
      BY <2>1, <3>1, <3>2, <3>3, <1>q, LifeOf DEF Lifecycle!Execute, Status
    <3> QED
      BY <3>4 DEF Lifecycle!Next
  <2>2. CASE Status(n) # "queued"
    <3>1. worker[s].at # "record" /\ Finish(s) /\ UNCHANGED run
      BY <1>3, <2>2 DEF Claim
    <3> QED
      BY <3>1, <1>t, FinishUnseen
  <2> QED
    BY <2>1, <2>2
<1>4. CASE Record(s)
  <2>1. worker[s].at = "record" /\ Finish(s) /\ n \in Run
    BY <1>4, <1>q DEF Record
  <2>2. Computed' = Computed \ {n}
    BY <2>1, <1>t, FinishedWorker, ComputedShrinks
  <2>3. n \in Computed
    BY <2>1 DEF Computed
  <2>4. run[n].result = None /\ worker[s].inputs = run[n].inputs /\ Status(n) # "queued"
    BY <2>1 DEF IInv, ExecutedOnce, WorkersHaveInputs, ClaimedRunsLeftTheQueue
  <2>5. Status(n) # "completed"
    <3>1. Status(n) # "absent" => run[n].inputs # None
      BY <2>1, ReplayAssumption DEF LInv, RunsHaveInputs
    <3> QED
      BY <2>1, <2>4, <3>1 DEF IInv, ResultsMatch
  <2>6. Lives[n].status \in {"running", "failed"}
    BY <2>1, <2>4, <2>5, <1>q, <1>t, LifeOf DEF TypeOK, RunRow, RunStatus, Status
  <2>7. /\ run'[n].status = "completed" /\ run'[n].result = run[n].inputs
        /\ run'[n].inputs = run[n].inputs
        /\ \A m \in Run \ {n} : run'[m] = run[m]
    BY <1>4, <2>1, <2>4, <1>t DEF Record, TypeOK, RunRow
  <2>8. Lives' = [Lives EXCEPT ![n].status = "completed", ![n].result = Lives[n].inputs]
    BY <2>1, <2>7 DEF Lives
  <2>9. Lifecycle!Complete(n)
    BY <2>2, <2>3, <2>6, <2>8 DEF Lifecycle!Complete
  <2> QED
    BY <2>1, <2>9 DEF Lifecycle!Next
<1> QED
  BY <1>1, <1>2, <1>3, <1>4 DEF HandlerStep

\* A worker past its claim goes on without its completion.
LEMMA LossSeen ==
    ASSUME IInv, NEW s \in Server, worker[s].at = "record", worker'[s].at # "record",
           \A t \in Server \ {s} : worker'[t] = worker[t], UNCHANGED run
    PROVE  Lifecycle!Next
PROOF
<1> DEFINE n == worker[s].run
<1>1. n \in Run /\ n \in Computed
  BY DEF IInv, WorkersHaveRuns, Computed
<1>2. Computed' = Computed \ {n}
  BY ComputedShrinks DEF IInv
<1>3. Lifecycle!Lose(n)
  BY <1>1, <1>2 DEF Lifecycle!Lose, Lives
<1> QED
  BY <1>1, <1>3 DEF Lifecycle!Next

LEMMA FaultSeen ==
    ASSUME IInv, NEW s \in Server, FaultStep(s)
    PROVE  [Lifecycle!Next]_(Lifecycle!vars)
PROOF
<1>t. TypeOK
  BY DEF IInv
<1>1. CASE PlanThrows(s) \/ MarkThrows(s)
  BY <1>1, <1>t, FinishUnseen DEF PlanThrows, MarkThrows
<1>2. CASE RecoveryThrows(s)
  BY <1>2, UnseenByLifecycle DEF RecoveryThrows, Lives, Computed
<1>3. CASE ExecuteThrows(s) \/ Crash(s)
  <2>1. /\ worker'[s].at # "record" /\ \A t \in Server \ {s} : worker'[t] = worker[t]
        /\ UNCHANGED run
    BY <1>3, <1>t, WorkerGoesOn, FinishedWorker DEF ExecuteThrows, Crash
  <2>2. CASE worker[s].at = "record"
    BY <2>1, <2>2, LossSeen
  <2>3. CASE worker[s].at # "record"
    BY <2>1, <2>3, ComputedKept, UnseenByLifecycle DEF Lives
  <2> QED
    BY <2>2, <2>3
<1> QED
  BY <1>1, <1>2, <1>3 DEF FaultStep

LEMMA RecoverySeen ==
    ASSUME IInv, NEW s \in Server, RecoveryStep(s)
    PROVE  [Lifecycle!Next]_(Lifecycle!vars)
PROOF
<1>1. CASE FailStaleRuns(s)
  <2> DEFINE Stale == {n \in Run : Status(n) = "running" /\ run[n].late}
  <2>1. Computed' = Computed
    BY <1>1 DEF FailStaleRuns, Computed
  <2>2. \A n \in Run : Lives'[n] = IF n \in Stale THEN [Lives[n] EXCEPT !.status = "failed"]
                                                ELSE Lives[n]
    BY <1>1 DEF FailStaleRuns, Lives, IInv, TypeOK, RunRow
  <2>3. Lives' = [n \in Run |-> IF n \in Stale THEN [Lives[n] EXCEPT !.status = "failed"]
                                             ELSE Lives[n]]
    BY <2>2 DEF Lives
  <2>4. \A n \in Stale : Lives[n].status # "absent"
    BY LifeOf DEF Status
  <2>5. Stale \in SUBSET Run
    OBVIOUS
  <2> HIDE DEF Stale
  <2>6. Lifecycle!Fail(Stale)
    BY <2>1, <2>3, <2>4 DEF Lifecycle!Fail, Lifecycle!Failed
  <2> QED
    BY <2>5, <2>6 DEF Lifecycle!Next
<1>2. CASE ListQueued(s) \/ Resend(s) \/ EndRecovery(s)
  BY <1>2, UnseenByLifecycle DEF ListQueued, Resend, EndRecovery, Lives, Computed
<1> QED
  BY <1>1, <1>2 DEF RecoveryStep

LEMMA EveryStepIsSeen ==
    ASSUME IInv, LInv, [Next]_vars
    PROVE  [Lifecycle!Next]_(Lifecycle!vars)
PROOF
<1>1. CASE UNCHANGED <<run, worker>>
  BY <1>1, UnseenByLifecycle DEF Lives, Computed
<1>2. ASSUME NEW n \in Run, BecomesLate(n)
      PROVE  [Lifecycle!Next]_(Lifecycle!vars)
  <2>1. Computed' = Computed
    BY <1>2 DEF BecomesLate, Computed
  <2>2. \A m \in Run : /\ run'[m].status = run[m].status
                       /\ run'[m].inputs = run[m].inputs
                       /\ run'[m].result = run[m].result
    BY <1>2 DEF BecomesLate, IInv, TypeOK, RunRow
  <2>3. Lives' = Lives
    BY <2>2 DEF Lives
  <2> QED
    BY <2>1, <2>3, UnseenByLifecycle
<1>3. ASSUME NEW s \in Server, Start(s) \/ Stop(s)
      PROVE  UNCHANGED <<run, worker>>
  BY <1>3 DEF Start, Stop
<1> QED
  BY <1>1, <1>2, <1>3, RequestSeen, HandlerSeen, FaultSeen, RecoverySeen
  DEF Next, ChangeInputs, vars

LEMMA InitIsLifecycleInit == Init => Lifecycle!Init
PROOF
<1> SUFFICES ASSUME Init
             PROVE  Lifecycle!Init
  OBVIOUS
<1>1. Lives = [n \in Run |-> [status |-> "absent", inputs |-> None, result |-> None]]
  BY DEF Init, Lives, NoRun
<1>2. Computed = {}
  BY DEF Init, Computed, IdleWorker
<1> QED
  BY <1>1, <1>2 DEF Lifecycle!Init

\* However often jobs are delivered and servers crash and recover, the table of runs is the
\* one RunLifecycle promises: each run is executed at most once, and completed at most
\* once, with the result of its inputs.
THEOREM RunsAreLifecycles == Spec => ImplementsRunLifecycle
PROOF
<1>1. IInv /\ LInv /\ [Next]_vars => [Lifecycle!Next]_(Lifecycle!vars)
  BY EveryStepIsSeen
<1>2. Init => IInv /\ LInv
  BY InitIInv, InitLInv
<1>3. IInv /\ LInv /\ [Next]_vars => IInv' /\ LInv'
  BY NextIInv, NextLInv
<1> QED
  BY <1>1, <1>2, <1>3, InitIsLifecycleInit, PTL
  DEF Spec, ImplementsRunLifecycle, Lifecycle!Spec
=============================================================================
