---------------------------- MODULE RunLifecycle ----------------------------
(***************************************************************************)
(* What the replay_runs table promises, however many servers deliver its   *)
(* jobs, crash and recover: a run is executed at most once, a run that has *)
(* completed is not completed again, and its result is of the inputs it    *)
(* was requested for.                                                      *)
(***************************************************************************)
CONSTANTS
    Run,          \* replay run ids
    Inputs,       \* inputsHashes
    None          \* stands for null

VARIABLES
    life,         \* run -> its status, inputs and result
    computing     \* the runs whose completion is being computed

vars == <<life, computing>>

Init ==
    /\ life = [n \in Run |-> [status |-> "absent", inputs |-> None, result |-> None]]
    /\ computing = {}

Enqueue(n, i) ==
    /\ life[n].status = "absent"
    /\ life' = [life EXCEPT ![n] = [status |-> "queued", inputs |-> i, result |-> None]]
    /\ UNCHANGED computing

Execute(n) ==
    /\ life[n].status = "queued"
    /\ life' = [life EXCEPT ![n].status = "running"]
    /\ computing' = computing \cup {n}

\* A run that was failed while it was computed is completed all the same.
Complete(n) ==
    /\ n \in computing
    /\ life[n].status \in {"running", "failed"}
    /\ life' = [life EXCEPT ![n].status = "completed", ![n].result = life[n].inputs]
    /\ computing' = computing \ {n}

\* The computation is lost; the run is failed later, or stays as it is.
Lose(n) ==
    /\ n \in computing
    /\ computing' = computing \ {n}
    /\ UNCHANGED life

\* Runs are failed, one or several at once; the inputs and a result stay.
Failed(row) == [row EXCEPT !.status = "failed"]

Fail(N) ==
    /\ \A n \in N : life[n].status # "absent"
    /\ life' = [n \in Run |-> IF n \in N THEN Failed(life[n]) ELSE life[n]]
    /\ UNCHANGED computing

Next ==
    \/ \E n \in Run, i \in Inputs : Enqueue(n, i)
    \/ \E n \in Run : Execute(n) \/ Complete(n) \/ Lose(n)
    \/ \E N \in SUBSET Run : Fail(N)

Spec == Init /\ [][Next]_vars
=============================================================================
