----------------------------- MODULE DecisionLog -----------------------------
(***************************************************************************)
(* What the decision table promises, whatever transactions write it: a     *)
(* log that only grows at its end, and whose entry for a version and the   *)
(* version's own status appear together.                                   *)
(***************************************************************************)
EXTENDS Sequences, Naturals

CONSTANTS
    Version,      \* policy versions
    Review,       \* change reviews
    Seed,         \* ids of the rows that seeding writes
    Candidate     \* review -> the version it reviews

VARIABLES
    stage,        \* version -> its status
    log           \* sequence of [id, outcome]

vars == <<stage, log>>

Final(o) == IF o = "accept" THEN "accepted" ELSE "rejected"
Ids == {log[i].id : i \in 1..Len(log)}

Init ==
    /\ stage = [v \in Version |-> "draft"]
    /\ log = <<>>

Submit(v) ==
    /\ stage[v] = "draft"
    /\ stage' = [stage EXCEPT ![v] = "in_review"]
    /\ UNCHANGED log

Withdraw(v) ==
    /\ stage[v] = "in_review"
    /\ stage' = [stage EXCEPT ![v] = "draft"]
    /\ UNCHANGED log

Decide(r, o) ==
    /\ stage[Candidate[r]] = "in_review"
    /\ r \notin Ids
    /\ stage' = [stage EXCEPT ![Candidate[r]] = Final(o)]
    /\ log' = Append(log, [id |-> r, outcome |-> o])

\* A seeded Policy is accepted elsewhere; its entry stands alone.
Record(s) ==
    /\ s \notin Ids
    /\ log' = Append(log, [id |-> s, outcome |-> "accept"])
    /\ UNCHANGED stage

Next ==
    \/ \E v \in Version : Submit(v) \/ Withdraw(v)
    \/ \E r \in Review, o \in {"accept", "reject"} : Decide(r, o)
    \/ \E s \in Seed : Record(s)

Spec == Init /\ [][Next]_vars
=============================================================================
