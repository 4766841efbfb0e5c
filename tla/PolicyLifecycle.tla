-------------------------- MODULE PolicyLifecycle --------------------------
(***************************************************************************)
(* What the policy and review packages together promise about the versions *)
(* of one Policy, without saying how: a version is edited only while it is *)
(* a draft, at most one version is under review, an accepted or rejected   *)
(* version never moves again, and it got there by exactly one entry of the *)
(* decision ledger.                                                        *)
(***************************************************************************)
EXTENDS FiniteSets

CONSTANTS
    Version,     \* versions of the one Policy
    Content,     \* policy documents, told apart by their content hash
    NoContent,   \* the content of a version that does not exist yet
    DecisionId   \* what identifies an entry of the ledger

VARIABLES
    stage,       \* version -> "absent" or its status
    document,    \* version -> Content, or NoContent
    ledger       \* set of [id, version, outcome]

vars == <<stage, document, ledger>>

Outcome == {"accept", "reject"}
Stage == {"absent", "draft", "in_review", "accepted", "rejected"}
Entry == [id : DecisionId, version : Version, outcome : Outcome]

Final(o) == IF o = "accept" THEN "accepted" ELSE "rejected"

TypeOK ==
    /\ stage \in [Version -> Stage]
    /\ document \in [Version -> Content \cup {NoContent}]
    /\ ledger \subseteq Entry

Init ==
    /\ \E v \in Version, c \in Content :
        /\ stage = [w \in Version |-> IF w = v THEN "draft" ELSE "absent"]
        /\ document = [w \in Version |-> IF w = v THEN c ELSE NoContent]
    /\ ledger = {}

Create(v, c) ==
    /\ stage[v] = "absent"
    /\ stage' = [stage EXCEPT ![v] = "draft"]
    /\ document' = [document EXCEPT ![v] = c]
    /\ UNCHANGED ledger

Edit(v, c) ==
    /\ stage[v] = "draft"
    /\ document' = [document EXCEPT ![v] = c]
    /\ UNCHANGED <<stage, ledger>>

Submit(v) ==
    /\ stage[v] = "draft"
    /\ \A w \in Version : stage[w] # "in_review"
    /\ stage' = [stage EXCEPT ![v] = "in_review"]
    /\ UNCHANGED <<document, ledger>>

Withdraw(v) ==
    /\ stage[v] = "in_review"
    /\ stage' = [stage EXCEPT ![v] = "draft"]
    /\ UNCHANGED <<document, ledger>>

Decide(d, v, o) ==
    /\ stage[v] = "in_review"
    /\ \A e \in ledger : e.id # d
    /\ stage' = [stage EXCEPT ![v] = Final(o)]
    /\ ledger' = ledger \cup {[id |-> d, version |-> v, outcome |-> o]}
    /\ UNCHANGED document

Next ==
    \/ \E v \in Version, c \in Content : Create(v, c) \/ Edit(v, c)
    \/ \E v \in Version : Submit(v) \/ Withdraw(v)
    \/ \E d \in DecisionId, v \in Version, o \in Outcome : Decide(d, v, o)

Spec == Init /\ [][Next]_vars

-----------------------------------------------------------------------------

\* At most one version of the Policy is under review.
OneUnderReview ==
    \A v, w \in Version : stage[v] = "in_review" /\ stage[w] = "in_review" => v = w

\* A version is accepted (rejected) exactly when the ledger holds an accept
\* (reject) of it, and no version is decided by two entries.
LedgerDecides ==
    /\ \A e \in ledger : stage[e.version] = Final(e.outcome)
    /\ \A v \in Version :
        stage[v] \in {"accepted", "rejected"} => \E e \in ledger : e.version = v
    /\ \A e, f \in ledger : e.version = f.version \/ e.id = f.id => e = f
=============================================================================
