--------------------------- MODULE PolicyVersions ---------------------------
(***************************************************************************)
(* The policy_versions table of packages/policy and the statements that    *)
(* read and write it. The server keeps one Policy, so the table is the     *)
(* list of its versions and a version is its versionNumber.                *)
(*                                                                         *)
(* PostgreSQL runs every transaction at READ COMMITTED. A transition reads *)
(* the status and then updates `where status = <what was read>`: it        *)
(* commits as a whole or it changes nothing, so it is one step here.       *)
(* createDraftVersion is three statements whose reads take no lock; the    *)
(* module that uses these operators keeps them apart.                      *)
(***************************************************************************)
EXTENDS Integers, FiniteSets

CONSTANTS
    Content,      \* policy documents, told apart by their content hash
    NoContent,    \* stands for "no document"
    Upgraded,     \* content -> what upgradePolicyDocument makes of it
    MaxVersion    \* bound: versions the model lets the Policy have

ASSUME VersionAssumption ==
    /\ MaxVersion \in Nat \ {0}
    /\ NoContent \notin Content
    /\ Upgraded \in [Content -> Content]

VARIABLES
    vstatus,      \* version -> "absent" or policy_versions.status
    vcontent      \* version -> policy_versions.content_hash, or NoContent

versionVars == <<vstatus, vcontent>>

Version == 1..MaxVersion
NoVersion == 0
VersionStatus == {"absent", "draft", "in_review", "accepted", "rejected"}
Transition == {"submit", "accept", "reject", "withdraw"}

VersionTypeOK ==
    /\ vstatus \in [Version -> VersionStatus]
    /\ vcontent \in [Version -> Content \cup {NoContent}]

\* createPolicy inserts the policy and its version 1, a draft, in one
\* transaction: the state every later request starts from.
VersionInit ==
    /\ vstatus = [v \in Version |-> IF v = 1 THEN "draft" ELSE "absent"]
    /\ \E c \in Content :
        vcontent = [v \in Version |-> IF v = 1 THEN c ELSE NoContent]

Exists(v) == vstatus[v] # "absent"

\* The transition table of the domain.
FromStatus(t) == IF t = "submit" THEN "draft" ELSE "in_review"

ToStatus(t) ==
    CASE t = "submit" -> "in_review"
      [] t = "accept" -> "accepted"
      [] t = "reject" -> "rejected"
      [] t = "withdraw" -> "draft"

\* Mutant of ReviewSlotFree: the index is missing.
AnySlotFree(v) == TRUE

\* uq_policy_versions__one_in_review: the partial unique index refuses a second
\* version in review.
ReviewSlotFree(v) == \A w \in Version \ {v} : vstatus[w] # "in_review"

\* transitionVersion succeeds: the status is the one the transition leaves, and
\* the update does not run into the partial unique index.
CanTransition(v, t) ==
    /\ vstatus[v] = FromStatus(t)
    /\ ToStatus(t) = "in_review" => ReviewSlotFree(v)

TransitionVersion(v, t) ==
    /\ CanTransition(v, t)
    /\ vstatus' = [vstatus EXCEPT ![v] = ToStatus(t)]
    /\ UNCHANGED vcontent

Accepted == {v \in Version : vstatus[v] = "accepted"}

\* getBaseline: the accepted version with the highest versionNumber, NoVersion
\* for policy.no_accepted_version.
Baseline ==
    IF Accepted = {} THEN NoVersion
    ELSE CHOOSE v \in Accepted : \A w \in Accepted : w <= v

\* Mutant of UpdateDraftDocument: the statement does not ask for a draft.
UpdateAnyDocument(v, ifMatch, c) ==
    /\ Exists(v)
    /\ vcontent[v] = ifMatch
    /\ vcontent' = [vcontent EXCEPT ![v] = c]
    /\ UNCHANGED vstatus

\* updateDraftDocument: compare and set on the status and the content hash.
UpdateDraftDocument(v, ifMatch, c) ==
    /\ vstatus[v] = "draft"
    /\ vcontent[v] = ifMatch
    /\ vcontent' = [vcontent EXCEPT ![v] = c]
    /\ UNCHANGED vstatus

\* createDraftVersion, the check of its second statement.
NoOpenDraft == \A v \in Version : vstatus[v] # "draft"

\* createDraftVersion, its third statement: max(version_number).
HighestNumber == CHOOSE n \in Version :
    /\ Exists(n)
    /\ \A v \in Version : Exists(v) => v <= n

\* createDraftVersion, the insert. The unique (policy_id, version_number) index
\* refuses a number that is taken.
InsertDraft(n, c) ==
    /\ ~Exists(n)
    /\ vstatus' = [vstatus EXCEPT ![n] = "draft"]
    /\ vcontent' = [vcontent EXCEPT ![n] = c]
=============================================================================
