------------------------- MODULE ChangeReviewProofs -------------------------
(***************************************************************************)
(* Proofs about ChangeReview, for any number of requests, reviews, runs,   *)
(* groups, documents and versions: the types, the agreement of decisions   *)
(* and versions, and the refinement of PolicyLifecycle.                    *)
(*                                                                         *)
(* The first two are proved together, as parts of one inductive invariant. *)
(* What it adds to them is what a handler may rely on between two awaits.  *)
(* What the lifecycle alone keeps, ChangeReview has by the refinement.     *)
(*                                                                         *)
(* The last part is about requests that come one after another: a frozen   *)
(* candidate and what a decision pins. There what a handler has read is    *)
(* still true when it writes, whatever replay runs do late, and the rows   *)
(* fit together wherever a handler has ended half way.                     *)
(***************************************************************************)
EXTENDS ChangeReview, FiniteSetTheorems, WellFoundedInduction, TLAPS

CreateAt == {"findOpen", "baseline", "submit", "replay", "insert"}
ReviewAt ==
    {"sync", "markReady", "failReview", "upsert", "readRun", "gate", "snapshot",
     "decide", "withdraw"}
DecideAt == {"readRun", "gate", "snapshot", "decide"}
DraftAt == {"draftMax", "draftInsert"}

\* The replay worker.
RunStep(n) == StartRun(n) \/ CompleteRun(n) \/ FailRun(n)

\* createPolicy left version 1, and no version is ever deleted.
FirstVersionExists == Exists(1)

\* The row of a version has a document.
VersionsHaveContent == \A v \in Version : Exists(v) => vcontent[v] \in Content

\* The row of a review has a candidate.
ReviewsHaveCandidate ==
    \A r \in Review : ReviewExists(r) => review[r].cand \in Version

\* What a request holds at each step: a create an id nobody uses and a version, an
\* operation a review that exists, a draft a document.
HandlerHolds(s) ==
    /\ s.at = "idle" => s.rev = None
    /\ s.at \in CreateAt => s.op = "create"
    /\ s.op = "create" => /\ s.rev \in Review
                          /\ ~ReviewExists(s.rev)
                          /\ s.ver \in Version
    /\ s.at \in ReviewAt => /\ s.op \in Operation
                            /\ s.rev \in Review
                            /\ ReviewExists(s.rev)
    /\ s.at \in DecideAt => s.op \in Outcome
    /\ s.at \in DraftAt => s.hash \in Content /\ s.rev = None /\ s.op = "draft"
    /\ s.at = "draftInsert" => s.ver \in Version

HandlersHold == \A p \in Request : HandlerHolds(req[p])

\* Two creates never hold the same id.
IdsAreReserved ==
    \A p, q \in Request :
        req[p].op = "create" /\ q # p => req[q].rev # req[p].rev

\* A decision is about a review that exists.
DecidedReviewsExist == \A r \in Review : Decided(r) => ReviewExists(r)

IInv ==
    /\ RowsTypeOK
    /\ FirstVersionExists
    /\ VersionsHaveContent
    /\ ReviewsHaveCandidate
    /\ HandlersHold
    /\ IdsAreReserved
    /\ DecidedReviewsExist

-----------------------------------------------------------------------------
(* Arithmetic of version numbers *)

\* A set of version numbers that is not empty has a greatest element: what the
\* max(version_number) and the order by version_number of the queries rely on.
LEMMA HasGreatest ==
    ASSUME NEW n \in Nat, NEW S \in SUBSET (1..n), S # {}
    PROVE  \E m \in S : \A w \in S : w <= m
PROOF
<1> DEFINE Above(x) == {y \in S : x < y}
           T == {Above(x) : x \in S}
<1>1. IsFiniteSet(S)
  <2>1. IsFiniteSet(1..n)
    BY FS_Interval
  <2> QED
    BY <2>1, FS_Subset
<1>2. T \subseteq FiniteSubsetsOf(S)
  BY <1>1, FS_Subset DEF FiniteSubsetsOf
<1>3. T # {}
  OBVIOUS
<1>4. PICK U \in T : \A V \in T : <<V, U>> \notin StrictSubsetOrdering(S)
  <2> HIDE DEF T
  <2> QED
    BY <1>2, <1>3, FS_StrictSubsetOrderingWellFounded, WFMin
<1>5. PICK m \in S : U = Above(m)
  OBVIOUS
<1>6. \A w \in S : w <= m
  <2> SUFFICES ASSUME NEW w \in S, m < w
               PROVE  FALSE
    OBVIOUS
  <2>1. Above(w) \subseteq Above(m)
    <3> SUFFICES ASSUME NEW y \in S, w < y
                 PROVE  m < y
      OBVIOUS
    <3> QED
      OBVIOUS
  <2>2. w \in Above(m) /\ w \notin Above(w)
    OBVIOUS
  <2>3. Above(w) \in T /\ Above(m) \in T
    OBVIOUS
  <2>4. Above(w) \in SUBSET S /\ Above(m) \in SUBSET S
    OBVIOUS
  <2>5. <<Above(w), Above(m)>> \in StrictSubsetOrdering(S)
    <3> HIDE DEF Above
    <3> QED
      BY <2>1, <2>2, <2>4, Zenon DEF StrictSubsetOrdering
  <2> QED
    BY <1>4, <1>5, <2>3, <2>5
<1> QED
  BY <1>6

\* getBaseline answers an accepted version, or none.
LEMMA BaselineType ==
    ASSUME VersionTypeOK
    PROVE  Baseline \in Version \cup {NoVersion}
PROOF
<1>1. CASE Accepted = {}
  BY <1>1 DEF Baseline
<1>2. CASE Accepted # {}
  <2>1. \E v \in Accepted : \A w \in Accepted : w <= v
    <3>1. Accepted \in SUBSET (1..MaxVersion)
      BY DEF Accepted, Version
    <3> QED
      BY <1>2, <3>1, HasGreatest, VersionAssumption
  <2> QED
    BY <1>2, <2>1 DEF Baseline, Accepted
<1> QED
  BY <1>1, <1>2

\* max(version_number) is the number of a version.
LEMMA HighestNumberType ==
    ASSUME FirstVersionExists
    PROVE  HighestNumber \in Version
PROOF
<1> DEFINE S == {v \in Version : Exists(v)}
<1>1. S \in SUBSET (1..MaxVersion) /\ S # {}
  BY VersionAssumption DEF FirstVersionExists, Version
<1>2. PICK m \in S : \A w \in S : w <= m
  <2> HIDE DEF S
  <2> QED
    BY <1>1, HasGreatest, VersionAssumption
<1>3. \E n \in Version : Exists(n) /\ \A v \in Version : Exists(v) => v <= n
  BY <1>2
<1> QED
  BY <1>3 DEF HighestNumber

\* The sequence number of a decision is a natural number.
LEMMA NextSequenceType == NextSequence \in Nat
PROOF
<1>1. IsFiniteSet({r \in Review : Decided(r)})
  BY FS_Subset, ReviewAssumption
<1>2. Cardinality({r \in Review : Decided(r)}) \in Nat
  BY <1>1, FS_CardinalityType
<1> QED
  BY <1>2 DEF NextSequence

-----------------------------------------------------------------------------
(* Types *)

\* The records of Init are rows and states of requests.
LEMMA RowTypes ==
    /\ NoSnapshot \in Snapshot
    /\ NoReview \in ReviewRow
    /\ NoRun \in RunRow
    /\ NoDecision \in DecisionRow
    /\ Idle \in RequestState
PROOF
<1>1. NoSnapshot \in Snapshot
  BY DEF NoSnapshot, Snapshot
<1>2. NoReview \in ReviewRow
  BY DEF NoReview, ReviewRow
<1>3. NoRun \in RunRow
  BY DEF NoRun, RunRow
<1>4. NoDecision \in DecisionRow
  BY <1>1 DEF NoDecision, DecisionRow
<1>5. Idle \in RequestState
  BY <1>1 DEF Idle, RequestState, Step, VersionStatus
<1> QED
  BY <1>1, <1>2, <1>3, <1>4, <1>5

\* A transition moves a version to one of its statuses.
LEMMA TransitionType ==
    ASSUME VersionTypeOK, NEW v, NEW t \in Transition, TransitionVersion(v, t)
    PROVE  VersionTypeOK'
PROOF
<1>1. ToStatus(t) \in VersionStatus
  BY DEF ToStatus, Transition, VersionStatus
<1> QED
  BY <1>1 DEF VersionTypeOK, TransitionVersion, Version

\* Writing the status of a review keeps its row well typed.
LEMMA StatusType ==
    ASSUME review \in [Review -> ReviewRow], NEW r, NEW s \in ReviewStatus,
           review' = [review EXCEPT ![r].status = s]
    PROVE  review' \in [Review -> ReviewRow]
  BY DEF ReviewRow

\* It leaves the candidate of every review alone, and every other review.
LEMMA StatusOnly ==
    ASSUME review \in [Review -> ReviewRow], NEW r \in Review, NEW s,
           review' = [review EXCEPT ![r].status = s]
    PROVE  /\ \A x \in Review : review'[x].cand = review[x].cand
           /\ \A x \in Review \ {r} : review'[x] = review[x]
           /\ review'[r].status = s
PROOF
<1>1. review' = [review EXCEPT ![r] = [review[r] EXCEPT !.status = s]]
  OBVIOUS
<1>2. review[r] \in ReviewRow
  OBVIOUS
<1>3. /\ [review[r] EXCEPT !.status = s].cand = review[r].cand
      /\ [review[r] EXCEPT !.status = s].status = s
  BY <1>2 DEF ReviewRow
<1> QED
  BY <1>1, <1>3

\* Going on to another step, or returning, leaves a well typed request.
LEMMA GotoType ==
    ASSUME req \in [Request -> RequestState], NEW p \in Request,
           (\E s \in Step : Goto(p, s)) \/ Return(p)
    PROVE  req' \in [Request -> RequestState]
PROOF
<1>1. ASSUME NEW s \in Step, Goto(p, s)
      PROVE  req' \in [Request -> RequestState]
  BY <1>1 DEF Goto, RequestState
<1>2. CASE Return(p)
  BY <1>2, RowTypes DEF Return
<1> QED
  BY <1>1, <1>2

\* After syncStatus, an operation on a review goes on or returns.
LEMMA SyncedType ==
    ASSUME NEW p \in Request, NEW op \in Operation, NEW r \in Review, NEW s
    PROVE  Synced(p, op, r, s) \in RequestState
PROOF
<1>1. AfterSync(op, s) \in Step
  BY DEF AfterSync, Step
<1> QED
  BY <1>1, RowTypes DEF Synced, Idle, RequestState

\* The steps of createChangeReview keep the types.
LEMMA CreateTypes ==
    ASSUME IInv, NEW p \in Request, CreateStep(p)
    PROVE  RowsTypeOK'
PROOF
<1> USE DEF IInv, RowsTypeOK
<1>1. ASSUME NEW r \in Review, NEW v \in Version, CreateReview(p, r, v)
      PROVE  RowsTypeOK'
  <2>1. vstatus[v] \in VersionStatus /\ vcontent[v] \in Content \cup {NoContent}
    BY DEF VersionTypeOK
  <2>2. req' \in [Request -> RequestState]
    BY <1>1, <2>1, RowTypes DEF CreateReview, Idle, RequestState, Step
  <2> QED
    BY <1>1, <2>2 DEF CreateReview, versionVars, reviewVars, VersionTypeOK
<1>2. CASE FindOpenReview(p)
  <2>1. req' \in [Request -> RequestState]
    BY <1>2, GotoType DEF FindOpenReview, Step
  <2> QED
    BY <1>2, <2>1 DEF FindOpenReview, versionVars, reviewVars, VersionTypeOK
<1>3. CASE ReadBaseline(p)
  <2>1. Baseline \in Version \cup {NoVersion}
    BY BaselineType
  <2>2. req' \in [Request -> RequestState]
    BY <1>3, <2>1 DEF ReadBaseline, RequestState, Step
  <2> QED
    BY <1>3, <2>2 DEF ReadBaseline, versionVars, reviewVars, VersionTypeOK
<1>4. CASE SubmitForReview(p)
  <2>1. req' \in [Request -> RequestState]
    BY <1>4, GotoType DEF SubmitForReview, Step
  <2>2. VersionTypeOK'
    BY <1>4, TransitionType
    DEF SubmitForReview, Transition, versionVars, VersionTypeOK
  <2> QED
    BY <1>4, <2>1, <2>2 DEF SubmitForReview, reviewVars
<1>5. CASE RequestReplay(p)
  <2>1. /\ req[p].ver \in Version
        /\ req[p].base \in Version \cup {NoVersion}
    BY <1>5 DEF RequestReplay, HandlersHold, HandlerHolds, DecideAt, CreateAt, RequestState
  <2>2. /\ vcontent[req[p].ver] \in Content \cup {NoContent}
        /\ ContentOf(req[p].base) \in Content \cup {NoContent}
    BY <2>1 DEF VersionTypeOK, ContentOf
  <2>3. run' \in [Run -> RunRow]
    <3> DEFINE row == [status |-> "queued", cand |-> req[p].ver,
                       candHash |-> vcontent[req[p].ver],
                       baseHash |-> ContentOf(req[p].base), computing |-> FALSE]
    <3>1. row \in RunRow
      BY <2>1, <2>2 DEF RunRow, RunStatus
    <3>2. (\E n \in Run : run' = [run EXCEPT ![n] = row]) \/ run' = run
      BY <1>5 DEF RequestReplay
    <3> QED
      BY <3>1, <3>2
  <2>4. req' \in [Request -> RequestState]
    <3>1. ASSUME NEW n \in Run,
                 \/ req' = [req EXCEPT ![p].at = "insert", ![p].run = n,
                                       ![p].rready = TRUE]
                 \/ req' = [req EXCEPT ![p].at = "insert", ![p].run = n]
          PROVE  req' \in [Request -> RequestState]
      BY <3>1 DEF RequestState, Step
    <3>2. CASE Return(p)
      BY <3>2, GotoType
    <3>3. \/ \E n \in Run :
              \/ req' = [req EXCEPT ![p].at = "insert", ![p].run = n,
                                    ![p].rready = TRUE]
              \/ req' = [req EXCEPT ![p].at = "insert", ![p].run = n]
          \/ Return(p)
      BY <1>5, Zenon DEF RequestReplay
    <3> QED
      BY <3>1, <3>2, <3>3
  <2> QED
    BY <1>5, <2>3, <2>4 DEF RequestReplay, versionVars, reviewVars, VersionTypeOK
<1>6. CASE InsertReview(p)
  <2>1. req' \in [Request -> RequestState]
    BY <1>6, GotoType DEF InsertReview
  <2>2. review' \in [Review -> ReviewRow]
    BY <1>6 DEF InsertReview, ReviewRow, ReviewStatus, Open, RequestState
  <2> QED
    BY <1>6, <2>1, <2>2 DEF InsertReview, versionVars, VersionTypeOK
<1> QED
  BY <1>1, <1>2, <1>3, <1>4, <1>5, <1>6 DEF CreateStep

\* The operations on a review keep the types.
LEMMA ReviewTypes ==
    ASSUME IInv, NEW p \in Request, ReviewStep(p)
    PROVE  RowsTypeOK'
PROOF
<1> USE DEF IInv, RowsTypeOK
<1> DEFINE Untouched == UNCHANGED <<versionVars, reviewVars, run>>
<1>0. ASSUME Untouched, req' \in [Request -> RequestState]
      PROVE  RowsTypeOK'
  BY <1>0 DEF versionVars, reviewVars, VersionTypeOK
<1>1. ASSUME NEW op \in Operation, NEW r \in Review, ReadReview(p, op, r)
      PROVE  RowsTypeOK'
  <2>1. Synced(p, op, r, review[r].status) \in RequestState
    BY SyncedType
  <2>2. [Idle EXCEPT !.at = "sync", !.op = op, !.rev = r] \in RequestState
    BY RowTypes DEF Idle, RequestState, Step
  <2>3. req' \in [Request -> RequestState]
    BY <1>1, <2>1, <2>2 DEF ReadReview
  <2> QED
    BY <1>0, <1>1, <2>3 DEF ReadReview
<1>h. req[p].at \in ReviewAt => req[p].rev \in Review /\ req[p].op \in Operation
  BY DEF HandlersHold, HandlerHolds, DecideAt
<1>2. CASE SyncStatus(p)
  <2>1. Synced(p, req[p].op, req[p].rev, "computing") \in RequestState
    BY <1>2, <1>h, SyncedType DEF SyncStatus, ReviewAt
  <2>2. \/ \E a \in Step : Goto(p, a)
        \/ req' = [req EXCEPT ![p] = Synced(p, req[p].op, req[p].rev, "computing")]
    BY <1>2 DEF SyncStatus, Step
  <2>3. req' \in [Request -> RequestState]
    BY <2>1, <2>2, GotoType
  <2> QED
    BY <1>0, <1>2, <2>3 DEF SyncStatus
<1>11. CASE MarkReady(p)
  <2>1. review' \in [Review -> ReviewRow]
    BY <1>11, StatusType DEF MarkReady, ReviewStatus, Open
  <2>2. Synced(p, req[p].op, req[p].rev, "ready") \in RequestState
    BY <1>11, <1>h, SyncedType DEF MarkReady, ReviewAt
  <2>3. req' \in [Request -> RequestState]
    BY <1>11, <2>2 DEF MarkReady
  <2> QED
    BY <1>11, <2>1, <2>3 DEF MarkReady, versionVars, VersionTypeOK
<1>12. CASE FailReview(p)
  <2>1. review' \in [Review -> ReviewRow]
    BY <1>12, StatusType DEF FailReview, ReviewStatus
  <2>2. VersionTypeOK'
    <3>1. \/ TransitionVersion(review[req[p].rev].cand, "withdraw")
          \/ UNCHANGED versionVars
      BY <1>12 DEF FailReview
    <3> QED
      BY <3>1, TransitionType DEF Transition, versionVars, VersionTypeOK
  <2>3. req' \in [Request -> RequestState]
    BY <1>12, GotoType DEF FailReview
  <2> QED
    BY <1>12, <2>1, <2>2, <2>3 DEF FailReview
<1>13. CASE ReadRun(p)
  <2>1. (\E a \in Step : Goto(p, a)) \/ Return(p)
    BY <1>13 DEF ReadRun, Step
  <2> QED
    BY <1>0, <1>13, <2>1, GotoType DEF ReadRun
<1>3. CASE UpsertVerdict(p)
  <2>1. req' \in [Request -> RequestState]
    BY <1>3, GotoType DEF UpsertVerdict
  <2>2. verdict' \in [Review -> Snapshot]
    <3>1. PICK g \in GroupsOf(review[req[p].rev].run), x \in Verdict :
             verdict' = [verdict EXCEPT ![req[p].rev][g] = x]
      BY <1>3 DEF UpsertVerdict
    <3> QED
      BY <3>1 DEF Snapshot
  <2> QED
    BY <1>3, <2>1, <2>2 DEF UpsertVerdict, versionVars, VersionTypeOK
<1>4. CASE UpsertRefused(p)
  BY <1>0, <1>4, GotoType DEF UpsertRefused
<1>5. CASE CheckGate(p)
  BY <1>0, <1>5, GotoType DEF CheckGate, Step
<1>6. CASE TakeSnapshot(p)
  <2>1. verdict[req[p].rev] \in Snapshot
    BY <1>6 DEF TakeSnapshot, HandlersHold, HandlerHolds, DecideAt, ReviewAt
  <2> DEFINE s == [req[p] EXCEPT !.at = "decide", !.snapshot = verdict[req[p].rev]]
  <2>2. req' \in [Request -> RequestState]
    <3>1. s \in RequestState
      BY <2>1 DEF RequestState, Step
    <3>2. req' = [req EXCEPT ![p] = s]
      BY <1>6 DEF TakeSnapshot
    <3> HIDE DEF s
    <3> QED
      BY <3>1, <3>2
  <2> QED
    BY <1>0, <1>6, <2>2 DEF TakeSnapshot
<1>7. CASE Decide(p)
  <2> DEFINE r == req[p].rev
             o == req[p].op
             row == [outcome |-> o, seq |-> NextSequence,
                     candHash |-> review[r].candHash,
                     snapshot |-> req[p].snapshot]
  <2>1. r \in Review /\ o \in Outcome
    BY <1>7 DEF Decide, HandlersHold, HandlerHolds, DecideAt, ReviewAt
  <2>2. row \in DecisionRow
    <3>1. review[r].candHash \in Content \cup {NoContent}
      BY <2>1 DEF ReviewRow
    <3>2. req[p].snapshot \in Snapshot
      BY DEF RequestState
    <3> QED
      BY <2>1, <3>1, <3>2, NextSequenceType DEF DecisionRow
  <2>3. decision' = [decision EXCEPT ![r] = row]
    BY <1>7 DEF Decide
  <2>4. decision' \in [Review -> DecisionRow]
    <3> HIDE DEF row
    <3> QED
      BY <2>2, <2>3
  <2>5. review' \in [Review -> ReviewRow]
    BY <1>7, <2>1, StatusType DEF Decide, Outcome, ToStatus, ReviewStatus
  <2>6. VersionTypeOK'
    BY <1>7, <2>1, TransitionType DEF Decide, Outcome, Transition
  <2>7. req' \in [Request -> RequestState]
    BY <1>7, GotoType DEF Decide
  <2> QED
    BY <1>7, <2>4, <2>5, <2>6, <2>7 DEF Decide
<1>8. CASE DecideRefused(p)
  BY <1>0, <1>8, GotoType DEF DecideRefused
<1>9. CASE Withdraw(p)
  <2>1. review' \in [Review -> ReviewRow]
    BY <1>9, StatusType DEF Withdraw, ReviewStatus
  <2>2. VersionTypeOK'
    BY <1>9, TransitionType DEF Withdraw, Transition
  <2>3. req' \in [Request -> RequestState]
    BY <1>9, GotoType DEF Withdraw
  <2> QED
    BY <1>9, <2>1, <2>2, <2>3 DEF Withdraw
<1>10. CASE WithdrawRefused(p)
  BY <1>0, <1>10, GotoType DEF WithdrawRefused
<1> HIDE DEF IInv, RowsTypeOK
<1> QED
  BY <1>1, <1>2, <1>3, <1>4, <1>5, <1>6, <1>7, <1>8, <1>9, <1>10, <1>11, <1>12, <1>13
  DEF ReviewStep

\* Drafts keep the types.
LEMMA DraftTypes ==
    ASSUME IInv, NEW p \in Request, DraftStep(p)
    PROVE  RowsTypeOK'
PROOF
<1> USE DEF IInv, RowsTypeOK
<1>1. ASSUME NEW b \in Version, CreateDraft(p, b)
      PROVE  RowsTypeOK'
  <2>1. Upgraded[vcontent[b]] \in Content \cup {NoContent}
    BY <1>1, VersionAssumption DEF CreateDraft, VersionsHaveContent
  <2>2. req' \in [Request -> RequestState]
    BY <1>1, <2>1, RowTypes DEF CreateDraft, Idle, RequestState, Step
  <2> QED
    BY <1>1, <2>2 DEF CreateDraft, versionVars, reviewVars, VersionTypeOK
<1>2. CASE ReadHighest(p)
  <2>1. HighestNumber < MaxVersion => HighestNumber + 1 \in Version
    BY HighestNumberType, VersionAssumption DEF Version
  <2>2. req' \in [Request -> RequestState]
    <3>1. CASE HighestNumber < MaxVersion
      BY <1>2, <2>1, <3>1 DEF ReadHighest, RequestState, Step
    <3>2. CASE ~(HighestNumber < MaxVersion)
      BY <1>2, <3>2, GotoType DEF ReadHighest
    <3> QED
      BY <3>1, <3>2
  <2> QED
    BY <1>2, <2>2 DEF ReadHighest, versionVars, reviewVars, VersionTypeOK
<1>3. CASE InsertDraftVersion(p)
  <2>1. req[p].hash \in Content
    BY <1>3 DEF InsertDraftVersion, HandlersHold, HandlerHolds, DecideAt, DraftAt
  <2>2. VersionTypeOK'
    BY <1>3, <2>1
    DEF InsertDraftVersion, InsertDraft, versionVars, VersionTypeOK, VersionStatus
  <2>3. req' \in [Request -> RequestState]
    BY <1>3, GotoType DEF InsertDraftVersion
  <2> QED
    BY <1>3, <2>2, <2>3 DEF InsertDraftVersion, reviewVars
<1>4. ASSUME NEW v \in Version, NEW c \in Content, UpdateDraft(p, v, c)
      PROVE  RowsTypeOK'
  BY <1>4 DEF UpdateDraft, UpdateDraftDocument, reviewVars, VersionTypeOK
<1> HIDE DEF IInv, RowsTypeOK
<1> QED
  BY <1>1, <1>2, <1>3, <1>4 DEF DraftStep

\* The replay worker keeps the types.
LEMMA RunTypes ==
    ASSUME RowsTypeOK, NEW n \in Run, RunStep(n)
    PROVE  RowsTypeOK'
PROOF
<1>1. run' \in [Run -> RunRow]
  <2>1. \E s \in RunStatus, c \in BOOLEAN :
           run' = [run EXCEPT ![n] = [run[n] EXCEPT !.status = s, !.computing = c]]
    <3>1. run[n] \in RunRow
      BY DEF RowsTypeOK
    <3>2. CASE StartRun(n)
      BY <3>2 DEF StartRun, RunStatus
    <3>3. CASE CompleteRun(n)
      BY <3>3 DEF CompleteRun, RunStatus
    <3>4. CASE FailRun(n)
      <4>1. run' = [run EXCEPT ![n] =
                      [run[n] EXCEPT !.status = "failed", !.computing = run[n].computing]]
        BY <3>1, <3>4 DEF FailRun, RunRow
      <4>2. run[n].computing \in BOOLEAN
        BY <3>1 DEF RunRow
      <4> QED
        BY <4>1, <4>2 DEF RunStatus
    <3> QED
      BY <3>2, <3>3, <3>4 DEF RunStep
  <2>2. PICK s \in RunStatus, c \in BOOLEAN :
           run' = [run EXCEPT ![n] = [run[n] EXCEPT !.status = s, !.computing = c]]
    BY <2>1
  <2>3. run \in [Run -> RunRow]
    BY DEF RowsTypeOK
  <2>4. [run[n] EXCEPT !.status = s, !.computing = c] \in RunRow
    <3>1. run[n] \in RunRow
      BY <2>3
    <3> QED
      BY <3>1 DEF RunRow
  <2> QED
    BY <2>2, <2>3, <2>4
<1> QED
  BY <1>1 DEF RowsTypeOK, RunStep, StartRun, CompleteRun, FailRun, versionVars, reviewVars, VersionTypeOK

\* Every step keeps the types.
LEMMA NextTypes ==
    ASSUME IInv, Next
    PROVE  RowsTypeOK'
PROOF
<1>1. ASSUME NEW p \in Request, Abort(p)
      PROVE  RowsTypeOK'
  BY <1>1, GotoType
  DEF IInv, Abort, RowsTypeOK, versionVars, reviewVars, VersionTypeOK
<1>2. RowsTypeOK
  BY DEF IInv
<1> QED
  BY <1>1, <1>2, CreateTypes, ReviewTypes, DraftTypes, RunTypes DEF Next, RunStep

-----------------------------------------------------------------------------
(* Every step is a step of PolicyLifecycle, or leaves what it sees alone *)

\* The ledger changes only when a decision is inserted.
LEMMA LedgerUnchanged ==
    ASSUME UNCHANGED decision,
           \A r \in Review : Decided(r) => review'[r].cand = review[r].cand
    PROVE  Ledger' = Ledger
PROOF
<1>1. \A r \in Review : Decided(r)' <=> Decided(r)
  BY DEF Decided
<1> QED
  BY <1>1 DEF Ledger

\* A transition other than a decision is a Submit or a Withdraw.
LEMMA TransitionSimulated ==
    ASSUME NEW v \in Version, NEW t \in {"submit", "withdraw"},
           VersionTypeOK, TransitionVersion(v, t), Ledger' = Ledger
    PROVE  Lifecycle!Next
PROOF
<1>1. CASE t = "submit"
  <2>1. \A w \in Version : vstatus[w] # "in_review"
    BY <1>1 DEF TransitionVersion, CanTransition, FromStatus, ToStatus, ReviewSlotFree
  <2>2. Lifecycle!Submit(v)
    BY <1>1, <2>1
    DEF TransitionVersion, CanTransition, FromStatus, ToStatus, Lifecycle!Submit
  <2> QED
    BY <2>2 DEF Lifecycle!Next, RunStep
<1>2. CASE t = "withdraw"
  <2>1. Lifecycle!Withdraw(v)
    BY <1>2
    DEF TransitionVersion, CanTransition, FromStatus, ToStatus, Lifecycle!Withdraw
  <2> QED
    BY <2>1 DEF Lifecycle!Next, RunStep
<1> QED
  BY <1>1, <1>2

\* The transaction of store.decide is a Decide.
LEMMA DecideSimulated ==
    ASSUME IInv, NEW p \in Request, Decide(p)
    PROVE  Lifecycle!Next
PROOF
<1> DEFINE r == req[p].rev
           o == req[p].op
           v == review[r].cand
           entry == [id |-> r, version |-> v, outcome |-> o]
<1>1. r \in Review /\ o \in Outcome /\ v \in Version /\ ~Decided(r)
  BY DEF IInv, Decide, HandlersHold, HandlerHolds, DecideAt, ReviewAt, ReviewsHaveCandidate
<1>2. vstatus[v] = "in_review" /\ ToStatus(o) = Lifecycle!Final(o)
  BY <1>1
  DEF Decide, CanTransition, FromStatus, ToStatus, Outcome, Lifecycle!Final
<1>3. \A e \in Ledger : e.id # r
  BY <1>1 DEF Ledger
<1>4. /\ decision'[r].outcome = o
      /\ \A s \in Review \ {r} : decision'[s] = decision[s]
      /\ \A s \in Review : review'[s].cand = review[s].cand
  BY <1>1 DEF Decide, IInv, RowsTypeOK, ReviewRow
<1>5. \A s \in Review : Decided(s)' <=> Decided(s) \/ s = r
  BY <1>1, <1>4 DEF Decided, Outcome
<1>6. Ledger' = Ledger \cup {entry}
  BY <1>1, <1>4, <1>5 DEF Ledger
<1>7. vstatus' = [vstatus EXCEPT ![v] = Lifecycle!Final(o)] /\ UNCHANGED vcontent
  BY <1>2 DEF Decide, TransitionVersion
<1>8. Lifecycle!Decide(r, v, o)
  BY <1>2, <1>3, <1>6, <1>7 DEF Lifecycle!Decide
<1> QED
  BY <1>1, <1>8 DEF Lifecycle!Next, RunStep, Lifecycle!Outcome, Outcome

\* A step of a request does to versions and decisions what PolicyLifecycle
\* allows, or nothing.
LEMMA NextSimulated ==
    ASSUME IInv, [Next]_vars
    PROVE  [Lifecycle!Next]_(Lifecycle!vars)
PROOF
<1> DEFINE Stutter == UNCHANGED <<vstatus, vcontent, Ledger>>
<1>0. SUFFICES Lifecycle!Next \/ Stutter
  BY DEF Lifecycle!vars
<1>t. VersionTypeOK /\ review \in [Review -> ReviewRow]
  BY DEF IInv, RowsTypeOK
<1>a. ASSUME UNCHANGED <<versionVars, reviewVars>>
      PROVE  Stutter
  BY <1>a, LedgerUnchanged DEF versionVars, reviewVars
<1>1. ASSUME NEW p \in Request, CreateStep(p)
      PROVE  Lifecycle!Next \/ Stutter
  <2>1. CASE SubmitForReview(p)
    <3>1. req[p].ver \in Version
      BY <2>1
      DEF IInv, SubmitForReview, HandlersHold, HandlerHolds, DecideAt, CreateAt
    <3>2. Ledger' = Ledger
      BY <2>1, LedgerUnchanged DEF SubmitForReview, reviewVars
    <3>3. TransitionVersion(req[p].ver, "submit") \/ UNCHANGED versionVars
      BY <2>1 DEF SubmitForReview
    <3> QED
      BY <1>t, <3>1, <3>2, <3>3, TransitionSimulated DEF versionVars
  <2>2. CASE InsertReview(p)
    <3>1. req[p].rev \in Review /\ ~Decided(req[p].rev)
      BY <2>2
      DEF IInv, InsertReview, HandlersHold, HandlerHolds, DecideAt, CreateAt, DecidedReviewsExist
    <3>2. Ledger' = Ledger
      BY <2>2, <3>1, LedgerUnchanged, <1>t DEF InsertReview
    <3> QED
      BY <2>2, <3>2 DEF InsertReview, versionVars
  <2> QED
    BY <1>1, <1>a, <2>1, <2>2
    DEF CreateStep, CreateReview, FindOpenReview, ReadBaseline, RequestReplay
<1>2. ASSUME NEW p \in Request, ReviewStep(p)
      PROVE  Lifecycle!Next \/ Stutter
  <2> DEFINE r == req[p].rev
  <2>1. CASE MarkReady(p) \/ FailReview(p) \/ Withdraw(p)
    <3>1. r \in Review /\ review[r].cand \in Version
      BY <2>1
      DEF IInv, MarkReady, FailReview, Withdraw, HandlersHold, HandlerHolds, DecideAt, ReviewAt,
          ReviewsHaveCandidate
    <3>2. \/ TransitionVersion(review[r].cand, "withdraw")
          \/ UNCHANGED versionVars
      BY <2>1 DEF MarkReady, FailReview, Withdraw
    <3>3. (\E s : review' = [review EXCEPT ![r].status = s]) \/ UNCHANGED review
      BY <2>1 DEF MarkReady, FailReview, Withdraw
    <3>4. \A s \in Review : review'[s].cand = review[s].cand
      BY <1>t, <3>1, <3>3, StatusOnly
    <3>5. Ledger' = Ledger
      BY <2>1, <3>4, LedgerUnchanged DEF MarkReady, FailReview, Withdraw
    <3> QED
      BY <1>t, <3>1, <3>2, <3>5, TransitionSimulated DEF versionVars
  <2>2. CASE UpsertVerdict(p)
    <3>1. Ledger' = Ledger
      BY <2>2, LedgerUnchanged DEF UpsertVerdict
    <3> QED
      BY <2>2, <3>1 DEF UpsertVerdict, versionVars
  <2>3. CASE Decide(p)
    BY <2>3, DecideSimulated
  <2> QED
    BY <1>2, <1>a, <2>1, <2>2, <2>3
    DEF ReviewStep, ReadReview, SyncStatus, UpsertRefused, ReadRun, CheckGate, TakeSnapshot,
        DecideRefused, WithdrawRefused
<1>3. ASSUME NEW p \in Request, DraftStep(p)
      PROVE  Lifecycle!Next \/ Stutter
  <2>1. CASE InsertDraftVersion(p)
    <3>1. req[p].ver \in Version /\ req[p].hash \in Content
      BY <2>1 DEF IInv, InsertDraftVersion, HandlersHold, HandlerHolds, DecideAt, DraftAt
    <3>2. Ledger' = Ledger
      BY <2>1, LedgerUnchanged DEF InsertDraftVersion, reviewVars
    <3>3. Lifecycle!Create(req[p].ver, req[p].hash) \/ UNCHANGED versionVars
      BY <2>1, <3>2
      DEF InsertDraftVersion, InsertDraft, Exists, Lifecycle!Create
    <3> QED
      BY <3>1, <3>2, <3>3 DEF versionVars, Lifecycle!Next, RunStep
  <2>2. ASSUME NEW v \in Version, NEW c \in Content, UpdateDraft(p, v, c)
        PROVE  Lifecycle!Next
    <3>1. Ledger' = Ledger
      BY <2>2, LedgerUnchanged DEF UpdateDraft, reviewVars
    <3>2. Lifecycle!Edit(v, c)
      BY <2>2, <3>1 DEF UpdateDraft, UpdateDraftDocument, Lifecycle!Edit
    <3> QED
      BY <3>2 DEF Lifecycle!Next, RunStep
  <2> QED
    BY <1>3, <1>a, <2>1, <2>2 DEF DraftStep, CreateDraft, ReadHighest
<1>4. ASSUME NEW p \in Request, Abort(p)
      PROVE  Stutter
  BY <1>4, <1>a DEF Abort
<1>5. ASSUME NEW n \in Run, RunStep(n)
      PROVE  Stutter
  BY <1>5, <1>a DEF RunStep, StartRun, CompleteRun, FailRun
<1>6. CASE UNCHANGED vars
  BY <1>6, <1>a DEF vars, versionVars, reviewVars
<1> QED
  BY <1>1, <1>2, <1>3, <1>4, <1>5, <1>6 DEF Next, RunStep

-----------------------------------------------------------------------------
(* What requests hold *)

\* A request that goes on as s keeps what requests hold, when no review appears
\* and s claims no id another request holds.
LEMMA StepKeepsHandlers ==
    ASSUME req \in [Request -> RequestState], HandlersHold, IdsAreReserved,
           NEW p \in Request, NEW s \in RequestState,
           req' = [req EXCEPT ![p] = s],
           \A r \in Review : ReviewExists(r)' <=> ReviewExists(r),
           HandlerHolds(s)',
           s.op = "create" => \A q \in Request \ {p} : req[q].rev # s.rev
    PROVE  HandlersHold' /\ IdsAreReserved'
PROOF
<1>1. ASSUME NEW q \in Request \ {p}
      PROVE  req'[q] = req[q] /\ HandlerHolds(req[q])'
  <2>1. req'[q] = req[q]
    OBVIOUS
  <2>2. HandlerHolds(req[q])
    BY DEF HandlersHold
  <2>3. PICK t : t = req[q]
    OBVIOUS
  <2>4. HandlerHolds(t)'
    BY <2>2, <2>3 DEF HandlerHolds, DecideAt
  <2> QED
    BY <2>1, <2>3, <2>4
<1>2. HandlersHold'
  BY <1>1 DEF HandlersHold
<1>3. ASSUME NEW q \in Request \ {p}, req[q].op = "create"
      PROVE  s.rev # req[q].rev
  <2>1. req[q].rev \in Review /\ ~ReviewExists(req[q].rev)
    BY <1>3 DEF HandlersHold, HandlerHolds, DecideAt
  <2>2. \/ s.rev = None
        \/ s.rev \in Review /\ ReviewExists(s.rev)
        \/ s.op = "create"
    BY DEF HandlerHolds, DecideAt, RequestState, Step, CreateAt, ReviewAt, DraftAt
  <2> QED
    BY <2>1, <2>2, ReviewAssumption
<1>4. IdsAreReserved'
  <2> SUFFICES ASSUME NEW x \in Request, NEW y \in Request, x # y,
                      req'[x].op = "create"
               PROVE  req'[y].rev # req'[x].rev
    BY DEF IdsAreReserved
  <2>1. CASE x = p
    BY <2>1, <1>1
  <2>2. CASE y = p
    BY <2>2, <1>1, <1>3
  <2>3. CASE x # p /\ y # p
    BY <2>3, <1>1 DEF IdsAreReserved
  <2> QED
    BY <2>1, <2>2, <2>3
<1> QED
  BY <1>2, <1>4

\* A request that returns claims nothing.
LEMMA ReturnKeepsHandlers ==
    ASSUME req \in [Request -> RequestState], HandlersHold, IdsAreReserved,
           NEW p \in Request, Return(p),
           \A r \in Review : ReviewExists(r)' <=> ReviewExists(r)
    PROVE  HandlersHold' /\ IdsAreReserved'
PROOF
<1>1. HandlerHolds(Idle)'
  BY DEF HandlerHolds, DecideAt, Idle, CreateAt, ReviewAt, DraftAt
<1>2. Idle.op # "create"
  BY DEF Idle
<1> QED
  BY <1>1, <1>2, RowTypes, StepKeepsHandlers DEF Return

\* A request that goes on at another step of the same kind keeps what it holds.
LEMMA GotoKeepsHandlers ==
    ASSUME req \in [Request -> RequestState], HandlersHold, IdsAreReserved,
           NEW p \in Request, NEW a \in Step,
           \/ req[p].at \in CreateAt /\ a \in CreateAt
           \/ /\ req[p].at \in ReviewAt /\ a \in ReviewAt
              /\ a \in DecideAt => req[p].op \in Outcome,
           NEW s \in RequestState, req' = [req EXCEPT ![p] = s],
           s.at = a, s.op = req[p].op, s.rev = req[p].rev, s.ver = req[p].ver,
           \A r \in Review : ReviewExists(r)' <=> ReviewExists(r)
    PROVE  HandlersHold' /\ IdsAreReserved'
PROOF
<1>1. HandlerHolds(req[p])
  BY DEF HandlersHold
<1>2. HandlerHolds(s)'
  BY <1>1 DEF HandlerHolds, DecideAt, CreateAt, ReviewAt, DraftAt
<1>3. s.op = "create" => \A q \in Request \ {p} : req[q].rev # s.rev
  BY DEF IdsAreReserved
<1> QED
  BY <1>2, <1>3, StepKeepsHandlers

\* createChangeReview: its id is free when it takes it and until it inserts the
\* row.
LEMMA CreateKeepsHandlers ==
    ASSUME IInv, NEW p \in Request, CreateStep(p)
    PROVE  HandlersHold' /\ IdsAreReserved'
PROOF
<1>t. /\ HandlersHold /\ IdsAreReserved
      /\ req \in [Request -> RequestState]
      /\ req' \in [Request -> RequestState]
      /\ req[p] \in RequestState /\ req'[p] \in RequestState
      /\ HandlerHolds(req[p])
  BY CreateTypes DEF IInv, RowsTypeOK, HandlersHold
<1>a. PICK s \in RequestState : s = req'[p]
  BY <1>t
<1>1. ASSUME NEW r \in Review, NEW v \in Version, CreateReview(p, r, v)
      PROVE  HandlersHold' /\ IdsAreReserved'
  <2>1. /\ s.at = "findOpen" /\ s.op = "create" /\ s.rev = r /\ s.ver = v
        /\ req' = [req EXCEPT ![p] = s]
    BY <1>1, <1>t, <1>a DEF CreateReview, Idle
  <2>2. \A x \in Review : ReviewExists(x)' <=> ReviewExists(x)
    BY <1>1 DEF CreateReview, reviewVars, ReviewExists
  <2>3. HandlerHolds(s)'
    BY <1>1, <2>1, <2>2
    DEF CreateReview, HandlerHolds, DecideAt, CreateAt, ReviewAt, DraftAt
  <2>4. \A q \in Request \ {p} : req[q].rev # s.rev
    BY <1>1, <2>1 DEF CreateReview
  <2> QED
    BY <1>t, <2>1, <2>2, <2>3, <2>4, StepKeepsHandlers
<1>2. ASSUME \A x \in Review : ReviewExists(x)' <=> ReviewExists(x),
             NEW a \in CreateAt, s.at = a, req[p].at \in CreateAt,
             s.op = req[p].op, s.rev = req[p].rev, s.ver = req[p].ver,
             req' = [req EXCEPT ![p] = s]
      PROVE  HandlersHold' /\ IdsAreReserved'
  <2>1. a \in Step
    BY DEF CreateAt, Step
  <2> QED
    BY <1>2, <1>t, <2>1, GotoKeepsHandlers
<1>3. CASE \/ FindOpenReview(p) \/ ReadBaseline(p)
           \/ SubmitForReview(p) \/ RequestReplay(p)
  <2>1. \A x \in Review : ReviewExists(x)' <=> ReviewExists(x)
    BY <1>3
    DEF FindOpenReview, ReadBaseline, SubmitForReview, RequestReplay, reviewVars,
        ReviewExists
  <2>2. req[p].at \in CreateAt
    BY <1>3
    DEF FindOpenReview, ReadBaseline, SubmitForReview, RequestReplay, CreateAt
  <2>3. CASE Return(p)
    BY <1>t, <2>1, <2>3, ReturnKeepsHandlers
  <2>4. ASSUME NEW x \in RequestState, req' = [req EXCEPT ![p] = x],
               x.at \in CreateAt, x.op = req[p].op, x.rev = req[p].rev,
               x.ver = req[p].ver
        PROVE  HandlersHold' /\ IdsAreReserved'
    BY <1>2, <1>a, <1>t, <2>1, <2>2, <2>4
  <2>5. \/ Return(p)
        \/ /\ req' = [req EXCEPT ![p] = s]
           /\ s.at \in CreateAt /\ s.op = req[p].op
           /\ s.rev = req[p].rev /\ s.ver = req[p].ver
    <3>1. CASE FindOpenReview(p)
      BY <3>1, <1>t, <1>a DEF FindOpenReview, Goto, CreateAt, RequestState
    <3>2. CASE ReadBaseline(p)
      BY <3>2, <1>t, <1>a DEF ReadBaseline, CreateAt, RequestState
    <3>3. CASE SubmitForReview(p)
      BY <3>3, <1>t, <1>a DEF SubmitForReview, Goto, CreateAt, RequestState
    <3>4. CASE RequestReplay(p)
      <4>1. ASSUME NEW n \in Run,
                   \/ req' = [req EXCEPT ![p].at = "insert", ![p].run = n,
                                         ![p].rready = TRUE]
                   \/ req' = [req EXCEPT ![p].at = "insert", ![p].run = n]
            PROVE  /\ req' = [req EXCEPT ![p] = s]
                   /\ s.at \in CreateAt /\ s.op = req[p].op
                   /\ s.rev = req[p].rev /\ s.ver = req[p].ver
        BY <4>1, <1>t, <1>a DEF CreateAt, RequestState
      <4>2. \/ \E n \in Run :
                 \/ req' = [req EXCEPT ![p].at = "insert", ![p].run = n,
                                       ![p].rready = TRUE]
                 \/ req' = [req EXCEPT ![p].at = "insert", ![p].run = n]
            \/ Return(p)
        BY <3>4, Zenon DEF RequestReplay
      <4> QED
        BY <4>1, <4>2
    <3> QED
      BY <1>3, <3>1, <3>2, <3>3, <3>4
  <2> QED
    BY <2>3, <2>4, <2>5
<1>4. CASE InsertReview(p)
  <2> DEFINE n == req[p].rev
  <2>1. n \in Review /\ req[p].op = "create"
    BY <1>4, <1>t DEF InsertReview, HandlerHolds, DecideAt, CreateAt
  <2>2. /\ \A x \in Review \ {n} : ReviewExists(x)' <=> ReviewExists(x)
        /\ \A x \in Review : ReviewExists(x) => ReviewExists(x)'
    BY <1>4, <2>1 DEF InsertReview, ReviewExists, IInv, RowsTypeOK
  <2>3. ASSUME NEW q \in Request
        PROVE  /\ HandlerHolds(req[q])'
               /\ q # p => req'[q] = req[q]
               /\ req'[p].op = "none" /\ req'[p].rev = None
    <3>1. req'[p].op = "none" /\ req'[p].rev = None /\ req'[p].at = "idle"
      BY <1>4, <1>t DEF InsertReview, Return, Idle
    <3>2. CASE q = p
      BY <3>1, <3>2 DEF HandlerHolds, DecideAt, CreateAt, ReviewAt, DraftAt
    <3>3. CASE q # p
      <4>1. req'[q] = req[q]
        BY <1>4, <3>3, <1>t DEF InsertReview, Return
      <4>2. HandlerHolds(req[q])
        BY <1>t DEF HandlersHold
      <4>3. req[q].op = "create" => req[q].rev # n
        BY <1>t, <2>1, <3>3 DEF IdsAreReserved
      <4> QED
        BY <2>2, <3>1, <4>1, <4>2, <4>3 DEF HandlerHolds, DecideAt
    <3> QED
      BY <3>1, <3>2, <3>3
  <2>4. HandlersHold'
    BY <2>3 DEF HandlersHold
  <2>5. IdsAreReserved'
    <3> SUFFICES ASSUME NEW x \in Request, NEW y \in Request, x # y,
                        req'[x].op = "create"
                 PROVE  req'[y].rev # req'[x].rev
      BY DEF IdsAreReserved
    <3>1. x # p
      BY <2>3
    <3>2. CASE y = p
      BY <2>3, <2>4, <3>1, <3>2, ReviewAssumption DEF HandlersHold, HandlerHolds, DecideAt
    <3>3. CASE y # p
      BY <2>3, <3>1, <3>3, <1>t DEF IdsAreReserved
    <3> QED
      BY <3>2, <3>3
  <2> QED
    BY <2>4, <2>5
<1> QED
  BY <1>1, <1>3, <1>4 DEF CreateStep

\* The operations on a review: the review they hold stays.
LEMMA ReviewKeepsHandlers ==
    ASSUME IInv, NEW p \in Request, ReviewStep(p)
    PROVE  HandlersHold' /\ IdsAreReserved'
PROOF
<1>t. /\ HandlersHold /\ IdsAreReserved
      /\ req \in [Request -> RequestState]
      /\ req' \in [Request -> RequestState]
      /\ review \in [Review -> ReviewRow]
      /\ req[p] \in RequestState /\ req'[p] \in RequestState
      /\ HandlerHolds(req[p])
  BY ReviewTypes DEF IInv, RowsTypeOK, HandlersHold
<1>a. PICK s \in RequestState : s = req'[p]
  BY <1>t
<1> DEFINE SameReviews ==
             \A x \in Review : ReviewExists(x)' <=> ReviewExists(x)
<1>b. ASSUME NEW op \in Operation, NEW r \in Review, ReviewExists(r), SameReviews,
             NEW st, \/ req' = [req EXCEPT ![p] = Synced(p, op, r, st)]
                     \/ req' = [req EXCEPT ![p] =
                                  [Idle EXCEPT !.at = "sync", !.op = op, !.rev = r]]
      PROVE  HandlersHold' /\ IdsAreReserved'
  <2>1. req' = [req EXCEPT ![p] = s]
    BY <1>b, <1>a, <1>t
  <2>2. \/ s = Idle
        \/ /\ s.at \in ReviewAt /\ s.op = op /\ s.rev = r
           /\ s.at \in DecideAt => op \in Outcome
    <3>1. CASE s = Synced(p, op, r, st)
      <4>1. CASE AfterSync(op, st) = "idle"
        BY <3>1, <4>1 DEF Synced
      <4>2. CASE AfterSync(op, st) # "idle"
        <5>1. /\ AfterSync(op, st) \in ReviewAt
              /\ AfterSync(op, st) \in DecideAt => op \in Outcome
          BY <4>2 DEF AfterSync, ReviewAt, DecideAt, Outcome
        <5>2. s.at = AfterSync(op, st) /\ s.op = op /\ s.rev = r
          BY <3>1, <4>2 DEF Synced, Idle
        <5> QED
          BY <5>1, <5>2
      <4> QED
        BY <4>1, <4>2
    <3>2. CASE s = [Idle EXCEPT !.at = "sync", !.op = op, !.rev = r]
      BY <3>2 DEF Idle, ReviewAt, DecideAt
    <3> QED
      BY <1>b, <1>a, <1>t, <3>1, <3>2
  <2>3. CASE s = Idle
    BY <1>b, <1>t, <2>1, <2>3, ReturnKeepsHandlers DEF Return
  <2>4. CASE /\ s.at \in ReviewAt /\ s.op = op /\ s.rev = r
             /\ s.at \in DecideAt => op \in Outcome
    <3>1. HandlerHolds(s)'
      BY <1>b, <2>4 DEF HandlerHolds, DecideAt, CreateAt, ReviewAt, DraftAt, Operation
    <3>2. s.op # "create"
      BY <2>4 DEF Operation
    <3> QED
      BY <1>b, <1>t, <2>1, <3>1, <3>2, StepKeepsHandlers
  <2> QED
    BY <2>2, <2>3, <2>4
<1>c. ASSUME NEW r \in Review, ReviewExists(r), SameReviews \/
             \E st \in ReviewStatus : review' = [review EXCEPT ![r].status = st]
      PROVE  SameReviews
  <2>1. ASSUME NEW st \in ReviewStatus, review' = [review EXCEPT ![r].status = st]
        PROVE  SameReviews
    <3>1. st # "absent"
      BY DEF ReviewStatus, Open
    <3>2. review'[r].status = st /\ \A x \in Review \ {r} : review'[x] = review[x]
      BY <2>1, <1>t, StatusOnly
    <3> QED
      BY <1>c, <3>1, <3>2 DEF ReviewExists
  <2> QED
    BY <1>c, <2>1
<1>d. UNCHANGED review => SameReviews
  BY DEF ReviewExists
<1> HIDE DEF SameReviews
<1>1. ASSUME NEW op \in Operation, NEW r \in Review, ReadReview(p, op, r)
      PROVE  HandlersHold' /\ IdsAreReserved'
  BY <1>1, <1>b, <1>d DEF ReadReview, reviewVars
<1>h. req[p].at \in ReviewAt =>
        req[p].rev \in Review /\ req[p].op \in Operation /\ ReviewExists(req[p].rev)
  BY <1>t DEF HandlerHolds, DecideAt
<1>2. CASE SyncStatus(p)
  <2>1. SameReviews
    BY <1>2, <1>d DEF SyncStatus, reviewVars
  <2>2. req[p].at \in ReviewAt
    BY <1>2 DEF SyncStatus, ReviewAt
  <2>3. \/ req' = [req EXCEPT ![p] = Synced(p, req[p].op, req[p].rev, "computing")]
        \/ \E a \in {"markReady", "failReview"} : Goto(p, a)
    BY <1>2 DEF SyncStatus
  <2>4. ASSUME NEW a \in {"markReady", "failReview"}, Goto(p, a)
        PROVE  HandlersHold' /\ IdsAreReserved'
    <3>1. a \in Step /\ a \in ReviewAt /\ a \notin DecideAt
      BY DEF Step, ReviewAt, DecideAt
    <3>2. /\ req' = [req EXCEPT ![p] = s] /\ s.at = a /\ s.op = req[p].op
          /\ s.rev = req[p].rev /\ s.ver = req[p].ver
      BY <2>4, <1>t, <1>a DEF Goto, RequestState
    <3> QED
      BY <1>t, <2>1, <2>2, <3>1, <3>2, GotoKeepsHandlers DEF SameReviews
  <2> QED
    BY <1>h, <2>1, <2>2, <2>3, <2>4, <1>b
<1>6. CASE MarkReady(p)
  <2>1. req[p].at \in ReviewAt
    BY <1>6 DEF MarkReady, ReviewAt
  <2>2. \E st \in ReviewStatus : review' = [review EXCEPT ![req[p].rev].status = st]
    BY <1>6 DEF MarkReady, ReviewStatus, Open
  <2>3. SameReviews
    BY <1>h, <2>1, <2>2, <1>c
  <2> QED
    BY <1>6, <1>h, <2>1, <2>3, <1>b DEF MarkReady
<1>7. CASE FailReview(p)
  <2>1. req[p].at \in ReviewAt
    BY <1>7 DEF FailReview, ReviewAt
  <2>2. \/ UNCHANGED review
        \/ \E st \in ReviewStatus : review' = [review EXCEPT ![req[p].rev].status = st]
    BY <1>7 DEF FailReview, ReviewStatus
  <2>3. SameReviews
    BY <1>h, <2>1, <2>2, <1>c, <1>d
  <2> QED
    BY <1>7, <1>t, <2>3, ReturnKeepsHandlers DEF FailReview, SameReviews
<1>3. CASE UpsertVerdict(p) \/ UpsertRefused(p) \/ DecideRefused(p) \/ WithdrawRefused(p)
  <2>1. SameReviews /\ Return(p)
    BY <1>3, <1>d
    DEF UpsertVerdict, UpsertRefused, DecideRefused, WithdrawRefused, reviewVars
  <2> QED
    BY <1>t, <2>1, ReturnKeepsHandlers DEF SameReviews
<1>4. CASE ReadRun(p) \/ CheckGate(p) \/ TakeSnapshot(p)
  <2>1. SameReviews
    BY <1>4, <1>d DEF ReadRun, CheckGate, TakeSnapshot, reviewVars
  <2>2. req[p].at \in ReviewAt /\ req[p].op \in Outcome
    BY <1>4, <1>t DEF ReadRun, CheckGate, TakeSnapshot, HandlerHolds, ReviewAt, DecideAt
  <2>3. \/ Return(p)
        \/ /\ req' = [req EXCEPT ![p] = s]
           /\ s.at \in {"gate", "snapshot", "decide"} /\ s.op = req[p].op
           /\ s.rev = req[p].rev /\ s.ver = req[p].ver
    <3>1. CASE CheckGate(p)
      BY <3>1, <1>t, <1>a DEF CheckGate, Goto, RequestState
    <3>2. CASE TakeSnapshot(p)
      BY <3>2, <1>t, <1>a DEF TakeSnapshot, RequestState
    <3>3. CASE ReadRun(p)
      BY <3>3, <1>t, <1>a DEF ReadRun, Goto, RequestState
    <3> QED
      BY <1>4, <3>1, <3>2, <3>3
  <2>4. CASE Return(p)
    BY <1>t, <2>1, <2>4, ReturnKeepsHandlers DEF SameReviews
  <2>5. ASSUME NEW a \in {"gate", "snapshot", "decide"}, s.at = a,
               req' = [req EXCEPT ![p] = s], s.op = req[p].op,
               s.rev = req[p].rev, s.ver = req[p].ver
        PROVE  HandlersHold' /\ IdsAreReserved'
    <3>1. a \in Step /\ a \in ReviewAt
      BY DEF Step, ReviewAt
    <3> QED
      BY <1>t, <2>1, <2>2, <2>5, <3>1, GotoKeepsHandlers DEF SameReviews
  <2> QED
    BY <2>3, <2>4, <2>5
<1>5. CASE Decide(p) \/ Withdraw(p)
  <2> DEFINE r == req[p].rev
  <2>1. r \in Review /\ ReviewExists(r)
    BY <1>5, <1>t DEF Decide, Withdraw, HandlerHolds, DecideAt, ReviewAt
  <2>2. \E st \in ReviewStatus : review' = [review EXCEPT ![r].status = st]
    <3>1. CASE Decide(p)
      <4>1. req[p].op \in Outcome
        BY <3>1, <1>t DEF Decide, HandlerHolds, DecideAt
      <4>2. ToStatus(req[p].op) \in ReviewStatus
        BY <4>1 DEF Outcome, ToStatus, ReviewStatus
      <4> QED
        BY <3>1, <4>2 DEF Decide
    <3>2. CASE Withdraw(p)
      BY <3>2 DEF Withdraw, ReviewStatus
    <3> QED
      BY <1>5, <3>1, <3>2
  <2>3. SameReviews /\ Return(p)
    BY <1>5, <1>c, <2>1, <2>2 DEF Decide, Withdraw
  <2> QED
    BY <1>t, <2>3, ReturnKeepsHandlers DEF SameReviews
<1> QED
  BY <1>1, <1>2, <1>3, <1>4, <1>5, <1>6, <1>7 DEF ReviewStep

\* Drafts: the document of the base, and a number up to MaxVersion.
LEMMA DraftKeepsHandlers ==
    ASSUME IInv, NEW p \in Request, DraftStep(p)
    PROVE  HandlersHold' /\ IdsAreReserved'
PROOF
<1>t. /\ HandlersHold /\ IdsAreReserved
      /\ req \in [Request -> RequestState]
      /\ req' \in [Request -> RequestState]
      /\ req[p] \in RequestState /\ req'[p] \in RequestState
      /\ HandlerHolds(req[p])
  BY DraftTypes DEF IInv, RowsTypeOK, HandlersHold
<1>a. PICK s \in RequestState : s = req'[p]
  BY <1>t
<1>b. \A x \in Review : ReviewExists(x)' <=> ReviewExists(x)
  BY DEF DraftStep, CreateDraft, ReadHighest, InsertDraftVersion, UpdateDraft,
         reviewVars, ReviewExists
<1>c. ASSUME req' = [req EXCEPT ![p] = s], s.at \in DraftAt, s.hash \in Content,
             s.rev = None, s.op = "draft",
             s.at = "draftInsert" => s.ver \in Version
      PROVE  HandlersHold' /\ IdsAreReserved'
  <2>1. HandlerHolds(s)'
    BY <1>c DEF HandlerHolds, DecideAt, CreateAt, ReviewAt, DraftAt, Version
  <2> QED
    BY <1>b, <1>c, <1>t, <2>1, StepKeepsHandlers
<1>1. ASSUME NEW b \in Version, CreateDraft(p, b)
      PROVE  HandlersHold' /\ IdsAreReserved'
  <2>1. Upgraded[vcontent[b]] \in Content
    BY <1>1, VersionAssumption DEF CreateDraft, IInv, VersionsHaveContent
  <2> QED
    BY <1>1, <1>a, <1>c, <1>t, <2>1 DEF CreateDraft, Idle, DraftAt
<1>2. CASE ReadHighest(p)
  <2>1. req[p].hash \in Content /\ req[p].rev = None /\ req[p].op = "draft"
    BY <1>2, <1>t DEF ReadHighest, HandlerHolds, DecideAt, DraftAt
  <2>2. CASE HighestNumber < MaxVersion
    <3>1. HighestNumber + 1 \in Version
      BY <2>2, HighestNumberType, VersionAssumption DEF Version, IInv
    <3> QED
      BY <1>2, <1>a, <1>c, <1>t, <2>1, <2>2, <3>1
      DEF ReadHighest, RequestState, DraftAt
  <2>3. CASE ~(HighestNumber < MaxVersion)
    BY <1>2, <1>b, <1>t, <2>3, ReturnKeepsHandlers DEF ReadHighest
  <2> QED
    BY <2>2, <2>3
<1>3. CASE InsertDraftVersion(p)
  BY <1>3, <1>b, <1>t, ReturnKeepsHandlers DEF InsertDraftVersion
<1>4. ASSUME UNCHANGED req
      PROVE  HandlersHold' /\ IdsAreReserved'
  BY <1>4, <1>b, <1>t DEF HandlersHold, HandlerHolds, DecideAt, IdsAreReserved, ReviewExists
<1> QED
  BY <1>1, <1>2, <1>3, <1>4 DEF DraftStep, UpdateDraft

\* Every step keeps what requests hold.
LEMMA NextKeepsHandlers ==
    ASSUME IInv, [Next]_vars
    PROVE  HandlersHold' /\ IdsAreReserved'
PROOF
<1>t. HandlersHold /\ IdsAreReserved /\ req \in [Request -> RequestState]
  BY DEF IInv, RowsTypeOK
<1>1. ASSUME NEW p \in Request, Abort(p)
      PROVE  HandlersHold' /\ IdsAreReserved'
  BY <1>1, <1>t, ReturnKeepsHandlers DEF Abort, reviewVars, ReviewExists
<1>2. ASSUME UNCHANGED <<review, req>>
      PROVE  HandlersHold' /\ IdsAreReserved'
  BY <1>2, <1>t DEF HandlersHold, HandlerHolds, DecideAt, IdsAreReserved, ReviewExists
<1>3. ASSUME NEW n \in Run, RunStep(n)
      PROVE  HandlersHold' /\ IdsAreReserved'
  BY <1>2, <1>3 DEF RunStep, StartRun, CompleteRun, FailRun, reviewVars
<1>4. CASE UNCHANGED vars
  BY <1>2, <1>4 DEF vars
<1> QED
  BY <1>1, <1>3, <1>4, CreateKeepsHandlers, ReviewKeepsHandlers, DraftKeepsHandlers
  DEF Next, RunStep

-----------------------------------------------------------------------------
(* Rows *)

\* Versions: those that exist keep existing, and have a document.
LEMMA NextKeepsVersions ==
    ASSUME IInv, [Next]_vars
    PROVE  FirstVersionExists' /\ VersionsHaveContent'
PROOF
<1>1. [Lifecycle!Next]_(Lifecycle!vars)
  BY NextSimulated
<1>2. /\ \A v \in Version : Exists(v) => Exists(v)'
      /\ \A v \in Version : Exists(v)' => vcontent'[v] \in Content
  <2>t. /\ vstatus \in [Version -> VersionStatus]
        /\ vcontent \in [Version -> Content \cup {NoContent}]
        /\ \A v \in Version : Exists(v) => vcontent[v] \in Content
    BY DEF IInv, RowsTypeOK, VersionTypeOK, VersionsHaveContent
  <2>1. ASSUME NEW v \in Version, NEW c \in Content,
               Lifecycle!Create(v, c) \/ Lifecycle!Edit(v, c)
        PROVE  <1>2
    BY <2>1, <2>t DEF Lifecycle!Create, Lifecycle!Edit, Exists
  <2>2. ASSUME NEW v \in Version, Lifecycle!Submit(v) \/ Lifecycle!Withdraw(v)
        PROVE  <1>2
    BY <2>2, <2>t DEF Lifecycle!Submit, Lifecycle!Withdraw, Exists
  <2>3. ASSUME NEW d \in Review, NEW v \in Version, NEW o \in Lifecycle!Outcome,
               Lifecycle!Decide(d, v, o)
        PROVE  <1>2
    BY <2>3, <2>t DEF Lifecycle!Decide, Lifecycle!Final, Exists
  <2>4. CASE UNCHANGED Lifecycle!vars
    BY <2>4, <2>t DEF Lifecycle!vars, Exists
  <2> QED
    BY <1>1, <2>1, <2>2, <2>3, <2>4 DEF Lifecycle!Next, RunStep
<1>3. 1 \in Version
  BY VersionAssumption DEF Version
<1> QED
  BY <1>2, <1>3 DEF IInv, FirstVersionExists, VersionsHaveContent

\* Reviews: each keeps its candidate, and only a review that exists is decided.
LEMMA NextKeepsReviews ==
    ASSUME IInv, [Next]_vars
    PROVE  ReviewsHaveCandidate' /\ DecidedReviewsExist'
PROOF
<1>t. /\ review \in [Review -> ReviewRow]
      /\ decision \in [Review -> DecisionRow]
      /\ \A r \in Review : ReviewExists(r) => review[r].cand \in Version
      /\ \A r \in Review : Decided(r) => ReviewExists(r)
      /\ \A p \in Request : HandlerHolds(req[p])
  BY DEF IInv, RowsTypeOK, ReviewsHaveCandidate, DecidedReviewsExist, HandlersHold
<1>1. ASSUME UNCHANGED <<review, decision>>
      PROVE  ReviewsHaveCandidate' /\ DecidedReviewsExist'
  BY <1>1, <1>t DEF ReviewsHaveCandidate, DecidedReviewsExist, ReviewExists, Decided
<1>2. ASSUME NEW p \in Request, InsertReview(p)
      PROVE  ReviewsHaveCandidate' /\ DecidedReviewsExist'
  <2>1. req[p].rev \in Review /\ req[p].ver \in Version
    BY <1>2, <1>t DEF InsertReview, HandlerHolds, DecideAt, CreateAt
  <2>2. /\ review'[req[p].rev].cand = req[p].ver
        /\ review'[req[p].rev].status # "absent"
        /\ \A r \in Review \ {req[p].rev} : review'[r] = review[r]
    BY <1>2, <1>t, <2>1 DEF InsertReview
  <2> QED
    BY <1>2, <1>t, <2>1, <2>2
    DEF InsertReview, ReviewsHaveCandidate, DecidedReviewsExist, ReviewExists, Decided
<1>3. ASSUME NEW r \in Review, NEW s \in ReviewStatus, ReviewExists(r),
             review' = [review EXCEPT ![r].status = s],
             \A x \in Review \ {r} : decision'[x] = decision[x]
      PROVE  ReviewsHaveCandidate' /\ DecidedReviewsExist'
  <2>1. s # "absent"
    BY DEF ReviewStatus, Open
  <2>2. /\ \A x \in Review : review'[x].cand = review[x].cand
        /\ \A x \in Review \ {r} : review'[x] = review[x]
        /\ review'[r].status = s
    BY <1>3, <1>t, StatusOnly
  <2> QED
    BY <1>3, <1>t, <2>1, <2>2
    DEF ReviewsHaveCandidate, DecidedReviewsExist, ReviewExists, Decided
<1>4. ASSUME NEW p \in Request,
             MarkReady(p) \/ FailReview(p) \/ Withdraw(p) \/ Decide(p)
      PROVE  ReviewsHaveCandidate' /\ DecidedReviewsExist'
  <2> DEFINE r == req[p].rev
  <2>1. r \in Review /\ ReviewExists(r)
    BY <1>4, <1>t DEF MarkReady, FailReview, Withdraw, Decide, HandlerHolds, DecideAt, ReviewAt
  <2>2. \/ UNCHANGED <<review, decision>>
        \/ /\ \E s \in ReviewStatus : review' = [review EXCEPT ![r].status = s]
           /\ \A x \in Review \ {r} : decision'[x] = decision[x]
    <3>1. CASE MarkReady(p) \/ FailReview(p)
      BY <3>1 DEF MarkReady, FailReview, ReviewStatus, Open
    <3>2. CASE Withdraw(p)
      BY <3>2 DEF Withdraw, ReviewStatus
    <3>3. CASE Decide(p)
      <4>1. ToStatus(req[p].op) \in ReviewStatus
        BY <3>3, <1>t DEF Decide, HandlerHolds, DecideAt, Outcome, ToStatus, ReviewStatus
      <4>2. \A x \in Review \ {r} : decision'[x] = decision[x]
        BY <3>3, <1>t DEF Decide
      <4> QED
        BY <3>3, <4>1, <4>2 DEF Decide
    <3> QED
      BY <1>4, <3>1, <3>2, <3>3
  <2> QED
    BY <1>1, <1>3, <2>1, <2>2
<1>5. ASSUME NEW p \in Request, CreateStep(p), ~InsertReview(p)
      PROVE  UNCHANGED <<review, decision>>
  BY <1>5
  DEF CreateStep, CreateReview, FindOpenReview, ReadBaseline, SubmitForReview,
      RequestReplay, reviewVars
<1>6. ASSUME NEW p \in Request, ReviewStep(p),
             ~MarkReady(p), ~FailReview(p), ~Withdraw(p), ~Decide(p)
      PROVE  UNCHANGED <<review, decision>>
  BY <1>6
  DEF ReviewStep, ReadReview, SyncStatus, UpsertVerdict, UpsertRefused, ReadRun, CheckGate,
      TakeSnapshot, DecideRefused, WithdrawRefused, reviewVars
<1>7. ASSUME NEW p \in Request, DraftStep(p) \/ Abort(p)
      PROVE  UNCHANGED <<review, decision>>
  BY <1>7
  DEF DraftStep, CreateDraft, ReadHighest, InsertDraftVersion, UpdateDraft, Abort,
      reviewVars
<1>8. ASSUME NEW n \in Run, RunStep(n)
      PROVE  UNCHANGED <<review, decision>>
  BY <1>8 DEF RunStep, StartRun, CompleteRun, FailRun, reviewVars
<1>9. CASE UNCHANGED vars
  BY <1>1, <1>9 DEF vars
<1> QED
  BY <1>1, <1>2, <1>4, <1>5, <1>6, <1>7, <1>8, <1>9 DEF Next, RunStep

-----------------------------------------------------------------------------
(* The theorems *)

LEMMA InitIInv == Init => IInv
PROOF
<1> SUFFICES ASSUME Init
             PROVE  IInv
  OBVIOUS
<1>1. VersionTypeOK
  BY DEF Init, VersionInit, VersionTypeOK, VersionStatus
<1>2. RowsTypeOK
  BY <1>1, RowTypes DEF Init, RowsTypeOK
<1>3. 1 \in Version
  BY VersionAssumption DEF Version
<1>4. FirstVersionExists /\ VersionsHaveContent
  BY <1>3 DEF Init, VersionInit, FirstVersionExists, VersionsHaveContent, Exists
<1>5. ReviewsHaveCandidate /\ DecidedReviewsExist
  BY DEF Init, ReviewsHaveCandidate, DecidedReviewsExist, ReviewExists, Decided,
         NoReview, NoDecision
<1>6. HandlersHold /\ IdsAreReserved
  BY DEF Init, HandlersHold, HandlerHolds, DecideAt, IdsAreReserved, Idle, CreateAt, ReviewAt,
         DraftAt
<1> QED
  BY <1>2, <1>4, <1>5, <1>6 DEF IInv

LEMMA NextIInv ==
    ASSUME IInv, [Next]_vars
    PROVE  IInv'
PROOF
<1>1. RowsTypeOK'
  <2>1. CASE Next
    BY <2>1, NextTypes
  <2>2. CASE UNCHANGED vars
    BY <2>2 DEF IInv, RowsTypeOK, VersionTypeOK, vars
  <2> QED
    BY <2>1, <2>2
<1> QED
  BY <1>1, NextKeepsHandlers, NextKeepsVersions, NextKeepsReviews DEF IInv

\* The columns hold what the tables and the code allow, in every state of every
\* interleaving of the handlers and the replay worker.
THEOREM TypesHold == Spec => []TypeOK
PROOF
<1>1. Init => IInv /\ TypeOK
  <2> SUFFICES ASSUME Init
               PROVE  IInv /\ TypeOK
    OBVIOUS
  <2>1. IInv /\ RowsTypeOK
    BY InitIInv DEF IInv
  <2> QED
    BY <2>1 DEF Init, TypeOK
<1>2. IInv /\ TypeOK /\ [Next]_vars => (IInv /\ TypeOK)'
  <2> SUFFICES ASSUME IInv, TypeOK, [Next]_vars
               PROVE  IInv' /\ TypeOK'
    OBVIOUS
  <2>1. IInv' /\ RowsTypeOK'
    BY NextIInv DEF IInv
  <2>2. ASSUME NEW p \in Request, Meets(p)
        PROVE  overlapped' \in BOOLEAN
    BY <2>2 DEF Meets, TypeOK
  <2>3. CASE UNCHANGED vars
    BY <2>1, <2>3 DEF vars, TypeOK
  <2>4. CASE Next
    BY <2>1, <2>2, <2>4 DEF Next, TypeOK
  <2> QED
    BY <2>3, <2>4
<1> QED
  BY <1>1, <1>2, PTL DEF Spec

\* The versions and the decisions implement PolicyLifecycle, however many requests
\* interleave: every statement of the two stores is one of its steps or changes
\* nothing it sees.
THEOREM Refinement == Spec => ImplementsLifecycle
PROOF
<1>1. Init => Lifecycle!Init
  <2> SUFFICES ASSUME Init
               PROVE  Lifecycle!Init
    OBVIOUS
  <2>1. 1 \in Version
    BY VersionAssumption DEF Version
  <2>2. Ledger = {}
    BY DEF Init, Ledger, Decided, NoDecision
  <2> QED
    BY <2>1, <2>2 DEF Init, VersionInit, Lifecycle!Init
<1>2. IInv /\ [Next]_vars => [Lifecycle!Next]_(Lifecycle!vars)
  BY NextSimulated
<1> QED
  BY <1>1, <1>2, InitIInv, NextIInv, PTL
  DEF Spec, ImplementsLifecycle, Lifecycle!Spec

-----------------------------------------------------------------------------
(* What follows from the lifecycle alone                                     *)

LifecycleInv ==
    /\ Lifecycle!TypeOK
    /\ Lifecycle!OneUnderReview
    /\ Lifecycle!LedgerDecides

LEMMA InitLifecycle == Lifecycle!Init => LifecycleInv
PROOF
<1> SUFFICES ASSUME Lifecycle!Init
             PROVE  LifecycleInv
  OBVIOUS
<1>1. Lifecycle!TypeOK
  BY DEF Lifecycle!Init, Lifecycle!TypeOK, Lifecycle!Stage
<1>2. \A v \in Version : vstatus[v] \in {"absent", "draft"}
  BY DEF Lifecycle!Init
<1> QED
  BY <1>1, <1>2 DEF Lifecycle!Init, LifecycleInv, Lifecycle!OneUnderReview,
                    Lifecycle!LedgerDecides

LEMMA NextLifecycle ==
    ASSUME LifecycleInv, [Lifecycle!Next]_(Lifecycle!vars)
    PROVE  LifecycleInv'
PROOF
<1> USE DEF LifecycleInv, Lifecycle!TypeOK, Lifecycle!OneUnderReview,
            Lifecycle!LedgerDecides, Lifecycle!Stage, Lifecycle!Entry
<1>1. ASSUME NEW v \in Version, NEW c \in Content, Lifecycle!Create(v, c)
      PROVE  LifecycleInv'
  BY <1>1 DEF Lifecycle!Create, Lifecycle!Final
<1>2. ASSUME NEW v \in Version, NEW c \in Content, Lifecycle!Edit(v, c)
      PROVE  LifecycleInv'
  BY <1>2 DEF Lifecycle!Edit
<1>3. ASSUME NEW v \in Version, Lifecycle!Submit(v)
      PROVE  LifecycleInv'
  BY <1>3 DEF Lifecycle!Submit, Lifecycle!Final
<1>4. ASSUME NEW v \in Version, Lifecycle!Withdraw(v)
      PROVE  LifecycleInv'
  BY <1>4 DEF Lifecycle!Withdraw, Lifecycle!Final
<1>5. ASSUME NEW d \in Review, NEW v \in Version, NEW o \in Lifecycle!Outcome,
             Lifecycle!Decide(d, v, o)
      PROVE  LifecycleInv'
  <2> DEFINE e == [id |-> d, version |-> v, outcome |-> o]
  <2>1. \A f \in Ledger : f.version # v /\ f.id # d
    BY <1>5 DEF Lifecycle!Decide, Lifecycle!Final
  <2>2. /\ vstatus' = [vstatus EXCEPT ![v] = Lifecycle!Final(o)]
        /\ Ledger' = Ledger \cup {e} /\ vcontent' = vcontent
        /\ vstatus[v] = "in_review"
    BY <1>5 DEF Lifecycle!Decide
  <2>3. e \in Lifecycle!Entry /\ Lifecycle!Final(o) \in {"accepted", "rejected"}
    BY DEF Lifecycle!Final
  <2>4. Lifecycle!TypeOK'
    <3>1. vstatus' \in [Version -> Lifecycle!Stage]
      BY <2>2, <2>3
    <3>2. Ledger' \subseteq Lifecycle!Entry
      <4> HIDE DEF e, Lifecycle!Entry
      <4> QED BY <2>2, <2>3
    <3> QED
      BY <2>2, <3>1, <3>2
  <2>5. Lifecycle!OneUnderReview'
    BY <2>2, <2>3
  <2>6. Lifecycle!LedgerDecides'
    <3>1. \A f \in Ledger' : f = e \/ f \in Ledger
      BY <2>2
    <3>2. \A f \in Ledger' : vstatus'[f.version] = Lifecycle!Final(f.outcome)
      BY <2>1, <2>2, <3>1
    <3>3. ASSUME NEW w \in Version, vstatus'[w] \in {"accepted", "rejected"}
          PROVE  \E f \in Ledger' : f.version = w
      <4>1. CASE w = v
        <5>1. e \in Ledger' /\ e.version = v
          BY <2>2
        <5> QED BY <4>1, <5>1
      <4>2. CASE w # v
        <5>1. vstatus[w] \in {"accepted", "rejected"}
          BY <2>2, <3>3, <4>2
        <5>2. PICK f \in Ledger : f.version = w
          BY <5>1
        <5> QED BY <2>2, <5>2
      <4> QED BY <4>1, <4>2
    <3>4. \A f, g \in Ledger' : f.version = g.version \/ f.id = g.id => f = g
      BY <2>1, <3>1
    <3> QED
      BY <3>2, <3>3, <3>4 DEF Lifecycle!Final
  <2> QED
    BY <2>4, <2>5, <2>6
<1>6. CASE UNCHANGED Lifecycle!vars
  BY <1>6 DEF Lifecycle!vars, Lifecycle!Final
<1> QED
  BY <1>1, <1>2, <1>3, <1>4, <1>5, <1>6 DEF Lifecycle!Next, RunStep

LEMMA LifecycleInvariance == Spec => []LifecycleInv
PROOF
<1>1. Lifecycle!Spec => []LifecycleInv
  BY InitLifecycle, NextLifecycle, PTL DEF Lifecycle!Spec
<1> QED
  BY <1>1, Refinement, PTL DEF ImplementsLifecycle

\* At most one version of a Policy is under review, whatever handlers interleave:
\* what the partial unique index uq_policy_versions__one_in_review is for.
THEOREM AlwaysOneUnderReview == Spec => []Lifecycle!OneUnderReview
PROOF
<1>1. LifecycleInv => Lifecycle!OneUnderReview
  BY DEF LifecycleInv
<1> QED
  BY <1>1, LifecycleInvariance, PTL

\* An accepted or rejected version never moves again, its document included: no
\* transition leaves those two statuses and only a draft is edited.
THEOREM FinalIsFrozen ==
    Spec => [][\A v \in Version : vstatus[v] \in {"accepted", "rejected"} =>
                  vstatus'[v] = vstatus[v] /\ vcontent'[v] = vcontent[v]]_vars
PROOF
<1> DEFINE Frozen == \A v \in Version : vstatus[v] \in {"accepted", "rejected"} =>
                         vstatus'[v] = vstatus[v] /\ vcontent'[v] = vcontent[v]
<1>1. LifecycleInv /\ [Lifecycle!Next]_(Lifecycle!vars) => Frozen
  BY DEF LifecycleInv, Lifecycle!TypeOK, Lifecycle!Next, RunStep, Lifecycle!vars, Lifecycle!Create,
         Lifecycle!Edit, Lifecycle!Submit, Lifecycle!Withdraw, Lifecycle!Decide
<1>2. IInv /\ [Next]_vars => [Lifecycle!Next]_(Lifecycle!vars)
  BY NextSimulated
<1>3. IInv /\ LifecycleInv /\ [Next]_vars => [Frozen]_vars
  BY <1>1, <1>2
<1> QED
  BY <1>3, InitIInv, NextIInv, LifecycleInvariance, PTL DEF Spec

\* The audit log and the version table agree: no interleaving of decide, withdraw,
\* syncStatus and createChangeReview decides a version twice, or moves it without
\* its decision.
THEOREM DecisionsAndVersionsAgree == Spec => []DecisionsMatchVersions
PROOF
<1>1. IInv /\ Lifecycle!LedgerDecides => DecisionsMatchVersions
  <2> SUFFICES ASSUME IInv, Lifecycle!LedgerDecides
               PROVE  DecisionsMatchVersions
    OBVIOUS
  <2> DEFINE Entry(r) == [id |-> r, version |-> review[r].cand,
                          outcome |-> decision[r].outcome]
  <2>1. \A r \in Review : Decided(r) => Entry(r) \in Ledger
    BY DEF Ledger
  <2>2. \A e \in Ledger : \E r \in Review : Decided(r) /\ e = Entry(r)
    BY DEF Ledger
  <2>3. ASSUME NEW r \in Review, Decided(r)
        PROVE  ReviewExists(r) /\ vstatus[review[r].cand] = ToStatus(decision[r].outcome)
    <3>1. decision[r].outcome \in Outcome
      BY <2>3 DEF IInv, RowsTypeOK, DecisionRow, Decided
    <3>2. vstatus[review[r].cand] = Lifecycle!Final(decision[r].outcome)
      BY <2>1, <2>3 DEF Lifecycle!LedgerDecides
    <3> QED
      BY <2>3, <3>1, <3>2
      DEF IInv, DecidedReviewsExist, Lifecycle!Final, ToStatus, Outcome
  <2>4. ASSUME NEW v \in Version, vstatus[v] \in {"accepted", "rejected"}
        PROVE  \E r \in Review : Decided(r) /\ review[r].cand = v
    BY <2>2, <2>4 DEF Lifecycle!LedgerDecides
  <2>5. ASSUME NEW r \in Review, NEW s \in Review, Decided(r), Decided(s),
               review[r].cand = review[s].cand
        PROVE  r = s
    BY <2>1, <2>5 DEF Lifecycle!LedgerDecides
  <2> QED
    BY <2>3, <2>4, <2>5 DEF DecisionsMatchVersions
<1>2. LifecycleInv => Lifecycle!LedgerDecides
  BY DEF LifecycleInv
<1> QED
  BY <1>1, <1>2, LifecycleInvariance, InitIInv, NextIInv, PTL DEF Spec

-----------------------------------------------------------------------------
(* Until two requests overlap. What is said of candidates and decisions holds     *)
(* then; the replay worker interleaves with all. It is inductive together with    *)
(* the one open review and with what a handler relies on: what it has read is     *)
(* what is still stored.                                                          *)

\* The run of a review is a row of replay_runs.
ReviewsHaveRun ==
    \A r \in Review : ReviewExists(r) =>
        review[r].run \in Run /\ run[review[r].run].status # "absent"

RowsFit ==
    /\ AtMostOneOpenReview
    /\ CandidatesAreHeld
    /\ ContentIsPinned
    /\ ReviewsHaveRun

NoneOpen == \A r \in Review : ~IsOpen(r)

\* What a create has read of its candidate is so, and from its second step on no
\* review is open.
CreateFits(s) ==
    s.at \in CreateAt =>
        /\ vcontent[s.ver] = s.hash
        /\ s.vst \in {"draft", "in_review"}
        /\ s.at \in {"findOpen", "baseline"} => vstatus[s.ver] = s.vst
        /\ s.at = "submit" => vstatus[s.ver] = "draft"
        /\ s.at \in {"replay", "insert"} => vstatus[s.ver] = "in_review"
        /\ s.at # "findOpen" => NoneOpen
        /\ s.at = "insert" => /\ s.run \in Run
                              /\ run[s.run].status # "absent"
                              /\ run[s.run].candHash = s.hash

\* The review of an operation has the status the operation goes on with.
OperationFits(s) ==
    /\ s.at \in {"sync", "markReady", "failReview"} => review[s.rev].status = "computing"
    /\ s.at \in DecideAt \cup {"upsert"} => review[s.rev].status = "ready"
    /\ s.at = "withdraw" => IsOpen(s.rev)

Fits(s) == CreateFits(s) /\ OperationFits(s)

HandlersFit == \A p \in Request : Fits(req[p])

\* No other request is under way.
Alone(p) == \A q \in Request \ {p} : req[q].at = "idle"

SerialInv ==
    /\ IInv
    /\ DecisionsMatchVersions
    /\ RowsFit
    /\ HandlersFit

\* No run is deleted, and none gets other inputs.
RunsKept ==
    \A n \in Run : run[n].status # "absent" =>
        /\ run'[n].status # "absent"
        /\ run'[n].baseHash = run[n].baseHash
        /\ run'[n].candHash = run[n].candHash

\* A version that is not a draft stays as it is.
FrozenKept ==
    \A v \in Version : vstatus[v] \in {"in_review", "accepted", "rejected"} =>
        vstatus'[v] = vstatus[v] /\ vcontent'[v] = vcontent[v]

\* The candidate of a decided review is accepted or rejected.
LEMMA DecidedIsFinal ==
    ASSUME IInv, DecisionsMatchVersions, NEW r \in Review, Decided(r)
    PROVE  /\ ReviewExists(r)
           /\ review[r].cand \in Version
           /\ vstatus[review[r].cand] \in {"accepted", "rejected"}
  BY DEF IInv, RowsTypeOK, DecisionRow, Outcome, Decided, DecisionsMatchVersions,
         ReviewsHaveCandidate, ToStatus

\* A step that writes no review and no decision.
LEMMA FrameKeepsRows ==
    ASSUME IInv, DecisionsMatchVersions, RowsFit, UNCHANGED <<review, decision>>,
           RunsKept, FrozenKept
    PROVE  RowsFit'
PROOF
<1>1. AtMostOneOpenReview' /\ ReviewsHaveRun'
  BY DEF RowsFit, AtMostOneOpenReview, IsOpen, ReviewsHaveRun, ReviewExists, RunsKept
<1>2. ASSUME NEW r \in Review, ReviewExists(r)
      PROVE  /\ review[r].cand \in Version
             /\ review[r].run \in Run /\ run[review[r].run].status # "absent"
  BY <1>2 DEF IInv, ReviewsHaveCandidate, RowsFit, ReviewsHaveRun
<1>3. CandidatesAreHeld'
  <2> SUFFICES ASSUME NEW r \in Review, IsOpen(r)
               PROVE  /\ vstatus'[review[r].cand] = "in_review"
                      /\ vcontent'[review[r].cand] = review[r].candHash
                      /\ run'[review[r].run].candHash = review[r].candHash
    BY DEF CandidatesAreHeld, IsOpen
  <2>1. ReviewExists(r)
    BY DEF IsOpen, ReviewExists, Open
  <2> QED
    BY <1>2, <2>1 DEF RowsFit, CandidatesAreHeld, FrozenKept, RunsKept
<1>4. ASSUME NEW r \in Review, Decided(r)
      PROVE  /\ vcontent'[review[r].cand] = vcontent[review[r].cand]
             /\ run'[review[r].run].candHash = run[review[r].run].candHash
  BY <1>2, <1>4, DecidedIsFinal DEF FrozenKept, RunsKept
<1>5. ContentIsPinned'
  BY <1>4 DEF RowsFit, ContentIsPinned, Decided
<1> QED
  BY <1>1, <1>3, <1>5 DEF RowsFit

\* A review that is open takes a status; no other row of a review or a decision moves.
LEMMA StatusKeepsRows ==
    ASSUME IInv, DecisionsMatchVersions, RowsFit, NEW r \in Review, IsOpen(r),
           NEW s \in ReviewStatus, review' = [review EXCEPT ![r].status = s],
           UNCHANGED <<decision, run, vcontent>>,
           \/ s \in Open /\ UNCHANGED vstatus
           \/ s \notin Open /\ vstatus' = [vstatus EXCEPT ![review[r].cand] = "draft"]
    PROVE  RowsFit'
PROOF
<1>t. review \in [Review -> ReviewRow] /\ vstatus \in [Version -> VersionStatus]
  BY DEF IInv, RowsTypeOK, VersionTypeOK
<1>s. s # "absent"
  BY DEF ReviewStatus, Open
<1>1. /\ \A x \in Review \ {r} : review'[x] = review[x]
      /\ review'[r].status = s /\ review'[r].cand = review[r].cand
  BY <1>t, StatusOnly
<1>2. /\ review'[r].run = review[r].run /\ review'[r].base = review[r].base
      /\ review'[r].candHash = review[r].candHash
  BY <1>t DEF ReviewRow
<1>3. \A x \in Review : /\ review'[x].cand = review[x].cand
                        /\ review'[x].run = review[x].run
                        /\ review'[x].base = review[x].base
                        /\ review'[x].candHash = review[x].candHash
                        /\ (review'[x].status # "absent") <=> (review[x].status # "absent")
  BY <1>1, <1>2, <1>s DEF IsOpen, Open
<1>4. /\ AtMostOneOpenReview /\ CandidatesAreHeld
      /\ ContentIsPinned /\ ReviewsHaveRun
  BY DEF RowsFit
<1>5. \A x \in Review : IsOpen(x)' => x = r /\ s \in Open
  BY <1>1, <1>4 DEF AtMostOneOpenReview, IsOpen
<1>6. AtMostOneOpenReview'
  BY <1>5 DEF AtMostOneOpenReview
<1>7. CandidatesAreHeld'
  BY <1>3, <1>4, <1>5 DEF CandidatesAreHeld, IsOpen
<1>8. ReviewsHaveRun'
  BY <1>3, <1>4 DEF ReviewsHaveRun, ReviewExists
<1>9. ContentIsPinned'
  BY <1>3, <1>4 DEF ContentIsPinned, Decided
<1> QED
  BY <1>6, <1>7, <1>8, <1>9 DEF RowsFit

\* A review is inserted when none is open.
LEMMA InsertKeepsRows ==
    ASSUME SerialInv, NEW p \in Request, InsertReview(p)
    PROVE  RowsFit'
PROOF
<1> DEFINE r == req[p].rev
           row == [status |-> IF req[p].rready THEN "ready" ELSE "computing",
                   cand |-> req[p].ver, candHash |-> req[p].hash,
                   base |-> req[p].base, run |-> req[p].run]
<1>t. review \in [Review -> ReviewRow] /\ HandlerHolds(req[p]) /\ Fits(req[p])
  BY DEF SerialInv, HandlersFit, IInv, RowsTypeOK, HandlersHold
<1>1. r \in Review /\ ~ReviewExists(r)
  BY <1>t DEF InsertReview, HandlerHolds, DecideAt, CreateAt
<1>2. /\ vstatus[row.cand] = "in_review" /\ vcontent[row.cand] = row.candHash
      /\ row.run \in Run /\ run[row.run].status # "absent"
      /\ run[row.run].candHash = row.candHash
      /\ NoneOpen
  BY <1>t DEF InsertReview, Fits, CreateFits, CreateAt
<1>3. /\ review'[r] = row /\ \A x \in Review \ {r} : review'[x] = review[x]
      /\ UNCHANGED <<vstatus, vcontent, decision, run>>
  BY <1>t, <1>1 DEF InsertReview, versionVars
<1> HIDE DEF row
<1>4. /\ AtMostOneOpenReview /\ CandidatesAreHeld
      /\ ContentIsPinned /\ ReviewsHaveRun
  BY DEF SerialInv, RowsFit
<1>5. \A x \in Review : IsOpen(x)' => x = r
  BY <1>2, <1>3 DEF NoneOpen, IsOpen
<1>6. AtMostOneOpenReview' /\ CandidatesAreHeld'
  BY <1>2, <1>3, <1>5 DEF AtMostOneOpenReview, CandidatesAreHeld
<1>7. ReviewsHaveRun'
  BY <1>2, <1>3, <1>4 DEF ReviewsHaveRun, ReviewExists
<1>8. \A x \in Review : Decided(x) => x # r
  BY <1>1, DecidedIsFinal DEF SerialInv
<1>9. ContentIsPinned'
  BY <1>3, <1>4, <1>8 DEF ContentIsPinned, Decided
<1> QED
  BY <1>6, <1>7, <1>9 DEF RowsFit

\* A decision is recorded: its review is the open one, and its candidate is what the
\* review holds.
LEMMA DecideKeepsRows ==
    ASSUME SerialInv, NEW p \in Request, Decide(p)
    PROVE  RowsFit'
PROOF
<1> DEFINE r == req[p].rev
           o == req[p].op
           row == [outcome |-> o, seq |-> NextSequence,
                   candHash |-> review[r].candHash, snapshot |-> req[p].snapshot]
<1>t. /\ review \in [Review -> ReviewRow] /\ vstatus \in [Version -> VersionStatus]
      /\ decision \in [Review -> DecisionRow]
      /\ HandlerHolds(req[p]) /\ Fits(req[p])
  BY DEF SerialInv, HandlersFit, IInv, RowsTypeOK, VersionTypeOK, HandlersHold
<1>1. r \in Review /\ o \in Outcome /\ req[p].at = "decide"
  BY <1>t DEF Decide, HandlerHolds, DecideAt, ReviewAt
<1>2. review[r].status = "ready" /\ IsOpen(r)
  BY <1>t, <1>1 DEF Fits, OperationFits, DecideAt, IsOpen, Open
<1>3. /\ ~Decided(r)
      /\ vstatus' = [vstatus EXCEPT ![review[r].cand] = ToStatus(o)]
      /\ decision' = [decision EXCEPT ![r] = row]
      /\ review' = [review EXCEPT ![r].status = ToStatus(o)]
      /\ UNCHANGED <<vcontent, run>>
  BY DEF Decide, TransitionVersion
<1>4. ToStatus(o) \in {"accepted", "rejected"}
  BY <1>1 DEF ToStatus, Outcome
<1>5. /\ \A x \in Review \ {r} : review'[x] = review[x] /\ decision'[x] = decision[x]
      /\ review'[r].status = ToStatus(o) /\ review'[r].cand = review[r].cand
      /\ decision'[r] = row
  BY <1>t, <1>1, <1>3, StatusOnly
<1>6. /\ review'[r].run = review[r].run /\ review'[r].base = review[r].base
  BY <1>t, <1>1, <1>3 DEF ReviewRow
<1>7. row.candHash = review[r].candHash
  OBVIOUS
<1> HIDE DEF row
<1>8. /\ AtMostOneOpenReview /\ CandidatesAreHeld
      /\ ContentIsPinned /\ ReviewsHaveRun
  BY DEF SerialInv, RowsFit
<1>9. \A x \in Review : ~IsOpen(x)'
  BY <1>1, <1>2, <1>4, <1>5, <1>8 DEF AtMostOneOpenReview, IsOpen, Open
<1>10. AtMostOneOpenReview' /\ CandidatesAreHeld'
  BY <1>9 DEF AtMostOneOpenReview, CandidatesAreHeld
<1>11. ReviewsHaveRun'
  BY <1>1, <1>2, <1>3, <1>5, <1>6, <1>8 DEF ReviewsHaveRun, ReviewExists, IsOpen, Open
<1>12. /\ vcontent[review[r].cand] = review[r].candHash
       /\ run[review[r].run].candHash = review[r].candHash
  BY <1>1, <1>2, <1>8 DEF CandidatesAreHeld
<1>13. ContentIsPinned'
  BY <1>3, <1>5, <1>6, <1>7, <1>8, <1>12 DEF ContentIsPinned, Decided
<1> QED
  BY <1>10, <1>11, <1>13 DEF RowsFit

\* The one handler under way is at s after the step; the others rely on nothing.
LEMMA HandlerAt ==
    ASSUME NEW p \in Request, Alone(p), req \in [Request -> RequestState],
           NEW s, req' = [req EXCEPT ![p] = s], Fits(s)'
    PROVE  HandlersFit'
PROOF
<1>1. req'[p] = s /\ \A q \in Request \ {p} : req'[q] = req[q]
  OBVIOUS
<1>2. Fits(req[p])'
  BY <1>1 DEF Fits, CreateFits, OperationFits, IsOpen
<1>3. ASSUME NEW q \in Request \ {p}
      PROVE  Fits(req[q])'
  <2>1. req'[q].at = "idle"
    BY <1>1 DEF Alone
  <2> QED
    BY <2>1 DEF Fits, CreateFits, OperationFits, CreateAt, DecideAt
<1> QED
  BY <1>2, <1>3 DEF HandlersFit

\* A handler that has returned holds nothing.
LEMMA ReturnFits ==
    ASSUME NEW p \in Request, Alone(p), req \in [Request -> RequestState], Return(p)
    PROVE  HandlersFit'
PROOF
<1>1. PICK s : s = Idle
  OBVIOUS
<1>2. Fits(s)'
  BY <1>1 DEF Fits, CreateFits, OperationFits, Idle, CreateAt, DecideAt
<1> QED
  BY <1>1, <1>2, HandlerAt DEF Return

\* The steps of a create: what it reads stays so, since the worker writes no version
\* and no review.
LEMMA CreateFitsOn ==
    ASSUME SerialInv, NEW p \in Request, Alone(p), CreateStep(p)
    PROVE  RowsFit' /\ HandlersFit'
PROOF
<1>t. /\ IInv /\ DecisionsMatchVersions /\ RowsFit
      /\ req \in [Request -> RequestState] /\ req[p] \in RequestState
      /\ req' \in [Request -> RequestState]
      /\ vstatus \in [Version -> VersionStatus] /\ run \in [Run -> RunRow]
      /\ p \in Request /\ HandlerHolds(req[p]) /\ Fits(req[p])
  BY CreateTypes DEF SerialInv, HandlersFit, IInv, RowsTypeOK, VersionTypeOK, HandlersHold
<1>a. PICK s \in RequestState : s = req'[p]
  BY <1>t
<1>b. ASSUME UNCHANGED <<review, decision, run, vstatus, vcontent>>
      PROVE  RowsFit'
  BY <1>b, <1>t, FrameKeepsRows DEF RunsKept, FrozenKept
<1>1. ASSUME NEW r \in Review, NEW v \in Version, CreateReview(p, r, v)
      PROVE  RowsFit' /\ HandlersFit'
  <2>1. /\ s.at = "findOpen" /\ s.ver = v /\ s.vst = vstatus[v] /\ s.hash = vcontent[v]
        /\ req' = [req EXCEPT ![p] = s]
    BY <1>1, <1>t, <1>a DEF CreateReview, Idle
  <2>2. UNCHANGED <<review, decision, run, vstatus, vcontent>> /\ vstatus[v] \in {"draft", "in_review"}
    BY <1>1 DEF CreateReview, versionVars, reviewVars
  <2>3. Fits(s)'
    BY <2>1, <2>2 DEF Fits, CreateFits, OperationFits, DecideAt
  <2> QED
    BY <1>b, <1>t, <2>1, <2>2, <2>3, HandlerAt
<1>2. CASE FindOpenReview(p)
  <2>1. UNCHANGED <<review, decision, run, vstatus, vcontent>> /\ req[p].at = "findOpen"
    BY <1>2 DEF FindOpenReview, versionVars, reviewVars
  <2>2. CASE Goto(p, "baseline") /\ NoneOpen
    <3>1. /\ req' = [req EXCEPT ![p] = s] /\ s.at = "baseline"
          /\ s.ver = req[p].ver /\ s.vst = req[p].vst /\ s.hash = req[p].hash
      BY <2>2, <1>t, <1>a DEF Goto, RequestState
    <3>2. Fits(s)'
      BY <1>t, <2>1, <2>2, <3>1
      DEF Fits, CreateFits, OperationFits, CreateAt, DecideAt, NoneOpen, IsOpen
    <3> QED
      BY <1>b, <1>t, <2>1, <3>1, <3>2, HandlerAt
  <2> QED
    BY <1>2, <1>b, <1>t, <2>1, <2>2, ReturnFits DEF FindOpenReview, NoneOpen
<1>3. CASE ReadBaseline(p)
  <2>1. UNCHANGED <<review, decision, run, vstatus, vcontent>> /\ req[p].at = "baseline"
    BY <1>3 DEF ReadBaseline, versionVars, reviewVars
  <2>2. /\ req' = [req EXCEPT ![p] = s]
        /\ s.at = IF req[p].vst = "draft" THEN "submit" ELSE "replay"
        /\ s.ver = req[p].ver /\ s.vst = req[p].vst /\ s.hash = req[p].hash
    BY <1>3, <1>t, <1>a DEF ReadBaseline, RequestState
  <2>3. Fits(s)'
    BY <1>t, <2>1, <2>2 DEF Fits, CreateFits, OperationFits, CreateAt, DecideAt, NoneOpen, IsOpen
  <2> QED
    BY <1>b, <1>t, <2>1, <2>2, <2>3, HandlerAt
<1>4. CASE SubmitForReview(p)
  <2>1. UNCHANGED <<review, decision, run>> /\ req[p].at = "submit" /\ req[p].ver \in Version
    BY <1>4, <1>t DEF SubmitForReview, reviewVars, HandlerHolds, DecideAt, CreateAt
  <2>2. CASE Return(p) /\ UNCHANGED versionVars
    BY <1>b, <1>t, <2>1, <2>2, ReturnFits DEF versionVars
  <2>3. CASE TransitionVersion(req[p].ver, "submit") /\ Goto(p, "replay")
    <3>1. /\ vstatus[req[p].ver] = "draft" /\ UNCHANGED vcontent
          /\ vstatus' = [vstatus EXCEPT ![req[p].ver] = "in_review"]
      BY <2>3 DEF TransitionVersion, CanTransition, FromStatus, ToStatus
    <3>2. RowsFit'
      BY <1>t, <2>1, <3>1, FrameKeepsRows DEF RunsKept, FrozenKept
    <3>3. /\ req' = [req EXCEPT ![p] = s] /\ s.at = "replay"
          /\ s.ver = req[p].ver /\ s.vst = req[p].vst /\ s.hash = req[p].hash
      BY <2>3, <1>t, <1>a DEF Goto, RequestState
    <3>4. vstatus'[s.ver] = "in_review"
      BY <1>t, <2>1, <3>1, <3>3
    <3>5. Fits(s)'
      BY <1>t, <2>1, <3>1, <3>3, <3>4
      DEF Fits, CreateFits, OperationFits, CreateAt, DecideAt, NoneOpen, IsOpen
    <3> QED
      BY <1>t, <3>2, <3>3, <3>5, HandlerAt
  <2> QED
    BY <1>4, <2>2, <2>3 DEF SubmitForReview
<1>5. CASE RequestReplay(p)
  <2>1. UNCHANGED <<review, decision, vstatus, vcontent>> /\ req[p].at = "replay"
    BY <1>5, Zenon DEF RequestReplay, versionVars, reviewVars
  <2>2. vcontent[req[p].ver] = req[p].hash
    BY <1>t, <2>1 DEF Fits, CreateFits, CreateAt
  <2> DEFINE Inserts(n) ==
               \/ req' = [req EXCEPT ![p].at = "insert", ![p].run = n, ![p].rready = TRUE]
               \/ req' = [req EXCEPT ![p].at = "insert", ![p].run = n]
  <2>3. ASSUME NEW n \in Run, run'[n].status # "absent", run'[n].candHash = req[p].hash,
               RunsKept, Inserts(n)
        PROVE  RowsFit' /\ HandlersFit'
    <3>1. /\ req' = [req EXCEPT ![p] = s] /\ s.at = "insert" /\ s.run = n
          /\ s.ver = req[p].ver /\ s.vst = req[p].vst /\ s.hash = req[p].hash
      BY <2>3, <1>t, <1>a DEF RequestState
    <3>2. RowsFit'
      BY <1>t, <2>1, <2>3, FrameKeepsRows DEF FrozenKept
    <3>3. Fits(s)'
      BY <1>t, <2>1, <2>3, <3>1
      DEF Fits, CreateFits, OperationFits, CreateAt, DecideAt, NoneOpen, IsOpen
    <3> QED
      BY <1>t, <3>1, <3>2, <3>3, HandlerAt
  <2>4. CASE Return(p) /\ UNCHANGED run
    BY <1>b, <1>t, <2>1, <2>4, ReturnFits
  <2> DEFINE Reusable(n) ==
               /\ run[n].status = "completed"
               /\ SameInputs(n, ContentOf(req[p].base), vcontent[req[p].ver])
             Reuses(n) ==
               /\ req' = [req EXCEPT ![p].at = "insert", ![p].run = n, ![p].rready = TRUE]
               /\ UNCHANGED run
             Queues(n) ==
               /\ run[n].status = "absent"
               /\ run' = [run EXCEPT ![n] =
                            [status |-> "queued", cand |-> req[p].ver,
                             candHash |-> vcontent[req[p].ver],
                             baseHash |-> ContentOf(req[p].base),
                             computing |-> FALSE]]
               /\ req' = [req EXCEPT ![p].at = "insert", ![p].run = n]
  <2>5. ASSUME NEW n \in Run, Reusable(n), Reuses(n)
        PROVE  RowsFit' /\ HandlersFit'
    <3>1. run'[n].status # "absent" /\ run'[n].candHash = req[p].hash /\ RunsKept
      BY <2>2, <2>5 DEF SameInputs, RunsKept
    <3>2. Inserts(n)
      BY <2>5
    <3> HIDE DEF Inserts
    <3> QED
      BY <2>3, <3>1, <3>2
  <2>6. ASSUME NEW n \in Run, Queues(n)
        PROVE  RowsFit' /\ HandlersFit'
    <3>1. run'[n].status # "absent" /\ run'[n].candHash = req[p].hash /\ RunsKept
      BY <1>t, <2>2, <2>6 DEF RunsKept
    <3>2. Inserts(n)
      BY <2>6
    <3> HIDE DEF Inserts
    <3> QED
      BY <2>3, <3>1, <3>2
  <2>7. \/ \E n \in {m \in Run : Reusable(m)} : Reuses(n)
        \/ \E n \in Run : Queues(n)
        \/ Return(p) /\ UNCHANGED run
    BY <1>5, Zenon DEF RequestReplay
  <2> HIDE DEF Reusable, Reuses, Queues
  <2> QED
    BY <2>4, <2>5, <2>6, <2>7
<1>6. CASE InsertReview(p)
  BY <1>6, <1>t, InsertKeepsRows, ReturnFits DEF InsertReview
<1> QED
  BY <1>1, <1>2, <1>3, <1>4, <1>5, <1>6 DEF CreateStep

\* An operation goes on with the status its review has.
LEMMA SyncedFits ==
    ASSUME NEW p \in Request, Alone(p), req \in [Request -> RequestState], NEW op \in Operation,
           NEW r, NEW st, review'[r].status = st,
           req' = [req EXCEPT ![p] = Synced(p, op, r, st)]
    PROVE  HandlersFit'
PROOF
<1>1. PICK s : s = Synced(p, op, r, st)
  OBVIOUS
<1>2. \/ s = Idle
      \/ s.at = "withdraw" /\ s.rev = r /\ st \in Open
      \/ s.at \in {"upsert", "readRun"} /\ s.rev = r /\ st = "ready"
  BY <1>1 DEF Synced, AfterSync, Idle, Operation
<1>3. CASE s = Idle
  BY <1>1, <1>3, ReturnFits DEF Return
<1>4. CASE s # Idle
  <2>1. Fits(s)'
    BY <1>2, <1>4 DEF Fits, CreateFits, OperationFits, CreateAt, DecideAt, IsOpen
  <2> QED
    BY <1>1, <2>1, HandlerAt
<1> QED
  BY <1>3, <1>4

\* syncStatus of a review that is computing: it stays so until it is written.
LEMMA SyncFits ==
    ASSUME SerialInv, NEW p \in Request, Alone(p), SyncStatus(p) \/ MarkReady(p) \/ FailReview(p)
    PROVE  RowsFit' /\ HandlersFit'
PROOF
<1> DEFINE r == req[p].rev
           op == req[p].op
<1>t. /\ IInv /\ DecisionsMatchVersions /\ RowsFit
      /\ req \in [Request -> RequestState] /\ req[p] \in RequestState
      /\ review \in [Review -> ReviewRow] /\ vstatus \in [Version -> VersionStatus]
      /\ p \in Request /\ HandlerHolds(req[p]) /\ Fits(req[p])
  BY DEF SerialInv, HandlersFit, IInv, RowsTypeOK, VersionTypeOK, HandlersHold
<1>1. /\ r \in Review /\ op \in Operation
      /\ review[r].status = "computing" /\ IsOpen(r) /\ review[r].cand \in Version
  BY <1>t DEF SyncStatus, MarkReady, FailReview, HandlerHolds, DecideAt, ReviewAt, Fits, OperationFits,
              IsOpen, Open, IInv, ReviewsHaveCandidate, ReviewExists
<1>2. UNCHANGED <<verdict, decision, run>>
  BY DEF SyncStatus, MarkReady, FailReview, reviewVars
<1>3. CASE SyncStatus(p)
  <2>1. RowsFit' /\ UNCHANGED review
    BY <1>t, <1>3, FrameKeepsRows
    DEF SyncStatus, RunsKept, FrozenKept, versionVars, reviewVars
  <2>2. ASSUME NEW a \in {"markReady", "failReview"}, Goto(p, a)
        PROVE  HandlersFit'
    <3>1. PICK s : s = [req[p] EXCEPT !.at = a]
      OBVIOUS
    <3>2. s.at = a /\ s.rev = r /\ req' = [req EXCEPT ![p] = s]
      BY <2>2, <3>1, <1>t DEF Goto, RequestState
    <3>3. Fits(s)'
      BY <1>1, <2>1, <3>2 DEF Fits, CreateFits, OperationFits, CreateAt, DecideAt
    <3> QED
      BY <1>t, <3>2, <3>3, HandlerAt
  <2>3. CASE req' = [req EXCEPT ![p] = Synced(p, op, r, "computing")]
    BY <1>t, <1>1, <2>1, <2>3, SyncedFits
  <2> QED
    BY <1>3, <2>1, <2>2, <2>3 DEF SyncStatus
<1>4. CASE MarkReady(p)
  <2>1. /\ review' = [review EXCEPT ![r].status = "ready"]
        /\ "ready" \in ReviewStatus /\ "ready" \in Open
        /\ UNCHANGED <<vstatus, vcontent>>
    BY <1>4 DEF MarkReady, ReviewStatus, Open, versionVars
  <2>2. RowsFit'
    BY <1>t, <1>1, <1>2, <2>1, StatusKeepsRows
  <2>3. review'[r].status = "ready"
    BY <1>t, <1>1, <2>1, StatusOnly
  <2> QED
    BY <1>t, <1>1, <1>4, <2>2, <2>3, SyncedFits DEF MarkReady
<1>5. CASE FailReview(p)
  <2>1. Return(p)
    BY <1>5 DEF FailReview
  <2>2. vstatus[review[r].cand] = "in_review"
    BY <1>t, <1>1 DEF RowsFit, CandidatesAreHeld
  <2>3. /\ review' = [review EXCEPT ![r].status = "failed"] /\ UNCHANGED vcontent
        /\ vstatus' = [vstatus EXCEPT ![review[r].cand] = "draft"]
    BY <1>1, <1>5, <2>2 DEF FailReview, CanTransition, TransitionVersion, FromStatus, ToStatus
  <2>4. "failed" \in ReviewStatus /\ "failed" \notin Open
    BY DEF ReviewStatus, Open
  <2> QED
    BY <1>t, <1>1, <1>2, <2>1, <2>3, <2>4, StatusKeepsRows, ReturnFits
<1> QED
  BY <1>3, <1>4, <1>5

\* The steps of an operation on a review.
LEMMA OperationFitsOn ==
    ASSUME SerialInv, NEW p \in Request, Alone(p), ReviewStep(p)
    PROVE  RowsFit' /\ HandlersFit'
PROOF
<1>t. /\ IInv /\ DecisionsMatchVersions /\ RowsFit
      /\ req \in [Request -> RequestState] /\ req[p] \in RequestState
      /\ req' \in [Request -> RequestState]
      /\ review \in [Review -> ReviewRow] /\ vstatus \in [Version -> VersionStatus]
      /\ p \in Request /\ HandlerHolds(req[p]) /\ Fits(req[p])
  BY ReviewTypes DEF SerialInv, HandlersFit, IInv, RowsTypeOK, VersionTypeOK, HandlersHold
<1>a. PICK s \in RequestState : s = req'[p]
  BY <1>t
<1>b. ASSUME UNCHANGED <<review, decision, run, vstatus, vcontent>>
      PROVE  RowsFit'
  BY <1>b, <1>t, FrameKeepsRows DEF RunsKept, FrozenKept
<1>1. ASSUME NEW op \in Operation, NEW r \in Review, ReadReview(p, op, r)
      PROVE  RowsFit' /\ HandlersFit'
  <2>1. UNCHANGED <<review, decision, run, vstatus, vcontent>> /\ ReviewExists(r)
    BY <1>1 DEF ReadReview, versionVars, reviewVars
  <2>2. CASE /\ review[r].status = "computing"
             /\ req' = [req EXCEPT ![p] = [Idle EXCEPT !.at = "sync", !.op = op, !.rev = r]]
    <3>1. s.at = "sync" /\ s.rev = r /\ req' = [req EXCEPT ![p] = s]
      BY <2>2, <1>t, <1>a DEF Idle
    <3>2. Fits(s)'
      BY <2>1, <2>2, <3>1 DEF Fits, CreateFits, OperationFits, CreateAt, DecideAt
    <3> QED
      BY <1>b, <1>t, <2>1, <3>1, <3>2, HandlerAt
  <2>3. CASE req' = [req EXCEPT ![p] = Synced(p, op, r, review[r].status)]
    BY <1>b, <1>t, <2>1, <2>3, SyncedFits
  <2> QED
    BY <1>1, <2>2, <2>3 DEF ReadReview
<1>2. CASE UpsertVerdict(p) \/ UpsertRefused(p) \/ DecideRefused(p) \/ WithdrawRefused(p)
  <2>1. UNCHANGED <<review, decision, run, vstatus, vcontent>> /\ Return(p)
    BY <1>2 DEF UpsertVerdict, UpsertRefused, DecideRefused, WithdrawRefused, versionVars,
                reviewVars
  <2> QED
    BY <1>b, <1>t, <2>1, ReturnFits
<1>3. CASE ReadRun(p) \/ CheckGate(p) \/ TakeSnapshot(p)
  <2>1. /\ UNCHANGED <<review, decision, run, vstatus, vcontent>>
        /\ req[p].at \in DecideAt
    BY <1>3 DEF ReadRun, CheckGate, TakeSnapshot, versionVars, reviewVars, DecideAt
  <2>2. CASE Return(p)
    BY <1>b, <1>t, <2>1, <2>2, ReturnFits
  <2>3. ASSUME req' = [req EXCEPT ![p] = s], s.at \in DecideAt, s.rev = req[p].rev
        PROVE  RowsFit' /\ HandlersFit'
    <3>1. review'[s.rev].status = "ready"
      BY <1>t, <2>1, <2>3 DEF Fits, OperationFits
    <3>2. Fits(s)'
      BY <2>3, <3>1 DEF Fits, CreateFits, OperationFits, CreateAt, DecideAt
    <3> QED
      BY <1>b, <1>t, <2>1, <2>3, <3>2, HandlerAt
  <2>4. \/ Return(p)
        \/ req' = [req EXCEPT ![p] = s] /\ s.at \in DecideAt /\ s.rev = req[p].rev
    <3>1. CASE ReadRun(p)
      BY <3>1, <1>t, <1>a DEF ReadRun, Goto, RequestState, DecideAt
    <3>2. CASE CheckGate(p)
      BY <3>2, <1>t, <1>a DEF CheckGate, Goto, RequestState, DecideAt
    <3>3. CASE TakeSnapshot(p)
      BY <3>3, <1>t, <1>a DEF TakeSnapshot, RequestState, DecideAt
    <3> QED
      BY <1>3, <3>1, <3>2, <3>3
  <2> QED
    BY <2>2, <2>3, <2>4
<1>5. CASE Decide(p)
  BY <1>5, <1>t, DecideKeepsRows, ReturnFits DEF Decide
<1>6. CASE Withdraw(p)
  <2>1. req[p].rev \in Review
    BY <1>6, <1>t DEF Withdraw, HandlerHolds, DecideAt, ReviewAt
  <2>2. /\ review' = [review EXCEPT ![req[p].rev].status = "withdrawn"]
        /\ vstatus' = [vstatus EXCEPT ![review[req[p].rev].cand] = "draft"]
        /\ "withdrawn" \in ReviewStatus /\ "withdrawn" \notin Open
        /\ UNCHANGED <<decision, run, vcontent>>
    BY <1>6 DEF Withdraw, TransitionVersion, ToStatus, ReviewStatus, Open
  <2>3. IsOpen(req[p].rev) /\ Return(p)
    BY <1>6 DEF Withdraw
  <2> QED
    BY <1>t, <2>1, <2>2, <2>3, StatusKeepsRows, ReturnFits
<1> QED
  BY <1>1, <1>2, <1>3, <1>5, <1>6, SyncFits DEF ReviewStep

\* A draft is inserted under a number no version has, and edited while no request is
\* being handled.
LEMMA DraftFitsOn ==
    ASSUME SerialInv, NEW p \in Request, Alone(p), DraftStep(p)
    PROVE  RowsFit' /\ HandlersFit'
PROOF
<1>t. /\ IInv /\ DecisionsMatchVersions /\ RowsFit
      /\ req \in [Request -> RequestState] /\ req[p] \in RequestState
      /\ req' \in [Request -> RequestState]
      /\ vstatus \in [Version -> VersionStatus]
      /\ vcontent \in [Version -> Content \cup {NoContent}]
      /\ p \in Request /\ HandlerHolds(req[p]) /\ Fits(req[p])
  BY DraftTypes DEF SerialInv, HandlersFit, IInv, RowsTypeOK, VersionTypeOK, HandlersHold
<1>a. PICK s \in RequestState : s = req'[p]
  BY <1>t
<1>b. ASSUME UNCHANGED <<review, decision, run>>, FrozenKept
      PROVE  RowsFit'
  BY <1>b, <1>t, FrameKeepsRows DEF RunsKept
<1>c. UNCHANGED <<vstatus, vcontent>> => FrozenKept
  BY DEF FrozenKept
<1>1. ASSUME s.at \in DraftAt, req' = [req EXCEPT ![p] = s]
      PROVE  HandlersFit'
  <2>1. Fits(s)'
    BY <1>1 DEF Fits, CreateFits, OperationFits, CreateAt, DecideAt, DraftAt
  <2> QED
    BY <1>1, <1>t, <2>1, HandlerAt
<1>2. ASSUME NEW b \in Version, CreateDraft(p, b)
      PROVE  RowsFit' /\ HandlersFit'
  <2>1. req' = [req EXCEPT ![p] = s] /\ s.at = "draftMax"
    BY <1>2, <1>t, <1>a DEF CreateDraft, Idle
  <2> QED
    BY <1>b, <1>c, <1>1, <1>2, <2>1 DEF CreateDraft, versionVars, reviewVars, DraftAt
<1>3. CASE ReadHighest(p)
  <2>1. Return(p) \/ (req' = [req EXCEPT ![p] = s] /\ s.at = "draftInsert")
    BY <1>3, <1>t, <1>a DEF ReadHighest, RequestState
  <2> QED
    BY <1>b, <1>c, <1>1, <1>3, <1>t, <2>1, ReturnFits
    DEF ReadHighest, versionVars, reviewVars, DraftAt
<1>4. CASE InsertDraftVersion(p)
  <2>1. FrozenKept
    BY <1>4, <1>t DEF InsertDraftVersion, InsertDraft, Exists, versionVars, FrozenKept
  <2> QED
    BY <1>b, <1>4, <1>t, <2>1, ReturnFits DEF InsertDraftVersion, reviewVars
<1>5. ASSUME NEW v \in Version, NEW c \in Content, UpdateDraft(p, v, c)
      PROVE  RowsFit' /\ HandlersFit'
  <2>1. FrozenKept
    BY <1>5, <1>t DEF UpdateDraft, UpdateDraftDocument, FrozenKept
  <2>2. req[p].at = "idle" /\ req' = [req EXCEPT ![p] = req[p]]
    BY <1>5, <1>t DEF UpdateDraft
  <2>3. PICK x : x = req[p]
    OBVIOUS
  <2>4. Fits(x)'
    BY <2>2, <2>3 DEF Fits, CreateFits, OperationFits, CreateAt, DecideAt
  <2> QED
    BY <1>b, <1>5, <1>t, <2>1, <2>2, <2>3, <2>4, HandlerAt DEF UpdateDraft, reviewVars
<1> QED
  BY <1>2, <1>3, <1>4, <1>5 DEF DraftStep

\* The worker moves a run that is there already, whatever the handlers are doing.
LEMMA WorkerFits ==
    ASSUME SerialInv, NEW n \in Run, RunStep(n)
    PROVE  RowsFit' /\ HandlersFit'
PROOF
<1>t. IInv /\ DecisionsMatchVersions /\ RowsFit /\ run \in [Run -> RunRow]
  BY DEF SerialInv, IInv, RowsTypeOK
<1>1. UNCHANGED <<vstatus, vcontent, review, verdict, decision, req>>
  BY DEF RunStep, StartRun, CompleteRun, FailRun, versionVars, reviewVars
<1>2. RunsKept
  <2>1. \A m \in Run : /\ run'[m].baseHash = run[m].baseHash
                       /\ run'[m].candHash = run[m].candHash
                       /\ run'[m].status \in RunStatus \cup {run[m].status}
    BY <1>t DEF RunStep, StartRun, CompleteRun, FailRun, RunRow, RunStatus
  <2> QED
    BY <2>1 DEF RunsKept, RunStatus
<1>3. RowsFit'
  BY <1>t, <1>1, <1>2, FrameKeepsRows DEF FrozenKept
<1>4. ASSUME NEW p \in Request
      PROVE  Fits(req[p])'
  <2>t. Fits(req[p])
    BY DEF SerialInv, HandlersFit
  <2>1. CreateFits(req[p])'
    BY <2>t, <1>1, <1>2 DEF Fits, CreateFits, CreateAt, NoneOpen, IsOpen, RunsKept
  <2>2. OperationFits(req[p])'
    BY <2>t, <1>1 DEF Fits, OperationFits, IsOpen
  <2> QED
    BY <2>1, <2>2 DEF Fits
<1> QED
  BY <1>3, <1>4 DEF HandlersFit

LEMMA InitFits ==
    ASSUME Init
    PROVE  RowsFit /\ HandlersFit
PROOF
<1>1. \A r \in Review : ~IsOpen(r) /\ ~Decided(r) /\ ~ReviewExists(r)
  BY DEF Init, NoReview, NoDecision, IsOpen, Open, Decided, ReviewExists
<1>2. RowsFit
  BY <1>1
  DEF RowsFit, AtMostOneOpenReview, CandidatesAreHeld, ContentIsPinned,
      ReviewsHaveRun, Decided
<1>3. \A p \in Request : Fits(req[p])
  BY DEF Init, Idle, Fits, CreateFits, OperationFits, CreateAt, DecideAt
<1> QED
  BY <1>2, <1>3 DEF HandlersFit

\* As long as no two requests have overlapped, who steps is alone.
LEMMA NextFits ==
    ASSUME SerialInv, [Next]_vars, ~overlapped'
    PROVE  RowsFit' /\ HandlersFit'
PROOF
<1>t. /\ IInv /\ DecisionsMatchVersions /\ RowsFit /\ HandlersFit
      /\ req \in [Request -> RequestState]
  BY DEF SerialInv, IInv, RowsTypeOK
<1>1. CASE UNCHANGED vars
  <2>1. RowsFit'
    BY <1>1, <1>t, FrameKeepsRows DEF vars, RunsKept, FrozenKept
  <2>2. HandlersFit'
    BY <1>1, <1>t
    DEF vars, HandlersFit, Fits, CreateFits, OperationFits, NoneOpen, IsOpen
  <2> QED
    BY <2>1, <2>2
<1>2. ASSUME NEW p \in Request, Meets(p),
             CreateStep(p) \/ ReviewStep(p) \/ DraftStep(p) \/ Abort(p)
      PROVE  RowsFit' /\ HandlersFit'
  <2>1. Alone(p)
    BY <1>2 DEF Meets, Alone
  <2>2. CASE Abort(p)
    <3>1. RowsFit'
      BY <2>2, <1>t, FrameKeepsRows DEF Abort, versionVars, reviewVars, RunsKept, FrozenKept
    <3> QED
      BY <2>1, <2>2, <1>t, <3>1, ReturnFits DEF Abort
  <2> QED
    BY <1>2, <2>1, <2>2, CreateFitsOn, OperationFitsOn, DraftFitsOn
<1> QED
  BY <1>1, <1>2, WorkerFits DEF Next, RunStep

\* Until two requests overlap, whatever the replay worker does meanwhile, and wherever
\* a handler ends half way.
LEMMA AlwaysFits == Spec => [](~overlapped => RowsFit)
PROOF
<1> DEFINE Inv == ~overlapped => RowsFit /\ HandlersFit
<1>1. Init => Inv
  BY InitFits
<1>2. IInv /\ DecisionsMatchVersions /\ Inv /\ [Next]_vars => Inv'
  <2> SUFFICES ASSUME IInv, DecisionsMatchVersions, Inv, [Next]_vars, ~overlapped'
               PROVE  RowsFit' /\ HandlersFit'
    OBVIOUS
  <2>1. ~overlapped
    BY DEF Next, Meets, vars
  <2> QED
    BY <2>1, NextFits DEF SerialInv
<1>3. Inv => (~overlapped => RowsFit)
  OBVIOUS
<1> HIDE DEF Inv
<1> QED
  BY <1>1, <1>2, <1>3, InitIInv, NextIInv, DecisionsAndVersionsAgree, PTL DEF Spec

\* Until two requests overlap, the version under review is frozen and is the one that
\* was replayed (createChangeReview, failReview, withdrawReview).
THEOREM CandidateIsFrozen == Spec => []OpenReviewHoldsCandidate
PROOF
<1>1. (~overlapped => RowsFit) => OpenReviewHoldsCandidate
  BY DEF RowsFit, OpenReviewHoldsCandidate
<1> QED
  BY <1>1, AlwaysFits, PTL

\* Until two requests overlap, the content hash a decision records stays that of the
\* version and of the replay (packages/review/schema.ts:98).
THEOREM DecisionStaysPinned == Spec => []DecisionPinsContent
PROOF
<1>1. (~overlapped => RowsFit) => DecisionPinsContent
  BY DEF RowsFit, DecisionPinsContent
<1> QED
  BY <1>1, AlwaysFits, PTL
=============================================================================
