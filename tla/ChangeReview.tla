---------------------------- MODULE ChangeReview ----------------------------
(***************************************************************************)
(* The change reviews of packages/review over the versions of one Policy.  *)
(*                                                                         *)
(* A request is a process: the server is asynchronous, so between two      *)
(* awaits of a handler any other handler may run. Every action of a        *)
(* request is the code from one await to the next, ending in one statement *)
(* or one transaction on PostgreSQL, and req[p] holds what the handler has *)
(* read so far. A transaction is one step: those of the review store take  *)
(* their row locks by conditional updates, so they commit as a whole or    *)
(* leave nothing behind.                                                   *)
(*                                                                         *)
(* A handler that only reads and returns an error or a view changes        *)
(* nothing, and is left out. Replay runs are kept to what reviews see of   *)
(* them: their inputs, their status and, for the completions and failures  *)
(* that come late, whether a worker is still at them. ReplayRuns has what  *)
(* requests, queue and workers do for that.                                *)
(***************************************************************************)
EXTENDS PolicyVersions

CONSTANTS
    Request,       \* concurrent requests the server may be handling
    Review,        \* change review ids; how many there are is a bound
    Run,           \* replay run ids; how many there are is a bound
    Group,         \* group keys of replay results
    ReplayGroups,  \* <<baseline content or NoContent, candidate content>> ->
                   \*   the group keys of the replay of those two
    Widening,      \* the group keys whose direction is widening
    Verdict,       \* the verdicts a reviewer may record, "expected" one of them
    None           \* stands for null

ASSUME ReviewAssumption ==
    /\ ReplayGroups \in
         [(Content \cup {NoContent}) \X Content -> SUBSET Group]
    /\ Widening \subseteq Group
    /\ "expected" \in Verdict
    /\ None \notin Review \cup Run \cup Verdict
    /\ IsFiniteSet(Review)

VARIABLES
    review,        \* change_reviews, by id
    verdict,       \* review_verdicts, by review and group
    decision,      \* review_decisions, by review: its primary key
    run,           \* replay_runs, by id
    req,           \* the requests being handled
    overlapped     \* history: a request was handled while another was under way

reviewVars == <<review, verdict, decision>>
vars == <<vstatus, vcontent, review, verdict, decision, run, req, overlapped>>

-----------------------------------------------------------------------------
(* Records *)

Open == {"computing", "ready"}
ReviewStatus == Open \cup {"accepted", "rejected", "failed", "withdrawn"}
RunStatus == {"queued", "running", "completed", "failed"}
Outcome == {"accept", "reject"}
Operation == {"get", "verdict", "accept", "reject", "withdraw"}
Snapshot == [Group -> Verdict \cup {None}]
NoSnapshot == [g \in Group |-> None]

ReviewRow ==
    [status : ReviewStatus \cup {"absent"}, cand : Version \cup {NoVersion},
     candHash : Content \cup {NoContent}, base : Version \cup {NoVersion},
     run : Run \cup {None}]

NoReview ==
    [status |-> "absent", cand |-> NoVersion, candHash |-> NoContent,
     base |-> NoVersion, run |-> None]

\* A row of replay_runs, and whether a worker is computing its result.
RunRow ==
    [status : RunStatus \cup {"absent"}, cand : Version \cup {NoVersion},
     candHash : Content \cup {NoContent}, baseHash : Content \cup {NoContent},
     computing : BOOLEAN]

NoRun ==
    [status |-> "absent", cand |-> NoVersion, candHash |-> NoContent,
     baseHash |-> NoContent, computing |-> FALSE]

\* A row of review_decisions; "seq" is its bigserial sequence.
DecisionRow ==
    [outcome : Outcome \cup {"none"}, seq : Nat,
     candHash : Content \cup {NoContent}, snapshot : Snapshot]

NoDecision ==
    [outcome |-> "none", seq |-> 0, candHash |-> NoContent,
     snapshot |-> NoSnapshot]

Step ==
    {"idle", "findOpen", "baseline", "submit", "replay", "insert",
     "sync", "markReady", "failReview", "upsert", "readRun", "gate",
     "snapshot", "decide", "withdraw",
     "draftMax", "draftInsert"}

\* What a handler holds: the review of an operation (rev) and the verdicts it
\* listed; or the candidate a create read (ver, vst, hash), its baseline and its
\* run, which was complete (rready) if it was reused.
RequestState ==
    [at : Step, op : Operation \cup {"create", "draft", "none"},
     rev : Review \cup {None},
     ver : Version \cup {NoVersion}, vst : VersionStatus,
     hash : Content \cup {NoContent}, base : Version \cup {NoVersion},
     run : Run \cup {None}, rready : BOOLEAN, snapshot : Snapshot]

Idle ==
    [at |-> "idle", op |-> "none", rev |-> None,
     ver |-> NoVersion, vst |-> "absent", hash |-> NoContent,
     base |-> NoVersion, run |-> None, rready |-> FALSE,
     snapshot |-> NoSnapshot]

RowsTypeOK ==
    /\ VersionTypeOK
    /\ review \in [Review -> ReviewRow]
    /\ verdict \in [Review -> Snapshot]
    /\ decision \in [Review -> DecisionRow]
    /\ run \in [Run -> RunRow]
    /\ req \in [Request -> RequestState]

TypeOK == RowsTypeOK /\ overlapped \in BOOLEAN

Init ==
    /\ VersionInit
    /\ review = [r \in Review |-> NoReview]
    /\ verdict = [r \in Review |-> NoSnapshot]
    /\ decision = [r \in Review |-> NoDecision]
    /\ run = [n \in Run |-> NoRun]
    /\ req = [p \in Request |-> Idle]
    /\ overlapped = FALSE

-----------------------------------------------------------------------------
(* What the rows say *)

ReviewExists(r) == review[r].status # "absent"
IsOpen(r) == review[r].status \in Open
Decided(r) == decision[r].outcome # "none"

ContentOf(v) == IF v = NoVersion THEN NoContent ELSE vcontent[v]

GroupsOf(n) == ReplayGroups[<<run[n].baseHash, run[n].candHash>>]

\* The groups a kind puts under review: the Widening groups of a change review,
\* every group of an adoption review, which has no baseline.
GroupsUnderReview(r) ==
    IF review[r].base = NoVersion
    THEN GroupsOf(review[r].run)
    ELSE GroupsOf(review[r].run) \cap Widening

\* computeGate of a completed replay: only "expected" passes.
GateOpen(r) == \A g \in GroupsUnderReview(r) : verdict[r][g] = "expected"

\* The request goes on at s, or it returns.
Goto(p, s) == req' = [req EXCEPT ![p].at = s]
Return(p) == req' = [req EXCEPT ![p] = Idle]

-----------------------------------------------------------------------------
(* createChangeReview *)

\* getVersion: only a draft or a version in review may become a candidate. The
\* id is the generator's, so no other row and no other request has it.
CreateReview(p, r, v) ==
    /\ req[p].at = "idle"
    /\ ~ReviewExists(r)
    /\ \A q \in Request : req[q].rev # r
    /\ vstatus[v] \in {"draft", "in_review"}
    /\ req' = [req EXCEPT ![p] = [Idle EXCEPT
                 !.at = "findOpen", !.op = "create", !.rev = r,
                 !.ver = v, !.vst = vstatus[v], !.hash = vcontent[v]]]
    /\ UNCHANGED <<versionVars, reviewVars, run>>

FindOpenReview(p) ==
    /\ req[p].at = "findOpen"
    /\ IF \E r \in Review : IsOpen(r)
       THEN Return(p)                          \* review.open_review_exists
       ELSE Goto(p, "baseline")
    /\ UNCHANGED <<versionVars, reviewVars, run>>

ReadBaseline(p) ==
    /\ req[p].at = "baseline"
    /\ req' = [req EXCEPT
                 ![p].base = Baseline,
                 ![p].at = IF req[p].vst = "draft" THEN "submit" ELSE "replay"]
    /\ UNCHANGED <<versionVars, reviewVars, run>>

SubmitForReview(p) ==
    /\ req[p].at = "submit"
    /\ IF CanTransition(req[p].ver, "submit")
       THEN TransitionVersion(req[p].ver, "submit") /\ Goto(p, "replay")
       ELSE Return(p) /\ UNCHANGED versionVars
    /\ UNCHANGED <<reviewVars, run>>

\* inputsHash: the content hashes of the two versions. The window, the classifier
\* version and the recorded actions, which it covers too, are fixed here.
\* Mutant of SameInputs: the candidate is left out of the hash.
SameBaseline(n, baseHash, candHash) == run[n].baseHash = baseHash

SameInputs(n, baseHash, candHash) ==
    run[n].baseHash = baseHash /\ run[n].candHash = candHash

\* requestReplay and requestAdoptionReplay read both versions again. A completed
\* run of the same inputs is reused; otherwise a run is queued. The request may
\* be refused (replay.classifier_version_mismatch): the candidate stays where
\* submit put it. The awaits within are left to ReplayRuns, where the reads of the
\* inputs, the search and the insert of a run are steps of their own.
RequestReplay(p) ==
    LET candHash == vcontent[req[p].ver]
        baseHash == ContentOf(req[p].base)
        Reusable == {n \in Run : /\ run[n].status = "completed"
                                /\ SameInputs(n, baseHash, candHash)}
    IN
    /\ req[p].at = "replay"
    /\ \/ \E n \in Reusable :
            /\ req' = [req EXCEPT ![p].at = "insert", ![p].run = n,
                                  ![p].rready = TRUE]
            /\ UNCHANGED run
       \/ /\ Reusable = {}
          /\ \E n \in Run :
               /\ run[n].status = "absent"
               /\ run' = [run EXCEPT ![n] =
                            [status |-> "queued", cand |-> req[p].ver,
                             candHash |-> candHash, baseHash |-> baseHash,
                             computing |-> FALSE]]
               /\ req' = [req EXCEPT ![p].at = "insert", ![p].run = n]
       \/ Return(p) /\ UNCHANGED run
    /\ UNCHANGED <<versionVars, reviewVars>>

\* insertChangeReview, with the content hash read first of all.
InsertReview(p) ==
    /\ req[p].at = "insert"
    /\ review' = [review EXCEPT ![req[p].rev] =
                    [status |-> IF req[p].rready THEN "ready" ELSE "computing",
                     cand |-> req[p].ver, candHash |-> req[p].hash,
                     base |-> req[p].base, run |-> req[p].run]]
    /\ Return(p)
    /\ UNCHANGED <<versionVars, verdict, decision, run>>

-----------------------------------------------------------------------------
(* Operations on a review: getChangeReview and listChangeReviews ("get"),   *)
(* recordVerdict, decide and withdraw. Each reads the review, lets          *)
(* syncStatus catch it up with its run, and goes on with the status it has  *)
(* in hand.                                                                 *)

\* Where an operation goes on when its copy of the review has status s.
AfterSync(op, s) ==
    CASE op = "verdict" /\ s = "ready" -> "upsert"
      [] op \in Outcome /\ s = "ready" -> "readRun"
      [] op = "withdraw" /\ s \in Open -> "withdraw"
      [] OTHER -> "idle"

\* The request, on its way to the step after syncStatus.
Synced(p, op, r, s) ==
    IF AfterSync(op, s) = "idle" THEN Idle
    ELSE [Idle EXCEPT !.at = AfterSync(op, s), !.op = op, !.rev = r]

ReadReview(p, op, r) ==
    /\ req[p].at = "idle"
    /\ ReviewExists(r)
    /\ req' = [req EXCEPT ![p] =
                 IF review[r].status = "computing"
                 THEN [Idle EXCEPT !.at = "sync", !.op = op, !.rev = r]
                 ELSE Synced(p, op, r, review[r].status)]
    /\ UNCHANGED <<versionVars, reviewVars, run>>

\* syncStatus, of a review that was read as computing: it reads the run, and only
\* then writes the review.
SyncStatus(p) ==
    LET runStatus == run[review[req[p].rev].run].status IN
    /\ req[p].at = "sync"
    /\ CASE runStatus = "completed" -> Goto(p, "markReady")
         [] runStatus = "failed" -> Goto(p, "failReview")
         [] OTHER -> req' = [req EXCEPT ![p] =
                       Synced(p, req[p].op, req[p].rev, "computing")]
    /\ UNCHANGED <<versionVars, reviewVars, run>>

\* updateStatus(id, 'ready') has no condition on the status it replaces.
MarkReady(p) ==
    LET r == req[p].rev IN
    /\ req[p].at = "markReady"
    /\ review' = [review EXCEPT ![r].status = "ready"]
    /\ req' = [req EXCEPT ![p] = Synced(p, req[p].op, r, "ready")]
    /\ UNCHANGED <<versionVars, verdict, decision, run>>

\* failReview: guarded by the status, it takes the candidate back to draft; a
\* candidate that is not in review is left alone. No operation goes on with a
\* review that failed.
FailReview(p) ==
    LET r == req[p].rev IN
    /\ req[p].at = "failReview"
    /\ IF review[r].status = "computing"
       THEN /\ review' = [review EXCEPT ![r].status = "failed"]
            /\ IF CanTransition(review[r].cand, "withdraw")
               THEN TransitionVersion(review[r].cand, "withdraw")
               ELSE UNCHANGED versionVars
       ELSE UNCHANGED <<review, versionVars>>
    /\ Return(p)
    /\ UNCHANGED <<verdict, decision, run>>

\* recordVerdict, on any group of the review's replay.
UpsertVerdict(p) ==
    LET r == req[p].rev IN
    /\ req[p].at = "upsert"
    /\ \E g \in GroupsOf(review[r].run), x \in Verdict :
         verdict' = [verdict EXCEPT ![r][g] = x]
    /\ Return(p)
    /\ UNCHANGED <<versionVars, review, decision, run>>

\* recordVerdict on a group the replay does not have: review.group_not_found.
UpsertRefused(p) ==
    /\ req[p].at = "upsert"
    /\ Return(p)
    /\ UNCHANGED <<versionVars, reviewVars, run>>

\* decide reads the run, which must be completed still; only an accept asks the
\* gate.
ReadRun(p) ==
    /\ req[p].at = "readRun"
    /\ IF run[review[req[p].rev].run].status = "completed"
       THEN Goto(p, IF req[p].op = "accept" THEN "gate" ELSE "snapshot")
       ELSE Return(p)
    /\ UNCHANGED <<versionVars, reviewVars, run>>

CheckGate(p) ==
    /\ req[p].at = "gate"
    /\ IF GateOpen(req[p].rev) THEN Goto(p, "snapshot") ELSE Return(p)
    /\ UNCHANGED <<versionVars, reviewVars, run>>

\* listVerdicts, a second read of the verdicts.
TakeSnapshot(p) ==
    /\ req[p].at = "snapshot"
    /\ req' = [req EXCEPT ![p].at = "decide",
                          ![p].snapshot = verdict[req[p].rev]]
    /\ UNCHANGED <<versionVars, reviewVars, run>>

NextSequence == 1 + Cardinality({r \in Review : Decided(r)})

\* Mutant of Decide: a refused transition of the candidate does not roll back.
DecideAnyway(p) ==
    LET r == req[p].rev
        o == req[p].op
    IN
    /\ req[p].at = "decide"
    /\ ~Decided(r)
    /\ IF CanTransition(review[r].cand, o)
       THEN TransitionVersion(review[r].cand, o)
       ELSE UNCHANGED versionVars
    /\ decision' = [decision EXCEPT ![r] =
                      [outcome |-> o, seq |-> NextSequence,
                       candHash |-> review[r].candHash,
                       snapshot |-> req[p].snapshot]]
    /\ review' = [review EXCEPT ![r].status = ToStatus(o)]
    /\ Return(p)
    /\ UNCHANGED <<verdict, run>>

\* store.decide, one transaction: the candidate's transition, the decision (its
\* primary key is the review), and the review's status, whatever it was.
Decide(p) ==
    LET r == req[p].rev
        o == req[p].op
    IN
    /\ req[p].at = "decide"
    /\ CanTransition(review[r].cand, o)
    /\ ~Decided(r)
    /\ TransitionVersion(review[r].cand, o)
    /\ decision' = [decision EXCEPT ![r] =
                      [outcome |-> o, seq |-> NextSequence,
                       candHash |-> review[r].candHash,
                       snapshot |-> req[p].snapshot]]
    /\ review' = [review EXCEPT ![r].status = ToStatus(o)]
    /\ Return(p)
    /\ UNCHANGED <<verdict, run>>

\* store.decide rolled back: it answers internal and nothing changes.
DecideRefused(p) ==
    LET r == req[p].rev IN
    /\ req[p].at = "decide"
    /\ ~CanTransition(review[r].cand, req[p].op) \/ Decided(r)
    /\ Return(p)
    /\ UNCHANGED <<versionVars, reviewVars, run>>

\* withdrawReview, one transaction: the review, guarded by its status, and the
\* candidate's transition.
Withdraw(p) ==
    LET r == req[p].rev IN
    /\ req[p].at = "withdraw"
    /\ IsOpen(r)
    /\ CanTransition(review[r].cand, "withdraw")
    /\ review' = [review EXCEPT ![r].status = "withdrawn"]
    /\ TransitionVersion(review[r].cand, "withdraw")
    /\ Return(p)
    /\ UNCHANGED <<verdict, decision, run>>

\* withdrawReview found the review closed, or rolled back on its invariant.
WithdrawRefused(p) ==
    LET r == req[p].rev IN
    /\ req[p].at = "withdraw"
    /\ ~IsOpen(r) \/ ~CanTransition(review[r].cand, "withdraw")
    /\ Return(p)
    /\ UNCHANGED <<versionVars, reviewVars, run>>

-----------------------------------------------------------------------------
(* Drafts. createDraftVersion reads without locks, so its check for a draft, *)
(* its read of the highest number and its insert are three steps.            *)

\* The base document, upgraded, and the check for an open draft.
CreateDraft(p, b) ==
    /\ req[p].at = "idle"
    /\ Exists(b)
    /\ NoOpenDraft
    /\ req' = [req EXCEPT ![p] = [Idle EXCEPT
                 !.at = "draftMax", !.op = "draft",
                 !.hash = Upgraded[vcontent[b]]]]
    /\ UNCHANGED <<versionVars, reviewVars, run>>

\* Bound: at MaxVersion versions the request goes no further.
ReadHighest(p) ==
    /\ req[p].at = "draftMax"
    /\ IF HighestNumber < MaxVersion
       THEN req' = [req EXCEPT ![p].at = "draftInsert",
                               ![p].ver = HighestNumber + 1]
       ELSE Return(p)
    /\ UNCHANGED <<versionVars, reviewVars, run>>

InsertDraftVersion(p) ==
    /\ req[p].at = "draftInsert"
    /\ IF ~Exists(req[p].ver)
       THEN InsertDraft(req[p].ver, req[p].hash)
       ELSE UNCHANGED versionVars              \* unique violation: internal
    /\ Return(p)
    /\ UNCHANGED <<reviewVars, run>>

\* PATCH of a draft, one statement: nothing lies between its check and its write.
UpdateDraft(p, v, c) ==
    /\ req[p].at = "idle"
    /\ c # vcontent[v]
    /\ UpdateDraftDocument(v, vcontent[v], c)
    /\ UNCHANGED <<reviewVars, run, req>>

-----------------------------------------------------------------------------
(* The replay worker, and requests that end half way *)

\* runReplay plans the run again from the documents as they are now, and claims it
\* if it is still queued. A candidate edited since fails it instead.
StartRun(n) ==
    /\ run[n].status = "queued"
    /\ vcontent[run[n].cand] = run[n].candHash
    /\ run' = [run EXCEPT ![n].status = "running", ![n].computing = TRUE]
    /\ UNCHANGED <<versionVars, reviewVars, req>>

\* recordCompletion has no condition on the status: a run that recovery failed is
\* completed all the same when its worker gets there.
CompleteRun(n) ==
    /\ run[n].computing
    /\ run' = [run EXCEPT ![n].status = "completed", ![n].computing = FALSE]
    /\ UNCHANGED <<versionVars, reviewVars, req>>

\* A run is failed: when it is queued and its plan fails (replay.inputs_changed),
\* when its computation throws, when recovery finds it late, and, written by its id
\* alone, when another delivery's claim throws, whatever its status is. A worker
\* that dies is one that never completes its run.
FailRun(n) ==
    /\ run[n].status \in {"queued", "running", "completed"}
    /\ run' = [run EXCEPT ![n].status = "failed"]
    /\ UNCHANGED <<versionVars, reviewVars, req>>

\* An exception at an await, or the end of the server process.
Abort(p) ==
    /\ req[p].at # "idle"
    /\ Return(p)
    /\ UNCHANGED <<versionVars, reviewVars, run>>

-----------------------------------------------------------------------------

CreateStep(p) ==
    \/ \E r \in Review, v \in Version : CreateReview(p, r, v)
    \/ FindOpenReview(p)
    \/ ReadBaseline(p)
    \/ SubmitForReview(p)
    \/ RequestReplay(p)
    \/ InsertReview(p)

ReviewStep(p) ==
    \/ \E op \in Operation, r \in Review : ReadReview(p, op, r)
    \/ SyncStatus(p)
    \/ MarkReady(p)
    \/ FailReview(p)
    \/ UpsertVerdict(p)
    \/ UpsertRefused(p)
    \/ ReadRun(p)
    \/ CheckGate(p)
    \/ TakeSnapshot(p)
    \/ Decide(p)
    \/ DecideRefused(p)
    \/ Withdraw(p)
    \/ WithdrawRefused(p)

DraftStep(p) ==
    \/ \E b \in Version : CreateDraft(p, b)
    \/ ReadHighest(p)
    \/ InsertDraftVersion(p)
    \/ \E v \in Version, c \in Content : UpdateDraft(p, v, c)

\* A step of p while another request is under way.
Meets(p) ==
    overlapped' = IF \E q \in Request \ {p} : req[q].at # "idle" THEN TRUE ELSE overlapped

Next ==
    \/ \E p \in Request :
         /\ CreateStep(p) \/ ReviewStep(p) \/ DraftStep(p) \/ Abort(p)
         /\ Meets(p)
    \/ \E n \in Run :
         /\ StartRun(n) \/ CompleteRun(n) \/ FailRun(n)
         /\ UNCHANGED overlapped

Spec == Init /\ [][Next]_vars

-----------------------------------------------------------------------------
(* What holds whatever the requests do *)

\* review_decisions read as the ledger of the abstract specification.
Ledger ==
    {[id |-> r, version |-> review[r].cand, outcome |-> decision[r].outcome] :
        r \in {s \in Review : Decided(s)}}

Lifecycle == INSTANCE PolicyLifecycle WITH
    DecisionId <- Review, stage <- vstatus, document <- vcontent, ledger <- Ledger

\* The versions and the decisions of the two packages implement PolicyLifecycle:
\* however requests interleave or end half way, a version is edited only as a
\* draft and is decided once, in the transaction that moves it.
ImplementsLifecycle == Lifecycle!Spec

\* The audit log and the version table never disagree: a version is accepted
\* (rejected) exactly when one decision accepts (rejects) it (store.decide).
DecisionsMatchVersions ==
    /\ \A r \in Review : Decided(r) =>
         /\ ReviewExists(r)
         /\ vstatus[review[r].cand] = ToStatus(decision[r].outcome)
    /\ \A v \in Version : vstatus[v] \in {"accepted", "rejected"} =>
         \E r \in Review : Decided(r) /\ review[r].cand = v
    /\ \A r, s \in Review :
         Decided(r) /\ Decided(s) /\ review[r].cand = review[s].cand => r = s

-----------------------------------------------------------------------------
(* What holds as long as no two requests overlap, beside runs that are       *)
(* completed and failed late and requests that end half way. After that, an  *)
(* edit between createChangeReview's first read and its submit breaks both   *)
(* (packages/review/lib/app/module.ts:517, :541, :566).                      *)

CandidatesAreHeld ==
    \A r \in Review : IsOpen(r) =>
        /\ vstatus[review[r].cand] = "in_review"
        /\ vcontent[review[r].cand] = review[r].candHash
        /\ run[review[r].run].candHash = review[r].candHash

\* The version of an open review is frozen, and it is the version that was
\* replayed: its content is the one the review and its run recorded, whatever runs
\* do late and wherever requests end half way (createChangeReview, failReview).
OpenReviewHoldsCandidate == ~overlapped => CandidatesAreHeld

ContentIsPinned ==
    \A r \in Review : Decided(r) =>
        /\ decision[r].candHash = vcontent[review[r].cand]
        /\ decision[r].candHash = run[review[r].run].candHash

\* The content hash of a decision is that of the version decided and of the
\* replay the verdicts were given on: "the hashes pin the exact replay inputs and
\* result a reviewer saw" (packages/review/schema.ts:98).
DecisionPinsContent == ~overlapped => ContentIsPinned

-----------------------------------------------------------------------------
(* What the documents say, and two creates at once break                     *)

\* "1 open review per Policy regardless of kind" (docs/cutline.md:240). Two creates
\* may both find none (packages/review/lib/app/module.ts:527).
AtMostOneOpenReview ==
    \A r, s \in Review : IsOpen(r) /\ IsOpen(s) => r = s

=============================================================================
