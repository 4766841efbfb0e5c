---------------------------- MODULE ReviewQueries ----------------------------
(***************************************************************************)
(* What a client is answered while others write: the pages of reviews and  *)
(* of their groups, the Evidence Report, the authority map, and the        *)
(* findings of the newest conformance run with the acts on one of them     *)
(* (packages/review: app/module.ts, review-store.ts; packages/replay:      *)
(* app/module.ts, replay-store.ts).                                        *)
(*                                                                         *)
(* A query is broken at its awaits. The writers beside it are the          *)
(* statements and transactions of the stores, made whenever their own      *)
(* conditions let them: which handler makes them is ChangeReview's         *)
(* concern. Review, version and replay run of one request have one name.   *)
(*                                                                         *)
(* Of a report, what one read alone tells is left out: the trace sources,  *)
(* the baseline's hash and the newest conformance run.                     *)
(***************************************************************************)
EXTENDS Integers, FiniteSets, SequencesExt

CONSTANTS
    Review,
    GroupsOf,      \* the groups of a review's replay, in the order both queries give them:
                   \* of a change by their keys, of an adoption by their position
    KindOf,        \* "change" or "adoption"
    Verdict,
    Filters,       \* the Verdicts asked for, None for all groups
    Limit,         \* groups or reviews to a page
    MaxGiven,      \* bound on the groups that have a Verdict
    FindingsOf,    \* the conformance runs and the keys of their findings
    None

ASSUME QueriesAssumption ==
    /\ Limit \in Nat \ {0}
    /\ KindOf \in [Review -> {"change", "adoption"}]
    /\ \A r \in Review :
          /\ GroupsOf[r] \in Seq(Nat) /\ IsInjective(GroupsOf[r])
          /\ KindOf[r] = "change" =>
                \A i, j \in DOMAIN GroupsOf[r] : i < j => GroupsOf[r][i] < GroupsOf[r][j]
    /\ None \notin Nat \cup Review \cup DOMAIN FindingsOf \cup {"ready", "accepted", "rejected"}

VARIABLES
    created,       \* change_reviews in the order of created_at
    status,        \* change_reviews.status
    vstatus,       \* the status of the candidate
    completed,     \* version_diff and adoption runs in the order of completed_at
    failed,        \* runs that failed
    verdict,       \* review_verdicts
    decisions,     \* review_decisions in the order of their sequence
    conformance,   \* completed conformance runs in the order of completed_at
    acknowledged,  \* the findings that are acknowledged, each of its run
    client         \* the query under way

findings == <<conformance, acknowledged>>
store == <<created, status, vstatus, completed, failed, verdict, decisions, findings>>
queryVars == <<created, status, vstatus, completed, failed, verdict, decisions, findings, client>>

IsOpen(r) == status[r] \in {"computing", "ready"}
IsCompleted(r) == r \in ToSet(completed)
DecisionOf(r) == SelectInSeq(decisions, LAMBDA d : d.review = r)

\* Where x stands in a sequence, 0 for nowhere.
Place(seq, x) == SelectInSeq(seq, LAMBDA y : y = x)

-----------------------------------------------------------------------------
(* Pages: the groups of one answer, whose order is that of GroupsOf         *)

\* The first of the groups that are still to come, and the next cursor.
PageOf(order, later) ==
    LET places == {i \in DOMAIN order : order[i] \in later}
        first == {i \in places : Cardinality({j \in places : j < i}) < Limit}
    IN [items |-> {order[i] : i \in first},
        next |-> IF first = places THEN None ELSE order[Max(first)]]

\* Of Diff Groups a page goes on with the keys above the cursor.
DiffPage(order, cursor, matching) ==
    PageOf(order, {k \in matching : cursor = None \/ k > cursor})

\* A mutant: the cursor is looked for among the groups that match.
AdoptionPageOfMatches(order, groups, cursor, matching) ==
    PageOf(order, {k \in matching :
                       \/ cursor = None
                       \/ cursor \in matching /\ Place(order, k) > Place(order, cursor)})

\* Of Adoption Groups it goes on after the group that the cursor names, whether that
\* one still matches or not.
AdoptionPage(order, groups, cursor, matching) ==
    PageOf(order, {k \in matching :
                       \/ cursor = None
                       \/ cursor \in groups /\ Place(order, k) > Place(order, cursor)})

GroupPage(r, groups, cursor, matching) ==
    IF KindOf[r] = "change" THEN DiffPage(GroupsOf[r], cursor, matching)
                            ELSE AdoptionPage(GroupsOf[r], groups, cursor, matching)

\* One page of the groups of a run: its rows are written with its completion and never
\* change, and of a run that goes on there are none.
StoredPage(r, cursor) ==
    LET rows == IF IsCompleted(r) THEN ToSet(GroupsOf[r]) ELSE {}
    IN GroupPage(r, rows, cursor, rows)

\* Reviews come newest first; a cursor nobody has starts over.
ReviewPage(all, cursor) ==
    LET start == IF cursor = None THEN 0 ELSE Place(all, cursor)
        end == IF start + Limit < Len(all) THEN start + Limit ELSE Len(all)
        items == SubSeq(all, start + 1, end)
    IN [items |-> items, next |-> IF start + Limit < Len(all) THEN Last(items) ELSE None]

-----------------------------------------------------------------------------
(* The writers                                                              *)

\* insertChangeReview, after the candidate was submitted.
InsertChangeReview(r) ==
    /\ r \notin ToSet(created)
    /\ created' = Append(created, r)
    /\ status' = [status EXCEPT ![r] = "computing"]
    /\ vstatus' = [vstatus EXCEPT ![r] = "in_review"]
    /\ UNCHANGED <<completed, failed, verdict, decisions, client>>

\* recordCompletion and markFailed of the review's run. The former has no condition on
\* the status, so that a run recovery failed may be completed late. Left out is that
\* the latter may fail a completed run.
RunEnds(r) ==
    /\ r \in ToSet(created) /\ ~IsCompleted(r)
    /\ \/ completed' = Append(completed, r) /\ failed' = failed \ {r}
       \/ failed' = failed \cup {r} /\ completed' = completed
    /\ UNCHANGED <<created, status, vstatus, verdict, decisions, client>>

\* updateStatus: by id alone, by a request that read the review as computing.
UpdateStatus(r) == status' = [status EXCEPT ![r] = "ready"]

LateSync(r) ==
    /\ IsCompleted(r)
    /\ UpdateStatus(r)
    /\ UNCHANGED <<created, vstatus, completed, failed, verdict, decisions, client>>

\* failReview: a review somebody moved on is left alone, and so is its candidate.
FailReview(r) ==
    IF status[r] # "computing" THEN UNCHANGED <<status, vstatus>>
    ELSE /\ status' = [status EXCEPT ![r] = "failed"]
         /\ vstatus' = [vstatus EXCEPT ![r] = IF @ = "in_review" THEN "draft" ELSE @]

\* withdrawReview.
WithdrawReview(r) ==
    /\ r \in ToSet(created) /\ IsOpen(r) /\ vstatus[r] = "in_review"
    /\ status' = [status EXCEPT ![r] = "withdrawn"]
    /\ vstatus' = [vstatus EXCEPT ![r] = "draft"]
    /\ UNCHANGED <<created, completed, failed, verdict, decisions, client>>

\* What a client holds of the groups that match all along loses the one whose verdict
\* is changed to another.
Upheld(r, k, v) ==
    IF client.op = "groups" /\ client.review = r /\ client.filter \notin {None, v}
    THEN [client EXCEPT !.always = @ \ {k}] ELSE client

Given == UNION {{<<s, i>> : i \in {j \in DOMAIN verdict[s] : verdict[s][j] # None}} : s \in Review}

\* upsertVerdict: no condition, so it may come after a decision.
UpsertVerdict(r, k, v) ==
    /\ IsCompleted(r) /\ k \in ToSet(GroupsOf[r])
    /\ \/ verdict[r][k] # None
       \/ Cardinality(Given) < MaxGiven
    /\ verdict' = [verdict EXCEPT ![r] = [@ EXCEPT ![k] = v]]
    /\ client' = Upheld(r, k, v)
    /\ UNCHANGED <<created, status, vstatus, completed, failed, decisions>>

\* store.decide: the transition of the candidate, the record and the status at once.
StoreDecide(r, outcome) ==
    /\ IsCompleted(r) /\ vstatus[r] = "in_review"
    /\ vstatus' = [vstatus EXCEPT ![r] = outcome]
    /\ decisions' = Append(decisions, [review |-> r, outcome |-> outcome])
    /\ status' = [status EXCEPT ![r] = outcome]
    /\ UNCHANGED <<created, completed, failed, verdict, client>>

-----------------------------------------------------------------------------
(* The queries, await by await                                              *)

Idle ==
    [op |-> "none", at |-> "idle", review |-> None, filter |-> None, cursor |-> None,
     todo |-> <<>>, listed |-> <<>>, always |-> {}, status |-> None, run |-> None,
     decision |-> 0, tail |-> 0, groups |-> {}, next |-> None, items |-> <<>>,
     key |-> None, shown |-> None]

Newest(seq) == Reverse(seq)

\* The run the authority map is of, when nothing changes while it is read.
BestRun ==
    LET all == Newest(completed)
        i == SelectInSeq(all, LAMBDA r : vstatus[r] = "accepted")
    IN IF i = 0 THEN {} ELSE {all[i]}

Ask(query) == client.at = "idle" /\ client' = query /\ UNCHANGED store

\* GET .../diff-groups and .../adoption-groups, of the groups with a Verdict or of
\* all, from the first page to the last.
AskGroups(r, filter) ==
    /\ r \in ToSet(created)
    /\ Ask([Idle EXCEPT !.op = "groups", !.at = "review", !.review = r, !.filter = filter,
                        !.always = IF ~IsCompleted(r) THEN {}
                                   ELSE {k \in ToSet(GroupsOf[r]) :
                                            filter = None \/ verdict[r][k] = filter}])

AskReport(r) ==
    r \in ToSet(created) /\ Ask([Idle EXCEPT !.op = "report", !.at = "review", !.review = r])

\* GET /change-reviews, from the first page to the last.
AskReviews ==
    Ask([Idle EXCEPT !.op = "reviews", !.at = "list", !.always = ToSet(created)])

AskMap == Ask([Idle EXCEPT !.op = "map", !.at = "runs", !.always = BestRun])

Proceed(at) == [client EXCEPT !.at = at]
AfterSync == IF client.op = "groups" THEN "groups" ELSE "run"

\* getChangeReview.
ReadReview ==
    /\ client.at = "review"
    /\ client' = [Proceed(IF status[client.review] = "computing" THEN "sync" ELSE AfterSync)
                    EXCEPT !.status = status[client.review]]
    /\ UNCHANGED store

\* syncStatus of a review that was read as computing; what the caller goes on with.
SyncStatus(r) ==
    /\ IF IsCompleted(r) THEN UpdateStatus(r) /\ UNCHANGED vstatus
       ELSE IF r \in failed THEN FailReview(r) ELSE UNCHANGED <<status, vstatus>>
    /\ UNCHANGED <<created, completed, failed, verdict, decisions>>

\* A mutant: a run that ended, however it ended, makes the review ready.
SyncedWhenEnded(r) == IF IsCompleted(r) \/ r \in failed THEN "ready" ELSE "computing"

SyncedStatus(r) ==
    IF IsCompleted(r) THEN "ready" ELSE IF r \in failed THEN "failed" ELSE "computing"

Sync ==
    /\ client.at = "sync"
    /\ SyncStatus(client.review) /\ UNCHANGED findings
    /\ client' = [Proceed(AfterSync) EXCEPT !.status = SyncedStatus(client.review)]

\* fetchAllDiffGroups, fetchAllAdoptionGroups: one page after the other.
ReadGroups ==
    LET page == StoredPage(client.review, client.next)
    IN
    /\ client.at = "groups"
    /\ client' = [Proceed(IF page.next = None THEN "verdicts" ELSE "groups")
                    EXCEPT !.groups = @ \cup page.items, !.next = page.next]
    /\ UNCHANGED store

\* listVerdicts, and the answer: the next request goes on with its cursor.
ReadVerdicts ==
    LET r == client.review
        matching == {k \in client.groups : client.filter = None \/ verdict[r][k] = client.filter}
        page == GroupPage(r, client.groups, client.cursor, matching)
    IN
    /\ client.at = "verdicts"
    /\ client' =
         IF client.op = "report"
         THEN [Proceed("done") EXCEPT
                 !.items = [k \in client.groups |-> verdict[r][k]]]
         ELSE [Proceed(IF page.next = None THEN "done" ELSE "review") EXCEPT
                 !.listed = Append(@, page.items), !.cursor = page.next, !.groups = {}]
    /\ UNCHANGED store

\* getReport: the run, then the decision, then the tail of the chain.
ReadRun ==
    /\ client.at = "run"
    /\ client' = [Proceed("decision") EXCEPT
                    !.run = IF IsCompleted(client.review) THEN "completed"
                            ELSE IF client.review \in failed THEN "failed" ELSE "running"]
    /\ UNCHANGED store

ReadDecision ==
    /\ client.at = "decision"
    /\ client' = [Proceed("tail") EXCEPT !.decision = DecisionOf(client.review)]
    /\ UNCHANGED store

ReadTail ==
    /\ client.at = "tail"
    /\ client' = [Proceed(IF client.run = "completed" THEN "groups" ELSE "done")
                    EXCEPT !.tail = Len(decisions)]
    /\ UNCHANGED store

\* listChangeReviews, and the view of each of the page, from its row as it was read.
ReadReviews ==
    LET page == ReviewPage(Newest(created), client.cursor)
    IN
    /\ client.at = "list"
    /\ client' = [Proceed("view") EXCEPT
                    !.todo = [i \in DOMAIN page.items |->
                                [review |-> page.items[i], status |-> status[page.items[i]]]],
                    !.listed = Append(@, {}),
                    !.cursor = page.next]
    /\ UNCHANGED store

ReadView ==
    /\ client.at = "view" /\ client.todo # <<>>
    /\ LET stored == Head(client.todo)
       IN /\ IF stored.status = "computing" THEN SyncStatus(stored.review) /\ UNCHANGED findings
             ELSE UNCHANGED store
          /\ client' = [client EXCEPT !.todo = Tail(@),
                                      !.listed[Len(client.listed)] = @ \cup {stored.review}]

AnswerReviews ==
    /\ client.at = "view" /\ client.todo = <<>>
    /\ client' = Proceed(IF client.cursor = None THEN "done" ELSE "list")
    /\ UNCHANGED store

\* getAuthorityMap: the runs at once, then their versions one by one.
ReadRuns ==
    /\ client.at = "runs"
    /\ client' = [Proceed("version") EXCEPT !.todo = Newest(completed)]
    /\ UNCHANGED store

ReadVersion ==
    /\ client.at = "version"
    /\ client' = IF client.todo = <<>> THEN Proceed("done")
                 ELSE IF vstatus[Head(client.todo)] = "accepted"
                      THEN [Proceed("done") EXCEPT !.run = Head(client.todo)]
                      ELSE [client EXCEPT !.todo = Tail(@)]
    /\ UNCHANGED store

-----------------------------------------------------------------------------
(* Conformance findings: runs of their own, apart from those of reviews     *)

\* A bound: a conformance run ends only before the one review moves, and reviews only
\* move while there is none. No statement is of both.
BeforeReviews ==
    /\ Len(created) = 1 /\ status[Last(created)] = "computing"
    /\ completed = <<>> /\ failed = {}

\* The clock is read before the transaction that completes a run, on any server: a run
\* may come to stand before others that were completed earlier.
ConformanceEnds(n) ==
    /\ BeforeReviews
    /\ n \notin ToSet(conformance)
    /\ \E i \in 1 .. (Len(conformance) + 1) : conformance' = InsertAt(conformance, i, n)
    /\ UNCHANGED <<created, status, vstatus, completed, failed, verdict, decisions,
                   acknowledged, client>>

FindLatestConformanceRun == IF conformance = <<>> THEN None ELSE Last(conformance)

\* GET /conformance-findings.
AskFindings == Ask([Idle EXCEPT !.op = "findings", !.at = "latest", !.shown = FindLatestConformanceRun])

\* PUT /conformance-findings/{id}, and POST .../policy-drafts, whose draft is begun from
\* the version of the run: for a finding that was shown, by its key alone.
ActOnFinding(op, key) ==
    /\ client.op = "findings" /\ client.at = "done"
    /\ key \in client.items
    /\ client' = [Idle EXCEPT !.op = op, !.at = "latest", !.shown = client.run, !.key = key]
    /\ UNCHANGED store

\* Both begin with the newest run, whichever was shown.
ReadLatestRun ==
    /\ client.at = "latest"
    /\ client' = [Proceed(IF conformance = <<>> THEN "done" ELSE "findings")
                    EXCEPT !.run = FindLatestConformanceRun,
                           !.items = {}]
    /\ UNCHANGED store

ListFindings ==
    /\ client.at = "findings" /\ client.op = "findings"
    /\ client' = [Proceed("done") EXCEPT !.items = FindingsOf[client.run]]
    /\ UNCHANGED store

\* The finding of that key in the run, or none; an acknowledgement is its update.
LocateFinding ==
    LET found == {client.key} \cap FindingsOf[client.run]
    IN
    /\ client.at = "findings" /\ client.op \in {"acknowledge", "draft"}
    /\ client' = [Proceed("done") EXCEPT !.items = found]
    /\ acknowledged' = IF client.op = "acknowledge"
                       THEN acknowledged \cup ({client.run} \X found) ELSE acknowledged
    /\ UNCHANGED <<created, status, vstatus, completed, failed, verdict, decisions, conformance>>

Answered == client.at = "done" /\ client' = Idle /\ UNCHANGED store

-----------------------------------------------------------------------------
QueriesInit ==
    \E r \in Review :
        /\ created = <<r>>
        /\ status = [s \in Review |-> IF s = r THEN "computing" ELSE None]
        /\ vstatus = [s \in Review |-> IF s = r THEN "in_review" ELSE "draft"]
        /\ completed = <<>> /\ failed = {}
        /\ verdict = [s \in Review |-> [k \in ToSet(GroupsOf[s]) |-> None]]
        /\ decisions = <<>>
        /\ conformance = <<>> /\ acknowledged = {}
        /\ client = Idle

Writes ==
    /\ conformance = <<>>
    /\ \E r \in Review :
          \/ InsertChangeReview(r) \/ RunEnds(r) \/ LateSync(r) \/ WithdrawReview(r)
          \/ \E outcome \in {"accepted", "rejected"} : StoreDecide(r, outcome)
          \/ \E k \in ToSet(GroupsOf[r]), v \in Verdict : UpsertVerdict(r, k, v)
    /\ UNCHANGED findings

Queries ==
    \/ \E r \in Review : AskReport(r) \/ \E f \in Filters : AskGroups(r, f)
    \/ AskReviews \/ AskMap \/ AskFindings
    \/ \E op \in {"acknowledge", "draft"} :
          \E key \in UNION {FindingsOf[n] : n \in DOMAIN FindingsOf} : ActOnFinding(op, key)

Awaits ==
    \/ ReadReview \/ Sync \/ ReadGroups \/ ReadVerdicts
    \/ ReadRun \/ ReadDecision \/ ReadTail
    \/ ReadReviews \/ ReadView \/ AnswerReviews \/ ReadRuns \/ ReadVersion
    \/ ReadLatestRun \/ ListFindings \/ LocateFinding \/ Answered

QueriesNext == Writes \/ (\E n \in DOMAIN FindingsOf : ConformanceEnds(n)) \/ Queries \/ Awaits

QueriesSpec == QueriesInit /\ [][QueriesNext]_queryVars

-----------------------------------------------------------------------------
(* Properties                                                               *)

\* What comes first in a listing: newer reviews, and groups in their order.
Precedes(x, y) ==
    IF client.op = "reviews" THEN Place(created, y) < Place(created, x)
    ELSE Place(GroupsOf[client.review], x) < Place(GroupsOf[client.review], y)

\* A listing in pages has every group whose Verdict is the asked one from the first
\* request to the last, and every review that was there at the first, and each page
\* goes on after the ones before it, though verdicts and reviews come in between.
PagesAreComplete ==
    client.op \in {"groups", "reviews"} =>
        /\ \A i, j \in DOMAIN client.listed :
              i < j => \A x \in client.listed[i], y \in client.listed[j] : Precedes(x, y)
        /\ client.at = "done" => client.always \subseteq UNION ToSet(client.listed)

\* The parts of an Evidence Report, read one after another and handed to the renderer
\* (ReportInput), fit together: a review whose status is a decision has that decision;
\* the tail of the chain is not behind it; a review that is ready or decided has its
\* groups, as long as nobody fails a completed run.
ReportIsCoherent ==
    client.op = "report" /\ client.at = "done" =>
        /\ client.status \in {"accepted", "rejected"} =>
              client.decision # 0 /\ decisions[client.decision].outcome = client.status
        /\ client.decision <= client.tail
        /\ client.status \in {"ready", "accepted", "rejected"} =>
              DOMAIN client.items = ToSet(GroupsOf[client.review])

\* The authority map is of no older run than the one that was the newest of an
\* accepted version when it was asked for, and of an accepted version.
MapIsNotOutdated ==
    client.op = "map" /\ client.at = "done" =>
        /\ client.run # None => vstatus[client.run] = "accepted"
        /\ \A r \in client.always :
              client.run # None /\ Place(completed, client.run) >= Place(completed, r)

\* The findings page is of no older run than the newest when it was asked for, and an
\* act on what it shows reaches the run that was shown or a newer one; it is refused
\* only for a newer one, and nothing is acknowledged that was not there.
ActsReachTheNewestRun ==
    /\ client.op \in {"findings", "acknowledge", "draft"} /\ client.at = "done" =>
         /\ Place(conformance, client.run) >= Place(conformance, client.shown)
         /\ client.key # None /\ client.items = {} => client.run # client.shown
    /\ \A act \in acknowledged : act[1] \in ToSet(conformance) /\ act[2] \in FindingsOf[act[1]]

\* What one answer tells of several reads fits together, with each other and with what
\* the client was shown before.
AnswersFitTogether == ReportIsCoherent /\ MapIsNotOutdated /\ ActsReachTheNewestRun
=============================================================================
