------------------------------ MODULE WebClient ------------------------------
(***************************************************************************)
(* One tab of apps/web on one Policy Version and its change review, while  *)
(* other people use the same server. The pages read through TanStack Query *)
(* (external): every query key has one cache entry, a page shows whatever  *)
(* its entries hold, and what the page does next (poll, enable a button,   *)
(* mount an editor) is computed from what it shows, not from the server.   *)
(*                                                                         *)
(* A read is three steps: the request is sent, the server reads, the       *)
(* answer arrives; a write likewise. Anything may happen in between. The   *)
(* server's own interleavings are in ChangeReview; here each of its        *)
(* handlers is one step, with the syncStatus they all begin with, but for  *)
(* what such a step would hide of the pages: a syncStatus that has read    *)
(* the review as computing may write 'ready' much later (LateSyncEnds).    *)
(* The Policy has one version and no accepted baseline, so its review is   *)
(* an adoption review, and at most one review is created (a bound).        *)
(***************************************************************************)
EXTENDS Naturals, FiniteSets

CONSTANTS
    Doc,        \* policy documents; a document stands for its contentHash too
    Group,      \* the groups of the review's replay, all of them under review
    Verdict,    \* verdicts a reviewer may record, "expected" one of them
    None,       \* no data, no editor
    MaxEvent,   \* bound on what people do: the tab's submissions, the pages it opens,
                \*   what others do
    MaxFault    \* bound on what goes wrong: failed reads, lost answers, reconnections,
                \*   a handler that writes late

ASSUME WebAssumption ==
    /\ "expected" \in Verdict
    /\ None \notin Doc \cup Verdict
    /\ MaxEvent \in Nat /\ MaxFault \in Nat

VARIABLES
    doc, vstatus,  \* the version: its document and its status
    rstatus,       \* the review's status, or "absent"
    run,           \* the review's replay run
    verdict,       \* review_verdicts, by group
    marking,       \* a handler, asked by the tab or by others, is about to write
                   \*   'ready' of a review it has read as computing
    reopened,      \* 'ready' was written over a review that was closed
    landed,        \* verdicts, decisions and withdrawals of the tab that took
                   \*   effect
    page,          \* the route the tab is on
    cache,         \* the query cache, by key
    editor,        \* the mounted PolicyVersionEditor: its draftText, the
                   \*   document that text was first a copy of, and whether a
                   \*   save of its own is in flight
    mut,           \* the tab's mutations, by button
    acked,         \* by key of the review's pages: the last of landed that
                   \*   changes what the key answers and that the page was told of
                   \*   while it had the key mounted
    crossed,       \* see GroupsFollowReview
    left, faults   \* what is left of MaxEvent and MaxFault

late == <<marking, reopened>>
server == <<doc, vstatus, rstatus, run, verdict, late, landed>>
client == <<page, cache, editor, mut, acked, crossed>>
bounds == <<left, faults>>
vars == <<server, client, bounds>>

-----------------------------------------------------------------------------
Page == {"home", "version", "review", "group"}
Key == {"versions", "version", "reviews", "review", "groups"}
Open == {"computing", "ready"}
Closed == {"accepted", "rejected", "failed", "withdrawn"}
VersionStatus == {"draft", "in_review", "accepted", "rejected"}
Button == {"save", "create", "decide", "withdraw"} \cup Group

\* What an answer holds, by key; one on the review also says how many of the tab's
\* writes it has seen.
Data ==
    [doc : Doc, status : VersionStatus]
      \cup [status : VersionStatus \cup {"absent"} \cup Open \cup Closed]
      \cup [status : Open \cup Closed, gate : BOOLEAN, own : Nat]
      \cup [empty : BOOLEAN, verdict : [Group -> Verdict \cup {None}], own : Nat]

ASSUME DataAssumption == None \notin Data /\ None \notin Open \cup Closed

\* fetch is "idle", "sent" (the server has not read yet) or "read" (got is on
\* its way back).
Entry ==
    [data : Data \cup {None}, failed : BOOLEAN,
     fetch : {"idle", "sent", "read"}, got : Data \cup {None}]
Empty == [data |-> None, failed |-> FALSE, fetch |-> "idle", got |-> None]

\* What a request carries.
Arguments(op) ==
    CASE op = "save" -> Doc
      [] op = "decide" -> {"accept", "reject"}
      [] op \in {"create", "withdraw"} -> {None}
      [] OTHER -> Verdict

NoMutation ==
    [at |-> "idle", arg |-> None, match |-> None, base |-> None,
     own |-> 0, answer |-> None]

NothingAcked == [k \in {"review", "groups"} |-> 0]

Event == left > 0 /\ left' = left - 1 /\ UNCHANGED faults
Fault == faults > 0 /\ faults' = faults - 1 /\ UNCHANGED left

-----------------------------------------------------------------------------
(* The server *)

GateOpen(vd) == \A g \in Group : vd[g] = "expected"

\* syncStatus: the review takes the outcome of its run when somebody asks.
SyncedStatus ==
    IF rstatus # "computing" \/ run = "running" THEN rstatus
    ELSE IF run = "completed" THEN "ready" ELSE "failed"
SyncedVersion ==
    IF rstatus = "computing" /\ run = "failed" THEN "draft" ELSE vstatus
Sync == rstatus' = SyncedStatus /\ vstatus' = SyncedVersion

ReviewView(status, vd, own) ==
    [status |-> status, gate |-> run = "completed" /\ GateOpen(vd),
     own |-> own]

\* What a read of a key answers. A run that has not ended has no groups.
Answer(k) ==
    CASE k = "version" -> [doc |-> doc, status |-> vstatus]
      [] k = "versions" -> [status |-> vstatus]
      [] k = "reviews" -> [status |-> SyncedStatus]
      [] k = "review" -> ReviewView(SyncedStatus, verdict, landed)
      [] k = "groups" ->
           [empty |-> run # "completed",
            verdict |-> IF run = "completed"
                        THEN verdict ELSE [g \in Group |-> None],
            own |-> landed]

\* The review's terminal statuses and where each leaves the candidate.
CandidateAfter(s) == IF s = "withdrawn" THEN "draft" ELSE s

\* What each handler asks before it writes, and what it writes. A decision and a
\* withdrawal end with the candidate's transition, without which they roll back.
Allows(op, arg, match) ==
    CASE op = "save" -> vstatus = "draft" /\ doc = match
      [] op = "create" -> vstatus = "draft" /\ rstatus = "absent"
      [] op = "decide" -> /\ SyncedStatus = "ready"
                          /\ arg = "accept" => GateOpen(verdict)
                          /\ vstatus = "in_review"
      [] op = "withdraw" -> SyncedStatus \in Open /\ vstatus = "in_review"
      [] OTHER -> SyncedStatus = "ready"

Ends(s) ==
    /\ rstatus' = s /\ vstatus' = CandidateAfter(s)
    /\ UNCHANGED <<doc, run, verdict>>

Performs(op, arg) ==
    CASE op = "save" ->
           /\ doc' = arg /\ UNCHANGED <<vstatus, rstatus, run, verdict>>
      [] op = "create" ->
           /\ vstatus' = "in_review" /\ rstatus' = "computing"
           /\ UNCHANGED <<doc, run, verdict>>
      [] op = "decide" -> Ends(IF arg = "accept" THEN "accepted" ELSE "rejected")
      [] op = "withdraw" -> Ends("withdrawn")
      [] OTHER ->
           /\ Sync /\ verdict' = [verdict EXCEPT ![op] = arg]
           /\ UNCHANGED <<doc, run>>

RunEnds ==
    /\ rstatus # "absent" /\ run = "running"
    /\ run' \in {"completed", "failed"}
    /\ UNCHANGED <<doc, vstatus, rstatus, verdict, late, landed, client, bounds>>

\* syncStatus in two steps: what it reads, and updateStatus, which goes by the id
\* alone. One handler at a time is this late (a bound).
LateSyncBegins ==
    /\ ~marking /\ rstatus = "computing" /\ run = "completed"
    /\ marking' = TRUE
    /\ Fault
    /\ UNCHANGED <<doc, vstatus, rstatus, run, verdict, reopened, landed, client>>

LateSyncEnds ==
    /\ marking
    /\ rstatus' = "ready"
    /\ reopened' = (reopened \/ rstatus \in Closed)
    /\ marking' = FALSE
    /\ UNCHANGED <<doc, vstatus, run, verdict, landed, client, bounds>>

\* Other people use the same server.
OthersAct ==
    /\ Event
    /\ \E op \in Button :
         \E arg \in Arguments(op) : Allows(op, arg, doc) /\ Performs(op, arg)
    /\ UNCHANGED <<late, landed, client>>

-----------------------------------------------------------------------------
(* The query cache *)

Loaded(c, k) == c[k].data # None
Shows(c, k) == Loaded(c, k) /\ ~c[k].failed      \* isSuccess

\* A fetch of a key that is already being fetched joins it; one with
\* cancelRefetch, as an invalidation makes, replaces it, but only once the key
\* has data.
Start(e) ==
    [e EXCEPT !.fetch = "sent", !.got = None,
              !.failed = e.failed /\ e.data # None]

Fetch(e) == IF e.fetch = "idle" THEN Start(e) ELSE e
\* Mutant: an invalidation joins the read that is under way.
RefetchJoining(e) == Fetch(e)
Refetch(e) == IF e.fetch # "idle" /\ e.data = None THEN e ELSE Start(e)

\* The queries the components of a page have mounted and enabled.
HomeKeys(c) ==
    {"versions"} \cup
    (IF Shows(c, "versions") /\ c["versions"].data.status \in {"draft", "in_review"}
     THEN {"reviews"} ELSE {})
\* CreateReview also reads the versions, for the wording of its button.
VersionKeys(c) ==
    {"version"} \cup (IF Shows(c, "version") THEN {"reviews"} ELSE {})
ReviewKeys(c) == {"review"} \cup (IF Loaded(c, "review") THEN {"groups"} ELSE {})
GroupKeys(c) == {"review"} \cup (IF Shows(c, "review") THEN {"groups"} ELSE {})

Active(p, c) ==
    CASE p = "home" -> HomeKeys(c)
      [] p = "version" -> VersionKeys(c)
      [] p = "review" -> ReviewKeys(c)
      [] p = "group" -> GroupKeys(c)

\* invalidateQueries refetches the keys that are mounted; the others are stale
\* anyway, as every entry is (staleTime 0), and are refetched when mounted.
Invalidated(p, c, keys) ==
    [k \in Key |-> IF k \in keys \cap Active(p, c) THEN Refetch(c[k]) ELSE c[k]]

ShownStatus(c) == IF Loaded(c, "review") THEN c["review"].data.status ELSE None

\* The queries that a change of page or of data mounts.
Mounted(p, c) ==
    LET before == IF p = page THEN Active(p, cache) ELSE {}
    IN [k \in Key |-> IF k \in Active(p, c) \ before THEN Fetch(c[k]) ELSE c[k]]

\* Mutant: the groups are not read again.
NoGroupsEffect(p, c) == FALSE

\* The effect of ChangeReviewPage: once the status shown is not computing, the
\* groups are read again.
GroupsEffect(p, c) ==
    /\ p = "review" /\ ShownStatus(c) \notin {None, "computing"}
    /\ p # page \/ ShownStatus(c) # ShownStatus(cache)

EditorWith(d) == [text |-> d, base |-> d, saving |-> FALSE]

\* An editor lives from the moment its version is shown until the page is left or
\* a read of the version fails, and starts with the text it is mounted with: a
\* version read later changes what it is compared with and saved over, not it.
EditorOf(p, c) ==
    IF p # "version" \/ ~Shows(c, "version") THEN None
    ELSE IF editor # None THEN editor
    ELSE EditorWith(c["version"].data.doc)

Render(p, c) ==
    LET m == Mounted(p, c) IN
    /\ page' = p
    /\ cache' = IF GroupsEffect(p, c) THEN Invalidated(p, m, {"groups"}) ELSE m
    /\ editor' = EditorOf(p, c)
    /\ crossed' =
         IF ~GroupsEffect(p, c) THEN crossed
         ELSE m["groups"].data = None /\ m["groups"].fetch = "read"

-----------------------------------------------------------------------------
(* Reads *)

ServerReads(k) ==
    /\ cache[k].fetch = "sent"
    /\ cache' = [cache EXCEPT ![k].fetch = "read", ![k].got = Answer(k)]
    /\ IF k \in {"reviews", "review", "groups"} THEN Sync
       ELSE UNCHANGED <<rstatus, vstatus>>
    /\ UNCHANGED <<doc, run, verdict, late, landed, page, editor, mut, acked, crossed,
                   bounds>>

ReadArrives(k) ==
    /\ cache[k].fetch = "read"
    /\ Render(page, [cache EXCEPT ![k] = [Empty EXCEPT !.data = cache[k].got]])
    /\ UNCHANGED <<server, mut, acked, bounds>>

\* callRoute answers an error (retry: false): the data stays, the page shows the
\* error instead of it.
ReadFails(k) ==
    /\ cache[k].fetch = "sent" /\ Fault
    /\ Render(page, [cache EXCEPT ![k] =
                       [Empty EXCEPT !.data = cache[k].data, !.failed = TRUE]])
    /\ UNCHANGED <<server, mut, acked>>

\* Mutants: the interval is set on the groups only; the home page has none.
PolledGroups(p, c) ==
    IF p = "review" /\ ShownStatus(c) = "computing" THEN {"groups"} ELSE {"reviews"}
\* refetchInterval: what a page reads again every three seconds.
Polled(p, c) ==
    CASE p = "review" /\ ShownStatus(c) = "computing" -> {"review", "groups"}
      [] p = "home" /\ Loaded(c, "reviews")
           /\ c["reviews"].data.status = "computing" -> {"reviews"}
      [] OTHER -> {}

Poll(k) ==
    /\ k \in Polled(page, cache) \cap Active(page, cache)
    /\ cache[k].fetch = "idle"
    /\ cache' = [cache EXCEPT ![k] = Fetch(@)]
    /\ UNCHANGED <<server, page, editor, mut, acked, crossed, bounds>>

Reads(k) == ServerReads(k) \/ ReadArrives(k) \/ Poll(k)

\* The network comes back: what is mounted is read again.
Reconnect ==
    /\ cache' = [k \in Key |->
                   IF k \in Active(page, cache) THEN Fetch(cache[k]) ELSE cache[k]]
    /\ Fault
    /\ UNCHANGED <<server, page, editor, mut, acked, crossed>>

\* The user follows a link or types a URL.
Navigate(p) ==
    /\ p # page
    /\ Event
    /\ p \in {"review", "group"} => rstatus # "absent"
    /\ Render(p, cache)
    /\ acked' = NothingAcked
    /\ UNCHANGED <<server, mut>>

-----------------------------------------------------------------------------
(* Writes *)

Submit(b, m) ==
    /\ mut[b].at = "idle" /\ Event
    /\ mut' = [mut EXCEPT ![b] = m]
    /\ editor' = IF b = "save" THEN [editor EXCEPT !.saving = TRUE] ELSE editor
    /\ UNCHANGED <<server, page, cache, acked, crossed>>

\* The textarea, and the buttons of PolicyVersionEditor and CreateReview.
Type(d) ==
    /\ editor # None /\ cache["version"].data.status = "draft"
    /\ editor' = [editor EXCEPT !.text = d]
    /\ UNCHANGED <<server, page, cache, mut, acked, crossed, bounds>>

Save ==
    /\ editor # None
    /\ cache["version"].data.status = "draft"
    /\ editor.text # cache["version"].data.doc          \* isDirty
    /\ Submit("save", [NoMutation EXCEPT
                         !.at = "sent", !.arg = editor.text,
                         !.match = cache["version"].data.doc,
                         !.base = editor.base])

\* Once a review exists a second one is past the bound.
Create ==
    /\ editor # None /\ Shows(cache, "reviews")
    /\ cache["version"].data.status = "draft"
    /\ cache["reviews"].data.status \notin Open /\ rstatus = "absent"
    /\ Submit("create", [NoMutation EXCEPT !.at = "sent"])

\* The review page shows its details when both queries succeeded, the group page its
\* group when it has one; a run without groups offers nothing to judge.
Judges ==
    /\ page \in {"review", "group"} /\ Shows(cache, "review")
    /\ IF page = "group" THEN Loaded(cache, "groups") ELSE Shows(cache, "groups")

RecordVerdict(g, v) ==
    /\ Judges
    /\ cache["review"].data.status = "ready"
    /\ ~cache["groups"].data.empty /\ cache["groups"].data.verdict[g] # v
    /\ Submit(g, [NoMutation EXCEPT !.at = "sent", !.arg = v])

DecideReview(outcome) ==
    /\ Judges /\ page = "review"
    /\ cache["review"].data.status = "ready"
    /\ outcome = "accept" => cache["review"].data.gate
    /\ Submit("decide", [NoMutation EXCEPT !.at = "sent", !.arg = outcome])

WithdrawReview ==
    /\ Judges /\ page = "review"
    /\ cache["review"].data.status \in Open
    /\ Submit("withdraw", [NoMutation EXCEPT !.at = "sent"])

OfReview(b) == b \notin {"save", "create"}

WriteLands(b) ==
    /\ mut[b].at = "sent"
    /\ Allows(b, mut[b].arg, mut[b].match) /\ Performs(b, mut[b].arg)
    /\ landed' = IF OfReview(b) THEN landed + 1 ELSE landed
    /\ mut' = [mut EXCEPT ![b].at = "done", ![b].own = landed',
                 ![b].answer = IF b \in {"decide", "withdraw"}
                               THEN ReviewView(rstatus', verdict', landed')
                               ELSE None]
    /\ UNCHANGED <<late, page, cache, editor, acked, crossed, bounds>>

WriteRefused(b) ==
    /\ mut[b].at = "sent" /\ ~Allows(b, mut[b].arg, mut[b].match)
    /\ IF OfReview(b) THEN Sync ELSE UNCHANGED <<rstatus, vstatus>>
    /\ mut' = [mut EXCEPT ![b].at = "refused"]
    /\ UNCHANGED <<doc, run, verdict, late, landed, page, cache, editor, acked, crossed,
                   bounds>>

\* onSuccess of each mutation: what it puts in the cache, what it reads again.
WithAnswer(b) ==
    IF b \in {"decide", "withdraw"}
    THEN [cache EXCEPT !["review"].data = mut[b].answer, !["review"].failed = FALSE]
    ELSE cache
\* Mutant: the answer of a decision is taken for the last word on the review.
RefreshesLists(b) ==
    CASE b = "save" -> {"version"}
      [] b = "create" -> {}
      [] b \in {"decide", "withdraw"} -> {"version", "versions", "reviews"}
      [] OTHER -> {"review", "groups"}
Refreshes(b) ==
    CASE b = "save" -> {"version"}
      [] b = "create" -> {}
      [] b = "decide" -> {"review", "versions", "reviews"}
      [] b = "withdraw" -> {"review", "version", "versions", "reviews"}
      [] OTHER -> {"review", "groups"}

PageAfter(b) == IF b = "create" THEN "review" ELSE page

\* setDraftText reaches the editor that made the save, if it is still there.
EditorAfter(b) ==
    LET mine == b = "save" /\ editor # None /\ editor.saving
    IN IF mine THEN EditorWith(mut[b].arg) ELSE EditorOf(page', cache')

WriteAnswered(b) ==
    LET p == PageAfter(b)
        c == Mounted(p, WithAnswer(b))
        effect == GroupsEffect(p, WithAnswer(b))
        keys == Refreshes(b) \cup (IF effect THEN {"groups"} ELSE {})
    IN /\ mut[b].at = "done"
       /\ mut' = [mut EXCEPT ![b] = NoMutation]
       /\ page' = p
       /\ cache' = Invalidated(p, c, keys)
       /\ crossed' = IF effect
                     THEN c["groups"].data = None /\ c["groups"].fetch = "read"
                     ELSE crossed
       /\ editor' = EditorAfter(b)
       /\ acked' = IF page' # page THEN NothingAcked
                   ELSE [k \in {"review", "groups"} |->
                           IF /\ k \in Refreshes(b) \cap Active(p, c)
                              /\ mut[b].own > acked[k]
                           THEN mut[b].own ELSE acked[k]]
       /\ UNCHANGED <<server, bounds>>

\* The server's refusal, or no answer at all: the page says so and reads nothing
\* again. A write whose answer is lost has taken effect all the same.
WriteFails(b) ==
    /\ \/ mut[b].at = "refused" /\ UNCHANGED bounds
       \/ mut[b].at \in {"sent", "done"} /\ Fault
    /\ mut' = [mut EXCEPT ![b] = NoMutation]
    /\ editor' = IF b = "save" /\ editor # None
                 THEN [editor EXCEPT !.saving = FALSE] ELSE editor
    /\ UNCHANGED <<server, page, cache, acked, crossed>>

-----------------------------------------------------------------------------
\* Documents differ in nothing but their names.
FirstDoc == CHOOSE d \in Doc : TRUE

Init ==
    /\ doc = FirstDoc /\ run = "running"
    /\ \/ rstatus = "absent" /\ vstatus = "draft"
       \/ rstatus = "computing" /\ vstatus = "in_review"
    /\ verdict = [g \in Group |-> None]
    /\ marking = FALSE /\ reopened = FALSE
    /\ landed = 0 /\ acked = NothingAcked /\ crossed = FALSE
    /\ page \in {"home", "version"} \cup (IF rstatus = "absent" THEN {} ELSE Page)
    /\ cache = [[k \in Key |-> Empty] EXCEPT
                  ![CASE page = "home" -> "versions" [] page = "version" -> "version"
                      [] OTHER -> "review"].fetch = "sent"]
    /\ editor = None
    /\ mut = [b \in Button |-> NoMutation]
    /\ left = MaxEvent /\ faults = MaxFault

UserActs ==
    \/ \E d \in Doc : Type(d)
    \/ Save
    \/ Create
    \/ \E g \in Group, v \in Verdict : RecordVerdict(g, v)
    \/ \E o \in {"accept", "reject"} : DecideReview(o)
    \/ WithdrawReview
    \/ \E p \in Page : Navigate(p)

Next ==
    \/ RunEnds \/ LateSyncBegins \/ LateSyncEnds
    \/ OthersAct
    \/ \E k \in Key : Reads(k) \/ ReadFails(k)
    \/ Reconnect
    \/ UserActs
    \/ \E b \in Button :
         WriteLands(b) \/ WriteRefused(b) \/ WriteAnswered(b) \/ WriteFails(b)

\* A replay ends, the server answers, the network delivers and the interval of a
\* visible tab fires; nobody has to click anything. It is asked only of the keys
\* that tell a review's status.
Fairness ==
    /\ WF_vars(RunEnds)
    /\ WF_vars(Reads("review"))
    /\ WF_vars(Reads("reviews"))

Spec == Init /\ [][Next]_vars /\ Fairness

-----------------------------------------------------------------------------
(* Properties *)

Quiet(k) == Shows(cache, k) /\ cache[k].fetch = "idle"

\* A page that was told its verdict, decision or withdrawal took effect, and was
\* not left since, shows it as soon as nothing it shows is still being read: no
\* answer of a read begun earlier may be the last word.
SeesOwnWrites ==
    \A k \in {"review", "groups"} \cap Active(page, cache) :
        Quiet(k) => cache[k].data.own >= acked[k]

\* A review page that shows a computed review shows its groups, which it also
\* read while the replay was running: once those reads have come in, a decision
\* is never taken over an empty list. The exception is the crossing the page does
\* not handle: the first read of the groups, made while the replay ran, arrives
\* after the status, and an invalidation does not replace a first read.
GroupsFollowReview ==
    /\ page = "review" /\ Shows(cache, "review") /\ Quiet("groups") /\ ~crossed
    /\ ShownStatus(cache) \in {"ready", "accepted", "rejected"}
    => ~cache["groups"].data.empty

\* Once a page of the review was told of a write of its own, a review it shows as
\* over is not shown otherwise for as long as the page is open and the server has not
\* opened it again: the answer of a decision is put in the cache beside reads that are
\* under way, and those must not overwrite it. The exception is the code's: a poll that
\* found the review computing may be in syncStatus while the review is withdrawn or
\* decided, writes 'ready' over that (packages/review/lib/app/module.ts:428), and the
\* next read shows the review open. (A read under way when the page is left is joined,
\* not replaced, if the page is opened again, and can show the older status then.)
ShownReviewStaysClosed ==
    [][acked["review"] > 0 /\ page' = page /\ ShownStatus(cache) \in Closed /\ ~reopened
         => ShownStatus(cache') = ShownStatus(cache)]_vars

\* A save replaces the document its text was made from. (It does not: the text is
\* kept while the version under it is read again, and is then saved with the
\* contentHash of a document its author never edited.)
NoLostUpdate ==
    [][\A d \in Doc : (mut["save"].at = "sent" /\ mut'["save"].at = "done" /\ doc = d)
          => mut["save"].base = d]_vars

\* A review page that shows a replay in progress goes on to show its end.
ReviewPageMovesOn ==
    (page = "review" /\ ShownStatus(cache) = "computing")
        ~> (page # "review" \/ ShownStatus(cache) # "computing")

ShowsComputing(c) ==
    "reviews" \in Active("home", c) /\ Loaded(c, "reviews")
        /\ c["reviews"].data.status = "computing"
HomePageMovesOn ==
    (page = "home" /\ ShowsComputing(cache)) ~> (page # "home" \/ ~ShowsComputing(cache))

\* A page that shows a replay in progress goes on to show its end, the review's own
\* and the home page, with no click and through any failed read.
PagesMoveOn == ReviewPageMovesOn /\ HomePageMovesOn
=============================================================================
