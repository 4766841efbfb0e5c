# A TLA+ model of Authority Diff

Authority Diff replays the recorded work of coding agents under a permission
Policy: it imports transcripts and hook observations, evaluates every Action
under a Policy Version, shows what a change of the Policy would have changed, and
lets a reviewer accept or reject the change on that evidence. What makes it worth
trusting is an audit log of decisions and the claim that each decision was taken
on the replay of exactly the documents it names. These modules model the parts of
the system that this claim rests on, from the transcript on a disk to the page a
reviewer decides on; `PROJECT.json` maps each definition to the
lines it stands for.

Paths below are relative to the repository; `review/...` is
`src/packages/review/lib/...`, and so on.

## 1. Inventory

| Component | State | Operations | Talks to |
| --- | --- | --- | --- |
| Policy versions (`packages/policy`) | `policies`, `policy_versions` (number, status, document, content hash) | createPolicy, createDraftVersion, updateDraftDocument, transitionVersion (submit, accept, reject, withdraw), getBaseline | called by the routes, by reviews (also inside their transactions), read by replays |
| Policy activations (`packages/policy`) | `policy_activations` | declareActivation, findLatestActivation, listActivationsBetween | read by the daily job |
| Change reviews (`packages/review`) | `change_reviews`, `review_verdicts` | createChangeReview, getChangeReview / listChangeReviews (they poll the replay), recordVerdict, decide, withdraw, createPolicyDraftFromFinding | policy, replay |
| Decision log (`packages/review`) | `review_decisions`, a hash chain in the order of a sequence | appendReviewDecision, recordSeedOnlyAcceptance, verifyAuditChain | written in the transaction of a decision |
| Replay runs (`packages/replay`) | `replay_runs` and their results | request (version diff, conformance, adoption), runReplay, recoverInterruptedRuns | policy and trace for inputs, the job queue |
| Job queue (`packages/platform`, pg-boss) | jobs in PostgreSQL | send, work, schedule, stop | `replay.run`, `conformance.daily` |
| Daily conformance job (`apps/server/src/jobs`) | none | one request for a run of the previous UTC day | activations, replay |
| Trace store (`packages/trace`) | sessions, actions, observations, imports | importTrace, ingestObservations, reclassifyActions, streamActions | CLI, replay |
| Transcript import (`apps/cli`, `packages/trace/lib/client`) | none but the transcripts | discover, parse, redact, build Actions, post one Session after the other | trace store |
| Hook spool (`apps/cli`) | the settings file of Claude Code, one `.jsonl` file a day | install hooks, append by hooks, flush | the observation route |
| Policy evaluation (`packages/policy`) | none, pure | createEvaluator, resolveZone, validate | replay |
| Replay computations (`packages/replay`) | none, pure | computeDiff, computeAdoption, computeConformance, pairing, gaps, samples | replay runs |
| Action classifier (`packages/action`) | the tracked working directory of a call | classify: the parser's commands, wrappers, git, gh, the table of programs | imports, reclassification |
| Read models and reports (`packages/review`, `packages/replay`) | none | Evidence Report, authority map, findings, pages of groups and reviews, activity overview | all stores |
| Web UI (`apps/web`) | the query cache of a tab, an editor's text | reads, polls, mutations with their invalidations, navigation | the server's routes |
| HTTP shell, probe, local pipeline | none of the system's | routing, validation, offline tools | all |

What is hard in it:

* The server is asynchronous and runs several requests at once; a handler reads,
  awaits, and acts on what it read. Only single statements and transactions are
  atomic, at READ COMMITTED. Nearly every guard of `createChangeReview`, `decide`
  and `syncStatus` is checked some awaits before the write it guards.
* Transactions take row locks in different orders, and a table lock; the audit
  chain depends on the order in which a sequence gives out its values.
* Jobs are delivered at least once, may be lost between a row and its job, run
  while other servers recover, and survive the server that ran them.
* Inputs of a replay change while it waits: drafts are edited, traces imported,
  Actions reclassified.
* Hooks append to a spool file whenever an agent works; nothing keeps them, or a
  second flush, out of a file that is being sent.
* What a reviewer sees is computed from Operations, but decided on Actions: the
  groups must tell of each Action what its Operations say together.
* A transcript is imported while it is written, again and again, by requests that
  interleave row by row; a permission request does not name the call it is for.
* A shell command is classified without being run: every wrapper, substitution or
  `cd` that is lost sight of turns a deed into a read, or into one elsewhere.
* A web page shows what its cache holds, polls only while it shows a replay under
  way, and enables its buttons by what it shows.

What makes each component correct, in one line each:

* versions: edited only as drafts, at most one in review, decided once;
* reviews: at most one open, its candidate frozen and equal to what was replayed,
  an accept only on an open gate, a status that tells the decision;
* decision log: a decision exactly for each decided version, an intact chain,
  no deadlock among decisions;
* replay runs: executed by one delivery, a result only of its own inputs, no run
  queued or running for ever;
* daily job: a day is checked against a version only if it was in effect all day;
* trace and spool: every observation appended is sent, storing it twice changes
  nothing; a transcript imported whole is stored whole, without its secrets, and
  what an Action is never changes; a paged read misses nothing that was there;
* settings: our hooks once and working, those of others kept;
* classifier: nothing that acts is told as a read, wherever it stands;
* conformance: a finding tells what the runtime did, and the Rule drafted from it
  moves decisions one way;
* evaluation: independent of the order of rules, monotone in restrictive ones;
* what a replay shows: a Diff Group has a direction, nothing that widens is hidden,
  and two views of the same Actions agree;
* queries: pages skip nothing and repeat nothing, the parts of an answer fit together;
* web UI: a page shows its own writes, an end of a replay and the groups that belong
  to it, and saves over nothing its author has not seen.

`PROJECT.json` lists the hazards at their lines, with the properties that cover
them, or the reason why none does.

## 2. The modules

| Module | What it is |
| --- | --- |
| `PolicyLifecycle` | Abstract: the versions of a Policy, each edited only as a draft and decided once, and the ledger of decisions. |
| `PolicyVersions` | `policy_versions` and the statements of the policy repository. |
| `ChangeReview` | The request handlers of the review package over `PolicyVersions`, broken at their awaits; refines `PolicyLifecycle`. |
| `ReviewQueries` | The reads of the review and replay packages, broken at their awaits, beside what writers do meanwhile. |
| `DecisionLog` | Abstract: deciding a version and appending to the log are one step. |
| `DecisionTransactions` | The transactions of the review store, statement by statement, with locks; refines `DecisionLog`. |
| `RunLifecycle` | Abstract: a run is requested, executed once, completed once, and may be failed. |
| `ReplayRuns` | Replay runs over the job queue, several servers, faults, recovery; refines `RunLifecycle`. |
| `Transcripts` | Lines, redaction, Sessions and Actions: pure operators. |
| `TraceImport` | The CLI's imports, the transactions of the trace store, reclassification and paged reads, over `Transcripts`. |
| `HookSpool`, `HookInstall` | Hooks, flushes, the files of the spool and the table they end in; on top of it, the installs that merge hooks into a settings file. |
| `ShellWords`, `GitCommands`, `Programs` | What single commands do: pure operators. |
| `BashClassifier` | A call classified statement by statement, beside a shell that runs it, over these three. |
| `PolicyEvaluation` | What a document decides of an Action: pure operators. |
| `ReplayEvidence` | Diff Groups, Adoption Groups and the authority map over `PolicyEvaluation`, while documents are edited and Actions imported. |
| `ReplayResult`, `EvidenceReport` | What is stored and shown of them: summaries, stats, samples, figures, the activity overview; and the default document. Each extends the one before. |
| `ConformanceEvidence` | Dispositions, pairing, findings, gaps and the drafted Rule over `PolicyEvaluation`: pure operators. |
| `Conformance` | Declarations, the daily job, conformance runs and the evidence that comes in meanwhile, over `ConformanceEvidence`. |
| `WebClient` | One tab with its query cache, over a server of whole requests. |
| `MC*` | Instances for TLC: small constants, symmetry. |
| `*Proofs` | The theorems, section 6. |

Components meet in three ways. A module extends another where the code calls it
(`ChangeReview` the repository, `BashClassifier` the tables, `Conformance` and
`ReplayEvidence` the evaluation). A module takes the abstract form of another as
its own step where a refinement justifies that: a transaction of the review store
is one step of `ChangeReview` because `DecisionTransactions` implements
`DecisionLog`. And a module has the steps of its environment as actions without a
cause where every order of them matters and their causes do not: the writers of
`ReviewQueries` and `WebClient`, the changing inputs of `ReplayRuns`.

A definition whose comment begins with "Mutant" is what a plausible mistake would
make of the definition after it; `PROJECT.json` tells which property it violates.

### ChangeReview and PolicyVersions

`vstatus` and `vcontent` are the columns of `policy_versions`, by number (the
server keeps one Policy). `review`, `verdict`, `decision` and `run` are the rows
of their tables; `req[p]` is what the handler of request `p` holds between two
awaits. A handler is its sequence of actions: `createChangeReview` is
`CreateReview` (getVersion), `FindOpenReview`, `ReadBaseline`, `SubmitForReview`,
`RequestReplay`, `InsertReview`. The operations on a review all begin with
`ReadReview` and, if it was computing, `SyncStatus` (the run) and `MarkReady` or
`FailReview` (the write); then `UpsertVerdict`, or `ReadRun`, `CheckGate`,
`TakeSnapshot` and `Decide`, or `Withdraw`. Drafts are `CreateDraft`,
`ReadHighest`, `InsertDraftVersion`, and the one-statement `UpdateDraft`.
`DecideRefused` and `WithdrawRefused` are the transactions that roll back.
`Abort` ends a request anywhere: an exception at an await, or the server process.
The replay worker is kept to `StartRun`, `CompleteRun` and `FailRun`: a run may be
completed after it was failed and failed after it was completed, as the two writes
have no condition on each other. `RequestReplay` is one step; its awaits are in
`ReplayRuns`. `overlapped` is a history variable: a request was handled while another
was under way. What the code's checks achieve only when that never happens is claimed
until it does.

Abstractions: a document is its content hash; a replay's groups are a constant
function of the two documents (`ReplayGroups`), of which `Widening` are those a
change review gates on; an adoption review gates on all. Upgrading the document of
a new draft to the current schema version is the constant function `Upgraded`.
Reviewer names, notes, windows and times are left out.

A transaction of the review store is one step here. That is justified by
`DecisionTransactions`, which shows them serializable.

### DecisionTransactions

`vstatus`, `rstatus` and `rows` are committed; `tx[p]` holds what transaction `p`
has written, which are also the row locks it holds. `Blocks(q, p)` says when the
statement of `p` waits for `q`: the row of a version or a review, the table lock of
`appendReviewDecision`, an uncommitted key of a unique index. An update that gets
its row looks at its condition again (`UpdateVersion`, `UpdateReview`). `next`, the
sequence, is not rolled back. The kinds are decide (`accept`, `reject`),
`withdrawReview`, `failReview`, the one-statement `updateStatus`, and
`recordSeedOnlyAcceptance`. `DetectDeadlock` is PostgreSQL's; `Abort` a lost
connection. A hash without collisions is the list of the records it covers, so
`ChainIntact` is what `verifyAuditChain` computes.

### ReplayRuns

`run` is `replay_runs`, `waiting` counts a run's jobs up to two, `worker` is what
the one job handler of a server does, `boot` how far its recovery is, `request`
the requests for runs, and `inputs` the inputsHash the store's contents have now.
`Plan`, `Claim`, `Record` are the awaits of `runReplay`; `FailQueued` and
`MarkFailed` its two ways to write a failure, guarded and not. A server starts with
`FailStaleRuns`, `ListQueued`, `Resend`, while its worker already runs. The three
kinds of run differ in what they compute only.

`RunLifecycle` has the rows without the clock and, for the jobs and workers, the set of
runs whose completion some worker holds. `Claim` is its `Execute` where it changes the
row, `Record` its `Complete`; a completion lost to an exception or a crash is `Lose`;
`FailQueued`, `MarkFailed` and `FailStaleRuns` are `Fail`, which may strike a completed
run too: a delivery whose claim throws marks the run failed by its id alone. Deliveries,
requests for what is completed already, and the clock are stutters.
`ResultIsOfItsInputs`, which is proved too, is a consequence of the refinement.

### HookSpool

`spool` and `sent` are the `.jsonl` and `.sent` files by day, `stored` the table
`runtime_observations`, `flush[p]` the local variables of `runSpoolFlush`. Records
are numbered in the order of the lines of a file, so a file is a set; each is one
line and one natural key. `BeginFlush` is readdir; then per file `ReadFile`, one
`PostBatch` per request (the server's one-statement insert and the answer) or
`PostFails` (a refusal, or an answer that is lost after the insert), and
`RenameFile`. `NextFile` is the step of the loop, `EndFlush` its end, `Crash` the
end of the process anywhere. `appended` and `raced` are history: what hooks have
appended, and what they appended to a file some flush had read. Lines that do not
parse, which are skipped, and requests that are refused for ever, as one that holds
a secret is, are left out.

`HookInstall` adds the file before there are sessions: `settings` holds per event
the commands of `.claude/settings.json` by their places, a group and a number in it,
and a command is what the tests of `install-hooks.command.ts` tell of it: whose it is,
for which event, and which `node` it names. A merge leaves gaps between places where
the file closes up; only their order counts. What tools a group is for, and groups
without hooks, are left out. An install reads (`LoadDocument`), merges and writes
(`WriteSettings`); edits of other programs and upgrades of `node` come between. A
hook fires when its command works, and only then is a line appended.

### PolicyEvaluation and ReplayEvidence

`PolicyEvaluation` is `evaluate-action.ts`, `resolve-zone.ts` and `reversibility.ts`
operator by operator. A glob or a marker is the set of values it matches, `'*'` and
`null` in a Rule the set of everything. Rules are a set, since no operator can then
depend on their order; the id of a Rule is a number. An Action's Operations are a
function of their indexes, which need not be consecutive.

`ReplayEvidence` has the accepted document, the draft and the imported Actions as
state, so that every pair of documents and every set of Actions is reached by edits,
accepts and imports. `DiffGroups`, `OperationWidening`, `AdoptionGroups` and
`MatrixCell` are what `computeDiffWith`, `computeAdoptionWith` and `buildMatrix`
compute of them. `buildGroup` takes the direction of a group from its first entry;
here the first is any one, as the order of Actions is that of their rows. Names of
Targets are keys with an order, and hashes are what they cover.

`ReplayResult` is what is stored of the groups: summaries, stats, sample
Actions, headlines, severity, and the result hash as the contents it covers.
`EvidenceReport` is what is shown of it later: samples decided again, the tables and
shares of the report, the overview of the same Actions. Their properties relate
passes that are written separately in the code and skip Actions on different
conditions.

### ReviewQueries

`client` is the one query under way: its operation, how far it is, and what it was
answered so far. A report is `ReadReview`, `Sync`, `ReadRun`, `ReadDecision`,
`ReadTail`, `ReadGroups` and `ReadVerdicts`, one after another; `ReadRuns` and
`ReadVersion` are the authority map; pages of groups and of reviews go on after the
cursor that the page before returned. The findings page, an acknowledgement and a
draft from a finding are `AskFindings`, `ActOnFinding`, `ReadLatestRun`,
`ListFindings` and `LocateFinding`. The writers are statements of the stores,
guarded by their own conditions only: every order that `ChangeReview` allows, and
more, is among theirs. `always` is history: what was there from the first request
on. `fetchAllDiffGroups` and `fetchAllAdoptionGroups` are `ReadGroups`, one page of
`StoredPage` a step, so that a run may complete between two pages of it. A page of
groups is the set of its keys, whose order inside the page is that of `GroupsOf`;
`listed` is the sequence of the pages a client was given. Bound: while a review moves
no conformance run ends and the other way round. One query reads both, the Evidence
Report, which adds the newest conformance run and the trace sources
(`review/app/module.ts:739`, `:768`); these two reads of it are left out, since no other
part of a report is made of them.

### Transcripts and TraceImport

A text is a sequence of pieces, which is all the redaction rules tell apart: a
secret, a name after which a value is one, a token, the beginning of a token, the
quote that ends a JSON string. The input of a tool is one text, its canonical JSON,
with the pieces that redaction and elision put something else for; the strings are
redacted each by itself (`RedactStructuredInput`), and the rules see the whole when
they are applied again, with the quotes. `CutInput` is the cut of a long input after redaction, and `HasSecret` what the
server checks again. `ParseTranscript` and `BuildActions` are `parse.ts` and
`actions.ts` over lines.

`written` is the agent's progress, `cli` the run of the command with the Sessions it
has still to send, each as the number of lines it was parsed from. A request is
`InsertSession` (with the residual check), `InsertAction` row by row, `BeginUpdate`
(the snapshot of the UPDATE) and `UpdateOutcome` row by row, `Commit`. `inserted`
and `locked` are the uncommitted rows of a transaction, which others wait for;
`DeadlockVictim` is PostgreSQL's. `ListStale`, `UpdateClassification` and
`CommitClassifications` are `reclassifyActions`; `BeginRead`, `ReadPage` the paged
read of a replay: a page is the rows that come next after the cursor, up to the
limit. `latest` and `settled` are history: the requests that began to update while no
older one of their transcript was left, and the transcripts such a request imported
whole. `Deploy` restarts the server with another classifier. `LoseAnswer`
lets the CLI go on while its request does. A request is answered in the step of its
commit; an answer lost after that differs from one lost before only by what the CLI
prints.

### The classifier

A word carries its literal text as an atom with the form the code's tests on the
text would find, and what it names (path, host, remote). A statement is a syntax
tree; tree-sitter is external. `Collect` flattens it as `shell/parser.ts` does and
reparses strings after `-c`, `StripWrappers` follows wrappers, `ClassifyBash`
collects the Operations of every command and tracks `cd`. `GitCommands` and
`Programs` have the code's tables in the order the code asks them.

Beside it runs a shell that is no part of the code: `runs` of a command is what
really runs behind its wrappers, `real` where the shell is. `ReadOnly` is what is
known to only read. The properties compare the two, so none of them restates
the table. `isAstray` marks a directory change of a kind the classifier does not
follow by design (section 4); `CwdIsReal` is claimed of all the others. `isOverlooked`
marks a statement in which a command stands where the classifier does not look
(`Overlooks`: beside a string that is parsed again, behind more than six wrappers, a
second `-exec` and what else `find` runs, a wrapper behind `-exec`) or is one of
`Misread`, the forms of a program that write while its name or subcommand is told as a
read. `NoFalseRead` and `ContextIsTransparent` are claimed of all others.

### Conformance and ConformanceEvidence

Time is ticks, a few to a day. A `world` is what the runtime does: its calls, what
comes of each, whether a hook covers it. `activations` are rows; a declaration reads
the clock before it is inserted. The schedule sends a job for a day or misses it;
the job is `BeginJob` (the latest activation), `ListDuring` (those of the day) and
`RequestDaily`; it may fail, crash and be delivered again. Observations are stored
late, in any order, without ids, on the day after. `ExecuteRun` is one step: what
comes between the reads of a run is in `TraceImport`. `TrueKind` tells from the
world alone what should be found, and `isWhole` whether all of the evidence was
there to be read; only of such runs anything is claimed.

### WebClient

`cache` is the query cache of TanStack Query (external, version 5): per key its
data, whether the last read failed, and a read under way. A read is sent, made at
the server, and answered; so is a write, whose answer is put in the cache, followed
by its invalidations. `page` is the route, `editor` the mounted editor with its
text. Handlers of the server are one step each, with the `syncStatus` they begin with,
but for one: a handler that has read the review as computing may write `ready` by id much
later, over whatever the review is by then (`LateSyncBegins`, `LateSyncEnds`; `reopened`
is history: it was a closed one). `acked` counts the tab's own writes
it was told of, and every answer carries how many the server had made (`own`), which
is how a page's data are compared with what it was told. Bounds: one version without
a baseline, at most one review, two events and one fault, one late handler
at a time; a form is submitted again
only after its answer. The queries for runs and samples are left out.

## 3. The runs

| Run | Instance | Shows |
| --- | --- | --- |
| `Reviews` | 2 requests, 2 versions, 2 reviews, 2 runs, 2 documents, 1 group, 1 verdict | DecisionsMatchVersions, OpenReviewHoldsCandidate, DecisionPinsContent, ImplementsLifecycle |
| `TwoCreates` | 2 requests, 1 version, 2 reviews, 2 runs | expects AtMostOneOpenReview to be violated (section 4) |
| `ReviewQueries` | 2 reviews of 2 groups (an adoption and a change), 2 conformance runs of 2 findings, pages of 1, up to 2 verdicts at a time | PagesAreComplete, AnswersFitTogether |
| `DecisionTransactions` | 2 transactions, 1 version with 2 reviews, 1 seed, 3 sequence values | ChainIntact, ImplementsDecisionLog, OnlyAWithdrawalDeadlocks |
| `Replay` | 2 servers, 1 request, 2 inputs, 1 run with up to 2 jobs, 2 faults, under fairness | ExecutedOnce, ImplementsRunLifecycle, NoRunIsStuck, OthersAreLeftAlone |
| `TraceImport` | 2 transcripts of 2 and 3 lines that share a tool use, 2 requests, 2 runs of the CLI, 2 classifier versions, pages of 1 | RedactedOnce, SettledIsComplete, ReadIsComplete, ReadIsOfOneVersion, ProvenanceIsKept |
| `SpoolFlush` | 3 machines' installs (one prints only), 3 settings files, 2 flushes, 2 days, 3 records (two of the first day), requests of 1 line, under fairness | OnlyRacedAreLost, SettingsAreMerged, AppendedAreStored |
| `Classify` | some 800 statements: a command for every handler, bare and in every construct, after the statements that move the directory | NoFalseRead, ContextIsTransparent, ShellContextIsTracked |
| `Evidence` | 16 sets of Rules in one Environment Profile, 4 of them in a second, and the default document, as either document; every set of up to 4 Actions, one of them in two forms, of none, one and two Operations | GroupsHaveOneDirection, OneWayEditsMoveOneWay, AdoptionAgreesWithMap, ResultsAgree, DefaultKeepsExceptions |
| `Conformance` | days of 3 ticks to the end of the third, worlds of 2 versions that are declared or of 2 to 3 calls, 1 run | DayIsCheckedAgainstItsVersion, FindingsCanBeActedOn, NoSilenceIsMissed |
| `WebClient` | 1 tab, 2 documents, 1 group, 2 verdicts, 2 events, 1 fault, under fairness | SeesOwnWrites, GroupsFollowReview, ShownReviewStaysClosed, PagesMoveOn |
| `EditorLostUpdate` | the same | expects NoLostUpdate to be violated (section 4) |

The exact constants are in the `.cfg` files and the MC modules. Why they are enough:
each hazard of section 1 is between two actors over one row or over one pair of
rows, so two requests, two reviews of one version, two servers with two jobs of one
run reach it; a plausible mistake in any of the guards (the mutants in
`PROJECT.json`, one for every property of every run) is caught on these instances.
The largest runs are `ReviewQueries` (2.4 million states, 1 minute), `Conformance`
and `Reviews` (2.1 million each, 1 to 2 minutes), `WebClient` (1 million, 3 minutes),
`TraceImport`
(1.1 million, 40 seconds) and `Replay` (with liveness, not quite 3 minutes).

* In `Reviews` requests overlap or come one after another, and `overlapped` tells which:
  OpenReviewHoldsCandidate and DecisionPinsContent are about the latter, beside
  completions and failures of runs, early and late, and the end of a request half way
  (the other two are about both). Bound (`SmallWhenOverlapped`): once requests have
  overlapped, a second run is requested only after an accept. Without the bound and
  without groups it has 4.5 million states and no error.
* `DecisionTransactions` was also run with three transactions over three reviews, and
  the safety properties of `Replay` with two runs, without an error.
* In `TraceImport` one command is cut within its last token when it is redacted, one
  tool use stands in both transcripts with different results, and one has no id. With
  its last line, an input with a string that ends with a name, the second transcript is
  refused; without it, it is stored.
* In `SpoolFlush` two records in one file make a batch that follows another, and the
  second day a file that is tried after the first one failed. The settings file is
  empty, or holds legacy, duplicate and foreign hooks.
* The statements of `Classify` nest constructs, strings after `-c` up to five deep, which
  is beyond `MaxReparseDepth`, and wrappers beyond six, which is the limit of the code.
  The forms the classifier overlooks or misreads are among them, with the exceptions the
  two properties name.
* The Rules of `Evidence` are one that asks for what cannot be undone, two that allow
  and one that denies, and they overlap, so that every pair of Effects occurs on one
  Operation; of the two Environment Profiles one trusts a remote and the other
  protects a branch, so Zones change as well as Effects. `TargetLimit`,
  `ProgramLimit` and `SampleEnd` are 1, so that every list is cut.
* In `Conformance` the third day lets a job be late, repeated or missed, and calls
  lie at either end of a day, identical ones beside each other.
* In `WebClient` two events are a write of the tab and another person's, or a write
  and leaving the page; the fault is a failed read, a lost answer or a reconnection.

`CHECK_DEADLOCK` is off where the system or a bound makes it stop: a decided version
and used up sequence values, an empty spool, transcripts written and imported, the
end of time, a classified script, a client with nothing left to ask.

## 4. Where the code and what is said of it differ

Two runs expect a violation. `EditorLostUpdate`: on a conflict a save is refused and
the latest copy is loaded (`docs/design.md:417`, `docs/design.md:1969`; the message
is `apps/web/src/shared/i18n/en.ts:56`). The editor's text is state that is set once,
while the version beside it is read again and its new hash is what Save sends: there
is no conflict, and the other person's edit is gone
(`routes/policies/$policyId/versions/$versionId.tsx:139`).

`TwoCreates` is the first of the reviews below. The others have no run of their own. They
were met while modelling; where a property leaves them out, its comment says so.

Reviews and decisions:

* "1 open review per Policy regardless of kind" (`docs/cutline.md:240`, `ports.ts:67`):
  the check (`review/app/module.ts:527`) and the insert of `createChangeReview` are
  awaits apart, and no index backs them. Two requests at once open two (`TwoCreates`).
* "withdrawn is the state after a person withdrew" (`docs/cutline.md:238`): a poll
  that read the review before writes `ready` by id (`module.ts:428`), and the review is
  open again with a draft for its candidate. The page shows it so,
  which `ShownReviewStaysClosed` leaves out.
* An accept's gate and its snapshot are two reads of the verdicts (`module.ts:656`,
  `:665`). One recorded in between is in the audit log of an accept whose gate it would
  have closed, while "only an `expected` Verdict passes" (`gate.ts:44`).
* The hashes of a decision "pin the exact replay inputs" (`packages/review/schema.ts:98`): the
  hash is read before submit freezes the draft, so an edit in between leaves review
  and decision with the hash of a document nobody replayed (`module.ts:517`, `:541`,
  `:566`). `DecisionPinsContent` is claimed until two requests have overlapped.
* The comment of `decide` that "a failed transition here is a defect"
  (`review/infra/review-store.ts:254`) is not so: two requests that both saw the
  review ready get there (`DecideRefused`), and the loser gets an internal error.
* "The Policy baseline is the most recent `accepted` version" (`docs/cutline.md:154`)
  is in the code the one with the highest number: when version 2 is accepted and then
  version 1, the baseline of the next review is still 2.
* Acknowledgements and drafts made from a finding go to the newest completed
  conformance run, by the finding's key, not to the run shown
  (`docs/acr/0015-job-queue.md:65`, `docs/acr/0013`); a finding that is shown may be
  "not found". `AnswersFitTogether` says what does hold.
* A report may show `ready` beside a decision taken meanwhile, or verdicts newer than
  those a decision took a snapshot of. Samples are decided again under the documents
  and Actions as they are now (`replay/app/module.ts:710`), which after a withdrawal
  and an edit are not those of the run. A run's `completed_at` is read before its
  transaction commits, so a run may come to stand before another that ended earlier.
  An unknown cursor starts `listChangeReviews` again, and ends the pages of adoption
  groups.
* A draft from a finding is created and then edited (`module.ts:865`): when the edit
  fails, an unchanged draft stays.

Replay, results, conformance:

* A failure before the claim "never overwrites a run another delivery claimed or
  completed" (`docs/acr/0015-job-queue.md:33`), unless it is the claim that throws:
  then the failure is written by id (`replay/app/module.ts:364`).
  `OthersAreLeftAlone` states what holds, and is proved.
* "The same `inputsHash` yields the same `resultHash`" (`docs/design.md:2216`): the
  hash covers the number of Actions and the last key, not `observedOutcome`, which a
  later import rewrites (`replay/app/module.ts:404`, `:454`).
* The severity of a Diff Group looks at the signature Operation only. An Action whose
  other Operations widened too, in a zone such as `agent_config`, is in a normal group
  if its signature Operation is harmless. A group's "Effect X to Y" is that of its
  signature Operation (`packages/replay/schema.ts`) and may differ from the Action's own.
* Of an adoption, the report's count of unanalyzable Actions goes by the worst of an
  Action's Operations, a group's own count by the deciding one. Shares are rounded
  one by one and add up to between 99.9 and 100.1 percent. "No Action changed Effect."
  is shown only where none was evaluated.
* A daily job delivered after midnight checks the wrong day, and a missed one is never
  made up (`missed: once` is of the schedule, not of the day); a read that fails ends
  the job as done. A declaration bears a time read before its insert. Two equal calls
  at once may be paired with each other's requests. `getObservations` has no order.
* The gaps on the findings page are computed of what is stored now, not of what the
  run read.

Traces, hooks, classifier:

* A cut is made "so the server's re-redaction finds nothing" (`parse.ts:82`), and
  redaction is "idempotent" (`redact.ts:18`): it is, text by text. A structured input is
  redacted string by string, while the server's rules run over the JSON of it. A string
  that ends with a name (`"API_KEY="`) and is followed by another is left as it is by
  the CLI; at the server the quotes between the two read as its value, and the Session
  is refused on every import. `RedactedOnce` excepts it.
  An older request that ends late puts outcomes back to unknown
  (`trace-store.ts:93`); `SettledIsComplete` is claimed of a transcript once an
  import of all of it ended that began to update with no older one left.
  "Arrival order" (`docs/design.md:2215`) is not kept.
* A flush "sends every spool file to the server and renames each sent file to
  `.sent`" (`spool-flush.command.ts:79`). It renames whatever is under the name by
  then (`:120`): a line appended after the read is in the `.sent` file, unsent.
* Hooks: a command of an override that does not name the entry is not recognised as
  ours, so a later install adds a second one and both fire; a managed command in a
  group with a narrow matcher stays there; an override without the suffix of an event
  is used for permission requests only; empty groups are dropped while the result is
  told as unchanged; an edit between the read and the write of an install is lost.
* Classifier: a program that is not known is "never a false `read`" (`programs.ts:8`), and
  every substitution becomes an Operation (`docs/design.md:695`). Told as a read though
  they act: a substitution beside a `bash -c` that is parsed again
  (`bash -c 'ls' "$(rm x)"`, `shell/parser.ts:62`), a second `-exec` of `find`, a
  command behind more than six wrappers, `git remote add`, `git worktree remove`,
  `git config --unset`, `sort -o`, `system()` in awk, `sudo -s`.
* Classifier, told as analyzable though it depends on a variable: `gh -R "$R"`,
  `npm publish --registry "$R"`, `scp web-$N:/p`. Told as less than done:
  `find -exec env X rm`; `find -exec cp {} dst` as a write without its source. Flags of wrappers
  with a value (`timeout -k`, `nice -n 10`) are not in the table. A `cd` in a
  subshell, in `bash -c` or in a substitution goes on outside of it; `builtin cd`,
  `command cd` and `pushd` are not followed; a path may climb above `~`. A bare
  `> f` is dropped; a redirect after a construct is attached to its last command.
  `bun` in the table of
  package managers is not reached. `gh api -f` is told as a fetch. The model marks
  what the classifier does not follow as `isAstray`, what it does not see as `isOverlooked`.

Web UI:

* Moving between two cached versions keeps the editor mounted, with the text of the
  other one. A failed background read takes the editor away.
* The first read of the groups, made while the replay runs, may arrive after the
  status and is not replaced: the list stays empty until the next read
  (`GroupsFollowReview` leaves this crossing out). A read under way when a page is left
  is joined when it is opened again, and may show an older status.
* A group's page does not poll. The groups of a review are asked for with a limit of
  200 and no next page: one beyond it can never get its verdict, and the gate stays
  shut. A refused write refetches nothing, and a decision leaves `policy-version` as
  it was.
* `createPolicy` looks and then creates (`policy/infra/module.ts:31`): two at once
  leave two Policies, which the home page refuses (`routes/index.tsx:359`).

## 5. Fairness

Runs of safety alone assume none. `Replay` assumes: a handler and a recovery go on
at the next await (weak; the event loop); the queue delivers a waiting job to a
server (strong, since servers come and go between deliveries); a server that is
down is started, and time passes (weak). Nothing makes a fault, a request, a stop or
a change of inputs happen. Both properties are stated for servers that restart
again and again and get through their recovery, since recovery runs at start only:
without restarts a run whose job was lost does stay queued, by design.
`SpoolFlush` assumes that flushes are run again and again and go on (weak, of the
steps of all of them together), that a file reached again and again is read, a line
offered again and again is accepted, and a file sent again and again is renamed
(strong, by some flush). The last three are what a server that comes back and a disk
that works amount to; without them a flush may fail at the same place for ever.
Nothing makes a hook append or a flush fail or end.
`WebClient` assumes that a replay ends and that the reads of the two keys that tell a
review's status go on (weak): the tab is visible, so its interval fires, and the server
answers in the end. Nothing makes anyone click, and any read may fail within the bound
on faults. `PagesMoveOn` needs no more: it is the poll that is shown not to stop.

## 6. What is proved

For every value of the constants that satisfies the assumptions named in the
modules, by TLAPS, with no step left out. The assumptions say what the constants are
(`DocumentOf[v]` is a document, `Null` no value, a page holds at least one row); those
that are more than that are `IsFiniteSet(Review)` of `ReviewAssumption`, that an
Action has finitely many Operations (`IsOperations`), and that the command an install is
given runs the CLI and is nobody else's (`InstallAssumption`).

* `ChangeReviewProofs`: `TypesHold`, `DecisionsAndVersionsAgree`, and `Refinement`
  (`Spec => ImplementsLifecycle`). The inductive invariant adds to TypeOK and
  DecisionsMatchVersions that a request holds the review and version its step
  needs: a review that is being created has no row and belongs to one request; a
  request past `ReadReview` names a review that exists. Every action then maps to
  one action of `PolicyLifecycle` or to a stutter, and only `Decide` extends the
  ledger. Through the refinement `AlwaysOneUnderReview` and `FinalIsFrozen`, which
  are proved of the abstract lifecycle, hold of the handlers.
  `CandidateIsFrozen` and `DecisionStaysPinned` hold of any number of requests until two
  of them have overlapped, beside runs that are completed and failed late and requests
  that end half way. Their invariant (`RowsFit`, `Fits`) says of each step of the one
  handler what its earlier awaits established and nobody else can undo: past
  `FindOpenReview` no review is open, and past `SubmitForReview` the candidate is in
  review with the hash that was read.
* `DecisionTransactionsProofs`: `ChainStaysIntact`, `TailsAreExtended`, `TypesHold`,
  `DeadlocksNeedAWithdrawal`, and `TransactionsAreSteps` (`Spec => ImplementsDecisionLog`). The argument of the
  first is the lock: a transaction between `LockTable` and its
  end is the only one with `locked`, so the tail it read is still the tail when it
  commits, and the sequence, which only grows and is drawn under the lock, puts its
  row last. The invariant says this of every transaction with a row or a tail and
  adds that every sequence value in the table is below `next`. For the refinement it
  adds (`LInv`) that a transaction that has written a version holds its row, so that
  the version stays in review until it ends, and that a row that waits for its commit
  has the next rank; each commit is then one step of the log, and everything else
  a stutter. For the deadlocks it adds (`HoldsFit`) which locks a transaction may hold at
  each of its statements: in a circle somebody waits for a review while another waits
  for him, for a version or the table, so he decides; who holds that review and waits himself is a withdrawal or a failure.
* `ReplayRunsProofs`: `RunsExecuteOnce`, `ResultsAreOfTheirInputs`,
  `RunsOfOthersAreLeftAlone`, `TypesHold`, and `RunsAreLifecycles`
  (`Spec => ImplementsRunLifecycle`).
  The invariant says that a run which was ever claimed is never queued again, so
  that its claim is unique, and that a worker past `Plan` holds the inputs of its
  run. A failure before the claim is written only over `queued`. For the refinement it
  adds (`LInv`) that a request past its plan, and so every run of the table, has inputs:
  a run that is being computed has no result, so it is not completed, and what `Record`
  writes is the one completion it gets.
* `HookSpoolProofs`: `OnlyRacedLinesAreLost`, `SpoolTypes`, `SettingsStayMerged`,
  `InstallsUseTheSpool`. Stored and raced only
  grow, so what has to be shown is that a rename moves nothing else away: the
  invariant says of a flush that is posting that each line of its file, as it is
  now, is among those it has still to post, stored, or raced, whatever other flushes
  have done to the file since it was read.
  Of the settings: what a merge leaves of ours is the target at one place
  (`MergeSettles`), and a merge changes nothing exactly where that is so
  (`SettledIsUnchanged`), so the second merge changes nothing. An install that writes
  nothing leaves a file that others may have written since it read; the invariant
  (`InstallInv`, checked by TLC first) therefore says that what is merged already of a
  document that was read is merged in the file. The new place at the end is why sections
  are finite.
* `TraceImportProofs`: `ProvenanceNeverChanges` from the
  row locks: a key that is inserted and not committed is no key of the table.
  For `SettledTranscriptsAreComplete` each request carries what its Session was parsed
  from (`LinesFit`) and has still to do what its step says (`StepsFit`). The latest import
  of a transcript has no older one beside it, and an Action that lacks the outcome the
  transcript tells is among the rows it has inserted, locked or is still to update; when
  it commits none is left, and nobody who tells less comes after it, since the
  transcript is written to its end (`HistoryFits`).
  `RedactedTextsOnly`: what `RedactText` leaves has no secret in it and no value after a
  name but a token, and neither has what `CutInput` leaves of it (`RedactedIsClean`,
  `StructuredIsClean`, `CutIsClean`). An import that stores has passed the server's
  check (`OnlyChecked`), and each Action it stores is made of a tool call it checked:
  this takes that the sequence `FlattenSeq` returns has the members of the sequences it
  is given (`FlattenedMembers`), which is an induction, made here by the least length
  that would contradict it (`LeastNatural`), and that of the tool calls with one key
  there is one none is preferred to (`ActionsOfToolCalls`). Assumed of the constants
  is that a transcript is made of lines, and that no name for nothing is a time or an id.
  `PagedReadsAreComplete` and `ReadsAreOfOneVersion`: rows are ordered, and their order
  never changes (`RowsAreOrdered`), so what the reader is still to see lies after its
  cursor, and while it reads no Action is of another version, since one that is inserted
  is of the server's (`ReaderFits`).
* `ReplayEvidenceProofs`: `DiffGroupsHaveOneDirection`, `EditsAreMonotone`,
  `AdoptionMatchesMap`, `EvidenceTypes`. The properties follow from the types alone,
  for any documents and Actions. The Operation that gave a widening Action its
  baseline Effect is among those that differ and nothing ranks above it, so the
  signature Operation has the Action's baseline Effect and widens as it does
  (`SignatureMovesWithAction`); a narrowing is the mirror image. An edit that adds
  only ask and deny Rules cannot lower the Effect of an Operation
  (`TighterOperation`), nor then the highest of an Action's (`TighterAction`). That a
  smallest index exists is the library's well-founded order on the naturals.
  `DefaultDocumentKeepsExceptions` looks at the Rules of the default document one by
  one. `ResultsTellTheSame` (`ResultsAgree`) is the largest: the passes over the
  Actions are counted against each other as sets. A sum of counts is the cardinality
  of a set of pairs (`Total`), so that sums over a partition by any key are the
  cardinality of the whole (`TotalByKey`, from `TotalOfParts` and `Numbered`), and
  each figure of a result is the number of the Actions that satisfy a condition.
  What remains is that the conditions of two passes are equivalent
  (`EffectsMakeUp`, `CountsOfBothAgree`, `FiguresOfBothAgree`), that the samples, the
  newest and the oldest members, leave no end out (`SamplesReachBothEnds`,
  `SamplesTell`), and bounds on rounded shares (`PartRatio`, `ThreeShares`). The
  invariant is that the Actions are finitely many.
* `ConformanceAndQueriesProofs`, of Conformance: `DaysAreCheckedAgainstTheirVersion`
  rests on what the job knows between its two reads
  (`DInv`): the declarations there were when it began are all still there, and the
  one it has chosen is the last of them before the day; that a last one exists is
  `LatestExists`. `SilencesAreShown` is about the order of times alone: of
  neighbours in the sorted list of times one has rank i and the other i + 1, so by a
  pigeonhole none lies between them, and a silence lies between two neighbours
  (`GapsAreTheSilence`). `DraftsOnlyMoveOneWay` is the half of
  `FindingsCanBeActedOn` that is about the Rule that is drafted: it applies to each
  Action of its finding, and adding it moves no decision against its Effect. It needs
  of a completed run that its findings were made of Actions there are
  (`RunsFit`). TLC checked `DInv` and `RunsFit` on the instance of the run.
  Of ReviewQueries: `ListingsAreComplete` and `AnswersFit`, by one invariant (`QInv`,
  which TLC checked on the instance of the run). Half of it is what the stores keep,
  whoever writes (`StoreGoesOn`): rows stay where they are among the others, or at
  least behind those they were behind (`Extends`, `KeepsOrder`), a completed run stays
  completed, a version has one decision, which it tells for good, and a review shown as
  ready or decided has its run and its decision. The other half says of the query what
  each of its awaits has established. A client's listing is in front of its cursor, and
  of what belongs to it all along everything in front of the cursor was given
  (`GroupsFit`, `ReviewsFit`); a page takes the first of what comes after the cursor and
  leaves nothing out up to the next one (`IsPage`: `PageFits` and `GroupPageFits` for
  both kinds of groups, `ReviewPageFits` for reviews, which come newest first); a loop
  over pages has the groups up to its cursor, and after it all of them if the run was
  completed before it began (`LoopFits`). This is where it matters that a cursor of
  Adoption Groups is looked for among all groups: a group that no longer matches
  still has its place. Of a report, the status that was read first is made up for by
  what is read after it (`ReportFits`); the map's best run is still among those to look
  at (`MapFits`); the run that is read for an act stands not before the one that was
  shown (`ActsFit`). Assumed is that a run's groups are injective, in the order of
  their keys for a change, and that a page holds at least one.
* `WebClientProofs`: `OwnWritesAreSeen`, `GroupsAreOfTheReview`,
  `ClosedReviewsStayClosed`, by one invariant (`ShownFits`). An answer, cached or on its
  way, never knows more of the tab's writes than the server has made, and if it tells
  of a closed review, the review is closed so at the server for good; an entry
  of the cache knows the writes the page was told of, or is about to be read again
  (`Knows`); likewise for groups after the replay (`HasGroups`). "For good" has the one
  exception of `reopened`, which the third theorem names.

Only model-checked, and why:

* liveness under fairness (`NoRunIsStuck`, `AppendedAreStored`,
  `PagesMoveOn`) is out of the prover's reach;
* the classifier (`NoFalseRead`, `ContextIsTransparent`, `ShellContextIsTracked`) is
  recursive over syntax, by RECURSIVE operators, of which the prover knows nothing;
* the first half of `FindingsCanBeActedOn`, that a finding tells what the runtime
  did, holds of the worlds of the instance: it depends on how a world's calls follow
  one another, of which the constants say nothing.

## 7. What is not modelled, and the plan

Left out for good:

* the HTTP shell: routing, authentication, schema validation, configuration, ids and
  clocks are glue around the modules;
* the probe and the local pipeline: a question set for a model provider, and offline
  tools that render files; neither holds state of the system;
* tree-sitter, pg-boss, PostgreSQL and TanStack Query, which are external and modelled
  as the code uses them;
* wording, layout and translations of pages and reports, the export of a document as
  settings, validation of documents;
* patterns: globs, markers and the regular expressions of redaction are the sets, or
  the classes of pieces, that they match.

Left out of a module that models the rest: `seedAcceptedPolicy` and the race of two
`createPolicy` calls (`PolicyVersions`); requests refused for ever for their secrets, lines
that do not parse, and settings that change while sessions run (`HookSpool`); an install
that ends half way through its write, which is in place (`HookInstall`); the path of the
home directory, which becomes `~` before an input is cut (`Transcripts`); imports
refused for their size (`TraceImport`); the gate for stale classifications in a
conformance run, which `TraceImport` has (`Conformance`); a completed run that a
delivery whose claim throws marks failed, which `RunLifecycle` has (`ReviewQueries`); the conformance page, the
forms that create a Policy and the queries for runs and samples (`WebClient`). Four
hazards have no property, and `PROJECT.json` says why.

Planned next: a second tab of `WebClient`, and the conformance page.
