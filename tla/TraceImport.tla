----------------------------- MODULE TraceImport -----------------------------
(***************************************************************************)
(* The import of transcripts that are still being written, and what reads  *)
(* the stored Actions meanwhile (apps/cli: import.command.ts;              *)
(* packages/trace: import-trace.ts, reclassify-actions.ts, trace-store.ts).*)
(*                                                                         *)
(* The agent appends lines. The CLI parses every transcript and posts one  *)
(* Session after the other; a request whose answer is lost goes on at the  *)
(* server. An import is one transaction whose statements take row locks    *)
(* and wait for each other.                                                *)
(***************************************************************************)
EXTENDS Transcripts

CONSTANTS
    File,               \* transcripts, each named by its sessionExternalId
    Transcript,         \* the lines the agent will have written to each
    Request,            \* bound: requests at the server at a time
    MaxRuns,            \* bound: runs of the CLI
    MaxVersion,         \* bound: classifier versions deployed
    KeyRank,            \* the order of the Action Keys
    BatchSize,          \* the Actions of one page
    Reclassifier,       \* the transaction of reclassifyActions
    Longest             \* the lines of the longest transcript

ASSUME ImportAssumption ==
    /\ IsFiniteSet(File) /\ Transcript \in [File -> Seq(Line)] /\ SessionRank \in [File -> Nat]
    /\ Null \notin Nat \cup STRING /\ MaxInputLength \in Nat
    /\ Longest \in Nat /\ \A f \in File : Len(Transcript[f]) \in 0..Longest
    /\ Reclassifier \notin Request /\ Request \cap {"idle", "next"} = {}
    /\ MaxRuns \in Nat /\ MaxVersion \in Nat \ {0} /\ BatchSize \in Nat \ {0}

VARIABLES
    written,      \* how many lines of each transcript there are
    cli,          \* the run of the CLI: [pc, queue, runs]
    pc, posted,   \* for every request: how far it is, and which Session it carries
    todo,         \* the Action Keys the statement of a transaction still has to visit
    inserted,     \* the keys a transaction has inserted
    locked,       \* the keys a transaction has updated
    sessions,     \* agent_sessions
    actions,      \* agent_actions
    imports,      \* trace_imports: what the imports of every Session have accepted
    version,      \* the version of the server's classifier
    reader,       \* a paged read: [pc, cursor, seen, before]
    latest,       \* history: requests that began to update with no older one left
    settled       \* history: transcripts imported whole by such a request

vars == <<written, cli, pc, posted, todo, inserted, locked, sessions, actions, imports,
          version, reader, latest, settled>>
requestVars == <<pc, posted, todo, inserted, locked>>
tables == <<sessions, actions, imports>>
history == <<latest, settled>>

Transaction == Request \cup {Reclassifier}

Idle == [pc |-> "idle", queue |-> <<>>, runs |-> 0]
NotReading == [pc |-> "idle", cursor |-> Null, seen |-> <<>>, before |-> {}]

Init ==
    /\ written = [f \in File |-> 0]
    /\ cli = Idle
    /\ pc = [t \in Transaction |-> "free"]
    /\ posted = [r \in Request |-> Null]
    /\ todo = [t \in Transaction |-> {}]
    /\ inserted = [t \in Transaction |-> {}]
    /\ locked = [t \in Transaction |-> {}]
    /\ sessions = {} /\ imports = [f \in {} |-> 0]
    /\ actions = [key \in {} |-> Null]
    /\ version = 1
    /\ reader = NotReading
    /\ latest = {}
    /\ settled = {}

-----------------------------------------------------------------------------
(* The agent and the CLI                                                    *)

\* The Session that the first n lines of a transcript make, and its Actions.
ParsedSession ==
    [f \in File |-> [n \in 0..Len(Transcript[f]) |->
        ParseTranscript(f, SubSeq(Transcript[f], 1, n))]]
ImportedActions ==
    [f \in File |-> [n \in 0..Len(Transcript[f]) |-> BuildActions(<<ParsedSession[f][n]>>)]]

\* The reads order text and times, and Null is neither.
ASSUME OrderAssumption ==
    /\ KeyRank \in [DOMAIN KeyRank -> Nat] /\ IsInjective(KeyRank) /\ Null \notin DOMAIN KeyRank
    /\ \A f \in File : \A n \in DOMAIN ImportedActions[f] :
          \A key \in DOMAIN ImportedActions[f][n] :
             key \in DOMAIN KeyRank /\ ImportedActions[f][n][key].occurredAt \in Nat

\* discoverTranscripts, parseSessions: all of them are read before one is sent, and
\* an unreadable one is skipped. The agent has gone on writing since the last run.
StartImport ==
    /\ cli.pc = "idle" /\ cli.runs < MaxRuns
    /\ \E unreadable \in SUBSET File :
       \E now \in [File -> 0..Longest],
          found \in [1..Cardinality(File \ unreadable) -> File \ unreadable] :
          /\ \A f \in File : now[f] \in written[f]..Len(Transcript[f])
          /\ \A i, j \in DOMAIN found : i < j => SessionRank[found[i]] < SessionRank[found[j]]
          /\ written' = now
          /\ cli' = [pc |-> "next", runs |-> cli.runs + 1,
                     queue |-> [i \in DOMAIN found |->
                       [sessionExternalId |-> found[i], lines |-> now[found[i]]]]]
    /\ UNCHANGED <<requestVars, tables, version, reader, history>>

IsFirstFree(r) == pc[r] = "free" /\ r = CHOOSE q \in Request : pc[q] = "free"

\* The next Session of the queue is posted.
Post(r) ==
    /\ cli.pc = "next" /\ cli.queue # <<>> /\ IsFirstFree(r)
    /\ posted' = [posted EXCEPT ![r] = Head(cli.queue)]
    /\ pc' = [pc EXCEPT ![r] = "posted"]
    /\ cli' = [cli EXCEPT !.pc = r]
    /\ UNCHANGED <<written, todo, inserted, locked, tables, version, reader, history>>

\* After a request, failed or not, the next Session is sent.
Advance == cli' = [cli EXCEPT !.pc = "next", !.queue = Tail(@)]

\* A request that ends is answered, if anyone still waits for the answer.
End(r) ==
    /\ IF cli.pc = r THEN Advance ELSE UNCHANGED cli
    /\ pc' = [pc EXCEPT ![r] = "free"]
    /\ posted' = [posted EXCEPT ![r] = Null]

\* The connection breaks: the request goes on at the server.
LoseAnswer(r) ==
    /\ cli.pc = r
    /\ Advance
    /\ UNCHANGED <<written, requestVars, tables, version, reader, history>>

EndImport ==
    /\ cli.pc = "next" /\ cli.queue = <<>>
    /\ cli' = [cli EXCEPT !.pc = "idle"]
    /\ UNCHANGED <<written, requestVars, tables, version, reader, history>>

-----------------------------------------------------------------------------
(* The import at the server                                                 *)

\* residualSecretKinds: the rules are applied again.
HasResidual(p) ==
    LET toolCalls == ParsedSession[p.sessionExternalId][p.lines].toolCalls
    IN \E i \in DOMAIN toolCalls : HasSecret(toolCalls[i].input.text)

Built(r) == ImportedActions[posted[r].sessionExternalId][posted[r].lines]

\* The keys of an import in the order of the VALUES.
NextKey(r) ==
    LET entries == Entries(<<ParsedSession[posted[r].sessionExternalId][posted[r].lines]>>)
    IN entries[SelectInSeq(entries, LAMBDA e : e.key \in todo[r])].key

\* What an import stores of a new Action.
Stored(action) ==
    [sessionExternalId |-> action.sessionExternalId, occurredAt |-> action.occurredAt,
     observedOutcome |-> action.observedOutcome, input |-> action.input,
     isSidechain |-> action.isSidechain, classifierVersion |-> version, hasContext |-> TRUE]

\* A transaction that has inserted the Session and not yet committed.
HoldsSession(q, session) ==
    pc[q] \in {"insert", "update"} /\ session \notin sessions /\ posted[q].sessionExternalId = session

\* importTrace: a Session with a secret is refused; else
\* INSERT INTO agent_sessions ... ON CONFLICT DO NOTHING
InsertSession(r) ==
    /\ pc[r] = "posted"
    /\ IF HasResidual(posted[r])
       THEN End(r) /\ UNCHANGED <<todo, inserted, locked>>
       ELSE /\ \A q \in Request \ {r} : ~HoldsSession(q, posted[r].sessionExternalId)
            /\ pc' = [pc EXCEPT ![r] = "insert"]
            /\ todo' = [todo EXCEPT ![r] = DOMAIN Built(r)]
            /\ UNCHANGED <<cli, posted, inserted, locked>>
    /\ UNCHANGED <<written, tables, version, reader, history>>

\* INSERT INTO agent_actions ... ON CONFLICT DO NOTHING, row by row: a row that
\* another transaction is inserting is waited for.
InsertAction(r) ==
    /\ pc[r] = "insert"
    /\ \E key \in todo[r] :
          /\ key = NextKey(r)
          /\ \A q \in Request \ {r} : key \notin inserted[q]
          /\ inserted' = [inserted EXCEPT ![r] = IF key \in DOMAIN actions THEN @ ELSE @ \cup {key}]
          /\ todo' = [todo EXCEPT ![r] = @ \ {key}]
    /\ UNCHANGED <<written, cli, pc, posted, locked, tables, version, reader, history>>

IsWhole(p) == p.lines = Len(Transcript[p.sessionExternalId])

\* A request that began with less of a transcript.
IsOlder(q, session) ==
    pc[q] # "free" /\ posted[q].sessionExternalId = session /\ ~IsWhole(posted[q])

\* A whole import that updates with no older one left is the latest of its transcript.
MarkLatest(r) ==
    /\ latest' = IF IsWhole(posted[r])
                    /\ ~\E q \in Request : IsOlder(q, posted[r].sessionExternalId)
                 THEN latest \cup {r} ELSE latest
    /\ UNCHANGED settled

\* Mutant: what is stored already is left alone.
BeginUpdateOfNothing(r) ==
    /\ pc[r] = "insert" /\ todo[r] = {}
    /\ pc' = [pc EXCEPT ![r] = "update"]
    /\ MarkLatest(r)
    /\ UNCHANGED <<written, cli, posted, todo, inserted, locked, tables, version, reader>>

\* UPDATE agent_actions SET observed_outcome: its snapshot holds the rows that differ.
BeginUpdate(r) ==
    /\ pc[r] = "insert" /\ todo[r] = {}
    /\ pc' = [pc EXCEPT ![r] = "update"]
    /\ todo' = [todo EXCEPT ![r] =
                  {key \in DOMAIN Built(r) \ inserted[r] :
                      actions[key].observedOutcome # Built(r)[key].observedOutcome}]
    /\ MarkLatest(r)
    /\ UNCHANGED <<written, cli, posted, inserted, locked, tables, version, reader>>

IsLockedBy(q, key) == key \in locked[q]

\* One row of it, in any order: its lock is waited for, and it is looked at again.
UpdateOutcome(r) ==
    /\ pc[r] = "update"
    /\ \E key \in todo[r] :
          /\ \A q \in Transaction \ {r} : ~IsLockedBy(q, key)
          /\ todo' = [todo EXCEPT ![r] = @ \ {key}]
          /\ locked' = [locked EXCEPT ![r] =
                IF actions[key].observedOutcome = Built(r)[key].observedOutcome
                THEN @ ELSE @ \cup {key}]
    /\ UNCHANGED <<written, cli, pc, posted, inserted, tables, version, reader, history>>

\* Mutant: ON CONFLICT DO UPDATE: the last import of an Action wins.
CommitOver(r) ==
    actions' = [key \in DOMAIN actions \cup inserted[r] |->
                  IF key \in inserted[r] \cup locked[r] THEN Stored(Built(r)[key]) ELSE actions[key]]

\* The tables after a transaction that inserted and updated Actions.
CommitActions(r) ==
    actions' = [key \in DOMAIN actions \cup inserted[r] |->
                  IF key \in inserted[r] THEN Stored(Built(r)[key])
                  ELSE IF key \in locked[r]
                       THEN [actions[key] EXCEPT !.observedOutcome = Built(r)[key].observedOutcome]
                       ELSE actions[key]]

\* Adds n to what the imports of a Session have accepted.
Accept(session, n) ==
    imports' = [f \in DOMAIN imports \cup {session} |->
                  (IF f \in DOMAIN imports THEN imports[f] ELSE 0) + (IF f = session THEN n ELSE 0)]

Commit(r) ==
    /\ pc[r] = "update" /\ todo[r] = {}
    /\ CommitActions(r)
    /\ sessions' = sessions \cup {posted[r].sessionExternalId}
    /\ Accept(posted[r].sessionExternalId, Cardinality(inserted[r]))
    /\ End(r)
    /\ inserted' = [inserted EXCEPT ![r] = {}]
    /\ locked' = [locked EXCEPT ![r] = {}]
    /\ settled' = IF r \in latest THEN settled \cup {posted[r].sessionExternalId} ELSE settled
    /\ latest' = latest \ {r}
    /\ UNCHANGED <<written, todo, version, reader>>

\* The transactions a transaction may wait for: the rows of an update come in an
\* order that the planner chooses.
WaitsFor(t) ==
    CASE pc[t] = "posted" /\ ~HasResidual(posted[t]) ->
           {q \in Request \ {t} : HoldsSession(q, posted[t].sessionExternalId)}
      [] pc[t] = "insert" /\ todo[t] # {} ->
           {q \in Request \ {t} : NextKey(t) \in inserted[q]}
      [] pc[t] \in {"update", "reclassify"} ->
           {q \in Transaction \ {t} : \E key \in todo[t] : IsLockedBy(q, key)}
      [] OTHER -> {}

\* Of the transactions that wait for each other one is aborted, which is an exception.
DeadlockVictim(t) ==
    /\ \E q \in WaitsFor(t) :
          t \in WaitsFor(q) \/ \E p \in WaitsFor(q) : t \in WaitsFor(p)
    /\ IF t \in Request THEN End(t)
       ELSE pc' = [pc EXCEPT ![t] = "free"] /\ UNCHANGED <<cli, posted>>
    /\ todo' = [todo EXCEPT ![t] = {}]
    /\ inserted' = [inserted EXCEPT ![t] = {}]
    /\ locked' = [locked EXCEPT ![t] = {}]
    /\ latest' = latest \ {t}
    /\ UNCHANGED <<written, tables, version, reader, settled>>

-----------------------------------------------------------------------------
(* Reclassification, deployment and paged reads                             *)

IsStale(key) == actions[key].classifierVersion # version

\* listStaleActions; what their Operations become is computed from what is read.
ListStale ==
    /\ pc[Reclassifier] = "free" /\ \E key \in DOMAIN actions : IsStale(key)
    /\ pc' = [pc EXCEPT ![Reclassifier] = "reclassify"]
    /\ todo' = [todo EXCEPT ![Reclassifier] = {key \in DOMAIN actions : IsStale(key)}]
    /\ UNCHANGED <<written, cli, posted, inserted, locked, tables, version, reader, history>>

\* Mutant: the cursor is the time alone.
PrecedesInTime(key, other) == actions[key].occurredAt < actions[other].occurredAt

\* The order of the reads: occurredAt, then actionKey.
Precedes(key, other) ==
    \/ actions[key].occurredAt < actions[other].occurredAt
    \/ /\ actions[key].occurredAt = actions[other].occurredAt
       /\ KeyRank[key] < KeyRank[other]

\* updateClassifications, row by row.
UpdateClassification ==
    /\ pc[Reclassifier] = "reclassify"
    /\ \E key \in todo[Reclassifier] :
          /\ \A other \in todo[Reclassifier] \ {key} : Precedes(key, other)
          /\ ~\E q \in Request : IsLockedBy(q, key)
          /\ todo' = [todo EXCEPT ![Reclassifier] = @ \ {key}]
          /\ locked' = [locked EXCEPT ![Reclassifier] = @ \cup {key}]
    /\ UNCHANGED <<written, cli, pc, posted, inserted, tables, version, reader, history>>

\* The stored form keeps no workspace: its context is lost.
CommitClassifications ==
    /\ pc[Reclassifier] = "reclassify" /\ todo[Reclassifier] = {}
    /\ actions' = [key \in DOMAIN actions |->
                     IF key \in locked[Reclassifier]
                     THEN [actions[key] EXCEPT !.classifierVersion = version, !.hasContext = FALSE]
                     ELSE actions[key]]
    /\ pc' = [pc EXCEPT ![Reclassifier] = "free"]
    /\ locked' = [locked EXCEPT ![Reclassifier] = {}]
    /\ UNCHANGED <<written, cli, posted, todo, inserted, sessions, imports, version, reader, history>>

\* Mutant: a read begins whatever version the Actions are of.
BeginReadOfAny ==
    /\ reader.pc = "idle"
    /\ reader' = [pc |-> "page", cursor |-> Null, seen |-> <<>>, before |-> DOMAIN actions]
    /\ UNCHANGED <<written, cli, requestVars, tables, version, history>>

\* prepare: nothing is read while an Action is stale.
BeginRead ==
    /\ reader.pc = "idle"
    /\ ~\E key \in DOMAIN actions : IsStale(key)
    /\ reader' = [pc |-> "page", cursor |-> Null, seen |-> <<>>, before |-> DOMAIN actions]
    /\ UNCHANGED <<written, cli, requestVars, tables, version, history>>

\* What is after the cursor.
RowsAfter(cursor) == {key \in DOMAIN actions : cursor = Null \/ Precedes(cursor, key)}

\* The first of some keys, in order, and no more than BatchSize of them.
IsPage(page, keys) ==
    /\ \A i, j \in DOMAIN page : i < j => Precedes(page[i], page[j])
    /\ \A key \in keys \ ToSet(page) :
          Len(page) = BatchSize /\ \A i \in DOMAIN page : ~Precedes(key, page[i])

\* streamActions: one page, each a statement of its own.
ReadPage ==
    /\ reader.pc = "page"
    /\ \E page \in BoundedSeq(RowsAfter(reader.cursor), BatchSize) :
          /\ IsPage(page, RowsAfter(reader.cursor))
          /\ reader' = [reader EXCEPT
                          !.seen = @ \o page,
                          !.cursor = IF page = <<>> THEN @ ELSE Last(page),
                          !.pc = IF Len(page) < BatchSize THEN "done" ELSE "page"]
    /\ UNCHANGED <<written, cli, requestVars, tables, version, history>>

EndRead ==
    /\ reader.pc = "done"
    /\ reader' = NotReading
    /\ UNCHANGED <<written, cli, requestVars, tables, version, history>>

\* The server is restarted with a new classifier: what was not committed is gone,
\* and who waits for an answer gets an error.
Deploy ==
    /\ version < MaxVersion
    /\ version' = version + 1
    /\ IF cli.pc \in Request THEN Advance ELSE UNCHANGED cli
    /\ pc' = [t \in Transaction |-> "free"]
    /\ posted' = [r \in Request |-> Null]
    /\ todo' = [t \in Transaction |-> {}]
    /\ inserted' = [t \in Transaction |-> {}]
    /\ locked' = [t \in Transaction |-> {}]
    /\ reader' = NotReading
    /\ latest' = {}
    /\ UNCHANGED <<written, tables, settled>>

Server(r) ==
    \/ InsertSession(r) \/ InsertAction(r) \/ BeginUpdate(r)
    \/ UpdateOutcome(r) \/ Commit(r)

Cli == StartImport \/ EndImport \/ \E r \in Request : Post(r)

Next ==
    \/ Cli
    \/ \E r \in Request : Server(r) \/ LoseAnswer(r)
    \/ \E t \in Transaction : DeadlockVictim(t)
    \/ ListStale \/ UpdateClassification \/ CommitClassifications
    \/ BeginRead \/ ReadPage \/ EndRead
    \/ Deploy

Spec == Init /\ [][Next]_vars

-----------------------------------------------------------------------------
(* Properties                                                               *)

\* What an Action is and where it comes from never changes once it is stored; its
\* outcome and its classification may.
ProvenanceIsKept ==
    [][\A key \in DOMAIN actions :
          /\ key \in DOMAIN actions'
          /\ actions'[key].sessionExternalId = actions[key].sessionExternalId
          /\ actions'[key].occurredAt = actions[key].occurredAt
          /\ actions'[key].input = actions[key].input]_vars

\* A string that ends with a name, as in "API_KEY=", is followed by a quote, which the
\* rules take for its value in the whole input and not in the string.
EndsWithName(use) ==
    /\ use.tool # "Bash"
    /\ \E i \in DOMAIN use.text :
          i > 1 /\ use.text[i - 1] = "name" /\ use.text[i] \in {"long", "end"}

\* No text a rule still matches is stored, and none is sent: a Session the CLI has
\* parsed is refused for its secrets only where a string ends with a name.
RedactedOnce ==
    /\ \A key \in DOMAIN actions : ~HasSecret(actions[key].input.text)
    /\ \A r \in Request : pc[r] # "free" /\ HasResidual(posted[r]) =>
          \E i \in 1..posted[r].lines :
             \E j \in DOMAIN Transcript[posted[r].sessionExternalId][i].uses :
                EndsWithName(Transcript[posted[r].sessionExternalId][i].uses[j])

Whole(f) == ImportedActions[f][Len(Transcript[f])]

\* An Action that no import of another transcript has.
IsOwnKey(f, key) ==
    \A g \in File \ {f} : \A n \in DOMAIN ImportedActions[g] : key \notin DOMAIN ImportedActions[g][n]

\* A transcript is stored whole once a whole import of it has updated with no older one
\* left, with the outcomes its results tell (those of an Action of two transcripts may
\* be the other's), whatever older imports came late, were lost or were run again.
SettledIsComplete ==
    \A f \in settled :
        \A key \in DOMAIN Whole(f) :
            /\ key \in DOMAIN actions
            /\ IsOwnKey(f, key) => actions[key].observedOutcome = Whole(f)[key].observedOutcome

\* A paged read returns what was stored when it began, each Action once and in
\* order, though every page is a statement of its own and imports go on.
ReadIsComplete ==
    /\ \A i, j \in DOMAIN reader.seen : i < j => Precedes(reader.seen[i], reader.seen[j])
    /\ reader.pc = "done" => reader.before \subseteq ToSet(reader.seen)

\* Nothing a read returns was classified by another version than the server's.
ReadIsOfOneVersion ==
    \A i \in DOMAIN reader.seen : ~IsStale(reader.seen[i])

=============================================================================
