-------------------------- MODULE TraceImportProofs --------------------------
(***************************************************************************)
(* For any transcripts, any number of requests and of deployed versions:   *)
(* what a stored Action is never changes, a transcript that was imported   *)
(* whole is stored whole, a paged read misses and mixes nothing, and no    *)
(* text a redaction rule matches is stored.                                *)
(*                                                                         *)
(* The argument is that of the locks: a key a transaction has inserted and *)
(* not committed is no key of the table, so that the commit of it replaces *)
(* nothing, and the two updates change one field or two of a row. An       *)
(* outcome is then that of the last import to update it, which `latest`    *)
(* follows from an import's update to the commit, and a page ends where    *)
(* the next begins, since the keys of stored Actions are never reordered.  *)
(* Texts are clean since a rule's token is no value to another rule; that  *)
(* every stored Action is that of some line takes the members of what      *)
(* FlattenSeq returns, by the least length that would be a counterexample. *)
(***************************************************************************)
EXTENDS TraceImport, FiniteSetTheorems, WellFoundedInduction, TLAPS

\* The columns of a row of agent_actions.
Columns(row) ==
    [sessionExternalId |-> row.sessionExternalId, occurredAt |-> row.occurredAt,
     observedOutcome |-> row.observedOutcome, input |-> row.input,
     isSidechain |-> row.isSidechain, classifierVersion |-> row.classifierVersion,
     hasContext |-> row.hasContext]

\* What the primary key and the row locks of PostgreSQL keep apart.
WritersExclude ==
    /\ \A r \in Request : inserted[r] \cap DOMAIN actions = {}
    /\ \A r, q \in Request : r # q => inserted[r] \cap inserted[q] = {}
    /\ \A t, u \in Transaction : t # u => locked[t] \cap locked[u] = {}

RowsAreWhole == \A key \in DOMAIN actions : actions[key] = Columns(actions[key])

IInv ==
    /\ DOMAIN inserted = Transaction
    /\ DOMAIN locked = Transaction
    /\ RowsAreWhole
    /\ WritersExclude

SameWhatAndWhere(row, other) ==
    /\ row.sessionExternalId = other.sessionExternalId
    /\ row.occurredAt = other.occurredAt
    /\ row.input = other.input

KeepsProvenance ==
    \A key \in DOMAIN actions :
        /\ key \in DOMAIN actions'
        /\ actions'[key].sessionExternalId = actions[key].sessionExternalId
        /\ actions'[key].occurredAt = actions[key].occurredAt
        /\ actions'[key].input = actions[key].input

-----------------------------------------------------------------------------

LEMMA StoredIsWhole == ASSUME NEW action PROVE Stored(action) = Columns(Stored(action))
  BY DEF Stored, Columns

\* An update of the outcome leaves the other columns as they are.
LEMMA OutcomeOnly ==
  ASSUME NEW row, row = Columns(row), NEW outcome
  PROVE  LET changed == [row EXCEPT !.observedOutcome = outcome]
         IN changed = Columns(changed) /\ SameWhatAndWhere(changed, row)
  BY DEF Columns, SameWhatAndWhere

\* An update of the version alone, and of the context alone.
LEMMA VersionOnly ==
  ASSUME NEW row, row = Columns(row), NEW v
  PROVE  LET changed == [row EXCEPT !.classifierVersion = v]
         IN changed = Columns(changed) /\ SameWhatAndWhere(changed, row)
  BY DEF Columns, SameWhatAndWhere

LEMMA ContextOnly ==
  ASSUME NEW row, row = Columns(row), NEW isKept
  PROVE  LET changed == [row EXCEPT !.hasContext = isKept]
         IN changed = Columns(changed) /\ SameWhatAndWhere(changed, row)
  BY DEF Columns, SameWhatAndWhere

Reclassified(row, v) == [row EXCEPT !.classifierVersion = v, !.hasContext = FALSE]

\* An update of the classification leaves the other columns as they are.
LEMMA ClassificationOnly ==
  ASSUME NEW row, row = Columns(row), NEW v
  PROVE  /\ Reclassified(row, v) = Columns(Reclassified(row, v))
         /\ SameWhatAndWhere(Reclassified(row, v), row)
PROOF
<1>1. PICK first : /\ first = [row EXCEPT !.classifierVersion = v]
                   /\ first = Columns(first) /\ SameWhatAndWhere(first, row)
  BY VersionOnly
<1>2. PICK isKept : Reclassified(row, v) = [first EXCEPT !.hasContext = isKept]
  BY <1>1, Zenon DEF Reclassified
<1>3. PICK second : /\ second = [first EXCEPT !.hasContext = isKept]
                    /\ second = Columns(second) /\ SameWhatAndWhere(second, first)
  BY <1>1, ContextOnly
<1>4. second = Reclassified(row, v)
  BY <1>2, <1>3, Zenon
<1> QED
  BY <1>1, <1>3, <1>4 DEF SameWhatAndWhere

LEMMA InitIInv == Init => IInv
PROOF
<1> SUFFICES ASSUME Init PROVE IInv
  OBVIOUS
<1>1. DOMAIN actions = {}
  BY DEF Init
<1>2. DOMAIN inserted = Transaction /\ DOMAIN locked = Transaction
  BY DEF Init
<1>3. \A t \in Transaction : inserted[t] = {} /\ locked[t] = {}
  BY DEF Init
<1>4. RowsAreWhole
  BY <1>1 DEF RowsAreWhole
<1>5. WritersExclude
  BY <1>1, <1>3 DEF WritersExclude, Transaction
<1> QED
  BY <1>2, <1>4, <1>5 DEF IInv

\* A step that only gives up keys and locks, and leaves the table alone.
LEMMA ReleaseKeeps ==
  ASSUME IInv, UNCHANGED actions,
         DOMAIN inserted' = Transaction, DOMAIN locked' = Transaction,
         \A t \in Transaction : inserted'[t] \subseteq inserted[t] /\ locked'[t] \subseteq locked[t]
  PROVE  IInv' /\ KeepsProvenance
  BY DEF IInv, RowsAreWhole, Columns, WritersExclude, KeepsProvenance, Transaction

\* A request inserts a key that no other is inserting and that the table has not.
LEMMA InsertKeeps ==
  ASSUME IInv, NEW r \in Request, InsertAction(r)
  PROVE  IInv' /\ KeepsProvenance
PROOF
<1> r \in Transaction
  BY DEF Transaction
<1>1. UNCHANGED <<actions, locked>>
  BY DEF InsertAction, tables
<1>2. PICK key \in todo[r] :
        /\ \A q \in Request \ {r} : key \notin inserted[q]
        /\ inserted' = [inserted EXCEPT ![r] = IF key \in DOMAIN actions THEN @ ELSE @ \cup {key}]
  BY DEF InsertAction
<1>3. /\ DOMAIN inserted' = Transaction
      /\ inserted'[r] = IF key \in DOMAIN actions THEN inserted[r] ELSE inserted[r] \cup {key}
      /\ \A t \in Transaction \ {r} : inserted'[t] = inserted[t]
  BY <1>2 DEF IInv
<1>4. \A q \in Request : inserted'[q] \cap DOMAIN actions = {}
  BY <1>3 DEF IInv, WritersExclude, Transaction
<1>5. \A p, q \in Request : p # q => inserted'[p] \cap inserted'[q] = {}
  BY <1>2, <1>3 DEF IInv, WritersExclude, Transaction
<1> QED
  BY <1>1, <1>3, <1>4, <1>5 DEF IInv, RowsAreWhole, Columns, WritersExclude, KeepsProvenance

\* A transaction locks a row that no other has locked.
LEMMA LockKeeps ==
  ASSUME IInv, UNCHANGED <<actions, inserted>>, DOMAIN locked' = Transaction,
         NEW t \in Transaction, NEW key, \A u \in Transaction \ {t} : key \notin locked[u],
         locked'[t] \subseteq locked[t] \cup {key},
         \A u \in Transaction \ {t} : locked'[u] = locked[u]
  PROVE  IInv' /\ KeepsProvenance
PROOF
<1>1. \A u, v \in Transaction : u # v => locked'[u] \cap locked'[v] = {}
  BY DEF IInv, WritersExclude
<1> QED
  BY <1>1 DEF IInv, RowsAreWhole, Columns, WritersExclude, KeepsProvenance

LEMMA UpdateOutcomeKeeps ==
  ASSUME IInv, NEW r \in Request, UpdateOutcome(r)
  PROVE  IInv' /\ KeepsProvenance
PROOF
<1> r \in Transaction
  BY DEF Transaction
<1>1. PICK key \in todo[r] :
        /\ \A q \in Transaction \ {r} : ~IsLockedBy(q, key)
        /\ locked' = [locked EXCEPT ![r] =
                IF actions[key].observedOutcome = Built(r)[key].observedOutcome
                THEN @ ELSE @ \cup {key}]
  BY DEF UpdateOutcome
<1>2. UNCHANGED <<actions, inserted>>
  BY DEF UpdateOutcome, tables
<1>3. /\ DOMAIN locked' = Transaction
      /\ locked'[r] \subseteq locked[r] \cup {key}
      /\ \A u \in Transaction \ {r} : locked'[u] = locked[u]
  BY <1>1 DEF IInv
<1> QED
  BY <1>1, <1>2, <1>3, LockKeeps DEF IsLockedBy

LEMMA UpdateClassificationKeeps ==
  ASSUME IInv, UpdateClassification
  PROVE  IInv' /\ KeepsProvenance
PROOF
<1> Reclassifier \in Transaction /\ Transaction \ {Reclassifier} \subseteq Request
  BY DEF Transaction
<1>1. PICK key \in todo[Reclassifier] :
        /\ ~\E q \in Request : IsLockedBy(q, key)
        /\ locked' = [locked EXCEPT ![Reclassifier] = @ \cup {key}]
  BY DEF UpdateClassification
<1>2. UNCHANGED <<actions, inserted>>
  BY DEF UpdateClassification, tables
<1>3. /\ DOMAIN locked' = Transaction
      /\ locked'[Reclassifier] \subseteq locked[Reclassifier] \cup {key}
      /\ \A u \in Transaction \ {Reclassifier} : locked'[u] = locked[u]
  BY <1>1 DEF IInv
<1> QED
  BY <1>1, <1>2, <1>3, LockKeeps DEF IsLockedBy

\* What is committed is new, or one column of what was there.
LEMMA CommitKeeps ==
  ASSUME IInv, NEW r \in Request, Commit(r)
  PROVE  IInv' /\ KeepsProvenance
PROOF
<1> r \in Transaction /\ Request \subseteq Transaction
  BY DEF Transaction
<1>1. /\ DOMAIN actions' = DOMAIN actions \cup inserted[r]
      /\ \A key \in inserted[r] : actions'[key] = Stored(Built(r)[key])
      /\ \A key \in DOMAIN actions \ inserted[r] :
            actions'[key] = IF key \in locked[r]
                            THEN [actions[key] EXCEPT !.observedOutcome = Built(r)[key].observedOutcome]
                            ELSE actions[key]
  BY DEF Commit, CommitActions
<1>2. /\ inserted' = [inserted EXCEPT ![r] = {}]
      /\ locked' = [locked EXCEPT ![r] = {}]
  BY DEF Commit
<1>3. /\ DOMAIN inserted' = Transaction /\ DOMAIN locked' = Transaction
      /\ inserted'[r] = {} /\ locked'[r] = {}
      /\ \A t \in Transaction \ {r} : inserted'[t] = inserted[t] /\ locked'[t] = locked[t]
  BY <1>2 DEF IInv
<1>4. inserted[r] \cap DOMAIN actions = {}
  BY DEF IInv, WritersExclude
<1>5. ASSUME NEW key \in DOMAIN actions
      PROVE  actions'[key] = Columns(actions'[key]) /\ SameWhatAndWhere(actions'[key], actions[key])
  <2>1. actions[key] = Columns(actions[key])
    BY DEF IInv, RowsAreWhole
  <2>2. CASE key \in locked[r]
    BY <1>1, <1>4, <2>1, <2>2, OutcomeOnly
  <2>3. CASE key \notin locked[r]
    BY <1>1, <1>4, <2>1, <2>3 DEF SameWhatAndWhere
  <2> QED
    BY <2>2, <2>3
<1>6. RowsAreWhole'
  <2>1. ASSUME NEW key \in inserted[r]
        PROVE  actions'[key] = Columns(actions'[key])
    BY <1>1, StoredIsWhole
  <2> QED
    BY <1>1, <1>5, <2>1 DEF RowsAreWhole, Columns
<1>7. \A q \in Request : inserted'[q] \cap DOMAIN actions' = {}
  BY <1>1, <1>3 DEF IInv, WritersExclude
<1>8. /\ \A p, q \in Request : p # q => inserted'[p] \cap inserted'[q] = {}
      /\ \A t, u \in Transaction : t # u => locked'[t] \cap locked'[u] = {}
  BY <1>3 DEF IInv, WritersExclude
<1>9. KeepsProvenance
  BY <1>1, <1>5 DEF KeepsProvenance, SameWhatAndWhere
<1> QED
  BY <1>3, <1>6, <1>7, <1>8, <1>9 DEF IInv, WritersExclude

LEMMA CommitClassificationsKeeps ==
  ASSUME IInv, CommitClassifications
  PROVE  IInv' /\ KeepsProvenance
PROOF
<1> Reclassifier \in Transaction
  BY DEF Transaction
<1>1. /\ DOMAIN actions' = DOMAIN actions
      /\ \A key \in DOMAIN actions :
            actions'[key] = IF key \in locked[Reclassifier]
                            THEN Reclassified(actions[key], version)
                            ELSE actions[key]
  BY Zenon DEF CommitClassifications, Reclassified
<1>2. inserted' = inserted /\ locked' = [locked EXCEPT ![Reclassifier] = {}]
  BY DEF CommitClassifications
<1>3. /\ DOMAIN locked' = Transaction /\ locked'[Reclassifier] = {}
      /\ \A t \in Transaction \ {Reclassifier} : locked'[t] = locked[t]
  BY <1>2 DEF IInv
<1>4. ASSUME NEW key \in DOMAIN actions
      PROVE  actions'[key] = Columns(actions'[key]) /\ SameWhatAndWhere(actions'[key], actions[key])
  <2>1. actions[key] = Columns(actions[key])
    BY DEF IInv, RowsAreWhole
  <2>2. CASE key \in locked[Reclassifier]
    BY <1>1, <2>1, <2>2, ClassificationOnly
  <2>3. CASE key \notin locked[Reclassifier]
    BY <1>1, <2>1, <2>3 DEF SameWhatAndWhere
  <2> QED
    BY <2>2, <2>3
<1>5. RowsAreWhole'
  BY <1>1, <1>4 DEF RowsAreWhole, Columns
<1>6. WritersExclude'
  BY <1>1, <1>2, <1>3 DEF IInv, WritersExclude
<1>7. KeepsProvenance
  BY <1>1, <1>4 DEF KeepsProvenance, SameWhatAndWhere
<1> QED
  BY <1>2, <1>3, <1>5, <1>6, <1>7 DEF IInv

-----------------------------------------------------------------------------

LEMMA NextKeeps == IInv /\ [Next]_vars => IInv' /\ KeepsProvenance
PROOF
<1> SUFFICES ASSUME IInv, [Next]_vars PROVE IInv' /\ KeepsProvenance
  OBVIOUS
<1>1. CASE UNCHANGED <<actions, inserted, locked>>
  <2>1. /\ DOMAIN inserted' = Transaction /\ DOMAIN locked' = Transaction
        /\ \A t \in Transaction : inserted'[t] \subseteq inserted[t] /\ locked'[t] \subseteq locked[t]
    BY <1>1 DEF IInv
  <2> QED
    BY <1>1, <2>1, ReleaseKeeps
<1>2. CASE UNCHANGED vars
  BY <1>1, <1>2 DEF vars
<1>3. CASE Cli
  BY <1>1, <1>3 DEF Cli, StartImport, EndImport, Post, requestVars, tables
<1>4. ASSUME NEW r \in Request, Server(r) \/ LoseAnswer(r)
      PROVE  IInv' /\ KeepsProvenance
  <2>1. CASE InsertSession(r) \/ BeginUpdate(r) \/ LoseAnswer(r)
    BY <1>1, <2>1 DEF InsertSession, BeginUpdate, LoseAnswer, requestVars, tables
  <2> QED
    BY <1>4, <2>1, InsertKeeps, UpdateOutcomeKeeps, CommitKeeps DEF Server
<1>5. ASSUME NEW t \in Transaction, DeadlockVictim(t)
      PROVE  IInv' /\ KeepsProvenance
  <2>1. /\ UNCHANGED actions
        /\ inserted' = [inserted EXCEPT ![t] = {}]
        /\ locked' = [locked EXCEPT ![t] = {}]
    BY <1>5 DEF DeadlockVictim, tables
  <2>2. /\ DOMAIN inserted' = Transaction /\ DOMAIN locked' = Transaction
        /\ \A u \in Transaction : inserted'[u] \subseteq inserted[u] /\ locked'[u] \subseteq locked[u]
    BY <2>1 DEF IInv
  <2> QED
    BY <2>1, <2>2, ReleaseKeeps
<1>6. CASE ListStale \/ BeginRead \/ ReadPage \/ EndRead
  <2>1. CASE ReadPage
    <3>1. UNCHANGED <<requestVars, tables>>
      BY <2>1, Zenon DEF ReadPage
    <3> QED
      BY <1>1, <3>1 DEF requestVars, tables
  <2> QED
    BY <1>1, <1>6, <2>1 DEF ListStale, BeginRead, EndRead, requestVars, tables
<1>7. CASE Deploy
  <2>1. /\ UNCHANGED actions
        /\ inserted' = [t \in Transaction |-> {}]
        /\ locked' = [t \in Transaction |-> {}]
    BY <1>7 DEF Deploy, tables
  <2>2. /\ DOMAIN inserted' = Transaction /\ DOMAIN locked' = Transaction
        /\ \A u \in Transaction : inserted'[u] \subseteq inserted[u] /\ locked'[u] \subseteq locked[u]
    BY <2>1
  <2> QED
    BY <2>1, <2>2, ReleaseKeeps
<1> QED
  BY <1>2, <1>3, <1>4, <1>5, <1>6, <1>7, UpdateClassificationKeeps, CommitClassificationsKeeps
  DEF Next

\* A stored Action keeps its Session, time and input, whatever is imported again, by
\* whom and in what order (INSERT ... ON CONFLICT DO NOTHING).
THEOREM ProvenanceNeverChanges == Spec => ProvenanceIsKept
PROOF
<1> DEFINE Keeps ==
      \A key \in DOMAIN actions :
          /\ key \in DOMAIN actions'
          /\ actions'[key].sessionExternalId = actions[key].sessionExternalId
          /\ actions'[key].occurredAt = actions[key].occurredAt
          /\ actions'[key].input = actions[key].input
<1>1. IInv /\ [Next]_vars => [Keeps]_vars
  BY NextKeeps DEF KeepsProvenance
<1> QED
  BY <1>1, InitIInv, NextKeeps, PTL DEF Spec, ProvenanceIsKept

-----------------------------------------------------------------------------
(* What the requests know of the transcripts                                *)

Imports == [sessionExternalId : File, lines : 0..Longest]

\* A Session is sent as it was parsed: nothing was written of its transcript since, if it
\* is still in the queue, and some lines may have been, if it was posted.
LinesFit ==
    /\ written \in [File -> 0..Longest]
    /\ \A f \in File : written[f] <= Len(Transcript[f])
    /\ cli \in [pc : {"idle", "next"} \cup Request, queue : Seq(Imports), runs : Nat]
    /\ cli.pc \in Request => cli.queue # <<>>
    /\ \A i \in DOMAIN cli.queue : cli.queue[i].lines = written[cli.queue[i].sessionExternalId]
    /\ DOMAIN pc = Transaction /\ DOMAIN posted = Request
    /\ \A r \in Request : pc[r] # "free" =>
          /\ posted[r] \in Imports
          /\ posted[r].lines <= written[posted[r].sessionExternalId]

\* No request comes to the server, and those that are there carry what they did.
NoneComes ==
    /\ DOMAIN pc' = Transaction /\ DOMAIN posted' = Request
    /\ \A q \in Request : pc'[q] # "free" => pc[q] # "free" /\ posted'[q] = posted[q]

\* The queue as it is, or without its first Session, or left behind.
QueueGoesOn ==
    \/ UNCHANGED cli
    \/ cli.pc \in Request /\ Advance
    \/ cli' = [cli EXCEPT !.pc = "idle"]

LEMMA InitLines == Init => LinesFit
PROOF
<1> SUFFICES ASSUME Init PROVE LinesFit
  OBVIOUS
<1>1. written \in [File -> 0..Longest] /\ \A f \in File : written[f] <= Len(Transcript[f])
  BY ImportAssumption DEF Init
<1>2. /\ cli = [pc |-> "idle", queue |-> <<>>, runs |-> 0]
      /\ cli \in [pc : {"idle", "next"} \cup Request, queue : Seq(Imports), runs : Nat]
      /\ cli.pc \notin Request
  BY ImportAssumption DEF Init, Idle
<1>3. /\ DOMAIN pc = Transaction /\ DOMAIN posted = Request
      /\ \A r \in Request : pc[r] = "free"
  BY DEF Init, Transaction
<1> QED
  BY <1>1, <1>2, <1>3 DEF LinesFit

LEMMA LinesStay ==
  ASSUME LinesFit, UNCHANGED written, NoneComes, QueueGoesOn
  PROVE  LinesFit'
PROOF
<1>1. /\ cli' \in [pc : {"idle", "next"} \cup Request, queue : Seq(Imports), runs : Nat]
      /\ cli'.pc \in Request => cli'.queue # <<>>
      /\ \A i \in DOMAIN cli'.queue : cli'.queue[i].lines = written[cli'.queue[i].sessionExternalId]
  <2>1. CASE UNCHANGED cli
    BY <2>1 DEF LinesFit
  <2>2. CASE cli' = [cli EXCEPT !.pc = "idle"]
    BY <2>2, ImportAssumption DEF LinesFit
  <2>3. CASE cli.pc \in Request /\ Advance
    <3>1. /\ cli.queue \in Seq(Imports) /\ cli.queue # <<>>
          /\ cli'.pc = "next" /\ cli'.queue = Tail(cli.queue) /\ cli'.runs = cli.runs
          /\ cli' = [pc |-> "next", queue |-> Tail(cli.queue), runs |-> cli.runs]
      BY <2>3 DEF LinesFit, Advance
    <3>2. /\ Tail(cli.queue) \in Seq(Imports)
          /\ \A i \in DOMAIN Tail(cli.queue) :
                i + 1 \in DOMAIN cli.queue /\ Tail(cli.queue)[i] = cli.queue[i + 1]
      BY <3>1
    <3> QED
      BY <3>1, <3>2, ImportAssumption DEF LinesFit
  <2> QED
    BY <2>1, <2>2, <2>3 DEF QueueGoesOn
<1>2. /\ DOMAIN pc' = Transaction /\ DOMAIN posted' = Request
      /\ \A r \in Request : pc'[r] # "free" =>
            /\ posted'[r] \in Imports
            /\ posted'[r].lines <= written[posted'[r].sessionExternalId]
  BY DEF LinesFit, NoneComes
<1> QED
  BY <1>1, <1>2 DEF LinesFit

\* A run parses what there is of every transcript.
LEMMA StartFits ==
  ASSUME LinesFit, StartImport
  PROVE  LinesFit'
PROOF
<1>1. PICK unreadable \in SUBSET File :
      \E now \in [File -> 0..Longest],
         found \in [1..Cardinality(File \ unreadable) -> File \ unreadable] :
          /\ \A f \in File : now[f] \in written[f]..Len(Transcript[f])
          /\ written' = now
          /\ cli' = [pc |-> "next", runs |-> cli.runs + 1,
                     queue |-> [i \in DOMAIN found |->
                       [sessionExternalId |-> found[i], lines |-> now[found[i]]]]]
  BY Zenon DEF StartImport
<1>2. PICK now \in [File -> 0..Longest],
           found \in [1..Cardinality(File \ unreadable) -> File \ unreadable] :
          /\ \A f \in File : now[f] \in written[f]..Len(Transcript[f])
          /\ written' = now
          /\ cli' = [pc |-> "next", runs |-> cli.runs + 1,
                     queue |-> [i \in DOMAIN found |->
                       [sessionExternalId |-> found[i], lines |-> now[found[i]]]]]
  BY <1>1
<1> DEFINE n == Cardinality(File \ unreadable)
           queue == [i \in DOMAIN found |-> [sessionExternalId |-> found[i], lines |-> now[found[i]]]]
<1>3. n \in Nat
  BY ImportAssumption, FS_Subset, FS_CardinalityType
<1>4. DOMAIN found = 1..n /\ \A i \in 1..n : found[i] \in File
  BY <1>2
<1> HIDE DEF n
<1>5. \A i \in 1..n : queue[i] \in Imports /\ queue[i].lines = now[queue[i].sessionExternalId]
  BY <1>2, <1>4 DEF Imports
<1>6. queue \in Seq(Imports) /\ DOMAIN queue = 1..n
  <2>1. DOMAIN queue = 1..n /\ queue = [i \in 1..n |-> queue[i]]
    BY <1>4
  <2> HIDE DEF queue
  <2>2. queue \in [1..n -> Imports]
    BY <1>5, <2>1
  <2> QED
    BY <1>3, <2>1, <2>2
<1>7. cli' = [pc |-> "next", runs |-> cli.runs + 1, queue |-> queue]
  BY <1>2, Zenon
<1> HIDE DEF queue
<1>8. cli' \in [pc : {"idle", "next"} \cup Request, queue : Seq(Imports), runs : Nat]
  BY <1>6, <1>7 DEF LinesFit
<1>9. \A i \in DOMAIN cli'.queue : cli'.queue[i].lines = written'[cli'.queue[i].sessionExternalId]
  BY <1>2, <1>5, <1>6, <1>7
<1>10. written' \in [File -> 0..Longest] /\ \A f \in File : written[f] <= written'[f] /\ written'[f] <= Len(Transcript[f])
  BY <1>2, ImportAssumption DEF LinesFit
<1>11. \A r \in Request : pc[r] # "free" =>
          posted[r] \in Imports /\ posted[r].lines <= written'[posted[r].sessionExternalId]
  BY <1>10, ImportAssumption DEF LinesFit, Imports
<1>12. UNCHANGED <<pc, posted>> /\ cli'.pc = "next"
  BY <1>7 DEF StartImport, requestVars
<1> QED
  BY <1>8, <1>9, <1>10, <1>11, <1>12, ImportAssumption DEF LinesFit

\* The Session posted is the first of the queue.
LEMMA PostFits ==
  ASSUME LinesFit, NEW r \in Request, Post(r)
  PROVE  LinesFit' /\ posted'[r].lines = written[posted'[r].sessionExternalId]
PROOF
<1>1. /\ cli.queue \in Seq(Imports) /\ cli.queue # <<>>
      /\ posted' = [posted EXCEPT ![r] = Head(cli.queue)]
      /\ pc' = [pc EXCEPT ![r] = "posted"]
      /\ cli' = [cli EXCEPT !.pc = r]
      /\ UNCHANGED written
  BY DEF Post, LinesFit
<1>2. /\ DOMAIN pc' = Transaction /\ DOMAIN posted' = Request
      /\ posted'[r] = cli.queue[1]
      /\ \A q \in Request \ {r} : posted'[q] = posted[q] /\ pc'[q] = pc[q]
  BY <1>1 DEF LinesFit
<1>3. 1 \in DOMAIN cli.queue /\ cli.queue[1] \in Imports
  BY <1>1
<1>4. cli.queue[1].lines = written[cli.queue[1].sessionExternalId]
  BY <1>3 DEF LinesFit
<1>5. \A q \in Request : pc'[q] # "free" =>
          posted'[q] \in Imports /\ posted'[q].lines <= written[posted'[q].sessionExternalId]
  BY <1>2, <1>3, <1>4 DEF LinesFit, Imports
<1>6. /\ cli' \in [pc : {"idle", "next"} \cup Request, queue : Seq(Imports), runs : Nat]
      /\ cli'.queue = cli.queue
  BY <1>1 DEF LinesFit
<1> QED
  BY <1>1, <1>2, <1>4, <1>5, <1>6 DEF LinesFit

Quiet == NoneComes /\ QueueGoesOn /\ UNCHANGED written

\* A request goes one step on, or ends.
LEMMA OneMoves ==
  ASSUME LinesFit, NEW r \in Transaction, NEW step, pc' = [pc EXCEPT ![r] = step],
         step = "free" \/ pc[r] # "free", UNCHANGED posted
  PROVE  NoneComes
  BY DEF LinesFit, NoneComes, Transaction

LEMMA OneEnds ==
  ASSUME LinesFit, NEW r \in Request, End(r)
  PROVE  NoneComes /\ QueueGoesOn
PROOF
<1>1. /\ pc' = [pc EXCEPT ![r] = "free"]
      /\ posted' = [posted EXCEPT ![r] = Null]
  BY DEF End
<1>2. NoneComes
  BY <1>1 DEF LinesFit, NoneComes, Transaction
<1>3. QueueGoesOn
  BY DEF End, QueueGoesOn
<1> QED
  BY <1>2, <1>3

LEMMA NoneMoves ==
  ASSUME LinesFit, UNCHANGED <<pc, posted>>
  PROVE  NoneComes
  BY DEF LinesFit, NoneComes

\* Only Post brings a request, and only StartImport lines.
LEMMA OthersAreQuiet ==
  ASSUME LinesFit, [Next]_vars, ~StartImport, ~\E r \in Request : Post(r)
  PROVE  Quiet
PROOF
<1>1. CASE UNCHANGED vars
  BY <1>1, NoneMoves DEF vars, Quiet, QueueGoesOn
<1>2. CASE EndImport
  BY <1>2, NoneMoves DEF EndImport, requestVars, Quiet, QueueGoesOn
<1>3. ASSUME NEW r \in Request, InsertSession(r)
      PROVE  Quiet
  <2>1. CASE HasResidual(posted[r])
    BY <1>3, <2>1, OneEnds DEF InsertSession, Quiet
  <2>2. CASE ~HasResidual(posted[r])
    <3>1. pc' = [pc EXCEPT ![r] = "insert"] /\ pc[r] # "free" /\ UNCHANGED <<posted, cli, written>>
      BY <1>3, <2>2 DEF InsertSession
    <3> QED
      BY <3>1, OneMoves DEF Transaction, Quiet, QueueGoesOn
  <2> QED
    BY <2>1, <2>2
<1>4. ASSUME NEW r \in Request, InsertAction(r) \/ UpdateOutcome(r)
      PROVE  Quiet
  BY <1>4, NoneMoves DEF InsertAction, UpdateOutcome, Quiet, QueueGoesOn
<1>5. ASSUME NEW r \in Request, BeginUpdate(r)
      PROVE  Quiet
  <2>1. pc' = [pc EXCEPT ![r] = "update"] /\ pc[r] # "free" /\ UNCHANGED <<posted, cli, written>>
    BY <1>5 DEF BeginUpdate
  <2> QED
    BY <2>1, OneMoves DEF Transaction, Quiet, QueueGoesOn
<1>6. ASSUME NEW r \in Request, Commit(r)
      PROVE  Quiet
  BY <1>6, OneEnds DEF Commit, Quiet
<1>7. ASSUME NEW r \in Request, LoseAnswer(r)
      PROVE  Quiet
  BY <1>7, NoneMoves DEF LoseAnswer, requestVars, Quiet, QueueGoesOn
<1>8. ASSUME NEW t \in Transaction, DeadlockVictim(t)
      PROVE  Quiet
  <2>1. CASE t \in Request
    BY <1>8, <2>1, OneEnds DEF DeadlockVictim, Quiet
  <2>2. CASE t \notin Request
    <3>1. pc' = [pc EXCEPT ![t] = "free"] /\ UNCHANGED <<posted, cli, written>>
      BY <1>8, <2>2 DEF DeadlockVictim
    <3> QED
      BY <3>1, OneMoves DEF Quiet, QueueGoesOn
  <2> QED
    BY <2>1, <2>2
<1>9. CASE ListStale
  <2>1. /\ pc' = [pc EXCEPT ![Reclassifier] = "reclassify"]
        /\ UNCHANGED <<posted, cli, written>>
    BY <1>9 DEF ListStale
  <2>2. NoneComes
    BY <2>1, ImportAssumption DEF LinesFit, NoneComes, Transaction
  <2> QED
    BY <2>1, <2>2 DEF Quiet, QueueGoesOn
<1>10. CASE UpdateClassification \/ CommitClassifications
  <2>1. CASE UpdateClassification
    BY <2>1, NoneMoves DEF UpdateClassification, Quiet, QueueGoesOn
  <2>2. CASE CommitClassifications
    <3>1. pc' = [pc EXCEPT ![Reclassifier] = "free"] /\ UNCHANGED <<posted, cli, written>>
      BY <2>2 DEF CommitClassifications
    <3> QED
      BY <3>1, OneMoves DEF Transaction, Quiet, QueueGoesOn
  <2> QED
    BY <1>10, <2>1, <2>2
<1>11. CASE BeginRead \/ ReadPage \/ EndRead
  <2>1. UNCHANGED <<pc, posted, cli, written>>
    BY <1>11, Zenon DEF BeginRead, ReadPage, EndRead, requestVars
  <2> QED
    BY <2>1, NoneMoves DEF Quiet, QueueGoesOn
<1>12. CASE Deploy
  <2>1. /\ pc' = [t \in Transaction |-> "free"] /\ posted' = [r \in Request |-> Null]
        /\ UNCHANGED written /\ (UNCHANGED cli \/ (cli.pc \in Request /\ Advance))
    BY <1>12 DEF Deploy
  <2>2. NoneComes
    BY <2>1 DEF NoneComes, Transaction
  <2> QED
    BY <2>1, <2>2 DEF Quiet, QueueGoesOn
<1> QED
  BY <1>1, <1>2, <1>3, <1>4, <1>5, <1>6, <1>7, <1>8, <1>9, <1>10, <1>11, <1>12
  DEF Next, Cli, Server

LEMMA NextLines == LinesFit /\ [Next]_vars => LinesFit'
PROOF
<1> SUFFICES ASSUME LinesFit, [Next]_vars PROVE LinesFit'
  OBVIOUS
<1>1. CASE Quiet
  BY <1>1, LinesStay DEF Quiet
<1> QED
  BY <1>1, StartFits, PostFits, OthersAreQuiet

-----------------------------------------------------------------------------
(* How far the requests are                                                 *)

\* What a request still has to visit, has inserted and has locked are Actions of its
\* import, those it has visited are its own or in the table, and those it updates are
\* in the table.
StepFits(r) ==
    /\ pc[r] \in {"free", "posted", "insert", "update"}
    /\ pc[r] \in {"free", "posted"} => todo[r] = {} /\ inserted[r] = {}
    /\ pc[r] # "update" => locked[r] = {}
    /\ pc[r] \in {"insert", "update"} =>
          todo[r] \subseteq DOMAIN Built(r) /\ inserted[r] \subseteq DOMAIN Built(r)
    /\ pc[r] = "insert" => DOMAIN Built(r) \ todo[r] \subseteq inserted[r] \cup DOMAIN actions
    /\ pc[r] = "update" =>
          /\ DOMAIN Built(r) \subseteq inserted[r] \cup DOMAIN actions
          /\ locked[r] \subseteq DOMAIN Built(r)
          /\ (todo[r] \cup locked[r]) \cap inserted[r] = {}

StepsFit ==
    /\ DOMAIN todo = Transaction
    /\ pc[Reclassifier] \in {"free", "reclassify"}
    /\ \A r \in Request : StepFits(r)

Agreement == IInv /\ LinesFit /\ StepsFit

\* The step of another: the tables only grow.
LEMMA StepKept ==
  ASSUME NEW r \in Request, StepFits(r), DOMAIN actions \subseteq DOMAIN actions',
         pc'[r] = pc[r], posted'[r] = posted[r], todo'[r] = todo[r],
         inserted'[r] = inserted[r], locked'[r] = locked[r]
  PROVE  StepFits(r)'
PROOF
<1>1. Built(r)' = Built(r)
  BY DEF Built
<1> QED
  BY <1>1 DEF StepFits

LEMMA FreeFits ==
  ASSUME NEW r \in Request, pc'[r] \in {"free", "posted"},
         todo'[r] = {}, inserted'[r] = {}, locked'[r] = {}
  PROVE  StepFits(r)'
  BY DEF StepFits

\* One transaction moves, and the others stay as they are.
Moves(t) ==
    /\ DOMAIN todo' = Transaction
    /\ DOMAIN actions \subseteq DOMAIN actions'
    /\ \A u \in Transaction \ {t} :
          /\ pc'[u] = pc[u] /\ todo'[u] = todo[u]
          /\ inserted'[u] = inserted[u] /\ locked'[u] = locked[u]
    /\ \A q \in Request \ {t} : posted'[q] = posted[q]

LEMMA MoveFits ==
  ASSUME StepsFit, NEW t \in Transaction, Moves(t),
         t \in Request => StepFits(t)',
         t = Reclassifier => pc'[t] \in {"free", "reclassify"}
  PROVE  StepsFit'
PROOF
<1>1. ASSUME NEW r \in Request PROVE StepFits(r)'
  <2>1. CASE r = t
    BY <2>1
  <2>2. CASE r # t
    BY <2>2, StepKept DEF StepsFit, Moves, Transaction
  <2> QED
    BY <2>1, <2>2
<1>2. DOMAIN todo' = Transaction /\ pc'[Reclassifier] \in {"free", "reclassify"}
  BY DEF StepsFit, Moves, Transaction
<1> QED
  BY <1>1, <1>2 DEF StepsFit

LEMMA InitSteps == Init => StepsFit
  BY ImportAssumption DEF Init, StepsFit, StepFits, Transaction

\* A request that ends leaves nothing behind.
LEMMA EndFits ==
  ASSUME Agreement, NEW r \in Request, End(r), DOMAIN actions \subseteq DOMAIN actions',
         DOMAIN todo' = Transaction,
         todo'[r] = {}, inserted'[r] = {}, locked'[r] = {},
         \A u \in Transaction \ {r} :
            todo'[u] = todo[u] /\ inserted'[u] = inserted[u] /\ locked'[u] = locked[u]
  PROVE  StepsFit'
PROOF
<1> r \in Transaction /\ r # Reclassifier
  BY ImportAssumption DEF Transaction
<1>1. pc' = [pc EXCEPT ![r] = "free"] /\ posted' = [posted EXCEPT ![r] = Null]
  BY DEF End
<1>2. Moves(r) /\ pc'[r] = "free" /\ todo'[r] = {} /\ inserted'[r] = {} /\ locked'[r] = {}
  BY <1>1 DEF Agreement, IInv, LinesFit, StepsFit, Moves
<1>3. StepFits(r)'
  BY <1>2, FreeFits
<1> QED
  BY <1>2, <1>3, MoveFits DEF Agreement

LEMMA InsertSessionFits ==
  ASSUME Agreement, NEW r \in Request, InsertSession(r)
  PROVE  StepsFit'
PROOF
<1> r \in Transaction /\ r # Reclassifier
  BY ImportAssumption DEF Transaction
<1>1. pc[r] = "posted" /\ todo[r] = {} /\ inserted[r] = {} /\ locked[r] = {} /\ UNCHANGED actions
  BY DEF InsertSession, Agreement, StepsFit, StepFits, tables
<1>2. CASE HasResidual(posted[r])
  <2>1. End(r) /\ UNCHANGED <<todo, inserted, locked>>
    BY <1>2 DEF InsertSession
  <2>2. DOMAIN todo' = Transaction
    BY <2>1 DEF Agreement, StepsFit
  <2> QED
    BY <1>1, <2>1, <2>2, EndFits
<1>3. CASE ~HasResidual(posted[r])
  <2>1. /\ pc' = [pc EXCEPT ![r] = "insert"]
        /\ todo' = [todo EXCEPT ![r] = DOMAIN Built(r)]
        /\ UNCHANGED <<posted, inserted, locked>>
    BY <1>3 DEF InsertSession
  <2>2. Moves(r) /\ pc'[r] = "insert" /\ todo'[r] = DOMAIN Built(r)
    BY <1>1, <2>1 DEF Agreement, LinesFit, StepsFit, Moves
  <2>3. Built(r)' = Built(r)
    BY <2>1 DEF Built
  <2>4. StepFits(r)'
    BY <1>1, <2>1, <2>2, <2>3 DEF StepFits
  <2> QED
    BY <2>2, <2>4, MoveFits DEF Agreement
<1> QED
  BY <1>2, <1>3

LEMMA InsertActionFits ==
  ASSUME Agreement, NEW r \in Request, InsertAction(r)
  PROVE  StepsFit'
PROOF
<1> r \in Transaction /\ r # Reclassifier
  BY ImportAssumption DEF Transaction
<1>1. PICK key \in todo[r] :
        /\ inserted' = [inserted EXCEPT ![r] = IF key \in DOMAIN actions THEN @ ELSE @ \cup {key}]
        /\ todo' = [todo EXCEPT ![r] = @ \ {key}]
  BY DEF InsertAction
<1>2. pc[r] = "insert" /\ UNCHANGED <<pc, posted, locked, actions>>
  BY DEF InsertAction, tables
<1>3. /\ Moves(r)
      /\ inserted'[r] = IF key \in DOMAIN actions THEN inserted[r] ELSE inserted[r] \cup {key}
      /\ todo'[r] = todo[r] \ {key}
  BY <1>1, <1>2 DEF Agreement, IInv, StepsFit, Moves
<1>4. Built(r)' = Built(r)
  BY <1>2 DEF Built
<1>5. StepFits(r)
  BY DEF Agreement, StepsFit
<1>6. StepFits(r)'
  BY <1>2, <1>3, <1>4, <1>5 DEF StepFits
<1> QED
  BY <1>3, <1>6, MoveFits DEF Agreement

\* The snapshot of the update: what the request has not inserted is in the table.
LEMMA BeginUpdateFits ==
  ASSUME Agreement, NEW r \in Request, BeginUpdate(r)
  PROVE  StepsFit'
PROOF
<1> r \in Transaction /\ r # Reclassifier
  BY ImportAssumption DEF Transaction
<1>1. /\ pc[r] = "insert" /\ todo[r] = {} /\ UNCHANGED <<posted, inserted, locked, actions>>
      /\ pc' = [pc EXCEPT ![r] = "update"]
      /\ todo' = [todo EXCEPT ![r] =
                    {key \in DOMAIN Built(r) \ inserted[r] :
                        actions[key].observedOutcome # Built(r)[key].observedOutcome}]
  BY DEF BeginUpdate, tables
<1>2. Moves(r) /\ pc'[r] = "update" /\ todo'[r] \subseteq DOMAIN Built(r) \ inserted[r]
  BY <1>1 DEF Agreement, LinesFit, StepsFit, Moves
<1>3. Built(r)' = Built(r)
  BY <1>1 DEF Built
<1>4. StepFits(r)
  BY DEF Agreement, StepsFit
<1>5. StepFits(r)'
  BY <1>1, <1>2, <1>3, <1>4 DEF StepFits
<1> QED
  BY <1>2, <1>5, MoveFits DEF Agreement

LEMMA UpdateOutcomeFits ==
  ASSUME Agreement, NEW r \in Request, UpdateOutcome(r)
  PROVE  StepsFit'
PROOF
<1> r \in Transaction /\ r # Reclassifier
  BY ImportAssumption DEF Transaction
<1>1. PICK key \in todo[r] :
        /\ todo' = [todo EXCEPT ![r] = @ \ {key}]
        /\ locked' = [locked EXCEPT ![r] =
              IF actions[key].observedOutcome = Built(r)[key].observedOutcome
              THEN @ ELSE @ \cup {key}]
  BY DEF UpdateOutcome
<1>2. pc[r] = "update" /\ UNCHANGED <<pc, posted, inserted, actions>>
  BY DEF UpdateOutcome, tables
<1>3. /\ Moves(r)
      /\ todo'[r] = todo[r] \ {key}
      /\ locked'[r] \subseteq locked[r] \cup {key}
  BY <1>1, <1>2 DEF Agreement, IInv, StepsFit, Moves
<1>4. Built(r)' = Built(r)
  BY <1>2 DEF Built
<1>5. StepFits(r)
  BY DEF Agreement, StepsFit
<1>6. StepFits(r)'
  BY <1>2, <1>3, <1>4, <1>5 DEF StepFits
<1> QED
  BY <1>3, <1>6, MoveFits DEF Agreement

\* What an import has inserted, and what it has locked, is stored as the import has it.
\* Of every other row nothing changes.
LEMMA CommitStores ==
  ASSUME Agreement, NEW r \in Request, Commit(r)
  PROVE  /\ DOMAIN actions' = DOMAIN actions \cup inserted[r]
         /\ \A key \in inserted[r] : actions'[key] = Stored(Built(r)[key])
         /\ locked[r] \subseteq DOMAIN actions
         /\ \A key \in locked[r] :
               actions'[key] = [actions[key] EXCEPT !.observedOutcome = Built(r)[key].observedOutcome]
         /\ \A key \in DOMAIN actions \ locked[r] : actions'[key] = actions[key]
PROOF
<1>1. /\ DOMAIN actions' = DOMAIN actions \cup inserted[r]
      /\ \A key \in DOMAIN actions' :
            actions'[key] = IF key \in inserted[r] THEN Stored(Built(r)[key])
                            ELSE IF key \in locked[r]
                            THEN [actions[key] EXCEPT !.observedOutcome = Built(r)[key].observedOutcome]
                            ELSE actions[key]
  BY DEF Commit, CommitActions
<1>2. inserted[r] \cap DOMAIN actions = {}
  BY DEF Agreement, IInv, WritersExclude
<1>3. pc[r] = "update" /\ StepFits(r)
  BY DEF Commit, Agreement, StepsFit
<1>4. locked[r] \subseteq DOMAIN actions /\ locked[r] \cap inserted[r] = {}
  BY <1>3 DEF StepFits
<1> QED
  BY <1>1, <1>2, <1>4

LEMMA CommitFits ==
  ASSUME Agreement, NEW r \in Request, Commit(r)
  PROVE  StepsFit'
PROOF
<1>1. /\ End(r) /\ todo[r] = {} /\ UNCHANGED todo
      /\ inserted' = [inserted EXCEPT ![r] = {}]
      /\ locked' = [locked EXCEPT ![r] = {}]
  BY DEF Commit
<1>2. DOMAIN actions \subseteq DOMAIN actions'
  BY CommitStores
<1>3. r \in Transaction /\ DOMAIN inserted = Transaction /\ DOMAIN locked = Transaction /\ DOMAIN todo = Transaction
  BY DEF Agreement, IInv, StepsFit, Transaction
<1> QED
  BY <1>1, <1>2, <1>3, EndFits

LEMMA VictimFits ==
  ASSUME Agreement, NEW t \in Transaction, DeadlockVictim(t)
  PROVE  StepsFit'
PROOF
<1>1. /\ todo' = [todo EXCEPT ![t] = {}]
      /\ inserted' = [inserted EXCEPT ![t] = {}]
      /\ locked' = [locked EXCEPT ![t] = {}]
      /\ UNCHANGED actions
  BY DEF DeadlockVictim, tables
<1>2. DOMAIN inserted = Transaction /\ DOMAIN locked = Transaction /\ DOMAIN todo = Transaction
  BY DEF Agreement, IInv, StepsFit
<1>3. CASE t \in Request
  <2>1. End(t)
    BY <1>3 DEF DeadlockVictim
  <2> QED
    BY <1>1, <1>2, <1>3, <2>1, EndFits
<1>4. CASE t \notin Request
  <2>1. pc' = [pc EXCEPT ![t] = "free"] /\ UNCHANGED posted
    BY <1>4 DEF DeadlockVictim
  <2>2. Moves(t) /\ pc'[t] = "free"
    BY <1>1, <1>2, <2>1 DEF Agreement, LinesFit, Moves
  <2> QED
    BY <1>4, <2>2, MoveFits DEF Agreement
<1> QED
  BY <1>3, <1>4

\* The reclassification changes no request and adds no row.
LEMMA ReclassifierFits ==
  ASSUME Agreement, ListStale \/ UpdateClassification \/ CommitClassifications
  PROVE  StepsFit'
PROOF
<1> Reclassifier \in Transaction /\ Reclassifier \notin Request
  BY ImportAssumption DEF Transaction
<1> /\ DOMAIN inserted = Transaction /\ DOMAIN locked = Transaction
    /\ DOMAIN todo = Transaction /\ DOMAIN pc = Transaction
  BY DEF Agreement, IInv, LinesFit, StepsFit
<1>1. CASE ListStale
  <2>1. Moves(Reclassifier) /\ pc'[Reclassifier] = "reclassify"
    BY <1>1 DEF ListStale, Moves, tables
  <2> QED
    BY <2>1, MoveFits DEF Agreement
<1>2. CASE UpdateClassification
  <2>1. /\ \E key \in todo[Reclassifier] :
              /\ todo' = [todo EXCEPT ![Reclassifier] = @ \ {key}]
              /\ locked' = [locked EXCEPT ![Reclassifier] = @ \cup {key}]
        /\ UNCHANGED <<pc, posted, inserted, actions>> /\ pc[Reclassifier] = "reclassify"
    BY <1>2 DEF UpdateClassification, tables
  <2>2. Moves(Reclassifier)
    BY <2>1 DEF Moves
  <2> QED
    BY <2>1, <2>2, MoveFits DEF Agreement
<1>3. CASE CommitClassifications
  <2>1. /\ DOMAIN actions' = DOMAIN actions
        /\ pc' = [pc EXCEPT ![Reclassifier] = "free"]
        /\ locked' = [locked EXCEPT ![Reclassifier] = {}]
        /\ UNCHANGED <<posted, todo, inserted>>
    BY <1>3 DEF CommitClassifications
  <2>2. Moves(Reclassifier) /\ pc'[Reclassifier] = "free"
    BY <2>1 DEF Moves
  <2> QED
    BY <2>2, MoveFits DEF Agreement
<1> QED
  BY <1>1, <1>2, <1>3

LEMMA PostStepFits ==
  ASSUME Agreement, NEW r \in Request, Post(r)
  PROVE  StepsFit'
PROOF
<1> r \in Transaction /\ r # Reclassifier
  BY ImportAssumption DEF Transaction
<1>1. /\ pc[r] = "free"
      /\ posted' = [posted EXCEPT ![r] = Head(cli.queue)]
      /\ pc' = [pc EXCEPT ![r] = "posted"]
      /\ UNCHANGED <<todo, inserted, locked, actions>>
  BY DEF Post, IsFirstFree, tables
<1>2. Moves(r) /\ pc'[r] = "posted"
  BY <1>1 DEF Agreement, LinesFit, StepsFit, Moves
<1>3. todo[r] = {} /\ inserted[r] = {} /\ locked[r] = {}
  BY <1>1 DEF Agreement, StepsFit, StepFits
<1>4. StepFits(r)'
  BY <1>1, <1>2, <1>3, FreeFits
<1> QED
  BY <1>2, <1>4, MoveFits DEF Agreement

LEMMA NextSteps == Agreement /\ [Next]_vars => StepsFit'
PROOF
<1> SUFFICES ASSUME Agreement, [Next]_vars PROVE StepsFit'
  OBVIOUS
<1>1. CASE UNCHANGED <<requestVars, actions>>
  <2>1. Moves(Reclassifier) /\ pc'[Reclassifier] \in {"free", "reclassify"}
    BY <1>1 DEF Agreement, StepsFit, Moves, requestVars
  <2>2. Reclassifier \in Transaction /\ Reclassifier \notin Request
    BY ImportAssumption DEF Transaction
  <2> QED
    BY <2>1, <2>2, MoveFits DEF Agreement
<1>2. CASE UNCHANGED vars
  BY <1>1, <1>2 DEF vars, requestVars
<1>3. CASE StartImport \/ EndImport
  BY <1>1, <1>3 DEF StartImport, EndImport, tables
<1>4. ASSUME NEW r \in Request, LoseAnswer(r)
      PROVE  StepsFit'
  BY <1>1, <1>4 DEF LoseAnswer, tables
<1>5. CASE BeginRead \/ ReadPage \/ EndRead
  <2>1. UNCHANGED <<requestVars, tables>>
    BY <1>5, Zenon DEF BeginRead, ReadPage, EndRead
  <2> QED
    BY <1>1, <2>1 DEF tables
<1>6. CASE Deploy
  <2>1. /\ pc' = [t \in Transaction |-> "free"] /\ todo' = [t \in Transaction |-> {}]
        /\ inserted' = [t \in Transaction |-> {}] /\ locked' = [t \in Transaction |-> {}]
    BY <1>6 DEF Deploy
  <2>2. \A r \in Request : StepFits(r)'
    BY <2>1, FreeFits DEF Transaction
  <2> QED
    BY <2>1, <2>2 DEF StepsFit, Transaction
<1> QED
  BY <1>2, <1>3, <1>4, <1>5, <1>6, PostStepFits, InsertSessionFits, InsertActionFits, BeginUpdateFits,
     UpdateOutcomeFits, CommitFits, VictimFits, ReclassifierFits
  DEF Next, Cli, Server

LEMMA InitAgreement == Init => Agreement
  BY InitIInv, InitLines, InitSteps DEF Agreement

LEMMA NextAgreement == Agreement /\ [Next]_vars => Agreement'
  BY NextKeeps, NextLines, NextSteps DEF Agreement

-----------------------------------------------------------------------------
(* Transcripts that are settled                                             *)

\* The outcome stored of an Action is the one its whole transcript tells.
OutcomeIsTold(f, key) ==
    key \in DOMAIN actions /\ actions[key].observedOutcome = Whole(f)[key].observedOutcome

NoOlder(f) == \A q \in Request : ~IsOlder(q, f)

\* What is left to do of the latest import of a transcript: no older one can disturb it,
\* and an Action that does not have the outcome told yet is about to get it.
LatestFitsOf(r) ==
    /\ r \in Request /\ pc[r] = "update"
    /\ IsWhole(posted[r])
    /\ NoOlder(posted[r].sessionExternalId)
    /\ \A key \in DOMAIN Whole(posted[r].sessionExternalId) :
          IsOwnKey(posted[r].sessionExternalId, key) =>
             \/ key \in inserted[r] \cup todo[r] \cup locked[r]
             \/ OutcomeIsTold(posted[r].sessionExternalId, key)

SettledFitsOf(f) ==
    /\ f \in File /\ written[f] = Len(Transcript[f])
    /\ NoOlder(f)
    /\ \A key \in DOMAIN Whole(f) :
          key \in DOMAIN actions /\ (IsOwnKey(f, key) => OutcomeIsTold(f, key))

HistoryFits ==
    /\ \A r \in latest : LatestFitsOf(r)
    /\ \A f \in settled : SettledFitsOf(f)

Outcomes == Agreement /\ HistoryFits

\* Of a transcript that is imported whole nothing more is written.
LEMMA WholeIsAll ==
  ASSUME LinesFit, NEW r \in Request, pc[r] # "free", IsWhole(posted[r])
  PROVE  LET f == posted[r].sessionExternalId
         IN f \in File /\ written[f] = Len(Transcript[f]) /\ Built(r) = Whole(f)
PROOF
<1>1. posted[r] \in Imports /\ posted[r].lines <= written[posted[r].sessionExternalId]
  BY DEF LinesFit
<1>2. posted[r].sessionExternalId \in File
  BY <1>1 DEF Imports
<1>3. /\ written[posted[r].sessionExternalId] \in 0..Longest
      /\ written[posted[r].sessionExternalId] <= Len(Transcript[posted[r].sessionExternalId])
      /\ Len(Transcript[posted[r].sessionExternalId]) \in 0..Longest
  BY <1>2, ImportAssumption DEF LinesFit
<1> QED
  BY <1>1, <1>2, <1>3, ImportAssumption DEF IsWhole, Built, Whole

\* No older request of a transcript comes once it is written to its end.
LEMMA NoOlderStays ==
  ASSUME LinesFit, [Next]_vars, NEW f \in File, written[f] = Len(Transcript[f]), NoOlder(f)
  PROVE  NoOlder(f)' /\ written'[f] = Len(Transcript[f])
PROOF
<1>1. CASE StartImport
  <2>1. UNCHANGED <<pc, posted>>
    BY <1>1 DEF StartImport, requestVars
  <2>2. written'[f] \in written[f]..Len(Transcript[f])
    BY <1>1 DEF StartImport
  <2>3. Len(Transcript[f]) \in Nat
    BY ImportAssumption
  <2> QED
    BY <2>1, <2>2, <2>3 DEF NoOlder, IsOlder, IsWhole
<1>2. ASSUME NEW r \in Request, Post(r)
      PROVE  NoOlder(f)' /\ written'[f] = Len(Transcript[f])
  <2>1. UNCHANGED written /\ posted'[r].lines = written[posted'[r].sessionExternalId]
    BY <1>2, PostFits DEF Post
  <2>2. \A q \in Request \ {r} : posted'[q] = posted[q] /\ pc'[q] = pc[q]
    BY <1>2 DEF Post, LinesFit, Transaction
  <2> QED
    BY <2>1, <2>2 DEF NoOlder, IsOlder, IsWhole
<1>3. CASE Quiet
  BY <1>3 DEF Quiet, NoneComes, NoOlder, IsOlder, IsWhole
<1> QED
  BY <1>1, <1>2, <1>3, OthersAreQuiet

\* What is told of the Actions of one transcript alone stays told: who else has locked
\* them has them of the same transcript, whole.
OutcomesStay ==
    \A f \in File : NoOlder(f) =>
        \A key \in DOMAIN Whole(f) :
            IsOwnKey(f, key) /\ OutcomeIsTold(f, key) => OutcomeIsTold(f, key)'

LEMMA CommitTells ==
  ASSUME Agreement, NEW r \in Request, Commit(r)
  PROVE  OutcomesStay
PROOF
<1> SUFFICES ASSUME NEW f \in File, NoOlder(f), NEW key \in DOMAIN Whole(f),
                    IsOwnKey(f, key), OutcomeIsTold(f, key)
             PROVE  OutcomeIsTold(f, key)'
  BY DEF OutcomesStay
<1>1. key \in DOMAIN actions /\ key \in DOMAIN actions'
  BY CommitStores DEF OutcomeIsTold
<1>2. CASE key \notin locked[r]
  <2>1. actions'[key] = actions[key]
    BY <1>1, <1>2, CommitStores
  <2> QED
    BY <1>1, <2>1 DEF OutcomeIsTold, Whole
<1>3. CASE key \in locked[r]
  <2>1. pc[r] = "update" /\ key \in DOMAIN Built(r)
    BY <1>3 DEF Commit, Agreement, StepsFit, StepFits
  <2>2. posted[r] \in Imports /\ posted[r].lines <= written[posted[r].sessionExternalId]
    BY <2>1 DEF Agreement, LinesFit
  <2> DEFINE g == posted[r].sessionExternalId
  <2>3. g \in File /\ posted[r].lines \in DOMAIN ImportedActions[g]
    BY <2>2, ImportAssumption DEF Agreement, LinesFit, Imports, ImportedActions
  <2>4. g = f
    BY <2>1, <2>3 DEF IsOwnKey, Built
  <2>5. IsWhole(posted[r])
    BY <2>1, <2>4 DEF NoOlder, IsOlder
  <2>6. Built(r) = Whole(f)
    BY <2>1, <2>4, <2>5, WholeIsAll DEF Agreement
  <2>7. actions'[key] = [actions[key] EXCEPT !.observedOutcome = Built(r)[key].observedOutcome]
    BY <1>3, CommitStores
  <2>8. actions[key] = Columns(actions[key])
    BY <1>1 DEF Agreement, IInv, RowsAreWhole
  <2>9. "observedOutcome" \in DOMAIN actions[key]
    BY <2>8 DEF Columns
  <2>10. actions'[key].observedOutcome = Whole(f)[key].observedOutcome
    BY <2>6, <2>7, <2>9
  <2> QED
    BY <1>1, <2>10 DEF OutcomeIsTold, Whole
<1> QED
  BY <1>2, <1>3

LEMMA VersionKeepsOutcome ==
  ASSUME NEW row, row = Columns(row), NEW v
  PROVE  [row EXCEPT !.classifierVersion = v].observedOutcome = row.observedOutcome
  BY DEF Columns

LEMMA ContextKeepsOutcome ==
  ASSUME NEW row, row = Columns(row), NEW isKept
  PROVE  [row EXCEPT !.hasContext = isKept].observedOutcome = row.observedOutcome
  BY DEF Columns

LEMMA ReclassifiedKeepsOutcome ==
  ASSUME NEW row, row = Columns(row), NEW v
  PROVE  Reclassified(row, v).observedOutcome = row.observedOutcome
PROOF
<1>1. PICK first : first = [row EXCEPT !.classifierVersion = v]
  OBVIOUS
<1>2. first = Columns(first) /\ first.observedOutcome = row.observedOutcome
  BY <1>1, VersionOnly, VersionKeepsOutcome
<1>3. PICK isKept : Reclassified(row, v) = [first EXCEPT !.hasContext = isKept]
  BY <1>1, Zenon DEF Reclassified
<1>4. PICK second : /\ second = [first EXCEPT !.hasContext = isKept]
                    /\ second.observedOutcome = first.observedOutcome
  BY <1>2, ContextKeepsOutcome
<1>5. second = Reclassified(row, v)
  BY <1>3, <1>4, Zenon
<1> QED
  BY <1>2, <1>4, <1>5

LEMMA OthersTell ==
  ASSUME Agreement, UNCHANGED actions \/ CommitClassifications
  PROVE  OutcomesStay
PROOF
<1>1. CASE UNCHANGED actions
  BY <1>1 DEF OutcomesStay, OutcomeIsTold, Whole
<1>2. CASE CommitClassifications
  <2>1. /\ DOMAIN actions' = DOMAIN actions
        /\ \A key \in DOMAIN actions :
              actions'[key] = IF key \in locked[Reclassifier]
                              THEN Reclassified(actions[key], version)
                              ELSE actions[key]
    BY <1>2, Zenon DEF CommitClassifications, Reclassified
  <2>2. \A key \in DOMAIN actions : actions'[key].observedOutcome = actions[key].observedOutcome
    BY <2>1, ReclassifiedKeepsOutcome DEF Agreement, IInv, RowsAreWhole
  <2> QED
    BY <2>1, <2>2 DEF OutcomesStay, OutcomeIsTold, Whole
<1> QED
  BY <1>1, <1>2

\* The latest import of a transcript goes on, or waits.
LEMMA LatestKept ==
  ASSUME Outcomes, [Next]_vars, OutcomesStay, NEW r \in latest,
         pc'[r] = "update", posted'[r] = posted[r],
         \A key \in inserted[r] \cup todo[r] \cup locked[r] :
            \/ key \in inserted'[r] \cup todo'[r] \cup locked'[r]
            \/ OutcomeIsTold(posted[r].sessionExternalId, key)'
  PROVE  LatestFitsOf(r)'
PROOF
<1> DEFINE f == posted[r].sessionExternalId
<1>1. LatestFitsOf(r)
  BY DEF Outcomes, HistoryFits
<1>2. r \in Request /\ pc[r] # "free" /\ IsWhole(posted[r]) /\ NoOlder(f)
  BY <1>1 DEF LatestFitsOf
<1>3. f \in File /\ written[f] = Len(Transcript[f])
  BY <1>2, WholeIsAll DEF Outcomes, Agreement
<1>4. NoOlder(f)'
  BY <1>2, <1>3, NoOlderStays DEF Outcomes, Agreement
<1>5. ASSUME NEW key \in DOMAIN Whole(f), IsOwnKey(f, key)
      PROVE  key \in inserted'[r] \cup todo'[r] \cup locked'[r] \/ OutcomeIsTold(f, key)'
  <2>1. key \in inserted[r] \cup todo[r] \cup locked[r] \/ OutcomeIsTold(f, key)
    BY <1>1, <1>5 DEF LatestFitsOf
  <2>2. CASE OutcomeIsTold(f, key)
    BY <1>2, <1>3, <1>5, <2>2 DEF OutcomesStay
  <2> QED
    BY <2>1, <2>2
<1> QED
  BY <1>2, <1>4, <1>5 DEF LatestFitsOf, IsWhole, IsOwnKey, Whole

LEMMA SettledKept ==
  ASSUME Outcomes, [Next]_vars, OutcomesStay, DOMAIN actions \subseteq DOMAIN actions', NEW f \in settled
  PROVE  SettledFitsOf(f)'
PROOF
<1>1. SettledFitsOf(f)
  BY DEF Outcomes, HistoryFits
<1>2. NoOlder(f)' /\ written'[f] = Len(Transcript[f])
  BY <1>1, NoOlderStays DEF SettledFitsOf, Outcomes, Agreement
<1>3. \A key \in DOMAIN Whole(f) : IsOwnKey(f, key) => OutcomeIsTold(f, key)'
  BY <1>1 DEF SettledFitsOf, OutcomesStay
<1> QED
  BY <1>1, <1>2, <1>3 DEF SettledFitsOf, IsOwnKey, Whole

\* A step that neither begins an update nor moves the latest import of a transcript.
LEMMA HistoryStays ==
  ASSUME Outcomes, [Next]_vars, OutcomesStay, DOMAIN actions \subseteq DOMAIN actions',
         latest' \subseteq latest, UNCHANGED settled,
         \A r \in latest' :
            /\ pc'[r] = pc[r] /\ posted'[r] = posted[r] /\ inserted'[r] = inserted[r]
            /\ todo'[r] = todo[r] /\ locked'[r] = locked[r]
  PROVE  HistoryFits'
PROOF
<1>1. ASSUME NEW r \in latest'
      PROVE  LatestFitsOf(r)'
  <2>1. r \in latest /\ pc'[r] = "update" /\ posted'[r] = posted[r]
    BY <1>1 DEF Outcomes, HistoryFits, LatestFitsOf
  <2> QED
    BY <1>1, <2>1, LatestKept
<1>2. \A f \in settled' : SettledFitsOf(f)'
  BY SettledKept
<1> QED
  BY <1>1, <1>2 DEF HistoryFits

\* An update begins: what the import has not inserted and does not visit is as told.
LEMMA BeginUpdateTells ==
  ASSUME Outcomes, [Next]_vars, NEW r \in Request, BeginUpdate(r)
  PROVE  HistoryFits'
PROOF
<1>1. /\ pc[r] = "insert" /\ UNCHANGED <<posted, inserted, locked, actions, settled>>
      /\ pc' = [pc EXCEPT ![r] = "update"]
      /\ todo' = [todo EXCEPT ![r] =
                    {key \in DOMAIN Built(r) \ inserted[r] :
                        actions[key].observedOutcome # Built(r)[key].observedOutcome}]
      /\ latest' = IF IsWhole(posted[r]) /\ NoOlder(posted[r].sessionExternalId)
                   THEN latest \cup {r} ELSE latest
  BY DEF BeginUpdate, MarkLatest, tables, NoOlder
<1>2. /\ r \in Transaction /\ pc'[r] = "update"
      /\ todo'[r] = {key \in DOMAIN Built(r) \ inserted[r] :
                        actions[key].observedOutcome # Built(r)[key].observedOutcome}
      /\ \A q \in Request \ {r} : pc'[q] = pc[q] /\ todo'[q] = todo[q]
  BY <1>1 DEF Outcomes, Agreement, LinesFit, StepsFit, Transaction
<1>3. OutcomesStay
  BY <1>1, OthersTell DEF Outcomes
<1>4. ASSUME NEW q \in latest
      PROVE  LatestFitsOf(q)'
  <2>1. q \in Request /\ q # r /\ pc[q] = "update"
    BY <1>1 DEF Outcomes, HistoryFits, LatestFitsOf
  <2> QED
    BY <1>1, <1>2, <1>3, <2>1, LatestKept
<1>5. ASSUME IsWhole(posted[r]), NoOlder(posted[r].sessionExternalId)
      PROVE  LatestFitsOf(r)'
  <2> PICK f : f = posted[r].sessionExternalId
    OBVIOUS
  <2>1. f \in File /\ Built(r) = Whole(f) /\ written[f] = Len(Transcript[f])
    BY <1>1, <1>5, WholeIsAll DEF Outcomes, Agreement
  <2>2. NoOlder(f)'
    BY <1>5, <2>1, NoOlderStays DEF Outcomes, Agreement
  <2>3. DOMAIN Built(r) \subseteq inserted[r] \cup DOMAIN actions
    BY <1>1 DEF Outcomes, Agreement, StepsFit, StepFits, BeginUpdate
  <2>4. \A key \in DOMAIN Whole(f) : key \in inserted[r] \cup todo'[r] \/ OutcomeIsTold(f, key)
    BY <1>2, <2>1, <2>3 DEF OutcomeIsTold
  <2> QED
    BY <1>1, <1>2, <1>5, <2>2, <2>4 DEF LatestFitsOf, IsWhole, IsOwnKey, Whole, OutcomeIsTold
<1>6. \A f \in settled' : SettledFitsOf(f)'
  BY <1>1, <1>3, SettledKept
<1> QED
  BY <1>1, <1>4, <1>5, <1>6 DEF HistoryFits

\* A row is visited: it is locked, or it is as told.
LEMMA UpdateOutcomeTells ==
  ASSUME Outcomes, [Next]_vars, NEW r \in Request, UpdateOutcome(r)
  PROVE  HistoryFits'
PROOF
<1>1. PICK key \in todo[r] :
        /\ todo' = [todo EXCEPT ![r] = @ \ {key}]
        /\ locked' = [locked EXCEPT ![r] =
              IF actions[key].observedOutcome = Built(r)[key].observedOutcome
              THEN @ ELSE @ \cup {key}]
  BY DEF UpdateOutcome
<1>2. pc[r] = "update" /\ UNCHANGED <<pc, posted, inserted, actions, latest, settled>>
  BY DEF UpdateOutcome, tables, history
<1>3. /\ r \in Transaction /\ todo'[r] = todo[r] \ {key}
      /\ locked'[r] = IF actions[key].observedOutcome = Built(r)[key].observedOutcome
                      THEN locked[r] ELSE locked[r] \cup {key}
      /\ \A q \in Request \ {r} : locked'[q] = locked[q] /\ todo'[q] = todo[q]
  BY <1>1 DEF Outcomes, Agreement, IInv, StepsFit, Transaction
<1>4. OutcomesStay
  BY <1>2, OthersTell DEF Outcomes
<1>5. ASSUME NEW q \in latest
      PROVE  LatestFitsOf(q)'
  <2>1. q \in Request /\ pc[q] = "update" /\ IsWhole(posted[q])
    BY DEF Outcomes, HistoryFits, LatestFitsOf
  <2>2. CASE q # r
    BY <1>2, <1>3, <1>4, <2>1, <2>2, LatestKept
  <2>3. CASE q = r
    <3>1. Built(r) = Whole(posted[r].sessionExternalId)
      BY <2>1, <2>3, WholeIsAll DEF Outcomes, Agreement
    <3>2. key \in DOMAIN actions
      BY <1>2 DEF Outcomes, Agreement, StepsFit, StepFits
    <3>3. key \in locked'[r] \/ OutcomeIsTold(posted[r].sessionExternalId, key)'
      BY <1>2, <1>3, <3>1, <3>2 DEF OutcomeIsTold, Whole
    <3> QED
      BY <1>2, <1>3, <1>4, <2>1, <2>3, <3>3, LatestKept
  <2> QED
    BY <2>2, <2>3
<1>6. \A f \in settled' : SettledFitsOf(f)'
  BY <1>2, <1>4, SettledKept
<1> QED
  BY <1>2, <1>5, <1>6 DEF HistoryFits

\* The latest import of a transcript commits: everything it has is told.
LEMMA CommitSettles ==
  ASSUME Outcomes, [Next]_vars, NEW r \in Request, Commit(r)
  PROVE  HistoryFits'
PROOF
<1>1. /\ pc[r] = "update" /\ todo[r] = {} /\ UNCHANGED todo /\ End(r)
      /\ inserted' = [inserted EXCEPT ![r] = {}]
      /\ locked' = [locked EXCEPT ![r] = {}]
      /\ settled' = IF r \in latest THEN settled \cup {posted[r].sessionExternalId} ELSE settled
      /\ latest' = latest \ {r}
  BY DEF Commit
<1>2. \A q \in Request \ {r} :
          /\ pc'[q] = pc[q] /\ posted'[q] = posted[q]
          /\ inserted'[q] = inserted[q] /\ locked'[q] = locked[q] /\ todo'[q] = todo[q]
  BY <1>1 DEF End, Outcomes, Agreement, IInv, LinesFit, Transaction
<1>3. OutcomesStay
  BY CommitTells DEF Outcomes
<1>4. ASSUME NEW q \in latest \ {r}
      PROVE  LatestFitsOf(q)'
  <2>1. q \in Request /\ q # r /\ pc[q] = "update"
    BY DEF Outcomes, HistoryFits, LatestFitsOf
  <2> QED
    BY <1>2, <1>3, <2>1, LatestKept
<1>5. DOMAIN actions' = DOMAIN actions \cup inserted[r]
  BY CommitStores DEF Outcomes
<1>6. \A f \in settled : SettledFitsOf(f)'
  BY <1>3, <1>5, SettledKept
<1>7. ASSUME r \in latest, NEW f, f = posted[r].sessionExternalId
      PROVE  SettledFitsOf(f)'
  <2>1. LatestFitsOf(r)
    BY <1>7 DEF Outcomes, HistoryFits
  <2>2. f \in File /\ Built(r) = Whole(f) /\ written[f] = Len(Transcript[f])
    BY <1>1, <1>7, <2>1, WholeIsAll DEF LatestFitsOf, Outcomes, Agreement
  <2>3. NoOlder(f)' /\ written'[f] = Len(Transcript[f])
    BY <1>7, <2>1, <2>2, NoOlderStays DEF LatestFitsOf, Outcomes, Agreement
  <2>4. DOMAIN Whole(f) \subseteq DOMAIN actions'
    BY <1>1, <1>5, <2>2 DEF Outcomes, Agreement, StepsFit, StepFits
  <2>5. ASSUME NEW key \in DOMAIN Whole(f), IsOwnKey(f, key)
        PROVE  OutcomeIsTold(f, key)'
    <3>1. CASE key \in inserted[r]
      <4>1. actions'[key] = Stored(Built(r)[key])
        BY <3>1, CommitStores DEF Outcomes
      <4> QED
        BY <2>2, <2>4, <2>5, <4>1 DEF OutcomeIsTold, Stored, Whole
    <3>2. CASE key \in locked[r]
      <4>1. /\ key \in DOMAIN actions
            /\ actions'[key] = [actions[key] EXCEPT !.observedOutcome = Built(r)[key].observedOutcome]
        BY <3>2, CommitStores DEF Outcomes
      <4>2. actions[key] = Columns(actions[key])
        BY <4>1 DEF Outcomes, Agreement, IInv, RowsAreWhole
      <4>3. "observedOutcome" \in DOMAIN actions[key]
        BY <4>2 DEF Columns
      <4> QED
        BY <2>2, <2>4, <2>5, <4>1, <4>3 DEF OutcomeIsTold, Whole
    <3>3. CASE OutcomeIsTold(f, key)
      BY <1>3, <1>7, <2>1, <2>2, <2>5, <3>3 DEF OutcomesStay, LatestFitsOf
    <3> QED
      BY <1>1, <1>7, <2>1, <2>5, <3>1, <3>2, <3>3 DEF LatestFitsOf
  <2> QED
    BY <2>2, <2>3, <2>4, <2>5 DEF SettledFitsOf, IsOwnKey, Whole
<1> QED
  BY <1>1, <1>4, <1>6, <1>7, Zenon DEF HistoryFits

LEMMA NextHistory == Outcomes /\ [Next]_vars => HistoryFits'
PROOF
<1> SUFFICES ASSUME Outcomes, [Next]_vars PROVE HistoryFits'
  OBVIOUS
<1> USE DEF history, tables, requestVars
<1>1. \A r \in latest : r \in Request /\ pc[r] = "update"
  BY DEF Outcomes, HistoryFits, LatestFitsOf
<1>2. /\ DOMAIN pc = Transaction /\ DOMAIN posted = Request /\ DOMAIN todo = Transaction
      /\ DOMAIN inserted = Transaction /\ DOMAIN locked = Transaction
      /\ Request \subseteq Transaction /\ Reclassifier \notin Request
  BY ImportAssumption DEF Outcomes, Agreement, IInv, LinesFit, StepsFit, Transaction
<1>3. CASE UNCHANGED <<requestVars, actions, history>>
  BY <1>3, OthersTell, HistoryStays DEF Outcomes
<1>4. CASE UNCHANGED vars
  BY <1>3, <1>4 DEF vars
<1>5. CASE StartImport \/ EndImport
  BY <1>3, <1>5 DEF StartImport, EndImport
<1>6. ASSUME NEW r \in Request, Post(r)
      PROVE  HistoryFits'
  <2>1. /\ pc[r] = "free" /\ UNCHANGED <<todo, inserted, locked, actions, latest, settled>>
        /\ \A q \in Request \ {r} : pc'[q] = pc[q] /\ posted'[q] = posted[q]
    BY <1>2, <1>6 DEF Post, IsFirstFree
  <2> QED
    BY <1>1, <2>1, OthersTell, HistoryStays DEF Outcomes
<1>7. ASSUME NEW r \in Request, LoseAnswer(r)
      PROVE  HistoryFits'
  BY <1>3, <1>7 DEF LoseAnswer
<1>8. ASSUME NEW r \in Request, InsertSession(r)
      PROVE  HistoryFits'
  <2>1. /\ pc[r] = "posted" /\ UNCHANGED <<inserted, locked, actions, latest, settled>>
        /\ \A q \in Request \ {r} : pc'[q] = pc[q] /\ posted'[q] = posted[q] /\ todo'[q] = todo[q]
    BY <1>2, <1>8 DEF InsertSession, End
  <2> QED
    BY <1>1, <2>1, OthersTell, HistoryStays DEF Outcomes
<1>9. ASSUME NEW r \in Request, InsertAction(r)
      PROVE  HistoryFits'
  <2>1. /\ pc[r] = "insert" /\ UNCHANGED <<pc, posted, locked, actions, latest, settled>>
        /\ \A q \in Request \ {r} : inserted'[q] = inserted[q] /\ todo'[q] = todo[q]
    BY <1>2, <1>9 DEF InsertAction
  <2> QED
    BY <1>1, <2>1, OthersTell, HistoryStays DEF Outcomes
<1>10. ASSUME NEW t \in Transaction, DeadlockVictim(t)
       PROVE  HistoryFits'
  <2>1. /\ latest' = latest \ {t} /\ UNCHANGED <<actions, settled>>
        /\ \A q \in Request \ {t} :
              /\ pc'[q] = pc[q] /\ posted'[q] = posted[q] /\ inserted'[q] = inserted[q]
              /\ todo'[q] = todo[q] /\ locked'[q] = locked[q]
    BY <1>2, <1>10 DEF DeadlockVictim, End
  <2> QED
    BY <1>1, <2>1, OthersTell, HistoryStays DEF Outcomes
<1>11. CASE ListStale \/ UpdateClassification
  <2>1. /\ UNCHANGED <<posted, inserted, actions, latest, settled>>
        /\ \A q \in Request : pc'[q] = pc[q] /\ todo'[q] = todo[q] /\ locked'[q] = locked[q]
    BY <1>2, <1>11 DEF ListStale, UpdateClassification
  <2> QED
    BY <1>1, <2>1, OthersTell, HistoryStays DEF Outcomes
<1>12. CASE CommitClassifications
  <2>1. /\ UNCHANGED <<posted, todo, inserted, latest, settled>> /\ DOMAIN actions' = DOMAIN actions
        /\ \A q \in Request : pc'[q] = pc[q] /\ locked'[q] = locked[q]
    BY <1>2, <1>12 DEF CommitClassifications
  <2> QED
    BY <1>1, <1>12, <2>1, OthersTell, HistoryStays DEF Outcomes
<1>13. CASE BeginRead \/ ReadPage \/ EndRead
  <2>1. UNCHANGED <<requestVars, tables, history>>
    BY <1>13, Zenon DEF BeginRead, ReadPage, EndRead
  <2> QED
    BY <1>3, <2>1
<1>14. CASE Deploy
  <2>1. latest' = {} /\ UNCHANGED <<actions, settled>>
    BY <1>14 DEF Deploy
  <2> QED
    BY <2>1, OthersTell, HistoryStays DEF Outcomes
<1> QED
  BY <1>4, <1>5, <1>6, <1>7, <1>8, <1>9, <1>10, <1>11, <1>12, <1>13, <1>14,
     BeginUpdateTells, UpdateOutcomeTells, CommitSettles
  DEF Next, Cli, Server

LEMMA InitOutcomes == Init => Outcomes
  BY InitAgreement DEF Init, Outcomes, HistoryFits

LEMMA NextOutcomes == Outcomes /\ [Next]_vars => Outcomes'
  BY NextHistory, NextAgreement DEF Outcomes

\* A transcript whose whole import has updated with no older import left is stored whole,
\* with the outcomes it tells, and stays so: whatever came late, was lost or was run again
\* (importTrace, writeImport).
THEOREM SettledTranscriptsAreComplete == Spec => []SettledIsComplete
PROOF
<1>1. Outcomes => SettledIsComplete
  BY DEF Outcomes, HistoryFits, SettledFitsOf, OutcomeIsTold, SettledIsComplete
<1> QED
  BY <1>1, InitOutcomes, NextOutcomes, PTL DEF Spec

-----------------------------------------------------------------------------
(* Reads                                                                    *)

\* Every row has a place in the order of the reads.
RowsAreOrdered ==
    \A key \in DOMAIN actions : key \in DOMAIN KeyRank /\ actions[key].occurredAt \in Nat

NoneIsStale == \A key \in DOMAIN actions : ~IsStale(key)

\* A read has seen, in order, what it was to see before its cursor, and while it goes on
\* no Action is of another version.
ReaderFits ==
    /\ DOMAIN reader = {"pc", "cursor", "seen", "before"}
    /\ reader.pc \in {"idle", "page", "done"}
    /\ reader.seen \in Seq(DOMAIN actions)
    /\ reader.before \subseteq DOMAIN actions
    /\ \A i, j \in DOMAIN reader.seen : i < j => Precedes(reader.seen[i], reader.seen[j])
    /\ reader.cursor = IF reader.seen = <<>> THEN Null ELSE reader.seen[Len(reader.seen)]
    /\ reader.pc = "idle" => reader.seen = <<>>
    /\ reader.pc # "idle" => NoneIsStale
    /\ \A key \in reader.before \ ToSet(reader.seen) :
          reader.pc = "page" /\ key \in RowsAfter(reader.cursor)

Reads == Agreement /\ RowsAreOrdered /\ ReaderFits

\* The order of the reads: rows that differ are ordered.
LEMMA PrecedesIsTotal ==
  ASSUME RowsAreOrdered, NEW key \in DOMAIN actions, NEW other \in DOMAIN actions, key # other
  PROVE  Precedes(key, other) \/ Precedes(other, key)
PROOF
<1>1. KeyRank[key] \in Nat /\ KeyRank[other] \in Nat /\ KeyRank[key] # KeyRank[other]
  BY OrderAssumption DEF RowsAreOrdered, IsInjective
<1>2. actions[key].occurredAt \in Nat /\ actions[other].occurredAt \in Nat
  BY DEF RowsAreOrdered
<1> QED
  BY <1>1, <1>2 DEF Precedes

LEMMA PrecedesIsTransitive ==
  ASSUME RowsAreOrdered, NEW key \in DOMAIN actions, NEW middle \in DOMAIN actions,
         NEW other \in DOMAIN actions, Precedes(key, middle), Precedes(middle, other)
  PROVE  Precedes(key, other)
PROOF
<1>1. KeyRank[key] \in Nat /\ KeyRank[middle] \in Nat /\ KeyRank[other] \in Nat
  BY OrderAssumption DEF RowsAreOrdered
<1>2. /\ actions[key].occurredAt \in Nat /\ actions[middle].occurredAt \in Nat
      /\ actions[other].occurredAt \in Nat
  BY DEF RowsAreOrdered
<1> QED
  BY <1>1, <1>2 DEF Precedes

LEMMA OutcomeKeepsVersion ==
  ASSUME NEW row, row = Columns(row), NEW outcome
  PROVE  [row EXCEPT !.observedOutcome = outcome].classifierVersion = row.classifierVersion
  BY DEF Columns

LEMMA ReclassifiedIsOfVersion ==
  ASSUME NEW row, row = Columns(row), NEW v
  PROVE  Reclassified(row, v).classifierVersion = v
PROOF
<1>1. PICK first : first = [row EXCEPT !.classifierVersion = v]
  OBVIOUS
<1>2. first = Columns(first) /\ first.classifierVersion = v
  BY <1>1 DEF Columns
<1>3. PICK isKept : Reclassified(row, v) = [first EXCEPT !.hasContext = isKept]
  BY <1>1, Zenon DEF Reclassified
<1>4. PICK second : second = [first EXCEPT !.hasContext = isKept]
  OBVIOUS
<1>5. second.classifierVersion = first.classifierVersion
  BY <1>2, <1>4 DEF Columns
<1>6. second = Reclassified(row, v)
  BY <1>3, <1>4, Zenon
<1> QED
  BY <1>2, <1>5, <1>6

\* New rows come with a commit only, and are of the version of the server.
LEMMA RowsCome ==
  ASSUME Agreement, [Next]_vars
  PROVE  /\ \A key \in DOMAIN actions' \ DOMAIN actions :
               \E r \in Request : /\ pc[r] = "update" /\ key \in inserted[r]
                                  /\ actions'[key] = Stored(Built(r)[key])
         /\ ~Deploy => (NoneIsStale => NoneIsStale')
PROOF
<1>1. CASE UNCHANGED actions /\ (UNCHANGED version \/ Deploy)
  BY <1>1 DEF NoneIsStale, IsStale
<1>2. ASSUME NEW r \in Request, Commit(r)
      PROVE  /\ \A key \in DOMAIN actions' \ DOMAIN actions :
                   /\ pc[r] = "update" /\ key \in inserted[r]
                   /\ actions'[key] = Stored(Built(r)[key])
             /\ NoneIsStale => NoneIsStale'
  <2>1. pc[r] = "update" /\ UNCHANGED version
    BY <1>2 DEF Commit
  <2>2. \A key \in DOMAIN actions : actions[key] = Columns(actions[key])
    BY DEF Agreement, IInv, RowsAreWhole
  <2>3. ASSUME NEW key \in inserted[r]
        PROVE  actions'[key].classifierVersion = version
    <3>1. actions'[key] = Stored(Built(r)[key])
      BY <1>2, <2>3, CommitStores
    <3> QED
      BY <3>1 DEF Stored
  <2>4. ASSUME NEW key \in DOMAIN actions
        PROVE  actions'[key].classifierVersion = actions[key].classifierVersion
    <3>1. PICK outcome : outcome = Built(r)[key].observedOutcome
      OBVIOUS
    <3>2. CASE key \in locked[r]
      <4>1. actions'[key] = [actions[key] EXCEPT !.observedOutcome = outcome]
        BY <1>2, <3>1, <3>2, CommitStores
      <4> QED
        BY <2>2, <4>1, OutcomeKeepsVersion
    <3>3. CASE key \notin locked[r]
      BY <1>2, <3>3, CommitStores
    <3> QED
      BY <3>2, <3>3
  <2>5. DOMAIN actions' = DOMAIN actions \cup inserted[r]
    BY <1>2, CommitStores
  <2>6. NoneIsStale => NoneIsStale'
    BY <2>1, <2>3, <2>4, <2>5 DEF NoneIsStale, IsStale
  <2> QED
    BY <1>2, <2>1, <2>5, <2>6, CommitStores
<1>3. CASE CommitClassifications
  <2>1. /\ DOMAIN actions' = DOMAIN actions /\ UNCHANGED version
        /\ \A key \in DOMAIN actions :
              actions'[key] = IF key \in locked[Reclassifier]
                              THEN Reclassified(actions[key], version)
                              ELSE actions[key]
    BY <1>3, Zenon DEF CommitClassifications, Reclassified
  <2>2. \A key \in DOMAIN actions :
          \/ actions'[key].classifierVersion = version
          \/ actions'[key].classifierVersion = actions[key].classifierVersion
    BY <2>1, ReclassifiedIsOfVersion DEF Agreement, IInv, RowsAreWhole
  <2> QED
    BY <2>1, <2>2 DEF NoneIsStale, IsStale
<1>4. CASE UNCHANGED vars
  BY <1>1, <1>4 DEF vars
<1>5. CASE Cli \/ Deploy \/ ListStale \/ UpdateClassification
  BY <1>1, <1>5 DEF Cli, StartImport, EndImport, Post, Deploy, ListStale, UpdateClassification, tables
<1>6. CASE BeginRead \/ ReadPage \/ EndRead
  <2>1. UNCHANGED <<tables, version>>
    BY <1>6, Zenon DEF BeginRead, ReadPage, EndRead
  <2> QED
    BY <1>1, <2>1 DEF tables
<1>7. ASSUME NEW r \in Request, InsertSession(r) \/ InsertAction(r) \/ BeginUpdate(r) \/ UpdateOutcome(r) \/ LoseAnswer(r)
      PROVE  UNCHANGED <<actions, version>>
  BY <1>7 DEF InsertSession, InsertAction, BeginUpdate, UpdateOutcome, LoseAnswer, tables
<1>8. ASSUME NEW t \in Transaction, DeadlockVictim(t)
      PROVE  UNCHANGED <<actions, version>>
  BY <1>8 DEF DeadlockVictim, tables
<1> QED
  BY <1>1, <1>2, <1>3, <1>4, <1>5, <1>6, <1>7, <1>8 DEF Next, Server

LEMMA NextRows ==
  ASSUME Agreement, RowsAreOrdered, [Next]_vars
  PROVE  RowsAreOrdered'
PROOF
<1>1. KeepsProvenance
  BY NextKeeps DEF Agreement
<1>2. ASSUME NEW key \in DOMAIN actions' \ DOMAIN actions
      PROVE  key \in DOMAIN KeyRank /\ actions'[key].occurredAt \in Nat
  <2>1. PICK r \in Request : /\ pc[r] = "update" /\ key \in inserted[r]
                             /\ actions'[key] = Stored(Built(r)[key])
    BY <1>2, RowsCome
  <2>2. key \in DOMAIN Built(r)
    BY <2>1 DEF Agreement, StepsFit, StepFits
  <2>3. posted[r] \in Imports /\ posted[r].lines <= written[posted[r].sessionExternalId]
    BY <2>1 DEF Agreement, LinesFit
  <2> DEFINE g == posted[r].sessionExternalId
  <2>4. g \in File /\ posted[r].lines \in DOMAIN ImportedActions[g]
    BY <2>3, ImportAssumption DEF Agreement, LinesFit, Imports, ImportedActions
  <2>5. key \in DOMAIN KeyRank /\ Built(r)[key].occurredAt \in Nat
    BY <2>2, <2>4, OrderAssumption DEF Built
  <2> QED
    BY <2>1, <2>5 DEF Stored
<1> QED
  BY <1>1, <1>2 DEF RowsAreOrdered, KeepsProvenance

\* What is stored keeps its place in the order.
LEMMA OrderStays ==
  ASSUME KeepsProvenance, NEW key \in DOMAIN actions, NEW other \in DOMAIN actions
  PROVE  Precedes(key, other)' <=> Precedes(key, other)
  BY DEF KeepsProvenance, Precedes

\* A step of another than the reader.
LEMMA ReaderStays ==
  ASSUME ReaderFits, KeepsProvenance, UNCHANGED reader, NoneIsStale => NoneIsStale'
  PROVE  ReaderFits'
PROOF
<1>1. DOMAIN actions \subseteq DOMAIN actions'
  BY DEF KeepsProvenance
<1>2. reader.seen \in Seq(DOMAIN actions)
  BY DEF ReaderFits
<1>3. reader.seen \in Seq(DOMAIN actions') /\ reader.before \subseteq DOMAIN actions'
  BY <1>1, <1>2 DEF ReaderFits
<1>4. \A i \in DOMAIN reader.seen : reader.seen[i] \in DOMAIN actions
  BY <1>2
<1>5. \A i, j \in DOMAIN reader.seen : i < j => Precedes(reader.seen[i], reader.seen[j])'
  BY <1>4, OrderStays DEF ReaderFits
<1>6. ASSUME NEW key \in reader.before \ ToSet(reader.seen)
      PROVE  reader.pc = "page" /\ key \in RowsAfter(reader.cursor)'
  <2>1. reader.pc = "page" /\ key \in RowsAfter(reader.cursor)
    BY <1>6 DEF ReaderFits
  <2>2. key \in DOMAIN actions /\ (reader.cursor = Null \/ Precedes(reader.cursor, key))
    BY <2>1 DEF RowsAfter
  <2>3. CASE reader.cursor = Null
    BY <1>1, <2>1, <2>2, <2>3 DEF RowsAfter
  <2>4. CASE reader.cursor # Null
    <3>1. reader.seen # <<>> /\ reader.cursor = reader.seen[Len(reader.seen)]
      BY <2>4 DEF ReaderFits
    <3>2. reader.cursor \in DOMAIN actions
      BY <1>2, <3>1
    <3>3. Precedes(reader.cursor, key)'
      BY <2>2, <2>4, <3>2, OrderStays
    <3> QED
      BY <1>1, <2>1, <2>2, <3>3 DEF RowsAfter
  <2> QED
    BY <2>3, <2>4
<1> QED
  BY <1>3, <1>5, <1>6 DEF ReaderFits

\* A read begins with nothing seen, and everything before it.
LEMMA BeginReadFits ==
  ASSUME BeginRead
  PROVE  ReaderFits'
PROOF
<1>1. /\ reader' = [pc |-> "page", cursor |-> Null, seen |-> <<>>, before |-> DOMAIN actions]
      /\ UNCHANGED <<actions, version>> /\ NoneIsStale
  BY DEF BeginRead, tables, NoneIsStale
<1>2. NoneIsStale'
  BY <1>1 DEF NoneIsStale, IsStale
<1> QED
  BY <1>1, <1>2 DEF ReaderFits, RowsAfter

LEMMA NotReadingFits ==
  ASSUME reader' = NotReading
  PROVE  ReaderFits'
  BY DEF NotReading, ReaderFits, ToSet

\* A page goes on where the one before ended, and leaves out only what comes after it.
LEMMA ReadPageFits ==
  ASSUME RowsAreOrdered, ReaderFits, ReadPage
  PROVE  ReaderFits'
PROOF
<1>1. PICK page \in BoundedSeq(RowsAfter(reader.cursor), BatchSize) :
        /\ IsPage(page, RowsAfter(reader.cursor))
        /\ reader' = [reader EXCEPT
                        !.seen = @ \o page,
                        !.cursor = IF page = <<>> THEN @ ELSE Last(page),
                        !.pc = IF Len(page) < BatchSize THEN "done" ELSE "page"]
  BY Zenon DEF ReadPage
<1>2. reader.pc = "page" /\ UNCHANGED <<actions, version>>
  BY Zenon DEF ReadPage, tables
<1> DEFINE seen == reader.seen
           rest == RowsAfter(reader.cursor)
           all == seen \o page
<1>3. seen \in Seq(DOMAIN actions) /\ NoneIsStale /\ NoneIsStale'
  BY <1>2 DEF ReaderFits, NoneIsStale, IsStale
<1>4. PICK n \in 0..BatchSize : page \in [1..n -> rest]
  BY <1>1 DEF BoundedSeq, SeqOf
<1>5. n \in Nat /\ page \in Seq(rest) /\ Len(page) = n /\ DOMAIN page = 1..n
  BY <1>4, ImportAssumption
<1>6. rest \subseteq DOMAIN actions
  BY DEF RowsAfter
<1>7. page \in Seq(DOMAIN actions) /\ all \in Seq(DOMAIN actions)
  BY <1>3, <1>5, <1>6
<1>8. /\ DOMAIN reader' = {"pc", "cursor", "seen", "before"}
      /\ reader'.seen = all /\ reader'.before = reader.before
      /\ reader'.cursor = IF page = <<>> THEN reader.cursor ELSE page[n]
      /\ reader'.pc = IF n < BatchSize THEN "done" ELSE "page"
  BY <1>1, <1>5 DEF ReaderFits, Last
<1>9. /\ Len(all) = Len(seen) + n
      /\ \A i \in DOMAIN seen : all[i] = seen[i]
      /\ \A i \in 1..n : all[Len(seen) + i] = page[i]
      /\ \A i \in DOMAIN all : i \in DOMAIN seen \/ \E k \in 1..n : i = Len(seen) + k
  <2>1. /\ Len(all) = Len(seen) + n
        /\ \A i \in DOMAIN seen : all[i] = seen[i]
        /\ \A i \in 1..n : all[Len(seen) + i] = page[i]
    BY <1>3, <1>5, <1>7
  <2>2. ASSUME NEW i \in DOMAIN all, i \notin DOMAIN seen
        PROVE  \E k \in 1..n : i = Len(seen) + k
    <3>1. Len(seen) \in Nat /\ i \in 1..(Len(seen) + n) /\ i \notin 1..Len(seen)
      BY <1>3, <1>5, <1>7, <2>1, <2>2
    <3>2. i - Len(seen) \in 1..n /\ i = Len(seen) + (i - Len(seen))
      BY <1>5, <3>1
    <3> QED
      BY <3>2
  <2> QED
    BY <2>1, <2>2
<1>10. reader.cursor = IF seen = <<>> THEN Null ELSE seen[Len(seen)]
  BY DEF ReaderFits
<1>11. \A i, j \in 1..n : i < j => Precedes(page[i], page[j])
  BY <1>1, <1>5 DEF IsPage
<1>12. ASSUME NEW i \in DOMAIN seen, NEW k \in 1..n
       PROVE  Precedes(seen[i], page[k])
  <2>1. seen # <<>> /\ Len(seen) \in DOMAIN seen /\ reader.cursor = seen[Len(seen)]
    BY <1>3, <1>10, <1>12
  <2>2. reader.cursor \in DOMAIN actions /\ reader.cursor # Null
    BY <1>3, <2>1, OrderAssumption DEF RowsAreOrdered
  <2>3. page[k] \in DOMAIN actions /\ Precedes(reader.cursor, page[k])
    BY <1>4, <1>12, <2>2 DEF RowsAfter
  <2>4. i = Len(seen) \/ i < Len(seen)
    BY <1>3, <1>12
  <2>5. seen[i] = reader.cursor \/ Precedes(seen[i], reader.cursor)
    BY <1>12, <2>1, <2>4 DEF ReaderFits
  <2>6. seen[i] \in DOMAIN actions
    BY <1>3, <1>12
  <2> QED
    BY <2>2, <2>3, <2>5, <2>6, PrecedesIsTransitive
<1> HIDE DEF all, rest
<1>13. ASSUME NEW i \in DOMAIN all, NEW j \in DOMAIN all, i < j
       PROVE  Precedes(all[i], all[j])
  <2>1. CASE i \in DOMAIN seen /\ j \in DOMAIN seen
    BY <1>9, <1>13, <2>1 DEF ReaderFits
  <2>2. CASE i \in DOMAIN seen /\ j \notin DOMAIN seen
    BY <1>9, <1>12, <1>13, <2>2
  <2>3. CASE i \notin DOMAIN seen
    <3>1. PICK k \in 1..n : i = Len(seen) + k
      BY <1>9, <2>3
    <3>2. j \notin DOMAIN seen
      BY <1>3, <1>13, <3>1
    <3>3. PICK l \in 1..n : j = Len(seen) + l
      BY <1>9, <3>2
    <3>4. k < l
      BY <1>3, <1>13, <3>1, <3>3
    <3> QED
      BY <1>9, <1>11, <3>1, <3>3, <3>4
  <2> QED
    BY <2>1, <2>2, <2>3
<1>14. reader'.cursor = IF all = <<>> THEN Null ELSE all[Len(all)]
  <2>1. CASE n = 0
    <3>1. page = <<>> /\ all = seen
      BY <1>3, <1>5, <2>1 DEF all
    <3> QED
      BY <1>8, <1>10, <3>1
  <2>2. CASE n # 0
    <3>1. page # <<>> /\ n \in 1..n /\ all # <<>>
      BY <1>3, <1>5, <1>7, <1>9, <2>2
    <3> QED
      BY <1>8, <1>9, <3>1
  <2> QED
    BY <2>1, <2>2
<1>15. ASSUME NEW key \in reader.before \ ToSet(all)
       PROVE  reader'.pc = "page" /\ key \in RowsAfter(reader'.cursor)
  <2>1. key \notin ToSet(seen) /\ key \notin ToSet(page)
    <3>1. DOMAIN seen \subseteq DOMAIN all /\ \A k \in 1..n : Len(seen) + k \in DOMAIN all
      BY <1>3, <1>5, <1>7, <1>9
    <3> QED
      BY <1>5, <1>9, <1>15, <3>1 DEF ToSet
  <2>2. key \in rest /\ key \in DOMAIN actions
    BY <1>6, <1>15, <2>1 DEF ReaderFits, rest
  <2>3. n = BatchSize /\ \A i \in 1..n : ~Precedes(key, page[i])
    BY <1>1, <1>5, <2>1, <2>2 DEF IsPage, rest
  <2>4. n \in 1..n /\ page # <<>>
    BY <1>5, <2>3, ImportAssumption
  <2>5. page[n] \in DOMAIN actions /\ page[n] # key
    BY <1>5, <1>7, <2>1, <2>4 DEF ToSet
  <2>6. Precedes(page[n], key)
    BY <2>2, <2>3, <2>4, <2>5, PrecedesIsTotal
  <2> QED
    BY <1>5, <1>8, <2>2, <2>3, <2>4, <2>6, ImportAssumption DEF RowsAfter
<1>16. reader'.pc \in {"page", "done"} /\ reader'.before \subseteq DOMAIN actions
  BY <1>8 DEF ReaderFits
<1>17. (\A key \in reader.before \ ToSet(reader.seen) :
          reader.pc = "page" /\ key \in RowsAfter(reader.cursor))'
  BY <1>2, <1>8, <1>15 DEF RowsAfter, Precedes
<1>18. (\A i, j \in DOMAIN reader.seen : i < j => Precedes(reader.seen[i], reader.seen[j]))'
  BY <1>2, <1>8, <1>13 DEF Precedes
<1> QED
  BY <1>2, <1>3, <1>7, <1>8, <1>14, <1>16, <1>17, <1>18 DEF ReaderFits

LEMMA NextReads == Reads /\ [Next]_vars => Reads'
PROOF
<1> SUFFICES ASSUME Reads, [Next]_vars PROVE Reads'
  OBVIOUS
<1>1. Agreement' /\ RowsAreOrdered'
  BY NextAgreement, NextRows DEF Reads
<1>2. KeepsProvenance
  BY NextKeeps DEF Reads, Agreement
<1>3. ReaderFits'
  <2>1. CASE BeginRead
    BY <2>1, BeginReadFits
  <2>2. CASE ReadPage
    BY <2>2, ReadPageFits DEF Reads
  <2>3. CASE EndRead \/ Deploy
    BY <2>3, NotReadingFits DEF EndRead, Deploy
  <2>4. CASE UNCHANGED reader /\ ~Deploy
    BY <1>2, <2>4, RowsCome, ReaderStays DEF Reads
  <2>5. CASE UNCHANGED vars /\ ~Deploy
    BY <2>4, <2>5 DEF vars
  <2>6. CASE ~Deploy /\ (Cli \/ ListStale \/ UpdateClassification \/ CommitClassifications)
    BY <2>4, <2>6 DEF Cli, StartImport, EndImport, Post, ListStale, UpdateClassification, CommitClassifications
  <2>7. ASSUME NEW r \in Request, Server(r) \/ LoseAnswer(r)
        PROVE  UNCHANGED reader
    BY <2>7 DEF Server, InsertSession, InsertAction, BeginUpdate, UpdateOutcome, Commit, LoseAnswer
  <2>8. ASSUME NEW t \in Transaction, DeadlockVictim(t)
        PROVE  UNCHANGED reader
    BY <2>8 DEF DeadlockVictim
  <2> QED
    BY <2>1, <2>2, <2>3, <2>4, <2>5, <2>6, <2>7, <2>8 DEF Next
<1> QED
  BY <1>1, <1>3 DEF Reads

LEMMA InitReads == Init => Reads
PROOF
<1> SUFFICES ASSUME Init PROVE Reads
  OBVIOUS
<1>1. DOMAIN actions = {} /\ reader = NotReading
  BY DEF Init
<1>2. RowsAreOrdered /\ ReaderFits
  BY <1>1 DEF RowsAreOrdered, ReaderFits, NotReading, ToSet
<1> QED
  BY <1>2, InitAgreement DEF Reads

\* A paged read returns everything that was stored when it began, each Action once and in
\* order, however many rows have one time and whatever is imported between two pages
\* (streamActions).
THEOREM PagedReadsAreComplete == Spec => []ReadIsComplete
PROOF
<1>1. Reads => ReadIsComplete
  BY DEF Reads, ReaderFits, ReadIsComplete
<1> QED
  BY <1>1, InitReads, NextReads, PTL DEF Spec

\* A read that has begun returns no Action of another classifier version, whatever is
\* imported or reclassified before it ends (loadActions).
THEOREM ReadsAreOfOneVersion == Spec => []ReadIsOfOneVersion
PROOF
<1>1. Reads => ReadIsOfOneVersion
  <2> SUFFICES ASSUME Reads, NEW i \in DOMAIN reader.seen PROVE ~IsStale(reader.seen[i])
    BY DEF ReadIsOfOneVersion
  <2>1. reader.seen \in Seq(DOMAIN actions) /\ reader.pc # "idle"
    BY DEF Reads, ReaderFits
  <2>2. reader.seen[i] \in DOMAIN actions /\ NoneIsStale
    BY <2>1 DEF Reads, ReaderFits
  <2> QED
    BY <2>2 DEF NoneIsStale
<1> QED
  BY <1>1, InitReads, NextReads, PTL DEF Spec

-----------------------------------------------------------------------------
(* Sequences of sequences                                                   *)

\* Of some natural numbers one is the least.
LEMMA LeastNatural ==
    ASSUME NEW S \in SUBSET Nat, S # {}
    PROVE  \E m \in S : \A n \in S : m <= n
PROOF
<1> DEFINE R == OpToRel(<, Nat)
<1>1. IsWellFoundedOn(R, Nat)
  BY NatLessThanWellFounded, Zenon
<1>2. \A x, y \in Nat : <<x, y>> \in R <=> x < y
  BY Zenon DEF OpToRel
<1> HIDE DEF R
<1>3. PICK m \in S : \A n \in S : <<n, m>> \notin R
  BY <1>1, WFMin
<1>4. \A n \in S : n \in Nat /\ m \in Nat /\ ~(n < m)
  BY <1>2, <1>3
<1> QED
  BY <1>3, <1>4

\* The sequences that flattening the first n of some sequences goes through.
IsFlat(g, seqs, n) == g = [i \in 1..n |-> IF i = 1 THEN seqs[i] ELSE g[i - 1] \o seqs[i]]

LEMMA FlatSteps ==
    ASSUME NEW g, NEW seqs, NEW n, IsFlat(g, seqs, n)
    PROVE  \A i \in 1..n : g[i] = IF i = 1 THEN seqs[i] ELSE g[i - 1] \o seqs[i]
  BY DEF IsFlat

LEMMA OneMoreIsFlat ==
    ASSUME NEW seqs, NEW m \in Nat, m > 1, NEW h, IsFlat(h, seqs, m - 1)
    PROVE  \E g : IsFlat(g, seqs, m)
PROOF
<1>1. \A i \in 1..(m - 1) : h[i] = IF i = 1 THEN seqs[i] ELSE h[i - 1] \o seqs[i]
  BY FlatSteps
<1> DEFINE g == [i \in 1..m |-> IF i = m THEN h[m - 1] \o seqs[m] ELSE h[i]]
<1>2. \A i \in 1..m : g[i] = IF i = 1 THEN seqs[i] ELSE g[i - 1] \o seqs[i]
  <2> TAKE i \in 1..m
  <2>1. CASE i = m
    <3>1. m - 1 \in 1..m /\ m - 1 # m /\ i # 1
      BY <2>1
    <3>2. g[i] = h[m - 1] \o seqs[m] /\ g[i - 1] = h[m - 1]
      BY <2>1, <3>1
    <3> HIDE DEF g
    <3> QED
      BY <2>1, <3>1, <3>2
  <2>2. CASE i # m
    <3>1. i \in 1..(m - 1) /\ g[i] = h[i] /\ (i # 1 => g[i - 1] = h[i - 1])
      BY <2>2
    <3> HIDE DEF g
    <3> QED
      BY <1>1, <3>1
  <2> QED
    BY <2>1, <2>2
<1>3. g = [i \in 1..m |-> g[i]]
  OBVIOUS
<1> HIDE DEF g
<1>4. IsFlat(g, seqs, m)
  BY <1>2, <1>3 DEF IsFlat
<1> QED
  BY <1>4

\* They exist: of the lengths that have none, there is no least.
LEMMA FlatExists ==
    ASSUME NEW seqs, NEW n \in Nat \ {0}
    PROVE  \E g : IsFlat(g, seqs, n)
PROOF
<1> DEFINE Reached(k) == \E g : IsFlat(g, seqs, k)
           missed == {k \in Nat \ {0} : ~Reached(k)}
<1>1. Reached(1)
  <2> DEFINE g == [i \in 1..1 |-> seqs[1]]
  <2>1. g = [i \in 1..1 |-> g[i]] /\ \A i \in 1..1 : g[i] = seqs[1] /\ i = 1
    OBVIOUS
  <2> HIDE DEF g
  <2>2. IsFlat(g, seqs, 1)
    BY <2>1 DEF IsFlat
  <2> QED
    BY <2>2
<1>2. \A k \in Nat : k > 1 /\ Reached(k - 1) => Reached(k)
  BY OneMoreIsFlat
<1> HIDE DEF Reached
<1>3. missed = {}
  <2> SUFFICES ASSUME missed # {} PROVE FALSE
    OBVIOUS
  <2>1. PICK m \in missed : \A k \in missed : m <= k
    BY LeastNatural
  <2>2. m > 1 => m - 1 \in Nat \ {0} /\ m - 1 \notin missed
    BY <2>1
  <2> QED
    BY <1>1, <1>2, <2>1, <2>2
<1>4. Reached(n)
  BY <1>3
<1> QED
  BY <1>4 DEF Reached

\* What a sequence of sequences is flattened to is made of their members.
LEMMA FlattenedMembers ==
    ASSUME NEW S, NEW seqs \in Seq(Seq(S))
    PROVE  FlattenSeq(seqs) \in Seq(S)
PROOF
<1>1. CASE Len(seqs) = 0
  BY <1>1 DEF FlattenSeq
<1>2. CASE Len(seqs) # 0
  <2> DEFINE flat == CHOOSE g : IsFlat(g, seqs, Len(seqs))
             others == {n \in 1..Len(seqs) : flat[n] \notin Seq(S)}
  <2>1. Len(seqs) \in Nat \ {0}
    BY <1>2
  <2>2. FlattenSeq(seqs) = flat[Len(seqs)]
    BY <1>2 DEF FlattenSeq, IsFlat
  <2>3. IsFlat(flat, seqs, Len(seqs))
    <3>1. \E g : IsFlat(g, seqs, Len(seqs))
      BY <2>1, FlatExists
    <3> QED
      BY <3>1
  <2> HIDE DEF flat
  <2>4. \A i \in 1..Len(seqs) : flat[i] = IF i = 1 THEN seqs[i] ELSE flat[i - 1] \o seqs[i]
    BY <2>3, FlatSteps
  <2>5. others = {}
    <3> SUFFICES ASSUME others # {} PROVE FALSE
      OBVIOUS
    <3>1. PICK m \in others : \A k \in others : m <= k
      <4>1. others \in SUBSET Nat
        BY <2>1
      <4> QED
        BY <4>1, LeastNatural
    <3>2. m \in 1..Len(seqs) /\ flat[m] \notin Seq(S) /\ seqs[m] \in Seq(S)
      BY <2>1, <3>1
    <3>3. CASE m = 1
      BY <2>4, <3>2, <3>3
    <3>4. CASE m # 1
      <4>1. m - 1 \in 1..Len(seqs) /\ flat[m - 1] \in Seq(S)
        BY <2>1, <3>1, <3>2, <3>4
      <4>2. flat[m - 1] \o seqs[m] \in Seq(S)
        BY <3>2, <4>1
      <4> QED
        BY <2>4, <3>2, <3>4, <4>2
    <3> QED
      BY <3>3, <3>4
  <2> QED
    BY <2>1, <2>2, <2>5
<1> QED
  BY <1>1, <1>2

-----------------------------------------------------------------------------
(* Redaction                                                                *)

\* No rule matches anything of a text.
IsClean(text) == \A i \in 1..Len(text) : text[i] # "secret" /\ ~IsValue(text, i)

LEMMA CleanHasNoSecret ==
  ASSUME NEW text \in Seq(RawPiece), IsClean(text)
  PROVE  ~HasSecret(text)
PROOF
<1>1. DOMAIN text = 1..Len(text) /\ text = [i \in DOMAIN text |-> text[i]]
  OBVIOUS
<1>2. Narrow(text) = text
  BY <1>1 DEF IsClean, Narrow
<1>3. RedactText(text) = text
  BY <1>1, <1>2 DEF IsClean, RedactText
<1> QED
  BY <1>3 DEF HasSecret

LEMMA NarrowPieces ==
  ASSUME NEW text \in Seq(RawPiece)
  PROVE  /\ Narrow(text) \in Seq(RawPiece) /\ Len(Narrow(text)) = Len(text)
         /\ \A i \in 1..Len(text) : Narrow(text)[i] = IF text[i] = "secret" THEN "token" ELSE text[i]
PROOF
<1>1. /\ Len(text) \in Nat /\ DOMAIN text = 1..Len(text)
      /\ \A i \in 1..Len(text) : text[i] \in RawPiece
  OBVIOUS
<1>2. "token" \in RawPiece
  BY DEF RawPiece, Piece
<1>3. Narrow(text) \in [1..Len(text) -> RawPiece]
  BY <1>1, <1>2 DEF Narrow
<1> QED
  BY <1>1, <1>3 DEF Narrow

LEMMA RedactedPieces ==
  ASSUME NEW text \in Seq(RawPiece)
  PROVE  /\ RedactText(text) \in Seq(RawPiece) /\ Len(RedactText(text)) = Len(text)
         /\ \A i \in 1..Len(text) :
               RedactText(text)[i] = IF IsValue(Narrow(text), i) THEN "token" ELSE Narrow(text)[i]
PROOF
<1>1. Len(text) \in Nat /\ DOMAIN text = 1..Len(text)
  OBVIOUS
<1>2. "token" \in RawPiece
  BY DEF RawPiece, Piece
<1>3. \A i \in 1..Len(text) : Narrow(text)[i] \in RawPiece
  BY NarrowPieces
<1>4. RedactText(text) \in [1..Len(text) -> RawPiece]
  BY <1>1, <1>2, <1>3 DEF RedactText
<1> QED
  BY <1>1, <1>4 DEF RedactText

\* What is redacted once is redacted: a rule's token is no value.
LEMMA RedactedIsClean ==
  ASSUME NEW text \in Seq(RawPiece)
  PROVE  IsClean(RedactText(text))
PROOF
<1> DEFINE once == RedactText(text)
<1>1. Len(text) \in Nat /\ Len(once) = Len(text) /\ Len(Narrow(text)) = Len(text)
  BY RedactedPieces, NarrowPieces
<1>2. \A i \in 1..Len(text) :
         /\ once[i] = IF IsValue(Narrow(text), i) THEN "token" ELSE Narrow(text)[i]
         /\ Narrow(text)[i] # "secret"
  BY RedactedPieces, NarrowPieces
<1> HIDE DEF once
<1>3. ASSUME NEW i \in 1..Len(text), IsValue(once, i)
      PROVE  FALSE
  <2>1. i > 1 /\ once[i - 1] = "name" /\ once[i] # "token" /\ (once[i] = "end" => i < Len(text))
    BY <1>1, <1>3 DEF IsValue
  <2>2. i - 1 \in 1..Len(text)
    BY <1>1, <2>1
  <2>3. Narrow(text)[i - 1] = "name" /\ once[i] = Narrow(text)[i]
    BY <1>2, <2>1, <2>2
  <2>4. IsValue(Narrow(text), i)
    BY <1>1, <2>1, <2>3 DEF IsValue
  <2> QED
    BY <1>2, <2>1, <2>4
<1> QED
  BY <1>1, <1>2, <1>3 DEF IsClean, once

\* Nor does the whole of an input read as a secret what was redacted string by string,
\* unless a string ends with a name.
LEMMA StructuredIsClean ==
  ASSUME NEW text \in Seq(RawPiece),
         \A i \in 1..Len(text) : i > 1 /\ text[i - 1] = "name" => text[i] \notin {"long", "end"}
  PROVE  RedactStructuredInput(text) \in Seq(RawPiece) /\ IsClean(RedactStructuredInput(text))
PROOF
<1> DEFINE once == RedactStructuredInput(text)
<1>1. Len(text) \in Nat /\ DOMAIN text = 1..Len(text) /\ Len(Narrow(text)) = Len(text)
  BY NarrowPieces
<1>2. /\ DOMAIN Fixed = {"credential", "long", "end"}
      /\ Fixed["credential"] = "token" /\ Fixed["long"] = "word" /\ Fixed["end"] = "end"
  BY DEF Fixed
<1>3. \A i \in 1..Len(text) :
         once[i] = IF text[i] \in DOMAIN Fixed THEN Fixed[text[i]] ELSE RedactText(text)[i]
  BY <1>1 DEF RedactStructuredInput
<1>4. \A i \in 1..Len(text) : RedactText(text)[i] \in RawPiece
  BY RedactedPieces
<1>5. once \in [1..Len(text) -> RawPiece]
  <2>1. {"token", "word", "end"} \subseteq RawPiece
    BY DEF RawPiece, Piece
  <2>2. \A i \in 1..Len(text) : once[i] \in RawPiece
    BY <1>2, <1>3, <1>4, <2>1
  <2>3. once = [i \in 1..Len(text) |-> once[i]]
    BY <1>1 DEF RedactStructuredInput
  <2> HIDE DEF once
  <2> QED
    BY <2>2, <2>3
<1>6. \A i \in 1..Len(text) :
         /\ RedactText(text)[i] = IF IsValue(Narrow(text), i) THEN "token" ELSE Narrow(text)[i]
         /\ Narrow(text)[i] = IF text[i] = "secret" THEN "token" ELSE text[i]
  BY RedactedPieces, NarrowPieces
<1> HIDE DEF once
<1>7. once \in Seq(RawPiece) /\ Len(once) = Len(text)
  BY <1>1, <1>5
<1>8. ASSUME NEW i \in 1..Len(text), IsValue(once, i)
      PROVE  FALSE
  <2>1. i > 1 /\ once[i - 1] = "name" /\ once[i] # "token" /\ (once[i] = "end" => i < Len(text))
    BY <1>7, <1>8 DEF IsValue
  <2>2. i - 1 \in 1..Len(text)
    BY <1>1, <2>1
  <2>3. text[i - 1] \notin DOMAIN Fixed
    BY <1>2, <1>3, <2>1, <2>2
  <2>4. text[i - 1] = "name" /\ Narrow(text)[i - 1] = "name"
    BY <1>3, <1>6, <2>1, <2>2, <2>3
  <2>5. text[i] \notin DOMAIN Fixed
    BY <1>2, <1>3, <2>1, <2>4
  <2>6. once[i] = Narrow(text)[i] /\ ~IsValue(Narrow(text), i)
    BY <1>3, <1>6, <2>1, <2>5
  <2> QED
    BY <1>1, <2>1, <2>4, <2>6 DEF IsValue
<1>9. \A i \in 1..Len(text) : once[i] # "secret"
  BY <1>2, <1>3, <1>6
<1> QED
  BY <1>7, <1>8, <1>9 DEF IsClean, once

\* The cut is somewhere, and what is left of a text has no more secrets than the text.
LEMMA CutIsClean ==
  ASSUME NEW text \in Seq(RawPiece), IsClean(text)
  PROVE  CutInput(text) \in Seq(RawPiece) /\ IsClean(CutInput(text))
PROOF
<1> DEFINE fits == {n \in 0..Len(text) : Length(SubSeq(text, 1, n)) <= MaxInputLength}
           IsCut(n) == n \in fits /\ \A k \in fits : k <= n
           left == {Len(text) - n : n \in fits}
<1>1. Len(text) \in Nat /\ \A i \in 1..Len(text) : text[i] \in RawPiece
  OBVIOUS
<1>2. 0 \in fits
  <2>1. SubSeq(text, 1, 0) = <<>>
    BY <1>1
  <2>2. Len(<<>>) = 0 /\ {i \in DOMAIN <<>> : <<>>[i] = "token"} = {}
    OBVIOUS
  <2>3. Length(SubSeq(text, 1, 0)) = 0
    BY <2>1, <2>2, FS_EmptySet DEF Length
  <2> QED
    BY <1>1, <2>3, ImportAssumption
<1>3. \E n \in fits : IsCut(n)
  <2>1. left \in SUBSET Nat /\ left # {}
    BY <1>1, <1>2
  <2>2. PICK m \in left : \A k \in left : m <= k
    BY <2>1, LeastNatural
  <2>3. PICK n \in fits : m = Len(text) - n
    BY <2>2
  <2>4. ASSUME NEW k \in fits PROVE k <= n
    <3>1. Len(text) - k \in left
      BY <2>4
    <3>2. m <= Len(text) - k
      BY <2>2, <3>1
    <3>3. k \in 0..Len(text) /\ n \in 0..Len(text)
      OBVIOUS
    <3> HIDE DEF fits
    <3> QED
      BY <1>1, <2>3, <3>2, <3>3
  <2> QED
    BY <2>3, <2>4
<1>4. PICK n \in 0..Len(text) : CutInput(text) = SubSeq(text, 1, n)
  <2> DEFINE n == CHOOSE k \in fits : \A l \in fits : l <= k
  <2>1. n \in fits
    BY <1>3
  <2> QED
    BY <2>1 DEF CutInput
<1> HIDE DEF fits
<1>5. /\ SubSeq(text, 1, n) \in Seq(RawPiece) /\ Len(SubSeq(text, 1, n)) = n
      /\ \A i \in 1..n : SubSeq(text, 1, n)[i] = text[i]
  BY <1>1
<1>6. ASSUME NEW i \in 1..n PROVE SubSeq(text, 1, n)[i] # "secret" /\ ~IsValue(SubSeq(text, 1, n), i)
  <2>1. i \in 1..Len(text) /\ (i > 1 => i - 1 \in 1..n)
    BY <1>1
  <2> QED
    BY <1>1, <1>5, <2>1 DEF IsClean, IsValue
<1> QED
  BY <1>4, <1>5, <1>6 DEF IsClean

LEMMA BuiltInputIsClean ==
  ASSUME NEW use \in ToolUse, ~EndsWithName(use)
  PROVE  ~HasSecret(BuildToolInput(use).text)
PROOF
<1>1. use.text \in Seq(RawPiece)
  BY DEF ToolUse
<1>2. CASE use.tool = "Bash"
  <2>1. BuildToolInput(use).text = CutInput(RedactText(use.text))
    BY <1>2 DEF BuildToolInput
  <2> QED
    BY <1>1, <2>1, RedactedPieces, RedactedIsClean, CutIsClean, CleanHasNoSecret
<1>3. CASE use.tool # "Bash"
  <2>1. BuildToolInput(use).text = CutInput(RedactStructuredInput(use.text))
    BY <1>3 DEF BuildToolInput
  <2>2. \A i \in 1..Len(use.text) :
           i > 1 /\ use.text[i - 1] = "name" => use.text[i] \notin {"long", "end"}
    BY <1>1, <1>3 DEF EndsWithName
  <2> QED
    BY <1>1, <2>1, <2>2, StructuredIsClean, CutIsClean, CleanHasNoSecret
<1> QED
  BY <1>2, <1>3

-----------------------------------------------------------------------------
(* What a Session and its Actions are made of                               *)

\* Every tool call of a Session is a tool use of one of its lines.
LEMMA ToolCallsOfLines ==
  ASSUME NEW f, NEW lines \in Seq(Line)
  PROVE  LET toolCalls == ParseTranscript(f, lines).toolCalls
         IN /\ \E n \in Nat : DOMAIN toolCalls = 1..n
            /\ \A k \in DOMAIN toolCalls :
                  /\ toolCalls[k].occurredAt \in Nat
                  /\ \E i \in 1..Len(lines) : \E j \in DOMAIN lines[i].uses :
                        /\ lines[i].uses[j] \in ToolUse
                        /\ toolCalls[k].input = BuildToolInput(lines[i].uses[j])
PROOF
<1> DEFINE usesOf(line) ==
             IF ~line.isJson \/ line.time = Null THEN <<>>
             ELSE [i \in DOMAIN line.uses |->
                     [use |-> line.uses[i], occurredAt |-> line.time,
                      isSidechain |-> line.isSidechain]]
           seqs == [i \in DOMAIN lines |-> usesOf(lines[i])]
           raw == FlattenSeq(seqs)
           toolCalls == ParseTranscript(f, lines).toolCalls
           Uses == {u \in ToolUse : \E i \in 1..Len(lines) : \E j \in DOMAIN lines[i].uses : u = lines[i].uses[j]}
           Calls == [use : Uses, occurredAt : Nat, isSidechain : BOOLEAN]
<1>1. /\ Len(lines) \in Nat /\ DOMAIN lines = 1..Len(lines)
      /\ \A i \in 1..Len(lines) :
            /\ lines[i].uses \in Seq(ToolUse) /\ lines[i].time \in Nat \cup {Null}
            /\ lines[i].isSidechain \in BOOLEAN
  <2>1. \A i \in 1..Len(lines) : lines[i] \in Line
    OBVIOUS
  <2> QED
    BY <2>1 DEF Line
<1>2. \A i \in 1..Len(lines) : usesOf(lines[i]) \in Seq(Calls)
  <2> TAKE i \in 1..Len(lines)
  <2>1. CASE ~lines[i].isJson \/ lines[i].time = Null
    BY <2>1
  <2>2. CASE lines[i].isJson /\ lines[i].time # Null
    <3> DEFINE uses == lines[i].uses
    <3>1. /\ uses \in Seq(ToolUse) /\ Len(uses) \in Nat /\ DOMAIN uses = 1..Len(uses)
          /\ \A j \in 1..Len(uses) : uses[j] \in ToolUse
      BY <1>1
    <3>2. \A j \in 1..Len(uses) : uses[j] \in Uses
      BY <3>1
    <3>3. lines[i].time \in Nat /\ lines[i].isSidechain \in BOOLEAN
      BY <1>1, <2>2
    <3> HIDE DEF uses, Uses
    <3>4. \A j \in 1..Len(uses) :
             [use |-> uses[j], occurredAt |-> lines[i].time, isSidechain |-> lines[i].isSidechain] \in Calls
      BY <3>2, <3>3
    <3> HIDE DEF Calls
    <3>5. usesOf(lines[i]) =
             [j \in 1..Len(uses) |->
                [use |-> uses[j], occurredAt |-> lines[i].time, isSidechain |-> lines[i].isSidechain]]
      BY <2>2, <3>1 DEF uses
    <3> HIDE DEF usesOf
    <3> QED
      BY <3>1, <3>4, <3>5
  <2> QED
    BY <2>1, <2>2
<1> HIDE DEF usesOf, Calls
<1>3. seqs \in Seq(Seq(Calls))
  <2>1. seqs \in [1..Len(lines) -> Seq(Calls)]
    BY <1>1, <1>2
  <2> HIDE DEF seqs
  <2> QED
    BY <1>1, <2>1
<1>4. raw \in Seq(Calls)
  BY <1>3, FlattenedMembers
<1>5. /\ DOMAIN toolCalls = DOMAIN raw
      /\ \A k \in DOMAIN raw :
            toolCalls[k].occurredAt = raw[k].occurredAt /\ toolCalls[k].input = BuildToolInput(raw[k].use)
  BY DEF ParseTranscript, usesOf
<1> HIDE DEF raw, toolCalls
<1>6. Len(raw) \in Nat /\ DOMAIN raw = 1..Len(raw) /\ \A k \in 1..Len(raw) : raw[k] \in Calls
  BY <1>4
<1>7. \A k \in 1..Len(raw) : raw[k].occurredAt \in Nat /\ raw[k].use \in Uses
  BY <1>6 DEF Calls
<1>8. ASSUME NEW k \in DOMAIN toolCalls
      PROVE  \E i \in 1..Len(lines) : \E j \in DOMAIN lines[i].uses :
                /\ lines[i].uses[j] \in ToolUse
                /\ toolCalls[k].input = BuildToolInput(lines[i].uses[j])
  BY <1>5, <1>6, <1>7
<1>9. \E n \in Nat : DOMAIN toolCalls = 1..n
  BY <1>5, <1>6
<1>10. \A k \in DOMAIN toolCalls : toolCalls[k].occurredAt \in Nat
  BY <1>5, <1>6, <1>7
<1> QED
  BY <1>8, <1>9, <1>10 DEF toolCalls

LEMMA OneElement == ASSUME NEW e PROVE DOMAIN <<e>> = 1..1 /\ <<e>>[1] = e
  OBVIOUS

LEMMA SequenceOfOne == ASSUME NEW T, NEW s \in [1..1 -> T] PROVE s \in Seq(T)
PROOF
<1>1. \A n \in Nat : \A t \in [1..n -> T] : t \in Seq(T)
  OBVIOUS
<1> QED
  BY <1>1

\* The Action of every key is that of a tool call: of those with the key, there is one
\* that none is before.
LEMMA ActionsOfToolCalls ==
  ASSUME NEW P, NEW n \in Nat, DOMAIN P.toolCalls = 1..n,
         \A k \in 1..n : P.toolCalls[k].occurredAt \in Nat,
         SessionRank[P.sessionExternalId] \in Nat
  PROVE  \A key \in DOMAIN BuildActions(<<P>>) :
            \E k \in 1..n : BuildActions(<<P>>)[key].input = P.toolCalls[k].input
PROOF
<1> DEFINE entry(k) == [key |-> DeriveActionKey(P, P.toolCalls[k]), action |-> ActionOf(P, P.toolCalls[k])]
           Made == {entry(k) : k \in 1..n}
           entries == Entries(<<P>>)
           IsBest(e) == \A i \in DOMAIN entries :
                          entries[i].key = e.key => ~PrefersCandidate(entries[i].action, e.action)
           best(key) == SelectInSeq(entries, LAMBDA e : e.key = key /\ IsBest(e))
<1>1. entries \in Seq(Made)
  <2>1. PICK parsed : parsed = <<P>> /\ DOMAIN parsed = 1..1 /\ parsed[1] = P
    BY OneElement
  <2> DEFINE row(session) ==
               [j \in DOMAIN session.toolCalls |->
                  [key |-> DeriveActionKey(session, session.toolCalls[j]),
                   action |-> ActionOf(session, session.toolCalls[j])]]
             seqs == [i \in DOMAIN parsed |-> row(parsed[i])]
  <2>2. row(P) = [j \in 1..n |-> entry(j)]
    OBVIOUS
  <2>3. row(P) \in Seq(Made)
    <3>1. \A j \in 1..n : entry(j) \in Made
      OBVIOUS
    <3> HIDE DEF Made, row, entry
    <3>2. row(P) \in [1..n -> Made]
      BY <2>2, <3>1
    <3> QED
      BY <3>2
  <2>4. seqs \in Seq(Seq(Made))
    <3> HIDE DEF Made, row
    <3>1. seqs \in [1..1 -> Seq(Made)]
      BY <2>1, <2>3
    <3> HIDE DEF seqs
    <3> QED
      BY <3>1, SequenceOfOne
  <2>5. entries = FlattenSeq(seqs)
    BY <2>1 DEF Entries
  <2> HIDE DEF seqs, Made, entries
  <2> QED
    BY <2>4, <2>5, FlattenedMembers
<1> HIDE DEF entries
<1>2. Len(entries) \in Nat /\ DOMAIN entries = 1..Len(entries) /\ \A i \in 1..Len(entries) : entries[i] \in Made
  <2> HIDE DEF Made
  <2> QED
    BY <1>1
<1>3. ASSUME NEW i \in 1..Len(entries)
      PROVE  \E k \in 1..n : /\ entries[i].action.input = P.toolCalls[k].input
                             /\ entries[i].action.occurredAt = P.toolCalls[k].occurredAt
                             /\ entries[i].action.sessionExternalId = P.sessionExternalId
  <2>1. PICK k \in 1..n : entries[i] = entry(k)
    BY <1>2
  <2> QED
    BY <2>1 DEF ActionOf
<1>4. ASSUME NEW i \in 1..Len(entries), NEW j \in 1..Len(entries),
             entries[i].action.occurredAt <= entries[j].action.occurredAt
      PROVE  ~PrefersCandidate(entries[j].action, entries[i].action)
  <2>1. entries[i].action.occurredAt \in Nat /\ entries[j].action.occurredAt \in Nat
    BY <1>3
  <2>2. entries[i].action.sessionExternalId = entries[j].action.sessionExternalId
    BY <1>3
  <2>3. SessionRank[entries[i].action.sessionExternalId] \in Nat
    BY <1>3
  <2> QED
    BY <1>4, <2>1, <2>2, <2>3 DEF PrefersCandidate
<1>5. ASSUME NEW key \in {entries[i].key : i \in DOMAIN entries}
      PROVE  best(key) \in 1..Len(entries)
  <2> DEFINE own == {i \in 1..Len(entries) : entries[i].key = key}
             times == {entries[i].action.occurredAt : i \in own}
             found == {i \in 1..Len(entries) : entries[i].key = key /\ IsBest(entries[i])}
  <2>1. times \in SUBSET Nat /\ times # {}
    <3>1. \A i \in 1..Len(entries) : entries[i].action.occurredAt \in Nat
      BY <1>3
    <3> QED
      BY <1>2, <3>1
  <2>2. PICK t \in times : \A u \in times : t <= u
    BY <2>1, LeastNatural
  <2>3. PICK first \in own : t = entries[first].action.occurredAt
    BY <2>2
  <2>4. \A i \in own : entries[first].action.occurredAt <= entries[i].action.occurredAt
    BY <2>2, <2>3
  <2>5. first \in found
    <3>1. ASSUME NEW i \in DOMAIN entries, entries[i].key = entries[first].key
          PROVE  ~PrefersCandidate(entries[i].action, entries[first].action)
      <4>1. i \in own
        BY <1>2, <3>1
      <4> QED
        BY <1>4, <2>4, <4>1
    <3> QED
      BY <3>1
  <2> HIDE DEF IsBest
  <2>6. PICK m \in found : \A i \in found : m <= i
    <3>1. found \in SUBSET Nat
      BY <1>2
    <3> QED
      BY <2>5, <3>1, LeastNatural
  <2>7. best(key) = Min(found)
    BY <2>5 DEF SelectInSeq
  <2>8. Min(found) \in found
    BY <2>6 DEF Min
  <2> QED
    BY <2>7, <2>8
<1>6. /\ DOMAIN BuildActions(<<P>>) = {entries[i].key : i \in DOMAIN entries}
      /\ \A key \in DOMAIN BuildActions(<<P>>) : BuildActions(<<P>>)[key] = entries[best(key)].action
  BY DEF BuildActions, entries
<1> HIDE DEF best
<1> QED
  BY <1>3, <1>5, <1>6

\* What the CLI has parsed of some lines of a transcript.
LEMMA ParsedLines ==
  ASSUME NEW p \in Imports, p.lines <= Len(Transcript[p.sessionExternalId])
  PROVE  LET P == ParsedSession[p.sessionExternalId][p.lines]
         IN /\ P = ParseTranscript(p.sessionExternalId, SubSeq(Transcript[p.sessionExternalId], 1, p.lines))
            /\ ImportedActions[p.sessionExternalId][p.lines] = BuildActions(<<P>>)
            /\ SessionRank[P.sessionExternalId] \in Nat
            /\ \E n \in Nat : DOMAIN P.toolCalls = 1..n
            /\ \A k \in DOMAIN P.toolCalls :
                  /\ P.toolCalls[k].occurredAt \in Nat
                  /\ \E i \in 1..p.lines : \E j \in DOMAIN Transcript[p.sessionExternalId][i].uses :
                        /\ Transcript[p.sessionExternalId][i].uses[j] \in ToolUse
                        /\ P.toolCalls[k].input = BuildToolInput(Transcript[p.sessionExternalId][i].uses[j])
PROOF
<1> DEFINE f == p.sessionExternalId
           lines == SubSeq(Transcript[f], 1, p.lines)
           P == ParsedSession[f][p.lines]
<1>1. /\ f \in File /\ p.lines \in Nat /\ p.lines \in 0..Len(Transcript[f])
      /\ Transcript[f] \in Seq(Line) /\ SessionRank[f] \in Nat
  BY ImportAssumption DEF Imports
<1> HIDE DEF f
<1>2. /\ lines \in Seq(Line) /\ Len(lines) = p.lines
      /\ \A i \in 1..p.lines : lines[i] = Transcript[f][i]
  BY <1>1
<1>3. P = ParseTranscript(f, lines)
  BY <1>1 DEF ParsedSession
<1>4. ImportedActions[f][p.lines] = BuildActions(<<P>>)
  BY <1>1 DEF ImportedActions
<1>5. P.sessionExternalId = f
  <2>1. \E toolCalls : P = [sessionExternalId |-> f, toolCalls |-> toolCalls]
    BY <1>3, Zenon DEF ParseTranscript
  <2> QED
    BY <2>1
<1> HIDE DEF lines, P
<1>6. /\ \E n \in Nat : DOMAIN P.toolCalls = 1..n
      /\ \A k \in DOMAIN P.toolCalls :
            /\ P.toolCalls[k].occurredAt \in Nat
            /\ \E i \in 1..Len(lines) : \E j \in DOMAIN lines[i].uses :
                  /\ lines[i].uses[j] \in ToolUse
                  /\ P.toolCalls[k].input = BuildToolInput(lines[i].uses[j])
  BY <1>2, <1>3, ToolCallsOfLines
<1>7. \A k \in DOMAIN P.toolCalls :
         \E i \in 1..p.lines : \E j \in DOMAIN Transcript[f][i].uses :
            /\ Transcript[f][i].uses[j] \in ToolUse
            /\ P.toolCalls[k].input = BuildToolInput(Transcript[f][i].uses[j])
  BY <1>2, <1>6
<1> QED
  BY <1>1, <1>3, <1>4, <1>5, <1>6, <1>7 DEF f, lines, P

\* Only a string that ends with a name makes the server refuse what was redacted.
LEMMA ResidualIsName ==
  ASSUME NEW p \in Imports, p.lines <= Len(Transcript[p.sessionExternalId]), HasResidual(p)
  PROVE  \E i \in 1..p.lines : \E j \in DOMAIN Transcript[p.sessionExternalId][i].uses :
            EndsWithName(Transcript[p.sessionExternalId][i].uses[j])
PROOF
<1> DEFINE P == ParsedSession[p.sessionExternalId][p.lines]
<1>1. PICK k \in DOMAIN P.toolCalls : HasSecret(P.toolCalls[k].input.text)
  BY DEF HasResidual
<1>2. PICK i \in 1..p.lines :
      \E j \in DOMAIN Transcript[p.sessionExternalId][i].uses :
         /\ Transcript[p.sessionExternalId][i].uses[j] \in ToolUse
         /\ P.toolCalls[k].input = BuildToolInput(Transcript[p.sessionExternalId][i].uses[j])
  BY <1>1, ParsedLines
<1>3. PICK j \in DOMAIN Transcript[p.sessionExternalId][i].uses :
         /\ Transcript[p.sessionExternalId][i].uses[j] \in ToolUse
         /\ P.toolCalls[k].input = BuildToolInput(Transcript[p.sessionExternalId][i].uses[j])
  BY <1>2
<1> QED
  BY <1>1, <1>3, BuiltInputIsClean

\* The Actions of what the server does not refuse have no secret.
LEMMA AcceptedIsClean ==
  ASSUME NEW p \in Imports, p.lines <= Len(Transcript[p.sessionExternalId]), ~HasResidual(p)
  PROVE  \A key \in DOMAIN ImportedActions[p.sessionExternalId][p.lines] :
            ~HasSecret(ImportedActions[p.sessionExternalId][p.lines][key].input.text)
PROOF
<1> DEFINE P == ParsedSession[p.sessionExternalId][p.lines]
<1>1. \A k \in DOMAIN P.toolCalls : ~HasSecret(P.toolCalls[k].input.text)
  BY DEF HasResidual
<1>2. /\ ImportedActions[p.sessionExternalId][p.lines] = BuildActions(<<P>>)
      /\ SessionRank[P.sessionExternalId] \in Nat
      /\ \A k \in DOMAIN P.toolCalls : P.toolCalls[k].occurredAt \in Nat
  BY ParsedLines
<1>3. PICK n \in Nat : DOMAIN P.toolCalls = 1..n
  BY ParsedLines
<1> HIDE DEF P
<1>4. \A key \in DOMAIN BuildActions(<<P>>) :
         \E k \in 1..n : BuildActions(<<P>>)[key].input = P.toolCalls[k].input
  BY <1>2, <1>3, ActionsOfToolCalls
<1> QED
  BY <1>1, <1>2, <1>3, <1>4

-----------------------------------------------------------------------------
(* What is stored                                                           *)

\* Nothing stored has a secret, and the server has looked at what it is storing.
StoredIsClean ==
    /\ \A key \in DOMAIN actions : ~HasSecret(actions[key].input.text)
    /\ \A r \in Request : pc[r] \in {"insert", "update"} => ~HasResidual(posted[r])

\* A request that was posted goes on by InsertSession only.
LEMMA OnlyItBegins ==
  ASSUME Agreement, [Next]_vars, NEW r \in Request, pc[r] = "posted", pc'[r] \in {"insert", "update"}
  PROVE  InsertSession(r)
PROOF
<1> USE DEF requestVars
<1>1. DOMAIN pc = Transaction /\ r \in Transaction /\ r # Reclassifier
  BY ImportAssumption DEF Agreement, LinesFit, Transaction
<1>2. pc' # pc /\ pc'[r] # "free"
  OBVIOUS
<1>3. CASE UNCHANGED vars
  BY <1>2, <1>3 DEF vars
<1>4. CASE StartImport \/ EndImport \/ BeginRead \/ ReadPage \/ EndRead \/ UpdateClassification
  <2>1. UNCHANGED pc
    BY <1>4, Zenon DEF StartImport, EndImport, BeginRead, ReadPage, EndRead, UpdateClassification
  <2> QED
    BY <1>2, <2>1
<1>5. ASSUME NEW q \in Request, LoseAnswer(q) \/ InsertAction(q) \/ UpdateOutcome(q)
      PROVE  FALSE
  BY <1>2, <1>5 DEF LoseAnswer, InsertAction, UpdateOutcome
<1>6. ASSUME NEW q \in Request, Post(q) PROVE FALSE
  BY <1>1, <1>6 DEF Post
<1>7. ASSUME NEW q \in Request, BeginUpdate(q) PROVE FALSE
  BY <1>1, <1>7 DEF BeginUpdate
<1>8. ASSUME NEW q \in Request, Commit(q) PROVE FALSE
  BY <1>1, <1>2, <1>8 DEF Commit, End
<1>9. ASSUME NEW q \in Request, InsertSession(q), q # r PROVE FALSE
  <2>1. pc'[r] = pc[r]
    BY <1>1, <1>9 DEF InsertSession, End
  <2> QED
    BY <2>1
<1>10. ASSUME NEW t \in Transaction, DeadlockVictim(t) PROVE FALSE
  <2>1. pc' = [pc EXCEPT ![t] = "free"]
    BY <1>10 DEF DeadlockVictim, End
  <2> QED
    BY <1>1, <1>2, <2>1
<1>11. CASE ListStale \/ CommitClassifications
  <2>1. pc'[r] = pc[r]
    BY <1>1, <1>11 DEF ListStale, CommitClassifications
  <2> QED
    BY <2>1
<1>12. CASE Deploy
  BY <1>1, <1>2, <1>12 DEF Deploy
<1> QED
  BY <1>3, <1>4, <1>5, <1>6, <1>7, <1>8, <1>9, <1>10, <1>11, <1>12 DEF Next, Cli, Server

\* Only InsertSession begins to store, and only what it does not refuse.
LEMMA OnlyChecked ==
  ASSUME Agreement, StoredIsClean, [Next]_vars, NEW r \in Request, pc'[r] \in {"insert", "update"}
  PROVE  ~HasResidual(posted'[r])
PROOF
<1>1. CASE \E q \in Request : Post(q)
  <2>1. PICK q \in Request : Post(q)
    BY <1>1
  <2>2. pc' = [pc EXCEPT ![q] = "posted"] /\ posted' = [posted EXCEPT ![q] = Head(cli.queue)]
    BY <2>1 DEF Post
  <2>3. r # q /\ pc'[r] = pc[r] /\ posted'[r] = posted[r]
    BY <2>2 DEF Agreement, LinesFit, Transaction
  <2> QED
    BY <2>3 DEF StoredIsClean
<1>2. CASE StartImport
  <2>1. UNCHANGED <<pc, posted>>
    BY <1>2 DEF StartImport, requestVars
  <2> QED
    BY <2>1 DEF StoredIsClean
<1>3. CASE InsertSession(r)
  <2>1. pc[r] = "posted"
    BY <1>3 DEF InsertSession
  <2>2. CASE HasResidual(posted[r])
    <3>1. pc' = [pc EXCEPT ![r] = "free"]
      BY <1>3, <2>2 DEF InsertSession, End
    <3> QED
      BY <3>1 DEF Agreement, LinesFit, Transaction
  <2>3. CASE ~HasResidual(posted[r])
    BY <1>3, <2>3 DEF InsertSession
  <2> QED
    BY <2>2, <2>3
<1>4. CASE Quiet /\ ~InsertSession(r)
  <2>1. posted'[r] = posted[r] /\ pc[r] # "free"
    BY <1>4 DEF Quiet, NoneComes
  <2>2. pc[r] \in {"insert", "update"}
    BY <1>4, <2>1, OnlyItBegins DEF Agreement, StepsFit, StepFits
  <2> QED
    BY <2>1, <2>2 DEF StoredIsClean
<1> QED
  BY <1>1, <1>2, <1>3, <1>4, OthersAreQuiet DEF Agreement

\* A request carries lines the transcript has.
LEMMA PostedFits ==
  ASSUME Agreement, NEW r \in Request, pc[r] # "free"
  PROVE  posted[r] \in Imports /\ posted[r].lines <= Len(Transcript[posted[r].sessionExternalId])
PROOF
<1>1. posted[r] \in Imports /\ posted[r].lines <= written[posted[r].sessionExternalId]
  BY DEF Agreement, LinesFit
<1> DEFINE f == posted[r].sessionExternalId
<1>2. /\ f \in File /\ posted[r].lines \in Nat /\ written[f] \in Nat
      /\ written[f] <= Len(Transcript[f]) /\ Len(Transcript[f]) \in Nat
  BY <1>1, ImportAssumption DEF Agreement, LinesFit, Imports
<1> QED
  BY <1>1, <1>2

LEMMA NextIsClean == Agreement /\ StoredIsClean /\ [Next]_vars => StoredIsClean'
PROOF
<1> SUFFICES ASSUME Agreement, StoredIsClean, [Next]_vars PROVE StoredIsClean'
  OBVIOUS
<1>1. KeepsProvenance
  BY NextKeeps DEF Agreement
<1>2. ASSUME NEW key \in DOMAIN actions
      PROVE  ~HasSecret(actions'[key].input.text)
  BY <1>1 DEF KeepsProvenance, StoredIsClean
<1>3. ASSUME NEW key \in DOMAIN actions' \ DOMAIN actions
      PROVE  ~HasSecret(actions'[key].input.text)
  <2>1. PICK r \in Request : /\ pc[r] = "update" /\ key \in inserted[r]
                             /\ actions'[key] = Stored(Built(r)[key])
    BY <1>3, RowsCome
  <2>2. key \in DOMAIN Built(r) /\ ~HasResidual(posted[r])
    BY <2>1 DEF Agreement, StepsFit, StepFits, StoredIsClean
  <2>3. posted[r] \in Imports /\ posted[r].lines <= Len(Transcript[posted[r].sessionExternalId])
    BY <2>1, PostedFits
  <2>4. ~HasSecret(Built(r)[key].input.text)
    BY <2>2, <2>3, AcceptedIsClean DEF Built
  <2>5. actions'[key].input = Built(r)[key].input
    BY <2>1 DEF Stored
  <2> QED
    BY <2>4, <2>5
<1>4. \A r \in Request : pc'[r] \in {"insert", "update"} => ~HasResidual(posted'[r])
  BY OnlyChecked
<1>5. (\A r \in Request : pc[r] \in {"insert", "update"} => ~HasResidual(posted[r]))'
  BY <1>4 DEF HasResidual
<1> QED
  BY <1>2, <1>3, <1>5 DEF StoredIsClean

\* No text a redaction rule matches is stored, for any transcripts, cut and retried and
\* imported at a time in whatever way (cutInput, residualSecretKinds): and the server
\* refuses no Session the CLI has parsed for its secrets, but where a string of an input
\* ends with the name of one.
THEOREM RedactedTextsOnly == Spec => []RedactedOnce
PROOF
<1>1. Init => Agreement /\ StoredIsClean
  <2>1. Init => StoredIsClean
    BY DEF Init, StoredIsClean, Transaction
  <2> QED
    BY <2>1, InitAgreement
<1>2. Agreement /\ StoredIsClean /\ [Next]_vars => (Agreement /\ StoredIsClean)'
  BY NextAgreement, NextIsClean
<1>3. Agreement /\ StoredIsClean => RedactedOnce
  <2> SUFFICES ASSUME Agreement, StoredIsClean PROVE RedactedOnce
    OBVIOUS
  <2>1. ASSUME NEW r \in Request, pc[r] # "free", HasResidual(posted[r])
        PROVE  \E i \in 1..posted[r].lines :
                  \E j \in DOMAIN Transcript[posted[r].sessionExternalId][i].uses :
                     EndsWithName(Transcript[posted[r].sessionExternalId][i].uses[j])
    <3>1. posted[r] \in Imports /\ posted[r].lines <= Len(Transcript[posted[r].sessionExternalId])
      BY <2>1, PostedFits
    <3> QED
      BY <2>1, <3>1, ResidualIsName
  <2> QED
    BY <2>1 DEF RedactedOnce, StoredIsClean
<1> QED
  BY <1>1, <1>2, <1>3, PTL DEF Spec
=============================================================================
