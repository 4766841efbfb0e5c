------------------------ MODULE DecisionTransactions ------------------------
(***************************************************************************)
(* The transactions of the review store, statement by statement, on        *)
(* PostgreSQL at READ COMMITTED: a statement sees what is committed; an    *)
(* update waits for the row while another transaction has written it, and  *)
(* then looks at its condition again; nothing is seen before the commit.   *)
(* What a transaction has written and not committed is therefore also the  *)
(* row locks it holds.                                                     *)
(*                                                                         *)
(* ChangeReview takes each of these transactions as one step.              *)
(***************************************************************************)
EXTENDS Integers, Sequences, FiniteSets

CONSTANTS
    Version,      \* policy versions
    Review,       \* change reviews
    Seed,         \* ids of the rows that seeding writes
    Candidate,    \* review -> the version it reviews
    Tx,           \* concurrent transactions
    MaxSequence,  \* bound: values the sequence of review_decisions may give
    None          \* stands for null

ASSUME TransactionAssumption ==
    /\ Candidate \in [Review -> Version]
    /\ MaxSequence \in Nat
    /\ Review \cap Seed = {}
    /\ None \notin Review \cup Seed
                     \cup {"draft", "in_review", "accepted", "rejected"}
                     \cup {"absent", "computing", "ready", "failed", "withdrawn"}

VARIABLES
    vstatus,      \* policy_versions.status, committed
    rstatus,      \* change_reviews.status, committed
    rows,         \* review_decisions, committed
    next,         \* the next value of the bigserial sequence
    tx            \* the transactions

tables == <<vstatus, rstatus, rows>>
vars == <<vstatus, rstatus, rows, next, tx>>

-----------------------------------------------------------------------------

VersionStatus == {"draft", "in_review", "accepted", "rejected"}
ReviewStatus ==
    {"absent", "computing", "ready", "accepted", "rejected", "failed", "withdrawn"}
Open == {"computing", "ready"}
Outcome == {"accept", "reject"}
Kind == Outcome \cup {"withdraw", "fail", "ready", "seed"}

DecisionId == Review \cup Seed
DecisionRecord == [id : DecisionId, outcome : Outcome]

\* chainHash. A hash without collisions is the list of records it covers.
GenesisHash == <<>>
ChainHash(prevHash, record) == Append(prevHash, record)
Hash == Seq(DecisionRecord)

Row == [record : DecisionRecord, sequence : Nat, prevHash : Hash, hash : Hash]

\* null is none of the rows.
ASSUME NullAssumption == None \notin Row

Step ==
    {"idle", "readVersion", "updateVersion", "lockTable", "readTail", "insert",
     "updateReview", "commit"}

\* vset, rset and row are what it has written; locked is its lock on the table.
TxState ==
    [at : Step, kind : Kind \cup {None}, id : DecisionId \cup {None},
     vset : VersionStatus \cup {None}, rset : ReviewStatus \cup {None},
     row : Row \cup {None}, tail : Hash, locked : BOOLEAN]

Idle ==
    [at |-> "idle", kind |-> None, id |-> None, vset |-> None, rset |-> None,
     row |-> None, tail |-> GenesisHash, locked |-> FALSE]

TypeOK ==
    /\ vstatus \in [Version -> VersionStatus]
    /\ rstatus \in [Review -> ReviewStatus]
    /\ rows \subseteq Row
    /\ next \in Nat
    /\ tx \in [Tx -> TxState]

Init ==
    /\ vstatus = [v \in Version |-> "draft"]
    /\ rstatus = [r \in Review |-> "absent"]
    /\ rows = {}
    /\ next = 1
    /\ tx = [p \in Tx |-> Idle]

-----------------------------------------------------------------------------
(* Locks                                                                    *)

Target(p) == Candidate[tx[p].id]
Decides(p) == tx[p].kind \in Outcome
Appends(p) == tx[p].kind \in Outcome \cup {"seed"}

HoldsVersion(p, v) == tx[p].vset # None /\ Target(p) = v
HoldsReview(p, r) == tx[p].rset # None /\ tx[p].id = r

\* A unique index makes an insert wait for a row that is not committed yet.
SameKey(x, id, prevHash) == x.record.id = id \/ x.prevHash = prevHash

\* Mutant of Blocks: the table is locked in share mode, which lets other appenders
\* lock it too and makes the insert wait for them.
BlocksInShareMode(q, p) ==
    /\ q # p
    /\ \/ tx[p].at = "updateVersion" /\ HoldsVersion(q, Target(p))
       \/ tx[p].at = "updateReview" /\ HoldsReview(q, tx[p].id)
       \/ tx[p].at = "insert" /\ tx[q].locked

\* q has what the statement p is at waits for.
Blocks(q, p) ==
    /\ q # p
    /\ \/ tx[p].at = "updateVersion" /\ HoldsVersion(q, Target(p))
       \/ tx[p].at = "updateReview" /\ HoldsReview(q, tx[p].id)
       \/ tx[p].at = "lockTable" /\ tx[q].locked
       \/ /\ tx[p].at = "insert"
          /\ tx[q].row # None
          /\ SameKey(tx[q].row, tx[p].id, tx[p].tail)

Free(p) == \A q \in Tx : ~Blocks(q, p)

\* Everyone in S waits for another in it, and is waited for by another in it.
Deadlock(S) ==
    \A q \in S : (\E h \in S : Blocks(h, q)) /\ (\E w \in S : Blocks(q, w))

Deadlocked(p) == \E S \in SUBSET Tx : p \in S /\ Deadlock(S)

Goto(p, s) == tx' = [tx EXCEPT ![p].at = s]
Rollback(p) == tx' = [tx EXCEPT ![p] = Idle] /\ UNCHANGED <<tables, next>>

-----------------------------------------------------------------------------
(* What begins transactions                                                 *)

\* createChangeReview, seen from here: the candidate is or is put in review, and
\* the review is inserted.
OpenReview(r) ==
    LET v == Candidate[r] IN
    /\ rstatus[r] = "absent"
    /\ vstatus[v] \in {"draft", "in_review"}
    /\ \A p \in Tx : ~HoldsVersion(p, v)
    /\ vstatus' = [vstatus EXCEPT ![v] = "in_review"]
    /\ rstatus' = [rstatus EXCEPT ![r] = "computing"]
    /\ UNCHANGED <<rows, next, tx>>

\* The status a handler saw before it calls the store with a transaction.
Prevalidated(kind, r) ==
    CASE kind \in Outcome -> rstatus[r] = "ready"
      [] kind = "withdraw" -> rstatus[r] \in Open
      [] kind \in {"fail", "ready"} -> rstatus[r] = "computing"

FirstStep(kind) ==
    CASE kind \in Outcome -> "readVersion"
      [] kind \in {"withdraw", "fail", "ready"} -> "updateReview"
      [] kind = "seed" -> "lockTable"

\* Bound: an appender begins only if the sequence has a value left for it.
SequenceLeft ==
    next + Cardinality({p \in Tx : Appends(p) /\ tx[p].row = None}) <= MaxSequence

Begin(p, kind, id) ==
    /\ tx[p].at = "idle"
    /\ IF kind = "seed" THEN id \in Seed ELSE id \in Review /\ Prevalidated(kind, id)
    /\ kind \in Outcome \cup {"seed"} => SequenceLeft
    /\ tx' = [tx EXCEPT ![p] =
                [Idle EXCEPT !.at = FirstStep(kind), !.kind = kind, !.id = id]]
    /\ UNCHANGED <<tables, next>>

-----------------------------------------------------------------------------
(* transitionVersion, in a transaction: a read, then an update              *)

\* Mutant of ToStatus: a withdrawn review's status for its candidate.
ToReviewStatus(kind) ==
    CASE kind = "accept" -> "accepted"
      [] kind = "reject" -> "rejected"
      [] OTHER -> "withdrawn"

\* The status a transition leads to; every one of them leaves in_review.
ToStatus(kind) ==
    CASE kind = "accept" -> "accepted"
      [] kind = "reject" -> "rejected"
      [] OTHER -> "draft"

\* A refused transition is a defect to decide and to withdrawReview, which throw;
\* failReview leaves the candidate alone.
ReadVersion(p) ==
    /\ tx[p].at = "readVersion"
    /\ IF vstatus[Target(p)] = "in_review" THEN
            Goto(p, "updateVersion") /\ UNCHANGED <<tables, next>>
       ELSE IF tx[p].kind = "fail" THEN
            Goto(p, "commit") /\ UNCHANGED <<tables, next>>
       ELSE Rollback(p)

WriteVersion(p) ==
    tx' = [tx EXCEPT ![p].vset = ToStatus(tx[p].kind),
                     ![p].at = IF Decides(p) THEN "lockTable" ELSE "commit"]

\* Mutant of UpdateVersion: the update has no condition on the status.
UpdateVersionById(p) ==
    /\ tx[p].at = "updateVersion"
    /\ Free(p)
    /\ WriteVersion(p)
    /\ UNCHANGED <<tables, next>>

\* update ... where status = <what was read>; no row is an invariant broken.
UpdateVersion(p) ==
    /\ tx[p].at = "updateVersion"
    /\ Free(p)
    /\ IF vstatus[Target(p)] = "in_review"
       THEN WriteVersion(p) /\ UNCHANGED <<tables, next>>
       ELSE Rollback(p)

-----------------------------------------------------------------------------
(* appendReviewDecision                                                     *)

\* Mutant of LockTable: appenders do not wait for each other.
SkipLock(p) ==
    /\ tx[p].at = "lockTable"
    /\ Goto(p, "readTail")
    /\ UNCHANGED <<tables, next>>

\* lock table review_decisions in share row exclusive mode, until the end.
LockTable(p) ==
    /\ tx[p].at = "lockTable"
    /\ Free(p)
    /\ tx' = [tx EXCEPT ![p].at = "readTail", ![p].locked = TRUE]
    /\ UNCHANGED <<tables, next>>

TailHash ==
    IF rows = {} THEN GenesisHash
    ELSE (CHOOSE x \in rows : \A y \in rows : y.sequence <= x.sequence).hash

ReadTail(p) ==
    /\ tx[p].at = "readTail"
    /\ tx' = [tx EXCEPT ![p].tail = TailHash, ![p].at = "insert"]
    /\ UNCHANGED <<tables, next>>

\* Mutant of NextValues: a session gives out values of a range it cached.
CachedValues == {n \in 1..(next + 1) : \A x \in rows : x.sequence # n}

NextValues == {next}

\* The sequence is not part of the transaction: its value is spent either way. A
\* taken key (the primary key, or unique prev_hash) fails the insert.
Insert(p) ==
    LET record == [id |-> tx[p].id,
                   outcome |-> IF Decides(p) THEN tx[p].kind ELSE "accept"]
        hash == ChainHash(tx[p].tail, record)
    IN
    /\ tx[p].at = "insert"
    /\ Free(p)
    /\ next' = next + 1
    /\ \E n \in NextValues :
         tx' = [tx EXCEPT ![p] =
                  IF \E x \in rows : SameKey(x, tx[p].id, tx[p].tail) THEN Idle
                  ELSE [@ EXCEPT
                          !.row = [record |-> record, sequence |-> n,
                                   prevHash |-> tx[p].tail, hash |-> hash],
                          !.at = IF Decides(p) THEN "updateReview" ELSE "commit"]]
    /\ UNCHANGED tables

-----------------------------------------------------------------------------
(* The update of change_reviews                                             *)

\* updateStatus and decide write whatever they find; withdrawReview and
\* failReview ask for the status.
Accepts(kind, status) ==
    CASE kind = "withdraw" -> status \in Open
      [] kind = "fail" -> status = "computing"
      [] OTHER -> TRUE

ReviewStatusOf(kind) ==
    CASE kind = "accept" -> "accepted"
      [] kind = "reject" -> "rejected"
      [] kind = "withdraw" -> "withdrawn"
      [] kind = "fail" -> "failed"
      [] kind = "ready" -> "ready"

UpdateReview(p) ==
    /\ tx[p].at = "updateReview"
    /\ Free(p)
    /\ IF Accepts(tx[p].kind, rstatus[tx[p].id])
       THEN tx' = [tx EXCEPT
                     ![p].rset = ReviewStatusOf(tx[p].kind),
                     ![p].at = IF tx[p].kind \in {"withdraw", "fail"}
                               THEN "readVersion" ELSE "commit"]
       ELSE tx' = [tx EXCEPT ![p] = Idle]     \* nothing written, nothing to commit
    /\ UNCHANGED <<tables, next>>

-----------------------------------------------------------------------------
(* The end of a transaction                                                 *)

Commit(p) ==
    /\ tx[p].at = "commit"
    /\ vstatus' = IF tx[p].vset = None THEN vstatus
                  ELSE [vstatus EXCEPT ![Target(p)] = tx[p].vset]
    /\ rstatus' = IF tx[p].rset = None THEN rstatus
                  ELSE [rstatus EXCEPT ![tx[p].id] = tx[p].rset]
    /\ rows' = IF tx[p].row = None THEN rows ELSE rows \cup {tx[p].row}
    /\ tx' = [tx EXCEPT ![p] = Idle]
    /\ UNCHANGED next

\* The connection or the server process is lost.
Abort(p) ==
    /\ tx[p].at # "idle"
    /\ Rollback(p)

\* PostgreSQL ends one of the transactions that wait for each other.
DetectDeadlock(p) ==
    /\ Deadlocked(p)
    /\ Rollback(p)

-----------------------------------------------------------------------------

Statement(p) ==
    \/ ReadVersion(p)
    \/ UpdateVersion(p)
    \/ LockTable(p)
    \/ ReadTail(p)
    \/ Insert(p)
    \/ UpdateReview(p)
    \/ Commit(p)

Next ==
    \/ \E r \in Review : OpenReview(r)
    \/ \E p \in Tx :
         \/ \E kind \in Kind, id \in DecisionId : Begin(p, kind, id)
         \/ Statement(p)
         \/ Abort(p)
         \/ DetectDeadlock(p)

Spec == Init /\ [][Next]_vars

-----------------------------------------------------------------------------

\* verifyAuditChain passes on what is committed, whatever was rolled back and
\* whatever values of the sequence were lost: in the order of the sequence, every
\* row is chained to the one before it.
ChainIntact ==
    /\ \A x, y \in rows : x.sequence = y.sequence => x = y
    /\ \A x \in rows :
         LET Before == {y \in rows : y.sequence < x.sequence} IN
         /\ x.hash = ChainHash(x.prevHash, x.record)
         /\ IF Before = {} THEN x.prevHash = GenesisHash
            ELSE \E y \in Before : /\ \A z \in Before : z.sequence <= y.sequence
                                   /\ x.prevHash = y.hash

\* "The table lock serializes appenders so each reads the tail its insert
\* extends" (packages/review/lib/infra/audit-chain.ts:32): the unique prev_hash
\* never has to refuse a decision.
TailIsExtended ==
    \A p \in Tx : tx[p].at = "insert" =>
        /\ tx[p].tail = TailHash
        /\ \A q \in Tx : tx[q].row = None

\* decide takes the version, then the table, then the review; withdrawReview and
\* failReview take the review before the version (review-store.ts:257, :136, :159).
\* The cross of the two on one review is the only deadlock there is: decisions,
\* seeding and status updates never wait for each other in a circle, on however many
\* reviews and versions they are.
OnlyAWithdrawalDeadlocks ==
    \A S \in (SUBSET Tx) \ {{}} : Deadlock(S) =>
        \E p, q \in S : /\ Decides(p)
                        /\ tx[q].kind \in {"withdraw", "fail"}
                        /\ tx[p].id = tx[q].id

-----------------------------------------------------------------------------
(* The transactions as steps of DecisionLog                                 *)

\* The rows in the order of the sequence, as verifyAuditChain reads them.
RankIn(table, x) == Cardinality({y \in table : y.sequence <= x.sequence})
RecordsOf(table) ==
    [i \in 1..Cardinality(table) |-> (CHOOSE x \in table : RankIn(table, x) = i).record]
Records == RecordsOf(rows)

Log == INSTANCE DecisionLog WITH stage <- vstatus, log <- Records

\* What other connections see of the transactions is DecisionLog: each takes
\* effect at its commit and as a whole, its decision is the last of the log, and a
\* version is decided once. It is why ChangeReview may take a transaction as one
\* step.
ImplementsDecisionLog == Log!Spec
=============================================================================
