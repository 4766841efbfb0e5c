--------------------- MODULE DecisionTransactionsProofs ---------------------
(***************************************************************************)
(* The decision chain of DecisionTransactions is intact for any number of  *)
(* versions, reviews and concurrent transactions. The table lock makes one *)
(* transaction the appender, what the appender has read stays the tail     *)
(* until it ends, and the sequence is read under the lock.                 *)
(*                                                                         *)
(* What is committed is DecisionLog: a transaction that has written a      *)
(* version keeps it in review for all others until it ends, and a row that *)
(* waits to be committed has the next rank, so that each commit is one     *)
(* step of the log.                                                        *)
(*                                                                         *)
(* The last part is about the order in which the transactions take locks.  *)
(***************************************************************************)
EXTENDS DecisionTransactions, FiniteSetTheorems, SequenceTheorems, TLAPS

-----------------------------------------------------------------------------
(* The inductive invariant                                                  *)

\* What a transaction at each of its steps knows of its kind and its target.
KindFits(t) ==
    /\ t.at # "idle" => t.kind \in Kind /\ t.id \in DecisionId
    /\ t.at = "updateReview" => t.kind # "seed"
    /\ t.at \in {"lockTable", "readTail", "insert"} => t.kind \in Outcome \cup {"seed"}

KindsFit == \A p \in Tx : KindFits(tx[p])

\* The lock on the table covers everything from the read of the tail on.
AppendersHoldLock ==
    \A p \in Tx :
        /\ tx[p].at \in {"readTail", "insert"} => tx[p].locked
        /\ tx[p].row # None =>
             tx[p].locked /\ Appends(p) /\ tx[p].at \in {"updateReview", "commit"}

OneHolder == \A p, q \in Tx : tx[p].locked /\ tx[q].locked => p = q

\* The sequence is ahead of every row.
SequenceIsAhead ==
    /\ \A x \in rows : x.sequence < next
    /\ \A p \in Tx : tx[p].row # None => tx[p].row.sequence < next

\* There is a last row, if there is one.
TailExists == rows # {} => \E x \in rows : \A y \in rows : y.sequence <= x.sequence

\* A row that is not committed yet extends the tail.
TailIsKept ==
    \A p \in Tx :
        /\ tx[p].at = "insert" => tx[p].tail = TailHash
        /\ tx[p].row # None =>
             /\ tx[p].row.prevHash = TailHash
             /\ tx[p].row.hash = ChainHash(TailHash, tx[p].row.record)
             /\ \A x \in rows : x.sequence < tx[p].row.sequence

Appending ==
    AppendersHoldLock /\ OneHolder /\ SequenceIsAhead /\ TailExists /\ TailIsKept

IInv == TypeOK /\ KindsFit /\ Appending /\ ChainIntact

LEMMA InitIInv == Init => IInv
  <1> SUFFICES ASSUME Init PROVE IInv
    OBVIOUS
  <1>1. TypeOK
    <2>1. GenesisHash \in Hash
      BY DEF GenesisHash, Hash
    <2>2. Idle \in TxState
      BY <2>1 DEF Idle, TxState, Step
    <2> QED BY <2>2 DEF Init, TypeOK, VersionStatus, ReviewStatus
  <1>2. KindsFit /\ Appending /\ ChainIntact
    BY DEF Init, Idle, KindsFit, KindFits, Appending, AppendersHoldLock, OneHolder,
           SequenceIsAhead, TailExists, TailIsKept, ChainIntact
  <1> QED BY <1>1, <1>2 DEF IInv

-----------------------------------------------------------------------------
(* Types                                                                    *)

LEMMA IdleType == Idle \in TxState
  BY DEF Idle, TxState, Step, GenesisHash, Hash

LEMMA TailType == ASSUME IInv PROVE TailHash \in Hash
  <1>1. CASE rows = {}
    BY <1>1 DEF TailHash, GenesisHash, Hash
  <1>2. CASE rows # {}
    <2>1. PICK x \in rows : \A y \in rows : y.sequence <= x.sequence
      BY <1>2 DEF IInv, Appending, TailExists
    <2> DEFINE t == CHOOSE z \in rows : \A y \in rows : y.sequence <= z.sequence
    <2>2. t \in rows
      BY <2>1
    <2>3. t.hash \in Hash
      BY <2>2 DEF IInv, TypeOK, Row
    <2> QED BY <1>2, <2>3 DEF TailHash
  <1> QED BY <1>1, <1>2

\* A step that changes the state of one transaction and keeps its types.
LEMMA TxTypes ==
    ASSUME IInv, NEW p \in Tx, NEW t \in TxState, tx' = [tx EXCEPT ![p] = t],
           UNCHANGED tables, next' \in Nat,
           KindFits(t)
    PROVE  TypeOK' /\ KindsFit'
  <1>1. tx' \in [Tx -> TxState]
    BY DEF IInv, TypeOK
  <1>2. TypeOK'
    BY <1>1 DEF IInv, TypeOK, tables
  <1>3. ASSUME NEW q \in Tx
        PROVE  KindFits(tx'[q])
    <2>1. CASE q = p
      BY <2>1 DEF IInv, TypeOK
    <2>2. CASE q # p
      BY <2>2, <1>3 DEF IInv, TypeOK, KindsFit
    <2> QED BY <2>1, <2>2
  <1> QED BY <1>2, <1>3 DEF KindsFit, KindFits

-----------------------------------------------------------------------------
(* The chain                                                                *)

\* A step that commits nothing and gives out no value of the sequence, by a
\* transaction that keeps its row or drops it.
LEMMA QuietStep ==
    ASSUME IInv, NEW p \in Tx, NEW t \in TxState, tx' = [tx EXCEPT ![p] = t],
           rows' = rows, next' = next,
           t.locked => tx[p].locked \/ \A q \in Tx : q # p => ~tx[q].locked,
           t.at \in {"readTail", "insert"} => t.locked,
           t.at = "insert" => t.tail = TailHash,
           t.row # None => /\ t.row = tx[p].row /\ t.kind = tx[p].kind
                           /\ t.locked
                           /\ t.at \in {"updateReview", "commit"}
    PROVE  Appending' /\ ChainIntact'
  <1> USE DEF IInv, Appending, TypeOK
  <1>1. TailHash' = TailHash
    BY DEF TailHash
  <1>2. /\ tx'[p] = t
        /\ \A q \in Tx : q # p => tx'[q] = tx[q]
    OBVIOUS
  <1>3. AppendersHoldLock' /\ OneHolder'
    BY <1>2 DEF AppendersHoldLock, OneHolder, Appends
  <1>4. SequenceIsAhead'
    BY <1>2 DEF SequenceIsAhead
  <1>5. TailExists' /\ ChainIntact'
    BY DEF TailExists, ChainIntact
  <1>6. ASSUME NEW q \in Tx
        PROVE  /\ tx'[q].at = "insert" => tx'[q].tail = TailHash
               /\ tx'[q].row # None =>
                    /\ tx'[q].row.prevHash = TailHash
                    /\ tx'[q].row.hash = ChainHash(TailHash, tx'[q].row.record)
                    /\ \A x \in rows : x.sequence < tx'[q].row.sequence
    <2>1. CASE q = p
      BY <2>1, <1>2 DEF TailIsKept
    <2>2. CASE q # p
      BY <2>2, <1>2, <1>6 DEF TailIsKept
    <2> QED BY <2>1, <2>2
  <1>7. TailIsKept'
    BY <1>1, <1>6 DEF TailIsKept
  <1> QED BY <1>3, <1>4, <1>5, <1>7

LEMMA RollbackKeeps ==
    ASSUME IInv, NEW p \in Tx, Rollback(p)
    PROVE  IInv'
  <1>1. /\ tx' = [tx EXCEPT ![p] = Idle]
        /\ UNCHANGED tables /\ next' = next /\ next' \in Nat /\ rows' = rows
    BY DEF Rollback, IInv, TypeOK, tables
  <1>2. KindFits(Idle) /\ Idle.at = "idle" /\ ~Idle.locked /\ Idle.row = None
    BY DEF Idle, KindFits
  <1>3. TypeOK' /\ KindsFit'
    BY <1>1, <1>2, IdleType, TxTypes
  <1>4. Appending' /\ ChainIntact'
    BY <1>1, <1>2, IdleType, QuietStep
  <1> QED BY <1>3, <1>4 DEF IInv

\* A quiet step of p to state t, with its types.
LEMMA StepKeeps ==
    ASSUME IInv, NEW p \in Tx, NEW t \in TxState, tx' = [tx EXCEPT ![p] = t],
           UNCHANGED <<tables, next>>,
           KindFits(t),
           t.locked => tx[p].locked \/ \A q \in Tx : q # p => ~tx[q].locked,
           t.at \in {"readTail", "insert"} => t.locked,
           t.at = "insert" => t.tail = TailHash,
           t.row # None => /\ t.row = tx[p].row /\ t.kind = tx[p].kind
                           /\ t.locked
                           /\ t.at \in {"updateReview", "commit"}
    PROVE  IInv'
  <1>1. UNCHANGED tables /\ next' = next /\ next' \in Nat /\ rows' = rows
    BY DEF IInv, TypeOK, tables
  <1>2. TypeOK' /\ KindsFit'
    BY <1>1, TxTypes
  <1>3. Appending' /\ ChainIntact'
    BY <1>1, QuietStep
  <1> QED BY <1>2, <1>3 DEF IInv

\* A transaction that only goes on to the next step.
LEMMA GotoKeeps ==
    ASSUME IInv, NEW p \in Tx, NEW s \in Step \ {"idle", "insert", "updateReview"},
           tx[p].at # "idle", tx[p].row = None, s \notin {"lockTable", "readTail"},
           Goto(p, s), UNCHANGED <<tables, next>>
    PROVE  IInv'
  <1> DEFINE t == [tx[p] EXCEPT !.at = s]
  <1>1. tx[p] \in TxState /\ tx' = [tx EXCEPT ![p] = t]
    BY DEF IInv, TypeOK, Goto
  <1>2. t \in TxState /\ t.at = s /\ t.kind = tx[p].kind /\ t.id = tx[p].id
        /\ t.row = None /\ t.locked = tx[p].locked
    BY <1>1 DEF TxState
  <1>3. tx[p].kind \in Kind /\ tx[p].id \in DecisionId
    BY DEF IInv, KindsFit, KindFits
  <1> HIDE DEF t
  <1> QED BY <1>1, <1>2, <1>3, StepKeeps DEF KindFits

LEMMA BeginKeeps ==
    ASSUME IInv, NEW p \in Tx, NEW kind \in Kind, NEW id \in DecisionId,
           Begin(p, kind, id)
    PROVE  IInv'
  <1> DEFINE t == [Idle EXCEPT !.at = FirstStep(kind), !.kind = kind, !.id = id]
  <1>1. FirstStep(kind) \in {"readVersion", "updateReview", "lockTable"}
        /\ (FirstStep(kind) = "updateReview" => kind # "seed")
        /\ (FirstStep(kind) = "lockTable" => kind = "seed")
    BY DEF FirstStep, Kind, Outcome
  <1>2. Idle \in TxState /\ Idle.row = None /\ ~Idle.locked
    BY IdleType DEF Idle
  <1>3. t \in TxState /\ t.at = FirstStep(kind) /\ t.kind = kind /\ t.id = id
        /\ t.row = None /\ ~t.locked
    BY <1>1, <1>2 DEF TxState, Step
  <1>4. tx' = [tx EXCEPT ![p] = t] /\ UNCHANGED <<tables, next>>
    BY DEF Begin
  <1> HIDE DEF t
  <1> QED BY <1>1, <1>3, <1>4, StepKeeps DEF KindFits

LEMMA OpenReviewKeeps ==
    ASSUME IInv, NEW r \in Review, OpenReview(r)
    PROVE  IInv'
  <1>1. TypeOK'
    BY DEF IInv, TypeOK, OpenReview, VersionStatus, ReviewStatus
  <1>2. UNCHANGED <<rows, next, tx>>
    BY DEF OpenReview
  <1>3. KindsFit' /\ ChainIntact'
    BY <1>2 DEF IInv, KindsFit, KindFits, ChainIntact
  <1>4. TailHash' = TailHash
    BY <1>2 DEF TailHash
  <1>5. Appending'
    BY <1>2, <1>4 DEF IInv, Appending, AppendersHoldLock, OneHolder, SequenceIsAhead,
                      TailExists, TailIsKept, Appends
  <1> QED BY <1>1, <1>3, <1>5 DEF IInv

\* A transaction that has no row yet.
LEMMA NoRowYet ==
    ASSUME IInv, NEW p \in Tx, tx[p].at \notin {"updateReview", "commit"}
    PROVE  tx[p].row = None
  BY DEF IInv, Appending, AppendersHoldLock

LEMMA ReadVersionKeeps ==
    ASSUME IInv, NEW p \in Tx, ReadVersion(p)
    PROVE  IInv'
  <1>1. tx[p].at = "readVersion" /\ tx[p].row = None
    BY NoRowYet DEF ReadVersion
  <1>2. CASE Rollback(p)
    BY <1>2, RollbackKeeps
  <1>3. CASE Goto(p, "updateVersion") /\ UNCHANGED <<tables, next>>
    BY <1>1, <1>3, GotoKeeps DEF Step
  <1>4. CASE Goto(p, "commit") /\ UNCHANGED <<tables, next>>
    BY <1>1, <1>4, GotoKeeps DEF Step
  <1> QED BY <1>2, <1>3, <1>4 DEF ReadVersion

LEMMA UpdateVersionKeeps ==
    ASSUME IInv, NEW p \in Tx, UpdateVersion(p)
    PROVE  IInv'
  <1>1. tx[p].at = "updateVersion" /\ tx[p].row = None
    BY NoRowYet DEF UpdateVersion
  <1>2. CASE Rollback(p)
    BY <1>2, RollbackKeeps
  <1>3. CASE WriteVersion(p) /\ UNCHANGED <<tables, next>>
    <2> DEFINE s == IF Decides(p) THEN "lockTable" ELSE "commit"
               t == [tx[p] EXCEPT !.vset = ToStatus(tx[p].kind), !.at = s]
    <2>1. tx[p] \in TxState /\ tx' = [tx EXCEPT ![p] = t]
      BY <1>3 DEF IInv, TypeOK, WriteVersion
    <2>2. ToStatus(tx[p].kind) \in VersionStatus /\ s \in Step
      BY DEF ToStatus, VersionStatus, Step
    <2>3. t \in TxState /\ t.at = s /\ t.kind = tx[p].kind /\ t.id = tx[p].id
          /\ t.row = None /\ t.locked = tx[p].locked
      BY <1>1, <2>1, <2>2 DEF TxState
    <2>4. s \in {"lockTable", "commit"} /\ (s = "lockTable" => tx[p].kind \in Outcome)
      BY DEF Decides
    <2>5. tx[p].kind \in Kind /\ tx[p].id \in DecisionId
      BY <1>1 DEF IInv, KindsFit, KindFits
    <2> HIDE DEF t, s
    <2> QED BY <1>3, <2>1, <2>3, <2>4, <2>5, StepKeeps DEF KindFits
  <1> QED BY <1>2, <1>3 DEF UpdateVersion

LEMMA LockTableKeeps ==
    ASSUME IInv, NEW p \in Tx, LockTable(p)
    PROVE  IInv'
  <1> DEFINE t == [tx[p] EXCEPT !.at = "readTail", !.locked = TRUE]
  <1>1. tx[p].at = "lockTable" /\ tx[p].row = None
    BY NoRowYet DEF LockTable
  <1>2. tx[p] \in TxState /\ tx' = [tx EXCEPT ![p] = t] /\ UNCHANGED <<tables, next>>
    BY DEF IInv, TypeOK, LockTable
  <1>3. t \in TxState /\ t.at = "readTail" /\ t.kind = tx[p].kind /\ t.id = tx[p].id
        /\ t.row = None /\ t.locked
    BY <1>1, <1>2 DEF TxState, Step
  <1>4. \A q \in Tx : q # p => ~tx[q].locked
    BY <1>1 DEF LockTable, Free, Blocks
  <1>5. tx[p].kind \in Kind \cap (Outcome \cup {"seed"}) /\ tx[p].id \in DecisionId
    BY <1>1 DEF IInv, KindsFit, KindFits
  <1> HIDE DEF t
  <1> QED BY <1>2, <1>3, <1>4, <1>5, StepKeeps DEF KindFits

LEMMA ReadTailKeeps ==
    ASSUME IInv, NEW p \in Tx, ReadTail(p)
    PROVE  IInv'
  <1> DEFINE t == [tx[p] EXCEPT !.tail = TailHash, !.at = "insert"]
  <1>1. tx[p].at = "readTail" /\ tx[p].row = None
    BY NoRowYet DEF ReadTail
  <1>2. tx[p] \in TxState /\ tx' = [tx EXCEPT ![p] = t] /\ UNCHANGED <<tables, next>>
    BY DEF IInv, TypeOK, ReadTail
  <1>3. t \in TxState /\ t.at = "insert" /\ t.kind = tx[p].kind /\ t.id = tx[p].id
        /\ t.row = None /\ t.locked = tx[p].locked /\ t.tail = TailHash
    BY <1>1, <1>2, TailType DEF TxState, Step
  <1>4. tx[p].locked
    BY <1>1 DEF IInv, Appending, AppendersHoldLock
  <1>5. tx[p].kind \in Kind \cap (Outcome \cup {"seed"}) /\ tx[p].id \in DecisionId
    BY <1>1 DEF IInv, KindsFit, KindFits
  <1> HIDE DEF t
  <1> QED BY <1>2, <1>3, <1>4, <1>5, StepKeeps DEF KindFits

LEMMA UpdateReviewKeeps ==
    ASSUME IInv, NEW p \in Tx, UpdateReview(p)
    PROVE  IInv'
  <1>1. tx[p].at = "updateReview" /\ tx[p] \in TxState /\ UNCHANGED <<tables, next>>
        /\ tx[p].kind \in Kind \ {"seed"} /\ tx[p].id \in DecisionId
    BY DEF UpdateReview, IInv, TypeOK, KindsFit, KindFits
  <1>2. CASE tx' = [tx EXCEPT ![p] = Idle]
    BY <1>1, <1>2, RollbackKeeps DEF Rollback
  <1>3. CASE tx' = [tx EXCEPT
                      ![p].rset = ReviewStatusOf(tx[p].kind),
                      ![p].at = IF tx[p].kind \in {"withdraw", "fail"}
                                THEN "readVersion" ELSE "commit"]
    <2> DEFINE s == IF tx[p].kind \in {"withdraw", "fail"} THEN "readVersion" ELSE "commit"
               t == [tx[p] EXCEPT !.rset = ReviewStatusOf(tx[p].kind), !.at = s]
    <2>1. tx' = [tx EXCEPT ![p] = t]
      BY <1>1, <1>3 DEF IInv, TypeOK
    <2>2. ReviewStatusOf(tx[p].kind) \in ReviewStatus /\ s \in Step
      BY <1>1 DEF ReviewStatusOf, ReviewStatus, Kind, Outcome, Step
    <2>3. t \in TxState /\ t.at = s /\ t.kind = tx[p].kind /\ t.id = tx[p].id
          /\ t.row = tx[p].row /\ t.locked = tx[p].locked
      BY <1>1, <2>2 DEF TxState
    <2>4. s \in {"readVersion", "commit"}
      OBVIOUS
    <2>5. tx[p].row # None => s = "commit" /\ tx[p].locked
      BY DEF IInv, Appending, AppendersHoldLock, Appends, Outcome
    <2> HIDE DEF t, s
    <2> QED BY <1>1, <2>1, <2>3, <2>4, <2>5, StepKeeps DEF KindFits
  <1> QED BY <1>2, <1>3 DEF UpdateReview

LEMMA InsertKeeps ==
    ASSUME IInv, NEW p \in Tx, Insert(p)
    PROVE  IInv'
  <1> DEFINE record == [id |-> tx[p].id,
                        outcome |-> IF Decides(p) THEN tx[p].kind ELSE "accept"]
             row == [record |-> record, sequence |-> next, prevHash |-> tx[p].tail,
                     hash |-> ChainHash(tx[p].tail, record)]
             s == IF Decides(p) THEN "updateReview" ELSE "commit"
             t == [tx[p] EXCEPT !.row = row, !.at = s]
  <1>1. /\ tx[p].at = "insert" /\ tx[p] \in TxState /\ tx[p].locked
        /\ tx[p].kind \in Kind \cap (Outcome \cup {"seed"}) /\ tx[p].id \in DecisionId
        /\ tx[p].tail = TailHash /\ TailHash \in Hash
        /\ next \in Nat /\ next' = next + 1 /\ next' \in Nat /\ UNCHANGED tables /\ rows' = rows
    BY TailType DEF IInv, TypeOK, KindsFit, KindFits, Appending, AppendersHoldLock, TailIsKept,
                    Insert, tables
  <1>2. Free(p) /\ tx' = [tx EXCEPT ![p] =
                           IF \E x \in rows : SameKey(x, tx[p].id, tx[p].tail)
                           THEN Idle ELSE t]
    BY DEF Insert, NextValues
  <1>3. TailHash' = TailHash
    BY <1>1 DEF TailHash
  <1>4. Appends(p)
    BY <1>1 DEF IInv, KindsFit, KindFits, Appends
  <1>5. CASE tx' = [tx EXCEPT ![p] = Idle]
    <2>1. TypeOK' /\ KindsFit'
      <3>1. KindFits(Idle)
        BY DEF Idle, KindFits
      <3> QED BY <1>1, <1>5, <3>1, IdleType, TxTypes
    <2>2. /\ tx'[p].at = "idle" /\ ~tx'[p].locked /\ tx'[p].row = None
          /\ \A q \in Tx : q # p => tx'[q] = tx[q]
      BY <1>5 DEF Idle, IInv, TypeOK
    <2>3. AppendersHoldLock' /\ OneHolder'
      BY <2>2 DEF IInv, Appending, AppendersHoldLock, OneHolder, Appends
    <2>4. SequenceIsAhead'
      <3>1. \A x \in rows : x.sequence \in Nat
        BY DEF IInv, TypeOK, Row
      <3>2. ASSUME NEW q \in Tx, tx'[q].row # None
            PROVE  tx'[q].row.sequence < next + 1
        <4>1. tx'[q] = tx[q] /\ tx[q].row # None /\ tx[q] \in TxState
          BY <2>2, <3>2 DEF IInv, TypeOK
        <4>2. tx[q].row.sequence \in Nat /\ tx[q].row.sequence < next
          BY <4>1 DEF IInv, Appending, SequenceIsAhead, TxState, Row
        <4> QED BY <1>1, <4>1, <4>2
      <3> QED BY <1>1, <3>1, <3>2 DEF IInv, Appending, SequenceIsAhead
    <2>5. TailExists' /\ ChainIntact'
      BY <1>1 DEF IInv, Appending, TailExists, ChainIntact
    <2>6. TailIsKept'
      BY <1>1, <1>3, <2>2 DEF IInv, Appending, TailIsKept
    <2> QED BY <2>1, <2>3, <2>4, <2>5, <2>6 DEF IInv, Appending
  <1>6. CASE tx' = [tx EXCEPT ![p] = t]
    <2>1. record \in DecisionRecord
      BY <1>1 DEF DecisionRecord, Decides, Outcome
    <2>2. ChainHash(tx[p].tail, record) \in Hash
      BY <1>1, <2>1 DEF ChainHash, Hash
    <2>3. row \in Row
      BY <1>1, <2>1, <2>2 DEF Row
    <2>4. t \in TxState /\ t.at = s /\ t.kind = tx[p].kind /\ t.id = tx[p].id
          /\ t.row = row /\ t.locked
      BY <1>1, <2>3 DEF TxState, Step
    <2>5. s \in {"updateReview", "commit"} /\ (s = "updateReview" => tx[p].kind # "seed")
      BY DEF Decides, Outcome
    <2>6. row.sequence = next /\ row.prevHash = TailHash
          /\ row.hash = ChainHash(TailHash, row.record)
      BY <1>1
    <2> HIDE DEF t, s, row, record
    <2>7. TypeOK' /\ KindsFit'
      BY <1>1, <1>6, <2>4, <2>5, TxTypes DEF KindFits
    <2>8. tx'[p] = t /\ \A q \in Tx : q # p => tx'[q] = tx[q]
      BY <1>6 DEF IInv, TypeOK
    <2>9. AppendersHoldLock'
      BY <1>1, <1>4, <2>4, <2>5, <2>8 DEF IInv, Appending, AppendersHoldLock, Appends
    <2>10. OneHolder'
      BY <1>1, <2>4, <2>8 DEF IInv, Appending, OneHolder
    <2>11. SequenceIsAhead'
      <3>1. \A x \in rows : x.sequence \in Nat /\ x.sequence < next
        BY DEF IInv, TypeOK, Row, Appending, SequenceIsAhead
      <3>2. ASSUME NEW q \in Tx, tx'[q].row # None
            PROVE  tx'[q].row.sequence < next + 1
        <4>1. CASE q = p
          BY <4>1, <1>1, <2>4, <2>6, <2>8
        <4>2. CASE q # p
          <5>1. tx[q].row # None /\ tx[q] \in TxState
            BY <4>2, <2>8, <3>2 DEF IInv, TypeOK
          <5>2. tx[q].row.sequence \in Nat /\ tx[q].row.sequence < next
            BY <5>1 DEF IInv, Appending, SequenceIsAhead, TxState, Row
          <5> QED BY <1>1, <2>8, <4>2, <5>2
        <4> QED BY <4>1, <4>2
      <3> QED BY <1>1, <3>1, <3>2 DEF SequenceIsAhead
    <2>12. TailExists' /\ ChainIntact'
      BY <1>1 DEF IInv, Appending, TailExists, ChainIntact
    <2>13. TailIsKept'
      <3>1. \A x \in rows : x.sequence < row.sequence
        BY <2>6 DEF IInv, Appending, SequenceIsAhead
      <3>2. t.at # "insert"
        BY <2>4, <2>5
      <3>3. ASSUME NEW q \in Tx
            PROVE  /\ tx'[q].at = "insert" => tx'[q].tail = TailHash
                   /\ tx'[q].row # None =>
                        /\ tx'[q].row.prevHash = TailHash
                        /\ tx'[q].row.hash = ChainHash(TailHash, tx'[q].row.record)
                        /\ \A x \in rows : x.sequence < tx'[q].row.sequence
        <4>1. CASE q = p
          BY <4>1, <2>4, <2>6, <2>8, <3>1, <3>2
        <4>2. CASE q # p
          BY <4>2, <2>8, <3>3 DEF IInv, Appending, TailIsKept
        <4> QED BY <4>1, <4>2
      <3> QED BY <1>1, <1>3, <3>3 DEF TailIsKept
    <2> QED BY <2>7, <2>9, <2>10, <2>11, <2>12, <2>13 DEF IInv, Appending
  <1> QED BY <1>2, <1>5, <1>6

LEMMA CommitKeeps ==
    ASSUME IInv, NEW p \in Tx, Commit(p)
    PROVE  IInv'
  <1>1. /\ tx[p].at = "commit" /\ tx[p] \in TxState
        /\ tx' = [tx EXCEPT ![p] = Idle] /\ next' = next
    BY DEF Commit, IInv, TypeOK
  <1>2. /\ tx'[p] = Idle /\ Idle.at = "idle" /\ ~Idle.locked /\ Idle.row = None
        /\ \A q \in Tx : q # p => tx'[q] = tx[q]
    BY <1>1 DEF IInv, TypeOK, Idle
  <1>3. TypeOK' /\ KindsFit'
    <2>1. vstatus' \in [Version -> VersionStatus]
      BY <1>1 DEF Commit, IInv, TypeOK, TxState
    <2>2. rstatus' \in [Review -> ReviewStatus]
      BY <1>1 DEF Commit, IInv, TypeOK, TxState
    <2>3. rows' \subseteq Row
      BY <1>1 DEF Commit, IInv, TypeOK, TxState
    <2>4. tx' \in [Tx -> TxState] /\ next' \in Nat
      BY <1>1, IdleType DEF IInv, TypeOK
    <2>5. ASSUME NEW q \in Tx PROVE KindFits(tx'[q])
      <3>1. KindFits(Idle)
        BY DEF Idle, KindFits
      <3> QED BY <1>2, <2>5, <3>1 DEF IInv, KindsFit
    <2> QED BY <2>1, <2>2, <2>3, <2>4, <2>5 DEF TypeOK, KindsFit, KindFits
  <1>4. AppendersHoldLock' /\ OneHolder'
    BY <1>2 DEF IInv, Appending, AppendersHoldLock, OneHolder, Appends
  <1>5. CASE tx[p].row = None
    <2>1. rows' = rows /\ TailHash' = TailHash
      BY <1>5 DEF Commit, TailHash
    <2>2. SequenceIsAhead' /\ TailExists' /\ TailIsKept' /\ ChainIntact'
      BY <1>1, <1>2, <2>1 DEF IInv, Appending, SequenceIsAhead, TailExists, TailIsKept,
                              ChainIntact
    <2> QED BY <1>3, <1>4, <2>2 DEF IInv, Appending
  <1>6. CASE tx[p].row # None
    <2> DEFINE w == tx[p].row
    <2>1. /\ rows' = rows \cup {w} /\ w \in Row /\ tx[p].locked
          /\ w.sequence < next /\ w.prevHash = TailHash
          /\ w.hash = ChainHash(TailHash, w.record)
          /\ \A x \in rows : x.sequence < w.sequence
      BY <1>1, <1>6 DEF Commit, IInv, TypeOK, TxState, Appending, AppendersHoldLock,
                        SequenceIsAhead, TailIsKept
    <2>2. rows \subseteq Row /\ rows' \subseteq Row
      BY <1>3 DEF IInv, TypeOK
    <2>3. \A x \in rows' : x.sequence \in Nat
      BY <2>2 DEF Row
    <2> HIDE DEF w
    <2>4. \A q \in Tx : tx'[q].row = None /\ tx'[q].at # "insert"
      BY <1>2, <2>1 DEF IInv, Appending, AppendersHoldLock, OneHolder
    <2>5. SequenceIsAhead' /\ TailIsKept'
      BY <1>1, <2>1, <2>4 DEF IInv, Appending, SequenceIsAhead, TailIsKept
    <2>6. TailExists'
      <3>1. \A y \in rows' : y.sequence <= w.sequence
        BY <2>1, <2>3
      <3> QED BY <2>1, <3>1 DEF TailExists
    <2>7. ChainIntact'
      <3>1. ASSUME NEW x \in rows', NEW y \in rows', x.sequence = y.sequence
            PROVE  x = y
        BY <2>1, <2>3, <3>1 DEF IInv, ChainIntact
      <3>2. ASSUME NEW x \in rows'
            PROVE  LET Before == {y \in rows' : y.sequence < x.sequence} IN
                   /\ x.hash = ChainHash(x.prevHash, x.record)
                   /\ IF Before = {} THEN x.prevHash = GenesisHash
                      ELSE \E y \in Before : /\ \A z \in Before : z.sequence <= y.sequence
                                             /\ x.prevHash = y.hash
        <4>1. CASE x \in rows
          <5>1. {y \in rows' : y.sequence < x.sequence}
                  = {y \in rows : y.sequence < x.sequence}
            BY <2>1, <2>3, <4>1
          <5> QED BY <4>1, <5>1 DEF IInv, ChainIntact
        <4>2. CASE x = w
          <5>1. {y \in rows' : y.sequence < w.sequence} = rows
            BY <2>1, <2>3
          <5>2. x.hash = ChainHash(x.prevHash, x.record)
            BY <2>1, <4>2
          <5>3. rows = {} => x.prevHash = GenesisHash
            BY <2>1, <4>2 DEF TailHash
          <5>4. rows # {} => \E y \in rows : /\ \A z \in rows : z.sequence <= y.sequence
                                             /\ x.prevHash = y.hash
            BY <2>1, <4>2 DEF TailHash, IInv, Appending, TailExists
          <5> QED BY <4>2, <5>1, <5>2, <5>3, <5>4
        <4> QED BY <2>1, <4>1, <4>2
      <3> QED BY <3>1, <3>2 DEF ChainIntact
    <2> QED BY <1>3, <1>4, <2>5, <2>6, <2>7 DEF IInv, Appending
  <1> QED BY <1>5, <1>6

-----------------------------------------------------------------------------

LEMMA NextIInv == IInv /\ [Next]_vars => IInv'
  <1> SUFFICES ASSUME IInv, [Next]_vars PROVE IInv'
    OBVIOUS
  <1>1. CASE UNCHANGED vars
    BY <1>1 DEF vars, IInv, TypeOK, KindsFit, KindFits, Appending, AppendersHoldLock,
                OneHolder, SequenceIsAhead, TailExists, TailIsKept, ChainIntact,
                TailHash, Appends
  <1>2. ASSUME NEW r \in Review, OpenReview(r) PROVE IInv'
    BY <1>2, OpenReviewKeeps
  <1>3. ASSUME NEW p \in Tx, NEW kind \in Kind, NEW id \in DecisionId, Begin(p, kind, id)
        PROVE  IInv'
    BY <1>3, BeginKeeps
  <1>4. ASSUME NEW p \in Tx, Statement(p) PROVE IInv'
    BY <1>4, ReadVersionKeeps, UpdateVersionKeeps, LockTableKeeps, ReadTailKeeps,
       InsertKeeps, UpdateReviewKeeps, CommitKeeps DEF Statement
  <1>5. ASSUME NEW p \in Tx, Abort(p) \/ DetectDeadlock(p) PROVE IInv'
    BY <1>5, RollbackKeeps DEF Abort, DetectDeadlock
  <1> QED BY <1>1, <1>2, <1>3, <1>4, <1>5 DEF Next

LEMMA Invariance == Spec => []IInv
  BY InitIInv, NextIInv, PTL DEF Spec

-----------------------------------------------------------------------------

\* The chain of committed decisions verifies at every moment, for any number of
\* concurrent appenders and whatever is rolled back (verifyAuditChain).
THEOREM ChainStaysIntact == Spec => []ChainIntact
  <1>1. IInv => ChainIntact
    BY DEF IInv
  <1> QED BY <1>1, Invariance, PTL

\* The table lock is enough: the tail an appender has read is still the tail when
\* it inserts, and no other row waits to be committed (appendReviewDecision).
THEOREM TailsAreExtended == Spec => []TailIsExtended
  <1>1. IInv => TailIsExtended
    BY DEF IInv, Appending, AppendersHoldLock, OneHolder, TailIsKept, TailIsExtended
  <1> QED BY <1>1, Invariance, PTL

\* Every variable keeps its type.
THEOREM TypesHold == Spec => []TypeOK
  <1>1. IInv => TypeOK
    BY DEF IInv
  <1> QED BY <1>1, Invariance, PTL

-----------------------------------------------------------------------------
(* The inductive invariant of the refinement                                *)

\* What a transaction has written at each of its steps.
PhaseFits(t) ==
    IF t.at = "idle" THEN t.vset = None /\ t.row = None
    ELSE /\ IF t.kind = "seed" THEN t.id \in Seed ELSE t.id \in Review
         /\ t.vset # None => t.vset = ToStatus(t.kind)
         /\ t.kind \in {"seed", "ready"} => t.vset = None
         /\ t.at \in {"readVersion", "updateVersion"} =>
              t.vset = None /\ t.kind \in Outcome \cup {"withdraw", "fail"}
         /\ t.at \notin {"readVersion", "updateVersion"} /\ t.kind \in Outcome =>
              t.vset # None
         /\ t.at = "updateReview" /\ t.kind \notin Outcome => t.vset = None
         /\ t.at \in {"updateReview", "commit"} /\ t.kind \in Outcome \cup {"seed"} =>
              t.row # None
         /\ t.kind \notin Outcome \cup {"seed"} => t.row = None
         /\ t.row # None =>
              t.row.record = [id |-> t.id,
                              outcome |-> IF t.kind \in Outcome THEN t.kind ELSE "accept"]

PhasesFit == \A p \in Tx : PhaseFits(tx[p])

\* Until the transaction that has written a version ends, the version is in review
\* and no other transaction has written it.
VersionsAreHeld ==
    \A p \in Tx : tx[p].vset # None =>
        /\ vstatus[Target(p)] = "in_review"
        /\ \A q \in Tx : HoldsVersion(q, Target(p)) => q = p

\* A row that waits to be committed has an id that no committed row has.
RowsAreNew == \A p \in Tx : tx[p].row # None => \A x \in rows : x.record.id # tx[p].id

\* The rows have the ranks from one on.
Ranked(table) ==
    /\ IsFiniteSet(table)
    /\ \A i \in 1..Cardinality(table) : \E x \in table : RankIn(table, x) = i

LInv == PhasesFit /\ VersionsAreHeld /\ RowsAreNew /\ Ranked(rows)

-----------------------------------------------------------------------------
(* The order of the rows                                                    *)

\* Rows whose sequences are natural numbers, no two of them the same.
Ordered(table) ==
    /\ \A x \in table : x.sequence \in Nat
    /\ \A x, y \in table : x.sequence = y.sequence => x = y

\* No two rows have the same rank.
LEMMA RanksDiffer ==
    ASSUME NEW S, IsFiniteSet(S), Ordered(S),
           NEW x \in S, NEW y \in S, RankIn(S, x) = RankIn(S, y)
    PROVE  x = y
  <1>1. ASSUME NEW a \in S, NEW b \in S, a.sequence < b.sequence,
               RankIn(S, a) = RankIn(S, b)
        PROVE  FALSE
    <2> DEFINE A == {z \in S : z.sequence <= a.sequence}
               B == {z \in S : z.sequence <= b.sequence}
    <2>1. A \subseteq B /\ b \in B /\ b \notin A
      BY <1>1 DEF Ordered
    <2>2. IsFiniteSet(B)
      BY FS_Subset
    <2>3. Cardinality(A) = Cardinality(B)
      BY <1>1 DEF RankIn
    <2> HIDE DEF A, B
    <2> QED BY <2>1, <2>2, <2>3, FS_Subset
  <1>2. x.sequence \in Nat /\ y.sequence \in Nat
    BY DEF Ordered
  <1>3. x.sequence = y.sequence
    BY <1>1, <1>2
  <1> QED BY <1>3 DEF Ordered

\* A row above all others comes last and moves none of them.
LEMMA RanksKept ==
    ASSUME NEW S, IsFiniteSet(S), Ordered(S), NEW w, Ordered(S \cup {w}),
           \A x \in S : x.sequence < w.sequence
    PROVE  /\ IsFiniteSet(S \cup {w})
           /\ Cardinality(S \cup {w}) = Cardinality(S) + 1
           /\ Cardinality(S) \in Nat
           /\ \A x \in S : RankIn(S \cup {w}, x) = RankIn(S, x)
           /\ \A x \in S : RankIn(S, x) \in 1..Cardinality(S)
           /\ RankIn(S \cup {w}, w) = Cardinality(S) + 1
  <1>1. w \notin S /\ w.sequence \in Nat
    BY DEF Ordered
  <1>2. /\ IsFiniteSet(S \cup {w}) /\ Cardinality(S \cup {w}) = Cardinality(S) + 1
        /\ Cardinality(S) \in Nat
    BY <1>1, FS_AddElement, FS_CardinalityType
  <1>3. ASSUME NEW x \in S
        PROVE  RankIn(S \cup {w}, x) = RankIn(S, x)
    <2>1. {y \in S \cup {w} : y.sequence <= x.sequence} = {y \in S : y.sequence <= x.sequence}
      BY <1>1 DEF Ordered
    <2> QED BY <2>1 DEF RankIn
  <1>4. ASSUME NEW x \in S
        PROVE  RankIn(S, x) \in 1..Cardinality(S)
    <2> DEFINE A == {y \in S : y.sequence <= x.sequence}
    <2>1. A \subseteq S /\ x \in A
      BY DEF Ordered
    <2> HIDE DEF A
    <2>2. IsFiniteSet(A) /\ Cardinality(A) <= Cardinality(S)
      BY <2>1, FS_Subset
    <2>3. Cardinality(A) \in Nat /\ Cardinality(A) # 0
      BY <2>1, <2>2, FS_EmptySet, FS_CardinalityType
    <2>4. RankIn(S, x) = Cardinality(A)
      BY DEF RankIn, A
    <2> QED BY <1>2, <2>2, <2>3, <2>4
  <1>5. RankIn(S \cup {w}, w) = Cardinality(S) + 1
    <2>1. {y \in S \cup {w} : y.sequence <= w.sequence} = S \cup {w}
      BY <1>1 DEF Ordered
    <2> QED BY <1>2, <2>1 DEF RankIn
  <1> QED BY <1>2, <1>3, <1>4, <1>5

\* The record at a rank is that of the row which has it.
LEMMA RecordAt ==
    ASSUME NEW S, IsFiniteSet(S), Ordered(S), NEW x \in S,
           NEW i \in 1..Cardinality(S), RankIn(S, x) = i
    PROVE  RecordsOf(S)[i] = x.record
  <1> DEFINE y == CHOOSE z \in S : RankIn(S, z) = i
  <1>1. y \in S /\ RankIn(S, y) = i
    OBVIOUS
  <1> HIDE DEF y
  <1>2. y = x
    BY <1>1, RanksDiffer
  <1> QED BY <1>2 DEF RecordsOf, y

\* The records are a sequence of the records of the rows.
LEMMA RecordsType ==
    ASSUME NEW S, S \subseteq Row, Ordered(S), Ranked(S)
    PROVE  /\ RecordsOf(S) \in Seq(DecisionRecord)
           /\ Len(RecordsOf(S)) = Cardinality(S)
           /\ Cardinality(S) \in Nat
           /\ \A i \in 1..Cardinality(S) : \E x \in S : RecordsOf(S)[i] = x.record
  <1>1. Cardinality(S) \in Nat /\ IsFiniteSet(S)
    BY FS_CardinalityType DEF Ranked
  <1>2. ASSUME NEW i \in 1..Cardinality(S)
        PROVE  \E x \in S : RecordsOf(S)[i] = x.record
    <2>1. PICK x \in S : RankIn(S, x) = i
      BY DEF Ranked
    <2> QED BY <1>1, <2>1, RecordAt
  <1>3. \A x \in S : x.record \in DecisionRecord
    BY DEF Row
  <1>4. RecordsOf(S) \in [1..Cardinality(S) -> DecisionRecord]
    BY <1>2, <1>3 DEF RecordsOf
  <1> HIDE DEF RecordsOf
  <1>5. RecordsOf(S) \in Seq(DecisionRecord)
    BY <1>1, <1>4, SeqDef
  <1>6. Len(RecordsOf(S)) = Cardinality(S)
    BY <1>1, <1>4, <1>5, LenProperties
  <1> QED BY <1>1, <1>2, <1>5, <1>6

\* A row above all others adds its record at the end.
LEMMA RecordsGrow ==
    ASSUME NEW S, S \subseteq Row, Ordered(S), Ranked(S),
           NEW w \in Row, \A x \in S : x.sequence < w.sequence
    PROVE  /\ Ranked(S \cup {w})
           /\ RecordsOf(S \cup {w}) = Append(RecordsOf(S), w.record)
  <1> DEFINE T == S \cup {w}
             n == Cardinality(S)
  <1>1. Ordered(T) /\ T \subseteq Row
    BY DEF Ordered, Row
  <1>2. IsFiniteSet(S)
    BY DEF Ranked
  <1>3. /\ IsFiniteSet(T) /\ Cardinality(T) = n + 1 /\ n \in Nat
        /\ \A x \in S : RankIn(T, x) = RankIn(S, x)
        /\ RankIn(T, w) = n + 1
    BY <1>1, <1>2, RanksKept
  <1>4. w.record \in DecisionRecord /\ S \subseteq T /\ w \in T
    BY DEF Row
  <1> HIDE DEF T, n
  <1>5. ASSUME NEW i \in 1..n
        PROVE  \E x \in T : RankIn(T, x) = i /\ RecordsOf(S)[i] = x.record
    <2>1. PICK x \in S : RankIn(S, x) = i
      BY DEF Ranked, n
    <2>2. RecordsOf(S)[i] = x.record
      BY <1>2, <2>1, RecordAt DEF n
    <2> QED BY <1>3, <1>4, <2>1, <2>2
  <1>6. Ranked(T)
    <2>1. ASSUME NEW i \in 1..(n + 1)
          PROVE  \E x \in T : RankIn(T, x) = i
      <3>1. CASE i \in 1..n
        BY <3>1, <1>5
      <3>2. CASE i = n + 1
        BY <3>2, <1>3, <1>4
      <3> QED BY <1>3, <3>1, <3>2
    <2> QED BY <1>3, <2>1 DEF Ranked
  <1>7. /\ RecordsOf(S) \in Seq(DecisionRecord) /\ Len(RecordsOf(S)) = n
        /\ RecordsOf(T) \in Seq(DecisionRecord) /\ Len(RecordsOf(T)) = n + 1
    BY <1>1, <1>3, <1>6, RecordsType DEF n
  <1>8. ASSUME NEW i \in 1..n
        PROVE  RecordsOf(T)[i] = RecordsOf(S)[i]
    <2>1. PICK x \in T : RankIn(T, x) = i /\ RecordsOf(S)[i] = x.record
      BY <1>5
    <2>2. i \in 1..Cardinality(T)
      BY <1>3
    <2> QED BY <1>1, <1>3, <2>1, <2>2, RecordAt
  <1>9. RecordsOf(T)[n + 1] = w.record
    <2>1. n + 1 \in 1..Cardinality(T)
      BY <1>3
    <2> QED BY <1>1, <1>3, <1>4, <2>1, RecordAt
  <1> DEFINE a == Append(RecordsOf(S), w.record)
  <1>10. /\ a \in Seq(DecisionRecord) /\ Len(a) = n + 1
         /\ \A i \in 1..n : a[i] = RecordsOf(S)[i]
         /\ a[n + 1] = w.record
    BY <1>3, <1>4, <1>7
  <1> HIDE DEF a
  <1>11. \A i \in 1..(n + 1) : RecordsOf(T)[i] = a[i]
    BY <1>3, <1>8, <1>9, <1>10
  <1>12. RecordsOf(T) = a
    BY <1>7, <1>10, <1>11, SeqEqual
  <1> QED BY <1>6, <1>12 DEF a, T

-----------------------------------------------------------------------------
(* The steps keep it                                                        *)

LEMMA InitLInv == Init => LInv
  <1> SUFFICES ASSUME Init PROVE LInv
    OBVIOUS
  <1>1. PhasesFit /\ VersionsAreHeld /\ RowsAreNew
    BY DEF Init, Idle, PhasesFit, PhaseFits, VersionsAreHeld, RowsAreNew
  <1>2. Ranked(rows)
    BY FS_EmptySet DEF Init, Ranked
  <1> QED BY <1>1, <1>2 DEF LInv

LEMMA RowsAreOrdered == ASSUME IInv PROVE Ordered(rows) /\ rows \subseteq Row
  BY DEF IInv, TypeOK, ChainIntact, Ordered, Row

\* A step of one transaction to state t that commits nothing. What t has written,
\* the transaction had written, or no other has.
LEMMA QuietLog ==
    ASSUME IInv, LInv, NEW p \in Tx, NEW t \in TxState, tx' = [tx EXCEPT ![p] = t],
           UNCHANGED tables,
           PhaseFits(t),
           t.vset # None =>
             /\ t.id = tx[p].id
             /\ \/ tx[p].vset # None
                \/ /\ vstatus[Target(p)] = "in_review"
                   /\ \A q \in Tx : q # p => ~HoldsVersion(q, Target(p)),
           t.row # None =>
             /\ t.id = tx[p].id
             /\ tx[p].row # None \/ \A x \in rows : x.record.id # t.id
    PROVE  LInv'
  <1>1. /\ tx'[p] = t /\ \A q \in Tx : q # p => tx'[q] = tx[q]
        /\ vstatus' = vstatus /\ rows' = rows
    BY DEF IInv, TypeOK, tables
  <1>2. ASSUME NEW q \in Tx PROVE PhaseFits(tx'[q])
    BY <1>1 DEF LInv, PhasesFit
  <1>3. PhasesFit'
    BY <1>2 DEF PhasesFit, PhaseFits
  <1>4. RowsAreNew'
    BY <1>1 DEF LInv, RowsAreNew
  <1>5. Ranked(rows)'
    BY <1>1 DEF LInv, Ranked, RankIn
  <1>6. ASSUME NEW q \in Tx, tx'[q].vset # None
        PROVE  vstatus[Candidate[tx'[q].id]] = "in_review"
    <2>1. CASE q = p
      BY <1>1, <1>6, <2>1 DEF LInv, VersionsAreHeld, Target
    <2>2. CASE q # p
      BY <1>1, <1>6, <2>2 DEF LInv, VersionsAreHeld, Target
    <2> QED BY <2>1, <2>2
  <1>7. ASSUME NEW q \in Tx, NEW h \in Tx, tx'[q].vset # None, tx'[h].vset # None,
               Candidate[tx'[q].id] = Candidate[tx'[h].id]
        PROVE  h = q
    BY <1>1, <1>7 DEF LInv, VersionsAreHeld, HoldsVersion, Target
  <1>8. VersionsAreHeld'
    BY <1>1, <1>6, <1>7 DEF VersionsAreHeld, HoldsVersion, Target
  <1> QED BY <1>3, <1>4, <1>5, <1>8 DEF LInv

LEMMA RollbackLog ==
    ASSUME IInv, LInv, NEW p \in Tx, Rollback(p)
    PROVE  LInv'
  <1>1. tx' = [tx EXCEPT ![p] = Idle] /\ UNCHANGED tables
    BY DEF Rollback
  <1>2. PhaseFits(Idle) /\ Idle.vset = None /\ Idle.row = None
    BY DEF Idle, PhaseFits
  <1> QED BY <1>1, <1>2, IdleType, QuietLog

LEMMA BeginLog ==
    ASSUME IInv, LInv, NEW p \in Tx, NEW kind \in Kind, NEW id \in DecisionId,
           Begin(p, kind, id)
    PROVE  LInv'
  <1> DEFINE t == [Idle EXCEPT !.at = FirstStep(kind), !.kind = kind, !.id = id]
  <1>1. /\ FirstStep(kind) \in {"readVersion", "updateReview", "lockTable"}
        /\ FirstStep(kind) = "readVersion" => kind \in Outcome
        /\ FirstStep(kind) # "readVersion" => kind \notin Outcome
        /\ FirstStep(kind) = "updateReview" => kind \notin Outcome \cup {"seed"}
    BY DEF FirstStep, Kind, Outcome
  <1>2. Idle \in TxState /\ Idle.row = None /\ Idle.vset = None
    BY IdleType DEF Idle
  <1>3. t \in TxState /\ t.at = FirstStep(kind) /\ t.kind = kind /\ t.id = id
        /\ t.row = None /\ t.vset = None
    BY <1>1, <1>2 DEF TxState, Step
  <1>4. tx' = [tx EXCEPT ![p] = t] /\ UNCHANGED tables
        /\ IF kind = "seed" THEN id \in Seed ELSE id \in Review
    BY DEF Begin
  <1> HIDE DEF t
  <1>5. PhaseFits(t)
    BY <1>1, <1>3, <1>4 DEF PhaseFits
  <1> QED BY <1>3, <1>4, <1>5, QuietLog

LEMMA OpenReviewLog ==
    ASSUME IInv, LInv, NEW r \in Review, OpenReview(r)
    PROVE  LInv'
  <1>1. /\ UNCHANGED <<rows, tx>>
        /\ vstatus' = [vstatus EXCEPT ![Candidate[r]] = "in_review"]
        /\ \A p \in Tx : ~HoldsVersion(p, Candidate[r])
    BY DEF OpenReview
  <1>2. PhasesFit' /\ RowsAreNew' /\ Ranked(rows)'
    BY <1>1 DEF LInv, PhasesFit, PhaseFits, RowsAreNew, Ranked, RankIn
  <1>3. VersionsAreHeld'
    BY <1>1 DEF LInv, VersionsAreHeld, HoldsVersion, Target, IInv, TypeOK
  <1> QED BY <1>2, <1>3 DEF LInv

LEMMA ReadVersionLog ==
    ASSUME IInv, LInv, NEW p \in Tx, ReadVersion(p)
    PROVE  LInv'
  <1>1. /\ tx[p].at = "readVersion" /\ tx[p] \in TxState /\ PhaseFits(tx[p])
    BY DEF ReadVersion, IInv, TypeOK, LInv, PhasesFit
  <1>2. CASE Rollback(p)
    BY <1>2, RollbackLog
  <1>3. ASSUME NEW s \in {"updateVersion", "commit"}, Goto(p, s), UNCHANGED tables,
               s = "commit" => tx[p].kind = "fail"
        PROVE  LInv'
    <2> DEFINE t == [tx[p] EXCEPT !.at = s]
    <2>1. tx' = [tx EXCEPT ![p] = t]
      BY <1>3 DEF Goto
    <2>2. t \in TxState /\ t.at = s /\ t.kind = tx[p].kind /\ t.id = tx[p].id
          /\ t.row = tx[p].row /\ t.vset = tx[p].vset
      BY <1>1 DEF TxState, Step
    <2> HIDE DEF t
    <2>3. tx[p].vset = None /\ tx[p].row = None
          /\ tx[p].kind \in Outcome \cup {"withdraw", "fail"} /\ tx[p].id \in Review
      BY <1>1, NoRowYet DEF PhaseFits, Outcome
    <2>4. PhaseFits(t)
      BY <1>3, <2>2, <2>3 DEF PhaseFits, Outcome
    <2> QED BY <1>3, <2>1, <2>2, <2>3, <2>4, QuietLog
  <1> QED BY <1>2, <1>3 DEF ReadVersion

LEMMA UpdateVersionLog ==
    ASSUME IInv, LInv, NEW p \in Tx, UpdateVersion(p)
    PROVE  LInv'
  <1>1. CASE Rollback(p)
    BY <1>1, RollbackLog
  <1>2. CASE vstatus[Target(p)] = "in_review" /\ WriteVersion(p) /\ UNCHANGED tables
    <2> DEFINE s == IF Decides(p) THEN "lockTable" ELSE "commit"
               t == [tx[p] EXCEPT !.vset = ToStatus(tx[p].kind), !.at = s]
    <2>1. /\ tx[p].at = "updateVersion" /\ tx[p] \in TxState /\ PhaseFits(tx[p]) /\ Free(p)
          /\ tx[p].row = None
      BY NoRowYet DEF UpdateVersion, IInv, TypeOK, LInv, PhasesFit
    <2>2. tx' = [tx EXCEPT ![p] = t]
      BY <1>2, <2>1 DEF IInv, TypeOK, WriteVersion
    <2>3. ToStatus(tx[p].kind) \in VersionStatus /\ s \in Step /\ ToStatus(tx[p].kind) # None
      BY TransactionAssumption DEF ToStatus, VersionStatus, Step
    <2>4. t \in TxState /\ t.at = s /\ t.kind = tx[p].kind /\ t.id = tx[p].id
          /\ t.row = None /\ t.vset = ToStatus(tx[p].kind)
      BY <2>1, <2>3 DEF TxState
    <2>5. /\ s \in {"lockTable", "commit"}
          /\ s = "commit" => tx[p].kind \notin Outcome
          /\ tx[p].kind \in Outcome \cup {"withdraw", "fail"} /\ tx[p].id \in Review
      BY <2>1 DEF Decides, PhaseFits, Outcome
    <2>6. \A q \in Tx : q # p => ~HoldsVersion(q, Target(p))
      BY <2>1 DEF Free, Blocks
    <2> HIDE DEF t, s
    <2>7. PhaseFits(t)
      BY <2>3, <2>4, <2>5 DEF PhaseFits, Outcome
    <2> QED BY <1>2, <2>2, <2>4, <2>6, <2>7, QuietLog
  <1> QED BY <1>1, <1>2 DEF UpdateVersion

LEMMA LockTableLog ==
    ASSUME IInv, LInv, NEW p \in Tx, LockTable(p)
    PROVE  LInv'
  <1> DEFINE t == [tx[p] EXCEPT !.at = "readTail", !.locked = TRUE]
  <1>1. /\ tx[p].at = "lockTable" /\ tx[p] \in TxState /\ PhaseFits(tx[p])
        /\ tx' = [tx EXCEPT ![p] = t] /\ UNCHANGED tables /\ tx[p].row = None
    BY NoRowYet DEF LockTable, IInv, TypeOK, LInv, PhasesFit
  <1>2. t \in TxState /\ t.at = "readTail" /\ t.kind = tx[p].kind /\ t.id = tx[p].id
        /\ t.row = None /\ t.vset = tx[p].vset
    BY <1>1 DEF TxState, Step
  <1> HIDE DEF t
  <1>3. PhaseFits(t)
    BY <1>1, <1>2 DEF PhaseFits
  <1> QED BY <1>1, <1>2, <1>3, QuietLog

LEMMA ReadTailLog ==
    ASSUME IInv, LInv, NEW p \in Tx, ReadTail(p)
    PROVE  LInv'
  <1> DEFINE t == [tx[p] EXCEPT !.tail = TailHash, !.at = "insert"]
  <1>1. /\ tx[p].at = "readTail" /\ tx[p] \in TxState /\ PhaseFits(tx[p])
        /\ tx' = [tx EXCEPT ![p] = t] /\ UNCHANGED tables /\ tx[p].row = None
    BY NoRowYet DEF ReadTail, IInv, TypeOK, LInv, PhasesFit
  <1>2. t \in TxState /\ t.at = "insert" /\ t.kind = tx[p].kind /\ t.id = tx[p].id
        /\ t.row = None /\ t.vset = tx[p].vset
    BY <1>1, TailType DEF TxState, Step
  <1> HIDE DEF t
  <1>3. PhaseFits(t)
    BY <1>1, <1>2 DEF PhaseFits
  <1> QED BY <1>1, <1>2, <1>3, QuietLog

LEMMA InsertLog ==
    ASSUME IInv, LInv, NEW p \in Tx, Insert(p)
    PROVE  LInv'
  <1> DEFINE record == [id |-> tx[p].id,
                        outcome |-> IF Decides(p) THEN tx[p].kind ELSE "accept"]
             row == [record |-> record, sequence |-> next, prevHash |-> tx[p].tail,
                     hash |-> ChainHash(tx[p].tail, record)]
             s == IF Decides(p) THEN "updateReview" ELSE "commit"
             t == [tx[p] EXCEPT !.row = row, !.at = s]
  <1>1. /\ tx[p].at = "insert" /\ tx[p] \in TxState /\ PhaseFits(tx[p])
        /\ tx[p].kind \in Kind \cap (Outcome \cup {"seed"}) /\ tx[p].id \in DecisionId
        /\ tx[p].tail \in Hash /\ next \in Nat /\ UNCHANGED tables
    BY DEF IInv, TypeOK, TxState, KindsFit, KindFits, LInv, PhasesFit, Insert
  <1>2. tx' = [tx EXCEPT ![p] = IF \E x \in rows : SameKey(x, tx[p].id, tx[p].tail)
                                THEN Idle ELSE t]
    BY DEF Insert, NextValues
  <1>3. CASE \E x \in rows : SameKey(x, tx[p].id, tx[p].tail)
    <2>1. PhaseFits(Idle) /\ Idle.vset = None /\ Idle.row = None
      BY DEF Idle, PhaseFits
    <2> QED BY <1>1, <1>2, <1>3, <2>1, IdleType, QuietLog
  <1>4. CASE ~ \E x \in rows : SameKey(x, tx[p].id, tx[p].tail)
    <2>1. record \in DecisionRecord
      BY <1>1 DEF DecisionRecord, Decides, Outcome
    <2>2. ChainHash(tx[p].tail, record) \in Hash
      BY <1>1, <2>1 DEF ChainHash, Hash
    <2>3. row \in Row /\ row # None
      BY <1>1, <2>1, <2>2, NullAssumption DEF Row
    <2>4. t \in TxState /\ t.at = s /\ t.kind = tx[p].kind /\ t.id = tx[p].id
          /\ t.row = row /\ t.vset = tx[p].vset
      BY <1>1, <2>3 DEF TxState, Step
    <2>5. /\ row.record = record
          /\ record = [id |-> tx[p].id,
                       outcome |-> IF tx[p].kind \in Outcome THEN tx[p].kind ELSE "accept"]
          /\ s \in {"updateReview", "commit"} /\ (s = "updateReview" => tx[p].kind \in Outcome)
      BY DEF Decides
    <2>6. \A x \in rows : x.record.id # tx[p].id
      BY <1>4 DEF SameKey
    <2> HIDE DEF t, s, row, record
    <2>7. PhaseFits(t)
      BY <1>1, <2>3, <2>4, <2>5 DEF PhaseFits, Outcome
    <2> QED BY <1>1, <1>2, <1>4, <2>4, <2>6, <2>7, QuietLog
  <1> QED BY <1>3, <1>4

LEMMA UpdateReviewLog ==
    ASSUME IInv, LInv, NEW p \in Tx, UpdateReview(p)
    PROVE  LInv'
  <1>1. /\ tx[p].at = "updateReview" /\ tx[p] \in TxState /\ PhaseFits(tx[p])
        /\ UNCHANGED tables /\ UNCHANGED next /\ tx[p].kind \in Kind \ {"seed"}
    BY DEF UpdateReview, IInv, TypeOK, KindsFit, KindFits, LInv, PhasesFit
  <1>2. CASE tx' = [tx EXCEPT ![p] = Idle]
    BY <1>1, <1>2, RollbackLog DEF Rollback
  <1>3. CASE tx' = [tx EXCEPT
                      ![p].rset = ReviewStatusOf(tx[p].kind),
                      ![p].at = IF tx[p].kind \in {"withdraw", "fail"}
                                THEN "readVersion" ELSE "commit"]
    <2> DEFINE s == IF tx[p].kind \in {"withdraw", "fail"} THEN "readVersion" ELSE "commit"
               t == [tx[p] EXCEPT !.rset = ReviewStatusOf(tx[p].kind), !.at = s]
    <2>1. tx' = [tx EXCEPT ![p] = t]
      BY <1>1, <1>3 DEF IInv, TypeOK
    <2>2. ReviewStatusOf(tx[p].kind) \in ReviewStatus /\ s \in Step
      BY <1>1 DEF ReviewStatusOf, ReviewStatus, Kind, Outcome, Step
    <2>3. t \in TxState /\ t.at = s /\ t.kind = tx[p].kind /\ t.id = tx[p].id
          /\ t.row = tx[p].row /\ t.vset = tx[p].vset
      BY <1>1, <2>2 DEF TxState
    <2>4. /\ s \in {"readVersion", "commit"}
          /\ s = "readVersion" <=> tx[p].kind \in {"withdraw", "fail"}
      OBVIOUS
    <2> HIDE DEF t, s
    <2>5. PhaseFits(t)
      BY <1>1, <2>3, <2>4 DEF PhaseFits, Outcome, Kind
    <2> QED BY <1>1, <2>1, <2>3, <2>5, QuietLog
  <1> QED BY <1>2, <1>3 DEF UpdateReview

LEMMA CommitLog ==
    ASSUME IInv, LInv, NEW p \in Tx, Commit(p)
    PROVE  LInv'
  <1>1. /\ tx[p].at = "commit" /\ tx[p] \in TxState /\ PhaseFits(tx[p])
        /\ tx'[p] = Idle /\ \A q \in Tx : q # p => tx'[q] = tx[q]
        /\ Idle.at = "idle" /\ Idle.vset = None /\ Idle.row = None
        /\ vstatus' = IF tx[p].vset = None THEN vstatus
                      ELSE [vstatus EXCEPT ![Target(p)] = tx[p].vset]
        /\ rows' = IF tx[p].row = None THEN rows ELSE rows \cup {tx[p].row}
    BY DEF Commit, IInv, TypeOK, LInv, PhasesFit, Idle
  <1>2. ASSUME NEW q \in Tx PROVE PhaseFits(tx'[q])
    <2>1. PhaseFits(Idle)
      BY DEF Idle, PhaseFits
    <2> QED BY <1>1, <2>1 DEF LInv, PhasesFit
  <1>3. PhasesFit'
    BY <1>2 DEF PhasesFit, PhaseFits
  <1>4. ASSUME NEW q \in Tx, tx'[q].vset # None
        PROVE  /\ vstatus'[Candidate[tx'[q].id]] = "in_review"
               /\ \A h \in Tx : tx'[h].vset # None /\ Candidate[tx'[h].id] = Candidate[tx'[q].id]
                                  => h = q
    <2>1. q # p /\ tx'[q] = tx[q] /\ tx[q].vset # None
      BY <1>1, <1>4
    <2>2. vstatus[Target(q)] = "in_review"
      BY <2>1 DEF LInv, VersionsAreHeld
    <2>3. tx[p].vset # None => Target(p) # Target(q)
      BY <2>1 DEF LInv, VersionsAreHeld, HoldsVersion
    <2>4. vstatus'[Target(q)] = "in_review"
      BY <1>1, <2>2, <2>3 DEF IInv, TypeOK
    <2>5. ASSUME NEW h \in Tx, tx'[h].vset # None,
                 Candidate[tx'[h].id] = Candidate[tx'[q].id]
          PROVE  h = q
      <3>1. h # p /\ tx'[h] = tx[h]
        BY <1>1, <2>5
      <3> QED BY <2>1, <2>5, <3>1 DEF LInv, VersionsAreHeld, HoldsVersion, Target
    <2> QED BY <2>1, <2>4, <2>5 DEF Target
  <1>5. VersionsAreHeld'
    BY <1>4 DEF VersionsAreHeld, HoldsVersion, Target
  <1>6. CASE tx[p].row = None
    <2>1. rows' = rows
      BY <1>1, <1>6
    <2>2. RowsAreNew' /\ Ranked(rows)'
      BY <1>1, <2>1 DEF LInv, RowsAreNew, Ranked, RankIn
    <2> QED BY <1>3, <1>5, <2>2 DEF LInv
  <1>7. CASE tx[p].row # None
    <2>1. \A q \in Tx : tx'[q].row = None
      BY <1>1, <1>7 DEF IInv, Appending, AppendersHoldLock, OneHolder
    <2>2. tx[p].row \in Row /\ \A x \in rows : x.sequence < tx[p].row.sequence
      BY <1>1, <1>7 DEF IInv, TxState, Appending, TailIsKept
    <2>3. Ranked(rows \cup {tx[p].row})
      BY <2>2, RowsAreOrdered, RecordsGrow DEF LInv
    <2>4. rows' = rows \cup {tx[p].row}
      BY <1>1, <1>7
    <2>5. Ranked(rows)'
      BY <2>3, <2>4 DEF Ranked, RankIn
    <2> QED BY <1>3, <1>5, <2>1, <2>5 DEF LInv, RowsAreNew
  <1> QED BY <1>6, <1>7

LEMMA NextLInv == IInv /\ LInv /\ [Next]_vars => LInv'
  <1> SUFFICES ASSUME IInv, LInv, [Next]_vars PROVE LInv'
    OBVIOUS
  <1>1. CASE UNCHANGED vars
    BY <1>1 DEF vars, LInv, PhasesFit, PhaseFits, VersionsAreHeld, HoldsVersion, Target,
                RowsAreNew, Ranked, RankIn
  <1>2. ASSUME NEW r \in Review, OpenReview(r) PROVE LInv'
    BY <1>2, OpenReviewLog
  <1>3. ASSUME NEW p \in Tx, NEW kind \in Kind, NEW id \in DecisionId, Begin(p, kind, id)
        PROVE  LInv'
    BY <1>3, BeginLog
  <1>4. ASSUME NEW p \in Tx, Statement(p) PROVE LInv'
    BY <1>4, ReadVersionLog, UpdateVersionLog, LockTableLog, ReadTailLog, InsertLog,
       UpdateReviewLog, CommitLog DEF Statement
  <1>5. ASSUME NEW p \in Tx, Abort(p) \/ DetectDeadlock(p) PROVE LInv'
    BY <1>5, RollbackLog DEF Abort, DetectDeadlock
  <1> QED BY <1>1, <1>2, <1>3, <1>4, <1>5 DEF Next

LEMMA LogInvariance == Spec => [](IInv /\ LInv)
  BY InitIInv, NextIInv, InitLInv, NextLInv, PTL DEF Spec

-----------------------------------------------------------------------------
(* Steps of the log                                                         *)

\* A commit is one step of the log: its decision, its entry, its withdrawal, or
\* none.
LEMMA CommitIsAStep ==
    ASSUME IInv, LInv, NEW p \in Tx, Commit(p)
    PROVE  [Log!Next]_(Log!vars)
  <1>1. /\ tx[p].at = "commit" /\ tx[p] \in TxState /\ PhaseFits(tx[p])
        /\ tx[p].kind \in Kind
        /\ vstatus' = IF tx[p].vset = None THEN vstatus
                      ELSE [vstatus EXCEPT ![Target(p)] = tx[p].vset]
        /\ rows' = IF tx[p].row = None THEN rows ELSE rows \cup {tx[p].row}
        /\ vstatus \in [Version -> VersionStatus]
    BY DEF Commit, IInv, TypeOK, LInv, PhasesFit, KindsFit, KindFits
  <1>2. tx[p].row = None => Records' = Records
    BY <1>1 DEF Records, RecordsOf, RankIn
  <1>3. ASSUME tx[p].row # None
        PROVE  /\ Records' = Append(Records, tx[p].row.record)
               /\ tx[p].id \notin Log!Ids
    <2>1. tx[p].row \in Row /\ \A x \in rows : x.sequence < tx[p].row.sequence
      BY <1>1, <1>3 DEF IInv, TxState, Appending, TailIsKept
    <2>2. RecordsOf(rows \cup {tx[p].row}) = Append(RecordsOf(rows), tx[p].row.record)
      BY <2>1, RowsAreOrdered, RecordsGrow DEF LInv
    <2>3. rows' = rows \cup {tx[p].row}
      BY <1>1, <1>3
    <2>4. Records' = RecordsOf(rows \cup {tx[p].row})
      BY <2>3 DEF Records, RecordsOf, RankIn
    <2>5. /\ Len(RecordsOf(rows)) = Cardinality(rows)
          /\ \A i \in 1..Cardinality(rows) : \E x \in rows : RecordsOf(rows)[i] = x.record
      BY RowsAreOrdered, RecordsType DEF LInv
    <2>6. \A x \in rows : x.record.id # tx[p].id
      BY <1>3 DEF LInv, RowsAreNew
    <2>7. tx[p].id \notin Log!Ids
      BY <2>5, <2>6 DEF Log!Ids, Records
    <2> QED BY <2>2, <2>4, <2>7 DEF Records
  <1>4. tx[p].vset # None => vstatus[Target(p)] = "in_review"
    BY DEF LInv, VersionsAreHeld
  <1>5. CASE tx[p].kind \in Outcome
    <2>1. /\ tx[p].id \in Review /\ tx[p].vset = ToStatus(tx[p].kind)
          /\ tx[p].vset # None /\ tx[p].row # None
          /\ tx[p].row.record = [id |-> tx[p].id, outcome |-> tx[p].kind]
          /\ tx[p].kind \in {"accept", "reject"}
      BY <1>1, <1>5 DEF PhaseFits, Outcome
    <2>2. ToStatus(tx[p].kind) = Log!Final(tx[p].kind)
      BY <2>1 DEF ToStatus, Log!Final
    <2>3. Log!Decide(tx[p].id, tx[p].kind)
      BY <1>1, <1>3, <1>4, <2>1, <2>2 DEF Log!Decide, Target
    <2> QED BY <2>1, <2>3 DEF Log!Next
  <1>6. CASE tx[p].kind = "seed"
    <2>1. /\ tx[p].id \in Seed /\ tx[p].vset = None /\ tx[p].row # None
          /\ tx[p].row.record = [id |-> tx[p].id, outcome |-> "accept"]
      BY <1>1, <1>6 DEF PhaseFits, Outcome
    <2>2. Log!Record(tx[p].id)
      BY <1>1, <1>3, <2>1 DEF Log!Record
    <2> QED BY <2>1, <2>2 DEF Log!Next
  <1>7. CASE tx[p].kind \in {"withdraw", "fail", "ready"}
    <2>1. tx[p].row = None /\ tx[p].id \in Review
      BY <1>1, <1>7 DEF PhaseFits, Outcome
    <2>2. CASE tx[p].vset = None
      BY <1>1, <1>2, <2>1, <2>2 DEF Log!vars
    <2>3. CASE tx[p].vset # None
      <3>1. tx[p].vset = "draft" /\ Target(p) \in Version
        BY <1>1, <1>7, <2>1, <2>3, TransactionAssumption DEF PhaseFits, ToStatus, Target
      <3>2. Log!Withdraw(Target(p))
        BY <1>1, <1>2, <1>4, <2>1, <2>3, <3>1 DEF Log!Withdraw
      <3> QED BY <3>1, <3>2 DEF Log!Next
    <2> QED BY <2>2, <2>3
  <1> QED BY <1>1, <1>5, <1>6, <1>7 DEF Kind

LEMMA OpenReviewIsAStep ==
    ASSUME IInv, NEW r \in Review, OpenReview(r)
    PROVE  [Log!Next]_(Log!vars)
  <1>1. /\ Candidate[r] \in Version /\ vstatus \in [Version -> VersionStatus]
        /\ vstatus[Candidate[r]] \in {"draft", "in_review"}
        /\ vstatus' = [vstatus EXCEPT ![Candidate[r]] = "in_review"]
        /\ rows' = rows
    BY TransactionAssumption DEF OpenReview, IInv, TypeOK
  <1>2. Records' = Records
    BY <1>1 DEF Records, RecordsOf, RankIn
  <1>3. CASE vstatus[Candidate[r]] = "draft"
    <2>1. Log!Submit(Candidate[r])
      BY <1>1, <1>2, <1>3 DEF Log!Submit
    <2> QED BY <1>1, <2>1 DEF Log!Next
  <1>4. CASE vstatus[Candidate[r]] = "in_review"
    <2>1. vstatus' = vstatus
      BY <1>1, <1>4
    <2> QED BY <1>2, <2>1 DEF Log!vars
  <1> QED BY <1>1, <1>3, <1>4

\* Before the commit nothing of a transaction is seen.
LEMMA UnseenStep ==
    ASSUME UNCHANGED <<vstatus, rows>>
    PROVE  [Log!Next]_(Log!vars)
  <1>1. Records' = Records
    BY DEF Records, RecordsOf, RankIn
  <1> QED BY <1>1 DEF Log!vars

LEMMA NextIsAStep == IInv /\ LInv /\ [Next]_vars => [Log!Next]_(Log!vars)
  <1> SUFFICES ASSUME IInv, LInv, [Next]_vars PROVE [Log!Next]_(Log!vars)
    OBVIOUS
  <1>1. CASE UNCHANGED vars
    BY <1>1, UnseenStep DEF vars
  <1>2. ASSUME NEW r \in Review, OpenReview(r) PROVE [Log!Next]_(Log!vars)
    BY <1>2, OpenReviewIsAStep
  <1>3. ASSUME NEW p \in Tx, NEW kind \in Kind, NEW id \in DecisionId, Begin(p, kind, id)
        PROVE  [Log!Next]_(Log!vars)
    BY <1>3, UnseenStep DEF Begin, tables
  <1>4. ASSUME NEW p \in Tx, Statement(p) PROVE [Log!Next]_(Log!vars)
    <2>1. CASE Commit(p)
      BY <2>1, CommitIsAStep
    <2>2. CASE ReadVersion(p) \/ UpdateVersion(p) \/ LockTable(p) \/ ReadTail(p)
               \/ Insert(p) \/ UpdateReview(p)
      <3>1. UNCHANGED tables
        BY <2>2 DEF ReadVersion, UpdateVersion, LockTable, ReadTail, Insert, UpdateReview,
                    Rollback
      <3> QED BY <3>1, UnseenStep DEF tables
    <2> QED BY <1>4, <2>1, <2>2 DEF Statement
  <1>5. ASSUME NEW p \in Tx, Abort(p) \/ DetectDeadlock(p) PROVE [Log!Next]_(Log!vars)
    BY <1>5, UnseenStep DEF Abort, DetectDeadlock, Rollback, tables
  <1> QED BY <1>1, <1>2, <1>3, <1>4, <1>5 DEF Next

LEMMA InitIsInit == Init => Log!Init
  <1> SUFFICES ASSUME Init PROVE Log!Init
    OBVIOUS
  <1>1. rows = {} /\ Ranked(rows) /\ Ordered(rows) /\ rows \subseteq Row
    BY FS_EmptySet DEF Init, Ranked, Ordered
  <1>2. Records \in Seq(DecisionRecord) /\ Len(Records) = 0
    BY <1>1, FS_EmptySet, RecordsType DEF Records
  <1>3. Records = <<>>
    BY <1>2, EmptySeq
  <1> QED BY <1>3 DEF Init, Log!Init

\* Whatever transactions run at a time, what is committed grows as DecisionLog
\* says: decide, withdrawReview, failReview and seeding are seen at their commit, as
\* a whole or not at all, and no version in review is decided twice.
THEOREM TransactionsAreSteps == Spec => ImplementsDecisionLog
  <1>1. IInv /\ LInv /\ [Next]_vars => [Log!Next]_(Log!vars)
    BY NextIsAStep
  <1> QED BY <1>1, InitIsInit, LogInvariance, PTL DEF Spec, ImplementsDecisionLog, Log!Spec

-----------------------------------------------------------------------------
(* Deadlocks                                                                *)

\* Where a transaction is once it holds a review, or the table.
HoldFits(t) ==
    /\ t.rset # None =>
         /\ t.at \in {"readVersion", "updateVersion", "commit"}
         /\ t.at # "commit" => t.kind \in {"withdraw", "fail"}
    /\ t.locked =>
         /\ t.at \in {"readTail", "insert", "updateReview", "commit"}
         /\ t.kind \in Outcome \cup {"seed"}

HoldsFit == \A p \in Tx : HoldFits(tx[p])

\* A step of one transaction keeps it if what it steps to does.
LEMMA StepHolds ==
    ASSUME HoldsFit, NEW p \in Tx, NEW t, tx' = [tx EXCEPT ![p] = t],
           tx \in [Tx -> TxState], HoldFits(t)
    PROVE  HoldsFit'
  <1>1. \A q \in Tx : tx'[q] = IF q = p THEN t ELSE tx[q]
    OBVIOUS
  <1> QED BY <1>1 DEF HoldsFit, HoldFits

LEMMA IdleHolds == HoldFits(Idle)
  BY DEF HoldFits, Idle

LEMMA RollbackHolds ==
    ASSUME IInv, HoldsFit, NEW p \in Tx, Rollback(p)
    PROVE  HoldsFit'
  BY IdleHolds, StepHolds DEF Rollback, IInv, TypeOK

LEMMA StatementHolds ==
    ASSUME IInv, HoldsFit, NEW p \in Tx, Statement(p)
    PROVE  HoldsFit'
  <1>1. /\ tx \in [Tx -> TxState] /\ tx[p] \in TxState
        /\ HoldFits(tx[p]) /\ KindFits(tx[p])
    BY DEF IInv, TypeOK, HoldsFit, KindsFit
  <1>2. CASE ReadVersion(p)
    <2>1. tx[p].at = "readVersion"
      BY <1>2 DEF ReadVersion
    <2>2. CASE Rollback(p)
      BY <2>2, RollbackHolds
    <2>3. ASSUME NEW a \in {"updateVersion", "commit"}, Goto(p, a) PROVE HoldsFit'
      <3>1. HoldFits([tx[p] EXCEPT !.at = a])
        BY <1>1, <2>1 DEF HoldFits, TxState
      <3> QED BY <1>1, <2>3, <3>1, StepHolds DEF Goto
    <2> QED BY <1>2, <2>2, <2>3 DEF ReadVersion
  <1>3. CASE UpdateVersion(p)
    <2>1. CASE Rollback(p)
      BY <2>1, RollbackHolds
    <2>2. CASE tx[p].at = "updateVersion" /\ WriteVersion(p)
      <3> DEFINE t == [tx[p] EXCEPT
                         !.vset = ToStatus(tx[p].kind),
                         !.at = IF Decides(p) THEN "lockTable" ELSE "commit"]
      <3>1. HoldFits(t)
        BY <1>1, <2>2 DEF HoldFits, TxState, Decides, Outcome
      <3>2. tx' = [tx EXCEPT ![p] = t]
        BY <2>2 DEF WriteVersion
      <3> QED BY <1>1, <3>1, <3>2, StepHolds
    <2> QED BY <1>3, <2>1, <2>2 DEF UpdateVersion
  <1>4. CASE LockTable(p)
    <2> DEFINE t == [tx[p] EXCEPT !.at = "readTail", !.locked = TRUE]
    <2>1. HoldFits(t) /\ tx' = [tx EXCEPT ![p] = t]
      BY <1>1, <1>4 DEF LockTable, HoldFits, KindFits, TxState
    <2> QED BY <1>1, <2>1, StepHolds
  <1>5. CASE ReadTail(p)
    <2> DEFINE t == [tx[p] EXCEPT !.tail = TailHash, !.at = "insert"]
    <2>1. HoldFits(t) /\ tx' = [tx EXCEPT ![p] = t]
      BY <1>1, <1>5 DEF ReadTail, HoldFits, TxState
    <2> QED BY <1>1, <2>1, StepHolds
  <1>6. CASE Insert(p)
    <2>1. PICK x : \/ tx' = [tx EXCEPT ![p] = Idle]
                   \/ tx' = [tx EXCEPT ![p] =
                        [@ EXCEPT !.row = x,
                                  !.at = IF Decides(p) THEN "updateReview"
                                         ELSE "commit"]]
      BY <1>6 DEF Insert
    <2> DEFINE t == [tx[p] EXCEPT !.row = x,
                                  !.at = IF Decides(p) THEN "updateReview"
                                         ELSE "commit"]
    <2>2. HoldFits(t)
      BY <1>1, <1>6 DEF Insert, HoldFits, KindFits, TxState
    <2> QED BY <1>1, <2>1, <2>2, IdleHolds, StepHolds
  <1>7. CASE UpdateReview(p)
    <2> DEFINE t == [tx[p] EXCEPT
                       !.rset = ReviewStatusOf(tx[p].kind),
                       !.at = IF tx[p].kind \in {"withdraw", "fail"}
                              THEN "readVersion" ELSE "commit"]
    <2>1. \/ tx' = [tx EXCEPT ![p] = Idle]
          \/ tx' = [tx EXCEPT ![p] = t]
      BY <1>7 DEF UpdateReview
    <2>2. HoldFits(t)
      <3>1. tx[p].at = "updateReview"
        BY <1>7 DEF UpdateReview
      <3>2. tx[p].locked => tx[p].kind \notin {"withdraw", "fail"}
        BY <1>1 DEF HoldFits, Outcome
      <3> QED BY <1>1, <3>1, <3>2 DEF HoldFits, TxState
    <2> QED BY <1>1, <2>1, <2>2, IdleHolds, StepHolds
  <1>8. CASE Commit(p)
    BY <1>1, <1>8, IdleHolds, StepHolds DEF Commit
  <1> QED BY <1>2, <1>3, <1>4, <1>5, <1>6, <1>7, <1>8 DEF Statement

LEMMA NextHolds == IInv /\ HoldsFit /\ [Next]_vars => HoldsFit'
  <1> SUFFICES ASSUME IInv, HoldsFit, [Next]_vars PROVE HoldsFit'
    OBVIOUS
  <1>1. CASE UNCHANGED tx
    BY <1>1 DEF HoldsFit, HoldFits
  <1>2. ASSUME NEW r \in Review, OpenReview(r) PROVE HoldsFit'
    BY <1>1, <1>2 DEF OpenReview
  <1>3. ASSUME NEW p \in Tx, NEW kind \in Kind, NEW id \in DecisionId, Begin(p, kind, id)
        PROVE  HoldsFit'
    <2> DEFINE t == [Idle EXCEPT !.at = FirstStep(kind), !.kind = kind, !.id = id]
    <2>1. HoldFits(t) /\ tx' = [tx EXCEPT ![p] = t]
      BY <1>3 DEF Begin, HoldFits, Idle
    <2> QED BY <2>1, StepHolds DEF IInv, TypeOK
  <1>4. ASSUME NEW p \in Tx, Statement(p) PROVE HoldsFit'
    BY <1>4, StatementHolds
  <1>5. ASSUME NEW p \in Tx, Abort(p) \/ DetectDeadlock(p) PROVE HoldsFit'
    BY <1>5, RollbackHolds DEF Abort, DetectDeadlock
  <1> QED BY <1>1, <1>2, <1>3, <1>4, <1>5 DEF Next, vars

LEMMA InitHolds == Init => HoldsFit
  BY IdleHolds DEF Init, HoldsFit

\* Nobody ever waits at the insert: the one who holds the table is the only one
\* who has a row.
LEMMA InsertNeverWaits ==
    ASSUME IInv, NEW p \in Tx, NEW q \in Tx, Blocks(q, p)
    PROVE  tx[p].at # "insert"
  BY DEF Blocks, IInv, Appending, AppendersHoldLock, OneHolder

\* In a deadlock somebody waits for a review: who waits for the table waits for one
\* who waits for a review, and who waits for a version holds no other.
LEMMA SomeoneWaitsForReview ==
    ASSUME IInv, LInv, HoldsFit, NEW S \in SUBSET Tx, S # {}, Deadlock(S)
    PROVE  \E p \in S : tx[p].at = "updateReview"
  <1>1. SUFFICES ASSUME \A p \in S : tx[p].at # "updateReview"
                 PROVE  FALSE
    BY <1>1
  <1>2. ASSUME NEW p \in S
        PROVE  tx[p].at \in {"updateVersion", "lockTable"}
    <2>1. PICK h \in S : Blocks(h, p)
      BY DEF Deadlock
    <2> QED BY <1>1, <2>1, InsertNeverWaits DEF Blocks
  <1>3. ASSUME NEW p \in S PROVE tx[p].at = "updateVersion"
    <2>1. PICK h \in S : Blocks(h, p)
      BY DEF Deadlock
    <2>2. ~tx[h].locked
      BY <1>2 DEF HoldsFit, HoldFits
    <2> QED BY <1>2, <2>1, <2>2 DEF Blocks
  <1>4. PICK p \in S : TRUE
    OBVIOUS
  <1>5. PICK h \in S : Blocks(h, p)
    BY DEF Deadlock
  <1>6. tx[h].vset # None /\ tx[h].at = "updateVersion"
    BY <1>3, <1>4, <1>5 DEF Blocks, HoldsVersion
  <1> QED BY <1>6 DEF LInv, PhasesFit, PhaseFits

\* Who waits for a review and is waited for is a decision, which holds its version;
\* who holds the review and waits is a withdrawal or a failure.
LEMMA DeadlocksCross ==
    ASSUME IInv, LInv, HoldsFit
    PROVE  OnlyAWithdrawalDeadlocks
  <1> SUFFICES ASSUME NEW S \in (SUBSET Tx) \ {{}}, Deadlock(S)
               PROVE  \E p, q \in S : /\ Decides(p)
                                      /\ tx[q].kind \in {"withdraw", "fail"}
                                      /\ tx[p].id = tx[q].id
    BY DEF OnlyAWithdrawalDeadlocks
  <1>1. PICK p \in S : tx[p].at = "updateReview"
    BY SomeoneWaitsForReview
  <1>2. PICK w \in S : Blocks(p, w)
    BY DEF Deadlock
  <1>3. PICK h \in S : Blocks(h, p)
    BY DEF Deadlock
  <1>4. Decides(p)
    <2>1. tx[p].rset = None
      BY <1>1 DEF HoldsFit, HoldFits
    <2>2. tx[w].at # "insert"
      BY <1>2, InsertNeverWaits
    <2>3. CASE tx[p].vset # None
      BY <1>1, <2>3 DEF LInv, PhasesFit, PhaseFits, Decides
    <2>4. CASE tx[p].locked
      <3>1. tx[p].kind # "seed"
        BY <1>1 DEF IInv, KindsFit, KindFits
      <3> QED BY <2>4, <3>1 DEF HoldsFit, HoldFits, Decides
    <2> QED BY <1>2, <2>1, <2>2, <2>3, <2>4 DEF Blocks, HoldsVersion, HoldsReview
  <1>5. tx[h].rset # None /\ tx[h].id = tx[p].id
    BY <1>1, <1>3 DEF Blocks, HoldsReview
  <1>6. tx[h].at # "commit"
    <2>1. PICK g \in S : Blocks(g, h)
      BY DEF Deadlock
    <2> QED BY <2>1 DEF Blocks
  <1>7. tx[h].kind \in {"withdraw", "fail"}
    BY <1>5, <1>6 DEF HoldsFit, HoldFits
  <1> QED BY <1>4, <1>5, <1>7

\* However many transactions meet on however many reviews and versions, they wait
\* for each other in a circle only if one decides a review that another withdraws
\* or fails: the lock orders of decide, withdrawReview, failReview, updateStatus and
\* recordSeedOnlyAcceptance cross nowhere else.
THEOREM DeadlocksNeedAWithdrawal == Spec => []OnlyAWithdrawalDeadlocks
  <1>1. IInv /\ LInv /\ HoldsFit => OnlyAWithdrawalDeadlocks
    BY DeadlocksCross
  <1>2. Spec => []HoldsFit
    BY InitHolds, NextHolds, Invariance, PTL DEF Spec
  <1> QED BY <1>1, <1>2, LogInvariance, PTL
=============================================================================
