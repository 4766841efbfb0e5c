-------------------------- MODULE HookSpoolProofs --------------------------
(***************************************************************************)
(* HookSpool for any records, files and number of flushes: what is lost    *)
(* was appended while a flush was sending its file. HookInstall for any    *)
(* machines, installs and settings: our hooks are in the file once and     *)
(* work, and those of others stay.                                         *)
(*                                                                         *)
(* What a merge leaves of ours is one command, which the next merge finds  *)
(* in place. An install that writes nothing had read a file that was       *)
(* merged already, and no later step undoes that.                          *)
(***************************************************************************)
EXTENDS HookInstall, FiniteSetTheorems, WellFoundedInduction, TLAPS

\* A flush has stored what it has read and does not still hold, and a file that it
\* is sending has grown by raced lines only: when nothing is left to post, the
\* file can go.
SendingIsCovered ==
    \A p \in Flush : flush[p].at = "posting" =>
        /\ flush[p].lines \subseteq flush[p].left \cup stored
        /\ \A f \in flush[p].file : spool[f] \subseteq flush[p].lines \cup raced

IInv == TypeOK /\ SendingIsCovered /\ OnlyRacedAreLost

-----------------------------------------------------------------------------

\* What a flush puts down it has no file for.
LEMMA NextFileType ==
    ASSUME TypeOK, NEW p \in Flush
    PROVE  /\ NextFile(p) \in FlushState
           /\ NextFile(p).at = "next"
           /\ NextFile(p).file = {}
           /\ NextFile(p).left = {}
           /\ NextFile(p).lines = {}
  BY DEF TypeOK, NextFile, Idle, FlushState

\* The empty spool satisfies the invariant.
LEMMA InitIInv == Init => IInv
  BY DEF Init, IInv, TypeOK, FlushState, Idle, SendingIsCovered, OnlyRacedAreLost

\* An append: the line is in the spool, and raced if a flush is sending the file.
LEMMA HookAppendIInv ==
    ASSUME IInv, NEW r \in Record, HookAppend(r)
    PROVE  IInv'
  <1> USE SpoolAssumption
  <1> DEFINE f == FileOf[r]
  <1>1. f \in File
    OBVIOUS
  <1>2. /\ spool' = [spool EXCEPT ![f] = @ \cup {r}]
        /\ appended' = appended \cup {r}
        /\ raced' = IF \E p \in Flush : Sending(p, f) THEN raced \cup {r} ELSE raced
        /\ UNCHANGED <<sent, stored, flush>>
    BY DEF HookAppend
  <1>3. TypeOK'
    BY <1>1, <1>2 DEF IInv, TypeOK
  <1>4. SendingIsCovered'
    <2> SUFFICES ASSUME NEW p \in Flush, flush[p].at = "posting",
                        NEW g \in flush[p].file
                 PROVE  spool'[g] \subseteq flush[p].lines \cup raced'
      BY <1>2 DEF IInv, SendingIsCovered
    <2>1. g \in File /\ spool[g] \subseteq flush[p].lines \cup raced
      BY DEF IInv, TypeOK, FlushState, SendingIsCovered
    <2>2. CASE g = f
      <3>1. r \in raced' /\ raced \subseteq raced'
        BY <1>2, <2>2 DEF Sending
      <3>2. spool'[g] = spool[g] \cup {r}
        BY <1>1, <1>2, <2>2 DEF IInv, TypeOK
      <3> QED
        BY <2>1, <3>1, <3>2
    <2>3. CASE g # f
      <3>1. spool'[g] = spool[g] /\ raced \subseteq raced'
        BY <1>2, <2>1, <2>3 DEF IInv, TypeOK
      <3> QED
        BY <2>1, <3>1
    <2> QED
      BY <2>2, <2>3
  <1>5. OnlyRacedAreLost'
    <2> SUFFICES ASSUME NEW q \in appended'
                 PROVE  q \in stored \/ q \in spool'[FileOf[q]] \/ q \in raced'
      BY <1>2 DEF OnlyRacedAreLost
    <2>1. CASE q = r
      BY <1>1, <1>2, <2>1 DEF IInv, TypeOK
    <2>2. CASE q # r
      <3>1. q \in appended /\ raced \subseteq raced'
        BY <1>2, <2>2
      <3>2. q \in Record /\ FileOf[q] \in File
        BY <3>1 DEF IInv, TypeOK
      <3>3. spool[FileOf[q]] \subseteq spool'[FileOf[q]]
        BY <1>1, <1>2, <3>2 DEF IInv, TypeOK
      <3> QED
        BY <3>1, <3>3 DEF IInv, OnlyRacedAreLost
    <2> QED
      BY <2>1, <2>2
  <1> QED
    BY <1>3, <1>4, <1>5 DEF IInv

\* A step that leaves the spool alone, stores some more and replaces the state of
\* one flush keeps the invariant when what the flush is then sending is covered.
LEMMA FlushStepIInv ==
    ASSUME IInv, NEW p \in Flush, NEW s \in FlushState,
           flush' = [flush EXCEPT ![p] = s],
           UNCHANGED <<spool, sent, appended, raced>>,
           stored \subseteq stored', stored' \subseteq Record,
           s.left \subseteq s.lines,
           s.at # "posting" => s.file = {},
           s.at = "posting" =>
               /\ s.lines \subseteq s.left \cup stored'
               /\ \A f \in s.file : spool[f] \subseteq s.lines \cup raced
    PROVE  IInv'
  <1>1. flush'[p] = s /\ \A q \in Flush : q # p => flush'[q] = flush[q]
    BY DEF IInv, TypeOK
  <1>2. TypeOK'
    BY <1>1 DEF IInv, TypeOK
  <1>3. SendingIsCovered'
    <2> SUFFICES ASSUME NEW q \in Flush, flush'[q].at = "posting"
                 PROVE  /\ flush'[q].lines \subseteq flush'[q].left \cup stored'
                        /\ \A f \in flush'[q].file : spool[f] \subseteq flush'[q].lines \cup raced
      BY DEF SendingIsCovered
    <2>1. CASE q = p
      BY <1>1, <2>1
    <2>2. CASE q # p
      BY <1>1, <2>2 DEF IInv, SendingIsCovered
    <2> QED
      BY <2>1, <2>2
  <1>4. OnlyRacedAreLost'
    BY DEF IInv, OnlyRacedAreLost
  <1> QED
    BY <1>2, <1>3, <1>4 DEF IInv

-----------------------------------------------------------------------------

LEMMA BeginFlushIInv ==
    ASSUME IInv, NEW p \in Flush, BeginFlush(p)
    PROVE  IInv'
  <1> DEFINE s == [Idle EXCEPT !.at = "next", !.names = {f \in File : Exists(f)}]
  <1>1. s \in FlushState /\ s.at = "next" /\ s.file = {} /\ s.left = {} /\ s.lines = {}
    BY DEF FlushState, Idle
  <1>2. flush' = [flush EXCEPT ![p] = s] /\ UNCHANGED <<spool, sent, stored, appended, raced>>
    BY DEF BeginFlush
  <1>3. stored \subseteq stored' /\ stored' \subseteq Record
    BY <1>2 DEF IInv, TypeOK
  <1> HIDE DEF s
  <1> QED
    BY <1>1, <1>2, <1>3, FlushStepIInv

LEMMA ReadFileIInv ==
    ASSUME IInv, NEW p \in Flush, NEW f \in File, ReadFile(p, f)
    PROVE  IInv'
  <1> DEFINE s == IF Exists(f)
                  THEN [at |-> "posting", names |-> flush[p].names \ {f}, file |-> {f},
                        lines |-> spool[f], left |-> spool[f]]
                  ELSE [flush[p] EXCEPT !.names = flush[p].names \ {f}]
  <1>1. flush[p] \in FlushState /\ flush[p].at = "next" /\ spool[f] \subseteq Record
    BY DEF IInv, TypeOK, ReadFile
  <1>2. flush' = [flush EXCEPT ![p] = s] /\ UNCHANGED <<spool, sent, stored, appended, raced>>
    <2>1. UNCHANGED <<spool, sent, stored, appended, raced>>
      BY DEF ReadFile
    <2>2. CASE Exists(f)
      BY <2>1, <2>2 DEF ReadFile
    <2>3. CASE ~Exists(f)
      BY <2>1, <2>3 DEF ReadFile
    <2> QED
      BY <2>1, <2>2, <2>3
  <1>3. stored \subseteq stored' /\ stored' \subseteq Record
    BY <1>2 DEF IInv, TypeOK
  <1>4. CASE Exists(f)
    <2>1. /\ s \in FlushState
          /\ s.left = spool[f] /\ s.lines = spool[f]
          /\ s.at = "posting" /\ s.file = {f}
      BY <1>1, <1>4 DEF FlushState
    <2> HIDE DEF s
    <2> QED
      BY <1>2, <1>3, <2>1, FlushStepIInv
  <1>5. CASE ~Exists(f)
    <2>1. /\ s \in FlushState
          /\ s.left = flush[p].left /\ s.lines = flush[p].lines
          /\ s.at = "next" /\ s.file = flush[p].file
      BY <1>1, <1>5 DEF FlushState
    <2>2. flush[p].left \subseteq flush[p].lines /\ flush[p].file = {}
      BY <1>1 DEF IInv, TypeOK
    <2> HIDE DEF s
    <2> QED
      BY <1>2, <1>3, <2>1, <2>2, FlushStepIInv
  <1> QED
    BY <1>4, <1>5

\* The end of a run of flush, and the end of its process.
LEMMA IdleIInv ==
    ASSUME IInv, NEW p \in Flush, flush' = [flush EXCEPT ![p] = Idle],
           UNCHANGED <<spool, sent, stored, appended, raced>>
    PROVE  IInv'
  <1>1. Idle \in FlushState /\ Idle.at = "idle" /\ Idle.file = {} /\ Idle.left = {}
    BY DEF FlushState, Idle
  <1>2. stored \subseteq stored' /\ stored' \subseteq Record
    BY DEF IInv, TypeOK
  <1> QED
    BY <1>1, <1>2, FlushStepIInv

LEMMA PostBatchIInv ==
    ASSUME IInv, NEW p \in Flush, PostBatch(p)
    PROVE  IInv'
  <1> DEFINE b == Batch(flush[p].left)
             s == [flush[p] EXCEPT !.left = flush[p].left \ b]
  <1>1. flush[p] \in FlushState /\ flush[p].at = "posting" /\ flush[p].left \subseteq flush[p].lines
    BY DEF IInv, TypeOK, PostBatch
  <1>2. b \subseteq flush[p].left
    BY DEF Batch
  <1>3. /\ flush' = [flush EXCEPT ![p] = s]
        /\ stored' = stored \cup b
        /\ UNCHANGED <<spool, sent, appended, raced>>
    BY DEF PostBatch, IngestObservations, WriteObservations, IInv, TypeOK
  <1> HIDE DEF b
  <1>4. /\ s \in FlushState
        /\ s.at = "posting" /\ s.file = flush[p].file
        /\ s.lines = flush[p].lines /\ s.left = flush[p].left \ b
    BY <1>1, <1>2 DEF FlushState
  <1>5. stored \subseteq stored' /\ stored' \subseteq Record
    BY <1>1, <1>2, <1>3 DEF IInv, TypeOK, FlushState
  <1>6. /\ s.left \subseteq s.lines
        /\ s.lines \subseteq s.left \cup stored'
        /\ \A f \in s.file : spool[f] \subseteq s.lines \cup raced
    BY <1>1, <1>2, <1>3, <1>4 DEF IInv, SendingIsCovered
  <1> HIDE DEF s
  <1> QED
    BY <1>3, <1>4, <1>5, <1>6, FlushStepIInv

LEMMA PostFailsIInv ==
    ASSUME IInv, NEW p \in Flush, PostFails(p)
    PROVE  IInv'
  <1>1. /\ flush' = [flush EXCEPT ![p] = NextFile(p)]
        /\ UNCHANGED <<spool, sent, appended, raced>>
        /\ flush[p].left \subseteq Record
    BY DEF PostFails, IInv, TypeOK, FlushState
  <1>2. Batch(flush[p].left) \subseteq flush[p].left
    BY DEF Batch
  <1>3. stored \subseteq stored' /\ stored' \subseteq stored \cup flush[p].left
    BY <1>2 DEF PostFails, IngestObservations, WriteObservations
  <1>4. stored \subseteq stored' /\ stored' \subseteq Record
    BY <1>1, <1>3 DEF IInv, TypeOK
  <1> QED
    BY <1>1, <1>4, NextFileType, FlushStepIInv DEF IInv

\* The file goes with what was read, all of it stored, and what raced.
LEMMA RenameFileIInv ==
    ASSUME IInv, NEW p \in Flush, RenameFile(p)
    PROVE  IInv'
  <1>1. PICK f \in flush[p].file :
            /\ flush[p].at = "posting"
            /\ flush[p].left = {}
            /\ IF Exists(f)
               THEN /\ sent' = [sent EXCEPT ![f] = spool[f]]
                    /\ spool' = [spool EXCEPT ![f] = {}]
               ELSE UNCHANGED <<spool, sent>>
            /\ flush' = [flush EXCEPT ![p] = NextFile(p)]
            /\ UNCHANGED <<stored, appended, raced>>
    BY DEF RenameFile
  <1>2. f \in File /\ spool[f] \subseteq stored \cup raced
    BY <1>1 DEF IInv, TypeOK, FlushState, SendingIsCovered
  <1>3. CASE ~Exists(f)
    <2>1. UNCHANGED <<spool, sent, stored, appended, raced>>
      BY <1>1, <1>3
    <2>2. stored \subseteq stored' /\ stored' \subseteq Record
      BY <2>1 DEF IInv, TypeOK
    <2> QED
      BY <1>1, <2>1, <2>2, NextFileType, FlushStepIInv DEF IInv
  <1>4. CASE Exists(f)
    <2>1. /\ spool' \in [File -> SUBSET Record]
          /\ sent' \in [File -> SUBSET Record]
          /\ spool'[f] = {}
          /\ \A g \in File : g # f => spool'[g] = spool[g]
      BY <1>1, <1>2, <1>4 DEF IInv, TypeOK
    <2>2. /\ flush'[p] = NextFile(p)
          /\ \A q \in Flush : q # p => flush'[q] = flush[q]
          /\ flush' \in [Flush -> FlushState]
      BY <1>1, NextFileType DEF IInv, TypeOK
    <2>3. TypeOK'
      BY <1>1, <2>1, <2>2, NextFileType DEF IInv, TypeOK
    <2>4. SendingIsCovered'
      <3> SUFFICES ASSUME NEW q \in Flush, flush'[q].at = "posting"
                   PROVE  /\ flush'[q].lines \subseteq flush'[q].left \cup stored
                          /\ \A g \in flush'[q].file :
                                 spool'[g] \subseteq flush'[q].lines \cup raced
        BY <1>1 DEF SendingIsCovered
      <3>1. q # p /\ flush'[q] = flush[q]
        BY <2>2, NextFileType DEF IInv
      <3>2. \A g \in flush[q].file : g \in File /\ spool'[g] \subseteq spool[g]
        BY <2>1 DEF IInv, TypeOK, FlushState
      <3> QED
        BY <3>1, <3>2 DEF IInv, SendingIsCovered
    <2>5. OnlyRacedAreLost'
      <3> SUFFICES ASSUME NEW r \in appended
                   PROVE  r \in stored \/ r \in spool'[FileOf[r]] \/ r \in raced
        BY <1>1 DEF OnlyRacedAreLost
      <3>1. r \in Record /\ FileOf[r] \in File
        BY SpoolAssumption DEF IInv, TypeOK
      <3>2. r \in stored \/ r \in spool[FileOf[r]] \/ r \in raced
        BY DEF IInv, OnlyRacedAreLost
      <3> QED
        BY <1>2, <2>1, <3>1, <3>2
    <2> QED
      BY <2>3, <2>4, <2>5 DEF IInv
  <1> QED
    BY <1>3, <1>4

-----------------------------------------------------------------------------

\* Every step of a hook and of a flush keeps the invariant.
LEMMA NextIInv == IInv /\ [Next]_vars => IInv'
  <1> SUFFICES ASSUME IInv, [Next]_vars PROVE IInv'
    OBVIOUS
  <1>1. CASE UNCHANGED vars
    BY <1>1 DEF vars, IInv, TypeOK, SendingIsCovered, OnlyRacedAreLost
  <1>2. ASSUME NEW r \in Record, HookAppend(r) PROVE IInv'
    BY <1>2, HookAppendIInv
  <1>3. ASSUME NEW p \in Flush, Step(p) PROVE IInv'
    <2>1. ASSUME NEW f \in File, ReadFile(p, f) PROVE IInv'
      BY <2>1, ReadFileIInv
    <2>2. CASE EndFlush(p)
      BY <2>2, IdleIInv DEF EndFlush
    <2> QED
      BY <1>3, <2>1, <2>2, BeginFlushIInv, PostBatchIInv, PostFailsIInv, RenameFileIInv DEF Step
  <1>4. ASSUME NEW p \in Flush, Crash(p) PROVE IInv'
    BY <1>4, IdleIInv DEF Crash
  <1> QED
    BY <1>1, <1>2, <1>3, <1>4 DEF Next

\* The state of the spool and of every flush is well typed, for any records, files
\* and flushes.
THEOREM SpoolTypes == Spec => []TypeOK
  BY InitIInv, NextIInv, PTL DEF Spec, IInv

\* Refused batches, lost answers, crashes and concurrent flushes lose nothing
\* (runSpoolFlush, ingestObservations): only what raced with a flush can be lost.
THEOREM OnlyRacedLinesAreLost == Spec => []OnlyRacedAreLost
  BY InitIInv, NextIInv, PTL DEF Spec, IInv

-----------------------------------------------------------------------------
(* The merge                                                                *)

\* A command that records, and goes on to where every machine has a path that lasts.
Lasts(e, c) ==
    /\ c.form # "other" /\ c.event = e
    /\ c.form = "entry" =>
          c.node \notin Versioned \/ ~(\A i \in Installer : HasStablePath(MachineOf[i]))

LEMMA FirstLinkIsOne ==
    ASSUME NEW links \in SUBSET {"bin", "opt", "local"}, links # {}
    PROVE  FirstLink(links) \in links
  <1>1. CASE "bin" \in links
    <2>1. \A l \in links : LinkRank["bin"] <= LinkRank[l]
      BY DEF LinkRank
    <2> QED BY <1>1, <2>1 DEF FirstLink
  <1>2. CASE "bin" \notin links /\ "opt" \in links
    <2>1. \A l \in links : LinkRank["opt"] <= LinkRank[l]
      BY <1>2 DEF LinkRank
    <2> QED BY <1>2, <2>1 DEF FirstLink
  <1>3. CASE "bin" \notin links /\ "opt" \notin links
    <2>1. links = {"local"}
      BY <1>3, Zenon
    <2>2. \A l \in links : LinkRank["local"] <= LinkRank[l]
      BY <2>1 DEF LinkRank
    <2> QED BY <2>1, <2>2 DEF FirstLink
  <1> QED BY <1>1, <1>2, <1>3

\* What an install puts into the file for an event records it.
LEMMA CommandsLast ==
    ASSUME NEW i \in Installer, NEW e \in Event
    PROVE  Lasts(e, CommandsOf(i)[e])
  <1> DEFINE machine == MachineOf[i]
             override == OverrideOf[i]
  <1>1. CommandsOf(i)[e] = ResolveHookCommand(e, machine, override)
    BY DEF CommandsOf
  <1>2. CASE override # None /\ (e = "PermissionRequest" \/ override.suffixed)
    BY <1>1, <1>2, InstallAssumption DEF ResolveHookCommand, Lasts, Versioned
  <1>3. CASE ~(override # None /\ (e = "PermissionRequest" \/ override.suffixed))
    <2>1. CommandsOf(i)[e] = CoreHookCommand(e, machine)
      BY <1>1, <1>3 DEF ResolveHookCommand
    <2>2. SelectNodePath(machine) \notin Versioned \/ ~HasStablePath(machine)
      <3>1. CASE machine.node = "managed"
        BY <3>1 DEF SelectNodePath, HasStablePath, Versioned
      <3>2. CASE machine.node = "cellar"
        BY <3>2, FirstLinkIsOne, InstallAssumption DEF SelectNodePath, HasStablePath, Versioned
      <3>3. CASE machine.node \notin {"managed", "cellar"}
        BY <3>3 DEF SelectNodePath, Versioned
      <3> QED BY <3>1, <3>2, <3>3
    <2> QED BY <2>1, <2>2 DEF CoreHookCommand, Lasts
  <1> QED BY <1>2, <1>3

\* A nonempty set of naturals has a least element.
LEMMA LeastNatural ==
    ASSUME NEW S \in SUBSET Nat, S # {}
    PROVE  \E m \in S : \A n \in S : m <= n
  <1> DEFINE R == OpToRel(<, Nat)
  <1>1. IsWellFoundedOn(R, Nat)
    BY NatLessThanWellFounded, Zenon
  <1>2. \A x, y \in Nat : <<x, y>> \in R <=> x < y
    BY Zenon DEF OpToRel
  <1> HIDE DEF R
  <1>3. PICK m \in S : \A n \in S : <<n, m>> \notin R
    BY <1>1, WFMin
  <1>4. \A n \in S : n \in Nat /\ m \in Nat /\ ~(n < m)
    BY <1>2, <1>3
  <1> QED BY <1>3, <1>4

\* Of some places one is the first.
LEMMA OneIsFirst ==
    ASSUME NEW places \in SUBSET Place, places # {}
    PROVE  \E p \in places : First(places) = {p}
  <1> DEFINE groups == {p[1] : p \in places}
  <1>1. \A p \in places : p = <<p[1], p[2]>> /\ p[1] \in Nat /\ p[2] \in Nat
    BY DEF Place
  <1>2. PICK g \in groups : \A h \in groups : g <= h
    <2>1. groups \in SUBSET Nat /\ groups # {}
      BY <1>1
    <2> HIDE DEF groups
    <2> QED BY <2>1, LeastNatural
  <1> DEFINE indexes == {p[2] : p \in {q \in places : q[1] = g}}
  <1>3. PICK j \in indexes : \A k \in indexes : j <= k
    <2>1. indexes \in SUBSET Nat /\ indexes # {}
      BY <1>1, <1>2
    <2> HIDE DEF indexes
    <2> QED BY <2>1, LeastNatural
  <1>4. PICK p \in places : p[1] = g /\ p[2] = j
    BY <1>3
  <1>5. \A q \in places : p[1] <= q[1] /\ (q[1] = g => p[2] <= q[2])
    BY <1>2, <1>3, <1>4
  <1>6. \A q \in places : p = q \/ Before(p, q)
    BY <1>1, <1>4, <1>5 DEF Before
  <1>7. \A q \in places : (\A r \in places : q = r \/ Before(q, r)) => q = p
    BY <1>1, <1>6 DEF Before
  <1> QED BY <1>6, <1>7 DEF First

\* Of finitely many places one is in the last group.
LEMMA OneGroupIsLast ==
    ASSUME NEW places \in SUBSET Place, IsFiniteSet(places), places # {}
    PROVE  \E p \in places : \A q \in places : q[1] <= p[1]
  <1> DEFINE after(p) == {q \in places : p[1] < q[1]}
             sizes == {Cardinality(after(p)) : p \in places}
  <1>1. \A p \in places : IsFiniteSet(after(p)) /\ Cardinality(after(p)) \in Nat
    BY FS_Subset, FS_CardinalityType
  <1>2. \A p \in places : p[1] \in Nat
    BY DEF Place
  <1>3. \A p, q \in places :
           p[1] < q[1] => after(q) \subseteq after(p) /\ after(q) # after(p)
    <2> TAKE p, q \in places
    <2> HAVE p[1] < q[1]
    <2>1. ~(q[1] < q[1]) /\ \A r \in places : q[1] < r[1] => p[1] < r[1]
      BY <1>2
    <2>2. q \in after(p) /\ q \notin after(q)
      BY <2>1
    <2> QED BY <2>1, <2>2
  <1> HIDE DEF after
  <1>4. PICK p \in places : \A q \in places : Cardinality(after(p)) <= Cardinality(after(q))
    <2>1. sizes \in SUBSET Nat /\ sizes # {}
      BY <1>1
    <2>2. PICK size \in sizes : \A other \in sizes : size <= other
      BY <2>1, LeastNatural
    <2> QED BY <2>2
  <1>5. ASSUME NEW q \in places, p[1] < q[1]
        PROVE  FALSE
    <2>1. after(q) \subseteq after(p) /\ after(q) # after(p)
      BY <1>3, <1>5
    <2>2. Cardinality(after(q)) <= Cardinality(after(p)) /\ Cardinality(after(q)) # Cardinality(after(p))
      BY <1>1, <2>1, FS_Subset
    <2> QED BY <1>1, <1>4, <2>2
  <1> QED BY <1>2, <1>5

\* A new group is after all the others.
LEMMA NewGroupIsNew ==
    ASSUME NEW section, IsSection(section)
    PROVE  /\ NewGroup(section) \in Place
           /\ NewGroup(section) \notin DOMAIN section
  <1> DEFINE groups == {0} \cup {p[1] : p \in DOMAIN section}
  <1>1. \E g \in groups : \A h \in groups : g >= h
    <2>1. CASE DOMAIN section = {}
      BY <2>1
    <2>2. CASE DOMAIN section # {}
      <3>1. PICK p \in DOMAIN section : \A q \in DOMAIN section : q[1] <= p[1]
        BY <2>2, OneGroupIsLast DEF IsSection
      <3>2. \A q \in DOMAIN section : q[1] \in Nat
        BY DEF IsSection, Place
      <3> QED BY <3>1, <3>2
    <2> QED BY <2>1, <2>2
  <1>2. groups \subseteq Nat
    BY DEF IsSection, Place
  <1> DEFINE last == Max(groups)
  <1>3. last \in groups /\ \A h \in groups : last >= h
    BY <1>1, Zenon DEF Max
  <1>4. NewGroup(section) = <<last + 1, 1>>
    BY DEF NewGroup
  <1> HIDE DEF last
  <1>5. last \in Nat /\ \A p \in DOMAIN section : p[1] \in Nat /\ last >= p[1]
    BY <1>2, <1>3
  <1> QED BY <1>4, <1>5 DEF Place

-----------------------------------------------------------------------------
(* A section that is merged                                                 *)

Normalized(section, e, target) == NormalizeHookGroups(section, e, target).section

\* The first of ours is kept as the target, and the hooks of others are kept.
LEMMA OursAreOne ==
    ASSUME NEW section, IsSection(section), NEW e, NEW target, target.form # "other"
    PROVE  LET kept == Normalized(section, e, target)
               left == Ours(kept, e, target)
           IN /\ IsSection(kept)
              /\ OthersOf(kept) = OthersOf(section)
              /\ Ours(section, e, target) = {} => left = {}
              /\ Ours(section, e, target) # {} =>
                    \E p \in DOMAIN kept : left = {p} /\ kept[p] = target
  <1> DEFINE ours == Ours(section, e, target)
             kept == Normalized(section, e, target)
  <1>1. ours \subseteq DOMAIN section /\ First(ours) \subseteq ours
    BY DEF Ours, First
  <1>2. /\ DOMAIN kept = DOMAIN section \ (ours \ First(ours))
        /\ \A p \in DOMAIN kept : kept[p] = IF p \in First(ours) THEN target ELSE section[p]
    BY DEF Normalized, NormalizeHookGroups, KeepOnly
  <1> HIDE DEF kept
  <1>3. IsSection(kept)
    BY <1>2, FS_Subset DEF IsSection
  <1>4. \A p \in DOMAIN section : section[p].form = "other" => p \notin ours
    BY DEF Ours, IsManaged
  <1>5. OthersOf(kept) = OthersOf(section)
    <2>1. {p \in DOMAIN kept : kept[p].form = "other"} = {p \in DOMAIN section : section[p].form = "other"}
      BY <1>1, <1>2, <1>4
    <2>2. \A p \in DOMAIN section : section[p].form = "other" => kept[p] = section[p]
      BY <1>1, <1>2, <1>4
    <2> QED BY <2>1, <2>2 DEF OthersOf, Restrict
  <1>6. Ours(kept, e, target) = First(ours)
    BY <1>1, <1>2 DEF Ours
  <1> USE DEF kept
  <1>7. CASE ours = {}
    BY <1>1, <1>3, <1>5, <1>6, <1>7
  <1>8. CASE ours # {}
    <2>1. PICK p \in ours : First(ours) = {p}
      BY <1>1, <1>8, OneIsFirst DEF IsSection
    <2> QED BY <1>1, <1>2, <1>3, <1>5, <1>6, <1>8, <2>1
  <1> QED BY <1>7, <1>8

\* What a command is added to.
LEMMA PutKeeps ==
    ASSUME NEW section, IsSection(section), NEW c,
           NEW larger, larger = Put(section, NewGroup(section), c)
    PROVE  /\ IsSection(larger)
           /\ DOMAIN larger = DOMAIN section \cup {NewGroup(section)}
           /\ larger[NewGroup(section)] = c
           /\ \A p \in DOMAIN section : p # NewGroup(section) /\ larger[p] = section[p]
  <1>1. NewGroup(section) \in Place /\ NewGroup(section) \notin DOMAIN section
    BY NewGroupIsNew
  <1>2. DOMAIN larger = DOMAIN section \cup {NewGroup(section)}
    BY DEF Put
  <1>3. IsSection(larger)
    BY <1>1, <1>2, FS_AddElement DEF IsSection
  <1> QED BY <1>1, <1>2, <1>3 DEF Put

IsSettled(section, e, target) ==
    \E p \in DOMAIN section : Ours(section, e, target) = {p} /\ section[p] = target

LEMMA MergeSettles ==
    ASSUME NEW section, IsSection(section), NEW e, NEW target, target.form # "other",
           NEW merged, merged = MergeSection(section, e, target).section
    PROVE  /\ IsSection(merged)
           /\ OthersOf(merged) = OthersOf(section)
           /\ IsSettled(merged, e, target)
  <1> DEFINE ours == Ours(section, e, target)
             kept == Normalized(section, e, target)
  <1>1. /\ IsSection(kept)
        /\ OthersOf(kept) = OthersOf(section)
        /\ ours = {} => Ours(kept, e, target) = {}
        /\ ours # {} => \E p \in DOMAIN kept : Ours(kept, e, target) = {p} /\ kept[p] = target
    BY OursAreOne
  <1>2. merged = IF target \in Range(kept) THEN kept ELSE Put(kept, NewGroup(kept), target)
    BY DEF MergeSection, Normalized, ContainsCommand
  <1> HIDE DEF kept, ours
  <1>3. CASE target \in Range(kept)
    <2>1. PICK p \in DOMAIN kept : kept[p] = target
      BY <1>3 DEF Range
    <2>2. p \in Ours(kept, e, target)
      BY <2>1 DEF Ours
    <2> QED BY <1>1, <1>2, <1>3, <2>2 DEF IsSettled
  <1>4. CASE target \notin Range(kept)
    <2>1. ours = {}
      BY <1>1, <1>4 DEF Range
    <2>2. /\ IsSection(merged)
          /\ DOMAIN merged = DOMAIN kept \cup {NewGroup(kept)}
          /\ merged[NewGroup(kept)] = target
          /\ \A p \in DOMAIN kept : p # NewGroup(kept) /\ merged[p] = kept[p]
      BY <1>1, <1>2, <1>4, PutKeeps
    <2>3. Ours(merged, e, target) = {NewGroup(kept)}
      BY <1>1, <2>1, <2>2 DEF Ours
    <2>4. OthersOf(merged) = OthersOf(kept)
      <3>1. {p \in DOMAIN merged : merged[p].form = "other"} = {p \in DOMAIN kept : kept[p].form = "other"}
        BY <2>2
      <3> QED BY <2>2, <3>1 DEF OthersOf, Restrict
    <2> QED BY <1>1, <2>2, <2>3, <2>4 DEF IsSettled
  <1> QED BY <1>3, <1>4

\* A merge changes nothing exactly in what is settled.
LEMMA SettledIsUnchanged ==
    ASSUME NEW section, IsSection(section), NEW e, NEW target, target.form # "other"
    PROVE  ~MergeSection(section, e, target).changed <=> IsSettled(section, e, target)
  <1> DEFINE ours == Ours(section, e, target)
             kept == Normalized(section, e, target)
  <1>1. /\ ours = {} => Ours(kept, e, target) = {}
        /\ ours # {} => \E p \in DOMAIN kept : Ours(kept, e, target) = {p} /\ kept[p] = target
    BY OursAreOne
  <1>2. MergeSection(section, e, target).changed <=>
          \/ \E p \in ours : p \notin First(ours) \/ section[p] # target
          \/ target \notin Range(kept)
    BY DEF MergeSection, Normalized, NormalizeHookGroups, ContainsCommand
  <1>3. target \in Range(kept) <=> ours # {}
    <2>1. target \in Range(kept) => Ours(kept, e, target) # {}
      BY DEF Range, Ours
    <2>2. ours # {} => target \in Range(kept)
      BY <1>1, Zenon DEF Range
    <2> QED BY <1>1, <2>1, <2>2
  <1>4. ours \subseteq DOMAIN section /\ ours \subseteq Place
    BY DEF Ours, IsSection
  <1>5. \A p : ours = {p} => First(ours) = {p}
    BY DEF First
  <1>6. ours # {} => \E p \in ours : First(ours) = {p}
    BY <1>4, OneIsFirst
  <1> HIDE DEF kept
  <1>7. IsSettled(section, e, target) <=> \E p \in DOMAIN section : ours = {p} /\ section[p] = target
    BY DEF IsSettled
  <1> HIDE DEF ours
  <1> QED BY <1>2, <1>3, <1>4, <1>5, <1>6, <1>7

-----------------------------------------------------------------------------
(* The file through installs and edits                                      *)

\* Ours once, and an event recorded by it.
IsMerged(e, section) ==
    /\ \A p, q \in DOMAIN section :
          IsManaged(e, section[p]) /\ IsManaged(e, section[q]) => p = q
    /\ \E p \in DOMAIN section : Lasts(e, section[p])

AllMerged(document) == \A e \in Event : IsMerged(e, document[e])
IsDocument(document) == DOMAIN document = Event /\ \A e \in Event : IsSection(document[e])

Loaded(i) == i \in Installer /\ installer[i].at = "loaded"

\* A file that is merged stays so: a document that is merged already was read of a file
\* that was, and an edit takes nothing away.
SettingsFit ==
    /\ IsDocument(settings) /\ DOMAIN installer = Installer /\ DOMAIN others = Event
    /\ \A i : Loaded(i) => IsDocument(installer[i].document)
    /\ BeforeHooks => (Installed # {} => AllMerged(settings))
    /\ \A i : BeforeHooks /\ Loaded(i) /\ i \notin PrintOnly =>
          (AllMerged(installer[i].document) => AllMerged(settings))

\* What others have in the file is what it should have, and what was read of it has.
OthersFit ==
    ~editRaced => \A e \in Event :
        /\ OthersOf(settings[e]) = others[e]
        /\ \A i : Loaded(i) /\ i \notin PrintOnly =>
              OthersOf(installer[i].document[e]) = others[e]

InstallInv == SettingsFit /\ OthersFit

LEMMA SettledIsMerged ==
    ASSUME NEW e \in Event, NEW i \in Installer, NEW section,
           IsSettled(section, e, CommandsOf(i)[e])
    PROVE  IsMerged(e, section)
  <1> DEFINE target == CommandsOf(i)[e]
  <1>1. Lasts(e, target)
    BY CommandsLast
  <1> HIDE DEF target
  <1>2. PICK p \in DOMAIN section : Ours(section, e, target) = {p} /\ section[p] = target
    BY DEF IsSettled, target
  <1>3. \A q \in DOMAIN section : IsManaged(e, section[q]) => q = p
    BY <1>2 DEF Ours
  <1> QED BY <1>1, <1>2, <1>3 DEF IsMerged

\* What an install makes of a document.
LEMMA MergeOfDocument ==
    ASSUME NEW i \in Installer, NEW document, IsDocument(document),
           NEW merged, merged = MergeHooks(document, CommandsOf(i))
    PROVE  /\ IsDocument(merged.document)
           /\ AllMerged(merged.document)
           /\ \A e \in Event : OthersOf(merged.document[e]) = OthersOf(document[e])
           /\ ~merged.changed => AllMerged(document)
           /\ ~MergeHooks(merged.document, CommandsOf(i)).changed
  <1> DEFINE target(e) == CommandsOf(i)[e]
             section(e) == MergeSection(document[e], e, target(e)).section
  <1>1. \A e \in Event : target(e).form # "other"
    BY CommandsLast DEF Lasts
  <1>2. /\ merged.document = [e \in Event |-> section(e)]
        /\ merged.changed <=> \E e \in Event : MergeSection(document[e], e, target(e)).changed
    BY DEF MergeHooks
  <1>3. MergeHooks(merged.document, CommandsOf(i)).changed
          <=> \E e \in Event : MergeSection(merged.document[e], e, target(e)).changed
    BY DEF MergeHooks
  <1>4. ASSUME NEW e \in Event
        PROVE  /\ IsSection(section(e))
               /\ OthersOf(section(e)) = OthersOf(document[e])
               /\ IsSettled(section(e), e, target(e))
    <2>1. IsSection(document[e])
      BY DEF IsDocument
    <2> HIDE DEF target
    <2> QED BY <1>1, <2>1, MergeSettles
  <1>5. \A e \in Event : merged.document[e] = section(e)
    BY <1>2
  <1> HIDE DEF section
  <1>6. \A e \in Event : IsMerged(e, merged.document[e])
    BY <1>4, <1>5, SettledIsMerged
  <1>7. IsDocument(merged.document)
    BY <1>2, <1>4, <1>5 DEF IsDocument
  <1>8. ASSUME ~merged.changed PROVE AllMerged(document)
    <2> SUFFICES ASSUME NEW e \in Event PROVE IsMerged(e, document[e])
      BY DEF AllMerged
    <2>1. IsSection(document[e]) /\ ~MergeSection(document[e], e, target(e)).changed
      BY <1>2, <1>8 DEF IsDocument
    <2>2. IsSettled(document[e], e, target(e))
      BY <1>1, <2>1, SettledIsUnchanged
    <2> QED BY <2>2, SettledIsMerged
  <1>9. ASSUME NEW e \in Event
        PROVE  ~MergeSection(merged.document[e], e, target(e)).changed
    <2>1. IsSection(merged.document[e]) /\ IsSettled(merged.document[e], e, target(e))
      BY <1>4, <1>5
    <2> HIDE DEF target
    <2> QED BY <1>1, <2>1, SettledIsUnchanged
  <1> QED BY <1>3, <1>4, <1>5, <1>6, <1>7, <1>8, <1>9 DEF AllMerged

\* The invariant says what is to be shown.
LEMMA FitIsMerged == InstallInv => SettingsAreMerged
  <1> SUFFICES ASSUME InstallInv PROVE SettingsAreMerged
    OBVIOUS
  <1>1. ASSUME BeforeHooks, Installed # {}, NEW e \in Event
        PROVE  /\ Cardinality({p \in DOMAIN settings[e] : IsManaged(e, settings[e][p])}) <= 1
               /\ (~upgraded \/ \A i \in Installer : HasStablePath(MachineOf[i])) => Recorders(e) # {}
    <2>1. IsMerged(e, settings[e])
      BY <1>1 DEF InstallInv, SettingsFit, AllMerged
    <2> DEFINE managed == {p \in DOMAIN settings[e] : IsManaged(e, settings[e][p])}
    <2>2. Cardinality(managed) <= 1
      <3>1. CASE managed = {}
        BY <3>1, FS_EmptySet
      <3>2. CASE managed # {}
        <4>1. PICK p : managed = {p}
          BY <2>1, <3>2 DEF IsMerged
        <4> HIDE DEF managed
        <4> QED BY <4>1, FS_Singleton
      <3> QED BY <3>1, <3>2
    <2>3. ASSUME ~upgraded \/ \A i \in Installer : HasStablePath(MachineOf[i])
          PROVE  Recorders(e) # {}
      BY <2>1, <2>3 DEF IsMerged, Lasts, Recorders, Records
    <2> QED BY <2>2, <2>3
  <1>2. ASSUME NEW i \in Installer
        PROVE  ~MergeHooks(MergeHooks(settings, CommandsOf(i)).document, CommandsOf(i)).changed
    BY MergeOfDocument DEF InstallInv, SettingsFit
  <1>3. OthersAreKept
    BY DEF InstallInv, OthersFit, OthersAreKept
  <1> QED BY <1>1, <1>2, <1>3 DEF SettingsAreMerged, InstalledOnce

LEMMA InitFits == InstallInit => InstallInv
  <1> SUFFICES ASSUME InstallInit PROVE InstallInv
    OBVIOUS
  <1>1. IsDocument(settings)
    BY InstallAssumption DEF InstallInit, IsDocument
  <1>2. DOMAIN installer = Installer /\ \A i \in Installer : installer[i].at = "idle"
    BY DEF InstallInit
  <1>3. DOMAIN others = Event /\ \A e \in Event : others[e] = OthersOf(settings[e])
    BY DEF InstallInit
  <1> QED BY <1>1, <1>2, <1>3 DEF InstallInv, SettingsFit, OthersFit, Loaded, Installed

LEMMA LoadFits ==
    ASSUME InstallInv, NEW i \in Installer, LoadDocument(i)
    PROVE  InstallInv'
  <1>1. /\ DOMAIN installer' = Installer
        /\ installer'[i] = [at |-> "loaded", document |-> settings]
        /\ \A j \in Installer \ {i} : installer'[j] = installer[j]
    BY DEF LoadDocument, InstallInv, SettingsFit
  <1>2. UNCHANGED <<settings, others, editRaced, recorded>> /\ Installed' \subseteq Installed
    BY <1>1 DEF LoadDocument, Installed
  <1> QED BY <1>1, <1>2 DEF InstallInv, SettingsFit, OthersFit, Loaded, BeforeHooks

LEMMA WriteFits ==
    ASSUME InstallInv, NEW i \in Installer, WriteSettings(i)
    PROVE  InstallInv'
  <1> DEFINE document == installer[i].document
             merged == MergeHooks(document, CommandsOf(i))
  <1>1. /\ DOMAIN installer' = Installer
        /\ installer'[i] = [at |-> "done", document |-> None]
        /\ \A j \in Installer \ {i} : installer'[j] = installer[j]
    BY DEF WriteSettings, InstallInv, SettingsFit
  <1>2. /\ UNCHANGED <<others, editRaced, recorded>>
        /\ Loaded(i) /\ ~Loaded(i)' /\ \A j : Loaded(j)' => Loaded(j) /\ installer'[j] = installer[j]
        /\ Installed' \subseteq Installed \cup ({i} \ PrintOnly)
        /\ BeforeHooks
    BY <1>1 DEF WriteSettings, Installed, Loaded
  <1>3. /\ IsDocument(merged.document)
        /\ AllMerged(merged.document)
        /\ \A e \in Event : OthersOf(merged.document[e]) = OthersOf(document[e])
        /\ ~merged.changed => AllMerged(document)
    BY <1>2, MergeOfDocument DEF InstallInv, SettingsFit
  <1>4. settings' = IF merged.changed /\ i \notin PrintOnly THEN merged.document ELSE settings
    BY DEF WriteSettings
  <1> HIDE DEF document, merged
  <1>5. CASE merged.changed /\ i \notin PrintOnly
    <2>1. settings' = merged.document
      BY <1>4, <1>5
    <2>2. SettingsFit'
      BY <1>1, <1>2, <1>3, <2>1 DEF InstallInv, SettingsFit
    <2>3. OthersFit'
      BY <1>2, <1>3, <1>5, <2>1 DEF InstallInv, OthersFit, document
    <2> QED BY <2>2, <2>3 DEF InstallInv
  <1>6. CASE ~(merged.changed /\ i \notin PrintOnly)
    <2>1. settings' = settings
      BY <1>4, <1>6
    <2>2. i \notin PrintOnly => AllMerged(settings)
      BY <1>2, <1>3, <1>6 DEF InstallInv, SettingsFit, document
    <2>3. SettingsFit'
      BY <1>1, <1>2, <2>1, <2>2 DEF InstallInv, SettingsFit
    <2>4. OthersFit'
      BY <1>2, <2>1 DEF InstallInv, OthersFit
    <2> QED BY <2>3, <2>4 DEF InstallInv
  <1> QED BY <1>5, <1>6

\* An edit of another program adds a command behind all others.
LEMMA EditFits ==
    ASSUME InstallInv, NEW e \in Event, EditSettings(e)
    PROVE  InstallInv'
  <1> DEFINE place == NewGroup(settings[e])
  <1>1. /\ DOMAIN settings' = Event
        /\ settings'[e] = Put(settings[e], place, Foreign)
        /\ \A f \in Event \ {e} : settings'[f] = settings[f]
    BY DEF EditSettings, InstallInv, SettingsFit, IsDocument
  <1>2. /\ UNCHANGED <<installer, recorded>> /\ ~editRaced /\ editRaced' = Loading
        /\ DOMAIN others' = Event
        /\ ~Loading => others'[e] = Put(others[e], place, Foreign)
        /\ ~Loading => \A f \in Event \ {e} : others'[f] = others[f]
    BY DEF EditSettings, InstallInv, SettingsFit
  <1>3. /\ IsSection(settings'[e])
        /\ DOMAIN settings'[e] = DOMAIN settings[e] \cup {place}
        /\ settings'[e][place] = Foreign
        /\ \A p \in DOMAIN settings[e] : p # place /\ settings'[e][p] = settings[e][p]
    <2>1. IsSection(settings[e])
      BY DEF InstallInv, SettingsFit, IsDocument
    <2> HIDE DEF place
    <2> QED BY <1>1, <2>1, PutKeeps DEF place
  <1>4. Foreign.form = "other"
    BY InstallAssumption
  <1> HIDE DEF place
  <1>5. AllMerged(settings) => AllMerged(settings')
    <2> SUFFICES ASSUME AllMerged(settings), NEW f \in Event PROVE IsMerged(f, settings'[f])
      BY DEF AllMerged
    <2>1. IsMerged(f, settings[f])
      BY DEF AllMerged
    <2>2. CASE f # e
      BY <1>1, <2>1, <2>2
    <2>3. CASE f = e
      <3>1. ~IsManaged(e, Foreign)
        BY <1>4 DEF IsManaged
      <3> QED BY <1>3, <2>1, <2>3, <3>1 DEF IsMerged
    <2> QED BY <2>2, <2>3
  <1>6. SettingsFit'
    <2>1. UNCHANGED <<Installed, BeforeHooks>> /\ \A i : Loaded(i)' <=> Loaded(i)
      BY <1>2 DEF Installed, BeforeHooks, Loaded
    <2>2. IsDocument(settings')
      BY <1>1, <1>3 DEF InstallInv, SettingsFit, IsDocument
    <2> QED BY <1>2, <1>5, <2>1, <2>2 DEF InstallInv, SettingsFit
  <1>7. OthersFit'
    <2> SUFFICES ASSUME ~Loading, NEW f \in Event
                 PROVE  OthersOf(settings'[f]) = others'[f]
      BY <1>2 DEF OthersFit, Loaded, Loading
    <2>1. OthersOf(settings[f]) = others[f]
      BY <1>2 DEF InstallInv, OthersFit
    <2>2. CASE f # e
      BY <1>1, <1>2, <2>1, <2>2
    <2>3. CASE f = e
      <3>1. {p \in DOMAIN settings'[e] : settings'[e][p].form = "other"}
              = {p \in DOMAIN settings[e] : settings[e][p].form = "other"} \cup {place}
        BY <1>3, <1>4
      <3> QED BY <1>2, <1>3, <2>1, <2>3, <3>1 DEF OthersOf, Restrict, Put
    <2> QED BY <2>2, <2>3
  <1> QED BY <1>6, <1>7 DEF InstallInv

\* With the sessions the file is no longer followed.
LEMMA SessionsFit ==
    ASSUME InstallInv, StartSessions
    PROVE  InstallInv'
  <1>1. UNCHANGED installer /\ \A i : ~Loaded(i)'
    BY DEF StartSessions, Loaded
  <1>2. recorded' \in SUBSET Event /\ ~BeforeHooks'
    BY InstallAssumption DEF StartSessions, BeforeHooks
  <1>3. settings' = NoSettings /\ others' = NoSettings
    BY DEF StartSessions
  <1>4. \A e \in Event : DOMAIN NoSettings[e] = {} /\ OthersOf(NoSettings[e]) = NoSettings[e]
    BY DEF NoSettings, OthersOf, Restrict
  <1>5. IsDocument(NoSettings)
    BY <1>4, FS_EmptySet DEF IsDocument, IsSection, NoSettings
  <1> QED BY <1>1, <1>2, <1>3, <1>4, <1>5 DEF InstallInv, SettingsFit, OthersFit, NoSettings

LEMMA InstallStepFits == InstallInv /\ [InstallNext]_allVars => InstallInv'
  <1> SUFFICES ASSUME InstallInv, [InstallNext]_allVars PROVE InstallInv'
    OBVIOUS
  <1>1. CASE UNCHANGED <<settings, installer, others, editRaced, recorded>>
    BY <1>1 DEF InstallInv, SettingsFit, OthersFit, Loaded, Installed, BeforeHooks
  <1>2. CASE UpgradeNode
    BY <1>1, <1>2 DEF UpgradeNode
  <1>3. ASSUME NEW r \in Record, NEW input \in SUBSET InputField, RunHook(r, input)
        PROVE  InstallInv'
    BY <1>1, <1>3 DEF RunHook, installVars
  <1>4. CASE UNCHANGED installVars
    BY <1>1, <1>4 DEF installVars
  <1>5. CASE UNCHANGED allVars
    BY <1>4, <1>5 DEF allVars
  <1> QED
    BY <1>2, <1>3, <1>4, <1>5, LoadFits, WriteFits, EditFits, SessionsFit DEF InstallNext

-----------------------------------------------------------------------------

\* Installs do to the spool what hooks and flushes do (HookInstall extends HookSpool).
THEOREM InstallsUseTheSpool == FairInstallSpec => Spec
  <1>1. InstallInit => Init
    BY DEF InstallInit
  <1>2. [InstallNext]_allVars => [Next]_vars
    <2> SUFFICES ASSUME [InstallNext]_allVars PROVE [Next]_vars
      OBVIOUS
    <2>1. CASE UNCHANGED vars
      BY <2>1
    <2>2. CASE UNCHANGED allVars
      BY <2>2 DEF allVars
    <2>3. ASSUME NEW i \in Installer, LoadDocument(i) \/ WriteSettings(i)
          PROVE  UNCHANGED vars
      BY <2>3 DEF LoadDocument, WriteSettings
    <2>4. ASSUME NEW e \in Event, EditSettings(e)
          PROVE  UNCHANGED vars
      BY <2>4 DEF EditSettings
    <2>5. CASE UpgradeNode \/ StartSessions
      BY <2>5, Zenon DEF UpgradeNode, StartSessions
    <2>6. ASSUME NEW r \in Record, NEW input \in SUBSET InputField, RunHook(r, input)
          PROVE  [Next]_vars
      BY <2>6 DEF RunHook, Next
    <2>7. ASSUME NEW p \in Flush, Step(p) \/ Crash(p)
          PROVE  Next
      BY <2>7 DEF Next
    <2> QED BY <2>1, <2>2, <2>3, <2>4, <2>5, <2>6, <2>7 DEF InstallNext
  <1> QED BY <1>1, <1>2, PTL DEF FairInstallSpec, Spec

\* Whatever installs, edits and upgrades of node cross, the settings file has our hooks
\* once and working after an install, and those of others as they were (mergeHooks).
THEOREM SettingsStayMerged == FairInstallSpec => []SettingsAreMerged
  BY InitFits, InstallStepFits, FitIsMerged, PTL DEF FairInstallSpec
=============================================================================
