--------------------- MODULE ConformanceAndQueriesProofs --------------------
(***************************************************************************)
(* Proofs about Conformance, for any worlds, lengths of a day and numbers  *)
(* of declarations, and about ReviewQueries, for any reviews, groups and   *)
(* lengths of a page: first that the daily job checks a day against the    *)
(* version that was declared for all of it, and that the findings page     *)
(* shows every day's length of silence; then that listings in pages are    *)
(* complete and that the parts of an answer fit.                           *)
(*                                                                         *)
(* The job's properties rest on what it knows between its two reads: the   *)
(* declarations there were when it began are all still there, and the one  *)
(* it has chosen is the last of them before the day. The silences rest on  *)
(* the order of the observation times alone. The queries rest on what the  *)
(* stores keep, whoever writes: rows stay where they are among the others, *)
(* a run that is completed stays so, and so does a decision.               *)
(***************************************************************************)
EXTENDS Conformance, ReviewQueries, FiniteSetTheorems, SequenceTheorems, WellFoundedInduction, TLAPS

-----------------------------------------------------------------------------
(* Extremes                                                                  *)

\* A nonempty set of naturals has a least element.
LEMMA LeastNatural ==
    ASSUME NEW S \in SUBSET Nat, S # {}
    PROVE  \E m \in S : \A n \in S : m <= n
  <1> DEFINE R == OpToRel(<, Nat)
  <1>1. IsWellFoundedOn(R, Nat)
    BY NatLessThanWellFounded, Zenon
  <1>2. \A x, y \in Nat : <<x, y>> \in R <=> x < y
    BY Zenon DEF OpToRel
  <1> HIDE DEF R
  <1>3. PICK m \in S : \A n \in S : <<n, m>> \notin R
    BY <1>1, WFMin
  <1>4. \A n \in S : n \in Nat /\ m \in Nat /\ ~(n < m)
    <2> TAKE n \in S
    <2>1. n \in Nat /\ m \in Nat
      OBVIOUS
    <2>2. <<n, m>> \notin R
      BY <1>3
    <2> QED BY <1>2, <2>1, <2>2, Zenon
  <1> QED BY <1>4

\* And one that is bounded has a greatest.
LEMMA GreatestNatural ==
    ASSUME NEW S \in SUBSET Nat, S # {}, NEW bound \in Nat, \A n \in S : n <= bound
    PROVE  \E m \in S : \A n \in S : n <= m
  <1> DEFINE T == {bound - n : n \in S}
  <1>1. T \in SUBSET Nat /\ T # {}
    <2>1. \A n \in S : bound - n \in Nat
      OBVIOUS
    <2> QED BY <2>1
  <1>2. PICK d \in T : \A e \in T : d <= e
    BY <1>1, LeastNatural, Zenon
  <1>3. PICK m \in S : d = bound - m
    BY <1>2
  <1>4. ASSUME NEW n \in S PROVE n <= m
    <2>1. d <= bound - n
      BY <1>2
    <2> QED BY <1>3, <2>1
  <1> QED BY <1>4

-----------------------------------------------------------------------------
(* Declarations                                                              *)

\* The declarations that are stored and the one that is not: none is of later than
\* now, and no id is given twice.
ActivationsFit ==
    /\ world \in World
    /\ now \in Nat
    /\ declaring # Null => declaring \in [version : Version, at : 0..now]
    /\ activations \subseteq [id : 1..world.declarations, version : Version, at : 0..now]
    /\ \A a, b \in activations : a.id = b.id => a = b

\* Of the declarations up to a moment one is the last: the latest, and of the latest
\* the one with the greatest id.
LEMMA LatestExists ==
    ASSUME ActivationsFit, NEW asOf, \E row \in activations : row.at <= asOf
    PROVE  /\ FindLatestActivation(asOf) \in activations
           /\ FindLatestActivation(asOf).at <= asOf
           /\ \A row \in activations : row.at <= asOf => row.at <= FindLatestActivation(asOf).at
  <1> DEFINE rows == {row \in activations : row.at <= asOf}
             times == {row.at : row \in rows}
  <1>1. rows # {} /\ rows \subseteq activations /\ now \in Nat
        /\ \A row \in rows : row.at \in 0..now /\ row.id \in Nat
                           /\ row.id <= world.declarations
        /\ world.declarations \in Nat
    BY ConformanceAssumption DEF ActivationsFit
  <1>2. times \in SUBSET Nat /\ times # {} /\ \A t \in times : t <= now
    BY <1>1
  <1>3. PICK t \in times : \A u \in times : u <= t
    BY <1>1, <1>2, GreatestNatural, Zenon
  <1> DEFINE ids == {row.id : row \in {r \in rows : r.at = t}}
  <1>4. ids \in SUBSET Nat /\ ids # {} /\ \A i \in ids : i <= world.declarations
    BY <1>1, <1>3
  <1>5. PICK i \in ids : \A k \in ids : k <= i
    BY <1>1, <1>4, GreatestNatural, Zenon
  <1>6. PICK a \in rows : a.id = i /\ a.at = t
    BY <1>5
  <1>7. ASSUME NEW b \in rows \ {a}
        PROVE  IsNewer(a, b)
    <2>1. b.at <= a.at /\ b.at \in Nat /\ a.at \in Nat /\ b.id \in Nat /\ a.id \in Nat
      BY <1>1, <1>3, <1>6
    <2>2. b.id # a.id
      BY <1>1, <1>7 DEF ActivationsFit
    <2>3. b.at = a.at => b.id <= a.id
      BY <1>5, <1>6
    <2> QED BY <2>1, <2>2, <2>3 DEF IsNewer
  <1> DEFINE last == CHOOSE x \in rows : \A b \in rows \ {x} : IsNewer(x, b)
  <1>8. last \in rows /\ \A b \in rows \ {last} : IsNewer(last, b)
    BY <1>6, <1>7
  <1>9. FindLatestActivation(asOf) = last
    BY <1>1 DEF FindLatestActivation
  <1> HIDE DEF last
  <1>10. ASSUME NEW b \in rows PROVE b.at <= last.at
    <2>1. b.at \in Nat /\ last.at \in Nat
      BY <1>1, <1>8
    <2>2. CASE b = last
      BY <2>1, <2>2
    <2>3. CASE b # last
      BY <1>8, <2>1, <2>3 DEF IsNewer
    <2> QED BY <2>2, <2>3
  <1> QED BY <1>1, <1>8, <1>9, <1>10

-----------------------------------------------------------------------------
(* The daily job                                                             *)

JobState ==
    [pc : {"idle", "list", "request", "done"}, day : Int \cup {Null},
     version : Activation \cup {Null}, known : SUBSET Activation,
     result : DailyResult \cup {Null}]

\* What the job knows at each of its steps of the declarations.
JobFits ==
    /\ job \in JobState
    /\ job.pc # "done" => job.result = Null
    /\ job.known \subseteq activations
    /\ job.pc \in {"list", "request"} \/ job.result \in {"requested", "changed"} =>
         /\ job.day \in Int
         /\ job.version \in job.known
         /\ job.version.at <= Window.from
         /\ \A row \in job.known : row.at <= Window.from => row.at <= job.version.at
    /\ job.pc = "request" \/ job.result = "requested" =>
         \A row \in job.known :
            job.version.at <= row.at /\ row.at <= Window.to => row.version = job.version.version

DInv == ActivationsFit /\ JobFits

LEMMA IdleJobType == IdleJob \in JobState
  BY DEF IdleJob, JobState

\* A day is a number.
LEMMA DayTypes ==
    ASSUME ActivationsFit
    PROVE  /\ PreviousUtcDay \in Int
           /\ \A day \in Int : WindowOf(day).from \in Int /\ WindowOf(day).to \in Int
  <1>1. DayLength \in Nat \ {0} /\ now \in Nat
    BY ConformanceAssumption DEF ActivationsFit
  <1>2. PreviousUtcDay \in Int
    BY <1>1 DEF PreviousUtcDay
  <1>3. ASSUME NEW day \in Int
        PROVE  WindowOf(day).from \in Int /\ WindowOf(day).to \in Int
    <2>1. day * DayLength \in Int /\ (day + 1) * DayLength \in Int
      BY <1>1
    <2>2. (day + 1) * DayLength - 1 \in Int
      BY <2>1
    <2> QED BY <2>1, <2>2 DEF WindowOf
  <1> QED BY <1>2, <1>3

\* The declarations, as rows of the table.
LEMMA ActivationTypes ==
    ASSUME ActivationsFit
    PROVE  activations \subseteq Activation /\ \A row \in activations : row.at \in Nat
  BY ConformanceAssumption DEF ActivationsFit, Activation

LEMMA InitDInv == Init => DInv
  <1> SUFFICES ASSUME Init PROVE DInv
    OBVIOUS
  <1>1. ActivationsFit
    BY ConformanceAssumption DEF Init, ActivationsFit
  <1>2. JobFits
    <2>1. job = IdleJob /\ job.result = Null /\ job.pc = "idle" /\ job.known = {}
      BY DEF Init, IdleJob
    <2> QED BY <2>1, IdleJobType, ConformanceAssumption
            DEF JobFits, DailyResult
  <1> QED BY <1>1, <1>2 DEF DInv

\* The job is where it was, and no declaration is gone.
LEMMA JobWaits ==
    ASSUME JobFits, job' = job, activations \subseteq activations'
    PROVE  JobFits'
  <1>1. Window' = Window
    BY DEF Window
  <1> QED BY <1>1 DEF JobFits

LEMMA DeclarationsWait ==
    ASSUME ActivationsFit, UNCHANGED <<world, now, activations, declaring>>
    PROVE  ActivationsFit'
  BY DEF ActivationsFit

LEMMA TickKeeps ==
    ASSUME DInv, Tick
    PROVE  DInv'
  <1>1. now \in Nat /\ now' = now + 1 /\ UNCHANGED <<world, activations, declaring, job>>
    BY DEF DInv, ActivationsFit, Tick
  <1>2. 0..now \subseteq 0..now' /\ now' \in Nat
    BY <1>1
  <1>3. ActivationsFit'
    BY <1>1, <1>2 DEF DInv, ActivationsFit
  <1> QED BY <1>1, <1>3, JobWaits DEF DInv

LEMMA DeclareKeeps ==
    ASSUME DInv, NEW v \in Version, Declare(v)
    PROVE  DInv'
  <1>1. ActivationsFit'
    BY DEF DInv, ActivationsFit, Declare
  <1> QED BY <1>1, JobWaits DEF DInv, Declare

LEMMA StoreKeeps ==
    ASSUME DInv, StoreActivation
    PROVE  DInv'
  <1>1. PICK id \in 1..world.declarations :
          /\ \A row \in activations : row.id # id
          /\ activations' = activations \cup
                              {[id |-> id, version |-> declaring.version, at |-> declaring.at]}
    BY DEF StoreActivation
  <1>2. declaring \in [version : Version, at : 0..now] /\ declaring' = Null
        /\ UNCHANGED <<world, now, job>>
    BY DEF DInv, ActivationsFit, StoreActivation
  <1> DEFINE new == [id |-> id, version |-> declaring.version, at |-> declaring.at]
  <1>3. new \in [id : 1..world.declarations, version : Version, at : 0..now] /\ new.id = id
    BY <1>2
  <1> HIDE DEF new
  <1>4. activations' = activations \cup {new}
    BY <1>1 DEF new
  <1>5. ActivationsFit'
    BY <1>1, <1>2, <1>3, <1>4 DEF DInv, ActivationsFit
  <1> QED BY <1>2, <1>4, <1>5, JobWaits DEF DInv

\* The declaration the job has chosen is the last one up to the first tick of the day.
LEMMA BeginJobKeeps ==
    ASSUME DInv, BeginJob
    PROVE  DInv'
  <1> DEFINE day == PreviousUtcDay
             from == WindowOf(day).from
             latest == FindLatestActivation(from)
  <1>1. UNCHANGED <<world, now, activations, declaring>> /\ ActivationsFit'
    BY DeclarationsWait DEF BeginJob, DInv
  <1>2. from \in Int /\ day \in Int /\ activations \subseteq Activation
        /\ \A row \in activations : row.at \in Nat
    BY DayTypes, ActivationTypes DEF DInv
  <1>3. CASE \E row \in activations : row.at <= from
    <2>1. /\ latest \in activations /\ latest.at <= from
          /\ \A row \in activations : row.at <= from => row.at <= latest.at
      BY <1>3, LatestExists DEF DInv
    <2>2. latest # Null
      BY <1>2, <2>1, ConformanceAssumption
    <2> HIDE DEF latest, day
    <2>3. job' = [IdleJob EXCEPT !.pc = "list", !.day = day, !.known = activations,
                                 !.version = latest]
      BY <2>2 DEF BeginJob, latest, day
    <2>4. job'.pc = "list" /\ job'.day = day /\ job'.known = activations
          /\ job'.version = latest /\ job'.result = Null /\ job' \in JobState
      BY <1>2, <2>1, <2>3 DEF IdleJob, JobState
    <2>5. Window'.from = from
      BY <2>4 DEF Window, WindowOf
    <2>6. JobFits'
      BY <1>1, <1>2, <2>1, <2>4, <2>5, ConformanceAssumption
      DEF JobFits, DailyResult
    <2> QED BY <1>1, <2>6 DEF DInv
  <1>4. CASE ~ \E row \in activations : row.at <= from
    <2>1. latest = Null
      BY <1>4 DEF FindLatestActivation
    <2>2. \A row \in activations : row.at > from
      BY <1>2, <1>4
    <2> HIDE DEF latest, day
    <2>3. job' = [IdleJob EXCEPT !.pc = "done", !.day = day, !.known = activations,
                                 !.result = "none"]
      BY <2>1 DEF BeginJob, latest, day
    <2>4. job'.pc = "done" /\ job'.day = day /\ job'.known = activations
          /\ job'.result = "none" /\ job' \in JobState
      BY <1>2, <2>3 DEF IdleJob, JobState, DailyResult
    <2>5. Window'.from = from
      BY <2>4 DEF Window, WindowOf
    <2>6. JobFits'
      BY <1>1, <2>2, <2>4, <2>5 DEF JobFits, DailyResult
    <2> QED BY <1>1, <2>6 DEF DInv
  <1> QED BY <1>3, <1>4

\* The second read sees what was there when the job began, and what came since.
LEMMA ListDuringKeeps ==
    ASSUME DInv, ListDuring
    PROVE  DInv'
  <1> DEFINE during == ListActivationsBetween(job.version.at - 1, WindowOf(job.day).to)
             switched == {row \in during : row.version # job.version.version}
  <1>1. /\ UNCHANGED <<world, now, activations, declaring>> /\ ActivationsFit'
        /\ job.pc = "list" /\ job.result = Null /\ job \in JobState /\ job.day \in Int
        /\ job.known \subseteq activations /\ job.version \in job.known
        /\ job.version.at <= Window.from
        /\ \A row \in job.known : row.at <= Window.from => row.at <= job.version.at
    BY DeclarationsWait DEF ListDuring, DInv, JobFits
  <1>2. \A row \in activations : row.at \in Nat
    BY DEF DInv, ActivationsFit
  <1>3. \A row \in activations :
           row \in during <=> job.version.at <= row.at /\ row.at <= Window.to
    BY <1>1, <1>2 DEF ListActivationsBetween, Window
  <1>4. during \subseteq activations
    BY DEF ListActivationsBetween
  <1> HIDE DEF during
  <1>5. CASE switched = {}
    <2>1. job' = [job EXCEPT !.pc = "request"]
      BY <1>5 DEF ListDuring, during
    <2>2. job'.pc = "request" /\ job'.day = job.day /\ job'.known = job.known
          /\ job'.version = job.version /\ job'.result = job.result
          /\ job' \in JobState
      BY <1>1, <2>1 DEF JobState
    <2>3. Window' = Window
      BY <2>2 DEF Window
    <2>4. \A row \in job.known : job.version.at <= row.at /\ row.at <= Window.to =>
             row.version = job.version.version
      BY <1>1, <1>3, <1>5
    <2>5. JobFits'
      BY <1>1, <2>2, <2>3, <2>4, ConformanceAssumption
      DEF JobFits, DailyResult
    <2> QED BY <1>1, <2>5 DEF DInv
  <1>6. CASE switched # {}
    <2>1. job' = [job EXCEPT !.pc = "done", !.result = "changed"]
      BY <1>6 DEF ListDuring, during
    <2>2. job'.pc = "done" /\ job'.day = job.day /\ job'.known = job.known
          /\ job'.version = job.version /\ job'.result = "changed"
          /\ job' \in JobState
      BY <1>1, <2>1 DEF JobState, DailyResult
    <2>3. Window' = Window
      BY <2>2 DEF Window
    <2>4. JobFits'
      BY <1>1, <2>2, <2>3 DEF JobFits, DailyResult
    <2> QED BY <1>1, <2>4 DEF DInv
  <1> QED BY <1>5, <1>6

LEMMA RequestDailyKeeps ==
    ASSUME DInv, RequestDaily
    PROVE  DInv'
  <1>1. /\ UNCHANGED <<world, now, activations, declaring>> /\ ActivationsFit'
        /\ job.pc = "request" /\ job \in JobState
        /\ job' = [job EXCEPT !.pc = "done", !.result = "requested"]
    BY DeclarationsWait DEF RequestDaily, DInv, JobFits
  <1>2. job'.pc = "done" /\ job'.day = job.day /\ job'.known = job.known
        /\ job'.version = job.version /\ job'.result = "requested" /\ job' \in JobState
    BY <1>1 DEF JobState, DailyResult
  <1>3. Window' = Window
    BY <1>2 DEF Window
  <1>4. JobFits'
    BY <1>1, <1>2, <1>3 DEF DInv, JobFits
  <1> QED BY <1>1, <1>4 DEF DInv

LEMMA JobFailsKeeps ==
    ASSUME DInv, JobFails
    PROVE  DInv'
  <1>1. /\ UNCHANGED <<world, now, activations, declaring>> /\ ActivationsFit'
        /\ job' = [IdleJob EXCEPT !.pc = "done", !.day = PreviousUtcDay, !.result = "failed"]
    BY DeclarationsWait DEF JobFails, DInv
  <1>2. job'.pc = "done" /\ job'.known = {} /\ job'.result = "failed" /\ job' \in JobState
    BY <1>1, DayTypes DEF IdleJob, JobState, DailyResult, DInv
  <1>3. JobFits'
    BY <1>1, <1>2 DEF JobFits
  <1> QED BY <1>1, <1>3 DEF DInv

\* The job is over, or the server stops: nothing is left of what it knew.
LEMMA JobIsGone ==
    ASSUME DInv, EndJob \/ Crash
    PROVE  DInv'
  <1>1. ActivationsFit' /\ job' = IdleJob
    BY DeclarationsWait DEF EndJob, Crash, DInv
  <1>2. job'.pc = "idle" /\ job'.known = {} /\ job'.result = Null /\ job' \in JobState
    BY <1>1, IdleJobType DEF IdleJob
  <1>3. JobFits'
    BY <1>2, ConformanceAssumption DEF JobFits, DailyResult
  <1> QED BY <1>1, <1>3 DEF DInv

LEMMA NextDInv == DInv /\ [Next]_vars => DInv'
  <1> SUFFICES ASSUME DInv, [Next]_vars PROVE DInv'
    OBVIOUS
  <1>1. CASE UNCHANGED <<world, now, activations, declaring, job>>
    BY <1>1, DeclarationsWait, JobWaits DEF DInv
  <1>2. CASE UNCHANGED vars
    BY <1>1, <1>2 DEF vars
  <1>3. ASSUME NEW c \in world.calls, ImportAction(c) PROVE DInv'
    BY <1>1, <1>3 DEF ImportAction
  <1>4. ASSUME NEW row \in AllRows, IngestObservation(row) PROVE DInv'
    BY <1>1, <1>4 DEF IngestObservation
  <1>5. ASSUME NEW v \in Version, Declare(v) \/ RequestRun(v) PROVE DInv'
    BY <1>1, <1>5, DeclareKeeps DEF RequestRun
  <1>6. ASSUME NEW n \in DOMAIN runs, ExecuteRun(n) PROVE DInv'
    BY <1>1, <1>6 DEF ExecuteRun
  <1>7. CASE CronFires
    BY <1>1, <1>7 DEF CronFires
  <1> QED
    BY <1>2, <1>3, <1>4, <1>5, <1>6, <1>7, TickKeeps, StoreKeeps, BeginJobKeeps,
       ListDuringKeeps, RequestDailyKeeps, JobFailsKeeps, JobIsGone
    DEF Next

LEMMA DayInvariance == Spec => []DInv
  BY InitDInv, NextDInv, PTL DEF Spec

\* Whatever is declared while the job runs, and however often it is delivered, the
\* version it has a run requested for is the one declared for the whole day
\* (conformance-daily.job.ts).
THEOREM DaysAreCheckedAgainstTheirVersion == Spec => []DayIsCheckedAgainstItsVersion
  <1>1. DInv => DayIsCheckedAgainstItsVersion
    <2> SUFFICES ASSUME DInv, job.result = "requested"
                 PROVE  /\ \E row \in job.known : row.at <= Window.from
                        /\ \A row \in Effective(job.known) : row.version = job.version.version
      BY DEF DayIsCheckedAgainstItsVersion
    <2>1. job.version \in job.known /\ job.version.at <= Window.from
      BY DEF DInv, JobFits
    <2>2. ASSUME NEW row \in Effective(job.known)
          PROVE  row.version = job.version.version
      <3>1. row \in job.known /\ row.at <= Window.to /\ job.version.at <= row.at
        BY <2>1 DEF Effective
      <3> QED BY <3>1 DEF DInv, JobFits
    <2> QED BY <2>1, <2>2
  <1> QED BY <1>1, DayInvariance, PTL

-----------------------------------------------------------------------------
(* The order of the observation times                                        *)

IsIncreasing(s) == \A i, j \in DOMAIN s : i < j => s[i] < s[j]

\* A finite set of numbers can be put in order.
LEMMA OrderExists ==
    ASSUME NEW S \in SUBSET Int, IsFiniteSet(S)
    PROVE  \E s \in [1..Cardinality(S) -> S] : IsIncreasing(s)
  <1> DEFINE n == Cardinality(S)
             Upto(x) == {y \in S : y <= x}
             R == [x \in S |-> Cardinality(Upto(x))]
  <1>1. n \in Nat
    BY FS_CardinalityType
  <1>2. ASSUME NEW x \in S
        PROVE  IsFiniteSet(Upto(x)) /\ R[x] \in 1..n
    <2>1. Upto(x) \subseteq S /\ x \in Upto(x)
      OBVIOUS
    <2> HIDE DEF Upto
    <2>2. IsFiniteSet(Upto(x)) /\ Cardinality(Upto(x)) <= n
      BY <2>1, FS_Subset
    <2>3. Cardinality(Upto(x)) \in Nat /\ Cardinality(Upto(x)) # 0
      BY <2>1, <2>2, FS_EmptySet, FS_CardinalityType
    <2> QED BY <1>1, <2>2, <2>3
  <1>3. ASSUME NEW x \in S, NEW y \in S, x < y
        PROVE  R[x] < R[y]
    <2>1. Upto(x) \subseteq Upto(y) /\ y \in Upto(y) /\ y \notin Upto(x)
      <3>1. S \subseteq Int /\ x \in Int /\ y \in Int
        OBVIOUS
      <3>2. \A z \in Int : z <= x => z <= y
        BY <1>3, <3>1
      <3>3. y <= y /\ ~(y <= x)
        BY <1>3, <3>1
      <3> QED BY <3>1, <3>2, <3>3
    <2>2. IsFiniteSet(Upto(y)) /\ R[x] \in Nat /\ R[y] \in Nat
      BY <1>1, <1>2
    <2>3. R[x] = Cardinality(Upto(x)) /\ R[y] = Cardinality(Upto(y))
      OBVIOUS
    <2> HIDE DEF Upto, R
    <2>4. Cardinality(Upto(x)) <= Cardinality(Upto(y))
          /\ Cardinality(Upto(x)) # Cardinality(Upto(y))
      BY <2>1, <2>2, FS_Subset
    <2> QED BY <2>2, <2>3, <2>4
  <1>4. R \in [S -> 1..n]
    BY <1>2
  <1> HIDE DEF R
  <1>5. ASSUME NEW x \in S, NEW y \in S, R[x] = R[y]
        PROVE  x = y
    <2>1. ~(x < y) /\ ~(y < x)
      BY <1>3, <1>4, <1>5
    <2> QED BY <2>1
  <1>6. R \in Injection(S, 1..n)
    BY <1>4, <1>5 DEF Injection, IsInjective
  <1>7. IsFiniteSet(1..n) /\ Cardinality(1..n) = n
    BY <1>1, FS_Interval
  <1>8. R \in Surjection(S, 1..n)
    BY <1>6, <1>7, FS_Injection
  <1>9. \A i \in 1..n : \E x \in S : R[x] = i
    BY <1>8 DEF Surjection
  <1> DEFINE s == [i \in 1..n |-> CHOOSE x \in S : R[x] = i]
  <1>10. \A i \in 1..n : s[i] \in S /\ R[s[i]] = i
    BY <1>9
  <1>11. s \in [1..n -> S] /\ DOMAIN s = 1..n
    BY <1>10
  <1> HIDE DEF s
  <1>12. ASSUME NEW i \in 1..n, NEW j \in 1..n, i < j
         PROVE  s[i] < s[j]
    <2>1. s[i] \in S /\ s[j] \in S /\ R[s[i]] = i /\ R[s[j]] = j
      BY <1>10
    <2>2. s[i] # s[j] /\ s[i] \in Int /\ s[j] \in Int /\ i \in Int /\ j \in Int
      <3>1. s[i] \in Int /\ s[j] \in Int
        BY <2>1
      <3> HIDE DEF n
      <3>2. i \in Int /\ j \in Int
        BY <1>1
      <3> QED BY <1>12, <2>1, <3>1, <3>2
    <2>3. ~(s[j] < s[i])
      <3>1. SUFFICES ASSUME s[j] < s[i] PROVE FALSE
        OBVIOUS
      <3>2. R[s[j]] < R[s[i]]
        BY <1>3, <2>1, <3>1
      <3>3. j < i
        BY <2>1, <3>2
      <3> QED BY <1>12, <2>2, <3>3
    <2> QED BY <2>2, <2>3
  <1>13. IsIncreasing(s)
    BY <1>11, <1>12 DEF IsIncreasing
  <1> QED BY <1>11, <1>13

\* An increasing sequence of as many of them as there are has them all.
LEMMA OrderIsOnto ==
    ASSUME NEW S \in SUBSET Int, IsFiniteSet(S),
           NEW s \in [1..Cardinality(S) -> S], IsIncreasing(s)
    PROVE  \A x \in S : \E i \in 1..Cardinality(S) : s[i] = x
  <1> DEFINE n == Cardinality(S)
  <1>1. n \in Nat
    BY FS_CardinalityType
  <1>2. ASSUME NEW i \in 1..n, NEW j \in 1..n, s[i] = s[j]
        PROVE  i = j
    <2>1. DOMAIN s = 1..n /\ s[i] \in Int /\ s[j] \in Int /\ i \in Int /\ j \in Int
      <3>1. s[i] \in S /\ s[j] \in S /\ DOMAIN s = 1..n
        OBVIOUS
      <3> HIDE DEF n
      <3>2. i \in Int /\ j \in Int
        BY <1>1
      <3> QED BY <3>1, <3>2
    <2>2. i < j => s[i] < s[j]
      BY <2>1 DEF IsIncreasing
    <2>3. j < i => s[j] < s[i]
      BY <2>1 DEF IsIncreasing
    <2> HIDE DEF n
    <2> QED BY <1>2, <2>1, <2>2, <2>3
  <1>3. s \in Injection(1..n, S)
    BY <1>2 DEF Injection, IsInjective
  <1>4. IsFiniteSet(1..n) /\ Cardinality(1..n) = n
    BY <1>1, FS_Interval
  <1>5. s \in Surjection(1..n, S)
    BY <1>3, <1>4, FS_Injection
  <1> QED BY <1>5 DEF Surjection

\* What is shown of times in order: every period of the least length without a time
\* is in a gap, and no gap has a time inside.
LEMMA GapsAreTheSilence ==
    ASSUME NEW from \in Int, NEW to \in Int, NEW gapMin \in Nat \ {0},
           NEW n \in Nat, NEW s \in [1..n -> from..to], IsIncreasing(s),
           NEW window, window.from = from, window.to = to
    PROVE  /\ \A f \in from..(to + 1 - gapMin) :
                 (\A i \in 1..n : s[i] \notin f..(f + gapMin - 1)) =>
                    \E gap \in FindObservationGaps(s, window, gapMin) :
                       gap.from <= f /\ f + gapMin - 1 <= gap.to
           /\ \A gap \in FindObservationGaps(s, window, gapMin) :
                 /\ gap.from >= from /\ gap.to <= to /\ gap.from \in Int /\ gap.to \in Int
                 /\ \A i \in 1..n : s[i] \notin (gap.from + 1)..(gap.to - 1)
  <1> DEFINE marks == <<window.from>> \o s \o <<window.to + 1>>
  <1>1. s \in Seq(Int) /\ Len(s) = n
    BY SeqDef
  <1>2. /\ marks \in Seq(Int) /\ Len(marks) = n + 2
        /\ marks[1] = from /\ marks[n + 2] = to + 1
        /\ \A i \in 1..n : marks[i + 1] = s[i]
    <2>1. <<from>> \in Seq(Int) /\ Len(<<from>>) = 1 /\ <<to + 1>> \in Seq(Int)
          /\ Len(<<to + 1>>) = 1
      OBVIOUS
    <2> DEFINE front == <<from>> \o s
    <2>2. /\ front \in Seq(Int) /\ Len(front) = n + 1 /\ front[1] = from
          /\ \A i \in 1..n : front[i + 1] = s[i]
      BY <1>1, <2>1, ConcatProperties
    <2> HIDE DEF front
    <2>3. marks = front \o <<to + 1>>
      BY DEF front
    <2> HIDE DEF marks
    <2>4. /\ marks \in Seq(Int) /\ Len(marks) = n + 2
          /\ \A i \in 1..(n + 1) : marks[i] = front[i]
          /\ marks[n + 2] = to + 1
      BY <2>1, <2>2, <2>3, ConcatProperties
    <2> QED BY <2>2, <2>4
  <1>3. \A i \in 1..(n + 2) : marks[i] \in Int
    BY <1>2
  <1> DEFINE wide == {i \in 1..(n + 1) : marks[i + 1] - marks[i] >= gapMin}
             gaps == {[from |-> marks[i], to |-> IF i = n + 1 THEN to ELSE marks[i + 1]]
                        : i \in wide}
  <1>4. FindObservationGaps(s, window, gapMin) = gaps
    <2>1. Len(marks) - 1 = n + 1
      BY <1>2
    <2>2. FindObservationGaps(s, window, gapMin) =
            {[from |-> marks[i],
              to |-> IF i = Len(marks) - 1 THEN window.to ELSE marks[i + 1]] :
               i \in {j \in 1..(Len(marks) - 1) : marks[j + 1] - marks[j] >= gapMin}}
      BY DEF FindObservationGaps
    <2> HIDE DEF marks
    <2> QED BY <2>1, <2>2
  <1> HIDE DEF marks
  <1>5. ASSUME NEW f \in from..(to + 1 - gapMin),
               \A i \in 1..n : s[i] \notin f..(f + gapMin - 1)
        PROVE  \E gap \in gaps : gap.from <= f /\ f + gapMin - 1 <= gap.to
    <2> DEFINE I == {i \in 1..(n + 2) : marks[i] <= f}
    <2>1. I \in SUBSET Nat /\ 1 \in I /\ (\A i \in I : i <= n + 2) /\ n + 2 \in Nat
      BY <1>2
    <2>2. PICK i \in I : \A j \in I : j <= i
      BY <2>1, GreatestNatural, Zenon
    <2>3. i \in 1..(n + 1) /\ marks[i] <= f
      BY <1>2, <2>2
    <2>4. marks[i + 1] > f
      BY <1>3, <2>2, <2>3
    <2>5. marks[i + 1] >= f + gapMin
      <3>1. CASE i = n + 1
        BY <1>2, <3>1
      <3>2. CASE i # n + 1
        <4>1. i \in 1..n /\ marks[i + 1] = s[i] /\ s[i] \in Int
          BY <1>2, <2>3, <3>2
        <4> QED BY <1>5, <2>4, <4>1
      <3> QED BY <3>1, <3>2
    <2>6. i \in wide
      BY <1>3, <2>3, <2>5
    <2> DEFINE gap == [from |-> marks[i], to |-> IF i = n + 1 THEN to ELSE marks[i + 1]]
    <2>7. gap \in gaps
      BY <2>6
    <2>8. gap.from <= f /\ f + gapMin - 1 <= gap.to
      BY <1>2, <1>3, <2>3, <2>5
    <2> QED BY <2>7, <2>8
  <1>6. ASSUME NEW gap \in gaps
        PROVE  /\ gap.from >= from /\ gap.to <= to /\ gap.from \in Int /\ gap.to \in Int
               /\ \A k \in 1..n : s[k] \notin (gap.from + 1)..(gap.to - 1)
    <2>1. PICK i \in wide : gap = [from |-> marks[i],
                                   to |-> IF i = n + 1 THEN to ELSE marks[i + 1]]
      OBVIOUS
    <2>2. i \in 1..(n + 1) /\ marks[i] \in Int /\ marks[i + 1] \in Int
      BY <1>3, <2>1
    <2>3. marks[i] >= from
      <3>1. CASE i = 1
        BY <1>2, <3>1
      <3>2. CASE i # 1
        <4>1. i - 1 \in 1..n /\ marks[(i - 1) + 1] = s[i - 1]
          BY <1>2, <2>2, <3>2
        <4>2. marks[i] = s[i - 1]
          BY <2>2, <4>1
        <4> QED BY <4>1, <4>2
      <3> QED BY <3>1, <3>2
    <2>4. i # n + 1 => i \in 1..n /\ marks[i + 1] = s[i]
      BY <1>2, <2>2
    <2>5. gap.from = marks[i] /\ gap.to = IF i = n + 1 THEN to ELSE marks[i + 1]
      BY <2>1
    <2>6. gap.to \in Int /\ gap.to <= to
      BY <2>4, <2>5
    <2>7. ASSUME NEW k \in 1..n, s[k] \in (gap.from + 1)..(gap.to - 1)
          PROVE  FALSE
      <3>1. s[k] > marks[i] /\ s[k] < gap.to /\ s[k] \in Int
        BY <2>2, <2>5, <2>6, <2>7
      <3>2. k >= i
        <4>1. SUFFICES ASSUME k < i PROVE FALSE
          BY <2>2
        <4>2. i - 1 \in 1..n /\ marks[(i - 1) + 1] = s[i - 1] /\ k <= i - 1
          BY <1>2, <2>2, <4>1
        <4>3. marks[i] = s[i - 1] /\ s[i - 1] \in Int
          BY <2>2, <4>2
        <4>4. s[k] <= s[i - 1]
          BY <3>1, <4>2, <4>3 DEF IsIncreasing
        <4> QED BY <2>2, <3>1, <4>3, <4>4
      <3>3. i # n + 1
        BY <3>2
      <3>4. s[k] < s[i]
        BY <2>4, <2>5, <3>1, <3>3
      <3>5. s[i] <= s[k]
        BY <2>4, <3>2, <3>3 DEF IsIncreasing
      <3>6. s[i] \in Int
        BY <2>4, <3>3
      <3> QED BY <3>1, <3>4, <3>5, <3>6
    <2> QED BY <2>2, <2>3, <2>5, <2>6, <2>7
  <1> HIDE DEF gaps
  <1> QED BY <1>4, <1>5, <1>6

-----------------------------------------------------------------------------
(* The runs                                                                  *)

IsRun(run) ==
    run = [version |-> run.version, day |-> run.day, inputsHash |-> run.inputsHash,
           status |-> run.status, result |-> run.result, isWhole |-> run.isWhole]

\* The Actions of a finding have an Operation of its capability in its Zone.
FindingFits(f, document) ==
    \A a \in f.members :
        /\ IsOperations(a.operations)
        /\ \E i \in DOMAIN a.operations :
              /\ f.signature.capability = a.operations[i].capability
              /\ f.signature.zone = ResolveZone(a.operations[i], document.environment)

\* A run is of a day and of an accepted version, which its findings fit.
RunFits(run) ==
    /\ IsRun(run)
    /\ run.day \in Int
    /\ run.version \in Version
    /\ run.status = "completed" =>
          \A f \in run.result.findings : FindingFits(f, DocumentOf[run.version])

\* What is stored of calls and observations is of the world's.
RunsFit ==
    /\ world \in World
    /\ DOMAIN outcomes \subseteq {c.actionKey : c \in world.calls}
    /\ observed \subseteq AllRows
    /\ runs \in Seq({runs[n] : n \in DOMAIN runs})
    /\ \A n \in DOMAIN runs : RunFits(runs[n])

\* The Operation that decides is one of the Action's.
LEMMA DecidingIndexExists ==
    ASSUME NEW operations, IsOperations(operations), DOMAIN operations # {}, NEW document
    PROVE  DecidingOperationIndex(operations, document) \in DOMAIN operations
  <1> DEFINE At(i) == OperationEffect(operations[i], document)
             effects == {At(i) : i \in DOMAIN operations}
             carriers == {i \in DOMAIN operations : At(i) = ActionEffect(operations, document)}
  <1>1. \A i \in DOMAIN operations : At(i) \in Effect
    BY DEF OperationEffect, ResolveEffect, Effect
  <1>2. MostRestrictive(effects) \in effects
    <2> HIDE DEF At
    <2>1. effects \subseteq Effect /\ effects # {}
      BY <1>1
    <2> HIDE DEF effects
    <2> QED BY <2>1 DEF MostRestrictive, Effect
  <1>3. ActionEffect(operations, document) = MostRestrictive(effects)
    BY DEF ActionEffect
  <1>4. carriers \in SUBSET Nat /\ carriers # {}
    <2> HIDE DEF At
    <2> QED BY <1>2, <1>3 DEF IsOperations
  <1>5. DecidingOperationIndex(operations, document) =
          CHOOSE i \in carriers : \A j \in carriers : i <= j
    BY DEF DecidingOperationIndex
  <1> HIDE DEF carriers
  <1>6. DecidingOperationIndex(operations, document) \in carriers
    BY <1>4, <1>5, LeastNatural
  <1> QED BY <1>6 DEF carriers

\* A finding is of Operations that its Actions have.
LEMMA JudgedSignature ==
    ASSUME NEW a, IsOperations(a.operations), NEW document, NEW paired,
           Judge(a, document, paired).signature # Null
    PROVE  LET signature == Judge(a, document, paired).signature IN
           \E i \in DOMAIN a.operations :
              /\ signature.capability = a.operations[i].capability
              /\ signature.zone = ResolveZone(a.operations[i], document.environment)
  <1> DEFINE own == SelectSeq(paired, LAMBDA o : o.actionKey = a.actionKey)
             decision == EvaluateAction(a.operations, document)
             kind == FindingKindOf(a.outcome, DeriveDisposition(a.outcome, own), decision.effect)
             i == DecidingOperationIndex(a.operations, document)
  <1>1. /\ decision # Null
        /\ Judge(a, document, paired).signature = SignatureOf(kind, a.operations, decision)
    <2> HIDE DEF own, decision, kind
    <2>1. Judge(a, document, paired).signature =
            IF decision = Null THEN Null
            ELSE IF kind = Null THEN Null ELSE SignatureOf(kind, a.operations, decision)
      BY DEF Judge, own, decision, kind
    <2> QED BY <2>1
  <1>2. DOMAIN a.operations # {}
    BY <1>1 DEF EvaluateAction
  <1>3. i \in DOMAIN a.operations
    BY <1>2, DecidingIndexExists
  <1>4. /\ decision.decidingOperationIndex = i
        /\ decision.operations[i].zone = ResolveZone(a.operations[i], document.environment)
    BY <1>2, <1>3 DEF EvaluateAction, EvaluateOperation
  <1> HIDE DEF decision, kind, i
  <1>5. /\ SignatureOf(kind, a.operations, decision).capability = a.operations[i].capability
        /\ SignatureOf(kind, a.operations, decision).zone =
             ResolveZone(a.operations[i], document.environment)
    BY <1>4 DEF SignatureOf
  <1> QED BY <1>1, <1>3, <1>5

\* What a run finds of its Actions fits them.
LEMMA ComputedFindingsFit ==
    ASSUME NEW document, NEW actions, NEW rows, NEW window,
           \A a \in actions : IsOperations(a.operations)
    PROVE  \A f \in ComputeConformance(document, actions, rows, window).findings :
               FindingFits(f, document)
  <1> DEFINE paired == PairPermissionRequests(rows, window).observations
             judged == [a \in actions |-> Judge(a, document, paired)]
             found == {a \in actions : judged[a].signature # Null}
  <1>1. ComputeConformance(document, actions, rows, window).findings =
          {[signature |-> s, members |-> {a \in found : judged[a].signature = s}] :
              s \in {judged[a].signature : a \in found}}
    BY DEF ComputeConformance
  <1> HIDE DEF paired
  <1>2. ASSUME NEW s, NEW a \in {b \in found : judged[b].signature = s}
        PROVE  \E i \in DOMAIN a.operations :
                  /\ s.capability = a.operations[i].capability
                  /\ s.zone = ResolveZone(a.operations[i], document.environment)
    <2>1. a \in actions /\ Judge(a, document, paired).signature = s /\ s # Null
      BY <1>2
    <2> QED BY <2>1, JudgedSignature
  <1> HIDE DEF judged
  <1> QED BY <1>1, <1>2 DEF FindingFits

LEMMA RequestFits ==
    ASSUME RunsFit, NEW v \in Version, NEW day \in Int, Request(v, day)
    PROVE  /\ runs' \in Seq({runs'[n] : n \in DOMAIN runs'})
           /\ \A n \in DOMAIN runs' : RunFits(runs'[n])
  <1>1. CASE UNCHANGED runs
    BY <1>1 DEF RunsFit
  <1> DEFINE hash == InputsHash(v, day)
             run == [version |-> v, day |-> day, inputsHash |-> hash,
                     status |-> "queued", result |-> Null, isWhole |-> FALSE]
  <1>2. CASE runs' = Append(runs, run)
    <2> DEFINE old == {runs[n] : n \in DOMAIN runs}
               len == Len(runs)
    <2>1. runs \in Seq(old) /\ old \subseteq old \cup {run}
      BY DEF RunsFit
    <2>2. runs \in Seq(old \cup {run})
      BY <2>1, SeqMonotonic, Zenon
    <2>3. len \in Nat /\ DOMAIN runs = 1..len
      BY <2>2
    <2>4. RunFits(run)
      BY DEF RunFits, IsRun
    <2> HIDE DEF run, old, hash, len
    <2>5. /\ runs' \in Seq(old \cup {run}) /\ DOMAIN runs' = 1..(len + 1)
          /\ \A n \in 1..len : runs'[n] = runs[n]
          /\ runs'[len + 1] = run
      BY <1>2, <2>2, <2>3 DEF len
    <2>6. \A n \in DOMAIN runs' : RunFits(runs'[n])
      <3> TAKE n \in DOMAIN runs'
      <3>1. CASE n \in 1..len
        BY <2>3, <2>5, <3>1 DEF RunsFit
      <3>2. CASE n = len + 1
        BY <2>4, <2>5, <3>2
      <3> QED BY <2>3, <2>5, <3>1, <3>2
    <2>7. runs' \in Seq({runs'[n] : n \in DOMAIN runs'})
      <3>1. runs' \in [1..(len + 1) -> {runs'[n] : n \in DOMAIN runs'}]
        BY <2>5
      <3> QED BY <2>3, <3>1, SeqDef
    <2> QED BY <2>6, <2>7
  <1> QED BY <1>1, <1>2 DEF Request

\* What a run reads are calls of the world, with their Operations.
LEMMA ReadActionsTypes ==
    ASSUME RunsFit, NEW window
    PROVE  \A a \in ReadActions(window) : IsOperations(a.operations)
  <1>1. ASSUME NEW k \in DOMAIN outcomes
        PROVE  IsOperations(ActionOf(k).operations)
    <2>1. CallOf(k) \in world.calls
      BY DEF CallOf, RunsFit
    <2>2. IsOperations(CallOf(k).operations)
      BY <2>1, ConformanceAssumption DEF RunsFit
    <2> QED BY <2>2 DEF ActionOf
  <1> QED BY <1>1 DEF ReadActions

LEMMA ExecuteFits ==
    ASSUME RunsFit, NEW n \in DOMAIN runs, ExecuteRun(n)
    PROVE  /\ runs' \in Seq({runs'[k] : k \in DOMAIN runs'})
           /\ \A k \in DOMAIN runs' : RunFits(runs'[k])
  <1>1. PICK new :
          /\ runs' = [runs EXCEPT ![n] = new]
          /\ RunFits(new)
    <2> DEFINE r == runs[n]
    <2>1. IsRun(r) /\ r.day \in Int /\ r.version \in Version
      BY DEF RunsFit, RunFits
    <2>2. CASE runs' = [runs EXCEPT ![n].status = "failed"]
      <3> DEFINE new == [version |-> r.version, day |-> r.day, inputsHash |-> r.inputsHash,
                         status |-> "failed", result |-> r.result, isWhole |-> r.isWhole]
      <3>1. [r EXCEPT !.status = "failed"] = new
        BY <2>1 DEF IsRun
      <3>2. runs' = [runs EXCEPT ![n] = new]
        BY <2>2, <3>1
      <3>3. RunFits(new)
        BY <2>1 DEF RunFits, IsRun
      <3> QED BY <3>2, <3>3
    <2>3. CASE \E rows \in SetToSeqs(ReadObservations(WindowOf(r.day))) :
                 runs' = [runs EXCEPT
                            ![n].status = "completed",
                            ![n].isWhole = EverythingIsKnown,
                            ![n].result = ComputeConformance(DocumentOf[r.version],
                              ReadActions(WindowOf(r.day)), rows, WindowOf(r.day))]
      <3>1. PICK rows \in SetToSeqs(ReadObservations(WindowOf(r.day))) :
                 runs' = [runs EXCEPT
                            ![n].status = "completed",
                            ![n].isWhole = EverythingIsKnown,
                            ![n].result = ComputeConformance(DocumentOf[r.version],
                              ReadActions(WindowOf(r.day)), rows, WindowOf(r.day))]
        BY <2>3
      <3> DEFINE whole == EverythingIsKnown
                 result == ComputeConformance(DocumentOf[r.version],
                             ReadActions(WindowOf(r.day)), rows, WindowOf(r.day))
                 first == [version |-> r.version, day |-> r.day, inputsHash |-> r.inputsHash,
                           status |-> "completed", result |-> r.result, isWhole |-> r.isWhole]
                 second == [version |-> r.version, day |-> r.day, inputsHash |-> r.inputsHash,
                            status |-> "completed", result |-> r.result, isWhole |-> whole]
                 new == [version |-> r.version, day |-> r.day, inputsHash |-> r.inputsHash,
                         status |-> "completed", result |-> result, isWhole |-> whole]
      <3> HIDE DEF whole, result
      <3>2. runs' = [runs EXCEPT ![n].status = "completed", ![n].isWhole = whole,
                                 ![n].result = result]
        BY <3>1 DEF whole, result
      <3>3. [r EXCEPT !.status = "completed"] = first
        BY <2>1 DEF IsRun
      <3>4. [first EXCEPT !.isWhole = whole] = second
        OBVIOUS
      <3>5. [second EXCEPT !.result = result] = new
        OBVIOUS
      <3>6. [[[r EXCEPT !.status = "completed"] EXCEPT !.isWhole = whole]
                EXCEPT !.result = result] = new
        <4> HIDE DEF first, second, new, r
        <4> QED BY <3>3, <3>4, <3>5
      <3>7. runs' = [runs EXCEPT ![n] = new]
        BY <3>2, <3>6
      <3>8. \A f \in result.findings : FindingFits(f, DocumentOf[r.version])
        BY ReadActionsTypes, ComputedFindingsFit DEF result
      <3>9. RunFits(new)
        BY <2>1, <3>8 DEF RunFits, IsRun
      <3> HIDE DEF new
      <3> QED BY <3>7, <3>9
    <2> QED BY <2>2, <2>3 DEF ExecuteRun
  <1>2. /\ DOMAIN runs' = DOMAIN runs /\ runs'[n] = new
        /\ \A k \in DOMAIN runs : k # n => runs'[k] = runs[k]
    BY <1>1
  <1>3. Len(runs) \in Nat /\ DOMAIN runs = 1..Len(runs)
    BY DEF RunsFit
  <1>4. runs' \in [1..Len(runs) -> {runs'[k] : k \in DOMAIN runs'}]
    BY <1>1, <1>2, <1>3
  <1>5. runs' \in Seq({runs'[k] : k \in DOMAIN runs'})
    BY <1>3, <1>4, SeqDef
  <1>6. ASSUME NEW k \in DOMAIN runs' PROVE RunFits(runs'[k])
    BY <1>1, <1>2 DEF RunsFit
  <1> QED BY <1>5, <1>6

LEMMA InitRunsFit == Init => RunsFit
  <1> SUFFICES ASSUME Init PROVE RunsFit
    OBVIOUS
  <1>1. runs = <<>> /\ DOMAIN runs = {}
    BY DEF Init
  <1>2. runs \in Seq({runs[n] : n \in DOMAIN runs})
    BY <1>1, EmptySeq
  <1> QED BY <1>1, <1>2 DEF Init, RunsFit

LEMMA NextRunsFit == DInv /\ RunsFit /\ [Next]_vars => RunsFit'
  <1> SUFFICES ASSUME DInv, RunsFit, [Next]_vars PROVE RunsFit'
    OBVIOUS
  <1>1. world' = world /\ AllRows' = AllRows
    <2>1. world' = world
      BY DEF Next, vars, Tick, ImportAction, IngestObservation, Declare, RequestRun,
             StoreActivation, ExecuteRun, CronFires, BeginJob, ListDuring, RequestDaily,
             JobFails, EndJob, Crash
    <2> QED BY <2>1 DEF AllRows
  <1>2. CASE UNCHANGED <<outcomes, observed, runs>>
    BY <1>1, <1>2 DEF RunsFit
  <1>3. ASSUME NEW c \in world.calls, ImportAction(c) PROVE RunsFit'
    <2>1. DOMAIN outcomes' = DOMAIN outcomes \cup {c.actionKey} /\ UNCHANGED <<observed, runs>>
      BY <1>3 DEF ImportAction
    <2> QED BY <1>1, <2>1 DEF RunsFit
  <1>4. ASSUME NEW row \in AllRows, IngestObservation(row) PROVE RunsFit'
    BY <1>1, <1>4 DEF IngestObservation, RunsFit
  <1>5. ASSUME NEW v \in Version, RequestRun(v) PROVE RunsFit'
    <2>1. PICK c \in world.calls : Request(v, c.at \div DayLength)
      BY <1>5 DEF RequestRun
    <2>2. c.at \in Nat /\ DayLength \in Nat \ {0}
      BY ConformanceAssumption DEF RunsFit
    <2>3. c.at \div DayLength \in Int
      BY <2>2
    <2>4. observed' = observed /\ outcomes' = outcomes
      BY <1>5 DEF RequestRun, evidence
    <2> QED BY <1>1, <2>1, <2>3, <2>4, RequestFits DEF RunsFit
  <1>6. ASSUME NEW n \in DOMAIN runs, ExecuteRun(n) PROVE RunsFit'
    <2>1. observed' = observed /\ outcomes' = outcomes
      BY <1>6 DEF ExecuteRun, evidence
    <2> QED BY <1>1, <1>6, <2>1, ExecuteFits DEF RunsFit
  <1>7. CASE RequestDaily
    <2>1. /\ job.day \in Int /\ job.version.version \in Version
          /\ Request(job.version.version, job.day)
          /\ observed' = observed /\ outcomes' = outcomes
      BY <1>7 DEF RequestDaily, evidence, DInv, JobFits, JobState, Activation
    <2> QED BY <1>1, <2>1, RequestFits DEF RunsFit
  <1> QED
    BY <1>2, <1>3, <1>4, <1>5, <1>6, <1>7
    DEF Next, vars, evidence, Tick, Declare, StoreActivation, CronFires, BeginJob,
        ListDuring, JobFails, EndJob, Crash

LEMMA RunsInvariance == Spec => [](DInv /\ RunsFit)
  BY InitDInv, NextDInv, InitRunsFit, NextRunsFit, PTL DEF Spec

\* An observation has a time.
LEMMA ObservedTimes == ASSUME RunsFit PROVE \A row \in observed : row.at \in Int
  <1>1. ASSUME NEW c \in world.calls, NEW row \in RowsOf(c) PROVE row.at \in Int
    <2>1. c.at \in Nat /\ c.asksAt \in Nat
      BY ConformanceAssumption DEF RunsFit
    <2>2. \A event : Row(c, event).at \in {c.at, c.asksAt}
      BY DEF Row
    <2> QED BY <2>1, <2>2 DEF RowsOf
  <1> QED BY <1>1 DEF RunsFit, AllRows

\* What is listed for a window are the times of its observations, in order.
LEMMA ListedTimes ==
    ASSUME RunsFit, NEW window, window.from \in Int, window.to \in Int
    PROVE  LET s == ListObservationTimes(window) IN
           \E n \in Nat :
              /\ s \in [1..n -> window.from..window.to] /\ IsIncreasing(s)
              /\ \A i \in 1..n : \E row \in observed : s[i] = row.at
              /\ \A row \in observed : row.at \in window.from..window.to =>
                    \E i \in 1..n : s[i] = row.at
  <1> DEFINE times == {row.at : row \in {r \in observed : IsInWindow(r.at, window)}}
             n == Cardinality(times)
             s == ListObservationTimes(window)
  <1>1. times \subseteq window.from..window.to
    BY ObservedTimes DEF IsInWindow
  <1>2. times \in SUBSET Int /\ IsFiniteSet(times)
    <2>1. IsFiniteSet(window.from..window.to) /\ window.from..window.to \subseteq Int
      BY FS_Interval
    <2> HIDE DEF times
    <2> QED BY <1>1, <2>1, FS_Subset
  <1>3. n \in Nat
    BY <1>2, FS_CardinalityType
  <1>4. \A x \in times : \E row \in observed : x = row.at
    OBVIOUS
  <1>5. \A row \in observed : row.at \in window.from..window.to => row.at \in times
    BY ObservedTimes DEF IsInWindow
  <1>6. s = CHOOSE q \in [1..n -> times] : \A i, j \in DOMAIN q : i < j => q[i] < q[j]
    BY DEF ListObservationTimes
  <1> HIDE DEF times, n, s
  <1>7. \E q \in [1..n -> times] : \A i, j \in DOMAIN q : i < j => q[i] < q[j]
    BY <1>2, OrderExists DEF n, IsIncreasing
  <1>8. s \in [1..n -> times] /\ IsIncreasing(s)
    BY <1>6, <1>7 DEF IsIncreasing
  <1>9. \A x \in times : \E i \in 1..n : s[i] = x
    BY <1>2, <1>8, OrderIsOnto DEF n
  <1>10. s \in [1..n -> window.from..window.to] /\ \A i \in 1..n : s[i] \in times
    BY <1>1, <1>8
  <1> QED BY <1>3, <1>4, <1>5, <1>8, <1>9, <1>10 DEF s

\* Whatever is observed, and however late it comes, a silence of a day's length is
\* shown and no gap covers an observation (findObservationGaps).
THEOREM SilencesAreShown == Spec => []NoSilenceIsMissed
  <1>1. DInv /\ RunsFit => NoSilenceIsMissed
    <2> SUFFICES ASSUME RunsFit, ActivationsFit PROVE NoSilenceIsMissed
      BY DEF DInv
    <2>1. ASSUME NEW r \in DOMAIN runs
          PROVE  LET window == [WindowOf(runs[r].day) EXCEPT !.to = @ + DayLength]
                     gaps == FindObservationGaps(ListObservationTimes(window), window, DayLength)
                 IN /\ \A from \in window.from..(window.to + 1 - DayLength) :
                          (\A row \in observed : row.at \notin from..(from + DayLength - 1)) =>
                             \E gap \in gaps : gap.from <= from /\ from + DayLength - 1 <= gap.to
                    /\ \A gap \in gaps, row \in observed :
                          row.at \notin (gap.from + 1)..(gap.to - 1)
      <3> DEFINE window == [WindowOf(runs[r].day) EXCEPT !.to = @ + DayLength]
                 s == ListObservationTimes(window)
                 gaps == FindObservationGaps(s, window, DayLength)
      <3>1. WindowOf(runs[r].day).from \in Int /\ WindowOf(runs[r].day).to \in Int
        BY DayTypes DEF RunsFit, RunFits
      <3>2. DayLength \in Nat \ {0}
        BY ConformanceAssumption
      <3>3. window.from \in Int /\ window.to \in Int
        BY <3>1, <3>2 DEF WindowOf
      <3> HIDE DEF window
      <3>4. PICK n \in Nat :
              /\ s \in [1..n -> window.from..window.to] /\ IsIncreasing(s)
              /\ \A i \in 1..n : \E row \in observed : s[i] = row.at
              /\ \A row \in observed : row.at \in window.from..window.to =>
                    \E i \in 1..n : s[i] = row.at
        BY <3>3, ListedTimes
      <3> HIDE DEF s
      <3>5. /\ \A f \in window.from..(window.to + 1 - DayLength) :
                 (\A i \in 1..n : s[i] \notin f..(f + DayLength - 1)) =>
                    \E gap \in gaps : gap.from <= f /\ f + DayLength - 1 <= gap.to
            /\ \A gap \in gaps :
                 /\ gap.from >= window.from /\ gap.to <= window.to
                 /\ gap.from \in Int /\ gap.to \in Int
                 /\ \A i \in 1..n : s[i] \notin (gap.from + 1)..(gap.to - 1)
        BY <3>2, <3>3, <3>4, GapsAreTheSilence
      <3> HIDE DEF gaps
      <3>6. ASSUME NEW from \in window.from..(window.to + 1 - DayLength),
                   \A row \in observed : row.at \notin from..(from + DayLength - 1)
            PROVE  \E gap \in gaps : gap.from <= from /\ from + DayLength - 1 <= gap.to
        BY <3>4, <3>5, <3>6
      <3>7. ASSUME NEW gap \in gaps, NEW row \in observed,
                   row.at \in (gap.from + 1)..(gap.to - 1)
            PROVE  FALSE
        <4>1. row.at \in window.from..window.to
          BY <3>3, <3>5, <3>7
        <4>2. PICK i \in 1..n : s[i] = row.at
          BY <3>4, <4>1
        <4> QED BY <3>5, <3>7, <4>2
      <3> QED BY <3>6, <3>7 DEF window, s, gaps
    <2> QED BY <2>1 DEF NoSilenceIsMissed
  <1> QED BY <1>1, RunsInvariance, PTL
-----------------------------------------------------------------------------
(* The Rule drafted from a finding                                          *)

\* The document a draft from a finding ends with.
WithRule(document, rule) == [document EXCEPT !.rules = @ \cup {rule}]

\* One Effect is at most as restrictive as another, or at least.
MovesTo(effect, old, new) ==
    IF effect = "allow" THEN EffectRank[new] <= EffectRank[old]
    ELSE EffectRank[old] <= EffectRank[new]

\* A Rule that is added can only move an Operation towards its Effect.
LEMMA RuleMovesOperation ==
    ASSUME NEW document \in PolicyDocument, NEW rule, rule.effect \in Effect, NEW op
    PROVE  MovesTo(rule.effect, OperationEffect(op, document),
                   OperationEffect(op, WithRule(document, rule)))
  <1> DEFINE before == Matched(op, document)
             after == Matched(op, WithRule(document, rule))
  <1>1. /\ WithRule(document, rule).environment = document.environment
        /\ WithRule(document, rule).rules = document.rules \cup {rule}
    BY DEF WithRule, PolicyDocument
  <1>2. after = before \/ after = before \cup {rule}
    BY <1>1 DEF Matched
  <1>3. \A r \in before : r.effect \in Effect
    BY DEF Matched, PolicyDocument, PolicyRule
  <1> HIDE DEF before, after
  <1>4. EffectsOf(after) = EffectsOf(before) \/ EffectsOf(after) = EffectsOf(before) \cup {rule.effect}
    BY <1>2 DEF EffectsOf
  <1>5. MovesTo(rule.effect, ResolveEffect(before), ResolveEffect(after))
    BY <1>4 DEF ResolveEffect, MovesTo, EffectRank, Effect
  <1> QED BY <1>5 DEF OperationEffect, before, after

LEMMA RankOrders == \A e \in Effect : EffectRank[e] \in 0..2
  BY DEF Effect, EffectRank

\* The Effect of an Action is that of an Operation, and none is more restrictive.
LEMMA ActionEffectIsWorst ==
    ASSUME NEW operations, NEW document, DOMAIN operations # {}
    PROVE  /\ ActionEffect(operations, document) \in Effect
           /\ \E i \in DOMAIN operations :
                 OperationEffect(operations[i], document) = ActionEffect(operations, document)
           /\ \A i \in DOMAIN operations :
                 /\ OperationEffect(operations[i], document) \in Effect
                 /\ EffectRank[OperationEffect(operations[i], document)]
                      <= EffectRank[ActionEffect(operations, document)]
  <1> DEFINE At(i) == OperationEffect(operations[i], document)
             effects == {At(i) : i \in DOMAIN operations}
  <1>1. \A i \in DOMAIN operations : At(i) \in Effect
    BY DEF OperationEffect, ResolveEffect, Effect
  <1>2. ActionEffect(operations, document) = MostRestrictive(effects)
    BY DEF ActionEffect
  <1> HIDE DEF At
  <1>3. effects \subseteq Effect /\ effects # {}
    BY <1>1
  <1>4. /\ MostRestrictive(effects) \in effects
        /\ \A e \in effects : EffectRank[e] <= EffectRank[MostRestrictive(effects)]
    BY <1>3 DEF MostRestrictive, Effect, EffectRank
  <1>5. \E i \in DOMAIN operations : At(i) = MostRestrictive(effects)
    BY <1>4
  <1>6. \A i \in DOMAIN operations :
           At(i) \in Effect /\ EffectRank[At(i)] <= EffectRank[MostRestrictive(effects)]
    BY <1>1, <1>4
  <1> QED BY <1>2, <1>3, <1>4, <1>5, <1>6 DEF At

\* Nor can it move an Action another way.
LEMMA RuleMovesAction ==
    ASSUME NEW document \in PolicyDocument, NEW rule, rule.effect \in Effect,
           NEW operations, DOMAIN operations # {}
    PROVE  MovesTo(rule.effect, ActionEffect(operations, document),
                   ActionEffect(operations, WithRule(document, rule)))
  <1> DEFINE edited == WithRule(document, rule)
             Old(i) == OperationEffect(operations[i], document)
             New(i) == OperationEffect(operations[i], edited)
             old == ActionEffect(operations, document)
             new == ActionEffect(operations, edited)
  <1>1. \A i \in DOMAIN operations : MovesTo(rule.effect, Old(i), New(i))
    BY RuleMovesOperation
  <1>2. /\ old \in Effect /\ new \in Effect
        /\ \E i \in DOMAIN operations : Old(i) = old
        /\ \E i \in DOMAIN operations : New(i) = new
        /\ \A i \in DOMAIN operations :
             /\ Old(i) \in Effect /\ EffectRank[Old(i)] <= EffectRank[old]
             /\ New(i) \in Effect /\ EffectRank[New(i)] <= EffectRank[new]
    BY ActionEffectIsWorst
  <1> HIDE DEF Old, New, old, new
  <1>3. PICK i \in DOMAIN operations : Old(i) = old
    BY <1>2
  <1>4. PICK j \in DOMAIN operations : New(j) = new
    BY <1>2
  <1>5. /\ EffectRank[old] \in Int /\ EffectRank[new] \in Int
        /\ EffectRank[New(i)] \in Int /\ EffectRank[Old(j)] \in Int
    BY <1>2, <1>3, <1>4, RankOrders
  <1>6. MovesTo(rule.effect, old, new)
    BY <1>1, <1>2, <1>3, <1>4, <1>5 DEF MovesTo
  <1> QED BY <1>6 DEF old, new, edited

\* The Rule drafted from a finding matches the Operations the finding is of.
LEMMA DraftMatches ==
    ASSUME NEW document \in PolicyDocument, NEW signature, NEW effect, NEW id,
           NEW op \in Operation, signature.capability = op.capability,
           signature.zone = ResolveZone(op, document.environment)
    PROVE  LET rule == RuleDraftFromFinding(signature, effect, id)
           IN rule \in Matched(op, WithRule(document, rule))
  <1> DEFINE rule == RuleDraftFromFinding(signature, effect, id)
             zone == ResolveZone(op, document.environment)
  <1>1. /\ WithRule(document, rule).environment = document.environment
        /\ rule \in WithRule(document, rule).rules
    BY DEF WithRule, PolicyDocument
  <1>2. RuleMatches(rule, op, zone)
    BY DEF RuleMatches, RuleDraftFromFinding, ReversibilityFor, Reversibility, Operation
  <1> HIDE DEF rule
  <1> QED BY <1>1, <1>2 DEF Matched, rule

\* The Rule drafted from a finding reaches every Action of it, and moves no decision
\* against the direction of its Effect, whatever the run has found
\* (rule-draft-from-finding.ts).
THEOREM DraftsOnlyMoveOneWay == Spec => []DraftsMoveOneWay
  <1>1. RunsFit => DraftsMoveOneWay
    <2> SUFFICES ASSUME RunsFit,
                        NEW n \in DOMAIN runs, runs[n].status = "completed",
                        NEW f \in runs[n].result.findings, NEW effect \in Effect
                 PROVE  LET document == DocumentOf[runs[n].version]
                            id == CHOOSE id \in 1..(Cardinality(document.rules) + 1) :
                                     \A rule \in document.rules : rule.ruleId # id
                            rule == RuleDraftFromFinding(f.signature, effect, id)
                            edited == [document EXCEPT !.rules = @ \cup {rule}]
                        IN /\ \A a \in f.members :
                                 \E i \in DOMAIN a.operations :
                                     rule \in Matched(a.operations[i], edited)
                           /\ \A c \in world.calls : DOMAIN c.operations # {} =>
                                 LET old == ActionEffect(c.operations, document)
                                     new == ActionEffect(c.operations, edited)
                                 IN IF effect = "allow" THEN ~IsWider(new, old)
                                    ELSE ~IsWider(old, new)
      BY DEF DraftsMoveOneWay
    <2> DEFINE document == DocumentOf[runs[n].version]
               id == CHOOSE id \in 1..(Cardinality(document.rules) + 1) :
                        \A rule \in document.rules : rule.ruleId # id
               rule == RuleDraftFromFinding(f.signature, effect, id)
               edited == [document EXCEPT !.rules = @ \cup {rule}]
    <2>1. document \in PolicyDocument /\ FindingFits(f, document)
      BY ConformanceAssumption DEF RunsFit, RunFits
    <2>2. edited = WithRule(document, rule)
      BY DEF WithRule
    <2>3. rule.effect = effect
      BY DEF RuleDraftFromFinding
    <2> HIDE DEF document, id
    <2>4. ASSUME NEW a \in f.members
          PROVE  \E i \in DOMAIN a.operations : rule \in Matched(a.operations[i], edited)
      <3>1. PICK i \in DOMAIN a.operations :
                  /\ a.operations[i] \in Operation
                  /\ f.signature.capability = a.operations[i].capability
                  /\ f.signature.zone = ResolveZone(a.operations[i], document.environment)
        BY <2>1 DEF FindingFits, IsOperations
      <3>2. rule \in Matched(a.operations[i], WithRule(document, rule))
        BY <2>1, <3>1, DraftMatches
      <3> QED BY <2>2, <3>2
    <2> HIDE DEF rule
    <2>5. ASSUME NEW c \in world.calls, DOMAIN c.operations # {}
          PROVE  LET old == ActionEffect(c.operations, document)
                     new == ActionEffect(c.operations, edited)
                 IN IF effect = "allow" THEN ~IsWider(new, old) ELSE ~IsWider(old, new)
      <3> DEFINE old == ActionEffect(c.operations, document)
                 new == ActionEffect(c.operations, edited)
      <3>1. MovesTo(effect, old, new)
        BY <2>1, <2>2, <2>3, <2>5, RuleMovesAction
      <3>2. EffectRank[old] \in Int /\ EffectRank[new] \in Int
        BY <2>5, ActionEffectIsWorst, RankOrders
      <3> HIDE DEF old, new
      <3> QED BY <3>1, <3>2 DEF MovesTo, IsWider, old, new
    <2> QED BY <2>4, <2>5 DEF document, id, rule, edited
  <1> QED BY <1>1, RunsInvariance, PTL

-----------------------------------------------------------------------------
(* Places in a sequence                                                     *)

LEMMA MinIsLeast ==
    ASSUME NEW S \in SUBSET Nat, S # {}
    PROVE  Min(S) \in S /\ \A n \in S : Min(S) <= n
  <1>1. \E m \in S : \A n \in S : m <= n
    BY LeastNatural, Zenon
  <1> QED BY <1>1, Zenon DEF Min

LEMMA MaxIsGreatest ==
    ASSUME NEW S \in SUBSET Nat, S # {}, NEW bound \in Nat, \A n \in S : n <= bound
    PROVE  Max(S) \in S /\ \A n \in S : n <= Max(S)
  <1>1. \E m \in S : \A n \in S : m >= n
    <2>1. PICK m \in S : \A n \in S : n <= m
      BY GreatestNatural, Zenon
    <2> QED BY <2>1
  <1>2. Max(S) \in S /\ \A n \in S : Max(S) >= n
    BY <1>1, Zenon DEF Max
  <1> QED BY <1>2

\* Where an element of a sequence stands.
LEMMA PlaceOf ==
    ASSUME NEW T, NEW seq \in Seq(T), NEW x
    PROVE  /\ Place(seq, x) \in 0 .. Len(seq)
           /\ x \in ToSet(seq) => Place(seq, x) \in 1 .. Len(seq) /\ seq[Place(seq, x)] = x
           /\ x \notin ToSet(seq) => Place(seq, x) = 0
  <1> DEFINE at == {i \in 1 .. Len(seq) : seq[i] = x}
  <1>1. Place(seq, x) = IF at # {} THEN Min(at) ELSE 0
    BY DEF Place, SelectInSeq
  <1>2. Len(seq) \in Nat /\ DOMAIN seq = 1 .. Len(seq) /\ at \in SUBSET Nat
    OBVIOUS
  <1>3. x \in ToSet(seq) <=> at # {}
    BY <1>2 DEF ToSet
  <1>4. at # {} => Min(at) \in at
    BY <1>2, MinIsLeast, Zenon
  <1> QED BY <1>1, <1>2, <1>3, <1>4

\* No element stands twice in the sequence.
IsOnce(seq) == \A i, j \in 1 .. Len(seq) : seq[i] = seq[j] => i = j

LEMMA PlaceIs ==
    ASSUME NEW T, NEW seq \in Seq(T), IsOnce(seq), NEW i \in 1 .. Len(seq)
    PROVE  Place(seq, seq[i]) = i /\ seq[i] \in ToSet(seq)
  <1>1. seq[i] \in ToSet(seq)
    BY DEF ToSet
  <1>2. Place(seq, seq[i]) \in 1 .. Len(seq) /\ seq[Place(seq, seq[i])] = seq[i]
    BY <1>1, PlaceOf, Zenon
  <1> QED BY <1>1, <1>2 DEF IsOnce

LEMMA OnePlaceEach ==
    ASSUME NEW T, NEW seq \in Seq(T), NEW x \in ToSet(seq), NEW y \in ToSet(seq),
           Place(seq, x) = Place(seq, y)
    PROVE  x = y
  <1>1. seq[Place(seq, x)] = x
    BY PlaceOf, Zenon
  <1>2. seq[Place(seq, y)] = y
    BY PlaceOf, Zenon
  <1> QED BY <1>1, <1>2

\* What is appended stands behind, and nothing else moves.
LEMMA PlaceAppended ==
    ASSUME NEW T, NEW seq \in Seq(T), IsOnce(seq), NEW e \in T, e \notin ToSet(seq)
    PROVE  /\ Append(seq, e) \in Seq(T) /\ IsOnce(Append(seq, e))
           /\ ToSet(Append(seq, e)) = ToSet(seq) \cup {e}
           /\ \A x \in ToSet(seq) : Place(Append(seq, e), x) = Place(seq, x)
           /\ Place(Append(seq, e), e) = Len(seq) + 1
  <1> DEFINE longer == Append(seq, e)
  <1>1. /\ longer \in Seq(T) /\ Len(longer) = Len(seq) + 1 /\ Len(seq) \in Nat
        /\ \A i \in 1 .. Len(seq) : longer[i] = seq[i]
        /\ longer[Len(seq) + 1] = e
    OBVIOUS
  <1>2. \A i \in 1 .. Len(seq) : seq[i] # e
    BY DEF ToSet
  <1> HIDE DEF longer
  <1>3. IsOnce(longer)
    BY <1>1, <1>2 DEF IsOnce
  <1>4. ToSet(longer) = ToSet(seq) \cup {e}
    <2>1. DOMAIN longer = 1 .. Len(seq) + 1 /\ DOMAIN seq = 1 .. Len(seq)
      BY <1>1
    <2> QED BY <1>1, <2>1 DEF ToSet
  <1>5. ASSUME NEW x \in ToSet(seq) PROVE Place(longer, x) = Place(seq, x)
    <2>1. Place(seq, x) \in 1 .. Len(seq) /\ seq[Place(seq, x)] = x
      BY PlaceOf, Zenon
    <2>2. Place(seq, x) \in 1 .. Len(longer) /\ longer[Place(seq, x)] = x
      BY <1>1, <2>1
    <2> QED BY <1>1, <1>3, <2>2, PlaceIs, Zenon
  <1>6. Place(longer, e) = Len(seq) + 1
    <2>1. Len(seq) + 1 \in 1 .. Len(longer)
      BY <1>1
    <2> QED BY <1>1, <1>3, <2>1, PlaceIs, Zenon
  <1> QED BY <1>1, <1>3, <1>4, <1>5, <1>6 DEF longer

\* A page has the first of the places, and what it leaves stands behind.
LEMMA FirstPlaces ==
    ASSUME NEW n \in Nat, NEW places \in SUBSET (1 .. n),
           NEW first, first = {i \in places : Cardinality({j \in places : j < i}) < Limit}
    PROVE  /\ \A i \in first, j \in places : j \notin first => i < j
           /\ places # {} => first # {}
  <1>0. \A p \in places : p \in Nat
    OBVIOUS
  <1>1. ASSUME NEW i \in first, NEW j \in places, j \notin first PROVE i < j
    <2> DEFINE below(k) == {p \in places : p < k}
    <2>1. i \in 1 .. n /\ j \in 1 .. n /\ i # j
      BY <1>1
    <2>2. SUFFICES ASSUME j < i PROVE FALSE
      BY <2>1
    <2>3. IsFiniteSet(1 .. n)
      BY FS_Interval
    <2>4. IsFiniteSet(below(i)) /\ IsFiniteSet(below(j))
      <3>1. below(i) \subseteq 1 .. n /\ below(j) \subseteq 1 .. n
        OBVIOUS
      <3> QED BY <2>3, <3>1, FS_Subset, Zenon
    <2>5. below(j) \subseteq below(i)
      <3>1. \A p \in places : p < j => p < i
        BY <1>0, <2>1, <2>2
      <3> QED BY <3>1
    <2>6. Cardinality(below(j)) <= Cardinality(below(i))
      BY <2>4, <2>5, FS_Subset, Zenon
    <2>7. Cardinality(below(i)) \in Nat /\ Cardinality(below(j)) \in Nat
      BY <2>4, FS_CardinalityType, Zenon
    <2>8. Cardinality(below(i)) < Limit /\ Limit \in Nat
      BY <1>1, QueriesAssumption
    <2>9. Cardinality(below(j)) < Limit
      BY <2>6, <2>7, <2>8
    <2> QED BY <1>1, <2>9
  <1>2. ASSUME places # {} PROVE first # {}
    <2>1. places \in SUBSET Nat
      OBVIOUS
    <2>2. PICK m \in places : \A i \in places : m <= i
      BY <1>2, <2>1, LeastNatural, Zenon
    <2>3. {j \in places : j < m} = {}
      <3>1. \A j \in places : ~(j < m)
        BY <1>0, <2>2
      <3> QED BY <3>1
    <2>4. Cardinality({j \in places : j < m}) < Limit
      BY <2>3, FS_EmptySet, QueriesAssumption
    <2> QED BY <2>2, <2>4
  <1> QED BY <1>1, <1>2

\* What a page of a sequence has of the keys that are to come: all of them, or those
\* up to the next cursor.
IsPage(page, order, later) ==
    /\ page.items \subseteq later
    /\ page.next = None => later \subseteq page.items
    /\ page.next # None =>
          /\ page.next \in page.items
          /\ \A k \in page.items : Place(order, k) <= Place(order, page.next)
          /\ \A k \in later : Place(order, k) <= Place(order, page.next) => k \in page.items

LEMMA PageFits ==
    ASSUME NEW order \in Seq(Nat), IsOnce(order), NEW later, later \subseteq ToSet(order)
    PROVE  IsPage(PageOf(order, later), order, later)
  <1> DEFINE n == Len(order)
             places == {i \in 1 .. n : order[i] \in later}
             first == {i \in places : Cardinality({j \in places : j < i}) < Limit}
             page == PageOf(order, later)
  <1>1. n \in Nat /\ DOMAIN order = 1 .. n /\ \A i \in 1 .. n : order[i] \in Nat
    OBVIOUS
  <1>2. /\ page.items = {order[i] : i \in first}
        /\ page.next = IF first = places THEN None ELSE order[Max(first)]
    BY <1>1 DEF PageOf
  <1>3. /\ places \in SUBSET (1 .. n) /\ first \subseteq places
        /\ \A i \in places : i \in 1 .. n /\ i \in Nat
    BY <1>1
  <1>4. /\ \A i \in first, j \in places : j \notin first => i < j
        /\ places # {} => first # {}
    <2> HIDE DEF n, places
    <2> QED BY <1>1, <1>3, FirstPlaces
  <1>5. \A i \in 1 .. n : Place(order, order[i]) = i
    BY PlaceIs
  <1>6. \A k \in later : Place(order, k) \in places /\ order[Place(order, k)] = k
    <2> TAKE k \in later
    <2>1. k \in ToSet(order)
      OBVIOUS
    <2>2. Place(order, k) \in 1 .. n /\ order[Place(order, k)] = k
      BY <2>1, PlaceOf, Zenon
    <2> QED BY <2>2
  <1>7. \A i \in places : order[i] \in later
    OBVIOUS
  <1> HIDE DEF n, places, first, page
  <1>8. page.items \subseteq later
    BY <1>2, <1>3, <1>7
  <1>9. CASE first = places
    <2>1. later \subseteq page.items
      <3> SUFFICES ASSUME NEW k \in later PROVE k \in page.items
        OBVIOUS
      <3>1. Place(order, k) \in first /\ order[Place(order, k)] = k
        BY <1>6, <1>9
      <3> QED BY <1>2, <3>1, Zenon
    <2>2. page.next = None
      BY <1>2, <1>9
    <2> QED BY <1>8, <2>1, <2>2 DEF IsPage, page
  <1>10. CASE first # places
    <2>1. first # {} /\ first \in SUBSET Nat /\ \A i \in first : i <= n
      BY <1>1, <1>3, <1>4, <1>10
    <2>2. Max(first) \in first /\ \A i \in first : i <= Max(first)
      BY <1>1, <2>1, MaxIsGreatest
    <2>3. page.next = order[Max(first)] /\ Place(order, page.next) = Max(first)
      BY <1>2, <1>3, <1>5, <1>10, <2>2
    <2>4. page.next \in page.items
      BY <1>2, <2>2, <2>3
    <2>5. ASSUME NEW k \in page.items PROVE Place(order, k) <= Place(order, page.next)
      <3>1. PICK i \in first : k = order[i]
        BY <1>2
      <3> QED BY <1>3, <1>5, <2>2, <2>3, <3>1
    <2>6. ASSUME NEW k \in later, Place(order, k) <= Place(order, page.next)
          PROVE  k \in page.items
      <3>1. Place(order, k) \in places /\ order[Place(order, k)] = k
        BY <1>6
      <3>2. Place(order, k) \notin first => Max(first) < Place(order, k)
        BY <1>4, <2>2, <3>1
      <3>3. Place(order, k) \in Nat /\ Max(first) \in Nat
        BY <1>3, <2>2, <3>1
      <3>4. Place(order, k) <= Max(first)
        BY <2>3, <2>6
      <3>5. Place(order, k) \in first
        BY <3>2, <3>3, <3>4
      <3> QED BY <1>2, <3>1, <3>5, Zenon
    <2>7. page.next # None
      BY <1>1, <1>3, <2>2, <2>3, QueriesAssumption
    <2> QED BY <1>8, <2>4, <2>5, <2>6, <2>7 DEF IsPage, page
  <1> QED BY <1>9, <1>10

\* The groups that come after a cursor.
After(r, cursor, keys) ==
    {k \in keys : cursor = None \/ Place(GroupsOf[r], k) > Place(GroupsOf[r], cursor)}

\* A page of the groups of a review goes on after the cursor, whatever its kind.
LEMMA GroupPageFits ==
    ASSUME NEW r \in Review, NEW groups, groups \subseteq ToSet(GroupsOf[r]),
           NEW matching, matching \subseteq groups,
           NEW cursor, cursor = None \/ cursor \in groups
    PROVE  IsPage(GroupPage(r, groups, cursor, matching), GroupsOf[r], After(r, cursor, matching))
  <1> DEFINE order == GroupsOf[r]
             later == After(r, cursor, matching)
  <1>1. order \in Seq(Nat) /\ IsOnce(order)
    <2>1. GroupsOf[r] \in Seq(Nat) /\ IsInjective(GroupsOf[r])
      BY QueriesAssumption
    <2>2. DOMAIN GroupsOf[r] = 1 .. Len(GroupsOf[r])
      BY <2>1
    <2> QED BY <2>1, <2>2 DEF IsInjective, IsOnce
  <1>2. later \subseteq ToSet(order)
    BY DEF After
  <1>3. \A k \in ToSet(order) : Place(order, k) \in 1 .. Len(order) /\ order[Place(order, k)] = k
    BY <1>1, PlaceOf, Zenon
  <1>4. GroupPage(r, groups, cursor, matching) = PageOf(order, later)
    <2>1. CASE KindOf[r] = "change"
      <3>1. \A i, j \in 1 .. Len(order) : i < j => order[i] < order[j]
        <4>1. DOMAIN order = 1 .. Len(order)
          BY <1>1
        <4> QED BY <2>1, <4>1, QueriesAssumption
      <3>2. ASSUME NEW k \in matching, cursor # None
            PROVE  k > cursor <=> Place(order, k) > Place(order, cursor)
        <4>1. k \in ToSet(order) /\ cursor \in ToSet(order)
          BY <3>2
        <4>2. \A i \in 1 .. Len(order) : order[i] \in Nat
          BY <1>1
        <4> QED BY <1>3, <3>1, <4>1, <4>2
      <3>3. later = {k \in matching : cursor = None \/ k > cursor}
        BY <3>2 DEF After
      <3> QED BY <2>1, <3>3 DEF GroupPage, DiffPage
    <2>2. CASE KindOf[r] # "change"
      <3>1. later = {k \in matching : \/ cursor = None
                                      \/ cursor \in groups /\ Place(order, k) > Place(order, cursor)}
        BY DEF After
      <3> QED BY <2>2, <3>1 DEF GroupPage, AdoptionPage
    <2> QED BY <2>1, <2>2
  <1> QED BY <1>1, <1>2, <1>4, PageFits

LEMMA ReversedPlaces ==
    ASSUME NEW T, NEW seq \in Seq(T), IsOnce(seq)
    PROVE  /\ Newest(seq) \in Seq(T) /\ Len(Newest(seq)) = Len(seq) /\ IsOnce(Newest(seq))
           /\ ToSet(Newest(seq)) = ToSet(seq)
           /\ \A i \in 1 .. Len(seq) : Newest(seq)[i] = seq[(Len(seq) - i) + 1]
           /\ \A x \in ToSet(seq) : Place(Newest(seq), x) = (Len(seq) - Place(seq, x)) + 1
  <1> DEFINE n == Len(seq)
             back == Newest(seq)
  <1>1. n \in Nat /\ DOMAIN seq = 1 .. n /\ \A i \in 1 .. n : seq[i] \in T
    OBVIOUS
  <1>2. back = [i \in 1 .. n |-> seq[(n - i) + 1]]
    BY DEF Newest, Reverse
  <1> HIDE DEF n, back
  <1>3. \A i \in 1 .. n : (n - i) + 1 \in 1 .. n /\ (n - ((n - i) + 1)) + 1 = i
    BY <1>1
  <1>4. \A i \in 1 .. n : back[i] = seq[(n - i) + 1]
    BY <1>2
  <1>5. back \in [1 .. n -> T]
    BY <1>1, <1>2, <1>3
  <1>6. back \in Seq(T) /\ Len(back) = n /\ DOMAIN back = 1 .. n
    BY <1>1, <1>5
  <1>7. \A i, j \in 1 .. n : seq[i] = seq[j] => i = j
    BY DEF IsOnce, n
  <1>8. IsOnce(back)
    <2> SUFFICES ASSUME NEW i \in 1 .. n, NEW j \in 1 .. n, back[i] = back[j] PROVE i = j
      BY <1>6 DEF IsOnce
    <2>1. seq[(n - i) + 1] = seq[(n - j) + 1]
      BY <1>4
    <2>2. (n - i) + 1 = (n - j) + 1
      BY <1>3, <1>7, <2>1
    <2> QED BY <1>1, <2>2
  <1>9. ToSet(back) = ToSet(seq)
    <2>1. \A i \in 1 .. n : back[i] \in ToSet(seq)
      BY <1>1, <1>3, <1>4 DEF ToSet
    <2>2. ASSUME NEW i \in 1 .. n PROVE seq[i] \in ToSet(back)
      <3>1. back[(n - i) + 1] = seq[i]
        BY <1>3, <1>4
      <3> QED BY <1>3, <1>6, <3>1 DEF ToSet
    <2> QED BY <1>1, <1>6, <2>1, <2>2 DEF ToSet
  <1>10. ASSUME NEW x \in ToSet(seq) PROVE Place(back, x) = (n - Place(seq, x)) + 1
    <2>1. Place(seq, x) \in 1 .. n /\ seq[Place(seq, x)] = x
      BY PlaceOf, Zenon DEF n
    <2>2. back[(n - Place(seq, x)) + 1] = x /\ (n - Place(seq, x)) + 1 \in 1 .. n
      BY <1>3, <1>4, <2>1
    <2> QED BY <1>6, <1>8, <2>2, PlaceIs
  <1> QED BY <1>1, <1>4, <1>6, <1>8, <1>9, <1>10 DEF n, back

\* A page of reviews: those right before the cursor, from the newest on.
LEMMA ReviewPageFits ==
    ASSUME NEW seq \in Seq(Review), IsOnce(seq),
           NEW cursor, cursor = None \/ cursor \in ToSet(seq),
           NEW top, top = IF cursor = None THEN Len(seq) + 1 ELSE Place(seq, cursor),
           NEW page, page = ReviewPage(Newest(seq), cursor)
    PROVE  /\ page.items \in Seq(Review) /\ Len(page.items) \in 0 .. top - 1
           /\ \A i \in 1 .. Len(page.items) :
                 page.items[i] \in ToSet(seq) /\ Place(seq, page.items[i]) = top - i
           /\ page.next = None => Len(page.items) = top - 1
           /\ page.next # None => Len(page.items) > 0 /\ page.next = page.items[Len(page.items)]
  <1> DEFINE n == Len(seq)
             back == Newest(seq)
             start == IF cursor = None THEN 0 ELSE Place(back, cursor)
             end == IF start + Limit < n THEN start + Limit ELSE n
             items == page.items
  <1>1. n \in Nat /\ Limit \in Nat /\ Limit > 0
    BY QueriesAssumption
  <1>2. /\ back \in Seq(Review) /\ Len(back) = n
        /\ \A i \in 1 .. n : back[i] = seq[(n - i) + 1]
        /\ \A x \in ToSet(seq) : Place(back, x) = (n - Place(seq, x)) + 1
    BY ReversedPlaces, Zenon
  <1>3. \A x \in ToSet(seq) : Place(seq, x) \in 1 .. n
    BY PlaceOf, Zenon
  <1>4. start \in 0 .. n /\ top \in 1 .. n + 1 /\ start = (n - top) + 1
    BY <1>1, <1>2, <1>3
  <1>5. /\ items = SubSeq(back, start + 1, end)
        /\ page.next = IF start + Limit < n THEN Last(items) ELSE None
    BY <1>2 DEF ReviewPage
  <1> HIDE DEF n, back, start, items
  <1>6. end \in start .. n /\ end \in Nat
    BY <1>1, <1>4
  <1>7. /\ items \in Seq(Review) /\ Len(items) = end - start
        /\ \A i \in 1 .. end - start : items[i] = back[start + i]
    <2>1. start + 1 \in 1 .. n + 1 /\ end \in start .. n
      BY <1>1, <1>4, <1>6
    <2> HIDE DEF end
    <2>2. end \in Nat /\ start \in Nat
      BY <1>1, <1>4, <1>6
    <2>3. \A i \in start + 1 .. end : back[i] \in Review
      BY <1>1, <1>2, <2>1, <2>2
    <2>4. SubSeq(back, start + 1, end) = [i \in 1 .. (end - (start + 1)) + 1 |-> back[(i + (start + 1)) - 1]]
      BY <1>2, <2>1, <2>2
    <2>5. (end - (start + 1)) + 1 = end - start /\ end - start \in Nat
      BY <2>1, <2>2
    <2>6. \A i \in 1 .. end - start : (i + (start + 1)) - 1 = start + i /\ start + i \in start + 1 .. end
      BY <2>1, <2>2
    <2>7. items = [i \in 1 .. end - start |-> back[start + i]]
      BY <1>5, <2>4, <2>5, <2>6
    <2>8. items \in [1 .. end - start -> Review]
      BY <2>3, <2>6, <2>7
    <2> QED BY <2>5, <2>7, <2>8
  <1>8. Len(items) \in 0 .. top - 1
    BY <1>1, <1>4, <1>6, <1>7
  <1>9. ASSUME NEW i \in 1 .. end - start
        PROVE  items[i] \in ToSet(seq) /\ Place(seq, items[i]) = top - i
    <2>0. start \in Nat /\ end \in Nat /\ top \in Nat /\ i \in Nat /\ 1 <= i /\ i <= end - start
          /\ end <= n /\ start <= n
      BY <1>1, <1>4, <1>6
    <2>1. start + i \in 1 .. n /\ (n - (start + i)) + 1 = top - i /\ top - i \in 1 .. n
      <3> HIDE DEF end
      <3>1. start + i \in 1 .. n
        BY <1>1, <2>0
      <3>2. start = (n - top) + 1
        BY <1>4
      <3>3. (n - (start + i)) + 1 = top - i
        BY <1>1, <2>0, <3>2
      <3>4. top - i \in 1 .. n
        BY <1>1, <2>0, <3>1, <3>3
      <3> QED BY <3>1, <3>3, <3>4
    <2>2. items[i] = seq[top - i]
      BY <1>2, <1>7, <2>1
    <2>3. Place(seq, seq[top - i]) = top - i /\ seq[top - i] \in ToSet(seq)
      BY <2>1, PlaceIs DEF n
    <2> QED BY <2>2, <2>3
  <1>10. CASE start + Limit < n
    <2>1. Len(items) = Limit
      BY <1>1, <1>4, <1>7, <1>10
    <2>2. page.next = items[Len(items)]
      BY <1>5, <1>10 DEF Last
    <2>3. items[Len(items)] \in Review
      BY <1>1, <1>7, <2>1
    <2>4. page.next # None
      BY <2>2, <2>3, QueriesAssumption
    <2> QED BY <1>1, <1>7, <1>8, <1>9, <2>1, <2>2, <2>4 DEF items
  <1>11. CASE ~(start + Limit < n)
    <2>1. Len(items) = top - 1 /\ page.next = None
      BY <1>1, <1>4, <1>5, <1>7, <1>11
    <2> QED BY <1>7, <1>8, <1>9, <2>1 DEF items
  <1> QED BY <1>10, <1>11

\* What is inserted moves nobody before or behind another.
LEMMA InsertedPlaces ==
    ASSUME NEW T, NEW seq \in Seq(T), IsOnce(seq), NEW e \in T, e \notin ToSet(seq),
           NEW i \in 1 .. Len(seq) + 1, NEW longer, longer = InsertAt(seq, i, e)
    PROVE  /\ longer \in Seq(T) /\ IsOnce(longer)
           /\ ToSet(longer) = ToSet(seq) \cup {e}
           /\ \A x, y \in ToSet(seq) :
                 Place(seq, x) <= Place(seq, y) => Place(longer, x) <= Place(longer, y)
  <1> DEFINE n == Len(seq)
             moved(j) == IF j < i THEN j ELSE j + 1
  <1>1. n \in Nat /\ i \in Nat /\ i \in 1 .. n + 1 /\ DOMAIN seq = 1 .. n /\ \A j \in 1 .. n : seq[j] \in T
    OBVIOUS
  <1> HIDE DEF n
  <1>2. /\ longer \in Seq(T) /\ Len(longer) = n + 1
        /\ \A j \in 1 .. n + 1 : longer[j] = IF j < i THEN seq[j] ELSE IF j = i THEN e ELSE seq[j - 1]
    <2> DEFINE left == SubSeq(seq, 1, i - 1)
               right == SubSeq(seq, i, n)
               middle == left \o <<e>>
    <2>1. left \in Seq(T) /\ Len(left) = i - 1 /\ \A j \in 1 .. i - 1 : left[j] = seq[j]
      BY <1>1 DEF n
    <2>2. right \in Seq(T) /\ Len(right) = (n - i) + 1 /\ \A j \in 1 .. (n - i) + 1 : right[j] = seq[(i + j) - 1]
      BY <1>1 DEF n
    <2>3. longer = middle \o right
      BY DEF InsertAt, n
    <2> HIDE DEF left, right
    <2>4. middle \in Seq(T) /\ Len(middle) = i
          /\ \A j \in 1 .. i : middle[j] = IF j < i THEN seq[j] ELSE e
      BY <1>1, <2>1
    <2> HIDE DEF middle
    <2>5. longer \in Seq(T) /\ Len(longer) = n + 1
      BY <1>1, <2>2, <2>3, <2>4
    <2>6. ASSUME NEW j \in 1 .. n + 1
          PROVE  longer[j] = IF j < i THEN seq[j] ELSE IF j = i THEN e ELSE seq[j - 1]
      <3>1. CASE j <= i
        BY <1>1, <2>2, <2>3, <2>4, <3>1
      <3>2. CASE j > i
        <4>1. longer[j] = right[j - i]
          BY <1>1, <2>2, <2>3, <2>4, <3>2
        <4>2. j - i \in 1 .. (n - i) + 1 /\ (i + (j - i)) - 1 = j - 1
          BY <1>1, <3>2
        <4> QED BY <1>1, <2>2, <3>2, <4>1, <4>2
      <3> QED BY <1>1, <3>1, <3>2
    <2> QED BY <2>5, <2>6
  <1>3. \A j \in 1 .. n : moved(j) \in 1 .. n + 1 /\ moved(j) # i /\ longer[moved(j)] = seq[j]
    BY <1>1, <1>2
  <1>4. \A j \in 1 .. n + 1 : j = i \/ \E k \in 1 .. n : j = moved(k)
    <2> TAKE j \in 1 .. n + 1
    <2>1. CASE j < i
      BY <1>1, <2>1
    <2>2. CASE j > i
      <3>1. j - 1 \in 1 .. n /\ moved(j - 1) = j
        BY <1>1, <2>2
      <3> QED BY <3>1
    <2> QED BY <1>1, <2>1, <2>2
  <1>5. \A j, k \in 1 .. n : (j <= k => moved(j) <= moved(k)) /\ (moved(j) = moved(k) => j = k)
    BY <1>1
  <1>6. longer[i] = e
    BY <1>1, <1>2
  <1> HIDE DEF moved
  <1>7. \A j \in 1 .. n : seq[j] # e
    BY <1>1 DEF ToSet
  <1>8. IsOnce(longer)
    <2> SUFFICES ASSUME NEW j \in 1 .. n + 1, NEW k \in 1 .. n + 1, longer[j] = longer[k] PROVE j = k
      BY <1>2 DEF IsOnce
    <2>1. \A a, b \in 1 .. n : seq[a] = seq[b] => a = b
      BY DEF IsOnce, n
    <2>2. CASE j = i
      BY <1>3, <1>4, <1>6, <1>7, <2>2
    <2>3. CASE k = i
      BY <1>3, <1>4, <1>6, <1>7, <2>3
    <2>4. CASE j # i /\ k # i
      <3>1. PICK a \in 1 .. n : j = moved(a)
        BY <1>4, <2>4
      <3>2. PICK b \in 1 .. n : k = moved(b)
        BY <1>4, <2>4
      <3> QED BY <1>3, <2>1, <3>1, <3>2
    <2> QED BY <2>2, <2>3, <2>4
  <1>9. ToSet(longer) = ToSet(seq) \cup {e}
    <2>1. DOMAIN longer = 1 .. n + 1
      BY <1>1, <1>2
    <2>2. \A j \in 1 .. n + 1 : longer[j] \in ToSet(seq) \cup {e}
      BY <1>1, <1>3, <1>4, <1>6 DEF ToSet
    <2>3. \A j \in 1 .. n : seq[j] \in ToSet(longer)
      BY <1>3, <2>1 DEF ToSet
    <2>4. e \in ToSet(longer)
      BY <1>1, <1>6, <2>1 DEF ToSet
    <2> QED BY <1>1, <2>1, <2>2, <2>3, <2>4 DEF ToSet
  <1>10. \A x \in ToSet(seq) : Place(seq, x) \in 1 .. n /\ Place(longer, x) = moved(Place(seq, x))
    <2> TAKE x \in ToSet(seq)
    <2>1. Place(seq, x) \in 1 .. n /\ seq[Place(seq, x)] = x
      BY PlaceOf, Zenon DEF n
    <2>2. moved(Place(seq, x)) \in 1 .. Len(longer) /\ longer[moved(Place(seq, x))] = x
      BY <1>2, <1>3, <2>1
    <2> QED BY <1>2, <1>8, <2>1, <2>2, PlaceIs
  <1> QED BY <1>2, <1>5, <1>8, <1>9, <1>10

-----------------------------------------------------------------------------
(* The store                                                                 *)

Statuses == {"computing", "ready", "failed", "withdrawn", "accepted", "rejected", None}

RowsFit ==
    /\ created \in Seq(Review) /\ IsOnce(created)
    /\ completed \in Seq(Review) /\ IsOnce(completed) /\ ToSet(completed) \subseteq ToSet(created)
    /\ status \in [Review -> Statuses]
    /\ vstatus \in [Review -> {"draft", "in_review", "accepted", "rejected"}]
    /\ DOMAIN verdict = Review /\ \A r \in Review : DOMAIN verdict[r] = ToSet(GroupsOf[r])

\* A review has one decision, which its version tells for good; a review that is shown
\* as decided has it, and one that is shown as ready or decided has a completed run.
DecisionsFit ==
    /\ decisions \in Seq([review : Review, outcome : {"accepted", "rejected"}])
    /\ \A i \in 1 .. Len(decisions) :
          /\ IsCompleted(decisions[i].review)
          /\ vstatus[decisions[i].review] = decisions[i].outcome
    /\ \A i, j \in 1 .. Len(decisions) : decisions[i].review = decisions[j].review => i = j
    /\ \A r \in Review : status[r] \in {"accepted", "rejected"} =>
          \E i \in 1 .. Len(decisions) : decisions[i] = [review |-> r, outcome |-> status[r]]
    /\ \A r \in Review : status[r] \in {"ready", "accepted", "rejected"} => IsCompleted(r)

AcksFit ==
    /\ conformance \in Seq(DOMAIN FindingsOf) /\ IsOnce(conformance)
    /\ \A act \in acknowledged : act[1] \in ToSet(conformance) /\ act[2] \in FindingsOf[act[1]]

StoreFits == RowsFit /\ DecisionsFit /\ AcksFit

-----------------------------------------------------------------------------
(* The client                                                                *)

\* What it was given so far, and what it is still to be given of a page.
Listed == UNION ToSet(client.listed)
Coming == {client.todo[i].review : i \in DOMAIN client.todo}

InOrder ==
    \A i, j \in DOMAIN client.listed :
        i < j => \A x \in client.listed[i], y \in client.listed[j] : Precedes(x, y)

\* A loop over the pages of a run has the groups up to its cursor, and after it all of
\* them, when the run was completed before the loop began.
IsWhole == \/ client.op = "groups" /\ (client.cursor # None \/ client.always # {})
           \/ client.op = "report" /\ client.run = "completed"

LoopFits ==
    client.op \in {"groups", "report"} =>
        LET all == ToSet(GroupsOf[client.review])
        IN /\ client.review \in Review
           /\ client.at \notin {"groups", "verdicts", "done"} => client.groups = {}
           /\ client.at # "groups" => client.next = None
           /\ client.at \in {"groups", "verdicts"} => (IsWhole => IsCompleted(client.review))
           /\ client.at = "groups" /\ client.next = None => client.groups = {}
           /\ client.at = "groups" /\ client.next # None =>
                 /\ IsCompleted(client.review) /\ client.next \in all
                 /\ client.groups = {k \in all : Place(GroupsOf[client.review], k)
                                                  <= Place(GroupsOf[client.review], client.next)}
           /\ client.at = "verdicts" =>
                 /\ client.groups \subseteq all /\ (IsWhole => client.groups = all)
                 /\ client.groups # {} => IsCompleted(client.review)

\* A listing of groups: what was given is in front of the cursor, and of those that
\* match all along everything in front of it was given.
GroupsFit ==
    client.op = "groups" =>
        LET order == GroupsOf[client.review]
        IN /\ client.at \in {"review", "sync", "groups", "verdicts", "done"}
           /\ client.always \subseteq {k \in ToSet(order) :
                 client.filter = None \/ verdict[client.review][k] = client.filter}
           /\ client.cursor # None \/ client.always # {} => IsCompleted(client.review)
           /\ client.listed \in Seq(SUBSET ToSet(order)) /\ InOrder
           /\ client.at = "done" => client.always \subseteq Listed
           /\ client.at # "done" /\ client.cursor = None => client.listed = <<>>
           /\ client.at # "done" /\ client.cursor # None =>
                 /\ client.cursor \in ToSet(order)
                 /\ \A k \in Listed : Place(order, k) <= Place(order, client.cursor)
                 /\ \A k \in client.always :
                       Place(order, k) <= Place(order, client.cursor) => k \in Listed

\* A listing of reviews, likewise, with the page that is being made.
ReviewsFit ==
    client.op = "reviews" =>
        /\ client.at \in {"list", "view", "done"}
        /\ client.always \subseteq ToSet(created)
        /\ client.listed \in Seq(SUBSET ToSet(created)) /\ InOrder
        /\ client.todo \in Seq([review : ToSet(created), status : Statuses])
        /\ client.at # "view" => client.todo = <<>>
        /\ client.at = "done" => client.cursor = None
        /\ client.at = "list" /\ client.cursor = None => client.listed = <<>>
        /\ client.at = "view" =>
              /\ client.listed # <<>>
              /\ \A i \in DOMAIN client.listed : i < Len(client.listed) =>
                    \A x \in client.listed[i], y \in Coming : Precedes(x, y)
        /\ client.at # "done" /\ client.cursor # None =>
              /\ client.cursor \in ToSet(created)
              /\ \A r \in Listed \cup Coming : Place(created, r) >= Place(created, client.cursor)
              /\ \A r \in client.always :
                    Place(created, r) >= Place(created, client.cursor) => r \in Listed \cup Coming
        /\ client.at # "list" /\ client.cursor = None => client.always \subseteq Listed \cup Coming

\* A report: what was read of the review is made up for by what is read after it.
ReportFits ==
    client.op = "report" =>
        LET r == client.review
            final == {"accepted", "rejected"}
        IN /\ client.at \in {"review", "sync", "run", "decision", "tail", "groups", "verdicts", "done"}
           /\ client.always = {} /\ client.cursor = None
           /\ client.at \notin {"review", "sync"} =>
                 /\ client.status \in final \cup {"ready"} => IsCompleted(r)
                 /\ client.status \in final => \E i \in 1 .. Len(decisions) :
                       decisions[i] = [review |-> r, outcome |-> client.status]
           /\ client.at \notin {"review", "sync", "run"} =>
                 /\ client.run = "completed" => IsCompleted(r)
                 /\ client.status \in final \cup {"ready"} => client.run = "completed"
           /\ client.at \notin {"review", "sync", "run", "decision"} =>
                 /\ client.decision \in 0 .. Len(decisions)
                 /\ client.status \in final =>
                       client.decision # 0 /\ decisions[client.decision].outcome = client.status
           /\ client.at \in {"groups", "verdicts", "done"} =>
                 client.tail \in Nat /\ client.decision <= client.tail
           /\ client.at \in {"groups", "verdicts"} => client.run = "completed"
           /\ client.at = "done" /\ client.status \in final \cup {"ready"} =>
                 DOMAIN client.items = ToSet(GroupsOf[r])

\* The map: the best run is still among those to look at.
MapFits ==
    client.op = "map" =>
        /\ client.at \in {"runs", "version", "done"}
        /\ \A r \in client.always : IsCompleted(r) /\ vstatus[r] = "accepted"
        /\ client.at # "done" => client.run = None
        /\ client.at = "version" =>
              /\ client.todo \in Seq(ToSet(completed))
              /\ \A i, j \in 1 .. Len(client.todo) : i < j =>
                    Place(completed, client.todo[j]) < Place(completed, client.todo[i])
              /\ client.always \subseteq ToSet(client.todo)
        /\ client.at = "done" =>
              /\ client.run # None => IsCompleted(client.run)
              /\ MapIsNotOutdated

\* Findings and acts on them: the run that is read stands not before the one shown.
ActsFit ==
    client.op \in {"findings", "acknowledge", "draft"} =>
        /\ client.at \in {"latest", "findings", "done"}
        /\ client.op = "findings" => client.key = None /\ client.shown \in ToSet(conformance) \cup {None}
        /\ client.op # "findings" =>
              client.shown \in ToSet(conformance) /\ client.key \in FindingsOf[client.shown]
        /\ client.at = "findings" => client.run \in ToSet(conformance)
        /\ client.at # "latest" =>
              /\ client.run \in ToSet(conformance) \cup {None}
              /\ Place(conformance, client.run) >= Place(conformance, client.shown)
        /\ client.at = "done" =>
              /\ client.op # "findings" /\ client.items = {} => client.run # client.shown
              /\ client.op = "findings" /\ client.items # {} =>
                    client.run \in ToSet(conformance) /\ client.items \subseteq FindingsOf[client.run]

ClientFits ==
    /\ DOMAIN client = DOMAIN Idle
    /\ client.op \in {"none", "groups", "report", "reviews", "map", "findings", "acknowledge", "draft"}
    /\ client.op = "none" <=> client.at = "idle"
    /\ LoopFits /\ GroupsFit /\ ReviewsFit /\ ReportFits /\ MapFits /\ ActsFit

QInv == StoreFits /\ ClientFits

-----------------------------------------------------------------------------
(* What the store keeps, whoever writes                                      *)

\* Rows that are there stay where they are among the others.
Extends(seq, longer) ==
    /\ ToSet(seq) \subseteq ToSet(longer)
    /\ \A x \in ToSet(seq) : Place(longer, x) = Place(seq, x)

KeepsOrder(seq, longer) ==
    /\ ToSet(seq) \subseteq ToSet(longer)
    /\ \A x, y \in ToSet(seq) : Place(seq, x) <= Place(seq, y) => Place(longer, x) <= Place(longer, y)

StoreGrows ==
    /\ Extends(created, created') /\ Extends(completed, completed')
    /\ KeepsOrder(conformance, conformance')
    /\ Len(decisions) <= Len(decisions')
    /\ \A i \in 1 .. Len(decisions) : decisions'[i] = decisions[i]
    /\ \A r \in ToSet(completed) : vstatus[r] = "accepted" => vstatus'[r] = "accepted"

StoreGoesOn == StoreFits' /\ StoreGrows

LEMMA ItselfExtends ==
    ASSUME NEW seq, NEW T, seq \in Seq(T)
    PROVE  Extends(seq, seq) /\ KeepsOrder(seq, seq)
  BY DEF Extends, KeepsOrder

LEMMA AppendedExtends ==
    ASSUME NEW T, NEW seq \in Seq(T), IsOnce(seq), NEW e \in T, e \notin ToSet(seq)
    PROVE  Extends(seq, Append(seq, e))
  <1>1. ToSet(Append(seq, e)) = ToSet(seq) \cup {e}
    BY PlaceAppended, Zenon
  <1>2. \A x \in ToSet(seq) : Place(Append(seq, e), x) = Place(seq, x)
    BY PlaceAppended
  <1> QED BY <1>1, <1>2 DEF Extends

LEMMA ElementOf ==
    ASSUME NEW T, NEW seq \in Seq(T), NEW i \in 1 .. Len(seq)
    PROVE  seq[i] \in T
  OBVIOUS

LEMMA DecisionTypes ==
    ASSUME DecisionsFit, NEW i \in 1 .. Len(decisions)
    PROVE  /\ decisions[i] \in [review : Review, outcome : {"accepted", "rejected"}]
           /\ decisions[i].review \in Review /\ decisions[i].outcome \in {"accepted", "rejected"}
  <1>1. decisions[i] \in [review : Review, outcome : {"accepted", "rejected"}]
    BY ElementOf, Zenon DEF DecisionsFit
  <1> QED BY <1>1

LEMMA StoreStays ==
    ASSUME StoreFits, UNCHANGED store
    PROVE  StoreGoesOn
  <1>1. UNCHANGED <<created, status, vstatus, completed, verdict, decisions, conformance, acknowledged>>
    BY DEF store, findings
  <1>2. StoreFits'
    <2>1. RowsFit'
      BY <1>1 DEF StoreFits, RowsFit
    <2>2. DecisionsFit'
      BY <1>1 DEF StoreFits, DecisionsFit, IsCompleted
    <2>3. AcksFit'
      BY <1>1 DEF StoreFits, AcksFit
    <2> QED BY <2>1, <2>2, <2>3 DEF StoreFits
  <1>3. StoreGrows
    <2>1. Extends(created, created) /\ Extends(completed, completed) /\ KeepsOrder(conformance, conformance)
      BY ItselfExtends, Zenon DEF StoreFits, RowsFit, AcksFit
    <2>2. Len(decisions) \in Nat
      BY DEF StoreFits, DecisionsFit
    <2> QED BY <1>1, <2>1, <2>2 DEF StoreGrows
  <1> QED BY <1>2, <1>3 DEF StoreGoesOn

LEMMA InsertGoesOn ==
    ASSUME StoreFits, NEW r \in Review, InsertChangeReview(r), UNCHANGED findings
    PROVE  StoreGoesOn
  <1>1. /\ created' = Append(created, r) /\ r \notin ToSet(created)
        /\ status' = [status EXCEPT ![r] = "computing"]
        /\ vstatus' = [vstatus EXCEPT ![r] = "in_review"]
        /\ UNCHANGED <<completed, verdict, decisions, conformance, acknowledged>>
    BY DEF InsertChangeReview, findings
  <1>2. /\ created' \in Seq(Review) /\ IsOnce(created') /\ ToSet(created') = ToSet(created) \cup {r}
        /\ Extends(created, created')
    <2>1. created \in Seq(Review) /\ IsOnce(created)
      BY DEF StoreFits, RowsFit
    <2> QED BY <1>1, <2>1, PlaceAppended, AppendedExtends
  <1>3. r \notin ToSet(completed)
    BY <1>1 DEF StoreFits, RowsFit
  <1>4. RowsFit'
    BY <1>1, <1>2 DEF StoreFits, RowsFit, Statuses
  <1>5. DecisionsFit'
    <2>1. \A i \in 1 .. Len(decisions) : decisions[i].review # r /\ decisions[i].review \in Review
      BY <1>3, DecisionTypes DEF StoreFits, DecisionsFit, IsCompleted
    <2>2. \A s \in Review : s # r => status'[s] = status[s] /\ vstatus'[s] = vstatus[s]
      BY <1>1 DEF StoreFits, RowsFit
    <2>3. status'[r] = "computing"
      BY <1>1 DEF StoreFits, RowsFit
    <2> QED BY <1>1, <2>1, <2>2, <2>3 DEF StoreFits, DecisionsFit, IsCompleted
  <1>6. AcksFit'
    BY <1>1 DEF StoreFits, AcksFit
  <1>7. StoreGrows
    <2>1. Extends(completed, completed) /\ KeepsOrder(conformance, conformance)
      BY ItselfExtends, Zenon DEF StoreFits, RowsFit, AcksFit
    <2>2. Len(decisions) \in Nat
      BY DEF StoreFits, DecisionsFit
    <2>3. \A s \in ToSet(completed) : vstatus'[s] = vstatus[s]
      <3>1. ToSet(completed) \subseteq Review /\ DOMAIN vstatus = Review
        BY DEF StoreFits, RowsFit, ToSet
      <3> QED BY <1>1, <1>3, <3>1
    <2> QED BY <1>1, <1>2, <2>1, <2>2, <2>3 DEF StoreGrows
  <1> QED BY <1>4, <1>5, <1>6, <1>7 DEF StoreGoesOn, StoreFits

LEMMA RunEndsGoesOn ==
    ASSUME StoreFits, NEW r \in Review, RunEnds(r), UNCHANGED findings
    PROVE  StoreGoesOn
  <1>1. /\ r \in ToSet(created) /\ r \notin ToSet(completed)
        /\ completed' = Append(completed, r) \/ completed' = completed
        /\ UNCHANGED <<created, status, vstatus, verdict, decisions, conformance, acknowledged>>
    BY DEF RunEnds, findings, IsCompleted
  <1>2. completed \in Seq(Review) /\ IsOnce(completed) /\ ToSet(completed) \subseteq ToSet(created)
    BY DEF StoreFits, RowsFit
  <1>3. /\ completed' \in Seq(Review) /\ IsOnce(completed') /\ ToSet(completed') \subseteq ToSet(created)
        /\ Extends(completed, completed')
    <2>1. CASE completed' = completed
      BY <1>2, <2>1, ItselfExtends, Zenon
    <2>2. CASE completed' = Append(completed, r)
      BY <1>1, <1>2, <2>2, PlaceAppended, AppendedExtends
    <2> QED BY <1>1, <2>1, <2>2
  <1>4. RowsFit'
    BY <1>1, <1>3 DEF StoreFits, RowsFit
  <1>5. DecisionsFit'
    <2>1. ToSet(completed) \subseteq ToSet(completed')
      BY <1>3 DEF Extends
    <2> QED BY <1>1, <2>1 DEF StoreFits, DecisionsFit, IsCompleted
  <1>6. AcksFit'
    BY <1>1 DEF StoreFits, AcksFit
  <1>7. StoreGrows
    <2>1. Extends(created, created) /\ KeepsOrder(conformance, conformance)
      BY ItselfExtends, Zenon DEF StoreFits, RowsFit, AcksFit
    <2>2. Len(decisions) \in Nat
      BY DEF StoreFits, DecisionsFit
    <2> QED BY <1>1, <1>3, <2>1, <2>2 DEF StoreGrows
  <1> QED BY <1>4, <1>5, <1>6, <1>7 DEF StoreGoesOn, StoreFits

\* A change of a status alone, and of a candidate that is in review.
LEMMA StatusGoesOn ==
    ASSUME StoreFits, NEW r \in Review,
           UNCHANGED <<created, completed, verdict, decisions, conformance, acknowledged>>,
           NEW s \in Statuses, status' = [status EXCEPT ![r] = s],
           s \in {"accepted", "rejected"} => FALSE, s = "ready" => IsCompleted(r),
           vstatus' = vstatus \/ (vstatus[r] = "in_review" /\ vstatus' = [vstatus EXCEPT ![r] = "draft"])
    PROVE  StoreGoesOn
  <1>1. RowsFit'
    BY DEF StoreFits, RowsFit
  <1>2. /\ \A q \in Review : q # r => status'[q] = status[q] /\ vstatus'[q] = vstatus[q]
        /\ status'[r] = s
        /\ vstatus[r] # "in_review" => vstatus'[r] = vstatus[r]
    BY DEF StoreFits, RowsFit
  <1>3. \A i \in 1 .. Len(decisions) :
            /\ decisions[i].review \in Review /\ decisions[i].outcome \in {"accepted", "rejected"}
            /\ vstatus[decisions[i].review] = decisions[i].outcome
    BY DecisionTypes DEF StoreFits, DecisionsFit
  <1>4. \A i \in 1 .. Len(decisions) : vstatus'[decisions[i].review] = decisions[i].outcome
    BY <1>2, <1>3
  <1>5. DecisionsFit'
    BY <1>2, <1>3, <1>4 DEF StoreFits, DecisionsFit, IsCompleted
  <1>6. AcksFit'
    BY DEF StoreFits, AcksFit
  <1>7. StoreGrows
    <2>1. Extends(created, created) /\ Extends(completed, completed) /\ KeepsOrder(conformance, conformance)
      BY ItselfExtends, Zenon DEF StoreFits, RowsFit, AcksFit
    <2>2. Len(decisions) \in Nat
      BY DEF StoreFits, DecisionsFit
    <2>3. \A q \in ToSet(completed) : vstatus[q] = "accepted" => vstatus'[q] = "accepted"
      <3>1. ToSet(completed) \subseteq Review
        BY DEF StoreFits, RowsFit, ToSet
      <3> QED BY <1>2, <3>1
    <2> QED BY <2>1, <2>2, <2>3 DEF StoreGrows
  <1> QED BY <1>1, <1>5, <1>6, <1>7 DEF StoreGoesOn, StoreFits

LEMMA WithdrawGoesOn ==
    ASSUME StoreFits, NEW r \in Review, WithdrawReview(r), UNCHANGED findings
    PROVE  StoreGoesOn
  <1>1. /\ status' = [status EXCEPT ![r] = "withdrawn"]
        /\ vstatus[r] = "in_review" /\ vstatus' = [vstatus EXCEPT ![r] = "draft"]
        /\ UNCHANGED <<created, completed, verdict, decisions, conformance, acknowledged>>
    BY DEF WithdrawReview, findings
  <1> QED BY <1>1, StatusGoesOn DEF Statuses

LEMMA LateSyncGoesOn ==
    ASSUME StoreFits, NEW r \in Review, LateSync(r), UNCHANGED findings
    PROVE  StoreGoesOn
  <1>1. /\ IsCompleted(r) /\ status' = [status EXCEPT ![r] = "ready"]
        /\ UNCHANGED <<created, vstatus, completed, verdict, decisions, conformance, acknowledged>>
    BY DEF LateSync, UpdateStatus, findings
  <1> QED BY <1>1, StatusGoesOn DEF Statuses

LEMMA SyncGoesOn ==
    ASSUME StoreFits, NEW r \in Review, SyncStatus(r), UNCHANGED findings
    PROVE  StoreGoesOn /\ UNCHANGED verdict
  <1>1. UNCHANGED <<created, completed, failed, verdict, decisions, conformance, acknowledged>>
    BY DEF SyncStatus, findings
  <1>2. CASE IsCompleted(r)
    <2>1. status' = [status EXCEPT ![r] = "ready"] /\ UNCHANGED vstatus
      BY <1>2 DEF SyncStatus, UpdateStatus
    <2> QED BY <1>1, <1>2, <2>1, StatusGoesOn DEF Statuses
  <1>3. CASE ~IsCompleted(r) /\ r \in failed /\ status[r] = "computing"
    <2>1. /\ status' = [status EXCEPT ![r] = "failed"]
          /\ vstatus' = [vstatus EXCEPT ![r] = IF vstatus[r] = "in_review" THEN "draft" ELSE vstatus[r]]
      BY <1>3 DEF SyncStatus, FailReview
    <2>2. vstatus' = vstatus \/ (vstatus[r] = "in_review" /\ vstatus' = [vstatus EXCEPT ![r] = "draft"])
      <3>1. CASE vstatus[r] = "in_review"
        BY <2>1, <3>1
      <3>2. CASE vstatus[r] # "in_review"
        BY <2>1, <3>2 DEF StoreFits, RowsFit
      <3> QED BY <3>1, <3>2
    <2> QED BY <1>1, <2>1, <2>2, StatusGoesOn DEF Statuses
  <1>4. CASE ~IsCompleted(r) /\ (r \in failed => status[r] # "computing")
    <2>1. UNCHANGED <<status, vstatus>>
      BY <1>4 DEF SyncStatus, FailReview
    <2>2. UNCHANGED store
      BY <1>1, <2>1 DEF store, findings
    <2> QED BY <1>1, <2>2, StoreStays
  <1> QED BY <1>2, <1>3, <1>4

LEMMA DecideGoesOn ==
    ASSUME StoreFits, NEW r \in Review, NEW outcome \in {"accepted", "rejected"},
           StoreDecide(r, outcome), UNCHANGED findings
    PROVE  StoreGoesOn
  <1> DEFINE d == [review |-> r, outcome |-> outcome]
             n == Len(decisions)
  <1>1. /\ IsCompleted(r) /\ vstatus[r] = "in_review"
        /\ vstatus' = [vstatus EXCEPT ![r] = outcome]
        /\ decisions' = Append(decisions, d)
        /\ status' = [status EXCEPT ![r] = outcome]
        /\ UNCHANGED <<created, completed, verdict, conformance, acknowledged>>
    BY DEF StoreDecide, findings
  <1>2. d \in [review : Review, outcome : {"accepted", "rejected"}] /\ d.review = r /\ d.outcome = outcome
    OBVIOUS
  <1> HIDE DEF d
  <1>3. /\ decisions \in Seq([review : Review, outcome : {"accepted", "rejected"}]) /\ n \in Nat
        /\ \A i \in 1 .. n : decisions[i].review \in Review /\ decisions[i].outcome \in {"accepted", "rejected"}
        /\ \A i \in 1 .. n : IsCompleted(decisions[i].review) /\ vstatus[decisions[i].review] = decisions[i].outcome
    BY DecisionTypes DEF StoreFits, DecisionsFit
  <1>4. /\ decisions' \in Seq([review : Review, outcome : {"accepted", "rejected"}])
        /\ Len(decisions') = n + 1 /\ decisions'[n + 1] = d
        /\ \A i \in 1 .. n : decisions'[i] = decisions[i]
    BY <1>1, <1>2, <1>3
  <1>5. /\ \A q \in Review : q # r => status'[q] = status[q] /\ vstatus'[q] = vstatus[q]
        /\ status'[r] = outcome /\ vstatus'[r] = outcome
    BY <1>1 DEF StoreFits, RowsFit
  <1>6. \A i \in 1 .. n : decisions[i].review # r
    BY <1>1, <1>3
  <1>7. RowsFit'
    BY <1>1 DEF StoreFits, RowsFit, Statuses
  <1>8. DecisionsFit'
    <2>1. \A i \in 1 .. n + 1 : i = n + 1 \/ i \in 1 .. n
      BY <1>3
    <2>2. \A i \in 1 .. n + 1 :
             IsCompleted(decisions'[i].review) /\ vstatus'[decisions'[i].review] = decisions'[i].outcome
      BY <1>1, <1>2, <1>3, <1>4, <1>5, <1>6, <2>1
    <2>3. \A i, j \in 1 .. n + 1 : decisions'[i].review = decisions'[j].review => i = j
      <3> SUFFICES ASSUME NEW i \in 1 .. n + 1, NEW j \in 1 .. n + 1,
                          decisions'[i].review = decisions'[j].review
                   PROVE  i = j
        OBVIOUS
      <3>1. CASE i = n + 1 \/ j = n + 1
        BY <1>2, <1>4, <1>6, <2>1, <3>1
      <3>2. CASE i \in 1 .. n /\ j \in 1 .. n
        BY <1>4, <3>2 DEF StoreFits, DecisionsFit
      <3> QED BY <2>1, <3>1, <3>2
    <2>4. ASSUME NEW q \in Review, status'[q] \in {"accepted", "rejected"}
          PROVE  \E i \in 1 .. n + 1 : decisions'[i] = [review |-> q, outcome |-> status'[q]]
      <3>1. CASE q = r
        BY <1>3, <1>4, <1>5, <3>1 DEF d
      <3>2. CASE q # r
        <4>1. PICK i \in 1 .. n : decisions[i] = [review |-> q, outcome |-> status[q]]
          BY <1>5, <2>4, <3>2 DEF StoreFits, DecisionsFit
        <4>2. i \in 1 .. n + 1
          BY <1>3
        <4> QED BY <1>4, <1>5, <3>2, <4>1, <4>2
      <3> QED BY <3>1, <3>2
    <2>5. \A q \in Review : status'[q] \in {"ready", "accepted", "rejected"} => IsCompleted(q)
      BY <1>1, <1>5 DEF StoreFits, DecisionsFit
    <2> QED BY <1>1, <1>4, <2>2, <2>3, <2>4, <2>5 DEF DecisionsFit, IsCompleted
  <1>9. AcksFit'
    BY <1>1 DEF StoreFits, AcksFit
  <1>10. StoreGrows
    <2>1. Extends(created, created) /\ Extends(completed, completed) /\ KeepsOrder(conformance, conformance)
      BY ItselfExtends, Zenon DEF StoreFits, RowsFit, AcksFit
    <2>2. \A q \in ToSet(completed) : vstatus[q] = "accepted" => vstatus'[q] = "accepted"
      <3>1. ToSet(completed) \subseteq Review
        BY DEF StoreFits, RowsFit, ToSet
      <3> QED BY <1>1, <1>5, <3>1
    <2> QED BY <1>1, <1>3, <1>4, <2>1, <2>2 DEF StoreGrows
  <1> QED BY <1>7, <1>8, <1>9, <1>10 DEF StoreGoesOn, StoreFits

LEMMA UpsertGoesOn ==
    ASSUME StoreFits, NEW r \in Review, NEW k, NEW v, UpsertVerdict(r, k, v), UNCHANGED findings
    PROVE  /\ StoreGoesOn
           /\ \A s \in Review : \A j : s # r \/ j # k => verdict'[s][j] = verdict[s][j]
           /\ verdict'[r][k] = v
  <1>1. /\ k \in ToSet(GroupsOf[r]) /\ verdict' = [verdict EXCEPT ![r] = [@ EXCEPT ![k] = v]]
        /\ UNCHANGED <<created, status, vstatus, completed, decisions, conformance, acknowledged>>
    BY DEF UpsertVerdict, findings
  <1>2. DOMAIN verdict = Review /\ \A s \in Review : DOMAIN verdict[s] = ToSet(GroupsOf[s])
    BY DEF StoreFits, RowsFit
  <1>3. /\ DOMAIN verdict' = Review
        /\ \A s \in Review : s # r => verdict'[s] = verdict[s]
        /\ verdict'[r] = [verdict[r] EXCEPT ![k] = v]
    BY <1>1, <1>2
  <1>4. \A s \in Review : DOMAIN verdict'[s] = ToSet(GroupsOf[s])
    BY <1>2, <1>3
  <1>5. verdict'[r][k] = v /\ \A j : j # k => verdict'[r][j] = verdict[r][j]
    BY <1>1, <1>2, <1>3
  <1>6. RowsFit'
    BY <1>1, <1>3, <1>4 DEF StoreFits, RowsFit
  <1>7. DecisionsFit'
    BY <1>1 DEF StoreFits, DecisionsFit, IsCompleted
  <1>8. AcksFit'
    BY <1>1 DEF StoreFits, AcksFit
  <1>9. StoreGrows
    <2>1. Extends(created, created) /\ Extends(completed, completed) /\ KeepsOrder(conformance, conformance)
      BY ItselfExtends, Zenon DEF StoreFits, RowsFit, AcksFit
    <2>2. Len(decisions) \in Nat
      BY DEF StoreFits, DecisionsFit
    <2> QED BY <1>1, <2>1, <2>2 DEF StoreGrows
  <1> QED BY <1>3, <1>5, <1>6, <1>7, <1>8, <1>9 DEF StoreGoesOn, StoreFits

\* The rows of reviews are as they were, and so are the findings.
LEMMA FindingsGoOn ==
    ASSUME StoreFits, UNCHANGED <<created, status, vstatus, completed, verdict, decisions>>,
           AcksFit', KeepsOrder(conformance, conformance')
    PROVE  StoreGoesOn
  <1>1. RowsFit'
    BY DEF StoreFits, RowsFit
  <1>2. DecisionsFit'
    BY DEF StoreFits, DecisionsFit, IsCompleted
  <1>3. Extends(created, created) /\ Extends(completed, completed)
    BY ItselfExtends, Zenon DEF StoreFits, RowsFit
  <1>4. Len(decisions) \in Nat
    BY DEF StoreFits, DecisionsFit
  <1>5. StoreGrows
    BY <1>3, <1>4 DEF StoreGrows
  <1> QED BY <1>1, <1>2, <1>5 DEF StoreGoesOn, StoreFits

LEMMA ConformanceGoesOn ==
    ASSUME StoreFits, NEW n \in DOMAIN FindingsOf, ConformanceEnds(n)
    PROVE  StoreGoesOn
  <1>1. /\ n \notin ToSet(conformance)
        /\ UNCHANGED <<created, status, vstatus, completed, verdict, decisions, acknowledged>>
    BY DEF ConformanceEnds
  <1>2. PICK i \in 1 .. Len(conformance) + 1 : conformance' = InsertAt(conformance, i, n)
    BY DEF ConformanceEnds
  <1>3. conformance \in Seq(DOMAIN FindingsOf) /\ IsOnce(conformance)
    BY DEF StoreFits, AcksFit
  <1>4. /\ conformance' \in Seq(DOMAIN FindingsOf) /\ IsOnce(conformance')
        /\ ToSet(conformance') = ToSet(conformance) \cup {n}
        /\ \A x, y \in ToSet(conformance) :
              Place(conformance, x) <= Place(conformance, y)
              => Place(conformance', x) <= Place(conformance', y)
    BY <1>1, <1>2, <1>3, InsertedPlaces
  <1>5. AcksFit'
    BY <1>1, <1>4 DEF StoreFits, AcksFit
  <1>6. KeepsOrder(conformance, conformance')
    BY <1>4 DEF KeepsOrder
  <1> QED BY <1>1, <1>5, <1>6, FindingsGoOn

LEMMA LocateGoesOn ==
    ASSUME StoreFits, LocateFinding, client.run \in ToSet(conformance)
    PROVE  StoreGoesOn
  <1> DEFINE found == {client.key} \cap FindingsOf[client.run]
  <1>1. UNCHANGED <<created, status, vstatus, completed, verdict, decisions, conformance>>
    BY DEF LocateFinding
  <1>2. acknowledged' \subseteq acknowledged \cup ({client.run} \X found)
    BY DEF LocateFinding
  <1>3. \A act \in {client.run} \X found : act[1] = client.run /\ act[2] \in FindingsOf[client.run]
    OBVIOUS
  <1>4. AcksFit'
    BY <1>1, <1>2, <1>3 DEF StoreFits, AcksFit
  <1>5. KeepsOrder(conformance, conformance)
    BY ItselfExtends, Zenon DEF StoreFits, AcksFit
  <1> QED BY <1>1, <1>4, <1>5, FindingsGoOn

-----------------------------------------------------------------------------
(* The client while others write                                            *)

\* It holds what it held; a Verdict may only take a group from those that match.
ClientStays ==
    /\ DOMAIN client' = DOMAIN Idle
    /\ client'.op = client.op /\ client'.at = client.at /\ client'.review = client.review
    /\ client'.filter = client.filter /\ client'.cursor = client.cursor
    /\ client'.todo = client.todo /\ client'.listed = client.listed
    /\ client'.status = client.status /\ client'.run = client.run
    /\ client'.decision = client.decision /\ client'.tail = client.tail
    /\ client'.groups = client.groups /\ client'.next = client.next
    /\ client'.items = client.items /\ client'.key = client.key /\ client'.shown = client.shown
    /\ client'.always \subseteq client.always
    /\ client.op # "groups" => client'.always = client.always
    /\ client.op = "groups" => \A k \in client'.always :
          client.filter = None \/ verdict[client.review][k] = client.filter =>
          client.filter = None \/ verdict'[client.review][k] = client.filter

LEMMA MoreIsCompleted ==
    ASSUME StoreGrows, NEW r, IsCompleted(r)
    PROVE  r \in ToSet(completed')
  BY DEF StoreGrows, Extends, IsCompleted

\* A sequence over a set is one over a larger set.
LEMMA LargerElements ==
    ASSUME NEW S, NEW T, S \subseteq T, NEW seq \in Seq(S)
    PROVE  seq \in Seq(T)
  <1>1. Len(seq) \in Nat /\ seq = [i \in 1 .. Len(seq) |-> seq[i]] /\ \A i \in 1 .. Len(seq) : seq[i] \in T
    BY ElementOf
  <1> DEFINE n == Len(seq)
             f == seq
  <1>2. seq \in [1 .. n -> T]
    BY <1>1
  <1> QED BY <1>1, <1>2

LEMMA LoopStays ==
    ASSUME StoreGrows, LoopFits, ClientStays
    PROVE  LoopFits'
  <1>1. IsWhole' => IsWhole
    BY DEF IsWhole, ClientStays
  <1> QED BY <1>1, MoreIsCompleted DEF LoopFits, ClientStays, IsCompleted

LEMMA InOrderStays ==
    ASSUME InOrder, UNCHANGED <<client.op, client.review, client.listed>>,
           client.op = "reviews" => /\ Extends(created, created')
                                    /\ client.listed \in Seq(SUBSET ToSet(created))
    PROVE  InOrder'
  <1> SUFFICES ASSUME NEW i \in DOMAIN client.listed, NEW j \in DOMAIN client.listed, i < j,
                      NEW x \in client.listed[i], NEW y \in client.listed[j]
               PROVE  Precedes(x, y)'
    BY DEF InOrder
  <1>1. Precedes(x, y)
    BY DEF InOrder
  <1>2. CASE client.op = "reviews"
    <2>1. x \in ToSet(created) /\ y \in ToSet(created)
      BY <1>2
    <2>2. Place(created', x) = Place(created, x) /\ Place(created', y) = Place(created, y)
      BY <1>2, <2>1 DEF Extends
    <2> QED BY <1>1, <1>2, <2>2 DEF Precedes
  <1>3. CASE client.op # "reviews"
    BY <1>1, <1>3 DEF Precedes
  <1> QED BY <1>2, <1>3

LEMMA GroupsStay ==
    ASSUME StoreGrows, LoopFits, GroupsFit, ClientStays
    PROVE  GroupsFit'
  <1> SUFFICES ASSUME client.op = "groups" PROVE GroupsFit'
    BY DEF ClientStays, GroupsFit
  <1> DEFINE r == client.review
             order == GroupsOf[r]
  <1>1. /\ client.at \in {"review", "sync", "groups", "verdicts", "done"}
        /\ client.always \subseteq {k \in ToSet(order) :
              client.filter = None \/ verdict[r][k] = client.filter}
        /\ client.cursor # None \/ client.always # {} => IsCompleted(r)
        /\ client.listed \in Seq(SUBSET ToSet(order)) /\ InOrder
    BY DEF GroupsFit
  <1>2. InOrder'
    BY <1>1, InOrderStays DEF ClientStays
  <1>3. /\ client'.always \subseteq ToSet(order)
        /\ \A k \in client'.always : client.filter = None \/ verdict'[r][k] = client.filter
    BY <1>1 DEF ClientStays
  <1>4. IsCompleted(r) => r \in ToSet(completed')
    BY MoreIsCompleted
  <1>5. Listed' = Listed
    BY DEF Listed, ClientStays
  <1> QED BY <1>1, <1>2, <1>3, <1>4, <1>5 DEF GroupsFit, ClientStays, IsCompleted

LEMMA ReviewsStay ==
    ASSUME StoreGrows, ReviewsFit, ClientStays
    PROVE  ReviewsFit'
  <1> SUFFICES ASSUME client.op = "reviews" PROVE ReviewsFit'
    BY DEF ClientStays, ReviewsFit
  <1>1. Extends(created, created')
    BY DEF StoreGrows
  <1>2. InOrder'
    BY <1>1, InOrderStays DEF ReviewsFit, ClientStays
  <1>3. Listed' = Listed /\ Coming' = Coming
    BY DEF Listed, Coming, ClientStays
  <1>4. ToSet(created) \subseteq ToSet(created') /\ \A x \in ToSet(created) : Place(created', x) = Place(created, x)
    BY <1>1 DEF Extends
  <1>5. /\ client.listed \in Seq(SUBSET ToSet(created))
        /\ client.todo \in Seq([review : ToSet(created), status : Statuses])
    BY DEF ReviewsFit
  <1>6. Listed \subseteq ToSet(created) /\ Coming \subseteq ToSet(created)
    <2>1. \A i \in DOMAIN client.listed : client.listed[i] \subseteq ToSet(created)
      BY <1>5
    <2>2. \A i \in DOMAIN client.todo : client.todo[i].review \in ToSet(created)
      <3> TAKE i \in DOMAIN client.todo
      <3>1. i \in 1 .. Len(client.todo)
        BY <1>5
      <3>2. client.todo[i] \in [review : ToSet(created), status : Statuses]
        BY <1>5, <3>1, ElementOf
      <3> QED BY <3>2
    <2> QED BY <2>1, <2>2 DEF Listed, Coming, ToSet
  <1>7. /\ client.listed \in Seq(SUBSET ToSet(created'))
        /\ client.todo \in Seq([review : ToSet(created'), status : Statuses])
    <2>1. /\ SUBSET ToSet(created) \subseteq SUBSET ToSet(created')
          /\ [review : ToSet(created), status : Statuses] \subseteq [review : ToSet(created'), status : Statuses]
      BY <1>4
    <2>2. client.listed \in Seq(SUBSET ToSet(created'))
      BY <1>5, <2>1, LargerElements
    <2>3. client.todo \in Seq([review : ToSet(created'), status : Statuses])
      <3> DEFINE older == [review : ToSet(created), status : Statuses]
                 newer == [review : ToSet(created'), status : Statuses]
      <3>1. client.todo \in Seq(older) /\ older \subseteq newer
        BY <1>5, <2>1
      <3>2. client.todo \in Seq(newer)
        <4> HIDE DEF older, newer
        <4> QED BY <3>1, LargerElements
      <3> QED BY <3>2
    <2> QED BY <2>2, <2>3
  <1>8. client.at = "view" =>
          \A i \in DOMAIN client.listed : i < Len(client.listed) =>
              \A x \in client.listed[i], y \in Coming : Precedes(x, y)'
    <2> SUFFICES ASSUME client.at = "view", NEW i \in DOMAIN client.listed, i < Len(client.listed),
                        NEW x \in client.listed[i], NEW y \in Coming
                 PROVE  Precedes(x, y)'
      OBVIOUS
    <2>1. Precedes(x, y)
      BY DEF ReviewsFit
    <2>2. x \in ToSet(created) /\ y \in ToSet(created)
      BY <1>5, <1>6
    <2> QED BY <1>4, <2>1, <2>2 DEF Precedes, ClientStays
  <1>9. client.at # "done" /\ client.cursor # None =>
          /\ client.cursor \in ToSet(created')
          /\ \A r \in Listed \cup Coming : Place(created', r) >= Place(created', client.cursor)
          /\ \A r \in client.always :
                Place(created', r) >= Place(created', client.cursor) => r \in Listed \cup Coming
    <2> SUFFICES ASSUME client.at # "done", client.cursor # None
                 PROVE  /\ client.cursor \in ToSet(created')
                        /\ \A r \in Listed \cup Coming : Place(created', r) >= Place(created', client.cursor)
                        /\ \A r \in client.always :
                              Place(created', r) >= Place(created', client.cursor) => r \in Listed \cup Coming
      OBVIOUS
    <2>1. /\ client.cursor \in ToSet(created) /\ client.always \subseteq ToSet(created)
          /\ \A r \in Listed \cup Coming : Place(created, r) >= Place(created, client.cursor)
          /\ \A r \in client.always :
                Place(created, r) >= Place(created, client.cursor) => r \in Listed \cup Coming
      BY DEF ReviewsFit
    <2> QED BY <1>4, <1>6, <2>1
  <1> QED BY <1>2, <1>3, <1>4, <1>7, <1>8, <1>9 DEF ReviewsFit, ClientStays

LEMMA ReportStays ==
    ASSUME StoreGrows, DecisionsFit, DecisionsFit', ReportFits, ClientStays
    PROVE  ReportFits'
  <1> SUFFICES ASSUME client.op = "report" PROVE ReportFits'
    BY DEF ClientStays, ReportFits
  <1>1. IsCompleted(client.review) => client.review \in ToSet(completed')
    BY MoreIsCompleted
  <1>2. /\ Len(decisions) \in Nat /\ Len(decisions') \in Nat /\ Len(decisions) <= Len(decisions')
        /\ \A i \in 1 .. Len(decisions) : decisions'[i] = decisions[i]
    BY DEF StoreGrows, DecisionsFit
  <1>3. \A s : (\E i \in 1 .. Len(decisions) : decisions[i] = [review |-> client.review, outcome |-> s])
          => \E i \in 1 .. Len(decisions') : decisions'[i] = [review |-> client.review, outcome |-> s]
    <2> TAKE s
    <2> HAVE \E i \in 1 .. Len(decisions) : decisions[i] = [review |-> client.review, outcome |-> s]
    <2>1. PICK i \in 1 .. Len(decisions) : decisions[i] = [review |-> client.review, outcome |-> s]
      OBVIOUS
    <2>2. i \in 1 .. Len(decisions') /\ decisions'[i] = decisions[i]
      BY <1>2
    <2> QED BY <2>1, <2>2
  <1>4. client.decision \in 0 .. Len(decisions) =>
          /\ client.decision \in 0 .. Len(decisions')
          /\ client.decision # 0 => decisions'[client.decision] = decisions[client.decision]
    BY <1>2
  <1> QED BY <1>1, <1>3, <1>4 DEF ReportFits, ClientStays, IsCompleted

LEMMA MapStays ==
    ASSUME StoreGrows, RowsFit, MapFits, ClientStays
    PROVE  MapFits'
  <1> SUFFICES ASSUME client.op = "map" PROVE MapFits'
    BY DEF ClientStays, MapFits
  <1>1. client'.always = client.always
    BY DEF ClientStays
  <1>2. /\ \A r \in client.always : r \in ToSet(completed) /\ vstatus[r] = "accepted"
        /\ client.at \in {"runs", "version", "done"} /\ (client.at # "done" => client.run = None)
    BY DEF MapFits, IsCompleted
  <1>3. /\ ToSet(completed) \subseteq ToSet(completed')
        /\ \A x \in ToSet(completed) : Place(completed', x) = Place(completed, x)
        /\ \A r \in ToSet(completed) : vstatus[r] = "accepted" => vstatus'[r] = "accepted"
    BY DEF StoreGrows, Extends
  <1>4. client.at = "version" =>
          /\ client.todo \in Seq(ToSet(completed'))
          /\ \A i, j \in 1 .. Len(client.todo) : i < j =>
                Place(completed', client.todo[j]) < Place(completed', client.todo[i])
          /\ client.always \subseteq ToSet(client.todo)
    <2> SUFFICES ASSUME client.at = "version"
                 PROVE  /\ client.todo \in Seq(ToSet(completed'))
                        /\ \A i, j \in 1 .. Len(client.todo) : i < j =>
                              Place(completed', client.todo[j]) < Place(completed', client.todo[i])
                        /\ client.always \subseteq ToSet(client.todo)
      OBVIOUS
    <2>1. /\ client.todo \in Seq(ToSet(completed))
          /\ \A i, j \in 1 .. Len(client.todo) : i < j =>
                Place(completed, client.todo[j]) < Place(completed, client.todo[i])
          /\ client.always \subseteq ToSet(client.todo)
      BY DEF MapFits
    <2>2. \A i \in 1 .. Len(client.todo) : client.todo[i] \in ToSet(completed)
      BY <2>1
    <2>3. client.todo \in Seq(ToSet(completed'))
      BY <1>3, <2>1
    <2> QED BY <1>3, <2>1, <2>2, <2>3
  <1>5. client.at = "done" =>
          /\ client.run # None => client.run \in ToSet(completed') /\ vstatus'[client.run] = "accepted"
          /\ \A r \in client.always :
                client.run # None /\ Place(completed', client.run) >= Place(completed', r)
    BY <1>2, <1>3 DEF MapFits, MapIsNotOutdated, IsCompleted
  <1>6. client.at = "done" => MapIsNotOutdated'
    BY <1>1, <1>5 DEF MapIsNotOutdated, ClientStays
  <1> QED BY <1>1, <1>2, <1>3, <1>4, <1>5, <1>6 DEF MapFits, IsCompleted, ClientStays

LEMMA ActsStay ==
    ASSUME StoreGrows, AcksFit, AcksFit', ActsFit, ClientStays
    PROVE  ActsFit'
  <1> SUFFICES ASSUME client.op \in {"findings", "acknowledge", "draft"} PROVE ActsFit'
    BY DEF ClientStays, ActsFit
  <1>1. /\ ToSet(conformance) \subseteq ToSet(conformance')
        /\ \A x, y \in ToSet(conformance) :
              Place(conformance, x) <= Place(conformance, y) =>
              Place(conformance', x) <= Place(conformance', y)
    BY DEF StoreGrows, KeepsOrder
  <1>2. conformance \in Seq(DOMAIN FindingsOf) /\ conformance' \in Seq(DOMAIN FindingsOf)
    BY DEF AcksFit
  <1>3. None \notin ToSet(conformance) /\ None \notin ToSet(conformance')
    <2>1. ToSet(conformance) \subseteq DOMAIN FindingsOf /\ ToSet(conformance') \subseteq DOMAIN FindingsOf
      BY <1>2 DEF ToSet
    <2> QED BY <2>1, QueriesAssumption
  <1>4. /\ \A x : Place(conformance, x) \in Nat /\ Place(conformance', x) \in Nat
        /\ \A x \in ToSet(conformance) : Place(conformance, x) > 0
        /\ Place(conformance, None) = 0 /\ Place(conformance', None) = 0
    <2>1. \A x : Place(conformance, x) \in 0 .. Len(conformance) /\ Place(conformance', x) \in 0 .. Len(conformance')
      BY <1>2, PlaceOf, Zenon
    <2>2. \A x \in ToSet(conformance) : Place(conformance, x) \in 1 .. Len(conformance)
      BY <1>2, PlaceOf, Zenon
    <2>3. Place(conformance, None) = 0 /\ Place(conformance', None) = 0
      BY <1>2, <1>3, PlaceOf, Zenon
    <2>4. Len(conformance) \in Nat /\ Len(conformance') \in Nat
      BY <1>2
    <2> QED BY <2>1, <2>2, <2>3, <2>4
  <1>5. \A x, y \in ToSet(conformance) \cup {None} :
          Place(conformance, x) >= Place(conformance, y) => Place(conformance', x) >= Place(conformance', y)
    BY <1>1, <1>4
  <1>6. client.shown \in ToSet(conformance) \cup {None}
    BY DEF ActsFit
  <1>7. client.at # "latest" => Place(conformance', client.run) >= Place(conformance', client.shown)
    BY <1>5, <1>6 DEF ActsFit
  <1> QED BY <1>1, <1>7 DEF ActsFit, ClientStays

LEMMA ClientStaysFit ==
    ASSUME StoreFits, StoreGoesOn, ClientFits, ClientStays
    PROVE  ClientFits'
  <1>1. LoopFits'
    BY LoopStays DEF ClientFits, StoreGoesOn
  <1>2. GroupsFit'
    BY GroupsStay DEF ClientFits, StoreGoesOn
  <1>3. ReviewsFit'
    BY ReviewsStay DEF ClientFits, StoreGoesOn
  <1>4. ReportFits'
    BY ReportStays DEF ClientFits, StoreGoesOn, StoreFits
  <1>5. MapFits'
    BY MapStays DEF ClientFits, StoreGoesOn, StoreFits
  <1>6. ActsFit'
    BY ActsStay DEF ClientFits, StoreGoesOn, StoreFits
  <1> QED BY <1>1, <1>2, <1>3, <1>4, <1>5, <1>6 DEF ClientFits, ClientStays

\* Who writes leaves the client alone, but for the groups that match all along.
LEMMA SameClientStays ==
    ASSUME ClientFits, client' = client,
           client.op = "groups" => UNCHANGED verdict
    PROVE  ClientStays
  <1>1. client.op = "groups" => client.always \subseteq {k \in ToSet(GroupsOf[client.review]) :
              client.filter = None \/ verdict[client.review][k] = client.filter}
    BY DEF ClientFits, GroupsFit
  <1> QED BY <1>1 DEF ClientStays, ClientFits

LEMMA UpheldStays ==
    ASSUME StoreFits, ClientFits, NEW r \in Review, NEW k, NEW v,
           UpsertVerdict(r, k, v), UNCHANGED findings
    PROVE  ClientStays
  <1>1. /\ \A s \in Review : \A j : s # r \/ j # k => verdict'[s][j] = verdict[s][j]
        /\ verdict'[r][k] = v
    BY UpsertGoesOn
  <1>2. client' = Upheld(r, k, v) /\ DOMAIN client = DOMAIN Idle
    BY DEF UpsertVerdict, ClientFits
  <1>3. CASE client.op = "groups" /\ client.review = r /\ client.filter \notin {None, v}
    <2>1. client' = [client EXCEPT !.always = @ \ {k}]
      BY <1>2, <1>3 DEF Upheld
    <2>2. client'.always = client.always \ {k}
      BY <1>2, <2>1 DEF Idle
    <2> QED BY <1>1, <1>2, <1>3, <2>1, <2>2 DEF ClientStays, Idle
  <1>4. CASE ~(client.op = "groups" /\ client.review = r /\ client.filter \notin {None, v})
    <2>1. client' = client
      BY <1>2, <1>4 DEF Upheld
    <2>2. client.op = "groups" => client.review \in Review
      BY DEF ClientFits, LoopFits
    <2>3. client.op # "groups" => ClientStays
      BY <1>2, <2>1 DEF ClientStays
    <2>4. ASSUME client.op = "groups", NEW j,
                 client.filter = None \/ verdict[client.review][j] = client.filter
          PROVE  client.filter = None \/ verdict'[client.review][j] = client.filter
      BY <1>1, <1>4, <2>2, <2>4
    <2>5. client.op = "groups" => ClientStays
      BY <1>2, <2>1, <2>4 DEF ClientStays
    <2> QED BY <2>3, <2>5
  <1> QED BY <1>3, <1>4

LEMMA WritesFit ==
    ASSUME QInv, Writes
    PROVE  QInv'
  <1>1. UNCHANGED findings /\ StoreFits /\ ClientFits
    BY DEF Writes, QInv
  <1>2. PICK r \in Review :
           \/ InsertChangeReview(r) \/ RunEnds(r) \/ LateSync(r) \/ WithdrawReview(r)
           \/ \E outcome \in {"accepted", "rejected"} : StoreDecide(r, outcome)
           \/ \E k \in ToSet(GroupsOf[r]), v \in Verdict : UpsertVerdict(r, k, v)
    BY DEF Writes
  <1>3. CASE InsertChangeReview(r) \/ RunEnds(r) \/ LateSync(r) \/ WithdrawReview(r)
             \/ \E outcome \in {"accepted", "rejected"} : StoreDecide(r, outcome)
    <2>1. client' = client /\ verdict' = verdict
      BY <1>3 DEF InsertChangeReview, RunEnds, LateSync, WithdrawReview, StoreDecide
    <2>2. ClientStays
      BY <1>1, <2>1, SameClientStays
    <2>3. StoreGoesOn
      BY <1>1, <1>3, InsertGoesOn, RunEndsGoesOn, LateSyncGoesOn, WithdrawGoesOn, DecideGoesOn
    <2> QED BY <1>1, <2>2, <2>3, ClientStaysFit DEF StoreGoesOn, QInv
  <1>4. CASE \E k \in ToSet(GroupsOf[r]), v \in Verdict : UpsertVerdict(r, k, v)
    <2>1. StoreGoesOn /\ ClientStays
      BY <1>1, <1>4, UpsertGoesOn, UpheldStays
    <2> QED BY <1>1, <2>1, ClientStaysFit DEF StoreGoesOn, QInv
  <1> QED BY <1>2, <1>3, <1>4

LEMMA ConformanceFits ==
    ASSUME QInv, NEW n \in DOMAIN FindingsOf, ConformanceEnds(n)
    PROVE  QInv'
  <1>1. StoreGoesOn
    BY ConformanceGoesOn DEF QInv
  <1>2. client' = client /\ verdict' = verdict
    BY DEF ConformanceEnds
  <1>3. ClientStays
    BY <1>2, SameClientStays DEF QInv
  <1> QED BY <1>1, <1>3, ClientStaysFit DEF StoreGoesOn, QInv

LEMMA StutterFits ==
    ASSUME QInv, UNCHANGED queryVars
    PROVE  QInv'
  <1>1. UNCHANGED store /\ client' = client /\ verdict' = verdict
    BY DEF queryVars, store, findings
  <1>2. StoreGoesOn /\ ClientStays
    BY <1>1, StoreStays, SameClientStays DEF QInv
  <1> QED BY <1>2, ClientStaysFit DEF StoreGoesOn, QInv

-----------------------------------------------------------------------------
(* A query that is asked                                                    *)

LEMMA AskedFits ==
    ASSUME QInv, UNCHANGED store, ClientFits'
    PROVE  QInv'
  BY StoreStays DEF QInv, StoreGoesOn

LEMMA AskGroupsFits ==
    ASSUME QInv, NEW r \in Review, NEW f, AskGroups(r, f)
    PROVE  QInv'
  <1> DEFINE always == IF ~IsCompleted(r) THEN {}
                       ELSE {k \in ToSet(GroupsOf[r]) : f = None \/ verdict[r][k] = f}
  <1>1. /\ client' = [Idle EXCEPT !.op = "groups", !.at = "review", !.review = r, !.filter = f,
                                  !.always = always]
        /\ UNCHANGED store
    BY DEF AskGroups, Ask
  <1>2. /\ client'.op = "groups" /\ client'.at = "review" /\ client'.review = r /\ client'.filter = f
        /\ client'.always = always /\ client'.groups = {} /\ client'.next = None
        /\ client'.cursor = None /\ client'.listed = <<>> /\ DOMAIN client' = DOMAIN Idle
    BY <1>1 DEF Idle
  <1>3. completed' = completed /\ verdict' = verdict
    BY <1>1 DEF store
  <1>4. LoopFits'
    BY <1>2 DEF LoopFits
  <1>5. GroupsFit'
    <2>1. always \subseteq {k \in ToSet(GroupsOf[r]) : f = None \/ verdict[r][k] = f}
      OBVIOUS
    <2>2. always # {} => r \in ToSet(completed)
      BY DEF IsCompleted
    <2>3. client'.listed \in Seq(SUBSET ToSet(GroupsOf[r])) /\ InOrder'
      BY <1>2 DEF InOrder
    <2> HIDE DEF always
    <2> QED BY <1>2, <1>3, <2>1, <2>2, <2>3 DEF GroupsFit, IsCompleted
  <1>6. ReviewsFit' /\ ReportFits' /\ MapFits' /\ ActsFit'
    BY <1>2 DEF ReviewsFit, ReportFits, MapFits, ActsFit
  <1> QED BY <1>1, <1>2, <1>4, <1>5, <1>6, AskedFits DEF ClientFits

LEMMA AskReportFits ==
    ASSUME QInv, NEW r \in Review, AskReport(r)
    PROVE  QInv'
  <1>1. client' = [Idle EXCEPT !.op = "report", !.at = "review", !.review = r] /\ UNCHANGED store
    BY DEF AskReport, Ask
  <1>2. /\ client'.op = "report" /\ client'.at = "review" /\ client'.review = r
        /\ client'.always = {} /\ client'.cursor = None /\ client'.groups = {} /\ client'.next = None
        /\ DOMAIN client' = DOMAIN Idle
    BY <1>1 DEF Idle
  <1>3. LoopFits' /\ GroupsFit' /\ ReviewsFit' /\ ReportFits' /\ MapFits' /\ ActsFit'
    BY <1>2 DEF LoopFits, GroupsFit, ReviewsFit, ReportFits, MapFits, ActsFit
  <1> QED BY <1>1, <1>2, <1>3, AskedFits DEF ClientFits

LEMMA AskReviewsFits ==
    ASSUME QInv, AskReviews
    PROVE  QInv'
  <1>1. /\ client' = [Idle EXCEPT !.op = "reviews", !.at = "list", !.always = ToSet(created)]
        /\ UNCHANGED store
    BY DEF AskReviews, Ask
  <1>2. /\ client'.op = "reviews" /\ client'.at = "list" /\ client'.always = ToSet(created)
        /\ client'.cursor = None /\ client'.listed = <<>> /\ client'.todo = <<>>
        /\ DOMAIN client' = DOMAIN Idle /\ created' = created
    BY <1>1 DEF Idle, store
  <1>3. InOrder' /\ client'.listed \in Seq(SUBSET ToSet(created'))
        /\ client'.todo \in Seq([review : ToSet(created'), status : Statuses])
    BY <1>2 DEF InOrder
  <1>4. ReviewsFit'
    BY <1>2, <1>3 DEF ReviewsFit
  <1>5. LoopFits' /\ GroupsFit' /\ ReportFits' /\ MapFits' /\ ActsFit'
    BY <1>2 DEF LoopFits, GroupsFit, ReportFits, MapFits, ActsFit
  <1> QED BY <1>1, <1>2, <1>4, <1>5, AskedFits DEF ClientFits

\* The run of the map, if there is one, is a completed one of an accepted version.
LEMMA BestRunIsAccepted ==
    ASSUME RowsFit, NEW r \in BestRun
    PROVE  IsCompleted(r) /\ vstatus[r] = "accepted"
  <1> DEFINE all == Newest(completed)
             T(x) == vstatus[x] = "accepted"
             i == SelectInSeq(all, LAMBDA x : vstatus[x] = "accepted")
  <1>1. completed \in Seq(Review) /\ IsOnce(completed)
    BY DEF RowsFit
  <1>2. all \in Seq(Review) /\ ToSet(all) = ToSet(completed)
    BY <1>1, ReversedPlaces
  <1>3. i # 0 /\ r = all[i]
    BY DEF BestRun
  <1>4. i \in {n \in 1 .. Len(all) : vstatus[all[n]] = "accepted"}
    <2> DEFINE S == {n \in 1 .. Len(all) : vstatus[all[n]] = "accepted"}
    <2>1. i = IF S = {} THEN 0 ELSE Min(S)
      BY DEF SelectInSeq
    <2>2. S # {} /\ S \in SUBSET Nat
      BY <1>3, <2>1
    <2> QED BY <2>1, <2>2, MinIsLeast
  <1>5. vstatus[r] = "accepted" /\ i \in DOMAIN all
    BY <1>2, <1>3, <1>4
  <1>6. r \in ToSet(all)
    BY <1>3, <1>5 DEF ToSet
  <1> QED BY <1>2, <1>5, <1>6 DEF IsCompleted

LEMMA AskMapFits ==
    ASSUME QInv, AskMap
    PROVE  QInv'
  <1>1. /\ client' = [Idle EXCEPT !.op = "map", !.at = "runs", !.always = BestRun]
        /\ UNCHANGED store
    BY DEF AskMap, Ask
  <1>2. /\ client'.op = "map" /\ client'.at = "runs" /\ client'.always = BestRun
        /\ client'.run = None /\ DOMAIN client' = DOMAIN Idle
        /\ completed' = completed /\ vstatus' = vstatus
    BY <1>1 DEF Idle, store
  <1>3. \A r \in BestRun : r \in ToSet(completed) /\ vstatus[r] = "accepted"
    BY BestRunIsAccepted DEF QInv, StoreFits, IsCompleted
  <1>4. MapFits'
    BY <1>2, <1>3 DEF MapFits, IsCompleted
  <1>5. LoopFits' /\ GroupsFit' /\ ReviewsFit' /\ ReportFits' /\ ActsFit'
    BY <1>2 DEF LoopFits, GroupsFit, ReviewsFit, ReportFits, ActsFit
  <1> QED BY <1>1, <1>2, <1>4, <1>5, AskedFits DEF ClientFits

\* The newest conformance run stands last.
LEMMA LatestIsLast ==
    ASSUME AcksFit, NEW n, n = FindLatestConformanceRun
    PROVE  /\ conformance # <<>> => n \in ToSet(conformance)
           /\ n \in ToSet(conformance) \cup {None}
           /\ \A m \in ToSet(conformance) \cup {None} : Place(conformance, n) >= Place(conformance, m)
  <1>1. conformance \in Seq(DOMAIN FindingsOf) /\ IsOnce(conformance) /\ Len(conformance) \in Nat
    BY DEF AcksFit
  <1>2. None \notin ToSet(conformance)
    BY <1>1, QueriesAssumption DEF ToSet
  <1>3. Place(conformance, None) = 0 /\ \A m : Place(conformance, m) \in 0 .. Len(conformance)
    BY <1>1, <1>2, PlaceOf, Zenon
  <1>4. CASE conformance = <<>>
    <2>1. n = None /\ ToSet(conformance) = {}
      BY <1>4 DEF FindLatestConformanceRun, ToSet
    <2> QED BY <1>3, <1>4, <2>1
  <1>5. CASE conformance # <<>>
    <2>1. Len(conformance) \in 1 .. Len(conformance) /\ n = conformance[Len(conformance)]
      BY <1>1, <1>5 DEF FindLatestConformanceRun, Last
    <2>2. Place(conformance, n) = Len(conformance) /\ n \in ToSet(conformance)
      BY <1>1, <2>1, PlaceIs
    <2> QED BY <1>1, <1>3, <2>2
  <1> QED BY <1>4, <1>5

LEMMA AskFindingsFits ==
    ASSUME QInv, AskFindings
    PROVE  QInv'
  <1> DEFINE n == FindLatestConformanceRun
  <1>1. /\ client' = [Idle EXCEPT !.op = "findings", !.at = "latest", !.shown = n]
        /\ UNCHANGED store
    BY DEF AskFindings, Ask
  <1>2. /\ client'.op = "findings" /\ client'.at = "latest" /\ client'.shown = n
        /\ client'.key = None /\ DOMAIN client' = DOMAIN Idle /\ conformance' = conformance
    BY <1>1 DEF Idle, store, findings
  <1>3. n \in ToSet(conformance) \cup {None}
    BY LatestIsLast DEF QInv, StoreFits
  <1> HIDE DEF n
  <1>4. ActsFit'
    BY <1>2, <1>3 DEF ActsFit
  <1>5. LoopFits' /\ GroupsFit' /\ ReviewsFit' /\ ReportFits' /\ MapFits'
    BY <1>2 DEF LoopFits, GroupsFit, ReviewsFit, ReportFits, MapFits
  <1> QED BY <1>1, <1>2, <1>4, <1>5, AskedFits DEF ClientFits

LEMMA ActOnFindingFits ==
    ASSUME QInv, NEW op \in {"acknowledge", "draft"}, NEW key, ActOnFinding(op, key)
    PROVE  QInv'
  <1>1. /\ client.op = "findings" /\ client.at = "done" /\ key \in client.items
        /\ client' = [Idle EXCEPT !.op = op, !.at = "latest", !.shown = client.run, !.key = key]
        /\ UNCHANGED store
    BY DEF ActOnFinding
  <1>2. /\ client'.op = op /\ client'.at = "latest" /\ client'.shown = client.run
        /\ client'.key = key /\ DOMAIN client' = DOMAIN Idle /\ conformance' = conformance
    BY <1>1 DEF Idle, store, findings
  <1>3. client.run \in ToSet(conformance) /\ key \in FindingsOf[client.run]
    BY <1>1 DEF QInv, ClientFits, ActsFit
  <1>4. ActsFit'
    BY <1>2, <1>3 DEF ActsFit
  <1>5. LoopFits' /\ GroupsFit' /\ ReviewsFit' /\ ReportFits' /\ MapFits'
    BY <1>2 DEF LoopFits, GroupsFit, ReviewsFit, ReportFits, MapFits
  <1> QED BY <1>1, <1>2, <1>4, <1>5, AskedFits DEF ClientFits

-----------------------------------------------------------------------------
(* The awaits of a listing of groups and of a report                        *)

\* What client' has in common with client: where it stands, and what is told of the
\* review, are for the step to say.
KeepsPages ==
    /\ DOMAIN client' = DOMAIN Idle /\ client'.op = client.op /\ client'.review = client.review
    /\ client'.filter = client.filter /\ client'.always = client.always
    /\ client'.cursor = client.cursor /\ client'.listed = client.listed

KeepsGroups == client'.groups = client.groups /\ client'.next = client.next

\* Of the store a listing of groups depends on the runs and the Verdicts.
LEMMA GroupsGoOn ==
    ASSUME GroupsFit, client.at # "done", KeepsPages, UNCHANGED <<completed, verdict>>,
           client.op = "groups" => client'.at \in {"review", "sync", "groups", "verdicts"}
    PROVE  GroupsFit'
  <1> SUFFICES ASSUME client.op = "groups" PROVE GroupsFit'
    BY DEF GroupsFit, KeepsPages
  <1>1. Listed' = Listed
    BY DEF Listed, KeepsPages
  <1>2. InOrder'
    BY InOrderStays DEF GroupsFit, KeepsPages
  <1> QED BY <1>1, <1>2 DEF GroupsFit, KeepsPages, IsCompleted

\* A step of one query is none of another.
LEMMA OnlyLoops ==
    ASSUME client'.op \in {"groups", "report"}
    PROVE  ReviewsFit' /\ MapFits' /\ ActsFit'
  BY DEF ReviewsFit, MapFits, ActsFit

LEMMA WhereItStands ==
    ASSUME ClientFits
    PROVE  /\ client.at \in {"review", "sync", "groups", "verdicts"} => client.op \in {"groups", "report"}
           /\ client.at \in {"run", "decision", "tail"} => client.op = "report"
           /\ client.at \in {"list", "view"} => client.op = "reviews"
           /\ client.at \in {"runs", "version"} => client.op = "map"
           /\ client.at \in {"latest", "findings"} => client.op \in {"findings", "acknowledge", "draft"}
  BY DEF ClientFits, GroupsFit, ReportFits, ReviewsFit, MapFits, ActsFit

\* A review that is read as ready or decided has its run, and its decision.
LEMMA StatusIsTold ==
    ASSUME DecisionsFit, NEW r \in Review
    PROVE  /\ status[r] \in {"ready", "accepted", "rejected"} => IsCompleted(r)
           /\ status[r] \in {"accepted", "rejected"} => \E i \in 1 .. Len(decisions) :
                  decisions[i] = [review |-> r, outcome |-> status[r]]
  BY DEF DecisionsFit

LEMMA AfterReviewFits ==
    ASSUME StoreFits, ClientFits, client.at \in {"review", "sync"},
           KeepsPages, KeepsGroups, UNCHANGED <<completed, verdict, decisions>>,
           client'.at \in {"sync", AfterSync},
           client'.at = "run" =>
              /\ client'.status \in {"ready", "accepted", "rejected"} => IsCompleted(client.review)
              /\ client'.status \in {"accepted", "rejected"} => \E i \in 1 .. Len(decisions) :
                    decisions[i] = [review |-> client.review, outcome |-> client'.status]
    PROVE  ClientFits'
  <1>1. client.op \in {"groups", "report"} /\ client'.op = client.op
    BY WhereItStands DEF KeepsPages
  <1>2. client'.at \in {"sync", "groups", "run"} /\ (client'.at = "groups" => client.op = "groups")
        /\ (client'.at = "run" => client.op = "report")
    BY <1>1 DEF AfterSync
  <1>3. client.op = "groups" /\ IsWhole => IsCompleted(client.review)
    BY DEF ClientFits, GroupsFit, IsWhole
  <1>4. IsWhole' => client.op = "report" \/ IsWhole
    BY DEF IsWhole, KeepsPages
  <1>5. LoopFits'
    BY <1>1, <1>2, <1>3, <1>4 DEF LoopFits, KeepsPages, KeepsGroups, ClientFits, IsCompleted
  <1>6. GroupsFit'
    BY <1>1, <1>2, GroupsGoOn DEF ClientFits
  <1>7. ReportFits'
    BY <1>1, <1>2 DEF ReportFits, KeepsPages, ClientFits, IsCompleted
  <1>8. ReviewsFit' /\ MapFits' /\ ActsFit'
    BY <1>1, OnlyLoops
  <1> QED BY <1>1, <1>2, <1>5, <1>6, <1>7, <1>8 DEF ClientFits, KeepsPages

LEMMA ReadReviewFits ==
    ASSUME QInv, ReadReview
    PROVE  QInv'
  <1> DEFINE at == IF status[client.review] = "computing" THEN "sync" ELSE AfterSync
  <1>1. /\ client.at = "review" /\ UNCHANGED store
        /\ client' = [[client EXCEPT !.at = at] EXCEPT !.status = status[client.review]]
    BY DEF ReadReview, Proceed
  <1>2. KeepsPages /\ KeepsGroups /\ client'.at = at /\ client'.status = status[client.review]
    BY <1>1 DEF KeepsPages, KeepsGroups, QInv, ClientFits, Idle
  <1>3. client.review \in Review
    BY <1>1, WhereItStands DEF QInv, ClientFits, LoopFits
  <1>4. UNCHANGED <<completed, verdict, decisions>>
    BY <1>1 DEF store
  <1>5. ClientFits'
    BY <1>1, <1>2, <1>3, <1>4, StatusIsTold, AfterReviewFits DEF QInv, StoreFits
  <1> QED BY <1>1, <1>5, AskedFits

LEMMA SyncFits ==
    ASSUME QInv, Sync
    PROVE  QInv'
  <1>1. /\ client.at = "sync" /\ SyncStatus(client.review) /\ UNCHANGED findings
        /\ client' = [[client EXCEPT !.at = AfterSync] EXCEPT !.status = SyncedStatus(client.review)]
    BY DEF Sync, Proceed
  <1>2. KeepsPages /\ KeepsGroups /\ client'.at = AfterSync /\ client'.status = SyncedStatus(client.review)
    BY <1>1 DEF KeepsPages, KeepsGroups, QInv, ClientFits, Idle
  <1>3. client.review \in Review
    BY <1>1, WhereItStands DEF QInv, ClientFits, LoopFits
  <1>4. UNCHANGED <<completed, verdict, decisions>>
    BY <1>1 DEF SyncStatus
  <1>5. /\ client'.status \notin {"accepted", "rejected"}
        /\ client'.status = "ready" => IsCompleted(client.review)
    BY <1>2 DEF SyncedStatus
  <1>6. ClientFits'
    BY <1>1, <1>2, <1>4, <1>5, AfterReviewFits DEF QInv
  <1> QED BY <1>1, <1>3, <1>6, SyncGoesOn DEF QInv, StoreGoesOn

LEMMA ReadGroupsFits ==
    ASSUME QInv, ReadGroups
    PROVE  QInv'
  <1> DEFINE r == client.review
             order == GroupsOf[r]
             all == ToSet(order)
             rows == IF IsCompleted(r) THEN all ELSE {}
             page == StoredPage(r, client.next)
             later == After(r, client.next, rows)
  <1>1. /\ client.at = "groups" /\ UNCHANGED store
        /\ client' = [[client EXCEPT !.at = IF page.next = None THEN "verdicts" ELSE "groups"]
                        EXCEPT !.groups = @ \cup page.items, !.next = page.next]
    BY DEF ReadGroups, Proceed
  <1>2. /\ KeepsPages /\ client'.groups = client.groups \cup page.items /\ client'.next = page.next
        /\ client'.at = IF page.next = None THEN "verdicts" ELSE "groups"
        /\ client'.run = client.run /\ client'.status = client.status
        /\ client'.decision = client.decision /\ client'.tail = client.tail
    BY <1>1 DEF KeepsPages, QInv, ClientFits, Idle
  <1>3. client.op \in {"groups", "report"} /\ LoopFits /\ r \in Review
    BY <1>1, WhereItStands DEF QInv, ClientFits, LoopFits
  <1>4. /\ IsWhole => IsCompleted(r)
        /\ client.next = None => client.groups = {}
        /\ client.next # None =>
              /\ IsCompleted(r) /\ client.next \in all
              /\ client.groups = {k \in all : Place(order, k) <= Place(order, client.next)}
    BY <1>1, <1>3 DEF LoopFits
  <1>5. IsPage(page, order, later)
    <2>1. rows \subseteq all /\ (client.next = None \/ client.next \in rows)
      BY <1>4
    <2>2. page = GroupPage(r, rows, client.next, rows)
      BY DEF StoredPage
    <2> HIDE DEF rows, page
    <2> QED BY <1>3, <2>1, <2>2, GroupPageFits
  <1>6. later \subseteq all /\ (IsCompleted(r) => later = After(r, client.next, all))
        /\ (~IsCompleted(r) => later = {})
    BY DEF After
  <1>7. \A k : Place(order, k) \in Nat
    <2>1. order \in Seq(Nat)
      BY <1>3, QueriesAssumption
    <2>2. \A k : Place(order, k) \in 0 .. Len(order) /\ Len(order) \in Nat
      BY <2>1, PlaceOf
    <2> QED BY <2>2
  <1> HIDE DEF page, later
  <1>8. ASSUME page.next = None PROVE LoopFits'
    <2>1. later \subseteq page.items /\ page.items \subseteq later
      BY <1>5, <1>8 DEF IsPage
    <2>2. IsCompleted(r) => client'.groups = all
      <3> SUFFICES ASSUME IsCompleted(r) PROVE client.groups \cup later = all
        BY <1>2, <2>1
      <3>1. client.next = None => later = all /\ client.groups = {}
        BY <1>4, <1>6 DEF After
      <3>2. ASSUME client.next # None, NEW k \in all
            PROVE  k \in client.groups \cup later
        <4>1. Place(order, k) <= Place(order, client.next) \/ Place(order, k) > Place(order, client.next)
          BY <1>7
        <4> QED BY <1>4, <1>6, <3>2, <4>1 DEF After
      <3>3. client.groups \subseteq all
        BY <1>4
      <3> QED BY <1>6, <3>1, <3>2, <3>3
    <2>3. ~IsCompleted(r) => client'.groups = {}
      BY <1>2, <1>4, <1>6, <2>1
    <2>4. IsWhole' => IsWhole
      BY <1>2 DEF IsWhole, KeepsPages
    <2>5. completed' = completed
      BY <1>1 DEF store
    <2>6. client'.at = "verdicts" /\ client'.next = None /\ client'.review = r
          /\ client'.op \in {"groups", "report"}
      BY <1>2, <1>3, <1>8 DEF KeepsPages
    <2>7. IsCompleted(r) => r \in ToSet(completed')
      BY <2>5 DEF IsCompleted
    <2>8. /\ client'.groups \subseteq all /\ (IsWhole' => client'.groups = all)
          /\ client'.groups # {} => r \in ToSet(completed')
          /\ IsWhole' => r \in ToSet(completed')
      BY <1>4, <2>2, <2>3, <2>4, <2>7
    <2> QED BY <1>3, <2>6, <2>8 DEF LoopFits, IsCompleted
  <1>9. ASSUME page.next # None PROVE LoopFits'
    <2>1. /\ page.items \subseteq later /\ page.next \in page.items
          /\ \A k \in page.items : Place(order, k) <= Place(order, page.next)
          /\ \A k \in later : Place(order, k) <= Place(order, page.next) => k \in page.items
      BY <1>5, <1>9 DEF IsPage
    <2>2. IsCompleted(r) /\ later = After(r, client.next, all) /\ page.next \in all
      BY <1>6, <2>1
    <2>3. \A k \in later : client.next = None \/ Place(order, k) > Place(order, client.next)
      BY <2>2 DEF After
    <2>4. client'.groups = {k \in all : Place(order, k) <= Place(order, page.next)}
      <3>1. ASSUME NEW k \in client.groups
            PROVE  k \in all /\ Place(order, k) <= Place(order, page.next)
        <4>1. client.next # None /\ k \in all /\ Place(order, k) <= Place(order, client.next)
          BY <1>4, <3>1
        <4> QED BY <1>7, <2>1, <2>3, <4>1
      <3>2. ASSUME NEW k \in page.items
            PROVE  k \in all /\ Place(order, k) <= Place(order, page.next)
        BY <1>6, <2>1, <3>2
      <3>3. ASSUME NEW k \in all, Place(order, k) <= Place(order, page.next)
            PROVE  k \in client.groups \cup page.items
        <4>1. CASE client.next = None
          BY <2>1, <2>2, <3>3, <4>1 DEF After
        <4>2. CASE client.next # None /\ Place(order, k) <= Place(order, client.next)
          BY <1>4, <3>3, <4>2
        <4>3. CASE client.next # None /\ Place(order, k) > Place(order, client.next)
          BY <2>1, <2>2, <3>3, <4>3 DEF After
        <4> QED BY <1>7, <4>1, <4>2, <4>3
      <3> QED BY <1>2, <3>1, <3>2, <3>3
    <2>5. client'.at = "groups" /\ client'.next = page.next /\ client'.review = r
          /\ client'.op \in {"groups", "report"} /\ r \in ToSet(completed')
      BY <1>1, <1>2, <1>3, <1>9, <2>2 DEF KeepsPages, store, IsCompleted
    <2> QED BY <1>3, <1>9, <2>2, <2>4, <2>5 DEF LoopFits, IsCompleted
  <1>10. LoopFits'
    BY <1>8, <1>9
  <1>11. client'.at \in {"groups", "verdicts"}
    BY <1>2
  <1>12. UNCHANGED <<completed, verdict, decisions>>
    BY <1>1 DEF store
  <1>13. GroupsFit'
    BY <1>1, <1>2, <1>11, <1>12, GroupsGoOn DEF QInv, ClientFits
  <1>14. ReportFits'
    BY <1>1, <1>2, <1>11, <1>12 DEF QInv, ClientFits, ReportFits, KeepsPages, IsCompleted
  <1>15. ReviewsFit' /\ MapFits' /\ ActsFit'
    BY <1>2, <1>3, OnlyLoops DEF KeepsPages
  <1>16. ClientFits'
    BY <1>2, <1>3, <1>10, <1>11, <1>13, <1>14, <1>15 DEF ClientFits, KeepsPages
  <1> QED BY <1>1, <1>16, AskedFits

\* The parts of a sequence of sets after one more is appended.
IsLonger(longer, seq, items, T) ==
    /\ longer \in Seq(SUBSET T) /\ Len(longer) = Len(seq) + 1 /\ longer # <<>>
    /\ UNION ToSet(longer) = (UNION ToSet(seq)) \cup items
    /\ DOMAIN longer = 1 .. Len(seq) + 1 /\ longer[Len(seq) + 1] = items
    /\ \A i \in 1 .. Len(seq) : longer[i] = seq[i] /\ seq[i] \subseteq UNION ToSet(seq)
    /\ UNION ToSet(seq) \subseteq T

LEMMA OneMorePage ==
    ASSUME NEW T, NEW seq \in Seq(SUBSET T), NEW items \in SUBSET T
    PROVE  IsLonger(Append(seq, items), seq, items, T)
  <1> DEFINE n == Len(seq)
             longer == Append(seq, items)
  <1>1. n \in Nat /\ Len(longer) = n + 1 /\ longer[n + 1] = items
        /\ \A i \in 1 .. n : longer[i] = seq[i]
    OBVIOUS
  <1>2. DOMAIN longer = 1 .. n + 1 /\ DOMAIN seq = 1 .. n
    OBVIOUS
  <1>3. longer \in Seq(SUBSET T) /\ longer # <<>>
    <2>1. longer \in Seq(SUBSET T)
      OBVIOUS
    <2> QED BY <1>1, <2>1
  <1>4. \A i \in 1 .. n : seq[i] \in ToSet(seq) /\ seq[i] \in SUBSET T
    BY <1>2, ElementOf DEF ToSet
  <1>5. ToSet(longer) = ToSet(seq) \cup {items}
    <2>1. \A i \in 1 .. n + 1 : i \in 1 .. n \/ i = n + 1
      BY <1>1
    <2>2. \A i \in 1 .. n : i \in 1 .. n + 1
      BY <1>1
    <2>3. n + 1 \in 1 .. n + 1
      BY <1>1
    <2> HIDE DEF n
    <2> QED BY <1>1, <1>2, <2>1, <2>2, <2>3 DEF ToSet
  <1>6. UNION ToSet(longer) = (UNION ToSet(seq)) \cup items
    BY <1>5
  <1>7. UNION ToSet(seq) \subseteq T
    BY <1>2, <1>4 DEF ToSet
  <1> QED BY <1>1, <1>2, <1>3, <1>4, <1>6, <1>7 DEF IsLonger

\* The page that is listed next goes on after the cursor.
LEMMA NextPageFits ==
    ASSUME GroupsFit, client.op = "groups", client.at # "done", client.review \in Review,
           NEW items, NEW next,
           client'.op = "groups", client'.review = client.review,
           client'.filter = client.filter, client'.always = client.always,
           client'.listed = Append(client.listed, items), client'.cursor = next,
           client'.at = IF next = None THEN "done" ELSE "review",
           UNCHANGED <<completed, verdict>>,
           NEW matching, matching \subseteq ToSet(GroupsOf[client.review]),
           client.always \subseteq matching,
           matching # {} => IsCompleted(client.review),
           IsPage([items |-> items, next |-> next], GroupsOf[client.review],
                  After(client.review, client.cursor, matching))
    PROVE  GroupsFit'
  <1> DEFINE r == client.review
             order == GroupsOf[r]
             all == ToSet(order)
             later == After(r, client.cursor, matching)
  <1>1. /\ items \subseteq later
        /\ next = None => later \subseteq items
        /\ next # None =>
              /\ next \in items
              /\ \A k \in items : Place(order, k) <= Place(order, next)
              /\ \A k \in later : Place(order, k) <= Place(order, next) => k \in items
    BY DEF IsPage
  <1>2. later = {k \in matching : client.cursor = None \/ Place(order, k) > Place(order, client.cursor)}
    BY DEF After
  <1>3. \A k : Place(order, k) \in Nat
    <2>1. order \in Seq(Nat)
      BY QueriesAssumption
    <2>2. \A k : Place(order, k) \in 0 .. Len(order) /\ Len(order) \in Nat
      BY <2>1, PlaceOf
    <2> QED BY <2>2
  <1>4. /\ client.listed \in Seq(SUBSET all) /\ InOrder
        /\ client.cursor = None => client.listed = <<>>
        /\ client.cursor # None =>
              /\ \A k \in Listed : Place(order, k) <= Place(order, client.cursor)
              /\ \A k \in client.always :
                    Place(order, k) <= Place(order, client.cursor) => k \in Listed
        /\ client.always # {} => IsCompleted(r)
        /\ client.always \subseteq {k \in all : client.filter = None \/ verdict[r][k] = client.filter}
    BY DEF GroupsFit
  <1> DEFINE n == Len(client.listed)
  <1>5. /\ client'.listed \in Seq(SUBSET all) /\ Listed' = Listed \cup items
        /\ DOMAIN client'.listed = 1 .. n + 1 /\ client'.listed[n + 1] = items
        /\ \A i \in 1 .. n : client'.listed[i] = client.listed[i] /\ client.listed[i] \subseteq Listed
        /\ n \in Nat /\ DOMAIN client.listed = 1 .. n
    <2>1. items \in SUBSET all
      BY <1>1, <1>2
    <2>2. client.listed \in Seq(SUBSET all) /\ client'.listed = Append(client.listed, items)
      BY <1>4
    <2>3. Listed = UNION ToSet(client.listed) /\ Listed' = UNION ToSet(client'.listed)
      BY DEF Listed
    <2>4. n \in Nat /\ DOMAIN client.listed = 1 .. n
      BY <2>2
    <2> HIDE DEF all
    <2>5. /\ client'.listed \in Seq(SUBSET all)
          /\ UNION ToSet(client'.listed) = (UNION ToSet(client.listed)) \cup items
          /\ DOMAIN client'.listed = 1 .. n + 1 /\ client'.listed[n + 1] = items
          /\ \A i \in 1 .. n :
                client'.listed[i] = client.listed[i] /\ client.listed[i] \subseteq UNION ToSet(client.listed)
      <3>1. IsLonger(Append(client.listed, items), client.listed, items, all)
        BY <2>1, <2>2, OneMorePage
      <3> QED BY <2>2, <3>1 DEF IsLonger
    <2> QED BY <2>3, <2>4, <2>5
  <1>6. Listed = {} \/ client.cursor # None
    BY <1>4 DEF Listed, ToSet
  <1> HIDE DEF later, order, all, n
  <1>7. ASSUME NEW x \in Listed, NEW y \in items
        PROVE  Place(order, x) < Place(order, y)
    BY <1>1, <1>2, <1>3, <1>4, <1>6, <1>7
  <1>8. InOrder'
    <2> SUFFICES ASSUME NEW i \in 1 .. n + 1, NEW j \in 1 .. n + 1, i < j,
                        NEW x \in client'.listed[i], NEW y \in client'.listed[j]
                 PROVE  Place(order, x) < Place(order, y)
      BY <1>5 DEF InOrder, Precedes, order, r
    <2>1. i \in 1 .. n
      BY <1>5
    <2>2. CASE j \in 1 .. n
      BY <1>4, <1>5, <2>1, <2>2 DEF InOrder, Precedes, order
    <2>3. CASE j = n + 1
      BY <1>5, <1>7, <2>1, <2>3
    <2> QED BY <1>5, <2>2, <2>3
  <1>9. ASSUME NEW k \in client.always,
               next = None \/ Place(order, k) <= Place(order, next)
        PROVE  k \in Listed \cup items
    <2>1. CASE k \in later
      BY <1>1, <1>9, <2>1
    <2>2. CASE k \notin later
      BY <1>2, <1>3, <1>4, <2>2
    <2> QED BY <2>1, <2>2
  <1>10. next # None => \A k \in Listed \cup items : Place(order, k) <= Place(order, next)
    <2> SUFFICES ASSUME next # None, NEW k \in Listed \cup items
                 PROVE  Place(order, k) <= Place(order, next)
      OBVIOUS
    <2>1. next \in items
      BY <1>1
    <2> QED BY <1>1, <1>3, <1>7, <2>1
  <1>11. next # None => next \in all /\ IsCompleted(r)
    BY <1>1, <1>2 DEF all, order
  <1> QED BY <1>4, <1>5, <1>8, <1>9, <1>10, <1>11 DEF GroupsFit, IsCompleted, order, all

LEMMA ReadVerdictsFits ==
    ASSUME QInv, ReadVerdicts
    PROVE  QInv'
  <1> DEFINE r == client.review
             all == ToSet(GroupsOf[r])
             matching == {k \in client.groups : client.filter = None \/ verdict[r][k] = client.filter}
             page == GroupPage(r, client.groups, client.cursor, matching)
  <1>1. /\ client.at = "verdicts" /\ UNCHANGED store
        /\ client' =
             IF client.op = "report"
             THEN [[client EXCEPT !.at = "done"] EXCEPT !.items = [k \in client.groups |-> verdict[r][k]]]
             ELSE [[client EXCEPT !.at = IF page.next = None THEN "done" ELSE "review"] EXCEPT
                     !.listed = Append(@, page.items), !.cursor = page.next, !.groups = {}]
    BY DEF ReadVerdicts, Proceed
  <1>2. client.op \in {"groups", "report"} /\ LoopFits /\ r \in Review /\ DOMAIN client = DOMAIN Idle
    BY <1>1, WhereItStands DEF QInv, ClientFits, LoopFits
  <1>3. /\ client.groups \subseteq all /\ (IsWhole => client.groups = all) /\ client.next = None
        /\ client.groups # {} => IsCompleted(r)
    BY <1>1, <1>2 DEF LoopFits
  <1>4. UNCHANGED <<completed, verdict, decisions>>
    BY <1>1 DEF store
  <1>5. CASE client.op = "report"
    <2>1. client' = [[client EXCEPT !.at = "done"] EXCEPT !.items = [k \in client.groups |-> verdict[r][k]]]
      BY <1>1, <1>5
    <2>2. /\ client'.op = "report" /\ client'.at = "done" /\ client'.review = r
          /\ client'.always = client.always /\ client'.cursor = client.cursor
          /\ client'.status = client.status /\ client'.run = client.run
          /\ client'.decision = client.decision /\ client'.tail = client.tail
          /\ client'.next = client.next /\ DOMAIN client' = DOMAIN Idle
          /\ client'.items = [k \in client.groups |-> verdict[r][k]]
      BY <1>2, <1>5, <2>1 DEF Idle
    <2>3. DOMAIN client'.items = all
      <3>1. ReportFits
        BY DEF QInv, ClientFits
      <3>2. client.run = "completed"
        BY <1>1, <1>5, <3>1 DEF ReportFits
      <3> QED BY <1>3, <1>5, <2>2, <3>2 DEF IsWhole
    <2>4. ReportFits'
      BY <1>1, <1>4, <1>5, <2>2, <2>3 DEF QInv, ClientFits, ReportFits, IsCompleted
    <2>5. LoopFits' /\ GroupsFit'
      BY <1>2, <1>3, <2>2 DEF LoopFits, GroupsFit
    <2>6. ReviewsFit' /\ MapFits' /\ ActsFit'
      BY <2>2, OnlyLoops
    <2>7. ClientFits'
      BY <2>2, <2>4, <2>5, <2>6 DEF ClientFits
    <2> QED BY <1>1, <2>7, AskedFits
  <1>6. CASE client.op = "groups"
    <2>1. client' = [[client EXCEPT !.at = IF page.next = None THEN "done" ELSE "review"] EXCEPT
                       !.listed = Append(@, page.items), !.cursor = page.next, !.groups = {}]
      BY <1>1, <1>6
    <2> HIDE DEF page
    <2>2. /\ client'.op = "groups" /\ client'.at = IF page.next = None THEN "done" ELSE "review"
          /\ client'.review = r /\ client'.filter = client.filter /\ client'.always = client.always
          /\ client'.listed = Append(client.listed, page.items) /\ client'.cursor = page.next
          /\ client'.groups = {} /\ client'.next = client.next /\ DOMAIN client' = DOMAIN Idle
      BY <1>2, <1>6, <2>1 DEF Idle
    <2>3. /\ GroupsFit
          /\ client.cursor # None => client.cursor \in all
          /\ client.always \subseteq {k \in all : client.filter = None \/ verdict[r][k] = client.filter}
      BY <1>1, <1>6 DEF QInv, ClientFits, GroupsFit
    <2>4. client.cursor # None \/ client.always # {} => client.groups = all
      BY <1>3, <1>6 DEF IsWhole
    <2>5. matching \subseteq client.groups /\ client.always \subseteq matching
      BY <2>3, <2>4
    <2>6. IsPage(page, GroupsOf[r], After(r, client.cursor, matching))
      <3>1. client.cursor = None \/ client.cursor \in client.groups
        BY <2>3, <2>4
      <3> HIDE DEF matching
      <3> QED BY <1>2, <1>3, <2>5, <3>1, GroupPageFits DEF page
    <2>7. IsPage([items |-> page.items, next |-> page.next], GroupsOf[r], After(r, client.cursor, matching))
      BY <2>6 DEF IsPage
    <2>8. matching \subseteq all /\ (matching # {} => IsCompleted(r))
      BY <1>3, <2>5
    <2> HIDE DEF matching
    <2>9. GroupsFit'
      BY <1>1, <1>2, <1>4, <1>6, <2>2, <2>3, <2>5, <2>7, <2>8, NextPageFits
    <2>10. LoopFits' /\ ReportFits'
      BY <1>2, <1>3, <2>2 DEF LoopFits, ReportFits
    <2>11. ReviewsFit' /\ MapFits' /\ ActsFit'
      BY <2>2, OnlyLoops
    <2>12. ClientFits'
      BY <2>2, <2>9, <2>10, <2>11 DEF ClientFits
    <2> QED BY <1>1, <2>12, AskedFits
  <1> QED BY <1>2, <1>5, <1>6

\* What every step of a report before its groups leaves.
KeepsReport ==
    /\ DOMAIN client' = DOMAIN Idle /\ client'.op = client.op /\ client'.review = client.review
    /\ client'.always = client.always /\ client'.cursor = client.cursor
    /\ client'.status = client.status /\ client'.groups = client.groups /\ client'.next = client.next

LEMMA ReportGoesOn ==
    ASSUME QInv, UNCHANGED store, client.at \in {"run", "decision", "tail"},
           KeepsReport, ReportFits', client'.at # "idle",
           client'.at = "groups" /\ client'.run = "completed" => IsCompleted(client.review),
           client'.at # "verdicts"
    PROVE  QInv'
  <1>1. client'.op = "report" /\ client.op = "report" /\ LoopFits
    BY WhereItStands DEF QInv, ClientFits, KeepsReport
  <1>2. client.groups = {} /\ client.next = None /\ client.review \in Review
    BY <1>1 DEF LoopFits
  <1>3. completed' = completed
    BY DEF store
  <1>4. LoopFits'
    BY <1>1, <1>2, <1>3 DEF LoopFits, IsWhole, IsCompleted, KeepsReport
  <1>5. GroupsFit' /\ ReviewsFit' /\ MapFits' /\ ActsFit'
    BY <1>1, OnlyLoops DEF GroupsFit
  <1>6. ClientFits'
    BY <1>1, <1>4, <1>5 DEF ClientFits, KeepsReport
  <1> QED BY <1>6, AskedFits

LEMMA ReadRunFits ==
    ASSUME QInv, ReadRun
    PROVE  QInv'
  <1> DEFINE run == IF IsCompleted(client.review) THEN "completed"
                    ELSE IF client.review \in failed THEN "failed" ELSE "running"
  <1>1. /\ client.at = "run" /\ UNCHANGED store
        /\ client' = [[client EXCEPT !.at = "decision"] EXCEPT !.run = run]
    BY DEF ReadRun, Proceed
  <1>2. KeepsReport /\ client'.at = "decision" /\ client'.run = run
    BY <1>1 DEF KeepsReport, QInv, ClientFits, Idle
  <1>3. run = "completed" <=> IsCompleted(client.review)
    OBVIOUS
  <1> HIDE DEF run
  <1>4. completed' = completed /\ decisions' = decisions
    BY <1>1 DEF store
  <1>5. ReportFits'
    BY <1>1, <1>2, <1>3, <1>4 DEF QInv, ClientFits, ReportFits, KeepsReport, IsCompleted
  <1> QED BY <1>1, <1>2, <1>5, ReportGoesOn

\* The decision that is found is the one of the review.
LEMMA DecisionIsFound ==
    ASSUME DecisionsFit, NEW r, NEW d, d = DecisionOf(r)
    PROVE  /\ d \in 0 .. Len(decisions)
           /\ \A i \in 1 .. Len(decisions) : decisions[i].review = r => d = i
  <1> DEFINE S == {i \in 1 .. Len(decisions) : decisions[i].review = r}
  <1>1. d = IF S = {} THEN 0 ELSE Min(S)
    BY DEF DecisionOf, SelectInSeq
  <1>2. Len(decisions) \in Nat
    BY DEF DecisionsFit
  <1>3. S = {} => d = 0
    BY <1>1
  <1>4. S # {} => d \in S
    <2> SUFFICES ASSUME S # {} PROVE d \in S
      OBVIOUS
    <2>1. S \in SUBSET Nat
      BY <1>2
    <2> HIDE DEF S
    <2> QED BY <1>1, <2>1, MinIsLeast
  <1>5. \A i \in S : d = i
    BY <1>4 DEF DecisionsFit
  <1> QED BY <1>2, <1>3, <1>4, <1>5

LEMMA ReadDecisionFits ==
    ASSUME QInv, ReadDecision
    PROVE  QInv'
  <1> DEFINE d == DecisionOf(client.review)
  <1>1. /\ client.at = "decision" /\ UNCHANGED store
        /\ client' = [[client EXCEPT !.at = "tail"] EXCEPT !.decision = d]
    BY DEF ReadDecision, Proceed
  <1>2. KeepsReport /\ client'.at = "tail" /\ client'.decision = d /\ client'.run = client.run
    BY <1>1 DEF KeepsReport, QInv, ClientFits, Idle
  <1>3. completed' = completed /\ decisions' = decisions
    BY <1>1 DEF store
  <1>4. client.op = "report" /\ ReportFits
    BY <1>1, WhereItStands DEF QInv, ClientFits
  <1>5. /\ d \in 0 .. Len(decisions)
        /\ client.status \in {"accepted", "rejected"} => d # 0 /\ decisions[d].outcome = client.status
    <2> HIDE DEF d
    <2>1. /\ d \in 0 .. Len(decisions)
          /\ \A i \in 1 .. Len(decisions) : decisions[i].review = client.review => d = i
      BY DecisionIsFound DEF QInv, StoreFits, d
    <2>2. client.status \in {"accepted", "rejected"} => \E i \in 1 .. Len(decisions) :
             decisions[i] = [review |-> client.review, outcome |-> client.status]
      BY <1>1, <1>4 DEF ReportFits
    <2>3. ASSUME client.status \in {"accepted", "rejected"}
          PROVE  d # 0 /\ decisions[d].outcome = client.status
      <3>1. PICK i \in 1 .. Len(decisions) :
               decisions[i] = [review |-> client.review, outcome |-> client.status]
        BY <2>2, <2>3
      <3>2. decisions[i].review = client.review /\ decisions[i].outcome = client.status
        BY <3>1
      <3> QED BY <2>1, <3>2
    <2> QED BY <2>1, <2>3
  <1> HIDE DEF d
  <1>6. ReportFits'
    BY <1>1, <1>2, <1>3, <1>4, <1>5 DEF ReportFits, KeepsReport, IsCompleted
  <1> QED BY <1>1, <1>2, <1>6, ReportGoesOn

LEMMA ReadTailFits ==
    ASSUME QInv, ReadTail
    PROVE  QInv'
  <1> DEFINE at == IF client.run = "completed" THEN "groups" ELSE "done"
  <1>1. /\ client.at = "tail" /\ UNCHANGED store
        /\ client' = [[client EXCEPT !.at = at] EXCEPT !.tail = Len(decisions)]
    BY DEF ReadTail, Proceed
  <1>2. /\ KeepsReport /\ client'.at = at /\ client'.decision = client.decision
        /\ client'.run = client.run /\ client'.tail = Len(decisions)
    BY <1>1 DEF KeepsReport, QInv, ClientFits, Idle
  <1>3. completed' = completed /\ decisions' = decisions /\ Len(decisions) \in Nat
    BY <1>1 DEF store, QInv, StoreFits, DecisionsFit
  <1>4. client.op = "report" /\ ReportFits
    BY <1>1, WhereItStands DEF QInv, ClientFits
  <1>5. /\ client.always = {} /\ client.cursor = None
        /\ client.status \in {"accepted", "rejected"} \cup {"ready"} =>
              IsCompleted(client.review) /\ client.run = "completed"
        /\ client.status \in {"accepted", "rejected"} => \E i \in 1 .. Len(decisions) :
              decisions[i] = [review |-> client.review, outcome |-> client.status]
        /\ client.run = "completed" => IsCompleted(client.review)
        /\ client.decision \in 0 .. Len(decisions)
        /\ client.status \in {"accepted", "rejected"} =>
              client.decision # 0 /\ decisions[client.decision].outcome = client.status
    BY <1>1, <1>4 DEF ReportFits
  <1>6. client.decision <= Len(decisions)
    BY <1>3, <1>5
  <1>7. ReportFits'
    <2>1. client'.at \in {"groups", "done"} /\ (client'.at = "groups" <=> client.run = "completed")
      BY <1>2
    <2> HIDE DEF at
    <2> QED BY <1>2, <1>3, <1>4, <1>5, <1>6, <2>1 DEF ReportFits, KeepsReport, IsCompleted
  <1> QED BY <1>1, <1>2, <1>5, <1>7, ReportGoesOn

-----------------------------------------------------------------------------
(* The awaits of a listing of reviews                                       *)

LEMMA OnlyReviews ==
    ASSUME client'.op = "reviews"
    PROVE  LoopFits' /\ GroupsFit' /\ ReportFits' /\ MapFits' /\ ActsFit'
  BY DEF LoopFits, GroupsFit, ReportFits, MapFits, ActsFit

\* Where the reviews of a page stand: right before the cursor.
LEMMA PlacesOfReviews ==
    ASSUME RowsFit
    PROVE  /\ \A x : Place(created, x) \in Nat
           /\ \A x \in ToSet(created) : Place(created, x) \in 1 .. Len(created)
           /\ \A x, y \in ToSet(created) : Place(created, x) = Place(created, y) => x = y
           /\ Len(created) \in Nat /\ ToSet(created) \subseteq Review
  <1>1. created \in Seq(Review) /\ Len(created) \in Nat
    BY DEF RowsFit
  <1>2. \A x : Place(created, x) \in 0 .. Len(created)
    BY <1>1, PlaceOf
  <1>3. \A x \in ToSet(created) : Place(created, x) \in 1 .. Len(created)
    BY <1>1, PlaceOf
  <1>4. \A x, y \in ToSet(created) : Place(created, x) = Place(created, y) => x = y
    BY <1>1, OnePlaceEach
  <1>5. ToSet(created) \subseteq Review
    BY <1>1 DEF ToSet
  <1>6. \A x : Place(created, x) \in Nat
    BY <1>1, <1>2
  <1> QED BY <1>1, <1>3, <1>4, <1>5, <1>6

LEMMA ReadReviewsFits ==
    ASSUME QInv, ReadReviews
    PROVE  QInv'
  <1> DEFINE page == ReviewPage(Newest(created), client.cursor)
             items == page.items
             todo == [i \in DOMAIN items |-> [review |-> items[i], status |-> status[items[i]]]]
             top == IF client.cursor = None THEN Len(created) + 1 ELSE Place(created, client.cursor)
             all == ToSet(created)
  <1>1. /\ client.at = "list" /\ UNCHANGED store
        /\ client' = [[client EXCEPT !.at = "view"] EXCEPT
                        !.todo = todo, !.listed = Append(@, {}), !.cursor = page.next]
    BY DEF ReadReviews, Proceed
  <1> HIDE DEF todo
  <1>2. client.op = "reviews" /\ DOMAIN client = DOMAIN Idle /\ ReviewsFit /\ RowsFit
    BY <1>1, WhereItStands DEF QInv, StoreFits, ClientFits
  <1>3. /\ client'.op = "reviews" /\ client'.at = "view" /\ client'.always = client.always
        /\ client'.todo = todo /\ client'.listed = Append(client.listed, {})
        /\ client'.cursor = page.next /\ DOMAIN client' = DOMAIN Idle /\ created' = created
    BY <1>1, <1>2 DEF Idle, store
  <1>4. /\ client.always \subseteq all /\ client.listed \in Seq(SUBSET all) /\ InOrder
        /\ client.cursor = None => client.listed = <<>>
        /\ client.cursor # None =>
              /\ client.cursor \in all
              /\ \A r \in Listed \cup Coming : Place(created, r) >= Place(created, client.cursor)
              /\ \A r \in client.always :
                    Place(created, r) >= Place(created, client.cursor) => r \in Listed \cup Coming
        /\ client.todo = <<>>
    BY <1>1, <1>2 DEF ReviewsFit
  <1>5. Coming = {}
    BY <1>4 DEF Coming
  <1>6. created \in Seq(Review) /\ IsOnce(created)
    BY <1>2 DEF RowsFit
  <1>7. /\ items \in Seq(Review) /\ Len(items) \in 0 .. top - 1
        /\ \A i \in 1 .. Len(items) : items[i] \in all /\ Place(created, items[i]) = top - i
        /\ page.next = None => Len(items) = top - 1
        /\ page.next # None => Len(items) > 0 /\ page.next = items[Len(items)]
    <2> HIDE DEF page, top
    <2>1. top = IF client.cursor = None THEN Len(created) + 1 ELSE Place(created, client.cursor)
      BY DEF top
    <2>2. client.cursor = None \/ client.cursor \in all
      BY <1>4
    <2> QED BY <1>6, <2>1, <2>2, ReviewPageFits DEF page
  <1> HIDE DEF page
  <1>8. Len(items) \in Nat /\ DOMAIN items = 1 .. Len(items)
    BY <1>7
  <1>9. /\ \A x : Place(created, x) \in Nat
        /\ \A x \in all : Place(created, x) \in 1 .. Len(created)
        /\ \A x, y \in all : Place(created, x) = Place(created, y) => x = y
        /\ Len(created) \in Nat /\ all \subseteq Review
    BY <1>2, PlacesOfReviews
  <1>10. top \in Nat
    BY <1>9
  <1> DEFINE shown == {items[i] : i \in 1 .. Len(items)}
  <1>11. Coming' = shown
    <2>1. DOMAIN todo = 1 .. Len(items) /\ \A i \in 1 .. Len(items) : todo[i].review = items[i]
      BY <1>8 DEF todo
    <2> HIDE DEF items
    <2> QED BY <1>3, <2>1 DEF Coming
  <1>12. todo \in Seq([review : all, status : Statuses])
    <2>1. \A i \in 1 .. Len(items) : items[i] \in all /\ status[items[i]] \in Statuses
      BY <1>2, <1>7, <1>9 DEF RowsFit
    <2> DEFINE T == [review : all, status : Statuses]
    <2>2. \A i \in 1 .. Len(items) : [review |-> items[i], status |-> status[items[i]]] \in T
      BY <2>1
    <2>3. todo \in Seq(T)
      <3> HIDE DEF T, items
      <3> QED BY <1>8, <2>2 DEF todo
    <2> QED BY <2>3
  <1> DEFINE n == Len(client.listed)
  <1>13. /\ client'.listed \in Seq(SUBSET all) /\ Listed' = Listed
         /\ Len(client'.listed) = n + 1 /\ client'.listed # <<>>
         /\ DOMAIN client'.listed = 1 .. n + 1 /\ client'.listed[n + 1] = {}
         /\ \A i \in 1 .. n : client'.listed[i] = client.listed[i] /\ client.listed[i] \subseteq Listed
         /\ n \in Nat /\ DOMAIN client.listed = 1 .. n /\ Listed \subseteq all
    <2>1. IsLonger(client'.listed, client.listed, {}, all)
      BY <1>3, <1>4, OneMorePage
    <2> HIDE DEF all
    <2> QED BY <1>4, <2>1 DEF IsLonger, Listed
  <1> HIDE DEF n, items, top
  <1>14. InOrder'
    <2> SUFFICES ASSUME NEW i \in 1 .. n + 1, NEW j \in 1 .. n + 1, i < j,
                        NEW x \in client'.listed[i], NEW y \in client'.listed[j]
                 PROVE  Precedes(x, y)'
      BY <1>13 DEF InOrder
    <2>1. j \in 1 .. n /\ i \in 1 .. n
      BY <1>13
    <2>2. Precedes(x, y)
      BY <1>4, <1>13, <2>1 DEF InOrder
    <2> QED BY <1>2, <1>3, <2>2 DEF Precedes
  <1>15. ASSUME NEW x \in Listed, NEW y \in shown
         PROVE  Place(created, y) < Place(created, x)
    <2>1. client.cursor # None
      BY <1>4, <1>15 DEF Listed, ToSet
    <2>2. Place(created, x) >= top
      BY <1>4, <1>15, <2>1 DEF top
    <2>3. Place(created, y) < top
      BY <1>7, <1>8, <1>10, <1>15
    <2> QED BY <1>9, <1>10, <2>2, <2>3
  <1>16. \A i \in DOMAIN client'.listed : i < Len(client'.listed) =>
            \A x \in client'.listed[i], y \in shown : Place(created, y) < Place(created, x)
    <2> TAKE i \in DOMAIN client'.listed
    <2> HAVE i < Len(client'.listed)
    <2>1. i \in 1 .. n
      BY <1>13
    <2> QED BY <1>13, <1>15, <2>1
  <1>17. ASSUME NEW r \in client.always,
                page.next = None \/ Place(created, r) >= Place(created, page.next)
         PROVE  r \in Listed \cup shown
    <2>1. r \in all
      BY <1>4
    <2>2. CASE client.cursor # None /\ Place(created, r) >= top
      BY <1>4, <1>5, <2>2 DEF top
    <2>3. CASE Place(created, r) < top
      <3> DEFINE i == top - Place(created, r)
      <3>1. i \in 1 .. top - 1
        BY <1>9, <1>10, <2>1, <2>3
      <3>2. i <= Len(items)
        <4>1. CASE page.next = None
          BY <1>7, <1>8, <1>10, <3>1, <4>1
        <4>2. CASE page.next # None
          <5>1. Len(items) \in 1 .. Len(items) /\ page.next = items[Len(items)]
            BY <1>7, <1>8, <4>2
          <5>2. Place(created, page.next) = top - Len(items)
            BY <1>7, <5>1
          <5> QED BY <1>8, <1>9, <1>10, <1>17, <4>2, <5>2
        <4> QED BY <4>1, <4>2
      <3>3. i \in 1 .. Len(items)
        BY <1>8, <1>10, <3>1, <3>2
      <3>4. Place(created, items[i]) = top - i /\ items[i] \in all
        BY <1>7, <3>3
      <3>5. Place(created, items[i]) = Place(created, r)
        BY <1>9, <1>10, <3>1, <3>4
      <3>6. items[i] = r
        BY <1>9, <2>1, <3>4, <3>5
      <3> QED BY <3>3, <3>6
    <2>4. client.cursor = None => Place(created, r) < top
      BY <1>9, <2>1 DEF top
    <2> QED BY <1>9, <1>10, <2>2, <2>3, <2>4
  <1>18. page.next # None =>
            page.next \in all /\ \A r \in Listed \cup shown : Place(created, r) >= Place(created, page.next)
    <2> SUFFICES ASSUME page.next # None
                 PROVE  page.next \in all /\
                        \A r \in Listed \cup shown : Place(created, r) >= Place(created, page.next)
      OBVIOUS
    <2>1. Len(items) \in 1 .. Len(items) /\ page.next = items[Len(items)]
      BY <1>7, <1>8
    <2>2. Place(created, page.next) = top - Len(items) /\ page.next \in all /\ page.next \in shown
      BY <1>7, <2>1
    <2>3. \A r \in shown : Place(created, r) >= Place(created, page.next)
      BY <1>7, <1>8, <1>10, <2>2
    <2>4. \A r \in Listed : Place(created, r) >= Place(created, page.next)
      BY <1>9, <1>15, <2>2
    <2> QED BY <2>2, <2>3, <2>4
  <1> HIDE DEF all, shown
  <1>19. ReviewsFit'
    <2>1. all = ToSet(created')
      BY <1>3 DEF all
    <2>2. \A i \in DOMAIN client'.listed : i < Len(client'.listed) =>
             \A x \in client'.listed[i], y \in shown : Precedes(x, y)'
      BY <1>3, <1>16 DEF Precedes
    <2> QED BY <1>3, <1>4, <1>11, <1>12, <1>13, <1>14, <1>17, <1>18, <2>1, <2>2 DEF ReviewsFit
  <1>20. ClientFits'
    BY <1>3, <1>19, OnlyReviews DEF ClientFits
  <1> QED BY <1>1, <1>20, AskedFits

LEMMA AnswerReviewsFits ==
    ASSUME QInv, AnswerReviews
    PROVE  QInv'
  <1> DEFINE at == IF client.cursor = None THEN "done" ELSE "list"
  <1>1. client.at = "view" /\ client.todo = <<>> /\ UNCHANGED store /\ client' = [client EXCEPT !.at = at]
    BY DEF AnswerReviews, Proceed
  <1>2. client.op = "reviews" /\ DOMAIN client = DOMAIN Idle /\ ReviewsFit
    BY <1>1, WhereItStands DEF QInv, ClientFits
  <1>3. /\ client'.op = "reviews" /\ client'.at = at /\ client'.always = client.always
        /\ client'.todo = client.todo /\ client'.listed = client.listed
        /\ client'.cursor = client.cursor /\ DOMAIN client' = DOMAIN Idle /\ created' = created
        /\ client'.review = client.review
    BY <1>1, <1>2 DEF Idle, store
  <1>4. Listed' = Listed /\ Coming' = Coming /\ Coming = {}
    BY <1>1, <1>3 DEF Listed, Coming
  <1>5. InOrder'
    BY <1>2, <1>3 DEF ReviewsFit, InOrder, Precedes
  <1>6. ReviewsFit'
    <2>1. /\ client.always \subseteq ToSet(created)
          /\ client.listed \in Seq(SUBSET ToSet(created))
          /\ client.cursor # None =>
                /\ client.cursor \in ToSet(created)
                /\ \A r \in Listed \cup Coming : Place(created, r) >= Place(created, client.cursor)
                /\ \A r \in client.always :
                      Place(created, r) >= Place(created, client.cursor) => r \in Listed \cup Coming
          /\ client.cursor = None => client.always \subseteq Listed \cup Coming
      BY <1>1, <1>2 DEF ReviewsFit
    <2>2. <<>> \in Seq([review : ToSet(created), status : Statuses])
      OBVIOUS
    <2>3. client'.at \in {"list", "done"} /\ (client'.at = "done" <=> client.cursor = None)
      BY <1>3
    <2> HIDE DEF at
    <2> QED BY <1>1, <1>3, <1>4, <1>5, <2>1, <2>2, <2>3 DEF ReviewsFit
  <1>7. ClientFits'
    BY <1>3, <1>6, OnlyReviews DEF ClientFits
  <1> QED BY <1>1, <1>7, AskedFits

\* The parts of a sequence of sets after one more element is put into the last.
HasOneMore(longer, seq, e, T) ==
    LET n == Len(seq)
    IN /\ longer \in Seq(SUBSET T) /\ Len(longer) = n /\ longer # <<>> /\ DOMAIN longer = 1 .. n
       /\ \A i \in 1 .. n : i # n => longer[i] = seq[i]
       /\ longer[n] = seq[n] \cup {e}
       /\ UNION ToSet(longer) = (UNION ToSet(seq)) \cup {e}

LEMMA OneMoreElement ==
    ASSUME NEW T, NEW seq \in Seq(SUBSET T), seq # <<>>, NEW e \in T
    PROVE  HasOneMore([seq EXCEPT ![Len(seq)] = @ \cup {e}], seq, e, T)
  <1> DEFINE n == Len(seq)
             longer == [seq EXCEPT ![n] = @ \cup {e}]
  <1>1. n \in Nat /\ n \in 1 .. n /\ DOMAIN seq = 1 .. n
    <2>1. n \in Nat /\ DOMAIN seq = 1 .. n
      OBVIOUS
    <2>2. n # 0
      OBVIOUS
    <2> QED BY <2>1, <2>2
  <1>2. \A i \in 1 .. n : seq[i] \in SUBSET T
    BY ElementOf
  <1>3. /\ DOMAIN longer = 1 .. n /\ longer[n] = seq[n] \cup {e}
        /\ \A i \in 1 .. n : i # n => longer[i] = seq[i]
    BY <1>1
  <1>4. longer \in [1 .. n -> SUBSET T]
    <2>1. \A i \in 1 .. n : longer[i] \in SUBSET T
      BY <1>1, <1>2, <1>3
    <2>2. longer = [i \in 1 .. n |-> longer[i]]
      BY <1>1
    <2> HIDE DEF longer, n
    <2> QED BY <2>1, <2>2
  <1>5. longer \in Seq(SUBSET T) /\ Len(longer) = n /\ longer # <<>>
    <2>1. longer \in Seq(SUBSET T)
      <3> HIDE DEF longer, n
      <3> QED BY <1>1, <1>4
    <2>2. Len(longer) = n
      <3> HIDE DEF longer, n
      <3> QED BY <1>1, <1>3, <2>1
    <2> HIDE DEF longer, n
    <2> QED BY <1>1, <2>1, <2>2
  <1> HIDE DEF longer, n
  <1>6. ASSUME NEW x
        PROVE  x \in UNION ToSet(longer) <=> x \in (UNION ToSet(seq)) \cup {e}
    <2>1. x \in UNION ToSet(longer) <=> \E i \in 1 .. n : x \in longer[i]
      BY <1>3 DEF ToSet
    <2>2. x \in UNION ToSet(seq) <=> \E i \in 1 .. n : x \in seq[i]
      BY <1>1 DEF ToSet
    <2> QED BY <1>1, <1>3, <2>1, <2>2
  <1>7. UNION ToSet(longer) = (UNION ToSet(seq)) \cup {e}
    BY <1>6
  <1> QED BY <1>3, <1>5, <1>7 DEF HasOneMore, longer, n

LEMMA HeadAndTail ==
    ASSUME NEW T, NEW seq \in Seq(T), seq # <<>>
    PROVE  /\ Head(seq) \in T /\ Tail(seq) \in Seq(T)
           /\ Len(seq) \in Nat \ {0} /\ Len(Tail(seq)) = Len(seq) - 1
           /\ \A i \in 1 .. Len(Tail(seq)) : Tail(seq)[i] = seq[i + 1]
           /\ Head(seq) = seq[1]
  OBVIOUS

LEMMA ReadViewFits ==
    ASSUME QInv, ReadView
    PROVE  QInv'
  <1> DEFINE stored == Head(client.todo)
             r == stored.review
             all == ToSet(created)
             rows == [review : all, status : Statuses]
             n == Len(client.listed)
  <1>1. /\ client.at = "view" /\ client.todo # <<>>
        /\ IF stored.status = "computing" THEN SyncStatus(r) /\ UNCHANGED findings ELSE UNCHANGED store
        /\ client' = [client EXCEPT !.todo = Tail(@), !.listed[n] = @ \cup {r}]
    BY DEF ReadView
  <1>2. client.op = "reviews" /\ DOMAIN client = DOMAIN Idle /\ ReviewsFit /\ RowsFit
    BY <1>1, WhereItStands DEF QInv, StoreFits, ClientFits
  <1>3. /\ client.always \subseteq all /\ client.listed \in Seq(SUBSET all) /\ InOrder
        /\ client.todo \in Seq(rows) /\ client.listed # <<>>
        /\ \A i \in DOMAIN client.listed : i < Len(client.listed) =>
              \A x \in client.listed[i], y \in Coming : Precedes(x, y)
        /\ client.cursor # None =>
              /\ client.cursor \in all
              /\ \A k \in Listed \cup Coming : Place(created, k) >= Place(created, client.cursor)
              /\ \A k \in client.always :
                    Place(created, k) >= Place(created, client.cursor) => k \in Listed \cup Coming
        /\ client.cursor = None => client.always \subseteq Listed \cup Coming
    BY <1>1, <1>2 DEF ReviewsFit
  <1>4. created' = created
    BY <1>1 DEF SyncStatus, store
  <1>5. /\ client'.op = "reviews" /\ client'.at = "view" /\ client'.always = client.always
        /\ client'.todo = Tail(client.todo) /\ client'.cursor = client.cursor
        /\ client'.listed = [client.listed EXCEPT ![n] = @ \cup {r}]
        /\ client'.review = client.review /\ DOMAIN client' = DOMAIN Idle
    BY <1>1, <1>2 DEF Idle
  <1>6. /\ stored \in rows /\ Tail(client.todo) \in Seq(rows)
        /\ Len(client.todo) \in Nat \ {0} /\ Len(Tail(client.todo)) = Len(client.todo) - 1
        /\ \A i \in 1 .. Len(Tail(client.todo)) : Tail(client.todo)[i] = client.todo[i + 1]
        /\ stored = client.todo[1]
    <2>1. client.todo \in Seq(rows) /\ client.todo # <<>>
      BY <1>1, <1>3
    <2> HIDE DEF rows
    <2> QED BY <2>1, HeadAndTail
  <1>7. r \in all
    BY <1>6
  <1> HIDE DEF stored, rows
  <1>8. /\ DOMAIN client.todo = 1 .. Len(client.todo)
        /\ DOMAIN Tail(client.todo) = 1 .. Len(Tail(client.todo))
    BY <1>3, <1>6
  <1>9. Coming = Coming' \cup {r}
    <2>1. ASSUME NEW i \in DOMAIN client.todo
          PROVE  client.todo[i].review \in Coming' \cup {r}
      <3>1. CASE i = 1
        BY <1>6, <3>1
      <3>2. CASE i # 1
        <4>1. i - 1 \in 1 .. Len(Tail(client.todo)) /\ (i - 1) + 1 = i
          BY <1>6, <1>8, <3>2
        <4>2. Tail(client.todo)[i - 1] = client.todo[i]
          BY <1>6, <4>1
        <4> QED BY <1>5, <1>8, <4>1, <4>2 DEF Coming
      <3> QED BY <3>1, <3>2
    <2>2. ASSUME NEW i \in DOMAIN Tail(client.todo)
          PROVE  Tail(client.todo)[i].review \in Coming
      <3>1. i + 1 \in DOMAIN client.todo /\ Tail(client.todo)[i] = client.todo[i + 1]
        BY <1>6, <1>8
      <3> QED BY <3>1 DEF Coming
    <2>3. r \in Coming
      <3>1. 1 \in DOMAIN client.todo
        BY <1>6, <1>8
      <3> QED BY <1>6, <3>1 DEF Coming
    <2>4. Coming' \subseteq Coming
      BY <1>5, <2>2 DEF Coming
    <2>5. Coming \subseteq Coming' \cup {r}
      BY <2>1 DEF Coming
    <2> QED BY <2>3, <2>4, <2>5
  <1> HIDE DEF r
  <1>10. HasOneMore(client'.listed, client.listed, r, all)
    <2> HIDE DEF all, n
    <2> QED BY <1>3, <1>5, <1>7, OneMoreElement DEF n
  <1>11. /\ client'.listed \in Seq(SUBSET all) /\ Len(client'.listed) = n /\ client'.listed # <<>>
         /\ DOMAIN client'.listed = 1 .. n /\ DOMAIN client.listed = 1 .. n /\ n \in Nat
         /\ \A i \in 1 .. n : i # n => client'.listed[i] = client.listed[i]
         /\ client'.listed[n] = client.listed[n] \cup {r}
         /\ Listed' = Listed \cup {r}
    <2>1. DOMAIN client.listed = 1 .. n /\ n \in Nat
      BY <1>3
    <2> HIDE DEF all
    <2> QED BY <1>10, <2>1 DEF HasOneMore, Listed
  <1>12. Listed' \cup Coming' = Listed \cup Coming
    BY <1>9, <1>11
  <1> HIDE DEF all, n
  <1>13. \A x, y : Precedes(x, y)' <=> Precedes(x, y)
    BY <1>2, <1>4, <1>5 DEF Precedes
  <1>14. InOrder'
    <2> SUFFICES ASSUME NEW i \in 1 .. n, NEW j \in 1 .. n, i < j,
                        NEW x \in client'.listed[i], NEW y \in client'.listed[j]
                 PROVE  Precedes(x, y)
      BY <1>11, <1>13 DEF InOrder
    <2>1. i # n /\ i < n /\ x \in client.listed[i]
      BY <1>11
    <2>2. y \in client.listed[j] \/ y \in Coming
      BY <1>9, <1>11
    <2> QED BY <1>3, <1>11, <2>1, <2>2 DEF InOrder, n
  <1>15. \A i \in DOMAIN client'.listed : i < Len(client'.listed) =>
            \A x \in client'.listed[i], y \in Coming' : Precedes(x, y)'
    <2> SUFFICES ASSUME NEW i \in 1 .. n, i < n, NEW x \in client'.listed[i], NEW y \in Coming'
                 PROVE  Precedes(x, y)
      BY <1>11, <1>13
    <2>1. i \in DOMAIN client.listed /\ i < Len(client.listed) /\ x \in client.listed[i]
      BY <1>11 DEF n
    <2>2. y \in Coming
      BY <1>9
    <2> QED BY <1>3, <2>1, <2>2
  <1>16. ReviewsFit'
    <2>1. Tail(client.todo) \in Seq([review : all, status : Statuses])
      BY <1>6 DEF rows
    <2> HIDE DEF all
    <2>2. all = ToSet(created')
      BY <1>4 DEF all
    <2>3. /\ client'.always \subseteq all
          /\ client'.cursor # None =>
                /\ client'.cursor \in all
                /\ \A k \in Listed' \cup Coming' : Place(created, k) >= Place(created, client'.cursor)
                /\ \A k \in client'.always :
                      Place(created, k) >= Place(created, client'.cursor) => k \in Listed' \cup Coming'
          /\ client'.cursor = None => client'.always \subseteq Listed' \cup Coming'
      BY <1>3, <1>5, <1>12
    <2> QED BY <1>4, <1>5, <1>11, <1>14, <1>15, <2>1, <2>2, <2>3 DEF ReviewsFit
  <1>17. ClientFits'
    BY <1>5, <1>16, OnlyReviews DEF ClientFits
  <1>18. StoreGoesOn
    <2>1. r \in Review
      BY <1>2, <1>7, PlacesOfReviews DEF all
    <2> QED BY <1>1, <2>1, SyncGoesOn, StoreStays DEF QInv, r
  <1> QED BY <1>17, <1>18 DEF QInv, StoreGoesOn

-----------------------------------------------------------------------------
(* The awaits of the authority map                                          *)

LEMMA OnlyMaps ==
    ASSUME client'.op = "map"
    PROVE  LoopFits' /\ GroupsFit' /\ ReviewsFit' /\ ReportFits' /\ ActsFit'
  BY DEF LoopFits, GroupsFit, ReviewsFit, ReportFits, ActsFit

LEMMA ReadRunsFits ==
    ASSUME QInv, ReadRuns
    PROVE  QInv'
  <1> DEFINE todo == Newest(completed)
  <1>1. /\ client.at = "runs" /\ UNCHANGED store
        /\ client' = [[client EXCEPT !.at = "version"] EXCEPT !.todo = todo]
    BY DEF ReadRuns, Proceed
  <1> HIDE DEF todo
  <1>2. client.op = "map" /\ DOMAIN client = DOMAIN Idle /\ MapFits /\ RowsFit
    BY <1>1, WhereItStands DEF QInv, StoreFits, ClientFits
  <1>3. /\ client'.op = "map" /\ client'.at = "version" /\ client'.todo = todo
        /\ client'.always = client.always /\ client'.run = client.run /\ DOMAIN client' = DOMAIN Idle
        /\ completed' = completed /\ vstatus' = vstatus
    BY <1>1, <1>2 DEF Idle, store
  <1>4. completed \in Seq(Review) /\ IsOnce(completed) /\ Len(completed) \in Nat
    BY <1>2 DEF RowsFit
  <1>5. /\ todo \in Seq(Review) /\ Len(todo) = Len(completed) /\ IsOnce(todo)
        /\ ToSet(todo) = ToSet(completed)
        /\ \A x \in ToSet(completed) : Place(todo, x) = (Len(completed) - Place(completed, x)) + 1
    BY <1>4, ReversedPlaces DEF todo
  <1>6. \A i \in 1 .. Len(todo) : Place(todo, todo[i]) = i /\ todo[i] \in ToSet(completed)
    BY <1>5, PlaceIs
  <1>7. \A x : Place(completed, x) \in Nat
    <2>1. \A x : Place(completed, x) \in 0 .. Len(completed)
      BY <1>4, PlaceOf
    <2> QED BY <1>4, <2>1
  <1>8. \A i, j \in 1 .. Len(todo) : i < j => Place(completed, todo[j]) < Place(completed, todo[i])
    <2> SUFFICES ASSUME NEW i \in 1 .. Len(todo), NEW j \in 1 .. Len(todo), i < j
                 PROVE  Place(completed, todo[j]) < Place(completed, todo[i])
      OBVIOUS
    <2>1. /\ i = (Len(completed) - Place(completed, todo[i])) + 1
          /\ j = (Len(completed) - Place(completed, todo[j])) + 1
      BY <1>5, <1>6
    <2> QED BY <1>4, <1>7, <2>1
  <1>9. todo \in Seq(ToSet(completed))
    <2> DEFINE T == ToSet(completed)
    <2>1. \A i \in 1 .. Len(todo) : todo[i] \in T
      BY <1>6
    <2>2. Len(todo) \in Nat /\ todo = [i \in 1 .. Len(todo) |-> todo[i]]
      BY <1>5
    <2> HIDE DEF T
    <2>3. todo \in Seq(T)
      BY <2>1, <2>2
    <2> QED BY <2>3 DEF T
  <1>10. /\ \A r \in client.always : r \in ToSet(completed) /\ vstatus[r] = "accepted"
         /\ client.run = None
    BY <1>1, <1>2 DEF MapFits, IsCompleted
  <1>11. MapFits'
    BY <1>3, <1>5, <1>8, <1>9, <1>10 DEF MapFits, IsCompleted
  <1>12. ClientFits'
    BY <1>3, <1>11, OnlyMaps DEF ClientFits
  <1> QED BY <1>1, <1>12, AskedFits

LEMMA ReadVersionFits ==
    ASSUME QInv, ReadVersion
    PROVE  QInv'
  <1>1. client.at = "version" /\ UNCHANGED store
    BY DEF ReadVersion
  <1>2. client.op = "map" /\ DOMAIN client = DOMAIN Idle /\ MapFits /\ RowsFit
    BY <1>1, WhereItStands DEF QInv, StoreFits, ClientFits
  <1>3. completed' = completed /\ vstatus' = vstatus
    BY <1>1 DEF store
  <1>4. /\ \A r \in client.always : r \in ToSet(completed) /\ vstatus[r] = "accepted"
        /\ client.run = None
        /\ client.todo \in Seq(ToSet(completed))
        /\ \A i, j \in 1 .. Len(client.todo) : i < j =>
              Place(completed, client.todo[j]) < Place(completed, client.todo[i])
        /\ client.always \subseteq ToSet(client.todo)
    BY <1>1, <1>2 DEF MapFits, IsCompleted
  <1>5. \A x : Place(completed, x) \in Nat
    <2>1. completed \in Seq(Review) /\ Len(completed) \in Nat
      BY <1>2 DEF RowsFit
    <2>2. \A x : Place(completed, x) \in 0 .. Len(completed)
      BY <2>1, PlaceOf
    <2> QED BY <2>1, <2>2
  <1>6. CASE client.todo = <<>>
    <2>1. client' = [client EXCEPT !.at = "done"]
      BY <1>6 DEF ReadVersion, Proceed
    <2>2. /\ client'.op = "map" /\ client'.at = "done" /\ client'.always = client.always
          /\ client'.run = None /\ DOMAIN client' = DOMAIN Idle
      BY <1>2, <1>4, <2>1 DEF Idle
    <2>3. client.always = {}
      BY <1>4, <1>6 DEF ToSet
    <2>4. MapFits'
      BY <2>2, <2>3 DEF MapFits, MapIsNotOutdated
    <2>5. ClientFits'
      BY <2>2, <2>4, OnlyMaps DEF ClientFits
    <2> QED BY <1>1, <2>5, AskedFits
  <1> DEFINE head == Head(client.todo)
             n == Len(client.todo)
  <1>7. ASSUME client.todo # <<>>
        PROVE  /\ head \in ToSet(completed) /\ Tail(client.todo) \in Seq(ToSet(completed))
               /\ n \in Nat \ {0} /\ Len(Tail(client.todo)) = n - 1
               /\ \A i \in 1 .. Len(Tail(client.todo)) : Tail(client.todo)[i] = client.todo[i + 1]
               /\ head = client.todo[1] /\ DOMAIN client.todo = 1 .. n
               /\ DOMAIN Tail(client.todo) = 1 .. n - 1
    <2> DEFINE T == ToSet(completed)
    <2>1. client.todo \in Seq(T) /\ client.todo # <<>>
      BY <1>4, <1>7
    <2> HIDE DEF T
    <2>2. /\ head \in T /\ Tail(client.todo) \in Seq(T)
          /\ n \in Nat \ {0} /\ Len(Tail(client.todo)) = n - 1
          /\ \A i \in 1 .. Len(Tail(client.todo)) : Tail(client.todo)[i] = client.todo[i + 1]
          /\ head = client.todo[1]
      BY <2>1, HeadAndTail
    <2>3. DOMAIN client.todo = 1 .. n /\ DOMAIN Tail(client.todo) = 1 .. Len(Tail(client.todo))
      BY <2>1, <2>2
    <2> QED BY <2>2, <2>3 DEF T
  <1>8. CASE client.todo # <<>> /\ vstatus[head] = "accepted"
    <2>1. client' = [[client EXCEPT !.at = "done"] EXCEPT !.run = head]
      BY <1>8 DEF ReadVersion, Proceed
    <2> HIDE DEF head, n
    <2>2. /\ client'.op = "map" /\ client'.at = "done" /\ client'.always = client.always
          /\ client'.run = head /\ DOMAIN client' = DOMAIN Idle
      BY <1>2, <2>1 DEF Idle
    <2>3. \A r \in client.always : Place(completed, head) >= Place(completed, r)
      <3> TAKE r \in client.always
      <3>1. PICK j \in 1 .. n : r = client.todo[j]
        BY <1>4, <1>7, <1>8 DEF ToSet
      <3>2. CASE j = 1
        BY <1>5, <1>7, <1>8, <3>1, <3>2
      <3>3. CASE j # 1
        <4>1. 1 \in 1 .. n /\ 1 < j
          BY <1>7, <1>8, <3>3
        <4>2. Place(completed, client.todo[j]) < Place(completed, client.todo[1])
          BY <1>4, <4>1 DEF n
        <4> QED BY <1>5, <1>7, <1>8, <3>1, <4>2
      <3> QED BY <3>2, <3>3
    <2>4. head \in ToSet(completed) /\ head # None
      <3>1. ToSet(completed) \subseteq Review
        BY <1>2 DEF RowsFit, ToSet
      <3> QED BY <1>7, <1>8, <3>1, QueriesAssumption
    <2>5. MapIsNotOutdated'
      BY <1>3, <1>8, <2>2, <2>3, <2>4 DEF MapIsNotOutdated
    <2>6. MapFits'
      BY <1>3, <1>4, <2>2, <2>4, <2>5 DEF MapFits, IsCompleted
    <2>7. ClientFits'
      BY <2>2, <2>6, OnlyMaps DEF ClientFits
    <2> QED BY <1>1, <2>7, AskedFits
  <1>9. CASE client.todo # <<>> /\ vstatus[head] # "accepted"
    <2>1. client' = [client EXCEPT !.todo = Tail(@)]
      BY <1>9 DEF ReadVersion
    <2> DEFINE tail == Tail(client.todo)
    <2> HIDE DEF head, n
    <2>2. /\ client'.op = "map" /\ client'.at = "version" /\ client'.always = client.always
          /\ client'.run = client.run /\ client'.todo = tail /\ DOMAIN client' = DOMAIN Idle
      BY <1>1, <1>2, <2>1 DEF Idle
    <2>3. \A i, j \in 1 .. Len(tail) : i < j => Place(completed, tail[j]) < Place(completed, tail[i])
      <3> SUFFICES ASSUME NEW i \in 1 .. Len(tail), NEW j \in 1 .. Len(tail), i < j
                   PROVE  Place(completed, tail[j]) < Place(completed, tail[i])
        OBVIOUS
      <3>1. /\ tail[i] = client.todo[i + 1] /\ tail[j] = client.todo[j + 1]
            /\ i + 1 \in 1 .. n /\ j + 1 \in 1 .. n /\ i + 1 < j + 1
        BY <1>7, <1>9
      <3> HIDE DEF tail
      <3> QED BY <1>4, <3>1 DEF n
    <2>4. client.always \subseteq ToSet(tail)
      <3> SUFFICES ASSUME NEW r \in client.always PROVE r \in ToSet(tail)
        OBVIOUS
      <3>1. PICK j \in 1 .. n : r = client.todo[j]
        BY <1>4, <1>7, <1>9 DEF ToSet
      <3>2. j # 1
        BY <1>4, <1>7, <1>9, <3>1
      <3>3. j - 1 \in 1 .. Len(tail) /\ (j - 1) + 1 = j
        BY <1>7, <1>9, <3>2
      <3>4. tail[j - 1] = r /\ j - 1 \in DOMAIN tail
        BY <1>7, <1>9, <3>1, <3>3
      <3> QED BY <3>4 DEF ToSet
    <2>5. tail \in Seq(ToSet(completed))
      BY <1>7, <1>9
    <2> HIDE DEF tail
    <2>6. MapFits'
      BY <1>3, <1>4, <2>2, <2>3, <2>4, <2>5 DEF MapFits, IsCompleted
    <2>7. ClientFits'
      BY <2>2, <2>6, OnlyMaps DEF ClientFits
    <2> QED BY <1>1, <2>7, AskedFits
  <1> QED BY <1>6, <1>8, <1>9

-----------------------------------------------------------------------------
(* The awaits of the findings, and of acts on them                          *)

LEMMA OnlyActs ==
    ASSUME client'.op \in {"findings", "acknowledge", "draft"}
    PROVE  LoopFits' /\ GroupsFit' /\ ReviewsFit' /\ ReportFits' /\ MapFits'
  BY DEF LoopFits, GroupsFit, ReviewsFit, ReportFits, MapFits

LEMMA ReadLatestRunFits ==
    ASSUME QInv, ReadLatestRun
    PROVE  QInv'
  <1> DEFINE run == FindLatestConformanceRun
             at == IF conformance = <<>> THEN "done" ELSE "findings"
  <1>1. /\ client.at = "latest" /\ UNCHANGED store
        /\ client' = [[client EXCEPT !.at = at] EXCEPT !.run = run, !.items = {}]
    BY DEF ReadLatestRun, Proceed
  <1> HIDE DEF run
  <1>2. /\ client.op \in {"findings", "acknowledge", "draft"} /\ DOMAIN client = DOMAIN Idle
        /\ ActsFit /\ AcksFit
    BY <1>1, WhereItStands DEF QInv, StoreFits, ClientFits
  <1>3. /\ client'.op = client.op /\ client'.at = at /\ client'.run = run /\ client'.items = {}
        /\ client'.shown = client.shown /\ client'.key = client.key /\ DOMAIN client' = DOMAIN Idle
        /\ conformance' = conformance
    BY <1>1, <1>2 DEF Idle, store, findings
  <1>4. /\ conformance # <<>> => run \in ToSet(conformance)
        /\ run \in ToSet(conformance) \cup {None}
        /\ \A m \in ToSet(conformance) \cup {None} : Place(conformance, run) >= Place(conformance, m)
    BY <1>2, LatestIsLast DEF run
  <1>5. /\ client.op = "findings" => client.key = None /\ client.shown \in ToSet(conformance) \cup {None}
        /\ client.op # "findings" => client.shown \in ToSet(conformance) /\ client.key \in FindingsOf[client.shown]
    BY <1>2 DEF ActsFit
  <1>6. /\ client'.at \in {"done", "findings"}
        /\ client'.at = "findings" => conformance # <<>>
        /\ client'.at = "done" => conformance = <<>>
    BY <1>3
  <1>7. conformance = <<>> => client.op = "findings"
    BY <1>2, <1>5 DEF ToSet
  <1> HIDE DEF at
  <1>8. ActsFit'
    BY <1>2, <1>3, <1>4, <1>5, <1>6, <1>7 DEF ActsFit
  <1>9. ClientFits'
    BY <1>2, <1>3, <1>6, <1>8, OnlyActs DEF ClientFits
  <1> QED BY <1>1, <1>9, AskedFits

LEMMA ListFindingsFits ==
    ASSUME QInv, ListFindings
    PROVE  QInv'
  <1>1. /\ client.at = "findings" /\ client.op = "findings" /\ UNCHANGED store
        /\ client' = [[client EXCEPT !.at = "done"] EXCEPT !.items = FindingsOf[client.run]]
    BY DEF ListFindings, Proceed
  <1>2. DOMAIN client = DOMAIN Idle /\ ActsFit
    BY DEF QInv, ClientFits
  <1>3. /\ client'.op = "findings" /\ client'.at = "done" /\ client'.run = client.run
        /\ client'.items = FindingsOf[client.run] /\ client'.shown = client.shown
        /\ client'.key = client.key /\ DOMAIN client' = DOMAIN Idle /\ conformance' = conformance
    BY <1>1, <1>2 DEF Idle, store, findings
  <1>4. ActsFit'
    BY <1>1, <1>2, <1>3 DEF ActsFit
  <1>5. ClientFits'
    BY <1>3, <1>4, OnlyActs DEF ClientFits
  <1> QED BY <1>1, <1>5, AskedFits

LEMMA LocateFindingFits ==
    ASSUME QInv, LocateFinding
    PROVE  QInv'
  <1> DEFINE found == {client.key} \cap FindingsOf[client.run]
  <1>1. /\ client.at = "findings" /\ client.op \in {"acknowledge", "draft"}
        /\ client' = [[client EXCEPT !.at = "done"] EXCEPT !.items = found]
        /\ conformance' = conformance
    BY DEF LocateFinding, Proceed
  <1>2. DOMAIN client = DOMAIN Idle /\ ActsFit
    BY DEF QInv, ClientFits
  <1>3. /\ client'.op = client.op /\ client'.at = "done" /\ client'.run = client.run
        /\ client'.items = found /\ client'.shown = client.shown
        /\ client'.key = client.key /\ DOMAIN client' = DOMAIN Idle
    BY <1>1, <1>2 DEF Idle
  <1>4. client.run \in ToSet(conformance) /\ client.key \in FindingsOf[client.shown]
    BY <1>1, <1>2 DEF ActsFit
  <1>5. found = {} => client.run # client.shown
    BY <1>4
  <1> HIDE DEF found
  <1>6. ActsFit'
    BY <1>1, <1>2, <1>3, <1>5 DEF ActsFit
  <1>7. ClientFits'
    BY <1>1, <1>3, <1>6, OnlyActs DEF ClientFits
  <1> QED BY <1>4, <1>7, LocateGoesOn DEF QInv, StoreGoesOn

LEMMA AnsweredFits ==
    ASSUME QInv, Answered
    PROVE  QInv'
  <1>1. client' = Idle /\ UNCHANGED store
    BY DEF Answered
  <1>2. client'.op = "none" /\ client'.at = "idle" /\ DOMAIN client' = DOMAIN Idle
    BY <1>1 DEF Idle
  <1>3. ClientFits'
    BY <1>2 DEF ClientFits, LoopFits, GroupsFit, ReviewsFit, ReportFits, MapFits, ActsFit
  <1> QED BY <1>1, <1>3, AskedFits

-----------------------------------------------------------------------------
(* The invariant holds, and tells the properties                            *)

LEMMA QueriesStart ==
    ASSUME QueriesInit
    PROVE  QInv
  <1>1. PICK r \in Review :
           /\ created = <<r>>
           /\ status = [s \in Review |-> IF s = r THEN "computing" ELSE None]
           /\ vstatus = [s \in Review |-> IF s = r THEN "in_review" ELSE "draft"]
           /\ completed = <<>>
           /\ verdict = [s \in Review |-> [k \in ToSet(GroupsOf[s]) |-> None]]
           /\ decisions = <<>> /\ conformance = <<>> /\ acknowledged = {} /\ client = Idle
    BY DEF QueriesInit
  <1>2. RowsFit
    <2>1. created \in Seq(Review) /\ Len(created) = 1 /\ completed \in Seq(Review) /\ Len(completed) = 0
      BY <1>1
    <2>2. IsOnce(created) /\ IsOnce(completed)
      BY <2>1 DEF IsOnce
    <2>3. ToSet(completed) \subseteq ToSet(created)
      BY <1>1 DEF ToSet
    <2>4. status \in [Review -> Statuses]
      BY <1>1 DEF Statuses
    <2>5. vstatus \in [Review -> {"draft", "in_review", "accepted", "rejected"}]
      BY <1>1
    <2>6. DOMAIN verdict = Review /\ \A s \in Review : DOMAIN verdict[s] = ToSet(GroupsOf[s])
      BY <1>1
    <2> QED BY <2>1, <2>2, <2>3, <2>4, <2>5, <2>6 DEF RowsFit
  <1>3. DecisionsFit
    <2>1. /\ decisions \in Seq([review : Review, outcome : {"accepted", "rejected"}])
          /\ Len(decisions) = 0
      BY <1>1
    <2>2. \A s \in Review : status[s] \notin {"ready", "accepted", "rejected"}
      <3>1. \A s \in Review : status[s] \in {"computing", None}
        BY <1>1
      <3> QED BY <3>1, QueriesAssumption
    <2> QED BY <2>1, <2>2 DEF DecisionsFit
  <1>4. AcksFit
    BY <1>1 DEF AcksFit, IsOnce
  <1>5. ClientFits
    <2>1. client.op = "none" /\ client.at = "idle" /\ DOMAIN client = DOMAIN Idle
      BY <1>1 DEF Idle
    <2> QED BY <2>1 DEF ClientFits, LoopFits, GroupsFit, ReviewsFit, ReportFits, MapFits, ActsFit
  <1> QED BY <1>2, <1>3, <1>4, <1>5 DEF QInv, StoreFits

LEMMA QueriesGoOn ==
    ASSUME QInv, Queries
    PROVE  QInv'
  <1>1. CASE \E r \in Review : AskReport(r) \/ \E f \in Filters : AskGroups(r, f)
    BY <1>1, AskReportFits, AskGroupsFits
  <1>2. CASE AskReviews \/ AskMap \/ AskFindings
    BY <1>2, AskReviewsFits, AskMapFits, AskFindingsFits
  <1>3. CASE \E op \in {"acknowledge", "draft"} :
                \E key \in UNION {FindingsOf[n] : n \in DOMAIN FindingsOf} : ActOnFinding(op, key)
    BY <1>3, ActOnFindingFits
  <1> QED BY <1>1, <1>2, <1>3 DEF Queries

LEMMA AwaitsGoOn ==
    ASSUME QInv, Awaits
    PROVE  QInv'
  <1>1. CASE ReadReview \/ Sync \/ ReadGroups \/ ReadVerdicts
    BY <1>1, ReadReviewFits, SyncFits, ReadGroupsFits, ReadVerdictsFits
  <1>2. CASE ReadRun \/ ReadDecision \/ ReadTail
    BY <1>2, ReadRunFits, ReadDecisionFits, ReadTailFits
  <1>3. CASE ReadReviews \/ ReadView \/ AnswerReviews \/ ReadRuns \/ ReadVersion
    BY <1>3, ReadReviewsFits, ReadViewFits, AnswerReviewsFits, ReadRunsFits, ReadVersionFits
  <1>4. CASE ReadLatestRun \/ ListFindings \/ LocateFinding \/ Answered
    BY <1>4, ReadLatestRunFits, ListFindingsFits, LocateFindingFits, AnsweredFits
  <1> QED BY <1>1, <1>2, <1>3, <1>4 DEF Awaits

LEMMA QInvIsInvariant == QueriesSpec => []QInv
  <1>1. QInv /\ [QueriesNext]_queryVars => QInv'
    <2> SUFFICES ASSUME QInv, [QueriesNext]_queryVars PROVE QInv'
      OBVIOUS
    <2>1. CASE Writes
      BY <2>1, WritesFit
    <2>2. CASE \E n \in DOMAIN FindingsOf : ConformanceEnds(n)
      BY <2>2, ConformanceFits
    <2>3. CASE Queries
      BY <2>3, QueriesGoOn
    <2>4. CASE Awaits
      BY <2>4, AwaitsGoOn
    <2>5. CASE UNCHANGED queryVars
      BY <2>5, StutterFits
    <2> QED BY <2>1, <2>2, <2>3, <2>4, <2>5 DEF QueriesNext
  <1> QED BY <1>1, QueriesStart, PTL DEF QueriesSpec

LEMMA ListingsFit ==
    ASSUME QInv
    PROVE  PagesAreComplete
  <1>1. CASE client.op = "groups"
    BY <1>1 DEF QInv, ClientFits, GroupsFit, InOrder, Listed, PagesAreComplete
  <1>2. CASE client.op = "reviews"
    <2>1. InOrder /\ (client.at = "done" => client.always \subseteq Listed \cup Coming /\ Coming = {})
      BY <1>2 DEF QInv, ClientFits, ReviewsFit, Coming
    <2> QED BY <1>2, <2>1 DEF InOrder, Listed, PagesAreComplete
  <1> QED BY <1>1, <1>2 DEF PagesAreComplete

\* A listing in pages, of the groups of a review or of the reviews, has what belongs
\* to it from the first request to the last, and in its order, though Verdicts, reviews
\* and completions come between the pages (listAllDiffGroups, listAdoptionGroups and
\* listChangeReviews with their cursors).
THEOREM ListingsAreComplete == QueriesSpec => []PagesAreComplete
  BY QInvIsInvariant, ListingsFit, PTL

LEMMA AnswersAreFit ==
    ASSUME QInv
    PROVE  AnswersFitTogether
  <1>1. ReportIsCoherent
    BY DEF QInv, ClientFits, ReportFits, ReportIsCoherent
  <1>2. MapIsNotOutdated
    BY DEF QInv, ClientFits, MapFits, MapIsNotOutdated
  <1>3. ActsReachTheNewestRun
    BY DEF QInv, StoreFits, AcksFit, ClientFits, ActsFit, ActsReachTheNewestRun
  <1> QED BY <1>1, <1>2, <1>3 DEF AnswersFitTogether

\* What one answer puts together from several reads fits: the parts of an Evidence
\* Report, the run of the authority map, and an act on a finding with the run it
\* reaches (getReport, getAuthorityMap, acknowledgeFinding, createDraftFromFinding).
THEOREM AnswersFit == QueriesSpec => []AnswersFitTogether
  BY QInvIsInvariant, AnswersAreFit, PTL
=============================================================================
