----------------------------- MODULE HookSpool -----------------------------
(***************************************************************************)
(* The spool of hook observations. Hooks append a line to the file of the  *)
(* day; `authority spool flush` reads each file, posts its lines in        *)
(* batches and renames it. Nothing keeps hooks, or a second flush, out of  *)
(* a file that a flush is sending.                                         *)
(*                                                                         *)
(* Records are numbered in the order in which hooks append them to a file, *)
(* so that the lines of a file are a set and their order is that of the    *)
(* numbers.                                                                *)
(***************************************************************************)
EXTENDS Integers, FiniteSets

CONSTANTS
    Record,      \* numbers of what hooks observe; each is one line and one natural key
    File,        \* one file a day: the days, in the order of their names
    FileOf,      \* record -> the file of its timestamp
    Flush,       \* processes that run a flush
    BatchLimit   \* lines in one request

ASSUME SpoolAssumption ==
    /\ Record \subseteq Nat /\ File \subseteq Nat
    /\ FileOf \in [Record -> File]
    /\ BatchLimit \in Nat \ {0}

VARIABLES
    spool,     \* the .jsonl files: file -> lines; a file without lines does not exist
    sent,      \* the .sent files
    stored,    \* runtime_observations, by natural key
    flush,     \* what each flush is doing
    appended,  \* history: what hooks have appended
    raced      \* history: what was appended to a file that a flush had read

vars == <<spool, sent, stored, flush, appended, raced>>

-----------------------------------------------------------------------------

Idle == [at |-> "idle", names |-> {}, file |-> {}, lines |-> {}, left |-> {}]

\* names is what readdir gave and has not been reached; file holds the one at
\* hand; lines is what was read of it, and left what has not been posted.
FlushState ==
    [at : {"idle", "next", "posting"}, names : SUBSET File, file : SUBSET File,
     lines : SUBSET Record, left : SUBSET Record]

TypeOK ==
    /\ spool \in [File -> SUBSET Record]
    /\ sent \in [File -> SUBSET Record]
    /\ stored \subseteq Record
    /\ flush \in [Flush -> FlushState]
    /\ \A p \in Flush : flush[p].left \subseteq flush[p].lines
    /\ \A p \in Flush : flush[p].at # "posting" => flush[p].file = {}
    /\ appended \subseteq Record
    /\ raced \subseteq appended

Init ==
    /\ spool = [f \in File |-> {}]
    /\ sent = [f \in File |-> {}]
    /\ stored = {}
    /\ flush = [p \in Flush |-> Idle]
    /\ appended = {}
    /\ raced = {}

Exists(f) == spool[f] # {}

\* p has read f and not renamed it.
Sending(p, f) == flush[p].at = "posting" /\ f \in flush[p].file

-----------------------------------------------------------------------------

\* appendSpoolRecord: one write to the end of the file, made if it is not there.
HookAppend(r) ==
    LET f == FileOf[r] IN
    /\ r \notin appended
    /\ \A q \in Record : (q < r /\ FileOf[q] = f) => q \in appended
    /\ spool' = [spool EXCEPT ![f] = @ \cup {r}]
    /\ appended' = appended \cup {r}
    /\ raced' = IF \E p \in Flush : Sending(p, f) THEN raced \cup {r} ELSE raced
    /\ UNCHANGED <<sent, stored, flush>>

\* Mutant of BeginFlush: a day that has a .sent file is taken for done.
BeginFresh(p) ==
    /\ flush[p].at = "idle"
    /\ \E f \in File : Exists(f)
    /\ flush' = [flush EXCEPT ![p] =
                   [Idle EXCEPT !.at = "next", !.names = {f \in File : Exists(f) /\ sent[f] = {}}]]
    /\ UNCHANGED <<spool, sent, stored, appended, raced>>

\* readdirSync: the files of the spool that are not .sent.
BeginFlush(p) ==
    /\ flush[p].at = "idle"
    /\ \E f \in File : Exists(f)
    /\ flush' = [flush EXCEPT ![p] = [Idle EXCEPT !.at = "next", !.names = {f \in File : Exists(f)}]]
    /\ UNCHANGED <<spool, sent, stored, appended, raced>>

\* What becomes of p when it is done with a file, sent or failed.
NextFile(p) == [Idle EXCEPT !.at = "next", !.names = flush[p].names]

\* Files are taken in the order of their names. One that another flush has renamed
\* cannot be read: it counts as failed.
ReadFile(p, f) ==
    /\ flush[p].at = "next"
    /\ f \in flush[p].names
    /\ \A g \in flush[p].names : f <= g
    /\ flush' = [flush EXCEPT ![p] =
                   IF Exists(f)
                   THEN [at |-> "posting", names |-> flush[p].names \ {f}, file |-> {f},
                         lines |-> spool[f], left |-> spool[f]]
                   ELSE [flush[p] EXCEPT !.names = flush[p].names \ {f}]]
    /\ UNCHANGED <<spool, sent, stored, appended, raced>>

EndFlush(p) ==
    /\ flush[p].at = "next"
    /\ flush[p].names = {}
    /\ flush' = [flush EXCEPT ![p] = Idle]
    /\ UNCHANGED <<spool, sent, stored, appended, raced>>

\* chunk: the first lines of what has not been posted.
Batch(left) == {r \in left : Cardinality({q \in left : q < r}) < BatchLimit}

\* By natural key, on conflict do nothing.
WriteObservations(b) == stored \cup b

\* The route of the server derives the key of each observation and writes them all
\* in one statement.
IngestObservations(b) == stored' = WriteObservations(b)

\* One batch is stored and answered.
PostBatch(p) ==
    /\ flush[p].at = "posting"
    /\ flush[p].left # {}
    /\ IngestObservations(Batch(flush[p].left))
    /\ flush' = [flush EXCEPT ![p].left = @ \ Batch(@)]
    /\ UNCHANGED <<spool, sent, appended, raced>>

\* Mutant of PostFails: a batch that is not accepted is skipped.
PostSkips(p) ==
    /\ flush[p].at = "posting"
    /\ flush[p].left # {}
    /\ IngestObservations(Batch(flush[p].left)) \/ UNCHANGED stored
    /\ flush' = [flush EXCEPT ![p].left = @ \ Batch(@)]
    /\ UNCHANGED <<spool, sent, appended, raced>>

\* A batch that is refused, or whose answer is lost after it was stored, fails the
\* file: it keeps its name, though some of its lines are stored.
PostFails(p) ==
    /\ flush[p].at = "posting"
    /\ flush[p].left # {}
    /\ IngestObservations(Batch(flush[p].left)) \/ UNCHANGED stored
    /\ flush' = [flush EXCEPT ![p] = NextFile(p)]
    /\ UNCHANGED <<spool, sent, appended, raced>>

\* renameSync takes the file as it is by now, over an earlier .sent of the day; a
\* file that is gone fails.
RenameFile(p) ==
    \E f \in flush[p].file :
        /\ flush[p].at = "posting"
        /\ flush[p].left = {}
        /\ IF Exists(f)
           THEN /\ sent' = [sent EXCEPT ![f] = spool[f]]
                /\ spool' = [spool EXCEPT ![f] = {}]
           ELSE UNCHANGED <<spool, sent>>
        /\ flush' = [flush EXCEPT ![p] = NextFile(p)]
        /\ UNCHANGED <<stored, appended, raced>>

\* The process ends anywhere.
Crash(p) ==
    /\ flush[p].at # "idle"
    /\ flush' = [flush EXCEPT ![p] = Idle]
    /\ UNCHANGED <<spool, sent, stored, appended, raced>>

-----------------------------------------------------------------------------

Step(p) ==
    \/ BeginFlush(p)
    \/ \E f \in File : ReadFile(p, f)
    \/ EndFlush(p)
    \/ PostBatch(p)
    \/ PostFails(p)
    \/ RenameFile(p)

Next ==
    \/ \E r \in Record : HookAppend(r)
    \/ \E p \in Flush : Step(p) \/ Crash(p)

Spec == Init /\ [][Next]_vars

\* Flushes are run again and again and go on. A file that is reached again and
\* again is read, a line that is offered again and again is accepted, and a file
\* that is sent again and again is renamed, by some flush and some time.
Fairness ==
    /\ WF_vars(\E p \in Flush : Step(p))
    /\ \A f \in File : SF_vars(\E p \in Flush : ReadFile(p, f))
    /\ \A r \in Record :
         SF_vars(\E p \in Flush : r \in Batch(flush[p].left) /\ PostBatch(p))
    /\ SF_vars(\E p \in Flush : RenameFile(p))

FairSpec == Spec /\ Fairness

-----------------------------------------------------------------------------

\* Refused batches, lost answers, crashes and flushes that run at once lose
\* nothing: an observation that is neither stored nor in the spool was appended
\* while a flush had read its file and not yet renamed it (runSpoolFlush).
OnlyRacedAreLost ==
    \A r \in appended : r \in stored \/ r \in spool[FileOf[r]] \/ r \in raced

\* "A file that fails to send keeps its name so a later flush retries it"
\* (apps/cli/src/commands/spool-flush.command.ts:80): what no flush raced with is
\* stored in the end.
AppendedAreStored ==
    \A r \in Record : (r \in appended /\ r \notin raced) ~> (r \in stored)
=============================================================================
