--------------------------- MODULE WebClientProofs ---------------------------
(***************************************************************************)
(* For any documents, groups and verdicts, any number of writes by the tab *)
(* and by others, and any faults of the network: the tab shows what it was *)
(* told of its own writes, and a computed review with its groups.          *)
(*                                                                         *)
(* The argument is about the one read that is under way for every key. An  *)
(* answer on its way back may replace what is shown, so it must know as    *)
(* much: a write that is answered replaces the read with one still to be   *)
(* made at the server, which knows everything that has landed.             *)
(***************************************************************************)
EXTENDS WebClient, TLAPS

-----------------------------------------------------------------------------
(* What the server goes through                                             *)

\* The statuses of a review whose replay has groups.
Computed == {"ready", "accepted", "rejected"}

ServerFits ==
    /\ rstatus \in {"absent"} \cup Open \cup Closed
    /\ run \in {"running", "completed", "failed"}
    /\ rstatus \in Computed \/ marking => run = "completed"
    /\ marking \in BOOLEAN /\ reopened \in BOOLEAN
    /\ verdict \in [Group -> Verdict \cup {None}]
    /\ landed \in Nat

-----------------------------------------------------------------------------
(* What the tab was told                                                    *)

ReviewData == [status : Open \cup Closed, gate : BOOLEAN, own : Nat]
GroupsData == [empty : BOOLEAN, verdict : [Group -> Verdict \cup {None}], own : Nat]

Entries(data) ==
    [data : data \cup {None}, failed : BOOLEAN,
     fetch : {"idle", "sent", "read"}, got : data \cup {None}]

\* What a review was told to be, if anything: a computed one has groups, a closed one is
\* what the review is until it is reopened, and it knows no write that has not landed.
IsTold(view) ==
    view # None =>
        /\ view \in ReviewData
        /\ view.status \in Computed => run = "completed"
        /\ view.status \in Closed /\ ~reopened => rstatus = view.status
        /\ view.own <= landed

CacheFits ==
    /\ DOMAIN cache = Key
    /\ cache["review"] \in Entries(ReviewData) /\ cache["groups"] \in Entries(GroupsData)
    /\ \A k \in {"review", "groups"} : cache[k].fetch = "read" => cache[k].got # None
    /\ IsTold(cache["review"].data) /\ IsTold(cache["review"].got)

\* What a button of a group carries is a verdict.
IsJudgement(b, arg) == b \notin {"save", "create", "decide", "withdraw"} => arg \in Verdict

\* A write of the review is made from what both queries answered, and its answer knows it.
WriteFits(b, m) ==
    /\ DOMAIN m = DOMAIN NoMutation
    /\ OfReview(b) /\ m.at # "idle" => Loaded(cache, "review") /\ Loaded(cache, "groups")
    /\ m.at = "sent" => IsJudgement(b, m.arg)
    /\ m.at = "done" => m.own \in Nat /\ m.own <= landed
    /\ m.at = "done" /\ b \in {"decide", "withdraw"} =>
          m.answer # None /\ IsTold(m.answer) /\ m.answer.status \in Closed

WritesFit == DOMAIN mut = Button /\ \A b \in Button : WriteFits(b, mut[b])

\* Where a review is asked for, there is one.
ReviewIsThere ==
    \/ page \in {"review", "group"}
    \/ cache["review"].fetch # "idle"
    \/ mut["create"].at = "done"
    => rstatus # "absent"

-----------------------------------------------------------------------------
(* What is shown                                                            *)

\* An entry that holds nothing older than n of the tab's writes, or is about to be read.
Knows(entry, n) ==
    /\ entry.fetch = "read" => entry.got.own >= n
    /\ entry.fetch = "idle" /\ entry.data # None /\ ~entry.failed => entry.data.own >= n

AcksFit ==
    /\ page \in Page
    /\ acked \in [{"review", "groups"} -> Nat]
    /\ \A k \in {"review", "groups"} : acked[k] <= landed /\ Knows(cache[k], acked[k])
    /\ page \notin {"review", "group"} => acked = NothingAcked

\* An entry of groups that were read after the replay, or are about to be.
HasGroups(entry) ==
    /\ entry.fetch = "read" => ~entry.got.empty
    /\ entry.fetch = "idle" /\ entry.data # None /\ ~entry.failed => ~entry.data.empty

GroupsFit ==
    page = "review" /\ ShownStatus(cache) \in Computed /\ ~crossed => HasGroups(cache["groups"])

\* No read that would show a closed review otherwise is under way.
ClosedFits ==
    /\ acked["review"] > 0 /\ ShownStatus(cache) \in Closed /\ cache["review"].fetch = "read"
    /\ ~reopened
    => cache["review"].got.status = ShownStatus(cache)

ShownFits ==
    /\ ServerFits /\ CacheFits /\ WritesFit /\ ReviewIsThere
    /\ AcksFit /\ GroupsFit /\ ClosedFits

-----------------------------------------------------------------------------
(* Entries that are read again                                              *)

Restarts(entry) == {entry, Start(entry)}

LEMMA StartsAreSent ==
  ASSUME NEW data, NEW entry \in Entries(data)
  PROVE  /\ Start(entry) \in Entries(data)
         /\ Start(entry).data = entry.data /\ Start(entry).fetch = "sent"
         /\ Start(entry).got = None
  BY DEF Start, Entries

LEMMA FetchesRestart ==
  ASSUME NEW entry
  PROVE  Fetch(entry) \in Restarts(entry) /\ Refetch(entry) \in Restarts(entry)
  BY DEF Fetch, Refetch, Restarts

LEMMA RestartsFit ==
  ASSUME NEW data, NEW entry \in Entries(data), NEW next \in Restarts(entry)
  PROVE  /\ next \in Entries(data) /\ next.data = entry.data
         /\ next = entry \/ (next.fetch = "sent" /\ next.got = None)
  BY StartsAreSent DEF Restarts

\* An entry that is the same or is about to be read again.
Follows(next, entry) == next = entry \/ (next.fetch = "sent" /\ next.got = None)

-----------------------------------------------------------------------------
(* The server                                                               *)

\* What is over stays over unless it is reopened, and what has landed stays.
ServerGoesOn ==
    /\ ServerFits'
    /\ rstatus \in Closed /\ ~reopened' => rstatus' = rstatus
    /\ reopened => reopened'
    /\ rstatus # "absent" => rstatus' # "absent"
    /\ run = "completed" => run' = "completed"
    /\ landed <= landed'

LEMMA Synced ==
  ASSUME ServerFits
  PROVE  /\ SyncedStatus \in {"absent"} \cup Open \cup Closed
         /\ SyncedStatus \in Computed => run = "completed"
         /\ rstatus \in Closed => SyncedStatus = rstatus
         /\ rstatus # "absent" => SyncedStatus # "absent"
  BY DEF ServerFits, SyncedStatus, Open, Closed, Computed

LEMMA SyncGoesOn ==
  ASSUME ServerFits, Sync, UNCHANGED <<run, verdict, late, landed>>
  PROVE  ServerGoesOn
  BY Synced DEF ServerFits, ServerGoesOn, Sync, late

LEMMA ServerStays ==
  ASSUME ServerFits, UNCHANGED <<rstatus, run, verdict, late, landed>>
  PROVE  ServerGoesOn
  BY DEF ServerFits, ServerGoesOn, late

LEMMA EndsGoOn ==
  ASSUME ServerFits, landed' \in Nat, landed <= landed', UNCHANGED late,
         NEW s \in {"accepted", "rejected", "withdrawn"}, Ends(s), s \in Computed => SyncedStatus = "ready", SyncedStatus \in Open
  PROVE  ServerGoesOn
  BY DEF ServerFits, ServerGoesOn, Ends, SyncedStatus, Open, Closed, Computed, late

LEMMA WritesGoOn ==
  ASSUME ServerFits, landed' \in Nat, landed <= landed', UNCHANGED late,
         NEW b \in Button, NEW arg, NEW match, IsJudgement(b, arg), Allows(b, arg, match), Performs(b, arg)
  PROVE  ServerGoesOn
PROOF
<1>1. CASE b = "save"
  BY <1>1 DEF Performs, ServerFits, ServerGoesOn, late
<1>2. CASE b = "create"
  BY <1>2 DEF Performs, Allows, ServerFits, ServerGoesOn, Open, Closed, Computed, late
<1>3. CASE b = "decide"
  <2>1. SyncedStatus = "ready"
    BY <1>3 DEF Allows
  <2>2. Ends("accepted") \/ Ends("rejected")
    BY <1>3 DEF Performs
  <2> QED
    BY <2>1, <2>2, EndsGoOn DEF Open
<1>4. CASE b = "withdraw"
  <2>1. SyncedStatus \in Open
    BY <1>4 DEF Allows
  <2>2. Ends("withdrawn")
    BY <1>4 DEF Performs
  <2> QED
    BY <2>1, <2>2, EndsGoOn DEF Computed
<1>5. CASE b \notin {"save", "create", "decide", "withdraw"}
  <2>1. Sync /\ UNCHANGED run /\ verdict' = [verdict EXCEPT ![b] = arg]
    BY <1>5 DEF Performs
  <2>2. arg \in Verdict
    BY <1>5 DEF IsJudgement
  <2>3. verdict' \in [Group -> Verdict \cup {None}]
    BY <2>1, <2>2 DEF ServerFits
  <2> QED
    BY <2>1, <2>3, Synced DEF Sync, ServerFits, ServerGoesOn, late
<1> QED
  BY <1>1, <1>2, <1>3, <1>4, <1>5

\* What was told stays true.
LEMMA TellingStays ==
  ASSUME ServerFits, ServerGoesOn, NEW view, IsTold(view)
  PROVE  IsTold(view)'
  BY DEF IsTold, ReviewData, ServerFits, ServerGoesOn

\* A view of the review holds what it was made of.
LEMMA ViewIsData ==
  ASSUME NEW s \in Open \cup Closed, NEW vd, NEW own \in Nat
  PROVE  \E view \in ReviewData :
            /\ view = ReviewView(s, vd, own) /\ view # None
            /\ view.status = s /\ view.own = own
PROOF
<1>1. PICK gate \in BOOLEAN : gate = (run = "completed" /\ GateOpen(vd))
  OBVIOUS
<1>2. ReviewView(s, vd, own) = [status |-> s, gate |-> gate, own |-> own]
  BY <1>1 DEF ReviewView
<1>3. PICK view : view = ReviewView(s, vd, own)
  OBVIOUS
<1>4. view \in ReviewData /\ view.status = s /\ view.own = own
  BY <1>2, <1>3 DEF ReviewData
<1>5. view # None
  BY <1>4, DataAssumption DEF Data, ReviewData
<1> QED
  BY <1>3, <1>4, <1>5

-----------------------------------------------------------------------------
(* Renders                                                                  *)

\* The cache that a page is rendered from: the entries of the review are entries.
IsCache(c) ==
    /\ DOMAIN c = Key
    /\ c["review"] \in Entries(ReviewData) /\ c["groups"] \in Entries(GroupsData)

\* The cache after a render or an invalidation: what was loaded is, and what is not as it
\* was is read again.
CacheFollows(p, next, c) ==
    /\ IsCache(next)
    /\ \A k \in {"review", "groups"} : next[k].data = c[k].data /\ Follows(next[k], c[k])
    /\ p \notin {"review", "group"} => next["review"] = c["review"]

\* The review is mounted on its two pages only.
LEMMA ReviewIsActive ==
  ASSUME NEW p \in Page, NEW c
  PROVE  /\ "review" \in Active(p, c) <=> p \in {"review", "group"}
         /\ "groups" \in Active(p, c) => p \in {"review", "group"}
  BY DEF Page, Active, HomeKeys, VersionKeys, ReviewKeys, GroupKeys

LEMMA MountedFollows ==
  ASSUME NEW p \in Page, NEW c, IsCache(c)
  PROVE  CacheFollows(p, Mounted(p, c), c)
PROOF
<1> DEFINE m == Mounted(p, c)
<1>1. DOMAIN m = Key /\ \A k \in Key : m[k] \in Restarts(c[k])
  BY FetchesRestart DEF Mounted, Restarts
<1>2. "review" \in Key /\ "groups" \in Key
  BY DEF Key
<1> HIDE DEF m
<1>3. /\ m["review"] \in Entries(ReviewData) /\ m["review"].data = c["review"].data
      /\ Follows(m["review"], c["review"])
  BY <1>1, <1>2, RestartsFit DEF IsCache, Follows
<1>4. /\ m["groups"] \in Entries(GroupsData) /\ m["groups"].data = c["groups"].data
      /\ Follows(m["groups"], c["groups"])
  BY <1>1, <1>2, RestartsFit DEF IsCache, Follows
<1>5. p \notin {"review", "group"} => m["review"] = c["review"]
  BY <1>2, ReviewIsActive DEF m, Mounted
<1> QED
  BY <1>1, <1>3, <1>4, <1>5 DEF CacheFollows, IsCache, m

LEMMA InvalidatedFollows ==
  ASSUME NEW p \in Page, NEW c, IsCache(c), NEW keys
  PROVE  /\ CacheFollows(p, Invalidated(p, c, keys), c)
         /\ \A k \in {"review", "groups"} \cap keys \cap Active(p, c) :
               Invalidated(p, c, keys)[k] = Refetch(c[k])
PROOF
<1> DEFINE i == Invalidated(p, c, keys)
<1>1. /\ DOMAIN i = Key /\ \A k \in Key : i[k] \in Restarts(c[k])
      /\ \A k \in Key \cap keys \cap Active(p, c) : i[k] = Refetch(c[k])
  BY FetchesRestart DEF Invalidated, Restarts
<1>2. "review" \in Key /\ "groups" \in Key
  BY DEF Key
<1> HIDE DEF i
<1>3. /\ i["review"] \in Entries(ReviewData) /\ i["review"].data = c["review"].data
      /\ Follows(i["review"], c["review"])
  BY <1>1, <1>2, RestartsFit DEF IsCache, Follows
<1>4. /\ i["groups"] \in Entries(GroupsData) /\ i["groups"].data = c["groups"].data
      /\ Follows(i["groups"], c["groups"])
  BY <1>1, <1>2, RestartsFit DEF IsCache, Follows
<1>5. p \notin {"review", "group"} => i["review"] = c["review"]
  BY <1>2, ReviewIsActive DEF i, Invalidated
<1>6. CacheFollows(p, i, c)
  BY <1>1, <1>3, <1>4, <1>5 DEF CacheFollows, IsCache
<1> QED
  BY <1>1, <1>2, <1>6 DEF i

LEMMA FollowsTwice ==
  ASSUME NEW p, NEW c, NEW m, CacheFollows(p, m, c), NEW i, CacheFollows(p, i, m)
  PROVE  CacheFollows(p, i, c)
  BY DEF CacheFollows, Follows

\* An invalidation replaces the read of an entry that has data.
LEMMA LoadedIsReplaced ==
  ASSUME NEW data, NEW entry \in Entries(data), entry.data # None
  PROVE  Refetch(entry).fetch = "sent"
  BY StartsAreSent DEF Refetch

\* And of one that has none, unless its answer is on its way.
LEMMA OrCrosses ==
  ASSUME NEW data, NEW entry \in Entries(data), ~(entry.data = None /\ entry.fetch = "read")
  PROVE  Refetch(entry).fetch = "sent"
PROOF
<1>1. CASE entry.fetch # "idle" /\ entry.data = None
  BY <1>1 DEF Refetch, Entries
<1>2. CASE ~(entry.fetch # "idle" /\ entry.data = None)
  BY <1>2, StartsAreSent DEF Refetch
<1> QED
  BY <1>1, <1>2

\* What is shown of a review is of its entry alone.
LEMMA StatusFollows ==
  ASSUME NEW p, NEW c, NEW next, CacheFollows(p, next, c)
  PROVE  ShownStatus(next) = ShownStatus(c)
  BY DEF CacheFollows, ShownStatus, Loaded

\* The groups are mounted where a review is shown.
LEMMA GroupsAreActive ==
  ASSUME NEW c, ShownStatus(c) # None
  PROVE  "groups" \in Active("review", c)
  BY DEF ShownStatus, Active, ReviewKeys, Loaded

\* After the effect of the page the groups are about to be read, unless they cross.
LEMMA EffectReads ==
  ASSUME NEW p \in Page, NEW c, IsCache(c), NEW m, CacheFollows(p, m, c), GroupsEffect(p, c),
         NEW keys, "groups" \in keys
  PROVE  \/ Invalidated(p, m, keys)["groups"].fetch = "sent"
         \/ m["groups"].data = None /\ m["groups"].fetch = "read"
PROOF
<1>1. p = "review" /\ ShownStatus(m) # None
  BY StatusFollows DEF GroupsEffect
<1>2. "groups" \in Active(p, m)
  BY <1>1, GroupsAreActive
<1>3. IsCache(m) /\ m["groups"] \in Entries(GroupsData)
  BY DEF CacheFollows, IsCache
<1>4. Invalidated(p, m, keys)["groups"] = Refetch(m["groups"])
  BY <1>2, <1>3, InvalidatedFollows
<1> QED
  BY <1>3, <1>4, OrCrosses

-----------------------------------------------------------------------------
(* The first page                                                           *)

FirstRead == [Empty EXCEPT !.fetch = "sent"]

LEMMA EmptyFits ==
  ASSUME NEW data
  PROVE  /\ Empty \in Entries(data) /\ FirstRead \in Entries(data)
         /\ Empty.data = None /\ Empty.got = None /\ Empty.fetch = "idle"
         /\ FirstRead.data = None /\ FirstRead.got = None /\ FirstRead.fetch = "sent"
  BY DEF Empty, Entries, FirstRead

LEMMA FirstServerFits ==
  ASSUME Init
  PROVE  ServerFits
  BY DEF Init, ServerFits, Open, Closed, Computed

LEMMA FirstEntries ==
  ASSUME Init
  PROVE  /\ DOMAIN cache = Key
         /\ cache["review"] \in {Empty, FirstRead} /\ cache["groups"] \in {Empty, FirstRead}
         /\ cache["review"] = Empty \/ rstatus # "absent"
PROOF
<1> DEFINE first == CASE page = "home" -> "versions" [] page = "version" -> "version"
                      [] OTHER -> "review"
<1>1. cache = [[k \in Key |-> Empty] EXCEPT ![first].fetch = "sent"]
  BY DEF Init
<1>2. "review" \in Key /\ "groups" \in Key /\ first \in Key /\ first # "groups"
  BY DEF Key
<1>3. first = "review" => rstatus # "absent"
  BY DEF Init, Page
<1> HIDE DEF first
<1>4. /\ DOMAIN cache = Key
      /\ \A k \in Key : cache[k] = IF k = first THEN [Empty EXCEPT !.fetch = "sent"] ELSE Empty
  BY <1>1, <1>2
<1> QED
  BY <1>2, <1>3, <1>4 DEF FirstRead

LEMMA FirstFits == Init => ShownFits
PROOF
<1> SUFFICES ASSUME Init PROVE ShownFits
  OBVIOUS
<1>1. /\ DOMAIN cache = Key
      /\ cache["review"] \in {Empty, FirstRead} /\ cache["groups"] \in {Empty, FirstRead}
      /\ cache["review"] = Empty \/ rstatus # "absent"
  BY FirstEntries
<1>2. \A k \in {"review", "groups"} :
         cache[k].data = None /\ cache[k].got = None /\ cache[k].fetch \in {"idle", "sent"}
  BY <1>1, EmptyFits
<1>3. /\ mut = [b \in Button |-> NoMutation] /\ acked = NothingAcked /\ landed = 0
      /\ page \in Page
      /\ page \in {"review", "group"} => rstatus # "absent"
  BY DEF Init, Page
<1>4. CacheFits
  <2>1. cache["review"] \in Entries(ReviewData) /\ cache["groups"] \in Entries(GroupsData)
    BY <1>1, EmptyFits
  <2> QED
    BY <1>1, <1>2, <2>1 DEF CacheFits, IsTold
<1>5. WritesFit
  BY <1>3 DEF WritesFit, WriteFits, NoMutation
<1>6. ReviewIsThere
  <2>1. cache["review"].fetch # "idle" => rstatus # "absent"
    BY <1>1, EmptyFits
  <2>2. mut["create"].at = "idle"
    BY <1>3 DEF NoMutation, Button
  <2> QED
    BY <1>3, <2>1, <2>2 DEF ReviewIsThere
<1>7. AcksFit
  <2>1. acked \in [{"review", "groups"} -> Nat] /\ \A k \in {"review", "groups"} : acked[k] = 0
    BY <1>3 DEF NothingAcked
  <2> QED
    BY <1>2, <1>3, <2>1 DEF AcksFit, Knows
<1>8. GroupsFit /\ ClosedFits
  BY <1>2, <1>3 DEF GroupsFit, ClosedFits, HasGroups, NothingAcked
<1> QED
  BY <1>4, <1>5, <1>6, <1>7, <1>8, FirstServerFits DEF ShownFits

-----------------------------------------------------------------------------
(* Steps that no page sees                                                  *)

\* The step of ShownReviewStaysClosed.
StaysClosed ==
    acked["review"] > 0 /\ page' = page /\ ShownStatus(cache) \in Closed /\ ~reopened
    => ShownStatus(cache') = ShownStatus(cache)

\* What is loaded stays loaded.
LoadedStays ==
    \A k \in {"review", "groups"} : Loaded(cache, k) => Loaded(cache', k)

LEMMA WriteStays ==
  ASSUME ServerFits, ServerGoesOn, LoadedStays, NEW b, NEW m, WriteFits(b, m)
  PROVE  WriteFits(b, m)'
PROOF
<1>1. \A view : IsTold(view) => IsTold(view)'
  BY TellingStays
<1>2. landed \in Nat /\ landed' \in Nat /\ landed <= landed'
  BY DEF ServerFits, ServerGoesOn
<1>3. OfReview(b) /\ m.at # "idle" => Loaded(cache', "review") /\ Loaded(cache', "groups")
  BY DEF WriteFits, LoadedStays
<1>4. m.at = "done" => m.own \in Nat /\ m.own <= landed'
  BY <1>2 DEF WriteFits
<1>5. m.at = "done" /\ b \in {"decide", "withdraw"} =>
         m.answer # None /\ IsTold(m.answer)' /\ m.answer.status \in Closed
  BY <1>1 DEF WriteFits
<1> QED
  BY <1>3, <1>4, <1>5 DEF WriteFits, Loaded, IsJudgement

LEMMA OtherWritesStay ==
  ASSUME ServerFits, ServerGoesOn, LoadedStays, WritesFit, UNCHANGED mut
  PROVE  WritesFit'
  BY WriteStays DEF WritesFit

LEMMA OneWriteFits ==
  ASSUME ServerFits, ServerGoesOn, LoadedStays, WritesFit, NEW b \in Button, NEW m,
         mut' = [mut EXCEPT ![b] = m], WriteFits(b, m)'
  PROVE  WritesFit'
PROOF
<1>1. \A o \in Button : mut'[o] = IF o = b THEN m ELSE mut[o]
  BY DEF WritesFit
<1>2. DOMAIN mut' = Button
  BY DEF WritesFit
<1>3. ASSUME NEW o \in Button PROVE WriteFits(o, mut[o])'
  <2>1. PICK next : next = mut'[o]
    OBVIOUS
  <2>2. WriteFits(o, next)'
    BY <1>1, <2>1, WriteStays DEF WritesFit
  <2> QED
    BY <2>1, <2>2
<1> QED
  BY <1>2, <1>3 DEF WritesFit

\* Whatever the server does, what the page shows and is about to show remains true.
LEMMA PageStays ==
  ASSUME ShownFits, ServerGoesOn, UNCHANGED <<page, cache, acked, crossed>>, WritesFit',
         mut'["create"].at = "done" => rstatus' # "absent"
  PROVE  ShownFits' /\ StaysClosed
PROOF
<1>1. ServerFits'
  BY DEF ServerGoesOn
<1>2. CacheFits'
  <2>1. \A view : IsTold(view) => IsTold(view)'
    BY TellingStays DEF ShownFits
  <2>2. IsTold(cache["review"].data)' /\ IsTold(cache["review"].got)'
    BY <2>1 DEF ShownFits, CacheFits
  <2> QED
    BY <2>2 DEF ShownFits, CacheFits
<1>3. ReviewIsThere'
  BY DEF ShownFits, ReviewIsThere, ServerGoesOn
<1>4. AcksFit'
  <2>1. \A k \in {"review", "groups"} : acked[k] \in Nat /\ acked[k] <= landed
    BY DEF ShownFits, AcksFit
  <2>2. \A k \in {"review", "groups"} : acked'[k] <= landed'
    BY <2>1 DEF ServerGoesOn, ShownFits, ServerFits
  <2> QED
    BY <2>2 DEF ShownFits, AcksFit
<1>5. GroupsFit' /\ ClosedFits' /\ StaysClosed
  BY DEF ShownFits, GroupsFit, ClosedFits, StaysClosed, ShownStatus, Loaded, ServerGoesOn
<1> QED
  BY <1>1, <1>2, <1>3, <1>4, <1>5 DEF ShownFits

-----------------------------------------------------------------------------
(* Steps that a page sees                                                   *)

\* What a read leaves of an entry: it does not concern it, its answer came, or it failed.
Outcomes(entry) ==
    {entry, [Empty EXCEPT !.data = entry.data, !.failed = TRUE]}
      \cup (IF entry.fetch = "read" THEN {[Empty EXCEPT !.data = entry.got]} ELSE {})

\* An outcome knows what the entry and its answer knew.
LEMMA OutcomesFit ==
  ASSUME NEW data, NEW entry \in Entries(data), entry.fetch = "read" => entry.got # None,
         NEW next \in Outcomes(entry)
  PROVE  /\ next \in Entries(data)
         /\ next.fetch # "idle" => next = entry
         /\ next.got = None \/ next.got = entry.got
         /\ next.data = entry.data \/ (entry.fetch = "read" /\ next.data = entry.got)
         /\ entry.data # None => next.data # None
         /\ \A n : Knows(entry, n) => Knows(next, n)
         /\ HasGroups(entry) => HasGroups(next)
PROOF
<1>1. CASE next = entry
  BY <1>1
<1>2. CASE next = [Empty EXCEPT !.data = entry.data, !.failed = TRUE]
  <2>1. /\ next \in Entries(data) /\ next.data = entry.data /\ next.failed
        /\ next.got = None /\ next.fetch = "idle"
    BY <1>2 DEF Empty, Entries
  <2> QED
    BY <2>1 DEF Knows, HasGroups
<1>3. CASE entry.fetch = "read" /\ next = [Empty EXCEPT !.data = entry.got]
  <2>1. /\ next \in Entries(data) /\ next.data = entry.got
        /\ next.got = None /\ next.fetch = "idle"
    BY <1>3 DEF Empty, Entries
  <2> QED
    BY <1>3, <2>1 DEF Knows, HasGroups
<1> QED
  BY <1>1, <1>2, <1>3 DEF Outcomes

\* An entry that is about to be read again knows whatever it must.
LEMMA FollowersKnow ==
  ASSUME NEW entry, NEW next, Follows(next, entry)
  PROVE  /\ \A n : Knows(entry, n) => Knows(next, n)
         /\ HasGroups(entry) => HasGroups(next)
         /\ next.fetch = "read" => next = entry
         /\ next.got = None \/ next.got = entry.got
  BY DEF Follows, Knows, HasGroups

\* The cache a page is rendered from: true as the cache is.
Rendered(c) ==
    /\ IsCache(c)
    /\ \A k \in {"review", "groups"} : c[k].fetch = "read" => c[k].got # None
    /\ IsTold(c["review"].data) /\ IsTold(c["review"].got)
    /\ c["review"].fetch # "idle" => rstatus # "absent"

LEMMA CacheIsRendered ==
  ASSUME ShownFits
  PROVE  Rendered(cache)
  BY DEF ShownFits, CacheFits, Rendered, IsCache, ReviewIsThere

LEMMA RenderedFits ==
  ASSUME NEW p, NEW c, Rendered(c), CacheFollows(p, cache', c), UNCHANGED server
  PROVE  /\ CacheFits'
         /\ \A k \in {"review", "groups"} : c[k].data # None => Loaded(cache', k)
PROOF
<1>1. \A k \in {"review", "groups"} :
         cache'[k].data = c[k].data /\ Follows(cache'[k], c[k])
  BY DEF CacheFollows
<1>2. \A k \in {"review", "groups"} : cache'[k].fetch = "read" => cache'[k].got # None
  BY <1>1, FollowersKnow DEF Rendered
<1>3. \A view : IsTold(view) => IsTold(view)'
  BY DEF IsTold, server, late
<1>4. IsTold(None)
  BY DEF IsTold
<1>5. IsTold(cache'["review"].data)
  BY <1>1 DEF Rendered
<1>6. IsTold(cache'["review"].got)
  BY <1>1, <1>4, FollowersKnow DEF Rendered
<1>7. IsTold(cache["review"].data)' /\ IsTold(cache["review"].got)'
  BY <1>3, <1>5, <1>6
<1>8. CacheFits'
  BY <1>2, <1>7 DEF CacheFits, CacheFollows, IsCache
<1> QED
  BY <1>1, <1>8 DEF Loaded

LEMMA RenderedIsThere ==
  ASSUME NEW p, NEW c, Rendered(c), CacheFollows(p, cache', c), UNCHANGED server, page' = p,
         p \in {"review", "group"} => rstatus # "absent",
         mut'["create"].at = "done" => rstatus # "absent"
  PROVE  ReviewIsThere'
  BY DEF ReviewIsThere, CacheFollows, Rendered, server

\* The groups are those of a computed replay, or are read again by the effect of the page.
LEMMA RenderedGroupsFit ==
  ASSUME ShownFits, NEW p, NEW c, CacheFollows(p, cache', c), page' = p,
         HasGroups(cache["groups"]) => HasGroups(c["groups"]),
         GroupsEffect(p, c) /\ ~crossed' => cache'["groups"].fetch = "sent",
         ~GroupsEffect(p, c) => crossed' = crossed
  PROVE  GroupsFit'
PROOF
<1> SUFFICES ASSUME p = "review", ShownStatus(cache') \in Computed, ~crossed'
             PROVE  HasGroups(cache'["groups"])
  BY DEF GroupsFit, ShownStatus, Loaded
<1>1. ShownStatus(c) \in Computed
  BY StatusFollows
<1>2. CASE GroupsEffect(p, c)
  BY <1>2 DEF HasGroups
<1>3. CASE ~GroupsEffect(p, c)
  <2>1. ShownStatus(c) \notin {None, "computing"}
    BY <1>1, DataAssumption DEF Computed, Open, Closed
  <2>2. p = page /\ ShownStatus(c) = ShownStatus(cache) /\ ~crossed
    BY <1>3, <2>1 DEF GroupsEffect
  <2>3. HasGroups(c["groups"])
    BY <1>1, <2>2 DEF ShownFits, GroupsFit
  <2> QED
    BY <2>3, FollowersKnow DEF CacheFollows
<1> QED
  BY <1>2, <1>3

LEMMA RenderFollows ==
  ASSUME NEW p \in Page, NEW c, IsCache(c), Render(p, c)
  PROVE  /\ page' = p /\ CacheFollows(p, cache', c)
         /\ GroupsEffect(p, c) /\ ~crossed' => cache'["groups"].fetch = "sent"
         /\ ~GroupsEffect(p, c) => crossed' = crossed
PROOF
<1> DEFINE m == Mounted(p, c)
<1>1. CacheFollows(p, m, c)
  BY MountedFollows
<1>2. IsCache(m)
  BY <1>1 DEF CacheFollows
<1> HIDE DEF m
<1>3. /\ page' = p
      /\ cache' = IF GroupsEffect(p, c) THEN Invalidated(p, m, {"groups"}) ELSE m
      /\ crossed' =
           IF ~GroupsEffect(p, c) THEN crossed
           ELSE m["groups"].data = None /\ m["groups"].fetch = "read"
  BY DEF Render, m
<1>4. CASE GroupsEffect(p, c)
  <2>1. cache' = Invalidated(p, m, {"groups"})
    BY <1>3, <1>4
  <2>2. CacheFollows(p, cache', c)
    BY <1>1, <1>2, <2>1, InvalidatedFollows, FollowsTwice
  <2>3. crossed' \/ cache'["groups"].fetch = "sent"
    <3>1. \/ Invalidated(p, m, {"groups"})["groups"].fetch = "sent"
          \/ m["groups"].data = None /\ m["groups"].fetch = "read"
      BY <1>1, <1>4, EffectReads
    <3>2. crossed' = (m["groups"].data = None /\ m["groups"].fetch = "read")
      BY <1>3, <1>4
    <3> QED
      BY <2>1, <3>1, <3>2
  <2> QED
    BY <1>3, <1>4, <2>2, <2>3
<1>5. CASE ~GroupsEffect(p, c)
  <2>1. cache' = m /\ crossed' = crossed
    BY <1>3, <1>5
  <2> QED
    BY <1>1, <1>3, <1>5, <2>1
<1> QED
  BY <1>4, <1>5

LEMMA OutcomesAreRendered ==
  ASSUME ShownFits, NEW c, DOMAIN c = Key, \A k \in {"review", "groups"} : c[k] \in Outcomes(cache[k])
  PROVE  /\ Rendered(c)
         /\ \A k \in {"review", "groups"} :
               /\ c[k].fetch = "read" => c[k] = cache[k]
               /\ c[k].data = cache[k].data \/ (cache[k].fetch = "read" /\ c[k].data = cache[k].got)
               /\ Loaded(cache, k) => c[k].data # None
               /\ \A n : Knows(cache[k], n) => Knows(c[k], n)
         /\ HasGroups(cache["groups"]) => HasGroups(c["groups"])
PROOF
<1>1. /\ cache["review"] \in Entries(ReviewData) /\ cache["groups"] \in Entries(GroupsData)
      /\ \A k \in {"review", "groups"} : cache[k].fetch = "read" => cache[k].got # None
      /\ IsTold(cache["review"].data) /\ IsTold(cache["review"].got)
      /\ cache["review"].fetch # "idle" => rstatus # "absent"
  BY DEF ShownFits, CacheFits, ReviewIsThere
<1>2. /\ c["review"] \in Entries(ReviewData)
      /\ c["review"].fetch # "idle" => c["review"] = cache["review"]
      /\ c["review"].got = None \/ c["review"].got = cache["review"].got
      /\ \/ c["review"].data = cache["review"].data
         \/ cache["review"].fetch = "read" /\ c["review"].data = cache["review"].got
      /\ Loaded(cache, "review") => c["review"].data # None
      /\ \A n : Knows(cache["review"], n) => Knows(c["review"], n)
  BY <1>1, OutcomesFit DEF Loaded
<1>3. /\ c["groups"] \in Entries(GroupsData)
      /\ c["groups"].fetch # "idle" => c["groups"] = cache["groups"]
      /\ \/ c["groups"].data = cache["groups"].data
         \/ cache["groups"].fetch = "read" /\ c["groups"].data = cache["groups"].got
      /\ Loaded(cache, "groups") => c["groups"].data # None
      /\ \A n : Knows(cache["groups"], n) => Knows(c["groups"], n)
      /\ HasGroups(cache["groups"]) => HasGroups(c["groups"])
  BY <1>1, OutcomesFit DEF Loaded
<1>4. IsTold(c["review"].data) /\ IsTold(c["review"].got)
  BY <1>1, <1>2 DEF IsTold
<1>5. Rendered(c)
  BY <1>1, <1>2, <1>3, <1>4 DEF Rendered, IsCache
<1> QED
  BY <1>2, <1>3, <1>5

\* A page that goes on, with what it reads.
LEMMA PageMoves ==
  ASSUME ShownFits, UNCHANGED <<server, page, mut, acked>>,
         NEW c, DOMAIN c = Key, \A k \in {"review", "groups"} : c[k] \in Outcomes(cache[k]),
         CacheFollows(page, cache', c),
         GroupsEffect(page, c) /\ ~crossed' => cache'["groups"].fetch = "sent",
         ~GroupsEffect(page, c) => crossed' = crossed
  PROVE  ShownFits' /\ StaysClosed
PROOF
<1>1. /\ Rendered(c)
      /\ \A k \in {"review", "groups"} :
            /\ c[k].fetch = "read" => c[k] = cache[k]
            /\ c[k].data = cache[k].data \/ (cache[k].fetch = "read" /\ c[k].data = cache[k].got)
            /\ Loaded(cache, k) => c[k].data # None
            /\ \A n : Knows(cache[k], n) => Knows(c[k], n)
      /\ HasGroups(cache["groups"]) => HasGroups(c["groups"])
  BY OutcomesAreRendered
<1>2. \A k \in {"review", "groups"} : Follows(cache'[k], c[k]) /\ cache'[k].data = c[k].data
  BY DEF CacheFollows
<1>3. ServerGoesOn
  BY ServerStays DEF server, ShownFits
<1>4. ServerFits'
  BY <1>3 DEF ServerGoesOn
<1>5. CacheFits' /\ LoadedStays
  BY <1>1, RenderedFits DEF LoadedStays
<1>6. WritesFit'
  BY <1>3, <1>5, OtherWritesStay DEF ShownFits
<1>7. ReviewIsThere'
  BY <1>1, RenderedIsThere DEF ShownFits, ReviewIsThere
<1>8. AcksFit'
  <2>1. \A k \in {"review", "groups"} : Knows(cache'[k], acked[k])
    BY <1>1, <1>2, FollowersKnow DEF ShownFits, AcksFit
  <2> QED
    BY <2>1 DEF ShownFits, AcksFit, server
<1>9. GroupsFit'
  BY <1>1, RenderedGroupsFit
<1>10. ClosedFits'
  <2> SUFFICES ASSUME acked["review"] > 0, ShownStatus(cache') \in Closed,
                      cache'["review"].fetch = "read", ~reopened
               PROVE  cache'["review"].got.status = ShownStatus(cache')
    BY DEF ClosedFits, ShownStatus, Loaded, server, late
  <2>1. cache'["review"] = cache["review"]
    BY <1>1, <1>2, FollowersKnow
  <2>2. ShownStatus(cache') = ShownStatus(cache)
    BY <2>1 DEF ShownStatus, Loaded
  <2> QED
    BY <2>1, <2>2 DEF ShownFits, ClosedFits
<1>11. StaysClosed
  <2> SUFFICES ASSUME acked["review"] > 0, ShownStatus(cache) \in Closed, ~reopened
               PROVE  ShownStatus(c) = ShownStatus(cache)
    BY StatusFollows DEF StaysClosed
  <2>1. c["review"].data # None /\ cache["review"].data # None
    BY <1>1, DataAssumption DEF ShownStatus, Loaded
  <2>2. CASE c["review"].data = cache["review"].data
    BY <2>2 DEF ShownStatus, Loaded
  <2>3. CASE cache["review"].fetch = "read" /\ c["review"].data = cache["review"].got
    BY <2>1, <2>3 DEF ShownStatus, Loaded, ShownFits, ClosedFits
  <2> QED
    BY <1>1, <2>2, <2>3
<1> QED
  BY <1>4, <1>5, <1>6, <1>7, <1>8, <1>9, <1>10, <1>11 DEF ShownFits

-----------------------------------------------------------------------------
(* Reads                                                                    *)

\* What the server answers is the truth of the moment.
LEMMA ReviewIsAnswered ==
  ASSUME ServerFits, rstatus # "absent", Sync, UNCHANGED <<run, late, landed>>
  PROVE  \E view \in ReviewData :
            /\ view = Answer("review") /\ view # None /\ IsTold(view)'
            /\ view.own = landed /\ view.status = rstatus'
PROOF
<1>1. Answer("review") = ReviewView(SyncedStatus, verdict, landed)
  BY DEF Answer
<1>2. /\ SyncedStatus = rstatus' /\ rstatus' \in Open \cup Closed
      /\ rstatus' \in Computed => run = "completed"
  BY Synced DEF Sync
<1>3. PICK view \in ReviewData :
         /\ view = Answer("review") /\ view # None
         /\ view.status = rstatus' /\ view.own = landed
  BY <1>1, <1>2, ViewIsData DEF ServerFits
<1>4. IsTold(view)'
  BY <1>2, <1>3 DEF IsTold, ServerFits
<1> QED
  BY <1>3, <1>4

LEMMA GroupsAreAnswered ==
  ASSUME ServerFits
  PROVE  /\ Answer("groups") \in GroupsData /\ Answer("groups") # None
         /\ Answer("groups").own = landed /\ Answer("groups").empty = (run # "completed")
PROOF
<1> DEFINE shown == IF run = "completed" THEN verdict ELSE [g \in Group |-> None]
<1>1. Answer("groups") = [empty |-> run # "completed", verdict |-> shown, own |-> landed]
  BY DEF Answer
<1>2. shown \in [Group -> Verdict \cup {None}]
  BY DEF ServerFits
<1> HIDE DEF shown
<1>3. Answer("groups") \in GroupsData
  <2>1. PICK empty \in BOOLEAN : empty = (run # "completed")
    OBVIOUS
  <2>2. Answer("groups") = [empty |-> empty, verdict |-> shown, own |-> landed]
    BY <1>1, <2>1
  <2> QED
    BY <1>2, <2>2 DEF GroupsData, ServerFits
<1>4. Answer("groups") # None
  BY <1>3, DataAssumption DEF Data, GroupsData
<1> QED
  BY <1>1, <1>3, <1>4

LEMMA ServerReadsFits ==
  ASSUME ShownFits, NEW k \in Key, ServerReads(k)
  PROVE  ShownFits' /\ StaysClosed
PROOF
<1> DEFINE read(j) == /\ j = k /\ cache[j].fetch = "sent" /\ cache'[j].data = cache[j].data
                      /\ cache'[j].fetch = "read" /\ cache'[j].got = Answer(j)
<1>1. /\ ServerFits /\ DOMAIN cache = Key
      /\ cache["review"] \in Entries(ReviewData) /\ cache["groups"] \in Entries(GroupsData)
  BY DEF ShownFits, CacheFits
<1>2. "review" \in Key /\ "groups" \in Key
  BY DEF Key
<1>3. cache' = [cache EXCEPT ![k] = [[cache[k] EXCEPT !.fetch = "read"] EXCEPT !.got = Answer(k)]]
  BY <1>1 DEF ServerReads
<1>4. DOMAIN cache' = Key /\ \A j \in Key \ {k} : cache'[j] = cache[j]
  BY <1>1, <1>3
<1>5. cache'[k] = [[cache[k] EXCEPT !.fetch = "read"] EXCEPT !.got = Answer(k)]
  BY <1>1, <1>3
<1>6. \/ cache'["review"] = cache["review"] /\ k # "review"
      \/ read("review") /\ cache'["review"] \in [data : ReviewData \cup {None}, failed : BOOLEAN,
                               fetch : {"idle", "sent", "read"}, got : {Answer("review")}]
  <2>1. CASE k = "review"
    BY <1>1, <1>5, <2>1 DEF ServerReads, Entries
  <2>2. CASE k # "review"
    BY <1>2, <1>4, <2>2
  <2> QED
    BY <2>1, <2>2
<1>7. \/ cache'["groups"] = cache["groups"] /\ k # "groups"
      \/ read("groups") /\ cache'["groups"] \in [data : GroupsData \cup {None}, failed : BOOLEAN,
                               fetch : {"idle", "sent", "read"}, got : {Answer("groups")}]
  <2>1. CASE k = "groups"
    BY <1>1, <1>5, <2>1 DEF ServerReads, Entries
  <2>2. CASE k # "groups"
    BY <1>2, <1>4, <2>2
  <2> QED
    BY <2>1, <2>2
<1> HIDE DEF read
<1>8. UNCHANGED <<run, verdict, late, landed, page, mut, acked, crossed>>
  BY DEF ServerReads
<1>9. ServerGoesOn
  BY <1>1, <1>8, SyncGoesOn, ServerStays DEF ServerReads
<1>10. read("review") =>
         \E view \in ReviewData :
            /\ view = Answer("review") /\ view # None /\ IsTold(view)'
            /\ view.own = landed /\ view.status = rstatus'
  <2>1. read("review") => Sync /\ rstatus # "absent"
    BY DEF read, ServerReads, ShownFits, ReviewIsThere
  <2> QED
    BY <1>1, <1>8, <2>1, ReviewIsAnswered
<1>11. /\ Answer("groups") \in GroupsData /\ Answer("groups") # None
       /\ Answer("groups").own = landed /\ Answer("groups").empty = (run # "completed")
  BY <1>1, GroupsAreAnswered
<1>12. \A j \in {"review", "groups"} : cache'[j].data = cache[j].data
  BY <1>6, <1>7 DEF read
<1>13. ShownStatus(cache') = ShownStatus(cache)
  BY <1>12 DEF ShownStatus, Loaded
<1>14. CacheFits'
  <2>1. cache'["review"] \in Entries(ReviewData) /\ cache'["groups"] \in Entries(GroupsData)
    BY <1>1, <1>6, <1>7, <1>10, <1>11 DEF Entries
  <2>2. \A j \in {"review", "groups"} : cache'[j].fetch = "read" => cache'[j].got # None
    BY <1>6, <1>7, <1>10, <1>11 DEF read, ShownFits, CacheFits
  <2>3. \A view : IsTold(view) => IsTold(view)'
    BY <1>1, <1>9, TellingStays
  <2>4. IsTold(cache["review"].data)'
    BY <1>12, <2>3 DEF ShownFits, CacheFits
  <2>5. IsTold(cache["review"].got)'
    BY <1>6, <1>10, <2>3 DEF read, ShownFits, CacheFits
  <2> QED
    BY <1>4, <2>1, <2>2, <2>4, <2>5 DEF CacheFits
<1>15. WritesFit'
  <2>1. LoadedStays
    BY <1>12 DEF LoadedStays, Loaded
  <2> QED
    BY <1>8, <1>9, <2>1, OtherWritesStay DEF ShownFits
<1>16. ReviewIsThere'
  BY <1>6, <1>8, <1>9 DEF read, ShownFits, ReviewIsThere, ServerGoesOn
<1>17. AcksFit'
  <2>1. \A j \in {"review", "groups"} : acked[j] \in Nat /\ acked[j] <= landed /\ Knows(cache[j], acked[j])
    BY DEF ShownFits, AcksFit
  <2>2. Knows(cache'["review"], acked["review"])
    BY <1>6, <1>10, <2>1 DEF read, Knows, ServerFits
  <2>3. Knows(cache'["groups"], acked["groups"])
    BY <1>7, <1>11, <2>1 DEF read, Knows, ServerFits
  <2> QED
    BY <1>8, <2>1, <2>2, <2>3 DEF ShownFits, AcksFit
<1>18. GroupsFit'
  <2> SUFFICES ASSUME page = "review", ShownStatus(cache) \in Computed, ~crossed
               PROVE  HasGroups(cache'["groups"])
    BY <1>8, <1>13 DEF GroupsFit, ShownStatus, Loaded
  <2>1. HasGroups(cache["groups"])
    BY DEF ShownFits, GroupsFit
  <2>2. cache["review"].data # None
    BY DataAssumption DEF ShownStatus, Loaded, Computed, Open, Closed
  <2>3. run = "completed"
    BY <2>2 DEF ShownStatus, Loaded, ShownFits, CacheFits, IsTold
  <2> QED
    BY <1>7, <1>11, <2>1, <2>3 DEF read, HasGroups
<1>19. ClosedFits'
  <2> SUFFICES ASSUME acked["review"] > 0, ShownStatus(cache) \in Closed,
                      cache'["review"].fetch = "read", ~reopened, ~reopened'
               PROVE  cache'["review"].got.status = ShownStatus(cache)
    BY <1>8, <1>13 DEF ClosedFits, ShownStatus, Loaded, late
  <2>1. CASE cache'["review"] = cache["review"]
    BY <2>1 DEF ShownFits, ClosedFits
  <2>2. CASE read("review")
    <3>1. cache["review"].data # None
      BY DataAssumption DEF ShownStatus, Loaded
    <3>2. rstatus = ShownStatus(cache) /\ rstatus \in Closed
      BY <3>1 DEF ShownStatus, Loaded, ShownFits, CacheFits, IsTold
    <3> QED
      BY <1>9, <1>10, <2>2, <3>2 DEF read, ServerGoesOn
  <2> QED
    BY <1>6, <2>1, <2>2
<1>20. StaysClosed
  BY <1>13 DEF StaysClosed
<1> QED
  BY <1>9, <1>14, <1>15, <1>16, <1>17, <1>18, <1>19, <1>20 DEF ShownFits, ServerGoesOn

LEMMA ReadArrivesFits ==
  ASSUME ShownFits, NEW k \in Key, ReadArrives(k)
  PROVE  ShownFits' /\ StaysClosed
PROOF
<1>1. PICK c : c = [cache EXCEPT ![k] = [Empty EXCEPT !.data = cache[k].got]]
  OBVIOUS
<1>2. DOMAIN cache = Key /\ page \in Page
  BY DEF ShownFits, CacheFits, AcksFit
<1>3. DOMAIN c = Key /\ \A j \in {"review", "groups"} : c[j] \in Outcomes(cache[j])
  BY <1>1, <1>2 DEF Outcomes, ReadArrives, Key
<1>4. IsCache(c)
  BY <1>3, OutcomesAreRendered DEF Rendered
<1>5. Render(page, c) /\ UNCHANGED <<server, mut, acked>>
  BY <1>1 DEF ReadArrives
<1> QED
  BY <1>2, <1>3, <1>4, <1>5, RenderFollows, PageMoves

LEMMA ReadFailsFits ==
  ASSUME ShownFits, NEW k \in Key, ReadFails(k)
  PROVE  ShownFits' /\ StaysClosed
PROOF
<1>1. PICK c : c = [cache EXCEPT ![k] = [Empty EXCEPT !.data = cache[k].data, !.failed = TRUE]]
  OBVIOUS
<1>2. DOMAIN cache = Key /\ page \in Page
  BY DEF ShownFits, CacheFits, AcksFit
<1>3. DOMAIN c = Key /\ \A j \in {"review", "groups"} : c[j] \in Outcomes(cache[j])
  BY <1>1, <1>2 DEF Outcomes, Key
<1>4. IsCache(c)
  BY <1>3, OutcomesAreRendered DEF Rendered
<1>5. Render(page, c) /\ UNCHANGED <<server, mut, acked>>
  BY <1>1 DEF ReadFails
<1> QED
  BY <1>2, <1>3, <1>4, <1>5, RenderFollows, PageMoves

\* Reads that begin.
LEMMA RefetchesFit ==
  ASSUME ShownFits, UNCHANGED <<server, page, mut, acked, crossed>>, DOMAIN cache' = Key,
         \A k \in Key : cache'[k] = cache[k] \/ (cache'[k] = Fetch(cache[k]) /\ k \in Active(page, cache))
  PROVE  ShownFits' /\ StaysClosed
PROOF
<1>1. Rendered(cache) /\ IsCache(cache) /\ page \in Page
  BY CacheIsRendered DEF Rendered, ShownFits, AcksFit
<1>2. "review" \in Key /\ "groups" \in Key
  BY DEF Key
<1>3. \A k \in Key : cache'[k] \in Restarts(cache[k])
  BY FetchesRestart DEF Restarts
<1>4. page \notin {"review", "group"} => cache'["review"] = cache["review"]
  BY <1>1, <1>2, ReviewIsActive
<1>5. /\ cache'["review"] \in Entries(ReviewData) /\ cache'["review"].data = cache["review"].data
      /\ Follows(cache'["review"], cache["review"])
  BY <1>1, <1>2, <1>3, RestartsFit DEF IsCache, Follows
<1>6. /\ cache'["groups"] \in Entries(GroupsData) /\ cache'["groups"].data = cache["groups"].data
      /\ Follows(cache'["groups"], cache["groups"])
  BY <1>1, <1>2, <1>3, RestartsFit DEF IsCache, Follows
<1>7. CacheFollows(page, cache', cache)
  BY <1>4, <1>5, <1>6 DEF CacheFollows, IsCache
<1>8. ~GroupsEffect(page, cache)
  BY DEF GroupsEffect
<1>9. DOMAIN cache = Key /\ \A k \in {"review", "groups"} : cache[k] \in Outcomes(cache[k])
  BY <1>1 DEF Outcomes, IsCache
<1> QED
  BY <1>7, <1>8, <1>9, PageMoves

LEMMA PollFits ==
  ASSUME ShownFits, NEW k \in Key, Poll(k)
  PROVE  ShownFits' /\ StaysClosed
PROOF
<1>1. DOMAIN cache = Key
  BY DEF ShownFits, CacheFits
<1>2. /\ DOMAIN cache' = Key
      /\ \A j \in Key : cache'[j] = cache[j] \/ (cache'[j] = Fetch(cache[j]) /\ j \in Active(page, cache))
  BY <1>1 DEF Poll
<1> QED
  BY <1>2, RefetchesFit DEF Poll

LEMMA ReconnectFits ==
  ASSUME ShownFits, Reconnect
  PROVE  ShownFits' /\ StaysClosed
PROOF
<1>1. /\ DOMAIN cache' = Key
      /\ \A j \in Key : cache'[j] = cache[j] \/ (cache'[j] = Fetch(cache[j]) /\ j \in Active(page, cache))
  BY DEF Reconnect
<1> QED
  BY <1>1, RefetchesFit DEF Reconnect

\* Nothing is known of no write.
LEMMA NothingIsKnown ==
  ASSUME NEW data, \A held \in data : held.own \in Nat, NEW entry \in Entries(data),
         entry.fetch = "read" => entry.got # None
  PROVE  Knows(entry, 0)
  BY DEF Knows, Entries

\* A page that is opened.
LEMMA OpenedAcksFit ==
  ASSUME ServerFits, CacheFits', UNCHANGED server, page' \in Page, acked' = NothingAcked
  PROVE  AcksFit' /\ ClosedFits'
PROOF
<1>1. acked' \in [{"review", "groups"} -> Nat] /\ \A k \in {"review", "groups"} : acked'[k] = 0
  BY DEF NothingAcked
<1>2. Knows(cache'["review"], 0)
  <2>1. \A held \in ReviewData : held.own \in Nat
    BY DEF ReviewData
  <2> QED
    BY <2>1, NothingIsKnown DEF CacheFits
<1>3. Knows(cache'["groups"], 0)
  <2>1. \A held \in GroupsData : held.own \in Nat
    BY DEF GroupsData
  <2> QED
    BY <2>1, NothingIsKnown DEF CacheFits
<1> QED
  BY <1>1, <1>2, <1>3 DEF AcksFit, ClosedFits, ServerFits, server

LEMMA NavigateFits ==
  ASSUME ShownFits, NEW p \in Page, Navigate(p)
  PROVE  ShownFits' /\ StaysClosed
PROOF
<1>1. Rendered(cache) /\ IsCache(cache)
  BY CacheIsRendered DEF Rendered
<1>2. Render(p, cache) /\ UNCHANGED <<server, mut>> /\ p # page /\ acked' = NothingAcked
  BY DEF Navigate
<1>3. /\ page' = p /\ CacheFollows(p, cache', cache)
      /\ GroupsEffect(p, cache) /\ ~crossed' => cache'["groups"].fetch = "sent"
      /\ ~GroupsEffect(p, cache) => crossed' = crossed
  BY <1>1, <1>2, RenderFollows
<1>4. ServerGoesOn
  BY <1>2, ServerStays DEF server, ShownFits
<1>5. CacheFits' /\ LoadedStays
  BY <1>1, <1>2, <1>3, RenderedFits DEF LoadedStays, Loaded
<1>6. WritesFit'
  BY <1>2, <1>4, <1>5, OtherWritesStay DEF ShownFits
<1>7. ReviewIsThere'
  <2>1. p \in {"review", "group"} => rstatus # "absent"
    BY DEF Navigate
  <2>2. mut'["create"].at = "done" => rstatus # "absent"
    BY <1>2 DEF ShownFits, ReviewIsThere
  <2> QED
    BY <1>1, <1>2, <1>3, <2>1, <2>2, RenderedIsThere
<1>8. AcksFit' /\ ClosedFits'
  BY <1>2, <1>3, <1>5, OpenedAcksFit DEF ShownFits
<1>9. GroupsFit'
  BY <1>3, RenderedGroupsFit
<1>10. StaysClosed
  BY <1>2, <1>3 DEF StaysClosed
<1> QED
  BY <1>4, <1>5, <1>6, <1>7, <1>8, <1>9, <1>10 DEF ShownFits, ServerGoesOn

-----------------------------------------------------------------------------
(* What the server does, and what the user clicks                           *)

LEMMA CacheStaysLoaded ==
  ASSUME UNCHANGED cache
  PROVE  LoadedStays
  BY DEF LoadedStays

LEMMA RunEndsFits ==
  ASSUME ShownFits, RunEnds
  PROVE  ShownFits' /\ StaysClosed
PROOF
<1>1. UNCHANGED <<rstatus, verdict, late, landed, page, cache, mut, acked, crossed>>
  BY DEF RunEnds, client
<1>2. ServerGoesOn
  BY <1>1 DEF RunEnds, ShownFits, ServerFits, ServerGoesOn, late
<1>3. WritesFit'
  BY <1>1, <1>2, CacheStaysLoaded, OtherWritesStay DEF ShownFits
<1> QED
  BY <1>1, <1>2, <1>3, PageStays DEF ShownFits, ReviewIsThere

\* A handler that has read the review as computing, and one that writes late: what it
\* writes over a closed review is the exception.
LEMMA LateSyncFits ==
  ASSUME ShownFits, LateSyncBegins \/ LateSyncEnds
  PROVE  ShownFits' /\ StaysClosed
PROOF
<1>1. UNCHANGED <<run, verdict, landed, page, cache, mut, acked, crossed>>
  BY DEF LateSyncBegins, LateSyncEnds, client
<1>2. ServerGoesOn
  <2>1. CASE LateSyncBegins
    BY <1>1, <2>1 DEF LateSyncBegins, ShownFits, ServerFits, ServerGoesOn
  <2>2. CASE LateSyncEnds
    <3>1. reopened' \in BOOLEAN /\ (rstatus \in Closed => reopened') /\ (reopened => reopened')
      BY <2>2, Zenon DEF LateSyncEnds
    <3>2. /\ marking /\ rstatus' = "ready" /\ marking' \in BOOLEAN /\ ~marking'
          /\ ServerFits
      BY <2>2 DEF LateSyncEnds, ShownFits
    <3>3. ServerFits'
      BY <1>1, <3>1, <3>2 DEF ServerFits, Open, Closed, Computed
    <3> QED
      BY <1>1, <3>1, <3>2, <3>3 DEF ServerFits, ServerGoesOn
  <2> QED
    BY <2>1, <2>2
<1>3. WritesFit'
  BY <1>1, <1>2, CacheStaysLoaded, OtherWritesStay DEF ShownFits
<1> QED
  BY <1>1, <1>2, <1>3, PageStays DEF ShownFits, ReviewIsThere, ServerGoesOn

LEMMA OthersActFits ==
  ASSUME ShownFits, OthersAct
  PROVE  ShownFits' /\ StaysClosed
PROOF
<1>1. UNCHANGED <<late, landed, page, cache, mut, acked, crossed>>
  BY DEF OthersAct, client
<1>2. PICK op \in Button : \E arg \in Arguments(op) : Allows(op, arg, doc) /\ Performs(op, arg)
  BY DEF OthersAct
<1> PICK arg \in Arguments(op) : Allows(op, arg, doc) /\ Performs(op, arg)
  BY <1>2
<1>3. IsJudgement(op, arg)
  BY DEF IsJudgement, Arguments
<1>4. ServerGoesOn
  BY <1>1, <1>2, <1>3, WritesGoOn DEF ShownFits, ServerFits
<1>5. WritesFit'
  BY <1>1, <1>4, CacheStaysLoaded, OtherWritesStay DEF ShownFits
<1> QED
  BY <1>1, <1>4, <1>5, PageStays DEF ShownFits, ReviewIsThere, ServerGoesOn

\* What a decision or a withdrawal answers: the review, which is over.
LEMMA EndIsAnswered ==
  ASSUME ServerFits, landed' \in Nat, UNCHANGED late,
         NEW b \in {"decide", "withdraw"}, NEW arg, NEW match, Allows(b, arg, match), Performs(b, arg)
  PROVE  \E view \in ReviewData :
            /\ view = ReviewView(rstatus', verdict', landed') /\ view # None
            /\ IsTold(view)' /\ view.status \in Closed
PROOF
<1>1. rstatus' \in Closed /\ run' = run /\ (rstatus' \in Computed => run = "completed")
  <2>1. CASE b = "decide"
    <3>1. SyncedStatus = "ready"
      BY <2>1 DEF Allows
    <3>2. Ends("accepted") \/ Ends("rejected")
      BY <2>1 DEF Performs
    <3> QED
      BY <3>1, <3>2, Synced DEF Ends, Closed, Computed
  <2>2. CASE b = "withdraw"
    <3>1. Ends("withdrawn")
      BY <2>2 DEF Performs
    <3> QED
      BY <3>1 DEF Ends, Closed, Computed
  <2> QED
    BY <2>1, <2>2
<1>2. PICK view \in ReviewData :
         /\ view = ReviewView(rstatus', verdict', landed') /\ view # None
         /\ view.status = rstatus' /\ view.own = landed'
  BY <1>1, ViewIsData DEF Open, Closed
<1>3. IsTold(view)'
  BY <1>1, <1>2 DEF IsTold
<1> QED
  BY <1>1, <1>2, <1>3

LEMMA WriteLandsFits ==
  ASSUME ShownFits, NEW b \in Button, WriteLands(b)
  PROVE  ShownFits' /\ StaysClosed
PROOF
<1>1. /\ UNCHANGED <<late, page, cache, acked, crossed>>
      /\ mut[b].at = "sent" /\ Allows(b, mut[b].arg, mut[b].match) /\ Performs(b, mut[b].arg)
  BY DEF WriteLands
<1>2. landed \in Nat /\ landed' \in Nat /\ landed <= landed'
  BY DEF WriteLands, ShownFits, ServerFits
<1>3. /\ ServerFits /\ WritesFit /\ WriteFits(b, mut[b]) /\ DOMAIN mut = Button
      /\ DOMAIN mut[b] = DOMAIN NoMutation /\ IsJudgement(b, mut[b].arg)
  BY <1>1 DEF ShownFits, WritesFit, WriteFits
<1>4. ServerGoesOn
  BY <1>1, <1>2, <1>3, WritesGoOn
<1>5. PICK answer :
         answer = IF b \in {"decide", "withdraw"} THEN ReviewView(rstatus', verdict', landed') ELSE None
  OBVIOUS
<1>6. PICK m : m = [mut[b] EXCEPT !.at = "done", !.own = landed', !.answer = answer]
  OBVIOUS
<1>7. mut' = [mut EXCEPT ![b] = m]
  BY <1>3, <1>5, <1>6 DEF WriteLands
<1>8. /\ DOMAIN m = DOMAIN NoMutation
      /\ m.at = "done" /\ m.own = landed' /\ m.answer = answer
  BY <1>3, <1>6 DEF NoMutation
<1>9. b \in {"decide", "withdraw"} => answer # None /\ IsTold(answer)' /\ answer.status \in Closed
  BY <1>1, <1>2, <1>3, <1>5, EndIsAnswered
<1>10. WriteFits(b, m)'
  BY <1>1, <1>2, <1>3, <1>8, <1>9 DEF WriteFits, Loaded
<1>11. WritesFit'
  BY <1>1, <1>3, <1>4, <1>7, <1>10, CacheStaysLoaded, OneWriteFits
<1>12. mut'["create"].at = "done" => rstatus' # "absent"
  <2>1. CASE b = "create"
    BY <1>1, <2>1 DEF Performs
  <2>2. CASE b # "create"
    <3>1. mut'["create"] = mut["create"]
      BY <1>3, <1>7, <2>2 DEF Button
    <3> QED
      BY <1>4, <3>1 DEF ShownFits, ReviewIsThere, ServerGoesOn
  <2> QED
    BY <2>1, <2>2
<1> QED
  BY <1>1, <1>4, <1>11, <1>12, PageStays

LEMMA WriteRefusedFits ==
  ASSUME ShownFits, NEW b \in Button, WriteRefused(b)
  PROVE  ShownFits' /\ StaysClosed
PROOF
<1>1. UNCHANGED <<run, verdict, late, landed, page, cache, acked, crossed>>
  BY DEF WriteRefused
<1>2. ServerGoesOn
  BY <1>1, SyncGoesOn, ServerStays DEF WriteRefused, ShownFits
<1>3. /\ ServerFits /\ WritesFit /\ WriteFits(b, mut[b]) /\ DOMAIN mut = Button
      /\ DOMAIN mut[b] = DOMAIN NoMutation /\ mut[b].at = "sent"
  BY DEF WriteRefused, ShownFits, WritesFit, WriteFits
<1>4. PICK m : m = [mut[b] EXCEPT !.at = "refused"]
  OBVIOUS
<1>5. mut' = [mut EXCEPT ![b] = m]
  BY <1>3, <1>4 DEF WriteRefused
<1>6. DOMAIN m = DOMAIN NoMutation /\ m.at = "refused"
  BY <1>3, <1>4 DEF NoMutation
<1>7. WriteFits(b, m)'
  BY <1>1, <1>3, <1>6 DEF WriteFits, Loaded
<1>8. WritesFit'
  BY <1>1, <1>2, <1>3, <1>5, <1>7, CacheStaysLoaded, OneWriteFits
<1>9. mut'["create"].at = "done" => rstatus' # "absent"
  BY <1>2, <1>3, <1>5, <1>6 DEF Button, ShownFits, ReviewIsThere, ServerGoesOn
<1> QED
  BY <1>1, <1>2, <1>8, <1>9, PageStays

LEMMA SubmitFits ==
  ASSUME ShownFits, NEW b \in Button, NEW m, Submit(b, m), DOMAIN m = DOMAIN NoMutation,
         m.at = "sent", IsJudgement(b, m.arg),
         OfReview(b) => Loaded(cache, "review") /\ Loaded(cache, "groups")
  PROVE  ShownFits' /\ StaysClosed
PROOF
<1>1. /\ UNCHANGED server /\ UNCHANGED <<page, cache, acked, crossed>>
      /\ mut' = [mut EXCEPT ![b] = m]
  BY DEF Submit
<1>2. ServerGoesOn
  BY <1>1, ServerStays DEF server, ShownFits
<1>3. ServerFits /\ WritesFit /\ DOMAIN mut = Button
  BY DEF ShownFits, WritesFit
<1>4. WriteFits(b, m)'
  BY <1>1 DEF WriteFits, Loaded, IsJudgement
<1>5. WritesFit'
  BY <1>1, <1>2, <1>3, <1>4, CacheStaysLoaded, OneWriteFits
<1>6. mut'["create"].at = "done" => rstatus' # "absent"
  BY <1>1, <1>2, <1>3 DEF Button, ShownFits, ReviewIsThere, ServerGoesOn
<1> QED
  BY <1>1, <1>2, <1>5, <1>6, PageStays

LEMMA JudgesLoaded ==
  ASSUME Judges
  PROVE  Loaded(cache, "review") /\ Loaded(cache, "groups")
  BY DEF Judges, Shows

LEMMA UserActsFit ==
  ASSUME ShownFits, UserActs
  PROVE  ShownFits' /\ StaysClosed
PROOF
<1>1. ASSUME NEW d \in Doc, Type(d) PROVE ShownFits' /\ StaysClosed
  <2>1. UNCHANGED server /\ UNCHANGED <<page, cache, mut, acked, crossed>>
    BY <1>1 DEF Type
  <2>2. ServerGoesOn
    BY <2>1, ServerStays DEF server, ShownFits
  <2>3. WritesFit'
    BY <2>1, <2>2, CacheStaysLoaded, OtherWritesStay DEF ShownFits
  <2> QED
    BY <2>1, <2>2, <2>3, PageStays DEF ShownFits, ReviewIsThere, ServerGoesOn
<1>2. ASSUME Save PROVE ShownFits' /\ StaysClosed
  <2>1. PICK m : m = [NoMutation EXCEPT
                        !.at = "sent", !.arg = editor.text,
                        !.match = cache["version"].data.doc, !.base = editor.base]
    OBVIOUS
  <2>2. DOMAIN m = DOMAIN NoMutation /\ m.at = "sent"
    BY <2>1 DEF NoMutation
  <2>3. Submit("save", m)
    BY <1>2, <2>1 DEF Save
  <2>4. "save" \in Button /\ IsJudgement("save", m.arg) /\ ~OfReview("save")
    BY DEF Button, IsJudgement, OfReview
  <2> QED
    BY <2>2, <2>3, <2>4, SubmitFits
<1>3. ASSUME Create PROVE ShownFits' /\ StaysClosed
  <2>1. PICK m : m = [NoMutation EXCEPT !.at = "sent"]
    OBVIOUS
  <2>2. DOMAIN m = DOMAIN NoMutation /\ m.at = "sent"
    BY <2>1 DEF NoMutation
  <2>3. Submit("create", m)
    BY <1>3, <2>1 DEF Create
  <2>4. "create" \in Button /\ IsJudgement("create", m.arg) /\ ~OfReview("create")
    BY DEF Button, IsJudgement, OfReview
  <2> QED
    BY <2>2, <2>3, <2>4, SubmitFits
<1>4. ASSUME NEW g \in Group, NEW v \in Verdict, RecordVerdict(g, v) PROVE ShownFits' /\ StaysClosed
  <2>1. PICK m : m = [NoMutation EXCEPT !.at = "sent", !.arg = v]
    OBVIOUS
  <2>2. DOMAIN m = DOMAIN NoMutation /\ m.at = "sent" /\ m.arg = v
    BY <2>1 DEF NoMutation
  <2>3. Submit(g, m) /\ Judges
    BY <1>4, <2>1 DEF RecordVerdict
  <2>4. g \in Button /\ IsJudgement(g, m.arg)
    BY <2>2 DEF Button, IsJudgement
  <2> QED
    BY <2>2, <2>3, <2>4, JudgesLoaded, SubmitFits
<1>5. ASSUME NEW o, DecideReview(o) PROVE ShownFits' /\ StaysClosed
  <2>1. PICK m : m = [NoMutation EXCEPT !.at = "sent", !.arg = o]
    OBVIOUS
  <2>2. DOMAIN m = DOMAIN NoMutation /\ m.at = "sent"
    BY <2>1 DEF NoMutation
  <2>3. Submit("decide", m) /\ Judges
    BY <1>5, <2>1 DEF DecideReview
  <2>4. "decide" \in Button /\ IsJudgement("decide", m.arg)
    BY DEF Button, IsJudgement
  <2> QED
    BY <2>2, <2>3, <2>4, JudgesLoaded, SubmitFits
<1>6. ASSUME WithdrawReview PROVE ShownFits' /\ StaysClosed
  <2>1. PICK m : m = [NoMutation EXCEPT !.at = "sent"]
    OBVIOUS
  <2>2. DOMAIN m = DOMAIN NoMutation /\ m.at = "sent"
    BY <2>1 DEF NoMutation
  <2>3. Submit("withdraw", m) /\ Judges
    BY <1>6, <2>1 DEF WithdrawReview
  <2>4. "withdraw" \in Button /\ IsJudgement("withdraw", m.arg)
    BY DEF Button, IsJudgement
  <2> QED
    BY <2>2, <2>3, <2>4, JudgesLoaded, SubmitFits
<1>7. ASSUME NEW p \in Page, Navigate(p) PROVE ShownFits' /\ StaysClosed
  BY <1>7, NavigateFits
<1> QED
  BY <1>1, <1>2, <1>3, <1>4, <1>5, <1>6, <1>7 DEF UserActs

\* A mutation that is over.
LEMMA NoMutationFits ==
  ASSUME NEW b \in Button
  PROVE  WriteFits(b, NoMutation)'
  BY DEF WriteFits, NoMutation

LEMMA WriteFailsFits ==
  ASSUME ShownFits, NEW b \in Button, WriteFails(b)
  PROVE  ShownFits' /\ StaysClosed
PROOF
<1>1. PICK m : m = NoMutation
  OBVIOUS
<1>2. /\ UNCHANGED server /\ UNCHANGED <<page, cache, acked, crossed>>
      /\ mut' = [mut EXCEPT ![b] = m]
  BY <1>1 DEF WriteFails
<1>3. ServerGoesOn
  BY <1>2, ServerStays DEF server, ShownFits
<1>4. ServerFits /\ WritesFit /\ DOMAIN mut = Button
  BY DEF ShownFits, WritesFit
<1>5. WriteFits(b, m)'
  BY <1>1, NoMutationFits
<1>6. WritesFit'
  BY <1>2, <1>3, <1>4, <1>5, CacheStaysLoaded, OneWriteFits
<1>7. mut'["create"].at = "done" => rstatus' # "absent"
  BY <1>1, <1>2, <1>3, <1>4 DEF Button, NoMutation, ShownFits, ReviewIsThere, ServerGoesOn
<1> QED
  BY <1>2, <1>3, <1>6, <1>7, PageStays

-----------------------------------------------------------------------------
(* A write that is answered                                                 *)

\* Of the review's keys the buttons of the review alone refresh any, and each the review.
LEMMA ReviewIsRefreshed ==
  ASSUME NEW b \in Button
  PROVE  /\ "review" \in Refreshes(b) \/ "groups" \in Refreshes(b) => OfReview(b)
         /\ b \in {"decide", "withdraw"} => "review" \in Refreshes(b)
PROOF
<1>1. CASE b = "save"
  BY <1>1 DEF Refreshes
<1>2. CASE b = "create"
  BY <1>2 DEF Refreshes
<1>3. CASE b = "decide"
  BY <1>3 DEF Refreshes, OfReview
<1>4. CASE b = "withdraw"
  BY <1>4 DEF Refreshes, OfReview
<1>5. CASE b \notin {"save", "create", "decide", "withdraw"}
  BY <1>5 DEF OfReview
<1> QED
  BY <1>1, <1>2, <1>3, <1>4, <1>5

\* The answer is put where the review is shown, beside what is under way.
LEMMA AnswerIsRendered ==
  ASSUME ShownFits, NEW b \in Button, mut[b].at = "done", NEW w, w = WithAnswer(b)
  PROVE  /\ Rendered(w) /\ w["groups"] = cache["groups"]
         /\ b \notin {"decide", "withdraw"} => w = cache
         /\ b \in {"decide", "withdraw"} =>
              w["review"].data = mut[b].answer /\ IsTold(mut[b].answer) /\ mut[b].answer.status \in Closed
         /\ \A k \in {"review", "groups"} : cache[k].data # None => w[k].data # None
PROOF
<1>1. Rendered(cache) /\ WriteFits(b, mut[b]) /\ "review" \in Key /\ "groups" \in Key
  BY CacheIsRendered DEF ShownFits, WritesFit, Key
<1>2. CASE b \notin {"decide", "withdraw"}
  BY <1>1, <1>2 DEF WithAnswer
<1>3. CASE b \in {"decide", "withdraw"}
  <2>1. PICK answer : answer = mut[b].answer
    OBVIOUS
  <2>2. answer # None /\ IsTold(answer) /\ answer.status \in Closed /\ answer \in ReviewData
    BY <1>1, <1>3, <2>1 DEF WriteFits, IsTold
  <2>3. PICK entry : entry = [[cache["review"] EXCEPT !.data = answer] EXCEPT !.failed = FALSE]
    OBVIOUS
  <2>4. cache["review"] \in Entries(ReviewData) /\ DOMAIN cache = Key
    BY <1>1 DEF Rendered, IsCache
  <2>5. /\ entry \in Entries(ReviewData) /\ entry.data = answer
        /\ entry.fetch = cache["review"].fetch /\ entry.got = cache["review"].got
    BY <2>2, <2>3, <2>4 DEF Entries
  <2>6. w = [cache EXCEPT !["review"] = entry]
    BY <1>1, <1>3, <2>1, <2>3, <2>4 DEF WithAnswer
  <2>7. DOMAIN w = Key /\ w["review"] = entry /\ w["groups"] = cache["groups"]
    BY <1>1, <2>4, <2>6
  <2>8. Rendered(w)
    BY <1>1, <2>2, <2>5, <2>7 DEF Rendered, IsCache
  <2> QED
    BY <1>3, <2>1, <2>2, <2>5, <2>7, <2>8
<1> QED
  BY <1>2, <1>3

LEMMA WriteAnsweredFits ==
  ASSUME ShownFits, NEW b \in Button, WriteAnswered(b)
  PROVE  ShownFits' /\ StaysClosed
PROOF
<1>1. PICK p : p = PageAfter(b)
  OBVIOUS
<1>2. PICK w : w = WithAnswer(b)
  OBVIOUS
<1>3. PICK c : c = Mounted(p, w)
  OBVIOUS
<1>4. PICK keys : keys = Refreshes(b) \cup (IF GroupsEffect(p, w) THEN {"groups"} ELSE {})
  OBVIOUS
<1>5. /\ mut[b].at = "done" /\ page' = p /\ cache' = Invalidated(p, c, keys)
      /\ UNCHANGED server
  BY <1>1, <1>2, <1>3, <1>4 DEF WriteAnswered
<1>6. crossed' = IF GroupsEffect(p, w) THEN c["groups"].data = None /\ c["groups"].fetch = "read"
                 ELSE crossed
  BY <1>1, <1>2, <1>3 DEF WriteAnswered
<1>7. acked' = IF p # page THEN NothingAcked
               ELSE [k \in {"review", "groups"} |->
                       IF /\ k \in Refreshes(b) \cap Active(p, c)
                          /\ mut[b].own > acked[k]
                       THEN mut[b].own ELSE acked[k]]
  BY <1>1, <1>2, <1>3, <1>5 DEF WriteAnswered
<1>8. PICK m : m = NoMutation
  OBVIOUS
<1>9. mut' = [mut EXCEPT ![b] = m]
  BY <1>8 DEF WriteAnswered
<1>10. /\ ServerFits /\ WritesFit /\ DOMAIN mut = Button /\ WriteFits(b, mut[b])
       /\ page \in Page /\ p \in Page
  BY <1>1 DEF ShownFits, WritesFit, AcksFit, PageAfter, Page
<1>11. /\ Rendered(w) /\ w["groups"] = cache["groups"]
       /\ b \notin {"decide", "withdraw"} => w = cache
       /\ b \in {"decide", "withdraw"} =>
            w["review"].data = mut[b].answer /\ IsTold(mut[b].answer) /\ mut[b].answer.status \in Closed
       /\ \A k \in {"review", "groups"} : cache[k].data # None => w[k].data # None
  BY <1>2, <1>5, AnswerIsRendered
<1>12. CacheFollows(p, c, w) /\ IsCache(c)
  BY <1>3, <1>10, <1>11, MountedFollows DEF Rendered, CacheFollows
<1>13. /\ CacheFollows(p, cache', c)
       /\ \A k \in {"review", "groups"} \cap keys \cap Active(p, c) : cache'[k] = Refetch(c[k])
  BY <1>5, <1>10, <1>12, InvalidatedFollows
<1>14. CacheFollows(p, cache', w)
  BY <1>12, <1>13, FollowsTwice
<1>15. \A k \in {"review", "groups"} : cache'[k].data = w[k].data /\ Follows(cache'[k], w[k])
  BY <1>14 DEF CacheFollows
<1>16. ServerGoesOn
  BY <1>5, <1>10, ServerStays DEF server
<1>17. CacheFits' /\ LoadedStays
  BY <1>5, <1>11, <1>14, RenderedFits DEF LoadedStays, Loaded
<1>18. WritesFit'
  <2>1. WriteFits(b, m)'
    BY <1>8, NoMutationFits
  <2> QED
    BY <1>9, <1>10, <1>16, <1>17, <2>1, OneWriteFits
<1>19. ReviewIsThere'
  <2>1. p \in {"review", "group"} => rstatus # "absent"
    BY <1>1, <1>5 DEF PageAfter, ShownFits, ReviewIsThere
  <2>2. mut'["create"].at = "done" => rstatus # "absent"
    BY <1>8, <1>9, <1>10 DEF NoMutation, Button, ShownFits, ReviewIsThere
  <2> QED
    BY <1>5, <1>11, <1>14, <2>1, <2>2, RenderedIsThere
<1>20. GroupsFit'
  <2>1. GroupsEffect(p, w) /\ ~crossed' => cache'["groups"].fetch = "sent"
    <3> SUFFICES ASSUME GroupsEffect(p, w) PROVE crossed' \/ cache'["groups"].fetch = "sent"
      OBVIOUS
    <3>1. \/ Invalidated(p, c, keys)["groups"].fetch = "sent"
          \/ c["groups"].data = None /\ c["groups"].fetch = "read"
      BY <1>4, <1>10, <1>11, <1>12, EffectReads DEF Rendered
    <3>2. crossed' = (c["groups"].data = None /\ c["groups"].fetch = "read")
      BY <1>6
    <3> QED
      BY <1>5, <3>1, <3>2
  <2> QED
    BY <1>5, <1>6, <1>11, <1>14, <2>1, RenderedGroupsFit
\* What is refreshed was loaded, so that its read is replaced.
<1>21. \A k \in {"review", "groups"} :
          k \in Refreshes(b) \cap Active(p, c) => cache'[k].fetch = "sent"
  <2> SUFFICES ASSUME NEW k \in {"review", "groups"}, k \in Refreshes(b) \cap Active(p, c)
               PROVE  cache'[k].fetch = "sent"
    OBVIOUS
  <2>1. OfReview(b)
    BY ReviewIsRefreshed
  <2>2. cache[k].data # None
    BY <1>5, <1>10, <2>1 DEF WriteFits, Loaded
  <2>3. c[k].data # None
    BY <1>11, <1>12, <2>2 DEF CacheFollows
  <2>4. cache'[k] = Refetch(c[k])
    BY <1>4, <1>13
  <2>5. c["review"] \in Entries(ReviewData) /\ c["groups"] \in Entries(GroupsData)
    BY <1>12 DEF IsCache
  <2> QED
    BY <2>3, <2>4, <2>5, LoadedIsReplaced
<1>22. CASE p # page
  <2>1. acked' = NothingAcked
    BY <1>7, <1>22
  <2>2. AcksFit' /\ ClosedFits'
    BY <1>5, <1>10, <1>17, <2>1, OpenedAcksFit
  <2>3. StaysClosed
    BY <1>5, <1>22 DEF StaysClosed
  <2> QED
    BY <1>16, <1>17, <1>18, <1>19, <1>20, <2>2, <2>3 DEF ShownFits, ServerGoesOn
<1>23. CASE p = page
  <2>1. /\ DOMAIN acked' = {"review", "groups"}
        /\ \A k \in {"review", "groups"} :
              acked'[k] = IF k \in Refreshes(b) \cap Active(p, c) /\ mut[b].own > acked[k]
                          THEN mut[b].own ELSE acked[k]
        /\ acked' = [k \in {"review", "groups"} |-> acked'[k]]
    BY <1>7, <1>23
  <2>2. /\ acked \in [{"review", "groups"} -> Nat]
        /\ \A k \in {"review", "groups"} : acked[k] <= landed /\ Knows(cache[k], acked[k])
        /\ page \notin {"review", "group"} => acked = NothingAcked
    BY DEF ShownFits, AcksFit
  <2>3. mut[b].own \in Nat /\ mut[b].own <= landed
    BY <1>5, <1>10 DEF WriteFits
  \* Where the review is not mounted nothing was acknowledged.
  <2>4. /\ "review" \in Active(p, c) <=> p \in {"review", "group"}
        /\ "groups" \in Active(p, c) => p \in {"review", "group"}
    BY <1>10, ReviewIsActive
  <2>5. \A k \in {"review", "groups"} : page \notin {"review", "group"} => acked[k] = 0 /\ acked'[k] = 0
    BY <1>23, <2>1, <2>2, <2>4 DEF NothingAcked
  <2>6. \/ w["review"] = cache["review"]
        \/ page \notin {"review", "group"}
        \/ cache'["review"].fetch = "sent"
    BY <1>11, <1>21, <1>23, <2>4, ReviewIsRefreshed
  <2>7. Knows(cache'["review"], acked'["review"]) /\ Knows(cache'["groups"], acked'["groups"])
    <3>1. ASSUME NEW k \in {"review", "groups"}, cache'[k].fetch = "sent"
          PROVE  Knows(cache'[k], acked'[k])
      BY <3>1 DEF Knows
    <3>2. ASSUME NEW k \in {"review", "groups"}, cache'[k].fetch # "sent"
          PROVE  acked'[k] = acked[k]
      BY <1>21, <2>1, <3>2
    <3>3. ASSUME NEW k \in {"review", "groups"}, cache'[k].fetch # "sent", w[k] = cache[k]
          PROVE  Knows(cache'[k], acked'[k])
      BY <1>15, <2>2, <3>2, <3>3, FollowersKnow
    <3>4. CASE page \notin {"review", "group"}
      <4>1. Knows(cache'["review"], 0)
        <5>1. \A held \in ReviewData : held.own \in Nat
          BY DEF ReviewData
        <5> QED
          BY <1>17, <5>1, NothingIsKnown DEF CacheFits
      <4>2. acked'["review"] = 0
        BY <2>5, <3>4
      <4> QED
        BY <1>11, <3>1, <3>3, <4>1, <4>2
    <3> QED
      BY <1>11, <2>6, <3>1, <3>3, <3>4
  <2>8. AcksFit'
    <3>1. \A k \in {"review", "groups"} : acked'[k] \in Nat /\ acked'[k] <= landed
      BY <2>1, <2>2, <2>3
    <3>2. acked' \in [{"review", "groups"} -> Nat]
      BY <2>1, <3>1
    <3>3. page \notin {"review", "group"} => acked' = NothingAcked
      BY <2>1, <2>5 DEF NothingAcked
    <3> QED
      BY <1>5, <1>10, <1>23, <2>7, <3>1, <3>2, <3>3 DEF AcksFit, server
  <2>9. ClosedFits'
    <3> SUFFICES ASSUME acked'["review"] > 0, ShownStatus(cache') \in Closed,
                        cache'["review"].fetch = "read", ~reopened
                 PROVE  cache'["review"].got.status = ShownStatus(cache')
      BY <1>5 DEF ClosedFits, ShownStatus, Loaded, server, late
    <3>1. acked'["review"] = acked["review"] /\ page \in {"review", "group"}
      BY <1>21, <2>1, <2>5
    <3>2. w["review"] = cache["review"]
      BY <2>6, <3>1
    <3>3. cache'["review"] = cache["review"]
      BY <1>15, <3>2, FollowersKnow
    <3>4. ShownStatus(cache') = ShownStatus(cache)
      BY <3>3 DEF ShownStatus, Loaded
    <3> QED
      BY <3>1, <3>3, <3>4 DEF ShownFits, ClosedFits
  <2>10. StaysClosed
    <3> SUFFICES ASSUME ShownStatus(cache) \in Closed, ~reopened
                 PROVE  ShownStatus(w) = ShownStatus(cache)
      BY <1>14, StatusFollows DEF StaysClosed
    <3>1. cache["review"].data # None
      BY DataAssumption DEF ShownStatus, Loaded
    <3>2. CASE b \in {"decide", "withdraw"}
      <4>1. w["review"].data # None
        BY <1>11, <3>1
      <4>2. rstatus = ShownStatus(cache)
        BY <3>1 DEF ShownStatus, Loaded, ShownFits, CacheFits, IsTold
      <4>3. rstatus = ShownStatus(w)
        BY <1>11, <3>2, <4>1 DEF ShownStatus, Loaded, IsTold
      <4> QED
        BY <4>2, <4>3
    <3> QED
      BY <1>11, <3>2
  <2> QED
    BY <1>16, <1>17, <1>18, <1>19, <1>20, <2>8, <2>9, <2>10 DEF ShownFits, ServerGoesOn
<1> QED
  BY <1>22, <1>23

-----------------------------------------------------------------------------
(* Every step                                                               *)

LEMMA StepFits ==
  ASSUME ShownFits, [Next]_vars
  PROVE  ShownFits' /\ StaysClosed
PROOF
<1>1. CASE RunEnds \/ LateSyncBegins \/ LateSyncEnds
  BY <1>1, RunEndsFits, LateSyncFits
<1>2. CASE OthersAct
  BY <1>2, OthersActFits
<1>3. CASE \E k \in Key : Reads(k) \/ ReadFails(k)
  BY <1>3, ServerReadsFits, ReadArrivesFits, PollFits, ReadFailsFits DEF Reads
<1>4. CASE Reconnect
  BY <1>4, ReconnectFits
<1>5. CASE UserActs
  BY <1>5, UserActsFit
<1>6. CASE \E b \in Button : WriteLands(b) \/ WriteRefused(b) \/ WriteAnswered(b) \/ WriteFails(b)
  BY <1>6, WriteLandsFits, WriteRefusedFits, WriteAnsweredFits, WriteFailsFits
<1>7. CASE UNCHANGED vars
  <2>1. UNCHANGED <<rstatus, run, verdict, late, landed, page, cache, mut, acked, crossed>>
    BY <1>7 DEF vars, server, client
  <2>2. ServerGoesOn
    BY <2>1, ServerStays DEF ShownFits
  <2>3. WritesFit'
    BY <2>1, <2>2, CacheStaysLoaded, OtherWritesStay DEF ShownFits
  <2> QED
    BY <2>1, <2>2, <2>3, PageStays DEF ShownFits, ReviewIsThere
<1> QED
  BY <1>1, <1>2, <1>3, <1>4, <1>5, <1>6, <1>7 DEF Next

LEMMA ShownFitsAlways == Spec => []ShownFits
PROOF
<1>1. ShownFits /\ [Next]_vars => ShownFits'
  BY StepFits
<1> QED
  BY <1>1, FirstFits, PTL DEF Spec

\* The page that was told that a write of its own took effect shows it as soon as nothing
\* it shows is being read (SeesOwnWrites): onSuccess of the mutations, with the reads that
\* were under way.
THEOREM OwnWritesAreSeen == Spec => []SeesOwnWrites
PROOF
<1>1. ShownFits => SeesOwnWrites
  BY DEF ShownFits, AcksFit, SeesOwnWrites, Knows, Quiet, Shows, Loaded
<1> QED
  BY <1>1, ShownFitsAlways, PTL

\* A review page that shows a computed review shows its groups (GroupsFollowReview): the
\* effect of ChangeReviewPage reads them again, but for the crossing it does not handle.
THEOREM GroupsAreOfTheReview == Spec => []GroupsFollowReview
PROOF
<1>1. ShownFits => GroupsFollowReview
  BY DEF ShownFits, GroupsFit, GroupsFollowReview, HasGroups, Quiet, Shows, Loaded, Computed
<1> QED
  BY <1>1, ShownFitsAlways, PTL

\* A page that was told of a write of its own does not show a closed review as open again
\* unless the server has opened it (ShownReviewStaysClosed): no read begun before the answer
\* is under way beside it. The server opens it when syncStatus writes 'ready', by the id
\* alone, over a decision or a withdrawal that landed after it had read the review.
THEOREM ClosedReviewsStayClosed == Spec => ShownReviewStaysClosed
PROOF
<1> DEFINE step == acked["review"] > 0 /\ page' = page /\ ShownStatus(cache) \in Closed
                     /\ ~reopened
                     => ShownStatus(cache') = ShownStatus(cache)
<1>1. ShownFits /\ [Next]_vars => [step]_vars
  BY StepFits DEF StaysClosed
<1>2. Spec => [][step]_vars
  BY <1>1, ShownFitsAlways, PTL DEF Spec
<1> QED
  BY <1>2 DEF ShownReviewStaysClosed
=============================================================================
