--------------------------- MODULE MCChangeReview ---------------------------
(***************************************************************************)
(* ChangeReview on two documents. Replays of different documents, and      *)
(* adoption previews, have groups; the replay of a document against itself *)
(* has none. Everything but the first document is of schemaVersion 1, and  *)
(* is upgraded to it.                                                      *)
(***************************************************************************)
EXTENDS ChangeReview, TLC

MCReplayGroups ==
    [bc \in (Content \cup {NoContent}) \X Content |->
        IF bc[1] = bc[2] THEN {} ELSE Group]

MCUpgraded == [c \in Content |-> CHOOSE d \in Content : TRUE]

Symmetric == Permutations(Review) \cup Permutations(Run) \cup Permutations(Request)

\* Bound: once requests have overlapped, a second run is requested only after an
\* accept has given later reviews another baseline.
SmallWhenOverlapped ==
    overlapped => Cardinality({n \in Run : run[n].status # "absent"})
                    <= 1 + Cardinality(Accepted)
=============================================================================
