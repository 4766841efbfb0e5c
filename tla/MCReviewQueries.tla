-------------------------- MODULE MCReviewQueries --------------------------
(***************************************************************************)
(* Two reviews, an adoption whose groups are not in the order of their     *)
(* keys and a change; two conformance runs, with one finding in common.    *)
(***************************************************************************)
EXTENDS ReviewQueries, TLC

MCGroupsOf == [r \in Review |-> IF r = 1 THEN <<2, 1>> ELSE <<1, 2>>]
MCFindingsOf == "n" :> {1, 2} @@ "m" :> {1, 3}
MCKindOf == [r \in Review |-> IF r = 1 THEN "adoption" ELSE "change"]
=============================================================================
