----------------------- MODULE MCDecisionTransactions -----------------------
(***************************************************************************)
(* DecisionTransactions with every review on one version, which is where   *)
(* its transactions meet.                                                  *)
(***************************************************************************)
EXTENDS DecisionTransactions, TLC

MCCandidate == [r \in Review |-> CHOOSE v \in Version : TRUE]

\* Transactions and reviews are told apart by nothing but their names.
MCSymmetry == Permutations(Tx) \cup Permutations(Review)
=============================================================================
