---------------------------- MODULE MCReplayRuns ----------------------------
(***************************************************************************)
(* ReplayRuns with interchangeable runs, servers, requests and inputs: a   *)
(* symmetry for larger instances of its invariants alone, not for liveness.*)
(***************************************************************************)
EXTENDS ReplayRuns, TLC

Symmetric ==
    Permutations(Run) \cup Permutations(Server) \cup Permutations(Request)
        \cup Permutations(Inputs)
=============================================================================
