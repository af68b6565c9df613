----------------------------- MODULE MCRepoMap ------------------------------
(* The instance of RepoMap that TLC checks: tool calls are alike.          *)
EXTENDS RepoMap, TLC

CallSymmetry == Permutations(Calls)
=============================================================================
