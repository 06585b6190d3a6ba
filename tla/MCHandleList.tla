----------------------------- MODULE MCHandleList -----------------------------
(* Model-checking instances of HandleList.                                  *)
EXTENDS HandleList, TLC

Symmetry == Permutations(Threads) \cup Permutations(Pids)
=============================================================================
