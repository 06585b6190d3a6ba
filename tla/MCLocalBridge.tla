----------------------------- MODULE MCLocalBridge -----------------------------
(* Model-checking instance of LocalBridge: one connection whose counter     *)
(* wraps while handles are in use, and one that opens a single handle.      *)
EXTENDS LocalBridge

MCMaxIssued ==
  LET busy == CHOOSE c \in Conns : TRUE
  IN [c \in Conns |-> IF c = busy THEN 3 ELSE 1]
=============================================================================
