----------------------------- MODULE MCDbvmMemory -----------------------------
(* Model-checking instances of DbvmMemory.                                  *)
EXTENDS DbvmMemory

Symmetry == Permutations(CPUs)
=============================================================================
