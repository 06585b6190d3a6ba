---------------------------- MODULE MCFeedbackStore ----------------------------
(* Model-checking instances of FeedbackStore.                               *)
EXTENDS FeedbackStore, TLC

Symmetry == Permutations(Invocations)
=============================================================================
