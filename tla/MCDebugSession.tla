---------------------------- MODULE MCDebugSession ----------------------------
(* Model-checking instances of DebugSession.                                *)
EXTENDS DebugSession
=============================================================================
