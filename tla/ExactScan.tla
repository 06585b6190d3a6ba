------------------------------- MODULE ExactScan -------------------------------
(***************************************************************************)
(* What both scanners promise: an exact scan only ever adds matches of the *)
(* regions it was asked to look at, at most as many as the limit, and when *)
(* it ends it has every match of the regions it could read whole, unless   *)
(* the limit stopped it.  After a disturbance of the reads it promises     *)
(* only to keep what it has found, and the limit.                          *)
(***************************************************************************)
EXTENDS ScanReference

VARIABLES
  memory,
  request,
  regions,  \* the regions of the target
  whole,    \* those the scan was able to read whole
  found,    \* addresses reported
  disturbed,
  ended

inputs == <<memory, request, regions>>
vars == <<inputs, whole, found, disturbed, ended>>

Matches(r) == MatchesOf(memory, regions[r], request)
AllMatches == UNION {Matches(r) : r \in DOMAIN regions}

Complete(S, readable) ==
  \/ Cardinality(S) = request.limit
  \/ \A r \in readable : Matches(r) \subseteq S

Init ==
  /\ found = {}
  /\ ended => Complete(found, whole)

Proceed ==
  /\ ~ended
  /\ found \subseteq found'
  /\ Cardinality(found') <= request.limit
  /\ disturbed => disturbed'
  /\ disturbed' \/ found' \subseteq AllMatches
  /\ (ended' /\ ~disturbed') => Complete(found', whole')
  /\ UNCHANGED inputs

Spec == Init /\ [][Proceed]_vars
=============================================================================
