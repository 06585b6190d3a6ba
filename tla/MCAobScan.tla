------------------------------- MODULE MCAobScan -------------------------------
(* Model-checking instance of AobScan: every memory of nine bytes over a    *)
(* two-letter alphabet in pages of two bytes, patterns shorter than, as     *)
(* long as and longer than a chunk, a start inside a page, no mapping, one  *)
(* over several chunks with nothing ahead of it, two that touch, and a gap  *)
(* with mappings that are not wanted or begin at 0.                         *)
EXTENDS AobScan

MCRequests ==
  [pattern : {<<1>>, <<0, 1>>, <<1, Any, 1>>}, start : {0}, end : {MaxAddress},
   alignment : {1}, limit : {9}, noAccess : {FALSE}]
  \cup [pattern : {<<0, 1>>, <<1, 0, 1>>}, start : {3}, end : {7},
        alignment : {1, 2}, limit : {1}, noAccess : {TRUE}]

MCMapLists ==
  { <<>>,
    << [base |-> 2, size |-> 6, wanted |-> TRUE] >>,
    << [base |-> 2, size |-> 4, wanted |-> TRUE], [base |-> 6, size |-> 2, wanted |-> TRUE] >>,
    << [base |-> 0, size |-> 2, wanted |-> TRUE], [base |-> 2, size |-> 2, wanted |-> FALSE],
       [base |-> 6, size |-> 2, wanted |-> TRUE] >> }

MCBadSets == {{}, {4, 5}}
=============================================================================
