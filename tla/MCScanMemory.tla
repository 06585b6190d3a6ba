----------------------------- MODULE MCScanMemory -----------------------------
(* Model-checking instances of ScanMemory: every memory of six bytes over a *)
(* two-letter alphabet, patterns with and without wildcards that are        *)
(* shorter than, as long as and longer than a chunk, and region lists with  *)
(* no region, one, two that touch, the last one reaching past the largest   *)
(* address, regions to be skipped, and three where a late answer is too     *)
(* long for the second.                                                     *)
EXTENDS ScanMemory

MCPatterns == {<<1>>, <<0, 1>>, <<1, Any, 1>>, <<0, 0, 1>>}

MCRequests ==
  [pattern : MCPatterns, start : {0}, end : {MaxAddress}, alignment : {1, 2}, limit : {1, 9}]
  \cup [pattern : {<<0, 1>>, <<1, 1>>}, start : {1}, end : {5}, alignment : {1, 2}, limit : {2}]

MCRegionLists ==
  { <<>>,
    << [base |-> 0, size |-> 6, wanted |-> TRUE] >>,
    << [base |-> 0, size |-> 3, wanted |-> TRUE], [base |-> 3, size |-> 9, wanted |-> TRUE] >>,
    << [base |-> 0, size |-> 2, wanted |-> FALSE], [base |-> 2, size |-> 1, wanted |-> TRUE],
       [base |-> 3, size |-> 3, wanted |-> TRUE] >>,
    << [base |-> 0, size |-> 2, wanted |-> TRUE], [base |-> 2, size |-> 1, wanted |-> TRUE],
       [base |-> 3, size |-> 3, wanted |-> TRUE] >> }
=============================================================================
