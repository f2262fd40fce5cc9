--------------------------- MODULE MCBtrSearchInfo ---------------------------
EXTENDS BtrSearchInfo, TLC

(* Three cursor shapes over a two-field unique key whose recommendations *)
(* differ in every field: (2 fields, 0 bytes, left), (1 field, 1 byte,    *)
(* right) and the degenerate (1, 0) with no potential.                     *)
MCMixed ==
  {[low_match |-> 0, low_bytes |-> 0, up_match |-> 2, up_bytes |-> 0],
   [low_match |-> 1, low_bytes |-> 1, up_match |-> 1, up_bytes |-> 0],
   [low_match |-> 1, low_bytes |-> 0, up_match |-> 1, up_bytes |-> 0]}

(* A range scan start that matches one field and one byte on the left.   *)
MCPrefixScan == {[low_match |-> 1, low_bytes |-> 1, up_match |-> 1, up_bytes |-> 0]}

MCSymmetry == Permutations(Threads)
=============================================================================
