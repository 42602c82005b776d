---------------------------- MODULE MCCollection ----------------------------
(* Lists around the ends of their first, second and fifth unit, and every   *)
(* index of them.                                                           *)
EXTENDS Collection

MCCounts == {0, 1, 2, 63, 64, 65, 66, 127, 128, 129, 320, 321, 350}
MCIndexes == 0..352
=============================================================================
