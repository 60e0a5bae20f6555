---------------------------- MODULE MC_MainLoop ----------------------------
(* MainLoop for TLC.  The table is halved: 9 nodes and a counter of 40      *)
(* values keep 40 % 9 = 4 = 2^32 % 18 and 9 >= 2 * 4, the two facts the     *)
(* wrap of the counter and the freshness of the next burst depend on.       *)
EXTENDS MainLoop

MC_IntMin == -4
=============================================================================
