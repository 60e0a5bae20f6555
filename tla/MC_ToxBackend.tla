--------------------------- MODULE MC_ToxBackend ---------------------------
(* ToxBackend for TLC.                                                      *)
EXTENDS ToxBackend, TLC

Symmetry == Permutations(Ids) \cup Permutations(Keys)
=============================================================================
