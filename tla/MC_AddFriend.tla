---------------------------- MODULE MC_AddFriend ----------------------------
(* AddFriend for TLC.                                                       *)
EXTENDS AddFriend, TLC

Symmetry == Permutations(Keys) \cup Permutations(Nospams)
=============================================================================
