---------------------------- MODULE MC_ToxClient ----------------------------
(* ToxClient for TLC.  Names are left out: ContactsModel's run has them.    *)
EXTENDS ToxClient, TLC

CONSTANTS k1, k2

MC_FromUtf8 == "0 bytes" :> ""

KeySymmetry == Permutations({k1, k2})
=============================================================================
