------------------------------ MODULE MC_CData ------------------------------
(* Keys of one byte, addresses of two; the second is a copy of the first.  *)
EXTENDS CData

MC_ValidAddresses == {<<b, b>> : b \in Byte}
=============================================================================
