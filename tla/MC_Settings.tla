---------------------------- MODULE MC_Settings ----------------------------
(* Texts of up to two characters of every width, which are longer than the  *)
(* field of the status message and than either string of tox can be; and    *)
(* strings cut anywhere.                                                    *)
EXTENDS Settings, SequencesExt

MC_TypedTexts == BoundedSeq({"a", "e", "x", "bom"}, 2)
MC_OldStrings == [chars : BoundedSeq({"a", "bom"}, 2), cut : {0, 3}]
=============================================================================
