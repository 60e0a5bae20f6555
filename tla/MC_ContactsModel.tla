------------------------- MODULE MC_ContactsModel --------------------------
(* Three keys, and names of every kind that CString::toString tells apart. *)
EXTENDS ContactsModel, TLC

CONSTANTS k1, k2, k3

\* "ann" is ASCII; "latin" is not UTF-8 and decodes to a replacement
\* character; "bom" is a byte order mark alone, which fromUtf8 drops.
MCBytes == {"0 bytes", "ann", "latin", "bom"}
MCStrings == {"", "Ann", "?"}
MCFromUtf8 == ("0 bytes" :> "") @@ ("ann" :> "Ann") @@ ("latin" :> "?")
              @@ ("bom" :> "")

KeySymmetry == Permutations({k1, k2, k3})
=============================================================================
