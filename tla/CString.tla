------------------------------ MODULE CString ------------------------------
(***************************************************************************)
(* CString, which takes texts between Qt and tox: QStrings are UTF-16, the *)
(* strings of tox bytes that ought to be UTF-8, with a 16-bit size.        *)
(*                                                                         *)
(* A text is a sequence of characters, which differ in what they take in   *)
(* either encoding.  A string of tox is the beginning of a text's UTF-8:   *)
(* whole characters and `cut` bytes of one more.                           *)
(***************************************************************************)
EXTENDS Integers, Sequences, FiniteSets

CONSTANT SizeRange  \* number of values of a uint16_t

ASSUME SizeRangeAssumption == SizeRange \in Nat \ {0}

\* A letter, a question mark, an umlaut, an emoji, the byte order mark U+FEFF,
\* and U+FFFD, which replaces a byte that is not UTF-8.
Letters == {"a", "?", "e", "x", "bom", "fffd"}

\* The emoji is a surrogate pair of UTF-16; a text may end in half of one.
Chars == Letters \cup {"half"}

\* toUtf8 makes a question mark of half a pair.
Width == [c \in Chars |-> CASE c \in {"a", "?", "half"} -> 1
                            [] c = "e"                -> 2
                            [] c \in {"bom", "fffd"}  -> 3
                            [] c = "x"                -> 4]
Units == [c \in Chars |-> IF c = "x" THEN 2 ELSE 1]

ToUtf8(text) ==
    [i \in 1..Len(text) |-> IF text[i] = "half" THEN "?" ELSE text[i]]

\* What the characters of a text take together.
Total(measure, text) ==
    Cardinality({b \in (1..Len(text)) \X (1..4) : b[2] <= measure[text[b[1]]]})

Utf8Size(text) == Total(Width, text)  \* text.toUtf8().size()
Length(text)   == Total(Units, text)  \* text.length()

\* The longest beginning of a text that takes at most n.
Beginning(measure, text, n) ==
    SubSeq(text, 1, Cardinality({i \in 1..Len(text) :
                                    Total(measure, SubSeq(text, 1, i)) <= n}))

String == [chars : Seq(Letters), cut : 0..3]

StringSize(s) == Utf8Size(s.chars) + s.cut
IsUtf8(s)     == s.cut = 0
Whole(text)   == [chars |-> text, cut |-> 0]

\* Mutant of Bytes: n characters.
BytesOfChars(text, n) ==
    Whole(SubSeq(text, 1, IF n <= Len(text) THEN n ELSE Len(text)))

\* The first n bytes of a text at least as long.
Bytes(text, n) ==
    LET kept == Beginning(Width, text, n)
    IN  [chars |-> kept, cut |-> n - Utf8Size(kept)]

\* CString(text).size().
Size(text) == Utf8Size(text) % SizeRange

\* Mutant of ToQString: each byte a Latin-1 character.
ToLatin1(s) == [b \in 1..StringSize(s) |-> "a"]

\* A text without the byte order mark at its beginning.
Unmarked(text) ==
    IF text # <<>> /\ Head(text) = "bom" THEN Tail(text) ELSE text

\* CString::toString: fromUtf8 drops such a mark, and replaces each byte of a
\* cut character by one U+FFFD.
ToQString(s) == Unmarked(s.chars) \o [b \in 1..s.cut |-> "fffd"]
=============================================================================
