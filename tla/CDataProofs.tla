---------------------------- MODULE CDataProofs ----------------------------
(***************************************************************************)
(* Proofs about CData.  The digits of a text are numbered by counting, so  *)
(* that what fromHex makes of a text follows from cardinalities, without   *)
(* induction: a text that begins with digits, whatever comes after them,   *)
(* is decoded pair by pair as far as those digits go.                      *)
(***************************************************************************)
EXTENDS CData, FiniteSetTheorems, SequenceTheorems, TLAPS

-----------------------------------------------------------------------------
(* Counting                                                                *)

LEMMA UpTo ==
    ASSUME NEW n \in Nat
    PROVE  IsFiniteSet(1 .. n) /\ Cardinality(1 .. n) = n
<1>1. 1 \in Int /\ n \in Int
  OBVIOUS
<1>2. IsFiniteSet(1 .. n) /\ Cardinality(1 .. n) = IF 1 > n THEN 0 ELSE n - 1 + 1
  BY <1>1, FS_Interval, Zenon
<1> QED
  BY <1>2

LEMMA DisjointUnion ==
    ASSUME NEW S, NEW T, IsFiniteSet(S), IsFiniteSet(T), S \cap T = {}
    PROVE  Cardinality(S \cup T) = Cardinality(S) + Cardinality(T)
<1>1. Cardinality(S \cap T) = 0
  BY FS_EmptySet
<1>2. Cardinality(S) \in Nat /\ Cardinality(T) \in Nat
  BY FS_CardinalityType
<1>3. Cardinality(S \cup T) =
        Cardinality(S) + Cardinality(T) - Cardinality(S \cap T)
  BY FS_Union, Zenon
<1> QED
  BY <1>1, <1>2, <1>3

\* The digits of a text are not more than its characters.
LEMMA PlacesType ==
    ASSUME NEW n \in Nat, NEW text \in [1..n -> Chars]
    PROVE  /\ Len(text) = n
           /\ DigitPlaces(text) \subseteq 1..n
           /\ IsFiniteSet(DigitPlaces(text))
           /\ Cardinality(DigitPlaces(text)) \in 0..n
<1>1. Len(text) = n
  OBVIOUS
<1>2. DigitPlaces(text) \subseteq 1..n
  BY <1>1 DEF DigitPlaces
<1>3. IsFiniteSet(1..n) /\ Cardinality(1..n) = n
  BY UpTo
<1>4. IsFiniteSet(DigitPlaces(text))
      /\ Cardinality(DigitPlaces(text)) <= Cardinality(1..n)
  BY <1>2, <1>3, FS_Subset
<1>5. Cardinality(DigitPlaces(text)) \in Nat
  BY <1>4, FS_CardinalityType
<1> QED
  BY <1>1, <1>2, <1>3, <1>4, <1>5

\* Of digits at the beginning, the i-th is followed by all but i - 1.
LEMMA PlaceOfDigit ==
    ASSUME NEW n \in Nat, NEW text \in [1..n -> Chars], NEW m \in 0..n,
           \A i \in 1..m : text[i] \in Digits,
           NEW i \in 1..m
    PROVE  /\ Cardinality(DigitPlaces(text)) >= m
           /\ DigitFromEnd(text, Cardinality(DigitPlaces(text)) - i + 1) = text[i]
<1> DEFINE all == DigitPlaces(text)
           From(h) == {j \in all : h <= j}
           count == Cardinality(all)
<1>1. /\ Len(text) = n /\ all \subseteq 1..n /\ IsFiniteSet(all)
      /\ count \in 0..n
  BY PlacesType
<1>2. 1..m \subseteq all
  BY <1>1 DEF DigitPlaces, IsDigit
<1>3. \A h \in all : IsFiniteSet(From(h)) /\ Cardinality(From(h)) \in Nat
  BY <1>1, FS_Subset, FS_CardinalityType
<1>4. ASSUME NEW h \in 1..m
      PROVE  Cardinality(From(h)) = count - h + 1
  <2>1. all = 1..(h - 1) \cup From(h) /\ 1..(h - 1) \cap From(h) = {}
    BY <1>1, <1>2
  <2>2. h - 1 \in Nat
    OBVIOUS
  <2>3. IsFiniteSet(1..(h - 1)) /\ Cardinality(1..(h - 1)) = h - 1
    BY <2>2, UpTo
  <2>4. IsFiniteSet(From(h)) /\ Cardinality(From(h)) \in Nat
    BY <1>2, <1>3
  <2> HIDE DEF all, From
  <2>5. Cardinality(1..(h - 1) \cup From(h)) = h - 1 + Cardinality(From(h))
    BY <2>1, <2>3, <2>4, DisjointUnion
  <2>6. count = h - 1 + Cardinality(From(h))
    BY <2>1, <2>5 DEF count
  <2> QED
    BY <2>4, <2>6
<1>5. count >= m
  <2>1. IsFiniteSet(1..m) /\ Cardinality(1..m) = m
    BY UpTo
  <2> HIDE DEF all
  <2>2. Cardinality(1..m) <= Cardinality(all)
    BY <1>1, <1>2, FS_Subset
  <2> QED
    BY <2>1, <2>2
\* Later ones are followed by fewer.
<1>6. ASSUME NEW h \in all, Cardinality(From(h)) = count - i + 1
      PROVE  h = i
  <2>1. CASE h <= m
    <3>1. h \in 1..m
      BY <1>1, <2>1
    <3>2. Cardinality(From(h)) = count - h + 1
      BY <1>4, <3>1
    <3> HIDE DEF From, all
    <3> QED
      BY <1>1, <1>6, <3>1, <3>2
  <2>2. CASE h > m
    <3>1. From(h) \subseteq From(i) \ {i}
      BY <1>1, <2>2
    <3>2. i \in From(i) /\ IsFiniteSet(From(i)) /\ i \in all
      BY <1>2, <1>3
    <3>3. Cardinality(From(i)) = count - i + 1
      BY <1>4
    <3> HIDE DEF From, all
    <3>4. IsFiniteSet(From(i) \ {i})
          /\ Cardinality(From(i) \ {i}) = Cardinality(From(i)) - 1
      BY <3>2, FS_RemoveElement
    <3>5. Cardinality(From(h)) <= Cardinality(From(i) \ {i})
      BY <3>1, <3>4, FS_Subset
    <3> QED
      BY <1>1, <1>6, <3>3, <3>4, <3>5
  <2> QED
    BY <1>1, <2>1, <2>2
<1>7. i \in all /\ Cardinality(From(i)) = count - i + 1
  BY <1>2, <1>4
<1>8. (CHOOSE h \in all : Cardinality(From(h)) = count - i + 1) = i
  <2> DEFINE c == CHOOSE h \in all : Cardinality(From(h)) = count - i + 1
  <2> HIDE DEF all, From, count
  <2>1. c \in all /\ Cardinality(From(c)) = count - i + 1
    BY <1>7, Zenon
  <2> QED
    BY <1>6, <2>1
<1>9. ~(count - i + 1 > count)
  BY <1>1
<1> QED
  BY <1>5, <1>8, <1>9 DEF DigitFromEnd

-----------------------------------------------------------------------------
(* fromHex                                                                 *)

\* As many bytes as pairs of digits, an odd one being a pair with a zero.
LEMMA LengthOfBytes ==
    ASSUME NEW n \in Nat, NEW text \in [1..n -> Chars]
    PROVE  /\ DOMAIN FromHex(text) = 1..((Cardinality(DigitPlaces(text)) + 1) \div 2)
           /\ Len(FromHex(text)) = (Cardinality(DigitPlaces(text)) + 1) \div 2
           /\ \A m \in Nat : n <= 2 * m => Len(FromHex(text)) \in 0..m
<1> DEFINE count == Cardinality(DigitPlaces(text))
<1>1. count \in 0..n
  BY PlacesType
<1> HIDE DEF count
<1>2. (count + 1) \div 2 \in Nat
      /\ \A m \in Nat : n <= 2 * m => (count + 1) \div 2 \in 0..m
  BY <1>1
<1>3. DOMAIN FromHex(text) = 1..((count + 1) \div 2)
  BY DEF FromHex, count
<1>4. Len(FromHex(text)) = (count + 1) \div 2
  BY <1>2, <1>3 DEF FromHex, count
<1> QED
  BY <1>2, <1>3, <1>4 DEF count

\* A text that begins with the digits of m bytes, and has no digit alone.
LEMMA DecodesPrefix ==
    ASSUME NEW n \in Nat, NEW text \in [1..n -> Chars], NEW m \in Nat,
           2 * m <= n,
           \A i \in 1..(2 * m) : text[i] \in Digits,
           Cardinality(DigitPlaces(text)) % 2 = 0
    PROVE  /\ 1..m \subseteq DOMAIN FromHex(text)
           /\ \A b \in 1..m : FromHex(text)[b] = <<text[2 * b - 1], text[2 * b]>>
<1> DEFINE count == Cardinality(DigitPlaces(text))
           size == (count + 1) \div 2
<1>1. count \in 0..n /\ count >= 2 * m
  <2>1. count \in 0..n
    BY PlacesType
  <2>2. CASE m = 0
    BY <2>1, <2>2
  <2>3. CASE m > 0
    <3>1. 2 * m \in 0..n /\ 1 \in 1..(2 * m)
      BY <2>3
    <3>2. count >= 2 * m
      BY <3>1, PlaceOfDigit
    <3> QED
      BY <2>1, <3>2
  <2> QED
    BY <2>2, <2>3
<1>2. count = 2 * size /\ size \in Nat /\ size >= m
  <2> HIDE DEF count
  <2>1. count % 2 = 0
    BY DEF count
  <2> QED
    BY <1>1, <2>1
<1>3. DOMAIN FromHex(text) = 1..size
  BY LengthOfBytes
<1>4. ASSUME NEW b \in 1..m
      PROVE  FromHex(text)[b] = <<text[2 * b - 1], text[2 * b]>>
  <2>1. FromHex(text)[b] = <<DigitFromEnd(text, 2 * (size - b) + 2),
                             DigitFromEnd(text, 2 * (size - b) + 1)>>
    <3>1. b \in 1..size
      BY <1>2
    <3> QED
      BY <3>1 DEF FromHex
  <2>2. /\ 2 * (size - b) + 2 = count - (2 * b - 1) + 1
        /\ 2 * (size - b) + 1 = count - 2 * b + 1
    <3> HIDE DEF size, count
    <3> QED
      BY <1>1, <1>2
  <2>3. 2 * m \in 0..n /\ 2 * b - 1 \in 1..(2 * m) /\ 2 * b \in 1..(2 * m)
    OBVIOUS
  <2>4. /\ DigitFromEnd(text, count - (2 * b - 1) + 1) = text[2 * b - 1]
        /\ DigitFromEnd(text, count - 2 * b + 1) = text[2 * b]
    BY <2>3, PlaceOfDigit
  <2> QED
    BY <2>1, <2>2, <2>4
<1> HIDE DEF count, size
<1>5. 1..m \subseteq 1..size
  BY <1>2
<1> QED
  BY <1>3, <1>4, <1>5

-----------------------------------------------------------------------------
(* toHex and the two cases                                                 *)

\* What characters become.
LEMMA Cases ==
    ASSUME NEW n \in Nat, NEW text \in [1..n -> Chars]
    PROVE  /\ ToLower(text) \in [1..n -> Chars]
           /\ ToUpper(text) \in [1..n -> Chars]
           /\ \A i \in 1..n :
                 /\ ToLower(text)[i] \in Digits <=> text[i] # "x"
                 /\ text[i] \in Digits => ToLower(text)[i] = text[i]
                 /\ text[i] \in {"0", "A"} => ToUpper(text)[i] = text[i]
                 /\ ToUpper(ToLower(text))[i] = ToUpper(text)[i]
           /\ ToUpper(ToLower(text)) = ToUpper(text)
           /\ ToUpper(ToUpper(text)) = ToUpper(text)
  BY DEF ToLower, ToUpper, Chars, Digits

\* The digits of a byte are two after all those of the bytes before it.
LEMMA HexOfBytes ==
    ASSUME NEW n \in Nat, NEW bytes \in [1..n -> Byte]
    PROVE  /\ ToHex(bytes) \in [1..(2 * n) -> Digits]
           /\ \A b \in 1..n : /\ ToHex(bytes)[2 * b - 1] = bytes[b][1]
                              /\ ToHex(bytes)[2 * b] = bytes[b][2]
<1>1. Len(bytes) = n
  OBVIOUS
<1>2. \A b \in 1..n : bytes[b][1] \in Digits /\ bytes[b][2] \in Digits
  BY DEF Byte
<1>3. ASSUME NEW b \in 1..n
      PROVE  /\ 2 * b - 1 \in 1..(2 * n) /\ 2 * b \in 1..(2 * n)
             /\ (2 * b - 1 + 1) \div 2 = b /\ 2 - ((2 * b - 1) % 2) = 1
             /\ (2 * b + 1) \div 2 = b /\ 2 - ((2 * b) % 2) = 2
  OBVIOUS
<1>4. ASSUME NEW b \in 1..n
      PROVE  /\ ToHex(bytes)[2 * b - 1] = bytes[b][1]
             /\ ToHex(bytes)[2 * b] = bytes[b][2]
  BY <1>1, <1>3 DEF ToHex
<1>5. ASSUME NEW i \in 1..(2 * n)
      PROVE  \E b \in 1..n : i = 2 * b - 1 \/ i = 2 * b
  <2>1. (i + 1) \div 2 \in 1..n
        /\ (i = 2 * ((i + 1) \div 2) - 1 \/ i = 2 * ((i + 1) \div 2))
    OBVIOUS
  <2> QED
    BY <2>1
<1>6. \A i \in 1..(2 * n) : ToHex(bytes)[i] \in Digits
  BY <1>2, <1>4, <1>5
<1>7. ToHex(bytes) \in [1..(2 * n) -> Digits]
  BY <1>1, <1>6 DEF ToHex
<1> QED
  BY <1>4, <1>7

\* The text of a key.
LEMMA TextOfKey ==
    ASSUME NEW k \in Keys
    PROVE  /\ CDataToString(k) \in [1..(2 * KeySize) -> {"0", "A"}]
           /\ CDataToString(k) \in [1..(2 * KeySize) -> Chars]
           /\ ToLower(CDataToString(k)) = ToHex(k)
           /\ CDataToString(k) # <<>>
           /\ Len(CDataToString(k)) = 2 * KeySize
<1>1. KeySize \in Nat \ {0}
  BY SizesAssumption
<1>2. ToHex(k) \in [1..(2 * KeySize) -> Digits]
  BY <1>1, HexOfBytes DEF Keys
<1>3. Len(ToHex(k)) = 2 * KeySize
  BY <1>1, <1>2
<1>4. CDataToString(k) \in [1..(2 * KeySize) -> {"0", "A"}]
  BY <1>2, <1>3 DEF CDataToString, ToUpper, Digits
<1>5. Len(CDataToString(k)) = 2 * KeySize
  BY <1>1, <1>4
<1>6. ToLower(CDataToString(k)) = ToHex(k)
  BY <1>1, <1>2, <1>3, <1>5 DEF CDataToString, ToUpper, ToLower, Digits
<1> QED
  BY <1>1, <1>4, <1>5, <1>6 DEF Chars, Digits

\* A key comes back from its text as the same bytes.
LEMMA RoundTrip ==
    ASSUME NEW k \in Keys
    PROVE  FromString(CDataToString(k)) = k
<1> DEFINE t == ToHex(k)
<1>1. KeySize \in Nat \ {0} /\ k \in [1..KeySize -> Byte]
  BY SizesAssumption DEF Keys
<1>2. /\ t \in [1..(2 * KeySize) -> Digits]
      /\ \A b \in 1..KeySize : t[2 * b - 1] = k[b][1] /\ t[2 * b] = k[b][2]
  BY <1>1, HexOfBytes
<1>3. t \in [1..(2 * KeySize) -> Chars]
  BY <1>2 DEF Chars
<1> HIDE DEF t
<1>4. Cardinality(DigitPlaces(t)) = 2 * KeySize
  <2>1. Len(t) = 2 * KeySize
    BY <1>1, <1>2
  <2>2. DigitPlaces(t) = 1..(2 * KeySize)
    BY <1>2, <2>1 DEF DigitPlaces, IsDigit
  <2>3. 2 * KeySize \in Nat
    BY <1>1
  <2> QED
    BY <2>2, <2>3, UpTo
<1>5. DOMAIN FromHex(t) = 1..KeySize
  <2> DEFINE n == 2 * KeySize
  <2>1. n \in Nat /\ t \in [1..n -> Chars]
    BY <1>1, <1>3
  <2> HIDE DEF n
  <2>2. DOMAIN FromHex(t) = 1..((Cardinality(DigitPlaces(t)) + 1) \div 2)
    BY <2>1, LengthOfBytes
  <2>3. (2 * KeySize + 1) \div 2 = KeySize
    BY <1>1
  <2> QED
    BY <1>4, <2>2, <2>3
<1>6. \A b \in 1..KeySize : FromHex(t)[b] = <<t[2 * b - 1], t[2 * b]>>
  <2> DEFINE n == 2 * KeySize
  <2>1. n \in Nat /\ KeySize \in Nat /\ 2 * KeySize <= n
        /\ Cardinality(DigitPlaces(t)) % 2 = 0
    BY <1>1, <1>4
  <2>2. t \in [1..n -> Chars] /\ \A i \in 1..(2 * KeySize) : t[i] \in Digits
    BY <1>2, <1>3
  <2> HIDE DEF n
  <2> QED
    BY <2>1, <2>2, DecodesPrefix
<1>7. \A b \in 1..KeySize : FromHex(t)[b] = k[b]
  <2>1. \A b \in 1..KeySize : k[b] = <<k[b][1], k[b][2]>>
    BY <1>1 DEF Byte
  <2> QED
    BY <1>2, <1>6, <2>1
<1>8. FromHex(t) = k
  <2>1. FromHex(t) = [b \in DOMAIN FromHex(t) |-> FromHex(t)[b]]
    BY DEF FromHex
  <2> QED
    BY <1>1, <1>5, <1>7, <2>1
<1> QED
  BY <1>8, TextOfKey DEF FromString, t

LEMMA LeftOfText ==
    ASSUME NEW n \in Nat, NEW text \in [1..n -> Chars], NEW m \in Nat
    PROVE  /\ Left(text, m) \in [1..(IF m <= n THEN m ELSE n) -> Chars]
           /\ Len(Left(text, m)) = IF m <= n THEN m ELSE n
           /\ \A i \in 1..n : i <= m => Left(text, m)[i] = text[i]
<1> DEFINE e == IF m <= n THEN m ELSE n
<1>1. text \in Seq(Chars) /\ Len(text) = n /\ e \in 0..n
  OBVIOUS
<1>2. Left(text, m) = SubSeq(text, 1, e)
  BY <1>1 DEF Left
<1> HIDE DEF e
<1>3. \A i \in 1..e : text[i] \in Chars
  BY <1>1
<1>4. /\ SubSeq(text, 1, e) \in Seq(Chars)
      /\ Len(SubSeq(text, 1, e)) = e
      /\ \A i \in 1..e : SubSeq(text, 1, e)[i] = text[i]
  BY <1>1, <1>3, SubSeqProperties
<1>5. SubSeq(text, 1, e) \in [1..e -> Chars]
  <2> DEFINE u == SubSeq(text, 1, e)
  <2> HIDE DEF u
  <2>1. u \in Seq(Chars) /\ Len(u) = e
    BY <1>4 DEF u
  <2>2. u \in [1..Len(u) -> Chars]
    BY <2>1, LenProperties
  <2> QED
    BY <2>1, <2>2 DEF u
<1>6. \A i \in 1..n : i <= m => i \in 1..e
  BY DEF e
<1> QED
  BY <1>2, <1>4, <1>5, <1>6 DEF e

LEMMA LeftOfLonger ==
    ASSUME NEW n \in Nat, NEW text \in [1..n -> Chars], NEW m \in 0..n
    PROVE  /\ Left(text, m) \in [1..m -> Chars]
           /\ Len(Left(text, m)) = m
           /\ \A i \in 1..m : Left(text, m)[i] = text[i]
<1>1. m \in Nat /\ (IF m <= n THEN m ELSE n) = m
  OBVIOUS
<1>2. \A i \in 1..m : i \in 1..n /\ i <= m
  OBVIOUS
<1> QED
  BY <1>1, <1>2, LeftOfText

\* The key that tox reads of an aligned text is the one of its beginning.
LEMMA AlignedNamesKey ==
    ASSUME NEW n \in Nat, NEW text \in [1..n -> Chars], Aligned(text),
           NEW k \in Keys,
           \A b \in 1..KeySize \cap DOMAIN FromString(text) :
              k[b] = FromString(text)[b]
    PROVE  CDataToString(k) = ToUpper(UserId(text))
<1> DEFINE t == ToLower(text)
<1>1. KeySize \in Nat \ {0} /\ k \in [1..KeySize -> Byte]
  BY SizesAssumption DEF Keys
<1>2. Len(text) = n /\ 2 * KeySize <= n
  BY <1>1 DEF Aligned
<1>3. /\ t \in [1..n -> Chars]
      /\ \A i \in 1..n : t[i] \in Digits <=> text[i] # "x"
  BY Cases
<1> HIDE DEF t
<1>4. DigitPlaces(t) = {i \in 1..Len(text) : text[i] # "x"}
  <2>1. Len(t) = n
    BY <1>3
  <2> QED
    BY <1>2, <1>3, <2>1 DEF DigitPlaces, IsDigit
<1>5. Cardinality(DigitPlaces(t)) % 2 = 0
  BY <1>4 DEF Aligned
<1>6. \A i \in 1..(2 * KeySize) : t[i] \in Digits
  BY <1>1, <1>2, <1>3 DEF Aligned
<1>7. /\ 1..KeySize \subseteq DOMAIN FromHex(t)
      /\ \A b \in 1..KeySize : FromHex(t)[b] = <<t[2 * b - 1], t[2 * b]>>
  BY <1>1, <1>2, <1>3, <1>5, <1>6, DecodesPrefix
<1>8. FromString(text) = FromHex(t)
  BY DEF FromString, t
<1>9. \A b \in 1..KeySize : k[b] = <<t[2 * b - 1], t[2 * b]>>
  BY <1>7, <1>8
<1>10. /\ ToHex(k) \in [1..(2 * KeySize) -> Digits]
       /\ \A b \in 1..KeySize : ToHex(k)[2 * b - 1] = k[b][1] /\ ToHex(k)[2 * b] = k[b][2]
  BY <1>1, HexOfBytes
<1>11. ASSUME NEW i \in 1..(2 * KeySize)
       PROVE  ToHex(k)[i] = t[i]
  <2>1. PICK b \in 1..KeySize : i = 2 * b - 1 \/ i = 2 * b
    <3>1. (i + 1) \div 2 \in 1..KeySize
          /\ (i = 2 * ((i + 1) \div 2) - 1 \/ i = 2 * ((i + 1) \div 2))
      BY <1>1
    <3> QED
      BY <3>1
  <2>2. ToHex(k)[2 * b - 1] = t[2 * b - 1] /\ ToHex(k)[2 * b] = t[2 * b]
    BY <1>9, <1>10
  <2> QED
    BY <2>1, <2>2
<1>12. /\ UserId(text) \in [1..(2 * KeySize) -> Chars]
       /\ \A i \in 1..(2 * KeySize) : UserId(text)[i] = text[i]
  BY <1>1, <1>2, LeftOfText DEF UserId
<1>13. \A i \in 1..(2 * KeySize) :
         (IF t[i] = "a" THEN "A" ELSE t[i]) = (IF text[i] = "a" THEN "A" ELSE text[i])
  <2>1. \A i \in 1..n : t[i] = IF text[i] = "A" THEN "a" ELSE text[i]
    BY <1>2 DEF t, ToLower
  <2> QED
    BY <1>1, <1>2, <2>1
<1>14. Len(ToHex(k)) = 2 * KeySize /\ Len(UserId(text)) = 2 * KeySize
  BY <1>1, <1>10, <1>12
<1> QED
  BY <1>11, <1>12, <1>13, <1>14 DEF CDataToString, ToUpper

-----------------------------------------------------------------------------
(* The invariant                                                           *)

\* The label shows the key of the request.
ShownIsRequester ==
    \/ requester = {} /\ shown = <<>>
    \/ \E k \in Keys : requester = {k} /\ shown = CDataToString(k)

ResultType ==
    /\ Len(result.user) <= 2 * KeySize
    /\ result.success \in BOOLEAN /\ result.aligned \in BOOLEAN

BufferType ==
    /\ buffer.allocated \in 0..(2 * AddressSize + 1)
    /\ buffer.written \in 0..AddressSize

IInv == /\ friends \in SUBSET Keys
        /\ ShownIsRequester
        /\ ResultType /\ ReportNamesFriend
        /\ BufferType /\ WrittenFits

LEMMA AlignedType == \A text : Aligned(text) \in BOOLEAN
  BY DEF Aligned

LEMMA ResultAfter ==
    ASSUME NEW user, NEW success \in BOOLEAN, NEW text,
           Len(user) <= 2 * KeySize, Emit(user, success, text)
    PROVE  /\ ResultType' /\ ShownIsRequester'
           /\ result'.user = user /\ result'.success = success
           /\ result'.aligned = Aligned(text)
  BY AlignedType DEF Emit, ResultType, ShownIsRequester

LEMMA NoReport ==
    ASSUME result' = NoResult
    PROVE  ResultType' /\ ReportNamesFriend'
<1>1. 0 <= 2 * KeySize
  BY SizesAssumption
<1> QED
  BY <1>1 DEF ResultType, ReportNamesFriend, NoResult

\* What fromString writes of a text into the buffer made for it.
LEMMA BufferAfter ==
    ASSUME NEW n \in Nat, NEW text \in [1..n -> Chars],
           NEW size \in Nat, n <= 2 * size, size <= 2 * AddressSize,
           NEW written \in Nat, written <= AddressSize, written <= size + 1,
           Len(FromString(text)) <= written,
           buffer' = Filled(text, size)
    PROVE  BufferType' /\ WrittenFits'
<1>1. Len(FromString(text)) \in Nat
  BY Cases, LengthOfBytes DEF FromString
<1>2. AddressSize \in Nat
  BY SizesAssumption
<1>3. buffer'.allocated = size + 1 /\ buffer'.written = Len(FromString(text))
  BY DEF Filled
<1> QED
  BY <1>1, <1>2, <1>3 DEF BufferType, WrittenFits

LEMMA InitIInv == Init => IInv
<1> SUFFICES ASSUME Init PROVE IInv
  OBVIOUS
<1>1. KeySize \in Nat /\ AddressSize \in Nat
  BY SizesAssumption
<1>2. ResultType /\ ReportNamesFriend
  BY <1>1 DEF Init, NoResult, ResultType, ReportNamesFriend
<1>3. BufferType /\ WrittenFits
  BY <1>1 DEF Init, BufferType, WrittenFits
<1> QED
  BY <1>2, <1>3 DEF Init, IInv, ShownIsRequester

\* The bytes of a key leave nothing of the buffer to chance.
LEMMA ReadableOfKey ==
    ASSUME NEW k \in Keys, NEW text, FromString(text) = k,
           NEW l \in Readable(text, Keys)
    PROVE  l = k
<1>1. l \in Keys /\ \A i \in DOMAIN l \cap DOMAIN k : l[i] = k[i]
  BY DEF Readable
<1>2. DOMAIN l = 1..KeySize /\ DOMAIN k = 1..KeySize
  BY <1>1 DEF Keys
<1>3. \A i \in 1..KeySize : l[i] = k[i]
  BY <1>1, <1>2
<1>4. l = [i \in 1..KeySize |-> l[i]] /\ k = [i \in 1..KeySize |-> k[i]]
  BY <1>1 DEF Keys
<1>5. [i \in 1..KeySize |-> l[i]] = [i \in 1..KeySize |-> k[i]]
  BY <1>3
<1> QED
  BY <1>4, <1>5, Zenon

\* A request shown is of one key, and accepting adds that key or none.
LEMMA AcceptedIsRequester ==
    ASSUME ShownIsRequester, AcceptFriendRequest
    PROVE  \E k \in Keys :
              /\ requester = {k} /\ shown = CDataToString(k)
              /\ \/ friends' = friends \cup {k} /\ Emit(shown, TRUE, shown)
                 \/ UNCHANGED friends /\ Emit(shown, FALSE, shown)
              /\ buffer' = Filled(shown, UserIdBytes(shown))
<1>1. PICK k \in Keys : requester = {k} /\ shown = CDataToString(k)
  BY DEF ShownIsRequester, AcceptFriendRequest
<1>2. FromString(shown) = k
  BY <1>1, RoundTrip
<1>3. PICK l \in Readable(shown, Keys) :
        \/ friends' = friends \cup {l} /\ Emit(shown, TRUE, shown)
        \/ UNCHANGED friends /\ Emit(shown, FALSE, shown)
  BY DEF AcceptFriendRequest
<1>4. l = k
  BY <1>2, <1>3, ReadableOfKey
<1> QED
  BY <1>1, <1>3, <1>4 DEF AcceptFriendRequest

LEMMA AcceptStep == ASSUME IInv, AcceptFriendRequest PROVE IInv'
<1>1. PICK k \in Keys :
        /\ requester = {k} /\ shown = CDataToString(k)
        /\ \/ friends' = friends \cup {k} /\ Emit(shown, TRUE, shown)
           \/ UNCHANGED friends /\ Emit(shown, FALSE, shown)
        /\ buffer' = Filled(shown, UserIdBytes(shown))
  BY AcceptedIsRequester DEF IInv
<1>2. /\ KeySize \in Nat \ {0} /\ AddressSize \in Nat /\ AddressSize > KeySize
  BY SizesAssumption
<1>3. /\ shown \in [1..(2 * KeySize) -> {"0", "A"}]
      /\ shown \in [1..(2 * KeySize) -> Chars]
      /\ Len(shown) = 2 * KeySize
  BY <1>1, TextOfKey
<1>4. 2 * KeySize <= 2 * KeySize /\ 2 * KeySize \in Nat
  BY <1>2
<1>5. /\ ResultType' /\ ShownIsRequester'
      /\ result'.user = shown
      /\ result'.success => friends' = friends \cup {k}
  <2>1. Len(shown) <= 2 * KeySize
    BY <1>3, <1>4
  <2> QED
    BY <1>1, <2>1, ResultAfter
<1>6. ReportNamesFriend'
  <2>1. ToUpper(shown) = shown
    BY <1>3 DEF ToUpper
  <2> QED
    BY <1>1, <1>5, <2>1 DEF ReportNamesFriend
<1>7. BufferType' /\ WrittenFits'
  <2>1. UserIdBytes(shown) = 2 * KeySize
    BY <1>2, <1>3 DEF UserIdBytes
  <2>2. Len(FromString(shown)) = KeySize
    <3>1. FromString(shown) = k
      BY <1>1, RoundTrip
    <3> QED
      BY <1>2, <3>1 DEF Keys
  <2>3. /\ 2 * KeySize <= 2 * (2 * KeySize) /\ 2 * KeySize <= 2 * AddressSize
        /\ KeySize \in Nat /\ KeySize <= AddressSize /\ KeySize <= 2 * KeySize + 1
    BY <1>2
  <2>4. buffer' = Filled(shown, 2 * KeySize)
    BY <1>1, <2>1
  <2>5. Len(FromString(shown)) <= KeySize
    BY <2>2, <2>3
  <2> QED
    BY <1>3, <1>4, <2>3, <2>4, <2>5, BufferAfter
<1>8. friends' \in SUBSET Keys
  BY <1>1 DEF IInv
<1> QED
  BY <1>5, <1>6, <1>7, <1>8 DEF IInv

LEMMA RequestStep ==
    ASSUME IInv, NEW k \in Keys, FriendRequestReceived(k)
    PROVE  IInv'
<1>1. ResultType' /\ ReportNamesFriend'
  BY NoReport DEF FriendRequestReceived
<1>2. ShownIsRequester'
  BY DEF FriendRequestReceived, ShownIsRequester
<1> QED
  BY <1>1, <1>2 DEF IInv, FriendRequestReceived, BufferType, WrittenFits

\* What the address field holds, and the user id that the report takes of it.
LEMMA TextOfField ==
    ASSUME NEW text \in AddressTexts
    PROVE  \E n \in 0..(2 * AddressSize) :
              /\ n \in Nat /\ text \in [1..n -> Chars]
              /\ Len(UserId(text)) <= 2 * KeySize
<1>1. KeySize \in Nat /\ AddressSize \in Nat
  BY SizesAssumption
<1>2. PICK n \in 0..(2 * AddressSize) : text \in [1..n -> Chars]
  BY DEF AddressTexts, FieldLimit
<1>3. n \in Nat /\ 2 * KeySize \in Nat
  BY <1>1
<1>4. Len(UserId(text)) = IF 2 * KeySize <= n THEN 2 * KeySize ELSE n
  BY <1>2, <1>3, LeftOfText DEF UserId
<1> QED
  BY <1>1, <1>2, <1>3, <1>4

LEMMA AlreadySentStep ==
    ASSUME IInv, NEW text \in AddressTexts, AlreadySent(text)
    PROVE  IInv'
<1>1. Len(UserId(text)) <= 2 * KeySize
  BY TextOfField
<1>2. /\ Emit(UserId(text), FALSE, text)
      /\ UNCHANGED <<friends, buffer>>
  BY DEF AlreadySent
<1>3. ResultType' /\ ShownIsRequester' /\ result'.success = FALSE
  BY <1>1, <1>2, ResultAfter
<1> QED
  BY <1>2, <1>3 DEF IInv, ReportNamesFriend, BufferType, WrittenFits

LEMMA SendStep ==
    ASSUME IInv, NEW text \in AddressTexts, SendFriendRequest(text)
    PROVE  IInv'
<1>1. /\ KeySize \in Nat \ {0} /\ AddressSize \in Nat /\ AddressSize > KeySize
      /\ ValidAddresses \subseteq Addresses
  BY SizesAssumption
<1>2. PICK n \in 0..(2 * AddressSize) :
        /\ n \in Nat /\ text \in [1..n -> Chars]
        /\ Len(UserId(text)) <= 2 * KeySize
  BY TextOfField
<1>3. PICK address \in Readable(text, Addresses), ok \in BOOLEAN :
        /\ ok => KeyOf(address) \notin friends
        /\ friends' = IF ok THEN friends \cup {KeyOf(address)} ELSE friends
        /\ Emit(UserId(text), ok, text)
  BY DEF SendFriendRequest
<1>4. /\ address \in [1..AddressSize -> Byte]
      /\ \A i \in DOMAIN address \cap DOMAIN FromString(text) :
            address[i] = FromString(text)[i]
  BY <1>3 DEF Readable, Addresses
<1>5. /\ KeyOf(address) \in Keys
      /\ \A b \in 1..KeySize \cap DOMAIN FromString(text) :
            KeyOf(address)[b] = FromString(text)[b]
  BY <1>1, <1>4 DEF KeyOf, Keys
<1>6. /\ ResultType' /\ ShownIsRequester'
      /\ result'.user = UserId(text) /\ result'.success = ok
      /\ result'.aligned = Aligned(text)
  BY <1>2, <1>3, ResultAfter
<1>7. ReportNamesFriend'
  <2> SUFFICES ASSUME result'.success, result'.aligned
               PROVE  \E k \in friends' : CDataToString(k) = ToUpper(result'.user)
    BY DEF ReportNamesFriend
  <2>1. CDataToString(KeyOf(address)) = ToUpper(UserId(text))
    BY <1>2, <1>5, <1>6, AlignedNamesKey
  <2> QED
    BY <1>3, <1>6, <2>1
<1>8. BufferType' /\ WrittenFits'
  <2>1. Len(FromString(text)) <= AddressSize
    <3>1. ToLower(text) \in [1..n -> Chars]
      BY <1>2, Cases
    <3>2. Len(FromHex(ToLower(text))) \in 0..AddressSize
      BY <1>1, <1>2, <3>1, LengthOfBytes
    <3> QED
      BY <3>2 DEF FromString
  <2>2. buffer' = Filled(text, AddressSize)
    BY DEF SendFriendRequest
  <2>3. /\ n <= 2 * AddressSize /\ AddressSize <= 2 * AddressSize
        /\ AddressSize <= AddressSize /\ AddressSize <= AddressSize + 1
    BY <1>1, <1>2
  <2> QED
    BY <1>1, <1>2, <2>1, <2>2, <2>3, BufferAfter
<1>9. friends' \in SUBSET Keys
  BY <1>3, <1>5 DEF IInv
<1> QED
  BY <1>6, <1>7, <1>8, <1>9 DEF IInv

LEMMA StepIInv == IInv /\ [Next]_vars => IInv'
<1> SUFFICES ASSUME IInv, [Next]_vars PROVE IInv'
  OBVIOUS
<1>1. CASE Next
  BY <1>1, RequestStep, AcceptStep, AlreadySentStep, SendStep DEF Next
<1>2. CASE UNCHANGED vars
  BY <1>2 DEF vars, IInv, ShownIsRequester, ResultType, BufferType,
              ReportNamesFriend, WrittenFits
<1> QED
  BY <1>1, <1>2

LEMMA AlwaysIInv == Spec => []IInv
<1> QED
  BY InitIInv, StepIInv, PTL DEF Spec

-----------------------------------------------------------------------------
(* Theorems                                                                *)

\* Friends are keys, the label shows the text of one or nothing, and what is
\* written to a buffer is counted within its limits.
THEOREM TypeCorrect == Spec => []TypeOK
<1>1. IInv => TypeOK
  <2> SUFFICES ASSUME IInv PROVE TypeOK
    OBVIOUS
  <2>1. \/ requester = {} /\ shown = <<>>
        \/ /\ \E k \in Keys : requester = {k}
           /\ shown \in [1..(2 * KeySize) -> {"0", "A"}]
    BY TextOfKey DEF IInv, ShownIsRequester
  <2> QED
    BY <2>1 DEF IInv, ResultType, BufferType, TypeOK
<1> QED
  BY <1>1, AlwaysIInv, PTL

\* A success is reported under the name of somebody tox has as a friend, for
\* every text whose digits are not shifted by characters that are none.
THEOREM ReportIsOfFriend == Spec => []ReportNamesFriend
<1>1. IInv => ReportNamesFriend
  BY DEF IInv
<1> QED
  BY <1>1, AlwaysIInv, PTL

\* No text that the field or the label can hold is written past its buffer.
THEOREM NothingPastBuffer == Spec => []WrittenFits
<1>1. IInv => WrittenFits
  BY DEF IInv
<1> QED
  BY <1>1, AlwaysIInv, PTL

\* An address of a friend, in either case.
LEMMA CheckOfAddress ==
    ASSUME NEW k \in Keys, k \in friends, NEW text \in [1..(2 * AddressSize) -> Chars],
           \A i \in 1..(2 * KeySize) :
              text[i] \in {CDataToString(k)[i], ToLower(CDataToString(k))[i]}
    PROVE  HasFriendWithAddress(text)
<1>1. /\ KeySize \in Nat \ {0} /\ AddressSize \in Nat /\ AddressSize > KeySize
  BY SizesAssumption
<1>2. 2 * AddressSize \in Nat /\ 2 * KeySize \in Nat /\ 2 * KeySize <= 2 * AddressSize
  BY <1>1
<1>3. Len(text) = 2 * AddressSize
  BY <1>2
<1>4. /\ UserId(text) \in [1..(2 * KeySize) -> Chars]
      /\ Len(UserId(text)) = 2 * KeySize
      /\ \A i \in 1..(2 * KeySize) : UserId(text)[i] = text[i]
  <2> DEFINE n == 2 * AddressSize
             m == 2 * KeySize
  <2>1. UserId(text) = Left(text, m)
    BY DEF UserId
  <2>2. n \in Nat /\ m \in 0..n /\ text \in [1..n -> Chars]
    BY <1>2
  <2> HIDE DEF n, m
  <2>3. /\ Left(text, m) \in [1..m -> Chars]
        /\ Len(Left(text, m)) = m
        /\ \A i \in 1..m : Left(text, m)[i] = text[i]
    BY <2>2, LeftOfLonger, Zenon
  <2> QED
    BY <2>1, <2>3 DEF m
<1> DEFINE t == CDataToString(k)
<1>5. t \in [1..(2 * KeySize) -> {"0", "A"}] /\ Len(t) = 2 * KeySize
  BY TextOfKey
<1> HIDE DEF t
<1>6. \A i \in 1..(2 * KeySize) :
         text[i] \in {t[i], IF t[i] = "A" THEN "a" ELSE t[i]}
  BY <1>5 DEF t, ToLower
<1>7. ToUpper(t) = ToUpper(UserId(text))
  BY <1>4, <1>5, <1>6 DEF ToUpper
<1>8. HasFriendWithPublicKey(UserId(text))
  BY <1>4, <1>7 DEF HasFriendWithPublicKey, t
<1> QED
  BY <1>3, <1>8 DEF HasFriendWithAddress

\* The check of the client finds every friend by any of its addresses.
THEOREM FriendsAreFound == Spec => []CheckFindsFriend
<1>1. IInv => CheckFindsFriend
  <2> SUFFICES ASSUME IInv,
                      NEW k \in friends,
                      NEW rest \in [1..(2 * (AddressSize - KeySize)) -> Digits],
                      NEW lower \in BOOLEAN
               PROVE  HasFriendWithAddress(IF lower THEN ToLower(CDataToString(k) \o rest)
                                           ELSE CDataToString(k) \o rest)
    BY DEF CheckFindsFriend
  <2> DEFINE t == CDataToString(k)
             text == t \o rest
  <2>1. k \in Keys
    BY DEF IInv
  <2>2. /\ KeySize \in Nat \ {0} /\ AddressSize \in Nat /\ AddressSize > KeySize
    BY SizesAssumption
  <2>3. t \in [1..(2 * KeySize) -> Chars] /\ Len(t) = 2 * KeySize
    BY <2>1, TextOfKey
  <2> HIDE DEF t
  <2>4. text \in [1..(2 * AddressSize) -> Chars]
        /\ \A i \in 1..(2 * KeySize) : text[i] = t[i]
    <3>1. Len(rest) = 2 * (AddressSize - KeySize)
      BY <2>2
    <3>2. t \in Seq(Chars) /\ rest \in Seq(Chars)
      BY <2>2, <2>3 DEF Chars
    <3>3. /\ text \in Seq(Chars) /\ Len(text) = 2 * AddressSize
          /\ \A i \in 1..(2 * KeySize) : text[i] = t[i]
      BY <2>2, <2>3, <3>1, <3>2
    <3> HIDE DEF text
    <3>4. text \in [1..Len(text) -> Chars]
      BY <3>3, LenProperties
    <3> QED
      BY <3>3, <3>4
  <2>5. HasFriendWithAddress(text)
    BY <2>1, <2>4, CheckOfAddress DEF t
  <2> HIDE DEF text
  <2>6. HasFriendWithAddress(ToLower(text))
    <3>1. ToLower(text) \in [1..(2 * AddressSize) -> Chars]
      <4>1. 2 * AddressSize \in Nat
        BY <2>2
      <4> QED
        BY <2>4, <4>1, Cases
    <3>2. \A i \in 1..(2 * KeySize) : ToLower(text)[i] = ToLower(t)[i]
      BY <2>2, <2>3, <2>4 DEF ToLower
    <3> QED
      BY <2>1, <3>1, <3>2, CheckOfAddress DEF t
  <2> QED
    BY <2>5, <2>6 DEF text, t
<1> QED
  BY <1>1, AlwaysIInv, PTL

\* Accepting a request adds the key that sent it and no other, and has added
\* it when it reports success.
THEOREM AcceptedIsSender == Spec => RequesterIsAdded
<1>1. IInv /\ [Next]_vars =>
        [AcceptFriendRequest =>
           /\ friends' # friends => friends' = friends \cup requester
           /\ result'.success => requester \subseteq friends']_vars
  <2> SUFFICES ASSUME IInv, AcceptFriendRequest
               PROVE  /\ friends' # friends => friends' = friends \cup requester
                      /\ result'.success => requester \subseteq friends'
    OBVIOUS
  <2>1. PICK k \in Keys :
          /\ requester = {k}
          /\ \/ friends' = friends \cup {k} /\ Emit(shown, TRUE, shown)
             \/ UNCHANGED friends /\ Emit(shown, FALSE, shown)
    BY AcceptedIsRequester DEF IInv
  <2>2. CASE friends' = friends \cup {k}
    BY <2>1, <2>2
  <2>3. CASE UNCHANGED friends /\ Emit(shown, FALSE, shown)
    <3>1. ~result'.success
      BY <2>3 DEF Emit
    <3> QED
      BY <2>3, <3>1
  <2> QED
    BY <2>1, <2>2, <2>3
<1> QED
  BY <1>1, AlwaysIInv, PTL DEF Spec, RequesterIsAdded
=============================================================================
