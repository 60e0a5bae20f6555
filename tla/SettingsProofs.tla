--------------------------- MODULE SettingsProofs ---------------------------
(***************************************************************************)
(* Proofs about Settings, for all texts and limits.  What the page shows   *)
(* and what a save makes of it rest on three facts of CString: a cut       *)
(* leaves a beginning, a text has at most three bytes a unit (so none from *)
(* a field wraps the 16-bit size), and at most one unit a byte (so all     *)
(* that comes back fits the field).                                        *)
(***************************************************************************)
EXTENDS Settings, FiniteSetTheorems, SequenceTheorems, TLAPS

-----------------------------------------------------------------------------
(* Texts, of CString.  What is counted is a finite set, the places that the  *)
(* characters of a text take, so that no proof needs induction; the            *)
(* beginnings that are small enough are those up to some length.               *)

Measures == [Chars -> 1 .. 4]

\* Total counts them.
Places(measure, text) ==
    {b \in (1..Len(text)) \X (1..4) : b[2] <= measure[text[b[1]]]}

LEMMA UpTo ==
    ASSUME NEW n \in Nat
    PROVE  IsFiniteSet(1 .. n) /\ Cardinality(1 .. n) = n
<1>1. 1 \in Int /\ n \in Int
  OBVIOUS
<1>2. IsFiniteSet(1 .. n) /\ Cardinality(1 .. n) = IF 1 > n THEN 0 ELSE n - 1 + 1
  BY <1>1, FS_Interval, Zenon
<1> QED
  BY <1>2

LEMMA DisjointUnion ==
    ASSUME NEW S, NEW T, IsFiniteSet(S), IsFiniteSet(T), S \cap T = {}
    PROVE  /\ IsFiniteSet(S \cup T)
           /\ Cardinality(S \cup T) = Cardinality(S) + Cardinality(T)
<1>1. Cardinality(S \cap T) = 0
  BY FS_EmptySet
<1>2. Cardinality(S) \in Nat /\ Cardinality(T) \in Nat
  BY FS_CardinalityType
<1>3. /\ IsFiniteSet(S \cup T)
      /\ Cardinality(S \cup T) =
           Cardinality(S) + Cardinality(T) - Cardinality(S \cap T)
  BY FS_Union, Zenon
<1> QED
  BY <1>1, <1>2, <1>3

LEMMA MeasuresType == Width \in Measures /\ Units \in Measures
<1>1. \A c \in Chars : Width[c] \in 1 .. 4 /\ Units[c] \in 1 .. 4
  BY DEF Width, Units, Chars, Letters
<1> QED
  BY <1>1 DEF Measures, Width, Units

LEMMA LettersAreChars ==
    ASSUME NEW text \in Seq(Letters)
    PROVE  text \in Seq(Chars)
  BY DEF Chars

LEMMA Prefix ==
    ASSUME NEW text \in Seq(Chars), NEW i \in 0 .. Len(text)
    PROVE  /\ SubSeq(text, 1, i) \in Seq(Chars)
           /\ Len(SubSeq(text, 1, i)) = i
           /\ \A h \in 1 .. i : SubSeq(text, 1, i)[h] = text[h]
<1>1. \A h \in 1 .. i : text[h] \in Chars
  OBVIOUS
<1> QED
  BY <1>1, SubSeqProperties

LEMMA TotalType ==
    ASSUME NEW text \in Seq(Chars), NEW measure \in Measures
    PROVE  /\ IsFiniteSet(Places(measure, text))
           /\ Total(measure, text) = Cardinality(Places(measure, text))
           /\ Total(measure, text) \in Nat
<1>1. IsFiniteSet(1 .. Len(text)) /\ IsFiniteSet(1 .. 4)
  <2>1. Len(text) \in Nat /\ 4 \in Nat
    OBVIOUS
  <2> QED
    BY <2>1, UpTo, Zenon
<1>2. IsFiniteSet((1 .. Len(text)) \X (1 .. 4))
  BY <1>1, FS_Product
<1>3. IsFiniteSet(Places(measure, text))
  BY <1>2, FS_Subset DEF Places
<1> QED
  BY <1>3, FS_CardinalityType DEF Total, Places

\* The places of a beginning are those of the text in it.
LEMMA PrefixPlaces ==
    ASSUME NEW text \in Seq(Chars), NEW measure \in Measures,
           NEW i \in 0 .. Len(text)
    PROVE  Places(measure, SubSeq(text, 1, i)) =
             {b \in (1..i) \X (1..4) : b[2] <= measure[text[b[1]]]}
  BY Prefix DEF Places

LEMMA TotalGrows ==
    ASSUME NEW text \in Seq(Chars), NEW measure \in Measures,
           NEW i \in 0 .. Len(text), NEW h \in 0 .. i
    PROVE  Total(measure, SubSeq(text, 1, h)) <= Total(measure, SubSeq(text, 1, i))
<1>1. Places(measure, SubSeq(text, 1, h)) \subseteq Places(measure, SubSeq(text, 1, i))
  BY PrefixPlaces
<1>2. SubSeq(text, 1, h) \in Seq(Chars) /\ SubSeq(text, 1, i) \in Seq(Chars)
  BY Prefix
<1> DEFINE low == Places(measure, SubSeq(text, 1, h))
           high == Places(measure, SubSeq(text, 1, i))
<1>3. /\ IsFiniteSet(high)
      /\ Total(measure, SubSeq(text, 1, h)) = Cardinality(low)
      /\ Total(measure, SubSeq(text, 1, i)) = Cardinality(high)
  BY <1>2, TotalType
<1> HIDE DEF low, high
<1>4. low \subseteq high => Cardinality(low) <= Cardinality(high)
  BY <1>3, FS_Subset
<1> QED
  BY <1>1, <1>3, <1>4 DEF low, high

\* A character adds what it takes.
LEMMA TotalStep ==
    ASSUME NEW text \in Seq(Chars), NEW measure \in Measures,
           NEW i \in 0 .. Len(text) - 1
    PROVE  Total(measure, SubSeq(text, 1, i + 1)) =
             Total(measure, SubSeq(text, 1, i)) + measure[text[i + 1]]
<1> DEFINE k == measure[text[i + 1]]
           old == Places(measure, SubSeq(text, 1, i))
           new == {i + 1} \X (1 .. k)
<1>1. k \in 1 .. 4
  BY DEF Measures
<1>2. Places(measure, SubSeq(text, 1, i + 1)) = old \cup new
  <2>1. Places(measure, SubSeq(text, 1, i + 1)) =
          {b \in (1..i + 1) \X (1..4) : b[2] <= measure[text[b[1]]]}
    BY PrefixPlaces
  <2>2. old = {b \in (1..i) \X (1..4) : b[2] <= measure[text[b[1]]]}
    BY PrefixPlaces
  <2> HIDE DEF old
  <2> QED
    BY <1>1, <2>1, <2>2
<1>3. old \cap new = {}
  BY PrefixPlaces
<1>4. IsFiniteSet(new) /\ Cardinality(new) = k
  <2> DEFINE one  == {i + 1}
             some == 1 .. k
  <2>1. IsFiniteSet(one) /\ Cardinality(one) = 1
    BY FS_Singleton
  <2>2. IsFiniteSet(some) /\ Cardinality(some) = k
    BY <1>1, UpTo
  <2> HIDE DEF one, some
  <2>3. /\ IsFiniteSet(one \X some)
        /\ Cardinality(one \X some) = Cardinality(one) * Cardinality(some)
    BY <2>1, <2>2, FS_Product, Zenon
  <2>4. 1 * k = k
    BY <1>1
  <2> QED
    BY <2>1, <2>2, <2>3, <2>4 DEF one, some
<1>5. /\ IsFiniteSet(old)
      /\ Total(measure, SubSeq(text, 1, i)) = Cardinality(old)
  <2>1. SubSeq(text, 1, i) \in Seq(Chars)
    BY Prefix
  <2> QED
    BY <2>1, TotalType, Zenon
<1>6. Total(measure, SubSeq(text, 1, i + 1)) = Cardinality(old \cup new)
  <2>1. i + 1 \in 0 .. Len(text)
    OBVIOUS
  <2>2. SubSeq(text, 1, i + 1) \in Seq(Chars)
    BY <2>1, Prefix
  <2> QED
    BY <1>2, <2>2, TotalType, Zenon
<1>7. Cardinality(old \cup new) = Cardinality(old) + Cardinality(new)
  BY <1>3, <1>4, <1>5, DisjointUnion, Zenon
<1> QED
  BY <1>4, <1>5, <1>6, <1>7, Zenon

LEMMA TotalOfNothing ==
    ASSUME NEW measure \in Measures, NEW text \in Seq(Chars)
    PROVE  /\ Total(measure, SubSeq(text, 1, 0)) = 0
           /\ text # <<>> => Total(measure, text) # 0
<1>1. Total(measure, SubSeq(text, 1, 0)) = 0
  <2>1. SubSeq(text, 1, 0) \in Seq(Chars)
    BY Prefix
  <2>2. Places(measure, SubSeq(text, 1, 0)) = {}
    BY PrefixPlaces
  <2> QED
    BY <2>1, <2>2, TotalType, FS_EmptySet, Zenon
<1>2. ASSUME text # <<>>
      PROVE  Total(measure, text) # 0
  <2>1. <<1, 1>> \in Places(measure, text)
    BY <1>2 DEF Places, Measures
  <2> QED
    BY <2>1, TotalType, FS_EmptySet, Zenon
<1> QED
  BY <1>1, <1>2

\* The beginnings that take at most n are those up to the longest of them.
LEMMA BeginningIsLongest ==
    ASSUME NEW text \in Seq(Chars), NEW measure \in Measures, NEW n \in Nat
    PROVE  \E w \in 0 .. Len(text) :
             /\ Beginning(measure, text, n) = SubSeq(text, 1, w)
             /\ Total(measure, SubSeq(text, 1, w)) <= n
             /\ w < Len(text) => Total(measure, SubSeq(text, 1, w + 1)) > n
<1> DEFINE T(i) == Total(measure, SubSeq(text, 1, i))
           fit  == {i \in 1 .. Len(text) : T(i) <= n}
           w    == Cardinality(fit)
<1>1. \A i \in 0 .. Len(text) : T(i) \in Nat
  BY Prefix, TotalType
<1>2. \A i \in 0 .. Len(text), h \in 0 .. Len(text) : h <= i => T(h) <= T(i)
  BY TotalGrows
<1>3. T(0) = 0
  BY TotalOfNothing
<1>4. Len(text) \in Nat
  OBVIOUS
<1>5. Beginning(measure, text, n) = SubSeq(text, 1, w)
  BY DEF Beginning
<1> HIDE DEF T
<1>6. IsFiniteSet(1 .. Len(text)) /\ Cardinality(1 .. Len(text)) = Len(text)
  BY <1>4, UpTo, Zenon
<1>7. fit \subseteq 1 .. Len(text)
  OBVIOUS
<1>8. IsFiniteSet(fit) /\ w \in Nat /\ w <= Len(text)
  <2> HIDE DEF fit
  <2>1. IsFiniteSet(fit) /\ Cardinality(fit) <= Cardinality(1 .. Len(text))
    BY <1>6, <1>7, FS_Subset, Zenon
  <2>2. Cardinality(fit) \in Nat
    BY <2>1, FS_CardinalityType, Zenon
  <2> QED
    BY <1>6, <2>1, <2>2
<1>9. ASSUME NEW i \in 1 .. Len(text), T(i) <= n
      PROVE  i <= w
  <2>1. 1 .. i \subseteq fit
    BY <1>1, <1>2, <1>9
  <2> HIDE DEF fit
  <2>2. Cardinality(1 .. i) <= w
    BY <1>8, <2>1, FS_Subset, Zenon
  <2>3. i \in Nat
    OBVIOUS
  <2>4. Cardinality(1 .. i) = i
    BY <2>3, UpTo, Zenon
  <2> QED
    BY <2>2, <2>4
<1>10. ASSUME NEW i \in 1 .. Len(text), ~(T(i) <= n)
       PROVE  w < i
  <2>1. fit \subseteq 1 .. i - 1
    BY <1>1, <1>2, <1>10
  <2> HIDE DEF fit
  <2>2. i - 1 \in Nat
    OBVIOUS
  <2>3. IsFiniteSet(1 .. i - 1) /\ Cardinality(1 .. i - 1) = i - 1
    BY <2>2, UpTo, Zenon
  <2>4. Cardinality(fit) <= Cardinality(1 .. i - 1)
    BY <2>1, <2>3, FS_Subset, Zenon
  <2> QED
    BY <1>8, <2>3, <2>4
<1> HIDE DEF fit
<1> HIDE DEF w
<1>11. w \in 0 .. Len(text)
  BY <1>4, <1>8
<1>12. T(w) <= n
  <2>1. CASE w = 0
    BY <1>3, <2>1
  <2>2. CASE w # 0
    <3>1. w \in 1 .. Len(text)
      BY <1>11, <2>2
    <3>2. ~(w < w)
      BY <1>11
    <3> QED
      BY <3>1, <3>2, <1>10, Zenon
  <2> QED
    BY <2>1, <2>2
<1>13. w < Len(text) => T(w + 1) > n
  <2> SUFFICES ASSUME w < Len(text)
               PROVE  T(w + 1) > n
    OBVIOUS
  <2>1. w + 1 \in 1 .. Len(text) /\ ~(w + 1 <= w) /\ w + 1 \in 0 .. Len(text)
    BY <1>4, <1>11
  <2>2. ~(T(w + 1) <= n)
    BY <2>1, <1>9, Zenon
  <2> QED
    BY <1>1, <2>1, <2>2
<1> QED
  BY <1>5, <1>11, <1>12, <1>13 DEF T

LEMMA BeginningOfAll ==
    ASSUME NEW text \in Seq(Chars), NEW measure \in Measures, NEW n \in Nat,
           Total(measure, text) <= n
    PROVE  Beginning(measure, text, n) = text
<1>1. PICK w \in 0 .. Len(text) :
        /\ Beginning(measure, text, n) = SubSeq(text, 1, w)
        /\ w < Len(text) => Total(measure, SubSeq(text, 1, w + 1)) > n
  BY BeginningIsLongest
<1>2. SubSeq(text, 1, Len(text)) = text
  BY SubSeqFull
<1>3. w = Len(text)
  <2> SUFFICES ASSUME w < Len(text)
               PROVE  FALSE
    OBVIOUS
  <2>1. w + 1 \in 0 .. Len(text) /\ Len(text) \in 0 .. Len(text)
    OBVIOUS
  <2>2. Total(measure, SubSeq(text, 1, w + 1)) <= Total(measure, text)
    BY <1>2, <2>1, TotalGrows
  <2>3. SubSeq(text, 1, w + 1) \in Seq(Chars)
    BY <2>1, Prefix
  <2>4. /\ Total(measure, SubSeq(text, 1, w + 1)) \in Nat
        /\ Total(measure, text) \in Nat
    BY <2>3, TotalType, Zenon
  <2> QED
    BY <1>1, <2>2, <2>4
<1> QED
  BY <1>1, <1>2, <1>3

\* The first n bytes of a text are n bytes, of a beginning of the text and of
\* less than the whole of the character after it.
LEMMA BytesOfText ==
    ASSUME NEW text \in Seq(Letters), NEW n \in Nat, n <= Utf8Size(text)
    PROVE  /\ Bytes(text, n) \in String
           /\ StringSize(Bytes(text, n)) = n
           /\ n = Utf8Size(text) => Bytes(text, n) = Whole(text)
           /\ n < Utf8Size(text) =>
                \E w \in 0 .. Len(text) - 1 :
                  /\ Bytes(text, n).chars = SubSeq(text, 1, w)
                  /\ Bytes(text, n).cut < Width[text[w + 1]]
<1> DEFINE U(i) == Total(Width, SubSeq(text, 1, i))
           kept == Beginning(Width, text, n)
<1> text \in Seq(Chars)
  BY LettersAreChars
<1>1. PICK w \in 0 .. Len(text) :
        /\ kept = SubSeq(text, 1, w)
        /\ U(w) <= n
        /\ w < Len(text) => U(w + 1) > n
  BY BeginningIsLongest, MeasuresType
<1>2. /\ kept \in Seq(Letters)
      /\ U(w) \in Nat /\ Utf8Size(kept) = U(w)
      /\ Utf8Size(text) \in Nat
  <2>1. kept \in Seq(Letters)
    <3>1. \A h \in 1 .. w : text[h] \in Letters
      OBVIOUS
    <3> QED
      BY <1>1, <3>1, SubSeqProperties
  <2>2. kept \in Seq(Chars)
    BY <1>1, Prefix
  <2> QED
    BY <1>1, <2>1, <2>2, TotalType, MeasuresType DEF Utf8Size
<1>3. w < Len(text) => /\ U(w + 1) = U(w) + Width[text[w + 1]]
                       /\ Width[text[w + 1]] \in 1 .. 4
  BY TotalStep, MeasuresType DEF Measures
<1>4. w = Len(text) => kept = text
  BY <1>1, SubSeqFull
<1>5. n = Utf8Size(text) => kept = text
  BY BeginningOfAll, MeasuresType DEF Utf8Size
<1>6. Bytes(text, n) = [chars |-> kept, cut |-> n - U(w)]
  BY <1>2 DEF Bytes
<1> HIDE DEF U, kept
<1>7. w < Len(text) => n - U(w) < Width[text[w + 1]] /\ n - U(w) \in 0 .. 3
  <2>1. \A u \in Nat, d \in 1 .. 4 :
            u <= n /\ n < u + d => n - u < d /\ n - u \in 0 .. 3
    OBVIOUS
  <2>2. w < Len(text) => /\ U(w) <= n /\ n < U(w) + Width[text[w + 1]]
                         /\ Width[text[w + 1]] \in 1 .. 4
    <3>1. \A u, v : u > v => v < u
      OBVIOUS
    <3> QED
      BY <1>1, <1>3, <3>1
  <2>3. U(w) \in Nat
    BY <1>2
  <2> QED
    BY <2>1, <2>2, <2>3, Zenon
<1>8. w = Len(text) => n = Utf8Size(text) /\ n - U(w) = 0
  <2> SUFFICES ASSUME w = Len(text)
               PROVE  n = Utf8Size(text) /\ n - U(w) = 0
    OBVIOUS
  <2>1. Utf8Size(text) = U(w)
    BY <1>2, <1>4, Zenon
  <2> QED
    BY <1>1, <1>2, <2>1
<1>9. n - U(w) \in 0 .. 3
  BY <1>7, <1>8
<1>10. Bytes(text, n) \in String
  BY <1>2, <1>6, <1>9 DEF String
<1>11. StringSize(Bytes(text, n)) = n
  BY <1>2, <1>6 DEF StringSize
<1>12. ASSUME n = Utf8Size(text)
       PROVE  Bytes(text, n) = Whole(text)
  BY <1>2, <1>5, <1>6, <1>12 DEF Whole
<1>13. ASSUME n < Utf8Size(text)
       PROVE  w \in 0 .. Len(text) - 1
  BY <1>8, <1>2, <1>13
<1> QED
  BY <1>1, <1>6, <1>7, <1>10, <1>11, <1>12, <1>13

\* No character takes less of UTF-8 than of UTF-16, or more than three times
\* as much: its bytes map into three times its units.
LEMMA UnitsAndBytes ==
    ASSUME NEW text \in Seq(Chars)
    PROVE  /\ Length(text) <= Utf8Size(text)
           /\ Utf8Size(text) <= 3 * Length(text)
           /\ Length(text) \in Nat /\ Utf8Size(text) \in Nat
<1> DEFINE units == Places(Units, text)
           bytes == Places(Width, text)
           third == [b \in bytes |-> IF b[2] = 4 THEN <<<<b[1], 2>>, 1>>
                                    ELSE <<<<b[1], 1>>, b[2]>>]
<1>1. /\ IsFiniteSet(units) /\ Length(text) = Cardinality(units)
      /\ IsFiniteSet(bytes) /\ Utf8Size(text) = Cardinality(bytes)
      /\ Length(text) \in Nat /\ Utf8Size(text) \in Nat
  BY TotalType, MeasuresType DEF Length, Utf8Size
<1>2. \A c \in Chars : /\ Units[c] <= Width[c]
                       /\ Width[c] = 4 => Units[c] = 2
                       /\ Units[c] >= 1
                       /\ Units[c] \in 1 .. 4 /\ Width[c] \in 1 .. 4
  BY DEF Units, Width, Chars, Letters
<1>3. \A i \in 1 .. Len(text) : text[i] \in Chars
  OBVIOUS
<1>4. units \subseteq bytes
  BY <1>2, <1>3 DEF Places
<1>5. Cardinality(units) <= Cardinality(bytes)
  BY <1>1, <1>4, FS_Subset, Zenon
<1>6. third \in Injection(bytes, units \X (1 .. 3))
  <2>1. ASSUME NEW b \in bytes
        PROVE  third[b] \in units \X (1 .. 3)
    <3>1. /\ b[1] \in 1 .. Len(text) /\ b[2] \in 1 .. 4
          /\ b[2] <= Width[text[b[1]]]
      BY DEF Places
    <3>2. CASE b[2] = 4
      <4>1. Width[text[b[1]]] = 4
        BY <1>2, <1>3, <3>1, <3>2
      <4>2. <<b[1], 2>> \in units
        BY <1>2, <1>3, <3>1, <4>1 DEF Places
      <4>3. third[b] = <<<<b[1], 2>>, 1>>
        BY <3>2
      <4> HIDE DEF units, bytes, third
      <4> QED
        BY <4>2, <4>3
    <3>3. CASE b[2] # 4
      <4>1. <<b[1], 1>> \in units
        BY <1>2, <1>3, <3>1 DEF Places
      <4>2. b[2] \in 1 .. 3
        BY <3>1, <3>3
      <4>3. third[b] = <<<<b[1], 1>>, b[2]>>
        BY <3>3
      <4> HIDE DEF units, bytes, third
      <4> QED
        BY <4>1, <4>2, <4>3
    <3> QED
      BY <3>2, <3>3
  <2>2. \A b, c \in bytes : third[b] = third[c] => b = c
    BY DEF Places
  <2> QED
    BY <2>1, <2>2 DEF Injection, IsInjective
<1>7. /\ IsFiniteSet(units \X (1 .. 3))
      /\ Cardinality(units \X (1 .. 3)) = Cardinality(units) * 3
  <2>1. 3 \in Nat
    OBVIOUS
  <2>2. IsFiniteSet(1 .. 3) /\ Cardinality(1 .. 3) = 3
    BY <2>1, UpTo, Zenon
  <2>3. /\ IsFiniteSet(units \X (1 .. 3))
        /\ Cardinality(units \X (1 .. 3)) = Cardinality(units) * Cardinality(1 .. 3)
    BY <1>1, <2>2, FS_Product, Zenon
  <2> QED
    BY <2>2, <2>3
<1> HIDE DEF units, bytes, third
<1>8. Cardinality(bytes) <= Cardinality(units \X (1 .. 3))
  BY <1>6, <1>7, FS_Injection, Zenon
<1> QED
  BY <1>1, <1>5, <1>7, <1>8

\* A text without its first character takes no more than with it.
LEMMA TailTakesLess ==
    ASSUME NEW text \in Seq(Chars), text # <<>>, NEW measure \in Measures
    PROVE  /\ Tail(text) \in Seq(Chars)
           /\ Total(measure, Tail(text)) <= Total(measure, text)
<1> DEFINE rest == Places(measure, Tail(text))
           all  == Places(measure, text)
           next == [b \in rest |-> <<b[1] + 1, b[2]>>]
<1>1. /\ Tail(text) \in Seq(Chars) /\ Len(Tail(text)) = Len(text) - 1
      /\ \A i \in 1 .. Len(text) - 1 : Tail(text)[i] = text[i + 1]
  OBVIOUS
<1>2. /\ IsFiniteSet(rest) /\ Total(measure, Tail(text)) = Cardinality(rest)
      /\ IsFiniteSet(all) /\ Total(measure, text) = Cardinality(all)
  BY <1>1, TotalType
<1>3. next \in Injection(rest, all)
  <2>1. ASSUME NEW b \in rest
        PROVE  /\ b[1] \in 1 .. Len(text) - 1 /\ b[2] \in 1 .. 4
               /\ b = <<b[1], b[2]>>
               /\ b[2] <= measure[text[b[1] + 1]]
    <3>1. b \in (1 .. Len(text) - 1) \X (1 .. 4) /\ b[2] <= measure[Tail(text)[b[1]]]
      BY <1>1 DEF Places
    <3> QED
      BY <1>1, <3>1
  <2>2. Len(text) \in Nat
    OBVIOUS
  <2>3. ASSUME NEW b \in rest PROVE next[b] \in all
    <3>1. <<b[1] + 1, b[2]>> \in (1 .. Len(text)) \X (1 .. 4)
      BY <2>1, <2>2
    <3>2. <<b[1] + 1, b[2]>> \in all
      BY <2>1, <3>1 DEF Places
    <3> QED
      BY <3>2
  <2>4. ASSUME NEW b \in rest, NEW c \in rest, next[b] = next[c] PROVE b = c
    <3> HIDE DEF rest
    <3>1. <<b[1] + 1, b[2]>> = <<c[1] + 1, c[2]>>
      BY <2>4
    <3>2. b[1] = c[1] /\ b[2] = c[2]
      BY <2>1, <3>1
    <3> QED
      BY <2>1, <3>2, Zenon
  <2> HIDE DEF rest, all
  <2>5. next \in [rest -> all]
    BY <2>3
  <2> QED
    BY <2>4, <2>5 DEF Injection, IsInjective
<1> HIDE DEF rest, all, next
<1>4. Cardinality(rest) <= Cardinality(all)
  BY <1>2, <1>3, FS_Injection, Zenon
<1> QED
  BY <1>1, <1>2, <1>4

LEMMA UnmarkedType ==
    ASSUME NEW text \in Seq(Letters)
    PROVE  /\ Unmarked(text) \in Seq(Letters)
           /\ Length(Unmarked(text)) <= Length(text)
           /\ Utf8Size(Unmarked(text)) <= Utf8Size(text)
<1>1. text \in Seq(Chars)
  BY LettersAreChars
<1>2. CASE Unmarked(text) = text
  BY <1>1, <1>2, UnitsAndBytes
<1>3. CASE Unmarked(text) # text
  <2>1. text # <<>> /\ Unmarked(text) = Tail(text)
    BY <1>3 DEF Unmarked
  <2>2. Tail(text) \in Seq(Letters)
    BY <2>1
  <2> QED
    BY <1>1, <2>1, <2>2, TailTakesLess, MeasuresType DEF Length, Utf8Size
<1> QED
  BY <1>2, <1>3

\* What comes back of a string is text of no more units than it has bytes.
LEMMA BackToText ==
    ASSUME NEW s \in String
    PROVE  /\ ToQString(s) \in Seq(Letters)
           /\ Length(ToQString(s)) <= StringSize(s)
           /\ StringSize(s) \in Nat /\ Length(ToQString(s)) \in Nat
           /\ IsUtf8(s) => ToQString(s) = Unmarked(s.chars)
<1> DEFINE tail == [b \in 1 .. s.cut |-> "fffd"]
           kept == Unmarked(s.chars)
           text == kept \o tail
           old  == Places(Units, kept)
           new  == (Len(kept) + 1 .. Len(kept) + s.cut) \X (1 .. 1)
<1>1. /\ s.chars \in Seq(Letters) /\ s.cut \in 0 .. 3
      /\ kept \in Seq(Letters) /\ Length(kept) <= Length(s.chars)
  BY UnmarkedType DEF String
<1>2. kept \in Seq(Chars) /\ s.chars \in Seq(Chars)
  BY <1>1, LettersAreChars
<1> HIDE DEF kept
<1>3. tail \in Seq(Letters) /\ Len(tail) = s.cut
  BY <1>1 DEF Letters
<1>4. /\ text \in Seq(Letters) /\ Len(text) = Len(kept) + s.cut
      /\ \A i \in 1 .. Len(kept) + s.cut :
            text[i] = IF i <= Len(kept) THEN kept[i] ELSE tail[i - Len(kept)]
  <2> HIDE DEF tail
  <2>1. /\ text \in Seq(Letters) /\ Len(text) = Len(kept) + Len(tail)
        /\ \A i \in 1 .. Len(kept) + Len(tail) :
              text[i] = IF i <= Len(kept) THEN kept[i] ELSE tail[i - Len(kept)]
    BY <1>1, <1>3, ConcatProperties, Zenon
  <2> QED
    BY <1>3, <2>1
<1>5. Places(Units, text) = old \cup new
  <2>1. Units["fffd"] = 1
    BY DEF Units, Chars, Letters
  <2>2. \A i \in 1 .. Len(text) :
          text[i] = IF i <= Len(kept) THEN kept[i] ELSE "fffd"
    BY <1>1, <1>4
  <2>3. Len(kept) \in Nat
    BY <1>1
  <2> HIDE DEF text, tail
  <2>4. Places(Units, text) = {b \in (1 .. Len(text)) \X (1 .. 4) :
                                 \/ b[1] <= Len(kept) /\ b[2] <= Units[kept[b[1]]]
                                 \/ b[1] > Len(kept) /\ b[2] = 1}
    BY <2>1, <2>2, <2>3 DEF Places
  <2>5. old = {b \in (1 .. Len(kept)) \X (1 .. 4) : b[2] <= Units[kept[b[1]]]}
    BY DEF Places
  <2> QED
    BY <1>1, <1>4, <2>3, <2>4, <2>5
<1>6. IsFiniteSet(new) /\ Cardinality(new) = s.cut
  <2>1. Len(kept) + 1 \in Int /\ Len(kept) + s.cut \in Int
    BY <1>1
  <2> DEFINE a == Len(kept) + 1
             b == Len(kept) + s.cut
  <2>2. /\ IsFiniteSet(a .. b)
        /\ Cardinality(a .. b) = IF a > b THEN 0 ELSE b - a + 1
    BY <2>1, FS_Interval, Zenon
  <2>3. 1 \in Nat
    OBVIOUS
  <2>4. IsFiniteSet(1 .. 1) /\ Cardinality(1 .. 1) = 1
    BY <2>3, UpTo, Zenon
  <2>5. /\ IsFiniteSet(new)
        /\ Cardinality(new) = Cardinality(a .. b) * Cardinality(1 .. 1)
    BY <2>2, <2>4, FS_Product, Zenon
  <2>6. Cardinality(a .. b) = s.cut
    BY <1>1, <2>2
  <2> HIDE DEF a, b, new
  <2> QED
    BY <1>1, <2>4, <2>5, <2>6
<1>7. old \cap new = {}
  BY <1>1 DEF Places
<1>8. IsFiniteSet(old) /\ Length(kept) = Cardinality(old)
  BY <1>2, TotalType, MeasuresType DEF Length
<1> HIDE DEF old, new
<1>9. Cardinality(old \cup new) = Cardinality(old) + Cardinality(new)
  BY <1>6, <1>7, <1>8, DisjointUnion, Zenon
<1>10. Length(text) = Cardinality(old \cup new) /\ Length(text) \in Nat
  <2>1. text \in Seq(Chars)
    BY <1>4, LettersAreChars
  <2> QED
    BY <1>5, <2>1, TotalType, MeasuresType, Zenon DEF Length
<1>11. Length(text) = Length(kept) + s.cut
  BY <1>6, <1>8, <1>9, <1>10, Zenon
<1>12. IsUtf8(s) => text = kept
  <2> SUFFICES ASSUME s.cut = 0
               PROVE  text = kept
    BY DEF IsUtf8
  <2>1. tail = <<>>
    BY <1>3
  <2> QED
    BY <1>1, <2>1, ConcatEmptySeq
<1>13. text = ToQString(s)
  BY DEF ToQString, kept
<1> HIDE DEF text
<1>14. Length(text) <= StringSize(s) /\ StringSize(s) \in Nat
  <2>1. /\ Length(s.chars) <= Utf8Size(s.chars) /\ Length(kept) \in Nat
        /\ Length(s.chars) \in Nat /\ Utf8Size(s.chars) \in Nat
    BY <1>2, UnitsAndBytes
  <2> QED
    BY <1>1, <1>11, <2>1 DEF StringSize
<1>15. IsUtf8(s) => ToQString(s) = Unmarked(s.chars)
  BY <1>12, <1>13 DEF kept
<1> QED
  BY <1>4, <1>10, <1>13, <1>14, <1>15, Zenon

\* toUtf8 has half a pair take as much as the question mark for it.
LEMMA ToUtf8Type ==
    ASSUME NEW text \in Seq(Chars)
    PROVE  /\ ToUtf8(text) \in Seq(Letters)
           /\ Utf8Size(ToUtf8(text)) = Utf8Size(text)
           /\ text \in Seq(Letters) => ToUtf8(text) = text
<1> DEFINE t == ToUtf8(text)
<1>1. /\ t \in Seq(Letters) /\ Len(t) = Len(text)
      /\ \A i \in 1 .. Len(text) :
            t[i] = IF text[i] = "half" THEN "?" ELSE text[i]
  BY DEF ToUtf8, Chars, Letters
<1>2. \A i \in 1 .. Len(text) : Width[t[i]] = Width[text[i]]
  <2>1. Width["half"] = 1 /\ Width["?"] = 1
    BY DEF Width, Chars, Letters
  <2> QED
    BY <1>1, <2>1
<1>3. text \in Seq(Letters) => t = text
  <2> SUFFICES ASSUME text \in Seq(Letters)
               PROVE  t = text
    OBVIOUS
  <2>1. \A i \in 1 .. Len(text) : text[i] # "half"
    BY DEF Letters
  <2> QED
    BY <1>1, <2>1
<1> HIDE DEF t
<1>4. Places(Width, t) = Places(Width, text)
  BY <1>1, <1>2 DEF Places
<1>5. Utf8Size(t) = Utf8Size(text)
  <2>1. t \in Seq(Chars)
    BY <1>1, LettersAreChars
  <2> QED
    BY <1>4, <2>1, TotalType, MeasuresType DEF Utf8Size
<1> QED
  BY <1>1, <1>3, <1>5 DEF t

-----------------------------------------------------------------------------
(* The page                                                                    *)

LEMMA Maxima ==
    /\ MaxName \in Nat \ {0} /\ 3 * MaxName < SizeRange
    /\ MaxStatus \in Nat \ {0} /\ 3 * MaxStatus < SizeRange
  BY MaxAssumption

\* A field has at most as many units as it may.
LEMMA FieldType ==
    ASSUME NEW text \in Seq(Chars), NEW max \in Nat
    PROVE  Field(text, max) \in Seq(Chars) /\ Length(Field(text, max)) <= max
<1> DEFINE kept == Beginning(Units, text, max)
           more == Append(kept, "half")
<1>1. PICK w \in 0 .. Len(text) :
        /\ kept = SubSeq(text, 1, w)
        /\ Total(Units, SubSeq(text, 1, w)) <= max
  BY BeginningIsLongest, MeasuresType
<1>2. kept \in Seq(Chars) /\ Length(kept) <= max /\ Length(kept) \in Nat
  BY <1>1, Prefix, UnitsAndBytes DEF Length
<1> HIDE DEF kept
<1>3. more \in Seq(Chars) /\ Length(more) = Length(kept) + 1
  <2>1. /\ more \in Seq(Chars) /\ Len(more) = Len(kept) + 1
        /\ more[Len(kept) + 1] = "half"
        /\ \A i \in 1 .. Len(kept) : more[i] = kept[i]
    BY <1>2 DEF Chars
  <2>2. Len(kept) \in 0 .. Len(more) - 1 /\ Len(kept) + 1 \in 0 .. Len(more)
    BY <1>2, <2>1
  <2>3. SubSeq(more, 1, Len(kept) + 1) = more
    BY <2>1, SubSeqFull
  <2>4. SubSeq(more, 1, Len(kept)) = kept
    BY <1>2, <2>1
  <2>5. Units["half"] = 1
    BY DEF Units, Chars
  <2> HIDE DEF more
  <2>6. Total(Units, SubSeq(more, 1, Len(kept) + 1)) =
          Total(Units, SubSeq(more, 1, Len(kept))) + Units[more[Len(kept) + 1]]
    BY <2>1, <2>2, TotalStep, MeasuresType
  <2> QED
    BY <2>1, <2>3, <2>4, <2>5, <2>6 DEF Length
<1> QED
  BY <1>2, <1>3 DEF Field, kept

\* A field limited to as many units as the string is to bytes shows all of it.
LEMMA FieldOfString ==
    ASSUME NEW s \in String, NEW max \in Nat, StringSize(s) <= max
    PROVE  Field(ToQString(s), max) = ToQString(s)
<1>1. /\ ToQString(s) \in Seq(Chars)
      /\ Length(ToQString(s)) <= max
  BY BackToText, LettersAreChars
<1>2. Beginning(Units, ToQString(s), max) = ToQString(s)
  BY <1>1, BeginningOfAll, MeasuresType DEF Length
<1> QED
  BY <1>2 DEF Field

LEMMA SizeOfTyped ==
    ASSUME NEW text \in Seq(Chars), NEW max \in Nat, Length(text) <= max,
           3 * max < SizeRange
    PROVE  Size(text) = Utf8Size(text) /\ Utf8Size(text) \in Nat
<1>1. Utf8Size(text) \in Nat /\ Utf8Size(text) < SizeRange
  BY UnitsAndBytes, SizeRangeAssumption
<1>2. \A x \in Nat : x < SizeRange => x % SizeRange = x
  BY SizeRangeAssumption
<1> QED
  BY <1>1, <1>2 DEF Size

\* What a setter hands to tox of a text that a field can hold.
LEMMA SetterKeeps ==
    ASSUME NEW text \in Seq(Chars), NEW max \in Nat \ {0},
           Length(text) <= max, 3 * max < SizeRange
    PROVE  /\ Sent(text, max) \in String /\ StringSize(Sent(text, max)) <= max
           /\ Size(text) = 0 <=> text = <<>>
           /\ Keeps(Sent(text, max), ToUtf8(text), max)
<1> DEFINE n == AtMost(Size(text), max)
           u == ToUtf8(text)
           s == Bytes(u, n)
<1>1. /\ Size(text) = Utf8Size(text) /\ Utf8Size(text) \in Nat
      /\ u \in Seq(Letters) /\ Utf8Size(u) = Utf8Size(text)
  BY SizeOfTyped, ToUtf8Type
<1>2. n \in Nat /\ n <= max /\ n <= Utf8Size(u)
  BY <1>1 DEF AtMost
<1>3. Utf8Size(u) <= max => n = Utf8Size(u)
  BY <1>1 DEF AtMost
<1>4. Utf8Size(u) > max => n = max
  BY <1>1 DEF AtMost
<1>5. u \in Seq(Chars)
  BY <1>1, LettersAreChars
<1>6. Sent(text, max) = s
  BY DEF Sent
<1> HIDE DEF n, u
<1>7. /\ s \in String
      /\ StringSize(s) = n
      /\ n = Utf8Size(u) => s = Whole(u)
      /\ n < Utf8Size(u) =>
           \E w \in 0 .. Len(u) - 1 :
             s.chars = SubSeq(u, 1, w) /\ s.cut < Width[u[w + 1]]
  BY <1>1, <1>2, BytesOfText
<1> HIDE DEF s
<1>8. Size(text) = 0 <=> text = <<>>
  <2>1. text # <<>> => Utf8Size(text) # 0
    BY TotalOfNothing, MeasuresType DEF Utf8Size
  <2>2. ASSUME text = <<>>
        PROVE  Utf8Size(text) = 0
    <3>1. SubSeq(text, 1, 0) = text
      BY <2>2, SubSeqFull
    <3> QED
      BY <3>1, TotalOfNothing, MeasuresType DEF Utf8Size
  <2> QED
    BY <1>1, <2>1, <2>2
<1>9. Keeps(s, u, max)
  <2>1. CASE Utf8Size(u) <= max
    <3>1. s = Whole(u)
      BY <1>3, <1>7, <2>1
    <3>2. s.chars = u
      BY <3>1 DEF Whole
    <3>3. SubSeq(u, 1, Len(u)) = u
      BY <1>1, SubSeqFull
    <3> QED
      BY <1>1, <2>1, <3>1, <3>2, <3>3 DEF Keeps
  <2>2. CASE Utf8Size(u) > max
    <3>1. n = max /\ n < Utf8Size(u)
      BY <1>4, <2>2, <1>2
    <3>2. PICK w \in 0 .. Len(u) - 1 :
            s.chars = SubSeq(u, 1, w) /\ s.cut < Width[u[w + 1]]
      BY <1>7, <3>1
    <3>3. Len(s.chars) = w
      BY <1>5, <3>2, Prefix
    <3> QED
      BY <1>1, <1>7, <2>2, <3>1, <3>2, <3>3 DEF Keeps
  <2> QED
    BY <1>1, <2>1, <2>2
<1> QED
  BY <1>2, <1>6, <1>7, <1>8, <1>9 DEF u

IInv == TypeOK /\ FieldsShowAccount /\ FieldsHoldAll

\* What tox has after the setters, from fields of the right type.
LEMMA SettersType ==
    ASSUME TypeOK
    PROVE  /\ NameAfter(fields.name) \in String
           /\ StringSize(NameAfter(fields.name)) <= MaxName
           /\ IF fields.name = <<>> THEN NameAfter(fields.name) = name
              ELSE Keeps(NameAfter(fields.name), ToUtf8(fields.name), MaxName)
           /\ StatusAfter(fields.status) \in String
           /\ StringSize(StatusAfter(fields.status)) <= MaxStatus
           /\ Keeps(StatusAfter(fields.status), ToUtf8(fields.status), MaxStatus)
<1>1. /\ fields.name \in Seq(Chars) /\ Length(fields.name) <= MaxName
      /\ fields.status \in Seq(Chars) /\ Length(fields.status) <= MaxStatus
      /\ name \in String /\ StringSize(name) <= MaxName
  BY DEF TypeOK
<1>2. /\ Sent(fields.name, MaxName) \in String
      /\ StringSize(Sent(fields.name, MaxName)) <= MaxName
      /\ Size(fields.name) = 0 <=> fields.name = <<>>
      /\ Keeps(Sent(fields.name, MaxName), ToUtf8(fields.name), MaxName)
  BY <1>1, Maxima, SetterKeeps
<1>3. /\ Sent(fields.status, MaxStatus) \in String
      /\ StringSize(Sent(fields.status, MaxStatus)) <= MaxStatus
      /\ Keeps(Sent(fields.status, MaxStatus), ToUtf8(fields.status), MaxStatus)
  BY <1>1, Maxima, SetterKeeps
<1> QED
  BY <1>1, <1>2, <1>3 DEF NameAfter, StatusAfter

\* What the fields show of strings of tox's: all that toString gives.
LEMMA LabelsType ==
    ASSUME NEW n \in String, StringSize(n) <= MaxName,
           NEW m \in String, StringSize(m) <= MaxStatus
    PROVE  /\ NameField(n) = ToQString(n) /\ StatusField(m) = ToQString(m)
           /\ UpdateLabels(n, m) \in [name : Seq(Chars), status : Seq(Chars)]
           /\ Length(NameField(n)) <= MaxName
           /\ Length(StatusField(m)) <= MaxStatus
<1>1. NameField(n) = ToQString(n) /\ StatusField(m) = ToQString(m)
  BY FieldOfString, Maxima DEF NameField, StatusField
<1>2. ToQString(n) \in Seq(Chars) /\ ToQString(m) \in Seq(Chars)
  BY BackToText, LettersAreChars
<1>3. NameField(n) \in Seq(Chars) /\ Length(NameField(n)) <= MaxName
  BY <1>2, FieldType, Maxima DEF NameField
<1>4. StatusField(m) \in Seq(Chars) /\ Length(StatusField(m)) <= MaxStatus
  BY <1>2, FieldType, Maxima DEF StatusField
<1> QED
  BY <1>1, <1>3, <1>4 DEF UpdateLabels

\* A page left with the fields shown again.
LEMMA ShownAgain ==
    ASSUME NEW n \in String, StringSize(n) <= MaxName,
           NEW m \in String, StringSize(m) <= MaxStatus,
           page' = "other", name' = n, status' = m, fields' = UpdateLabels(n, m)
    PROVE  IInv'
<1>1. /\ NameField(n) = ToQString(n) /\ StatusField(m) = ToQString(m)
      /\ UpdateLabels(n, m) \in [name : Seq(Chars), status : Seq(Chars)]
      /\ Length(NameField(n)) <= MaxName
      /\ Length(StatusField(m)) <= MaxStatus
  BY LabelsType
<1>2. fields'.name = NameField(n) /\ fields'.status = StatusField(m)
  BY DEF UpdateLabels
<1>3. TypeOK'
  BY <1>1, <1>2 DEF TypeOK
<1>4. FieldsShowAccount'
  BY DEF FieldsShowAccount
<1>5. FieldsHoldAll'
  BY <1>1, <1>2 DEF FieldsHoldAll
<1> QED
  BY <1>3, <1>4, <1>5 DEF IInv

\* The two setters with their signals, in the order of saveAction.
LEMMA SaveShows ==
    ASSUME TypeOK, Save
    PROVE  /\ name' = NameAfter(fields.name)
           /\ status' = StatusAfter(fields.status)
           /\ fields' = UpdateLabels(name', status')
           /\ page' = "other"
  BY DEF TypeOK, Save, OnUserNameChanged, OnStatusMessageChanged, UpdateLabels

LEMMA InitIInv == Init => IInv
<1> SUFFICES ASSUME Init
             PROVE  IInv
  OBVIOUS
<1>1. /\ name \in String /\ StringSize(name) <= MaxName
      /\ status \in String /\ StringSize(status) <= MaxStatus
  BY TextsAssumption DEF Init
<1>2. /\ NameField(name) = ToQString(name) /\ StatusField(status) = ToQString(status)
      /\ UpdateLabels(name, status) \in [name : Seq(Chars), status : Seq(Chars)]
      /\ Length(NameField(name)) <= MaxName
      /\ Length(StatusField(status)) <= MaxStatus
  BY <1>1, LabelsType
<1>3. fields = UpdateLabels(name, status) /\ page = "other"
  BY DEF Init
<1>4. fields.name = NameField(name) /\ fields.status = StatusField(status)
  BY <1>3 DEF UpdateLabels
<1>5. TypeOK
  BY <1>1, <1>2, <1>3, <1>4 DEF TypeOK
<1>6. FieldsShowAccount /\ FieldsHoldAll
  BY <1>2, <1>3, <1>4 DEF FieldsShowAccount, FieldsHoldAll
<1> QED
  BY <1>5, <1>6 DEF IInv

LEMMA StepIInv == IInv /\ [Next]_vars => IInv'
<1> SUFFICES ASSUME IInv, [Next]_vars
             PROVE  IInv'
  OBVIOUS
<1>1. TypeOK
  BY DEF IInv
<1>2. CASE Open
  BY <1>2 DEF Open, IInv, TypeOK, FieldsShowAccount, FieldsHoldAll
<1>3. ASSUME NEW text \in TypedTexts, TypeName(text)
      PROVE  IInv'
  <2>1. /\ Field(text, MaxName) \in Seq(Chars)
        /\ Length(Field(text, MaxName)) <= MaxName
    BY TextsAssumption, FieldType, Maxima
  <2> QED
    BY <1>1, <1>3, <2>1
       DEF TypeName, IInv, TypeOK, FieldsShowAccount, FieldsHoldAll
<1>4. ASSUME NEW text \in TypedTexts, TypeStatus(text)
      PROVE  IInv'
  <2>1. /\ Field(text, MaxStatus) \in Seq(Chars)
        /\ Length(Field(text, MaxStatus)) <= MaxStatus
    BY TextsAssumption, FieldType, Maxima
  <2> QED
    BY <1>1, <1>4, <2>1
       DEF TypeStatus, IInv, TypeOK, FieldsShowAccount, FieldsHoldAll
<1>5. CASE Save
  BY <1>1, <1>5, SaveShows, SettersType, ShownAgain
<1>6. CASE Cancel
  <2>1. /\ page' = "other" /\ name' = name /\ status' = status
        /\ fields' = UpdateLabels(name, status)
    BY <1>6 DEF Cancel
  <2>2. /\ name \in String /\ StringSize(name) <= MaxName
        /\ status \in String /\ StringSize(status) <= MaxStatus
    BY <1>1 DEF TypeOK
  <2> QED
    BY <2>1, <2>2, ShownAgain
<1>7. CASE UNCHANGED vars
  BY <1>7 DEF vars, IInv, TypeOK, FieldsShowAccount, FieldsHoldAll
<1> QED
  BY <1>2, <1>3, <1>4, <1>5, <1>6, <1>7 DEF Next

\* Names and status messages keep to tox's limits, and the fields to theirs.
THEOREM TypeCorrect == Spec => []TypeOK
<1>1. IInv => TypeOK
  BY DEF IInv
<1> QED
  BY InitIInv, StepIInv, <1>1, PTL DEF Spec

\* However the page was left, it shows the account.
THEOREM PageShowsAccount == Spec => []FieldsShowAccount
<1>1. IInv => FieldsShowAccount
  BY DEF IInv
<1> QED
  BY InitIInv, StepIInv, <1>1, PTL DEF Spec

\* And shows all that toString gives of it: maximumLength never cuts what tox
\* can keep.
THEOREM PageShowsAll == Spec => []FieldsHoldAll
<1>1. IInv => FieldsHoldAll
  BY DEF IInv
<1> QED
  BY InitIInv, StepIInv, <1>1, PTL DEF Spec

\* A save takes both texts as the fields have them or cut at tox's limit, for
\* all texts that they can hold, and whatever the first signal writes into them.
THEOREM TypedIsTaken == Spec => SaveTakesTyped
<1> DEFINE Taken ==
             Save => /\ IF fields.name = <<>> THEN UNCHANGED name
                        ELSE Keeps(name', ToUtf8(fields.name), MaxName)
                     /\ Keeps(status', ToUtf8(fields.status), MaxStatus)
<1>1. IInv /\ [Next]_vars => [Taken]_vars
  <2> SUFFICES ASSUME IInv, Save
               PROVE  /\ IF fields.name = <<>> THEN UNCHANGED name
                         ELSE Keeps(name', ToUtf8(fields.name), MaxName)
                      /\ Keeps(status', ToUtf8(fields.status), MaxStatus)
    OBVIOUS
  <2>1. TypeOK
    BY DEF IInv
  <2>2. /\ name' = NameAfter(fields.name)
        /\ status' = StatusAfter(fields.status)
    BY <2>1, SaveShows
  <2> QED
    BY <2>1, <2>2, SettersType
<1>2. [][Taken]_vars <=> SaveTakesTyped
  BY DEF SaveTakesTyped
<1> QED
  BY InitIInv, StepIInv, <1>1, <1>2, PTL DEF Spec

\* What is shown of a string that is UTF-8 is sent as it is shown.
LEMMA RoundTrip ==
    ASSUME NEW s \in String, IsUtf8(s), NEW max \in Nat \ {0},
           StringSize(s) <= max, NEW t, Keeps(t, ToUtf8(ToQString(s)), max)
    PROVE  t = Whole(Unmarked(s.chars))
<1> DEFINE u == Unmarked(s.chars)
<1>1. s.chars \in Seq(Letters) /\ s.cut = 0
  BY DEF String, IsUtf8
<1>2. u \in Seq(Letters) /\ Utf8Size(u) <= Utf8Size(s.chars)
  BY <1>1, UnmarkedType
<1>3. ToUtf8(ToQString(s)) = u
  BY <1>2, BackToText, LettersAreChars, ToUtf8Type
<1>4. /\ Utf8Size(s.chars) \in Nat /\ Utf8Size(u) \in Nat
      /\ Utf8Size(s.chars) <= max
  BY <1>1, <1>2, UnitsAndBytes, LettersAreChars DEF StringSize
<1> HIDE DEF u
<1>5. Utf8Size(u) <= max
  BY <1>2, <1>4
<1>6. t = Whole(u)
  BY <1>3, <1>5 DEF Keeps
<1> QED
  BY <1>6 DEF u

\* Opening the page and saving it as it is changes nothing but a byte order
\* mark at the beginning.
THEOREM UneditedIsKept == Spec => SavingUneditedKeeps
<1> DEFINE Kept == (Save /\ fields = UpdateLabels(name, status)
                         /\ IsUtf8(name) /\ IsUtf8(status))
                    => /\ name' = IF Unmarked(name.chars) = <<>> THEN name
                                  ELSE Whole(Unmarked(name.chars))
                       /\ status' = Whole(Unmarked(status.chars))
<1>1. IInv /\ [Next]_vars => [Kept]_vars
  <2> SUFFICES ASSUME IInv, Save, fields = UpdateLabels(name, status),
                      IsUtf8(name), IsUtf8(status)
               PROVE  /\ name' = IF Unmarked(name.chars) = <<>> THEN name
                                 ELSE Whole(Unmarked(name.chars))
                      /\ status' = Whole(Unmarked(status.chars))
    OBVIOUS
  <2>1. /\ TypeOK
        /\ name \in String /\ StringSize(name) <= MaxName
        /\ status \in String /\ StringSize(status) <= MaxStatus
    BY DEF IInv, TypeOK
  <2>2. fields.name = ToQString(name) /\ fields.status = ToQString(status)
    <3>1. NameField(name) = ToQString(name) /\ StatusField(status) = ToQString(status)
      BY <2>1, LabelsType
    <3> QED
      BY <3>1 DEF UpdateLabels
  <2>3. name' = NameAfter(fields.name) /\ status' = StatusAfter(fields.status)
    BY <2>1, SaveShows
  <2>4. fields.name = Unmarked(name.chars)
    BY <2>1, <2>2, BackToText
  <2>5. status' = Whole(Unmarked(status.chars))
    <3>1. Keeps(status', ToUtf8(ToQString(status)), MaxStatus)
      BY <2>1, <2>2, <2>3, SettersType
    <3> QED
      BY <2>1, <3>1, Maxima, RoundTrip
  <2>6. CASE Unmarked(name.chars) = <<>>
    <3>1. name' = name
      BY <2>1, <2>3, <2>4, <2>6, SettersType
    <3> QED
      BY <2>5, <2>6, <3>1
  <2>7. CASE Unmarked(name.chars) # <<>>
    <3>1. Keeps(name', ToUtf8(ToQString(name)), MaxName)
      BY <2>1, <2>2, <2>3, <2>4, <2>7, SettersType
    <3>2. name' = Whole(Unmarked(name.chars))
      BY <2>1, <3>1, Maxima, RoundTrip
    <3> QED
      BY <2>5, <2>7, <3>2
  <2> QED
    BY <2>6, <2>7
<1>2. [][Kept]_vars <=> SavingUneditedKeeps
  BY DEF SavingUneditedKeeps
<1> QED
  BY InitIInv, StepIInv, <1>1, <1>2, PTL DEF Spec
=============================================================================
