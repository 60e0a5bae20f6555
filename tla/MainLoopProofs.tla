--------------------------- MODULE MainLoopProofs ---------------------------
(***************************************************************************)
(* Proofs about MainLoop, for every tolerance, width of int and node       *)
(* table.  OneBootstrapPerOutage is not inductive: it says nothing of the  *)
(* tolerance, on which the next call of bootstrap() depends.  IInv adds    *)
(* that the tolerance counts the disconnected ticks down.                  *)
(***************************************************************************)
EXTENDS MainLoop, FiniteSetTheorems, TLAPS

\* The tolerance is what the outage has left of it, below zero included.
ToleranceCountsOutage == tolerance = Tolerance - outage

IInv == TypeOK /\ ToleranceCountsOutage /\ OneBootstrapPerOutage

\* The counter of bootstrap() stays an unsigned int and its nodes stay in
\* the table.
LEMMA BurstType ==
    ASSUME NEW k \in Nat
    PROVE  /\ CounterAfter(k) \in 0 .. UintRange - 1
           /\ BurstFrom(k) \in SUBSET Nodes
<1> USE NodesAssumption
<1>1. \A a \in Nat, m \in Nat \ {0} : a % m \in 0 .. m - 1
  OBVIOUS
<1>2. UintRange \in Nat \ {0}
  OBVIOUS
<1>3. CounterAfter(k) \in 0 .. UintRange - 1
  BY <1>1, <1>2 DEF CounterAfter
<1>4. ASSUME NEW i \in 0 .. Burst - 1
      PROVE  ((k + i) % UintRange) % NodeCount \in Nodes
  <2>1. (k + i) % UintRange \in Nat
    BY <1>1, <1>2
  <2> QED
    BY <2>1, <1>1 DEF Nodes
<1>5. BurstFrom(k) \in SUBSET Nodes
  BY <1>4 DEF BurstFrom
<1> QED
  BY <1>3, <1>5

LEMMA InitIInv == Init => IInv
<1> SUFFICES ASSUME Init
             PROVE  IInv
  OBVIOUS
<1>1. FlagsOK
  BY DEF Init, FlagsOK
<1>2. CountersOK /\ ToleranceCountsOutage /\ OneBootstrapPerOutage
  BY ToleranceAssumption, IntMinAssumption, NodesAssumption
     DEF Init, CountersOK, ToleranceCountsOutage, OneBootstrapPerOutage, Nodes
<1> QED
  BY <1>1, <1>2 DEF IInv, TypeOK

LEMMA StepFlags == FlagsOK /\ [Next]_vars => FlagsOK'
<1> SUFFICES ASSUME FlagsOK, [Next]_vars
             PROVE  FlagsOK'
  OBVIOUS
<1> USE DEF FlagsOK
<1>1. CASE TickOnline
  BY <1>1 DEF TickOnline, SetConnected, LabelAfter
<1>2. CASE TickOffline
  BY <1>2 DEF TickOffline, SetConnected, LabelAfter
<1>3. CASE NetworkChange
  BY <1>3 DEF NetworkChange
<1>4. CASE UNCHANGED vars
  BY <1>4 DEF vars
<1> QED
  BY <1>1, <1>2, <1>3, <1>4 DEF Next, Tick

Counting == CountersOK /\ ToleranceCountsOutage /\ OneBootstrapPerOutage

LEMMA StepCounting == Counting /\ [Next]_vars => Counting'
<1> SUFFICES ASSUME Counting, [Next]_vars
             PROVE  Counting'
  OBVIOUS
<1> USE ToleranceAssumption, IntMinAssumption, NodesAssumption
<1> USE DEF Counting, CountersOK, ToleranceCountsOutage, OneBootstrapPerOutage
<1>1. CASE TickOnline
  BY <1>1 DEF TickOnline
<1>2. CASE TickOffline
  <2>1. /\ tolerance > IntMin
        /\ tolerance' = tolerance - 1
        /\ outage' = outage + 1
    BY <1>2 DEF TickOffline
  <2>2. CASE BootstrapDue(tolerance - 1)
    <3>1. outage = Tolerance - 1 /\ tries = 0
      BY <2>2 DEF BootstrapDue
    <3>2. tries' = 1 /\ j' = CounterAfter(j) /\ contacted' = BurstFrom(j)
      BY <1>2, <2>2, <3>1 DEF TickOffline, Bootstrap
    <3>3. j' \in 0 .. UintRange - 1 /\ contacted' \in SUBSET Nodes
      BY <3>2, BurstType
    <3> QED
      BY <2>1, <3>1, <3>2, <3>3
  <2>3. CASE ~BootstrapDue(tolerance - 1)
    <3>1. tries' = tries /\ j' = j /\ contacted' = contacted
      BY <1>2, <2>3 DEF TickOffline
    <3> QED
      BY <2>1, <2>3, <3>1 DEF BootstrapDue
  <2> QED
    BY <2>2, <2>3
<1>3. CASE NetworkChange
  BY <1>3 DEF NetworkChange
<1>4. CASE UNCHANGED vars
  BY <1>4 DEF vars
<1> QED
  BY <1>1, <1>2, <1>3, <1>4 DEF Next, Tick

LEMMA StepIInv == IInv /\ [Next]_vars => IInv'
  BY StepFlags, StepCounting DEF IInv, TypeOK, Counting

\* Every variable of the main loop keeps its type: the tolerance stays an
\* int, the counter of bootstrap() an unsigned int.
THEOREM TypeCorrect == Spec => []TypeOK
<1>1. IInv => TypeOK
  BY DEF IInv
<1> QED
  BY InitIInv, StepIInv, <1>1, PTL DEF Spec

\* For every tolerance, an outage is answered by exactly one call of
\* bootstrap(), in its tick numbered `Tolerance`.
THEOREM BootstrapOnce == Spec => []OneBootstrapPerOutage
<1>1. IInv => OneBootstrapPerOutage
  BY DEF IInv
<1> QED
  BY InitIInv, StepIInv, <1>1, PTL DEF Spec

-----------------------------------------------------------------------------
(* The nodes of the bursts                                                 *)

LEMMA DivMod ==
    ASSUME NEW a \in Nat, NEW m \in Nat \ {0}
    PROVE  /\ a % m \in 0 .. m - 1
           /\ \E q \in Int : a = q * m + (a % m)
<1>1. a % m \in 0 .. m - 1
  OBVIOUS
<1>2. a = (a \div m) * m + (a % m) /\ a \div m \in Int
  OBVIOUS
<1> QED
  BY <1>1, <1>2

\* No multiple of m is between two neighbouring ones.
LEMMA NoMultiple ==
    ASSUME NEW m \in Nat \ {0}, NEW s \in Int, NEW t \in Int, s = t * m
    PROVE  ~(0 < s /\ s < m) /\ ~(-m < s /\ s < 0)
<1>1. CASE t = 0
  BY <1>1
<1>2. CASE t >= 1
  <2>1. t * m >= m
    BY <1>2
  <2> QED
    BY <2>1
<1>3. CASE t <= -1
  <2>1. t * m <= -m
    BY <1>3
  <2> QED
    BY <2>1
<1> QED
  BY <1>1, <1>2, <1>3

\* Two entries less than the table apart are different nodes.
LEMMA NearIsOther ==
    ASSUME NEW a \in Nat, NEW b \in Nat, a < b, b - a < NodeCount
    PROVE  a % NodeCount # b % NodeCount
<1> USE NodesAssumption
<1>1. PICK p \in Int : a = p * NodeCount + (a % NodeCount)
  BY DivMod
<1>2. PICK q \in Int : b = q * NodeCount + (b % NodeCount)
  BY DivMod
<1> SUFFICES ASSUME a % NodeCount = b % NodeCount
             PROVE  FALSE
  OBVIOUS
<1>3. a % NodeCount \in Int
  BY DivMod
<1>4. b - a = (q - p) * NodeCount
  BY <1>1, <1>2, <1>3
<1> QED
  BY <1>4, NoMultiple

\* So are two entries on either side of the wrap.
LEMMA AcrossWrapIsOther ==
    ASSUME NEW a \in Nat, NEW b \in Nat, NEW d \in 1 .. Burst - 1,
           a - b = UintRange - d
    PROVE  a % NodeCount # b % NodeCount
<1> USE NodesAssumption
<1> DEFINE r == UintRange % NodeCount
<1>1. PICK p \in Int : a = p * NodeCount + (a % NodeCount)
  BY DivMod
<1>2. PICK q \in Int : b = q * NodeCount + (b % NodeCount)
  BY DivMod
<1>3. PICK u \in Int : UintRange = u * NodeCount + r
  BY DivMod
<1>4. a % NodeCount \in Int /\ r \in 0 .. NodeCount - 1
  BY DivMod
<1>5. r = 0 \/ r >= Burst
  BY <1>4, WrapAssumption
<1> HIDE DEF r
<1> SUFFICES ASSUME a % NodeCount = b % NodeCount
             PROVE  FALSE
  OBVIOUS
<1>6. r - d = (p - q - u) * NodeCount
  BY <1>1, <1>2, <1>3, <1>4
<1>7. ~(0 < r - d /\ r - d < NodeCount) /\ ~(-NodeCount < r - d /\ r - d < 0)
  BY <1>4, <1>6, NoMultiple
<1> QED
  BY <1>4, <1>5, <1>7, WrapAssumption

\* The unsigned counter, within one burst of its range.
LEMMA Unsigned ==
    ASSUME NEW x \in 0 .. 2 * UintRange - 1
    PROVE  x % UintRange = IF x < UintRange THEN x ELSE x - UintRange
<1> USE NodesAssumption
<1>1. UintRange \in Nat \ {0} /\ x \in Nat
  OBVIOUS
<1>2. x % UintRange \in 0 .. UintRange - 1
  BY <1>1, DivMod
<1>3. PICK q \in Int : x = q * UintRange + (x % UintRange)
  BY <1>1, DivMod
<1>4. CASE x < UintRange
  <2>1. x - (x % UintRange) = q * UintRange
    BY <1>2, <1>3
  <2> QED
    BY <1>1, <1>2, <1>4, <2>1, NoMultiple
<1>5. CASE x >= UintRange
  <2>1. x - UintRange - (x % UintRange) = (q - 1) * UintRange
    BY <1>2, <1>3
  <2> QED
    BY <1>1, <1>2, <1>5, <2>1, NoMultiple
<1> QED
  BY <1>4, <1>5

\* The node of the i-th round of a call that starts at k.
NodeOf(k, i) == ((k + i) % UintRange) % NodeCount

LEMMA RoundsDiffer ==
    ASSUME NEW k \in 0 .. UintRange - 1,
           NEW i \in 0 .. Burst - 1, NEW h \in 0 .. Burst - 1, i < h
    PROVE  NodeOf(k, i) # NodeOf(k, h)
<1> USE NodesAssumption, WrapAssumption
<1> DEFINE a == (k + i) % UintRange
           b == (k + h) % UintRange
<1>1. a = IF k + i < UintRange THEN k + i ELSE k + i - UintRange
  BY Unsigned
<1>2. b = IF k + h < UintRange THEN k + h ELSE k + h - UintRange
  BY Unsigned
<1> HIDE DEF a, b
<1>3. a \in Nat /\ b \in Nat
  BY <1>1, <1>2
<1>4. a % NodeCount # b % NodeCount
  <2>1. CASE a < b
    <3>1. b - a < NodeCount
      BY <1>1, <1>2, <2>1
    <3> QED
      BY <1>3, <2>1, <3>1, NearIsOther
  <2>2. CASE a >= b
    <3>1. a - b = UintRange - (h - i) /\ h - i \in 1 .. Burst - 1
      BY <1>1, <1>2, <2>2
    <3> QED
      BY <1>3, <3>1, AcrossWrapIsOther
  <2> QED
    BY <1>3, <2>1, <2>2
<1> QED
  BY <1>4 DEF a, b, NodeOf

LEMMA BurstSize ==
    ASSUME NEW k \in 0 .. UintRange - 1
    PROVE  Cardinality(BurstFrom(k)) = Burst
<1> USE NodesAssumption
<1> DEFINE rounds == 0 .. Burst - 1
           f == [i \in rounds |-> NodeOf(k, i)]
<1>1. f \in Bijection(rounds, BurstFrom(k))
  <2>1. \A i, h \in rounds : f[i] = f[h] => i = h
    <3> SUFFICES ASSUME NEW i \in rounds, NEW h \in rounds, i # h
                 PROVE  f[i] # f[h]
      OBVIOUS
    <3>1. i < h \/ h < i
      OBVIOUS
    <3> QED
      BY <3>1, RoundsDiffer
  <2>2. f \in [rounds -> BurstFrom(k)]
    BY DEF BurstFrom, NodeOf
  <2>3. \A n \in BurstFrom(k) : \E i \in rounds : f[i] = n
    BY DEF BurstFrom, NodeOf
  <2> QED
    BY <2>1, <2>2, <2>3 DEF Bijection, Injection, Surjection, IsInjective
<1>2. IsFiniteSet(rounds) /\ Cardinality(rounds) = Burst
  BY FS_Interval
<1> QED
  BY <1>1, <1>2, FS_Bijection DEF ExistsBijection

\* A burst that does not wrap and the one before it, which had not either.
LEMMA NextBurstDiffers ==
    ASSUME NEW k \in 0 .. UintRange - 1, k + 2 * Burst <= UintRange
    PROVE  BurstFrom(k) \cap BurstFrom(k + Burst) = {}
<1> USE NodesAssumption, WrapAssumption
<1> SUFFICES ASSUME NEW i \in 0 .. Burst - 1, NEW h \in 0 .. Burst - 1
             PROVE  NodeOf(k, i) # NodeOf(k + Burst, h)
  BY DEF BurstFrom, NodeOf
<1> DEFINE a == k + i
           b == k + Burst + h
<1>1. a % UintRange = a /\ b % UintRange = b
  BY Unsigned
<1>2. a \in Nat /\ b \in Nat /\ a < b /\ b - a < NodeCount
  OBVIOUS
<1> HIDE DEF a, b
<1>3. a % NodeCount # b % NodeCount
  BY <1>2, NearIsOther
<1> QED
  BY <1>1, <1>3 DEF NodeOf, a, b

\* As with 18 nodes, of which a burst takes 4, and 32 bits.
WrapsAfterBurst == UintRange % NodeCount = Burst

\* Where a call goes on from the last value of the counter to 0, the index
\* goes back to what it was `Burst` values before.
LEMMA WrapRepeats ==
    ASSUME WrapsAfterBurst, NEW b \in Nat
    PROVE  (UintRange - Burst + b) % NodeCount = b % NodeCount
<1> DEFINE a == UintRange - Burst + b
           m == a % NodeCount
           n == b % NodeCount
<1>1. a \in Nat /\ a = UintRange - Burst + b
  BY NodesAssumption, WrapAssumption
<1>2. PICK p \in Int : a = p * NodeCount + m
  BY <1>1, DivMod, NodesAssumption
<1>3. PICK q \in Int : b = q * NodeCount + n
  BY DivMod, NodesAssumption
<1>4. PICK u \in Int : UintRange = u * NodeCount + Burst
  BY DivMod, NodesAssumption DEF WrapsAfterBurst
<1>5. m \in 0 .. NodeCount - 1 /\ n \in 0 .. NodeCount - 1
  BY <1>1, DivMod, NodesAssumption
<1> HIDE DEF a, m, n
<1>6. m - n = (u + q - p) * NodeCount
  BY <1>1, <1>2, <1>3, <1>4, <1>5, NodesAssumption
<1>7. ~(0 < m - n /\ m - n < NodeCount) /\ ~(-NodeCount < m - n /\ m - n < 0)
  BY <1>5, <1>6, NoMultiple, NodesAssumption
<1>8. m = n
  BY <1>5, <1>7, NodesAssumption
<1> QED
  BY <1>8 DEF a, m, n

\* A burst that wraps, or comes after one that has, shares a node with the one
\* before it.
LEMMA NextBurstRepeats ==
    ASSUME WrapsAfterBurst, NEW k \in 0 .. UintRange - 1,
           NEW l \in 0 .. UintRange - 1, l = CounterAfter(k),
           l \notin Burst .. UintRange - Burst
    PROVE  BurstFrom(k) \cap BurstFrom(l) # {}
<1>1. Burst \in Nat \ {0} /\ UintRange \in Nat /\ 2 * Burst < UintRange
  BY NodesAssumption, WrapAssumption
<1>2. \A x \in 0 .. 2 * UintRange - 1 :
          x % UintRange = IF x < UintRange THEN x ELSE x - UintRange
  BY Unsigned
<1>3. l = IF k + Burst < UintRange THEN k + Burst ELSE k + Burst - UintRange
  <2> DEFINE x == k + Burst
             m == x % UintRange
  <2>1. x \in 0 .. 2 * UintRange - 1 /\ x = k + Burst
    BY <1>1
  <2>2. l = m
    BY DEF CounterAfter
  <2> HIDE DEF x
  <2>3. m = IF x < UintRange THEN x ELSE x - UintRange
    BY <2>1, Unsigned, Zenon
  <2> HIDE DEF m
  <2> QED
    BY <1>1, <2>1, <2>2, <2>3
<1>4. ASSUME NEW i \in 0 .. Burst - 1, NodeOf(k, i) = NodeOf(l, i)
      PROVE  BurstFrom(k) \cap BurstFrom(l) # {}
  <2>1. NodeOf(k, i) \in BurstFrom(k) /\ NodeOf(l, i) \in BurstFrom(l)
    BY DEF BurstFrom, NodeOf
  <2> QED
    BY <1>4, <2>1
<1>5. CASE l < Burst
  <2>1. k = UintRange - Burst + l /\ l \in Nat
    BY <1>1, <1>3, <1>5
  <2>2. k + 0 = k /\ l + 0 = l /\ k \in 0 .. 2 * UintRange - 1
        /\ l \in 0 .. 2 * UintRange - 1 /\ k < UintRange /\ l < UintRange
    BY <1>1
  <2>3. (k + 0) % UintRange = k /\ (l + 0) % UintRange = l
    BY <1>2, <2>2
  <2>4. NodeOf(k, 0) = k % NodeCount /\ NodeOf(l, 0) = l % NodeCount
    BY <2>3, Zenon DEF NodeOf
  <2>5. NodeOf(k, 0) = NodeOf(l, 0)
    BY <2>1, <2>4, WrapRepeats
  <2>6. 0 \in 0 .. Burst - 1
    BY <1>1
  <2> QED
    BY <1>4, <2>5, <2>6, Zenon
<1>6. CASE l > UintRange - Burst
  <2> DEFINE i == UintRange - l
  <2>1. /\ i \in 0 .. Burst - 1
        /\ k + i = UintRange - Burst + 0 /\ l + i = UintRange
        /\ k + i \in 0 .. 2 * UintRange - 1 /\ l + i \in 0 .. 2 * UintRange - 1
        /\ k + i < UintRange /\ ~(l + i < UintRange) /\ l + i - UintRange = 0
    BY <1>1, <1>3, <1>6
  <2> HIDE DEF i
  <2>2. (k + i) % UintRange = UintRange - Burst + 0 /\ (l + i) % UintRange = 0
    BY <1>2, <2>1
  <2>3. NodeOf(k, i) = (UintRange - Burst + 0) % NodeCount
        /\ NodeOf(l, i) = 0 % NodeCount
    BY <2>2, Zenon DEF NodeOf
  <2>4. NodeOf(k, i) = NodeOf(l, i)
    <3>1. 0 \in Nat
      OBVIOUS
    <3> QED
      BY <2>3, <3>1, WrapRepeats, Zenon
  <2> QED
    BY <1>4, <2>1, <2>4, Zenon
<1> QED
  BY <1>1, <1>5, <1>6

\* The last burst is the one whose counter has led to the present one.
LastBurst ==
    contacted = {} \/ \E k \in 0 .. UintRange - 1 :
                          contacted = BurstFrom(k) /\ j = CounterAfter(k)

BurstInv == IInv /\ LastBurst

LEMMA InitBurstInv == Init => BurstInv
  BY InitIInv DEF Init, BurstInv, LastBurst

\* A step leaves the burst alone, or is a call of bootstrap().
LEMMA StepBurst ==
    ASSUME IInv, [Next]_vars
    PROVE  \/ tries' <= tries /\ UNCHANGED <<j, contacted>>
           \/ contacted' = BurstFrom(j) /\ j' = CounterAfter(j)
<1> USE DEF IInv, TypeOK, CountersOK
<1>1. CASE TickOnline
  BY <1>1 DEF TickOnline
<1>2. CASE TickOffline
  BY <1>2 DEF TickOffline, Bootstrap
<1>3. CASE NetworkChange
  BY <1>3 DEF NetworkChange
<1>4. CASE UNCHANGED vars
  BY <1>4 DEF vars
<1> QED
  BY <1>1, <1>2, <1>3, <1>4 DEF Next, Tick

LEMMA StepBurstInv == BurstInv /\ [Next]_vars => BurstInv'
<1> SUFFICES ASSUME BurstInv, [Next]_vars
             PROVE  BurstInv'
  OBVIOUS
<1>1. IInv'
  BY StepIInv DEF BurstInv
<1>2. j \in 0 .. UintRange - 1
  BY DEF BurstInv, IInv, TypeOK, CountersOK
<1>3. LastBurst'
  <2>1. CASE UNCHANGED <<j, contacted>>
    BY <2>1 DEF BurstInv, LastBurst
  <2>2. CASE contacted' = BurstFrom(j) /\ j' = CounterAfter(j)
    BY <1>2, <2>2 DEF LastBurst
  <2> QED
    BY <2>1, <2>2, StepBurst DEF BurstInv
<1> QED
  BY <1>1, <1>3 DEF BurstInv

\* For every table and width of the counter that leave the burst room at the
\* wrap, no call of bootstrap() contacts a node twice.
THEOREM BurstIsDistinct == Spec => []BurstHasDistinctNodes
<1>1. BurstInv => BurstHasDistinctNodes
  <2> SUFFICES ASSUME LastBurst
               PROVE  BurstHasDistinctNodes
    BY DEF BurstInv
  <2>1. CASE contacted = {}
    BY <2>1, FS_EmptySet DEF BurstHasDistinctNodes
  <2>2. ASSUME NEW k \in 0 .. UintRange - 1, contacted = BurstFrom(k)
        PROVE  BurstHasDistinctNodes
    BY <2>2, BurstSize DEF BurstHasDistinctNodes
  <2> QED
    BY <2>1, <2>2 DEF LastBurst
<1> QED
  BY InitBurstInv, StepBurstInv, <1>1, PTL DEF Spec

\* Two successive calls share no node unless the counter wraps in one of them,
\* and do share one then if the table is as long as the code's.
THEOREM BurstIsFresh == Spec => NextBurstIsFresh
<1> DEFINE Fresh ==
             (tries' > tries /\ contacted # {}) =>
                IF j \in Burst .. UintRange - Burst THEN contacted \cap contacted' = {}
                ELSE UintRange % NodeCount = Burst => contacted \cap contacted' # {}
<1>1. BurstInv /\ [Next]_vars => [Fresh]_vars
  <2> SUFFICES ASSUME BurstInv, [Next]_vars, tries' > tries, contacted # {}
               PROVE  /\ j \in Burst .. UintRange - Burst =>
                           contacted \cap contacted' = {}
                      /\ j \notin Burst .. UintRange - Burst =>
                           (UintRange % NodeCount = Burst =>
                              contacted \cap contacted' # {})
    OBVIOUS
  <2>1. j \in 0 .. UintRange - 1 /\ tries \in Nat /\ tries' \in Nat
    BY StepIInv DEF BurstInv, IInv, TypeOK, CountersOK
  <2>2. contacted' = BurstFrom(j)
    <3>1. ~(tries' <= tries)
      BY <2>1
    <3> QED
      BY <3>1, StepBurst DEF BurstInv
  <2>3. PICK k \in 0 .. UintRange - 1 : contacted = BurstFrom(k) /\ j = CounterAfter(k)
    BY DEF BurstInv, LastBurst
  <2>4. ASSUME j \in Burst .. UintRange - Burst
        PROVE  contacted \cap contacted' = {}
    <3> USE NodesAssumption, WrapAssumption
    <3>1. j = k + Burst
      BY <2>3, <2>4, Unsigned DEF CounterAfter
    <3> QED
      BY <2>2, <2>3, <2>4, <3>1, NextBurstDiffers
  <2>5. ASSUME j \notin Burst .. UintRange - Burst, UintRange % NodeCount = Burst
        PROVE  contacted \cap contacted' # {}
    BY <2>1, <2>2, <2>3, <2>5, NextBurstRepeats DEF WrapsAfterBurst
  <2> QED
    BY <2>4, <2>5
<1>2. [][Fresh]_vars <=> NextBurstIsFresh
  BY DEF NextBurstIsFresh
<1> QED
  BY InitBurstInv, StepBurstInv, <1>1, <1>2, PTL DEF Spec
=============================================================================
