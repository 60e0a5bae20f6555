------------------------ MODULE ContactsModelProofs ------------------------
(***************************************************************************)
(* Proofs about ContactsModel, for every set of keys, names and status     *)
(* messages, every decoding of them and every length of the list.          *)
(***************************************************************************)
EXTENDS ContactsModel, TLAPS

\* Before init() there is nothing to show, and the object has not been freed.
Unwired == tox = "null" => /\ memory = "alive"
                           /\ \A i \in 1..MaxFriends : shown[i] = None

IInv == TypeOK /\ Unwired /\ RowsMirrorCore /\ ShownIsCurrent

-----------------------------------------------------------------------------
(* Rows and delegates                                                      *)

\* Row r is what friend c of tox, with the given id, looks like.
Mirrors(r, id, c) == /\ r.id = id
                     /\ r.key = c.key
                     /\ r.name = FromUtf8[c.name]
                     /\ r.status = FromUtf8[c.status]

LEMMA DecodedType ==
    ASSUME NEW c \in CoreFriend
    PROVE  /\ FromUtf8[c.name] \in Strings /\ FromUtf8[c.status] \in Strings
           /\ c.key \in Keys
  BY BytesAssumption DEF CoreFriend

LEMMA RowMirrors ==
    ASSUME NEW id \in Nat, NEW c \in CoreFriend
    PROVE  Row(id, c) \in Friend /\ Mirrors(Row(id, c), id, c)
  BY DecodedType DEF Row, Copy, Friend, Mirrors

LEMMA DataShows ==
    ASSUME NEW r \in Friend, NEW id, NEW c \in CoreFriend, Mirrors(r, id, c)
    PROVE  Data(r) \in Delegate /\ ShowsFriend(Data(r), c)
  BY DecodedType DEF Data, Delegate, ShowsFriend, Mirrors, Friend

LEMMA BlankType == Blank \in Delegate
  BY BytesAssumption DEF Blank, Delegate

\* The same invariants by Mirrors.
LEMMA MirrorForm ==
    RowsMirrorCore <=>
        (tox = "set" => /\ Len(rows) = Len(core)
                        /\ \A i \in 1..Len(core) : Mirrors(rows[i], i - 1, core[i]))
  BY DEF RowsMirrorCore, Mirrors

LEMMA MirrorFormNext ==
    RowsMirrorCore' <=>
        (tox' = "set" => /\ Len(rows') = Len(core')
                         /\ \A i \in 1..Len(core') :
                                Mirrors(rows'[i], i - 1, core'[i]))
  BY DEF RowsMirrorCore, Mirrors

\* A callback finds the row of its friend, and no other.
LEMMA FoundRow ==
    ASSUME TypeOK, RowsMirrorCore, tox = "set", NEW i \in 1..Len(core)
    PROVE  /\ i \in 1..Len(rows)
           /\ rows[i].id = i - 1
           /\ \A k : FoundAt(i - 1, k) => k = i
<1>1. Len(core) \in Nat
  BY DEF TypeOK
<1>2. /\ Len(rows) = Len(core)
      /\ \A k \in 1..Len(core) : rows[k].id = k - 1
  BY DEF RowsMirrorCore
<1> QED
  BY <1>1, <1>2 DEF FoundAt

-----------------------------------------------------------------------------
(* Steps                                                                   *)

\* Friend i changes to c in tox's list, and its row to r.
LEMMA ReplaceKeeps ==
    ASSUME IInv, Running, UNCHANGED <<memory, tox>>,
           NEW i \in 1..Len(core), NEW c \in CoreFriend, NEW r \in Friend,
           Mirrors(r, i - 1, c),
           core' = [core EXCEPT ![i] = c], Replace(i, r)
    PROVE  IInv'
<1>1. /\ core \in Seq(CoreFriend) /\ Len(core) <= MaxFriends
      /\ rows \in Seq(Friend) /\ Len(rows) = Len(core)
      /\ shown \in [1..MaxFriends -> Delegate \cup {None}]
      /\ Len(core) \in Nat
      /\ tox = "set" /\ memory = "alive"
  BY DEF IInv, TypeOK, RowsMirrorCore, Running
<1>2. /\ core' \in Seq(CoreFriend) /\ Len(core') = Len(core)
      /\ \A k \in 1..Len(core) : core'[k] = IF k = i THEN c ELSE core[k]
  BY <1>1
<1>3. /\ rows' \in Seq(Friend) /\ Len(rows') = Len(core)
      /\ \A k \in 1..Len(core) : rows'[k] = IF k = i THEN r ELSE rows[k]
  BY <1>1 DEF Replace
<1>4. Data(r) \in Delegate /\ ShowsFriend(Data(r), c)
  BY DataShows
<1>5. /\ shown' \in [1..MaxFriends -> Delegate \cup {None}]
      /\ \A k \in 1..MaxFriends :
            shown'[k] = IF k = i /\ shown[i] # None THEN Data(r) ELSE shown[k]
  BY <1>1, <1>4, MaxAssumption DEF Replace, Refreshed
<1>6. TypeOK'
  BY <1>1, <1>2, <1>3, <1>5 DEF TypeOK
<1>7. RowsMirrorCore'
  <2>1. \A k \in 1..Len(core) : Mirrors(rows[k], k - 1, core[k])
    BY <1>1, MirrorForm DEF IInv
  <2>2. \A k \in 1..Len(core') : Mirrors(rows'[k], k - 1, core'[k])
    BY <1>2, <1>3, <2>1
  <2> QED
    BY <1>2, <1>3, <2>2, MirrorFormNext
<1>8. ShownIsCurrent'
  <2> SUFFICES ASSUME NEW k \in 1..MaxFriends, shown'[k] # None
               PROVE  k <= Len(core') /\ ShowsFriend(shown'[k], core'[k])
    BY DEF ShownIsCurrent, ShowsFriend
  <2>1. CASE k = i /\ shown[i] # None
    BY <1>1, <1>2, <1>4, <1>5, <2>1
  <2>2. CASE k # i
    <3>1. shown'[k] = shown[k] /\ shown[k] # None
      BY <1>5, <2>2
    <3>2. k <= Len(core) /\ ShowsFriend(shown[k], core[k])
      BY <1>1, <3>1 DEF IInv, ShownIsCurrent
    <3> QED
      BY <1>1, <1>2, <2>2, <3>1, <3>2
  <2>3. CASE k = i /\ shown[i] = None
    BY <1>5, <2>3
  <2> QED
    BY <2>1, <2>2, <2>3
<1> QED
  BY <1>1, <1>6, <1>7, <1>8 DEF IInv, Unwired

LEMMA InitIInv == Init => IInv
<1> SUFFICES ASSUME Init
             PROVE  IInv
  OBVIOUS
<1>1. PICK n \in 0..MaxFriends : core \in [1..n -> CoreFriend]
  BY DEF Init
<1>2. core \in Seq(CoreFriend) /\ Len(core) <= MaxFriends
  BY <1>1, MaxAssumption
<1>3. TypeOK
  BY <1>2 DEF Init, TypeOK
<1> QED
  BY <1>3 DEF Init, IInv, Unwired, RowsMirrorCore, ShownIsCurrent

LEMMA ModelInitKeeps ==
    ASSUME IInv, ModelInit
    PROVE  IInv'
<1>1. /\ core' = core /\ memory' = memory /\ shown' = shown /\ tox' = "set"
      /\ rows' = [i \in 1..Len(core) |-> Row(i - 1, core[i])]
      /\ tox = "null"
  BY DEF ModelInit
<1>2. /\ core \in Seq(CoreFriend) /\ Len(core) \in Nat
      /\ \A i \in 1..Len(core) : core[i] \in CoreFriend
  BY DEF IInv, TypeOK
<1>3. \A i \in 1..Len(core) :
          Row(i - 1, core[i]) \in Friend /\ Mirrors(Row(i - 1, core[i]), i - 1, core[i])
  BY <1>2, RowMirrors
<1>4. /\ rows' \in Seq(Friend) /\ Len(rows') = Len(core)
      /\ \A i \in 1..Len(core) : Mirrors(rows'[i], i - 1, core[i])
  BY <1>1, <1>2, <1>3
<1>5. RowsMirrorCore'
  BY <1>1, <1>4, MirrorFormNext
<1>6. TypeOK'
  BY <1>1, <1>4 DEF IInv, TypeOK
<1>7. ShownIsCurrent'
  BY <1>1 DEF IInv, Unwired, ShownIsCurrent
<1> QED
  BY <1>1, <1>5, <1>6, <1>7 DEF IInv, Unwired

LEMMA FriendAddedKeeps ==
    ASSUME IInv, NEW k \in Keys, FriendAdded(k)
    PROVE  IInv'
<1> DEFINE f == [key |-> k, name |-> NoBytes, status |-> NoBytes]
           n == Len(core)
<1>1. /\ Running /\ n < MaxFriends
      /\ core' = Append(core, f) /\ rows' = Append(rows, Row(n, f))
      /\ UNCHANGED <<memory, tox, shown>>
  BY DEF FriendAdded
<1>2. f \in CoreFriend
  BY BytesAssumption DEF CoreFriend
<1>3. /\ core \in Seq(CoreFriend) /\ n \in Nat
      /\ rows \in Seq(Friend) /\ Len(rows) = n
      /\ \A i \in 1..n : Mirrors(rows[i], i - 1, core[i])
      /\ tox = "set" /\ memory = "alive"
  BY <1>1, MirrorForm DEF IInv, TypeOK, Running, RowsMirrorCore
<1>4. Row(n, f) \in Friend /\ Mirrors(Row(n, f), n, f)
  BY <1>2, <1>3, RowMirrors
<1> HIDE DEF f
<1>5. /\ core' \in Seq(CoreFriend) /\ Len(core') = n + 1
      /\ \A i \in 1..n : core'[i] = core[i]
      /\ core'[n + 1] = f
  BY <1>1, <1>2, <1>3
<1>6. /\ rows' \in Seq(Friend) /\ Len(rows') = n + 1
      /\ \A i \in 1..n : rows'[i] = rows[i]
      /\ rows'[n + 1] = Row(n, f)
  BY <1>1, <1>3, <1>4
<1> HIDE DEF n
<1>7. RowsMirrorCore'
  <2>1. \A i \in 1..(n + 1) : i \in 1..n \/ (i = n + 1 /\ i - 1 = n)
    BY <1>3
  <2>2. \A i \in 1..(n + 1) : Mirrors(rows'[i], i - 1, core'[i])
    BY <1>3, <1>4, <1>5, <1>6, <2>1
  <2> QED
    BY <1>5, <1>6, <2>2, MirrorFormNext
<1>8. TypeOK'
  BY <1>1, <1>3, <1>5, <1>6, MaxAssumption DEF IInv, TypeOK
<1>9. ShownIsCurrent'
  <2>1. \A i \in 1..MaxFriends :
            shown[i] # None => i <= n /\ ShowsFriend(shown[i], core[i])
    BY <1>3 DEF IInv, ShownIsCurrent, n
  <2>2. \A i \in 1..MaxFriends :
            shown[i] # None => i <= n + 1 /\ ShowsFriend(shown[i], core'[i])
    BY <1>3, <1>5, <2>1
  <2>3. \A i \in 1..MaxFriends :
            shown'[i] # None => i <= Len(core') /\ ShowsFriend(shown'[i], core'[i])
    BY <1>1, <1>5, <2>2
  <2> QED
    BY <2>3 DEF ShownIsCurrent, ShowsFriend
<1> QED
  BY <1>1, <1>3, <1>7, <1>8, <1>9 DEF IInv, Unwired

LEMMA NameReceivedKeeps ==
    ASSUME IInv, NEW i \in 1..MaxFriends, NEW b \in Bytes, NameReceived(i, b)
    PROVE  IInv'
<1> DEFINE c == [core[i] EXCEPT !.name = b]
           r == [rows[i] EXCEPT !.name = FromUtf8[b]]
<1>1. /\ Running /\ i \in 1..Len(core) /\ UNCHANGED <<memory, tox>>
      /\ core' = [core EXCEPT ![i] = c]
      /\ SetFriendName(i - 1, FromUtf8[b])
  BY DEF NameReceived
<1>2. /\ TypeOK /\ RowsMirrorCore /\ tox = "set"
  BY <1>1 DEF IInv, Running
<1>3. /\ i \in 1..Len(rows) /\ rows[i].id = i - 1
      /\ \A k : FoundAt(i - 1, k) => k = i
  BY <1>1, <1>2, FoundRow
<1>4. Replace(i, r)
  BY <1>1, <1>3 DEF SetFriendName, NoSuchRow
<1>5. core[i] \in CoreFriend /\ rows[i] \in Friend /\ Mirrors(rows[i], i - 1, core[i])
  BY <1>1, <1>2, <1>3, MirrorForm DEF TypeOK
<1>6. c \in CoreFriend /\ r \in Friend /\ Mirrors(r, i - 1, c)
  BY <1>5, BytesAssumption DEF CoreFriend, Friend, Mirrors
<1> HIDE DEF c, r
<1> QED
  BY <1>1, <1>4, <1>6, ReplaceKeeps

LEMMA StatusReceivedKeeps ==
    ASSUME IInv, NEW i \in 1..MaxFriends, NEW b \in Bytes, StatusReceived(i, b)
    PROVE  IInv'
<1> DEFINE c == [core[i] EXCEPT !.status = b]
           r == [rows[i] EXCEPT !.status = FromUtf8[b]]
<1>1. /\ Running /\ i \in 1..Len(core) /\ UNCHANGED <<memory, tox>>
      /\ core' = [core EXCEPT ![i] = c]
      /\ SetFriendStatusMessage(i - 1, FromUtf8[b])
  BY DEF StatusReceived
<1>2. /\ TypeOK /\ RowsMirrorCore /\ tox = "set"
  BY <1>1 DEF IInv, Running
<1>3. /\ i \in 1..Len(rows) /\ rows[i].id = i - 1
      /\ \A k : FoundAt(i - 1, k) => k = i
  BY <1>1, <1>2, FoundRow
<1>4. Replace(i, r)
  BY <1>1, <1>3 DEF SetFriendStatusMessage, NoSuchRow
<1>5. core[i] \in CoreFriend /\ rows[i] \in Friend /\ Mirrors(rows[i], i - 1, core[i])
  BY <1>1, <1>2, <1>3, MirrorForm DEF TypeOK
<1>6. c \in CoreFriend /\ r \in Friend /\ Mirrors(r, i - 1, c)
  BY <1>5, BytesAssumption DEF CoreFriend, Friend, Mirrors
<1> HIDE DEF c, r
<1> QED
  BY <1>1, <1>4, <1>6, ReplaceKeeps

\* A step that only changes the delegate of row i to d: none, or any while
\* the object is freed, or the right one.
LEMMA DelegateKeeps ==
    ASSUME IInv, UNCHANGED <<core, memory, tox, rows>>,
           NEW i \in 1..MaxFriends, NEW d \in Delegate \cup {None},
           tox = "null" => d = None,
           (memory = "alive" /\ d # None) =>
               i <= Len(core) /\ ShowsFriend(d, core[i]),
           shown' = [shown EXCEPT ![i] = d]
    PROVE  IInv'
<1>1. /\ shown' \in [1..MaxFriends -> Delegate \cup {None}]
      /\ \A k \in 1..MaxFriends : shown'[k] = IF k = i THEN d ELSE shown[k]
  BY DEF IInv, TypeOK
<1>2. TypeOK' /\ RowsMirrorCore' /\ Unwired'
  BY <1>1 DEF IInv, TypeOK, RowsMirrorCore, Unwired
<1>3. ShownIsCurrent'
  BY <1>1 DEF IInv, ShownIsCurrent, ShowsFriend
<1> QED
  BY <1>2, <1>3 DEF IInv

LEMMA CreateDelegateKeeps ==
    ASSUME IInv, NEW i \in 1..MaxFriends, CreateDelegate(i)
    PROVE  IInv'
<1>1. /\ tox = "set" /\ i \in 1..Len(rows)
      /\ UNCHANGED <<core, memory, tox, rows>>
  BY DEF CreateDelegate
<1>2. PICK counted \in BOOLEAN :
          /\ memory = "alive" => (counted <=> i <= Len(core))
          /\ shown' = [shown EXCEPT ![i] = IF counted THEN Data(rows[i]) ELSE Blank]
  BY DEF CreateDelegate
<1>3. /\ Len(rows) = Len(core) /\ Len(core) \in Nat
      /\ rows[i] \in Friend /\ core[i] \in CoreFriend
      /\ Mirrors(rows[i], i - 1, core[i])
  BY <1>1, MirrorForm DEF IInv, TypeOK
<1>4. Data(rows[i]) \in Delegate /\ ShowsFriend(Data(rows[i]), core[i])
  BY <1>3, DataShows
<1>5. CASE counted
  BY <1>1, <1>2, <1>3, <1>4, <1>5, DelegateKeeps
<1>6. CASE ~counted
  <2>1. memory # "alive"
    BY <1>1, <1>2, <1>3, <1>6
  <2> QED
    BY <1>1, <1>2, <1>6, <2>1, BlankType, DelegateKeeps
<1> QED
  BY <1>5, <1>6

LEMMA StepIInv == IInv /\ [Next]_vars => IInv'
<1> SUFFICES ASSUME IInv, [Next]_vars
             PROVE  IInv'
  OBVIOUS
<1>1. CASE ModelInit
  BY <1>1, ModelInitKeeps
<1>2. CASE Kill
  BY <1>2 DEF Kill, Running, IInv, TypeOK, Unwired, RowsMirrorCore, ShownIsCurrent
<1>3. ASSUME NEW k \in Keys, FriendAdded(k)
      PROVE  IInv'
  BY <1>3, FriendAddedKeeps
<1>4. ASSUME NEW i \in 1..MaxFriends, CreateDelegate(i)
      PROVE  IInv'
  BY <1>4, CreateDelegateKeeps
<1>5. ASSUME NEW i \in 1..MaxFriends, DestroyDelegate(i)
      PROVE  IInv'
  BY <1>5, DelegateKeeps DEF DestroyDelegate
<1>6. ASSUME NEW i \in 1..MaxFriends, NEW b \in Bytes,
             NameReceived(i, b) \/ StatusReceived(i, b)
      PROVE  IInv'
  BY <1>6, NameReceivedKeeps, StatusReceivedKeeps
<1>7. CASE UNCHANGED vars
  BY <1>7 DEF vars, IInv, TypeOK, Unwired, RowsMirrorCore, ShownIsCurrent, ShowsFriend
<1> QED
  BY <1>1, <1>2, <1>3, <1>4, <1>5, <1>6, <1>7 DEF Next

LEMMA AlwaysIInv == Spec => []IInv
  BY InitIInv, StepIInv, PTL DEF Spec

-----------------------------------------------------------------------------
(* The theorems                                                            *)

\* tox's list, the rows and the delegates keep their types.
THEOREM TypeCorrect == Spec => []TypeOK
<1>1. IInv => TypeOK
  BY DEF IInv
<1> QED
  BY AlwaysIInv, <1>1, PTL

\* The model's rows are tox's friends, in order, under their current names.
THEOREM ModelMirrorsTox == Spec => []RowsMirrorCore
<1>1. IInv => RowsMirrorCore
  BY DEF IInv
<1> QED
  BY AlwaysIInv, <1>1, PTL

\* What the contacts page shows of a friend is what tox knows of that friend.
THEOREM ViewIsCurrent == Spec => []ShownIsCurrent
<1>1. IInv => ShownIsCurrent
  BY DEF IInv
<1> QED
  BY AlwaysIInv, <1>1, PTL
=============================================================================
