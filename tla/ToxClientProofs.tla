-------------------------- MODULE ToxClientProofs --------------------------
(***************************************************************************)
(* Proofs about ToxClient.  The components agree because each step changes *)
(* their lists together: by nothing, or by the same new friend.            *)
(***************************************************************************)
EXTENDS ToxClient, TLAPS

CoreKeys == {core[i].key : i \in 1..Len(core)}

\* The types as far as the lists of friends go.
UiType ==
    /\ friends \in [Keys -> AF!Friend \cup {None}]
    /\ address \in AF!Texts \cup {None}
    /\ shown \in Keys \cup {None}
    /\ result \in [user : AF!Users, success : BOOLEAN]

ModelType ==
    /\ core \in Seq(CM!CoreFriend)
    /\ rows \in Seq(CM!Friend)
    /\ pointer \in {"null", "set"}
    /\ \A i, j \in 1..Len(core) : core[i].key = core[j].key => i = j

AccountType ==
    /\ account \in P!Accounts \cup {None}
    /\ file \in P!Files \cup {None}
    /\ saved \in BOOLEAN
    /\ kept \in SUBSET Keys

\* The rows are tox's friends as soon as the model is wired.
RowsAreCore ==
    pointer = "set" => /\ Len(rows) = Len(core)
                       /\ \A i \in 1..Len(core) : rows[i].key = core[i].key

\* tox, the checks of the client and the account have the same friends; the
\* first two even after a kill.
Joined ==
    /\ account # None => CoreKeys = account.friends
                         /\ FriendKeys(friends) = account.friends
    /\ pointer = "set" => FriendKeys(friends) = CoreKeys

\* A success is one of a friend on tox's list, which a kill does not change.
Reported == /\ result.success => pointer = "set"
            /\ Added \subseteq CoreKeys

FileHolds == (account # None /\ saved) => file = P!Holding(account)

\* What is kept is in the file that the next session resumes.
KeptSafe ==
    /\ kept # {} => file # None /\ kept \subseteq file.account.friends
    /\ account # None => kept \subseteq account.friends

IInv == /\ UiType /\ ModelType /\ AccountType
        /\ RowsAreCore /\ Joined /\ Reported
        /\ FileHolds /\ SuccessIsSaved /\ KeptSafe

-----------------------------------------------------------------------------
(* The pages                                                               *)

\* A new entry in tox's friend list.
LEMMA NewEntry ==
    ASSUME UiType, NEW k \in Keys, NEW f \in AF!Friend,
           friends' = [friends EXCEPT ![k] = f]
    PROVE  /\ friends' \in [Keys -> AF!Friend \cup {None}]
           /\ FriendKeys(friends') = FriendKeys(friends) \cup {k}
<1>1. f # None
  BY NoneAssumption
<1>2. friends' \in [Keys -> AF!Friend \cup {None}]
  BY DEF UiType
<1>3. \A l \in Keys : friends'[l] = IF l = k THEN f ELSE friends[l]
  BY DEF UiType
<1> QED
  BY <1>1, <1>2, <1>3 DEF FriendKeys

\* A step that asks tox for a friend: the list stays, or gets one entry, who
\* is the one reported, if the report names a key.
Asked ==
    \/ FriendKeys(friends') = FriendKeys(friends) /\ ~result'.success
    \/ \E k \in Keys \ FriendKeys(friends) :
          /\ FriendKeys(friends') = FriendKeys(friends) \cup {k}
          /\ Added' \subseteq {k}

LEMMA AcceptAsks ==
    ASSUME UiType, AF!AcceptFriendRequest
    PROVE  UiType' /\ Asked
<1>1. shown \in Keys
  BY DEF UiType, AF!AcceptFriendRequest
<1>2. address' = address /\ shown' = None
      /\ result' \in [user : AF!Users, success : BOOLEAN]
      /\ result'.user = shown
  <2>1. address' = address /\ shown' = None
    BY DEF AF!AcceptFriendRequest, AF!OnFriendAdded, AF!OnFailedToAddFriend
  <2>2. \E b \in BOOLEAN : result' = [user |-> shown, success |-> b]
    BY DEF AF!AcceptFriendRequest, AF!OnFriendAdded, AF!OnFailedToAddFriend
  <2>3. ASSUME NEW b \in BOOLEAN, result' = [user |-> shown, success |-> b]
        PROVE  /\ result' \in [user : AF!Users, success : BOOLEAN]
               /\ result'.user = shown
    BY <1>1, <2>3 DEF AF!Users
  <2> QED
    BY <2>1, <2>2, <2>3
<1>3. CASE friends' = friends /\ ~result'.success
  BY <1>2, <1>3 DEF UiType, Asked
<1>4. CASE /\ ~AF!IsFriend(shown) /\ result'.success
           /\ friends' = AF!FriendsWithConfirmed(shown)
  <2> DEFINE f == [nospam |-> None, confirmed |-> TRUE]
  <2>1. f \in AF!Friend
    BY DEF AF!Friend
  <2>2. friends' = [friends EXCEPT ![shown] = f]
    BY <1>4 DEF AF!FriendsWithConfirmed
  <2> HIDE DEF f
  <2>3. /\ friends' \in [Keys -> AF!Friend \cup {None}]
        /\ FriendKeys(friends') = FriendKeys(friends) \cup {shown}
    BY <1>1, <2>1, <2>2, NewEntry
  <2>4. shown \in Keys \ FriendKeys(friends)
    BY <1>1, <1>4 DEF FriendKeys, AF!IsFriend
  <2> QED
    BY <1>2, <1>4, <2>3, <2>4 DEF UiType, Asked, Added
<1> QED
  BY <1>3, <1>4
     DEF AF!AcceptFriendRequest, AF!OnFriendAdded, AF!OnFailedToAddFriend

\* What tox reads of the text, and whom the report can name then.
LEMMA ReadType ==
    ASSUME NEW text \in AF!Texts \cup {None}, NEW a \in AF!Read(text)
    PROVE  /\ a \in AF!Addresses
           /\ AF!UserId(text, a) \in {a.key, Other, None}
<1>1. CASE text # None /\ text.form \in {"good", "bad"}
  <2>1. text \in [user : Keys \cup {OwnKey}, nospam : Nospams, form : {"good", "bad"}]
    BY <1>1 DEF AF!Texts
  <2>2. a = [key |-> text.user, nospam |-> text.nospam, valid |-> text.form = "good"]
    BY <1>1 DEF AF!Read
  <2> QED
    BY <2>1, <2>2 DEF AF!Addresses, AF!UserId
<1>2. CASE ~(text # None /\ text.form \in {"good", "bad"})
  BY <1>2 DEF AF!Read, AF!UserId
<1> QED
  BY <1>1, <1>2

LEMMA ConfirmAsks ==
    ASSUME UiType, AF!ConfirmAddFriend
    PROVE  UiType' /\ Asked
<1>1. address \in AF!Texts \cup {None}
  BY DEF UiType
<1>2. PICK a \in AF!Read(address), outcome \in AF!Outcomes :
        /\ friends' = AF!FriendsAfter(a, AF!RequestCode(address, a, outcome))
        /\ \/ /\ AF!RequestCode(address, a, outcome) = "OK"
              /\ AF!OnFriendAdded(AF!UserId(address, a))
              /\ address' = None
           \/ /\ AF!RequestCode(address, a, outcome) # "OK"
              /\ AF!OnFailedToAddFriend(AF!UserId(address, a))
              /\ address' = address
  BY DEF AF!ConfirmAddFriend, AF!ClearFields
<1> DEFINE code == AF!RequestCode(address, a, outcome)
           user == AF!UserId(address, a)
<1>3. code = "OK" => a.key # OwnKey /\ ~AF!IsFriend(a.key)
  BY DEF AF!RequestCode, AF!AddFriendCode
<1>4. code = "SETNEWNOSPAM" => AF!IsFriend(a.key)
  BY DEF AF!RequestCode, AF!AddFriendCode, AF!Outcomes
<1>5. /\ a.key \in Keys \cup {OwnKey} /\ a.nospam \in Nospams
      /\ user \in {a.key, Other, None}
  BY <1>1, ReadType DEF AF!Addresses
<1> HIDE DEF code, user
<1>6. /\ shown' = None /\ address' \in AF!Texts \cup {None}
      /\ result' = [user |-> user, success |-> (code = "OK")]
  BY <1>1, <1>2 DEF AF!OnFriendAdded, AF!OnFailedToAddFriend, code, user
<1>7. result' \in [user : AF!Users, success : BOOLEAN]
      /\ (result'.success <=> code = "OK") /\ result'.user = user
  BY <1>5, <1>6 DEF AF!Users
<1>8. CASE code = "OK"
  <2> DEFINE f == [nospam |-> a.nospam, confirmed |-> FALSE]
  <2>1. f \in AF!Friend
    BY <1>5 DEF AF!Friend
  <2>2. friends' = [friends EXCEPT ![a.key] = f]
    BY <1>2, <1>8 DEF AF!FriendsAfter, code
  <2>3. a.key \in Keys
    BY <1>3, <1>5, <1>8
  <2> HIDE DEF f
  <2>4. /\ friends' \in [Keys -> AF!Friend \cup {None}]
        /\ FriendKeys(friends') = FriendKeys(friends) \cup {a.key}
    BY <2>1, <2>2, <2>3, NewEntry
  <2>5. a.key \in Keys \ FriendKeys(friends)
    BY <1>3, <1>8, <2>3 DEF FriendKeys, AF!IsFriend
  <2>6. Added' \subseteq {a.key}
    BY <1>5, <1>7, NoneAssumption DEF Added
  <2> QED
    BY <1>6, <1>7, <2>4, <2>5, <2>6 DEF UiType, Asked
<1>9. CASE code = "SETNEWNOSPAM"
  <2>1. a.key \in Keys /\ friends[a.key] # None
    BY <1>4, <1>9 DEF AF!IsFriend
  <2> DEFINE f == [friends[a.key] EXCEPT !.nospam = a.nospam]
  <2>2. friends[a.key] \in AF!Friend
    BY <2>1 DEF UiType
  <2>3. f \in AF!Friend
    BY <1>5, <2>2 DEF AF!Friend
  <2>4. friends' = [friends EXCEPT ![a.key] = f]
    BY <1>2, <1>9 DEF AF!FriendsAfter, code
  <2> HIDE DEF f
  <2>5. /\ friends' \in [Keys -> AF!Friend \cup {None}]
        /\ FriendKeys(friends') = FriendKeys(friends) \cup {a.key}
    BY <2>1, <2>3, <2>4, NewEntry
  <2>6. FriendKeys(friends') = FriendKeys(friends)
    BY <2>1, <2>5 DEF FriendKeys
  <2> QED
    BY <1>6, <1>7, <1>9, <2>5, <2>6 DEF UiType, Asked
<1>10. CASE code \notin {"OK", "SETNEWNOSPAM"}
  <2>1. friends' = friends
    BY <1>2, <1>10 DEF AF!FriendsAfter, code
  <2> QED
    BY <1>6, <1>7, <1>10, <2>1 DEF UiType, Asked
<1> QED
  BY <1>8, <1>9, <1>10

\* What the other operations of the pages leave: friends and successes.
LEMMA OthersKeep ==
    ASSUME UiType,
           \/ AF!Navigate \/ AF!CancelAddFriend \/ AF!CloseDialog
           \/ \E text \in AF!Texts \cup {None}, msg \in AF!Messages :
                 AF!Type(text, msg)
           \/ \E k \in Keys : AF!FriendRequestReceived(k) \/ AF!FriendConfirms(k)
    PROVE  /\ UiType'
           /\ FriendKeys(friends') = FriendKeys(friends)
           /\ result' = result \/ ~result'.success
<1>1. CASE AF!Navigate \/ AF!CancelAddFriend \/ AF!CloseDialog
  BY <1>1 DEF UiType, AF!Navigate, AF!GoTo, AF!CancelAddFriend, AF!ClearFields,
              AF!CloseDialog
<1>2. ASSUME NEW text \in AF!Texts \cup {None}, NEW msg, AF!Type(text, msg)
      PROVE  /\ UiType' /\ result' = result
             /\ FriendKeys(friends') = FriendKeys(friends)
  BY <1>2 DEF UiType, AF!Type
<1>3. ASSUME NEW k \in Keys, AF!FriendRequestReceived(k)
      PROVE  /\ UiType' /\ ~result'.success
             /\ FriendKeys(friends') = FriendKeys(friends)
  BY <1>3 DEF UiType, AF!FriendRequestReceived, AF!Users
<1>4. ASSUME NEW k \in Keys, AF!FriendConfirms(k)
      PROVE  /\ UiType' /\ result' = result
             /\ FriendKeys(friends') = FriendKeys(friends)
  <2> DEFINE f == [friends[k] EXCEPT !.confirmed = TRUE]
  <2>1. friends[k] # None /\ friends[k] \in AF!Friend
    BY <1>4 DEF UiType, AF!FriendConfirms, AF!IsFriend
  <2>2. f \in AF!Friend
    BY <2>1 DEF AF!Friend
  <2>3. friends' = [friends EXCEPT ![k] = f]
    BY <1>4 DEF AF!FriendConfirms
  <2> HIDE DEF f
  <2>4. /\ friends' \in [Keys -> AF!Friend \cup {None}]
        /\ FriendKeys(friends') = FriendKeys(friends) \cup {k}
    BY <2>2, <2>3, NewEntry
  <2>5. FriendKeys(friends') = FriendKeys(friends)
    BY <2>1, <2>4 DEF FriendKeys
  <2> QED
    BY <1>4, <2>4, <2>5 DEF UiType, AF!FriendConfirms
<1> QED
  BY <1>1, <1>2, <1>3, <1>4

-----------------------------------------------------------------------------
(* The contacts model                                                      *)

\* The model's part of the invariant; and what its steps do to tox's list.
ModelInv == ModelType /\ RowsAreCore

LEMMA WireModel ==
    ASSUME ModelInv, CM!ModelInit
    PROVE  ModelInv' /\ core' = core /\ pointer' = "set"
<1>1. /\ core' = core /\ pointer' = "set"
      /\ rows' = [i \in 1..Len(core) |-> CM!Row(i - 1, core[i])]
  BY DEF CM!ModelInit
<1>2. ASSUME NEW i \in 1..Len(core)
      PROVE  /\ CM!Row(i - 1, core[i]) \in CM!Friend
             /\ CM!Row(i - 1, core[i]).key = core[i].key
  <2>1. core[i] \in CM!CoreFriend
    BY DEF ModelInv, ModelType
  <2>2. i - 1 \in Nat
    OBVIOUS
  <2> QED
    BY <2>1, <2>2, BytesAssumption DEF CM!Row, CM!Copy, CM!Friend, CM!CoreFriend
<1>3. Len(core) \in Nat
  BY DEF ModelInv, ModelType
<1> DEFINE r == [i \in 1..Len(core) |-> CM!Row(i - 1, core[i])]
<1>4. r \in Seq(CM!Friend) /\ Len(r) = Len(core)
      /\ \A i \in 1..Len(core) : r[i].key = core[i].key
  BY <1>2, <1>3
<1> HIDE DEF r
<1>5. rows' = r
  BY <1>1 DEF r
<1> QED
  BY <1>1, <1>4, <1>5 DEF ModelInv, ModelType, RowsAreCore

\* A new friend is a new row.
LEMMA AddToModel ==
    ASSUME ModelInv, NEW k \in Keys, CM!FriendAdded(k)
    PROVE  /\ ModelInv' /\ pointer' = pointer
           /\ CoreKeys' = CoreKeys \cup {k}
<1> DEFINE f == [key |-> k, name |-> NoBytes, status |-> NoBytes]
           r == CM!Row(Len(core), f)
<1>1. /\ pointer = "set" /\ pointer' = pointer
      /\ core' = Append(core, f) /\ rows' = Append(rows, r)
      /\ \A i \in 1..Len(core) : core[i].key # k
  BY DEF CM!FriendAdded, CM!Running
<1>2. f \in CM!CoreFriend /\ f.key = k
  BY BytesAssumption DEF CM!CoreFriend
<1>3. core \in Seq(CM!CoreFriend) /\ rows \in Seq(CM!Friend)
  BY DEF ModelInv, ModelType
<1>4. r \in CM!Friend /\ r.key = k
  BY <1>3, BytesAssumption DEF CM!Row, CM!Copy, CM!Friend
<1>5. Len(rows) = Len(core) /\ \A i \in 1..Len(core) : rows[i].key = core[i].key
  BY <1>1 DEF ModelInv, RowsAreCore
<1> HIDE DEF f, r
<1>6. /\ core' \in Seq(CM!CoreFriend) /\ Len(core') = Len(core) + 1
      /\ rows' \in Seq(CM!Friend) /\ Len(rows') = Len(rows) + 1
      /\ \A i \in 1..Len(core) : core'[i] = core[i] /\ rows'[i] = rows[i]
      /\ core'[Len(core) + 1] = f /\ rows'[Len(core) + 1] = r
  BY <1>1, <1>2, <1>3, <1>4, <1>5
<1>7. \A i \in 1..Len(core') : core'[i].key = IF i <= Len(core) THEN core[i].key ELSE k
  BY <1>2, <1>3, <1>6
<1>8. \A i \in 1..Len(core') : rows'[i].key = core'[i].key
  BY <1>2, <1>3, <1>4, <1>5, <1>6
<1>9. \A i, j \in 1..Len(core') : core'[i].key = core'[j].key => i = j
  <2>1. \A i, j \in 1..Len(core) : core[i].key = core[j].key => i = j
    BY DEF ModelInv, ModelType
  <2> QED
    BY <1>1, <1>3, <1>6, <1>7, <2>1
<1>10. CoreKeys' = CoreKeys \cup {k}
  <2>1. Len(core) \in Nat /\ Len(core') = Len(core) + 1
    BY <1>3, <1>6
  <2>2. CoreKeys' \subseteq CoreKeys \cup {k}
    BY <1>7, <2>1 DEF CoreKeys
  <2>3. \A i \in 1..Len(core) : i \in 1..Len(core') /\ core'[i].key = core[i].key
    BY <1>7, <2>1
  <2>4. Len(core') \in 1..Len(core') /\ core'[Len(core')].key = k
    BY <1>7, <2>1
  <2>5. CoreKeys \cup {k} \subseteq CoreKeys'
    BY <2>3, <2>4 DEF CoreKeys
  <2> QED
    BY <2>2, <2>5
<1> QED
  BY <1>1, <1>5, <1>6, <1>8, <1>9, <1>10 DEF ModelInv, ModelType, RowsAreCore

\* The other steps of the model leave the keys on both lists.
SameKeys ==
    /\ core' \in Seq(CM!CoreFriend) /\ Len(core') = Len(core)
    /\ rows' \in Seq(CM!Friend) /\ Len(rows') = Len(rows)
    /\ \A i \in 1..Len(core) : core'[i].key = core[i].key
    /\ \A i \in 1..Len(rows) : rows'[i].key = rows[i].key
    /\ pointer' = pointer

LEMMA SameKeysKeep ==
    ASSUME ModelInv, SameKeys
    PROVE  ModelInv' /\ CoreKeys' = CoreKeys
<1>1. ModelType'
  BY DEF ModelInv, ModelType, SameKeys
<1>2. RowsAreCore'
  BY DEF ModelInv, RowsAreCore, SameKeys
<1>3. CoreKeys' = CoreKeys
  BY DEF SameKeys, CoreKeys
<1> QED
  BY <1>1, <1>2, <1>3 DEF ModelInv

LEMMA Renamed ==
    ASSUME NEW text \in Strings, NEW r \in CM!Friend
    PROVE  /\ [r EXCEPT !.name = text] \in CM!Friend
           /\ [r EXCEPT !.name = text].key = r.key
           /\ [r EXCEPT !.status = text] \in CM!Friend
           /\ [r EXCEPT !.status = text].key = r.key
  BY DEF CM!Friend

LEMMA ReplaceKeeps ==
    ASSUME ModelInv, NEW i \in 1..Len(rows), NEW f \in CM!Friend,
           f.key = rows[i].key, CM!Replace(i, f)
    PROVE  /\ rows' \in Seq(CM!Friend) /\ Len(rows') = Len(rows)
           /\ \A j \in 1..Len(rows) : rows'[j].key = rows[j].key
<1>1. rows' = [rows EXCEPT ![i] = f] /\ rows \in Seq(CM!Friend)
  BY DEF CM!Replace, ModelInv, ModelType
<1> QED
  BY <1>1

LEMMA CoreChanged ==
    ASSUME ModelInv, NEW i \in 1..Len(core), NEW f \in CM!CoreFriend,
           f.key = core[i].key, core' = [core EXCEPT ![i] = f]
    PROVE  /\ core' \in Seq(CM!CoreFriend) /\ Len(core') = Len(core)
           /\ \A j \in 1..Len(core) : core'[j].key = core[j].key
<1>1. core \in Seq(CM!CoreFriend)
  BY DEF ModelInv, ModelType
<1> QED
  BY <1>1

LEMMA NameKeeps ==
    ASSUME ModelInv, NEW i, NEW b \in Bytes,
           CM!NameReceived(i, b) \/ CM!StatusReceived(i, b)
    PROVE  ModelInv' /\ CoreKeys' = CoreKeys /\ pointer' = pointer
<1>1. i \in 1..Len(core) /\ pointer' = pointer
  BY DEF CM!NameReceived, CM!StatusReceived
<1>2. core[i] \in CM!CoreFriend /\ FromUtf8[b] \in Strings
      /\ rows \in Seq(CM!Friend)
  BY <1>1, BytesAssumption DEF ModelInv, ModelType
<1>3. /\ core' \in Seq(CM!CoreFriend) /\ Len(core') = Len(core)
      /\ \A j \in 1..Len(core) : core'[j].key = core[j].key
  <2>1. PICK f \in CM!CoreFriend :
          f.key = core[i].key /\ core' = [core EXCEPT ![i] = f]
    <3>1. ASSUME NEW g \in CM!CoreFriend
          PROVE  /\ [g EXCEPT !.name = b] \in CM!CoreFriend
                 /\ [g EXCEPT !.name = b].key = g.key
                 /\ [g EXCEPT !.status = b] \in CM!CoreFriend
                 /\ [g EXCEPT !.status = b].key = g.key
      BY DEF CM!CoreFriend
    <3>2. \/ core' = [core EXCEPT ![i] = [core[i] EXCEPT !.name = b]]
          \/ core' = [core EXCEPT ![i] = [core[i] EXCEPT !.status = b]]
      BY DEF CM!NameReceived, CM!StatusReceived
    <3> QED
      BY <1>2, <3>1, <3>2, Zenon
  <2> QED
    BY <1>1, <2>1, CoreChanged
<1>4. /\ rows' \in Seq(CM!Friend) /\ Len(rows') = Len(rows)
      /\ \A j \in 1..Len(rows) : rows'[j].key = rows[j].key
  <2>1. CASE CM!NoSuchRow(i - 1)
    BY <1>2, <2>1 DEF CM!NoSuchRow
  <2>2. ASSUME NEW h \in 1..Len(rows), NEW f \in CM!Friend,
               f.key = rows[h].key, CM!Replace(h, f)
        PROVE  /\ rows' \in Seq(CM!Friend) /\ Len(rows') = Len(rows)
               /\ \A j \in 1..Len(rows) : rows'[j].key = rows[j].key
    BY <2>2, ReplaceKeeps
  <2>3. \/ CM!NoSuchRow(i - 1)
        \/ \E h \in 1..Len(rows) :
              \/ CM!Replace(h, [rows[h] EXCEPT !.name = FromUtf8[b]])
              \/ CM!Replace(h, [rows[h] EXCEPT !.status = FromUtf8[b]])
    BY DEF CM!NameReceived, CM!StatusReceived, CM!SetFriendName,
           CM!SetFriendStatusMessage
  <2>4. \A h \in 1..Len(rows) : rows[h] \in CM!Friend
    BY <1>2
  <2> QED
    BY <1>2, <2>1, <2>2, <2>3, <2>4, Renamed, Zenon
<1> QED
  BY <1>1, <1>3, <1>4, SameKeysKeep DEF SameKeys

LEMMA DelegatesKeep ==
    ASSUME ModelInv, NEW i,
           CM!CreateDelegate(i) \/ CM!DestroyDelegate(i) \/ CM!Kill
    PROVE  ModelInv' /\ CoreKeys' = CoreKeys /\ pointer' = pointer
<1>1. UNCHANGED <<core, rows, pointer>>
  BY DEF CM!CreateDelegate, CM!DestroyDelegate, CM!Kill
<1> QED
  BY <1>1 DEF ModelInv, ModelType, RowsAreCore, CoreKeys

-----------------------------------------------------------------------------
(* The file                                                                *)

LEMMA HoldingFile ==
    ASSUME NEW a \in P!Accounts
    PROVE  /\ P!Holding(a) \in P!Files /\ P!Holding(a) # None
           /\ P!Holding(a).account = a
<1>1. P!Holding(a) \in P!Files
  BY DEF P!Holding, P!Files
<1>2. P!Holding(a).account = a
  BY DEF P!Holding
<1> QED
  BY <1>1, <1>2, NoneAssumption

\* A step of a working client that leaves its three lists equal, after a save
\* or with the file untouched.
LEMMA StepOfWorking ==
    ASSUME IInv, Working, UiType', ModelInv', pointer' = pointer,
           account' \in P!Accounts,
           CoreKeys' = account'.friends, FriendKeys(friends') = account'.friends,
           account.friends \subseteq account'.friends,
           Added' \subseteq account'.friends,
           \/ P!Save(account')
           \/ UNCHANGED fileVars,
           \/ kept' = kept
           \/ saved' /\ kept' = kept \cup Added'
    PROVE  IInv'
<1>1. /\ P!Holding(account') \in P!Files /\ P!Holding(account') # None
      /\ P!Holding(account').account = account'
  BY HoldingFile
<1>2. pointer' = "set"
  BY DEF Working
<1>3. file' \in {file, P!Holding(account')} /\ saved' \in BOOLEAN
  BY DEF P!Save, fileVars, IInv, AccountType
<1>4. saved' => file' = P!Holding(account')
  <2>1. CASE P!Save(account')
    BY <2>1 DEF P!Save
  <2>2. CASE UNCHANGED fileVars
    BY <2>2 DEF fileVars, IInv, FileHolds, Working
  <2> QED
    BY <2>1, <2>2
<1>5. Reported'
  BY <1>2 DEF Reported
<1>6. Joined'
  BY DEF Joined
<1>7. FileHolds'
  BY <1>4 DEF FileHolds
<1>8. SuccessIsSaved'
  BY <1>1, <1>4 DEF SuccessIsSaved
<1>9. kept \subseteq account.friends
  BY DEF IInv, KeptSafe, Working
<1>10. KeptSafe'
  <2>1. kept' \subseteq account'.friends
    BY <1>9
  <2>2. ASSUME kept' # {}
        PROVE  file' # None /\ kept' \subseteq file'.account.friends
    <3>1. CASE file' = P!Holding(account')
      BY <1>1, <2>1, <3>1
    <3>2. CASE file' # P!Holding(account')
      <4>1. kept' = kept /\ file' = file
        BY <1>3, <1>4, <3>2
      <4> QED
        BY <2>2, <4>1 DEF IInv, KeptSafe
    <3> QED
      BY <3>1, <3>2
  <2> QED
    BY <2>1, <2>2 DEF KeptSafe
<1>11. AccountType'
  <2>1. file' \in P!Files \cup {None}
    BY <1>1, <1>3 DEF IInv, AccountType
  <2>2. account'.friends \subseteq Keys
    BY DEF P!Accounts
  <2>3. kept' \in SUBSET Keys
    BY <1>9, <2>2
  <2> QED
    BY <1>3, <2>1, <2>3 DEF AccountType
<1> QED
  BY <1>5, <1>6, <1>7, <1>8, <1>10, <1>11 DEF IInv, ModelInv

-----------------------------------------------------------------------------
(* Steps                                                                   *)

\* Asking tox for a friend, with the signal and the save.
LEMMA AskStep ==
    ASSUME IInv, Working, UiType', Asked, Propagate, Keep,
           \/ P!Change([account EXCEPT !.friends = FriendKeys(friends')])
           \/ FriendKeys(friends') = FriendKeys(friends) /\ UNCHANGED fileVars
    PROVE  IInv'
<1>1. /\ ModelInv /\ CoreKeys = account.friends
      /\ FriendKeys(friends) = account.friends
      /\ account \in P!Accounts
  BY DEF IInv, ModelInv, Working, Joined, AccountType
<1>2. /\ ModelInv' /\ pointer' = pointer
      /\ CoreKeys' = FriendKeys(friends')
      /\ account.friends \subseteq FriendKeys(friends')
      /\ Added' \subseteq FriendKeys(friends')
  <2>1. CASE FriendKeys(friends') = FriendKeys(friends) /\ ~result'.success
    <3>1. UNCHANGED modelVars
      BY <2>1 DEF Propagate
    <3>2. UNCHANGED <<core, rows, pointer>>
      BY <3>1 DEF modelVars
    <3> QED
      BY <1>1, <2>1, <3>2 DEF ModelInv, ModelType, RowsAreCore, CoreKeys, Added
  <2>2. ASSUME NEW k \in Keys \ FriendKeys(friends),
               FriendKeys(friends') = FriendKeys(friends) \cup {k},
               Added' \subseteq {k}
        PROVE  /\ ModelInv' /\ pointer' = pointer
               /\ CoreKeys' = FriendKeys(friends')
               /\ account.friends \subseteq FriendKeys(friends')
               /\ Added' \subseteq FriendKeys(friends')
    <3>1. FriendKeys(friends') \ FriendKeys(friends) = {k}
      BY <2>2
    <3>2. CM!FriendAdded(k)
      BY <3>1 DEF Propagate
    <3>3. ModelInv' /\ pointer' = pointer /\ CoreKeys' = CoreKeys \cup {k}
      BY <1>1, <3>2, AddToModel
    <3> QED
      BY <1>1, <2>2, <3>3
  <2> QED
    BY <2>1, <2>2 DEF Asked
<1>3. kept' = kept \/ (saved' /\ kept' = kept \cup Added')
  BY DEF Keep
<1>4. CASE P!Change([account EXCEPT !.friends = FriendKeys(friends')])
  <2> DEFINE a == [account EXCEPT !.friends = FriendKeys(friends')]
  <2>1. account' = a /\ P!Save(a)
    BY <1>4 DEF P!Change
  <2>2. FriendKeys(friends') \in SUBSET Keys
    BY DEF FriendKeys
  <2>3. a \in P!Accounts /\ a.friends = FriendKeys(friends')
    BY <1>1, <2>2 DEF P!Accounts
  <2> HIDE DEF a
  <2> QED
    BY <1>2, <1>3, <2>1, <2>3, StepOfWorking
<1>5. CASE FriendKeys(friends') = FriendKeys(friends) /\ UNCHANGED fileVars
  <2>1. account' = account
    BY <1>5 DEF fileVars
  <2>2. FriendKeys(friends') = FriendKeys(friends)
    BY <1>5
  <2> QED
    BY <1>1, <1>2, <1>3, <1>5, <2>1, <2>2, StepOfWorking
<1> QED
  BY <1>4, <1>5

LEMMA SendStep == ASSUME IInv, SendFriendRequest PROVE IInv'
<1>1. UiType
  BY DEF IInv
<1>2. UiType' /\ Asked
  BY <1>1, ConfirmAsks DEF SendFriendRequest
<1> QED
  BY <1>2, AskStep DEF SendFriendRequest, SaveSent

LEMMA AcceptStep == ASSUME IInv, AcceptFriendRequest PROVE IInv'
<1>1. UiType
  BY DEF IInv
<1>2. UiType' /\ Asked
  BY <1>1, AcceptAsks DEF AcceptFriendRequest
<1> QED
  BY <1>2, AskStep DEF AcceptFriendRequest, SaveAccepted

\* What a step keeps of the three lists, with nothing saved.
LEMMA QuietStep ==
    ASSUME IInv, Working \/ Killed, UNCHANGED <<fileVars, kept>>,
           UiType', ModelInv', CoreKeys' = CoreKeys, pointer' = pointer,
           FriendKeys(friends') = FriendKeys(friends),
           result' = result \/ ~result'.success
    PROVE  IInv'
<1>1. UNCHANGED <<account, file, saved, kept>>
  BY DEF fileVars
<1>2. AccountType' /\ Joined' /\ FileHolds' /\ KeptSafe'
  BY <1>1 DEF IInv, AccountType, Joined, FileHolds, KeptSafe
<1>3. Reported' /\ SuccessIsSaved'
  BY <1>1 DEF IInv, Reported, SuccessIsSaved, Added
<1> QED
  BY <1>2, <1>3 DEF IInv, ModelInv

LEMMA UiUnchanged ==
    ASSUME IInv, UNCHANGED uiVars
    PROVE  /\ UiType' /\ FriendKeys(friends') = FriendKeys(friends)
           /\ result' = result
  BY DEF IInv, UiType, uiVars

LEMMA ModelUnchanged ==
    ASSUME IInv, UNCHANGED modelVars
    PROVE  ModelInv' /\ CoreKeys' = CoreKeys /\ pointer' = pointer
  BY DEF IInv, ModelInv, ModelType, RowsAreCore, CoreKeys, modelVars

LEMMA CallBackStep == ASSUME IInv, CallBack PROVE IInv'
<1>1. UiType /\ ModelInv
  BY DEF IInv, ModelInv
<1>2. Working /\ UNCHANGED <<fileVars, kept>>
  BY DEF CallBack
<1>3. CASE /\ \E k \in Keys : AF!FriendRequestReceived(k) \/ AF!FriendConfirms(k)
           /\ UNCHANGED modelVars
  BY <1>1, <1>2, <1>3, OthersKeep, ModelUnchanged, QuietStep
<1>4. CASE /\ \E i \in 1..MaxFriends, b \in Bytes :
                 CM!NameReceived(i, b) \/ CM!StatusReceived(i, b)
           /\ UNCHANGED uiVars
  BY <1>1, <1>2, <1>4, NameKeeps, UiUnchanged, QuietStep
<1> QED
  BY <1>3, <1>4 DEF CallBack

LEMMA UseUiStep == ASSUME IInv, UseUi PROVE IInv'
<1>1. UiType /\ ModelInv
  BY DEF IInv, ModelInv
<1>2. (Working \/ Killed) /\ UNCHANGED <<fileVars, kept>>
  BY DEF UseUi
<1>3. CASE /\ \/ AF!Navigate \/ AF!CancelAddFriend \/ AF!CloseDialog
              \/ \E text \in AF!Texts \cup {None}, msg \in AF!Messages :
                    AF!Type(text, msg)
           /\ UNCHANGED modelVars
  BY <1>1, <1>2, <1>3, OthersKeep, ModelUnchanged, QuietStep
<1>4. CASE /\ \E i \in 1..MaxFriends : CM!CreateDelegate(i) \/ CM!DestroyDelegate(i)
           /\ UNCHANGED uiVars
  BY <1>1, <1>2, <1>4, DelegatesKeep, UiUnchanged, QuietStep
<1> QED
  BY <1>3, <1>4 DEF UseUi

LEMMA InitIInv == ASSUME Init PROVE IInv
<1>1. /\ friends = [k \in Keys |-> None] /\ address = None /\ shown = None
      /\ result = [user |-> None, success |-> FALSE]
      /\ core = <<>> /\ rows = <<>> /\ pointer = "null"
      /\ account = None /\ file = None /\ saved = FALSE /\ kept = {}
  BY DEF Init, P!Init, NoFriends, NoResult
<1>2. UiType
  BY <1>1 DEF UiType, AF!Users
<1>3. ModelType /\ RowsAreCore
  BY <1>1 DEF ModelType, RowsAreCore
<1>4. AccountType /\ Joined /\ FileHolds /\ KeptSafe
  BY <1>1 DEF AccountType, Joined, FileHolds, KeptSafe
<1>5. ~result.success
  BY <1>1
<1> QED
  BY <1>2, <1>3, <1>4, <1>5 DEF IInv, Reported, SuccessIsSaved, Added, Added

\* What the constructor and loadTox make of the account and the file.
LEMMA LaunchAccount ==
    ASSUME IInv, account = None,
           \/ P!Resume /\ UNCHANGED kept
           \/ \E a \in P!Accounts : P!SetOut(a) /\ kept' = {}
    PROVE  /\ AccountType' /\ FileHolds' /\ KeptSafe'
           /\ account' \in P!Accounts
<1>1. CASE P!Resume /\ UNCHANGED kept
  <2>1. /\ file # None /\ file.readable = TRUE
        /\ account' = file.account /\ saved' = TRUE
        /\ file' = file /\ kept' = kept
    <3>1. file # None /\ file.readable /\ account' = file.account
          /\ saved' = TRUE /\ file' = file /\ kept' = kept
      BY <1>1 DEF P!Resume
    <3>2. file.readable \in BOOLEAN
      BY <3>1 DEF IInv, AccountType, P!Files
    <3> QED
      BY <3>1, <3>2
  <2>2. file \in P!Files
    BY <2>1 DEF IInv, AccountType
  <2>3. account' \in P!Accounts /\ file = P!Holding(file.account)
    BY <2>1, <2>2 DEF P!Files, P!Holding
  <2>4. kept \in SUBSET Keys /\ (kept # {} => kept \subseteq file.account.friends)
    BY DEF IInv, AccountType, KeptSafe
  <2>5. AccountType' /\ FileHolds'
    BY <2>1, <2>2, <2>3, <2>4 DEF AccountType, FileHolds
  <2>6. KeptSafe'
    BY <2>1, <2>4 DEF KeptSafe
  <2> QED
    BY <2>3, <2>5, <2>6
<1>2. ASSUME NEW a \in P!Accounts, P!SetOut(a), kept' = {}
      PROVE  /\ AccountType' /\ FileHolds' /\ KeptSafe'
             /\ account' \in P!Accounts
  <2>1. /\ account' = a /\ file' \in {file, P!Holding(a)}
        /\ saved' \in BOOLEAN /\ (saved' => file' = P!Holding(a))
    BY <1>2 DEF P!SetOut, P!Save
  <2>2. P!Holding(a) \in P!Files
    BY HoldingFile
  <2>3. file' \in P!Files \cup {None}
    BY <2>1, <2>2 DEF IInv, AccountType
  <2> QED
    BY <1>2, <2>1, <2>3 DEF AccountType, FileHolds, KeptSafe
<1> QED
  BY <1>1, <1>2

LEMMA LaunchStep == ASSUME IInv, Launch PROVE IInv'
<1>1. /\ account = None /\ pointer = "null"
      /\ \/ P!Resume /\ UNCHANGED kept
         \/ \E a \in P!Accounts : P!SetOut(a) /\ kept' = {}
      /\ friends' \in [Keys -> {None} \cup AF!Friend]
      /\ FriendKeys(friends') = account'.friends
      /\ address' = address /\ shown' = shown /\ result' = result
      /\ pointer' = pointer /\ rows' = rows
  BY DEF Launch, Down
<1>2. /\ AccountType' /\ FileHolds' /\ KeptSafe'
      /\ account' \in P!Accounts
  BY <1>1, LaunchAccount
<1>3. PICK n \in 0..MaxFriends : core' \in [1..n -> CM!CoreFriend]
  BY DEF Launch
<1>4. core' \in Seq(CM!CoreFriend) /\ Len(core') = n /\ DOMAIN core' = 1..Len(core')
  BY <1>3
<1>5. /\ {core'[i].key : i \in DOMAIN core'} = account'.friends
      /\ \A i, j \in DOMAIN core' : core'[i].key = core'[j].key => i = j
  BY DEF Launch
<1>6. CoreKeys' = account'.friends
  BY <1>4, <1>5 DEF CoreKeys
<1>7. UiType'
  BY <1>1 DEF IInv, UiType
<1>8. ModelType' /\ RowsAreCore'
  BY <1>1, <1>4, <1>5 DEF IInv, ModelType, RowsAreCore
<1>9. Joined'
  <2>1. pointer' = "null"
    BY <1>1
  <2> QED
    BY <1>1, <1>6, <2>1 DEF Joined
<1>10. ~result'.success
  BY <1>1 DEF IInv, Reported
<1> QED
  BY <1>2, <1>7, <1>8, <1>9, <1>10 DEF IInv, Reported, SuccessIsSaved, Added

LEMMA WireStep == ASSUME IInv, Wire PROVE IInv'
<1>1. /\ CM!ModelInit /\ UNCHANGED <<uiVars, fileVars, kept>>
  BY DEF Wire
<1>2. UNCHANGED <<account, file, saved, kept>>
  BY <1>1 DEF fileVars
<1>3. UiType' /\ FriendKeys(friends') = FriendKeys(friends) /\ result' = result
  BY <1>1, UiUnchanged
<1>4. ModelInv' /\ core' = core /\ pointer' = "set"
  BY <1>1, WireModel DEF IInv, ModelInv
<1>5. CoreKeys' = CoreKeys
  BY <1>4 DEF CoreKeys
<1>6. AccountType' /\ FileHolds' /\ KeptSafe'
  BY <1>2 DEF IInv, AccountType, FileHolds, KeptSafe
<1>7. Joined'
  <2>1. account # None
    BY DEF Wire
  <2> QED
    BY <1>2, <1>3, <1>5, <2>1 DEF IInv, Joined
<1>8. Reported' /\ SuccessIsSaved'
  BY <1>2, <1>3, <1>4, <1>5 DEF IInv, Reported, SuccessIsSaved, Added
<1> QED
  BY <1>3, <1>4, <1>6, <1>7, <1>8 DEF IInv, ModelInv

\* After tox_kill or the end of the process, with a last save or without.
LEMMA LeaveFile ==
    ASSUME IInv, P!Leave
    PROVE  /\ account # None /\ account \in P!Accounts /\ account' = None
           /\ file' \in {file, P!Holding(account)} /\ saved' \in BOOLEAN
           /\ saved' => file' = P!Holding(account)
           /\ file' \in P!Files \cup {None}
           /\ kept \subseteq account.friends /\ kept \in SUBSET Keys
           /\ kept # {} => file' # None /\ kept \subseteq file'.account.friends
<1>1. account # None /\ account' = None
      /\ (P!Save(account) \/ UNCHANGED <<file, saved>>)
  BY DEF P!Leave
<1>2. account \in P!Accounts /\ saved \in BOOLEAN /\ kept \in SUBSET Keys
      /\ file \in P!Files \cup {None}
  BY <1>1 DEF IInv, AccountType
<1>3. saved => file = P!Holding(account)
  BY <1>1 DEF IInv, FileHolds
<1>4. /\ file' \in {file, P!Holding(account)} /\ saved' \in BOOLEAN
      /\ saved' => file' = P!Holding(account)
  <2>1. CASE P!Save(account)
    BY <2>1 DEF P!Save
  <2>2. CASE UNCHANGED <<file, saved>>
    BY <1>2, <1>3, <2>2
  <2> QED
    BY <1>1, <2>1, <2>2
<1>5. /\ P!Holding(account) \in P!Files /\ P!Holding(account) # None
      /\ P!Holding(account).account = account
  BY <1>2, HoldingFile
<1>6. kept \subseteq account.friends
      /\ (kept # {} => file # None /\ kept \subseteq file.account.friends)
  BY <1>1 DEF IInv, KeptSafe
<1>7. kept # {} => file' # None /\ kept \subseteq file'.account.friends
  <2>1. CASE file' = file
    BY <1>6, <2>1
  <2>2. CASE file' = P!Holding(account)
    BY <1>5, <1>6, <2>2
  <2> QED
    BY <1>4, <2>1, <2>2
<1> QED
  BY <1>1, <1>2, <1>4, <1>5, <1>6, <1>7

LEMMA HandleSigTermStep == ASSUME IInv, HandleSigTerm PROVE IInv'
<1>1. /\ Working /\ P!Leave /\ P!Save(account) /\ CM!Kill
      /\ UNCHANGED uiVars /\ Keep
  BY DEF HandleSigTerm
<1>2. UiType' /\ FriendKeys(friends') = FriendKeys(friends) /\ result' = result
  BY <1>1, UiUnchanged
<1>3. ModelInv' /\ CoreKeys' = CoreKeys /\ pointer' = pointer
  BY <1>1, DelegatesKeep DEF IInv, ModelInv
<1>4. /\ account # None /\ account \in P!Accounts /\ account' = None
      /\ file' \in {file, P!Holding(account)} /\ saved' \in BOOLEAN
      /\ saved' => file' = P!Holding(account)
      /\ file' \in P!Files \cup {None}
      /\ kept \subseteq account.friends /\ kept \in SUBSET Keys
      /\ kept # {} => file' # None /\ kept \subseteq file'.account.friends
  BY <1>1, LeaveFile
<1>5. /\ P!Holding(account) # None
      /\ P!Holding(account).account = account
  BY <1>4, HoldingFile
<1>6. Added' \subseteq account.friends
  BY <1>2, <1>4 DEF IInv, Reported, Joined, Added
<1>7. saved' => file' # None /\ file'.account = account
  BY <1>4, <1>5
<1>8. kept' \in SUBSET Keys
      /\ (kept' # {} => file' # None /\ kept' \subseteq file'.account.friends)
  <2>1. CASE kept' = kept
    BY <1>4, <2>1
  <2>2. CASE saved' /\ kept' = kept \cup Added'
    <3>1. kept' \subseteq account.friends
      BY <1>4, <1>6, <2>2
    <3>2. account.friends \in SUBSET Keys
      BY <1>4 DEF P!Accounts
    <3> QED
      BY <1>7, <2>2, <3>1, <3>2
  <2> QED
    BY <1>1, <2>1, <2>2 DEF Keep
<1>9. AccountType' /\ Joined' /\ FileHolds' /\ KeptSafe'
  BY <1>2, <1>3, <1>4, <1>8 DEF IInv, AccountType, Joined, FileHolds, KeptSafe
<1>10. Reported'
  BY <1>2, <1>3 DEF IInv, Reported, Added
<1>11. SuccessIsSaved'
  BY <1>6, <1>7 DEF SuccessIsSaved
<1> QED
  BY <1>2, <1>3, <1>9, <1>10, <1>11 DEF IInv, ModelInv

LEMMA EndStep == ASSUME IInv, End PROVE IInv'
<1>1. /\ friends' = [k \in Keys |-> None] /\ address' = None /\ shown' = None
      /\ result' = [user |-> None, success |-> FALSE]
      /\ core' = <<>> /\ rows' = <<>> /\ pointer' = "null" /\ kept' = kept
      /\ P!Leave \/ (Killed /\ UNCHANGED fileVars)
  BY DEF End, NoFriends, NoResult
<1>2. UiType'
  BY <1>1 DEF UiType, AF!Users
<1>3. ModelType' /\ RowsAreCore'
  BY <1>1 DEF ModelType, RowsAreCore
<1>4. /\ account' = None /\ file' \in P!Files \cup {None} /\ saved' \in BOOLEAN
      /\ kept \in SUBSET Keys
      /\ kept # {} => file' # None /\ kept \subseteq file'.account.friends
  <2>1. CASE P!Leave
    BY <2>1, LeaveFile
  <2>2. CASE Killed /\ UNCHANGED fileVars
    BY <2>2 DEF IInv, AccountType, KeptSafe, Killed, fileVars
  <2> QED
    BY <1>1, <2>1, <2>2
<1>5. AccountType' /\ Joined' /\ FileHolds' /\ KeptSafe'
  BY <1>1, <1>4 DEF AccountType, Joined, FileHolds, KeptSafe
<1>6. ~result'.success
  BY <1>1
<1> QED
  BY <1>2, <1>3, <1>5, <1>6 DEF IInv, Reported, SuccessIsSaved, Added

LEMMA UpgradeStep == ASSUME IInv, Upgrade PROVE IInv'
<1>1. /\ account = None /\ pointer = "null" /\ file # None
      /\ file' = [readable |-> FALSE, account |-> file.account]
      /\ UNCHANGED <<account, saved>>
      /\ UNCHANGED <<uiVars, modelVars, kept>>
  BY DEF Upgrade, Down, P!Age
<1>2. UiType' /\ FriendKeys(friends') = FriendKeys(friends) /\ result' = result
  BY <1>1, UiUnchanged
<1>3. ModelInv' /\ CoreKeys' = CoreKeys /\ pointer' = pointer
  BY <1>1, ModelUnchanged
<1>4. file \in P!Files
  BY <1>1 DEF IInv, AccountType
<1>5. file' \in P!Files /\ file' # None /\ file'.account = file.account
  <2>1. file' \in P!Files /\ file'.account = file.account
    BY <1>1, <1>4 DEF P!Files
  <2> QED
    BY <2>1, NoneAssumption
<1>6. AccountType' /\ Joined' /\ FileHolds' /\ KeptSafe'
  BY <1>1, <1>2, <1>3, <1>5 DEF IInv, AccountType, Joined, FileHolds, KeptSafe
<1>7. ~result'.success
  BY <1>1, <1>2 DEF IInv, Reported
<1> QED
  BY <1>2, <1>3, <1>6, <1>7 DEF IInv, ModelInv, Reported, SuccessIsSaved, Added

LEMMA StutterStep == ASSUME IInv, UNCHANGED vars PROVE IInv'
<1>1. UNCHANGED uiVars /\ UNCHANGED modelVars
      /\ UNCHANGED <<account, file, saved, kept>>
  BY DEF vars, fileVars
<1>2. UiType' /\ FriendKeys(friends') = FriendKeys(friends) /\ result' = result
  BY <1>1, UiUnchanged
<1>3. ModelInv' /\ CoreKeys' = CoreKeys /\ pointer' = pointer
  BY <1>1, ModelUnchanged
<1>4. AccountType' /\ Joined' /\ FileHolds' /\ KeptSafe'
  BY <1>1, <1>2, <1>3 DEF IInv, AccountType, Joined, FileHolds, KeptSafe
<1>5. Reported' /\ SuccessIsSaved'
  BY <1>1, <1>2, <1>3 DEF IInv, Reported, SuccessIsSaved, Added
<1> QED
  BY <1>2, <1>3, <1>4, <1>5 DEF IInv, ModelInv

LEMMA StepIInv == IInv /\ [Next]_vars => IInv'
<1> SUFFICES ASSUME IInv, [Next]_vars PROVE IInv'
  OBVIOUS
<1>1. CASE Next
  BY <1>1, UpgradeStep, LaunchStep, WireStep, SendStep, AcceptStep,
     CallBackStep, UseUiStep, HandleSigTermStep, EndStep DEF Next
<1>2. CASE UNCHANGED vars
  BY <1>2, StutterStep
<1> QED
  BY <1>1, <1>2

-----------------------------------------------------------------------------
(* The guarantees of the components.  Their proofs are about one run of each *)
(* component; here a run ends and another begins, with everything but the    *)
(* friends as new.                                                           *)

AFP == INSTANCE AddFriendProofs
CMP == INSTANCE ContactsModelProofs WITH memory <- object, tox <- pointer,
                                         shown <- delegates

NoPages == /\ page = "main" /\ address = None /\ message = "empty"
           /\ shown = None /\ result = NoResult /\ dialog = None

NoModel == /\ object = "alive" /\ pointer = "null"
           /\ rows = <<>> /\ delegates = NoDelegates

\* Until the model is wired nothing happens on the pages.
Fresh == pointer = "null" => NoPages /\ NoModel

Parts == AFP!IInv /\ CMP!IInv /\ Fresh

LEMMA PagesAssumptions == AFP!KeysAssumption /\ AFP!NoneAssumption
  BY NoneAssumption
     DEF AFP!KeysAssumption, AFP!NoneAssumption, AFP!Texts, AFP!Friend,
         AFP!Codes, AF!Texts, AF!Friend, AF!Codes

LEMMA ModelAssumptions ==
    CMP!BytesAssumption /\ CMP!MaxAssumption /\ CMP!NoneAssumption
  BY NoneAssumption, BytesAssumption, MaxAssumption
     DEF CMP!BytesAssumption, CMP!MaxAssumption, CMP!NoneAssumption,
         CMP!Delegate, CM!Delegate

LEMMA FreshPages ==
    NoPages /\ friends \in [Keys -> AF!Friend \cup {None}] => AFP!IInv
<1> SUFFICES ASSUME NoPages, friends \in [Keys -> AF!Friend \cup {None}]
             PROVE  AFP!IInv
  OBVIOUS
<1>1. [user |-> None, success |-> FALSE] \in
          [user : AFP!Users, success : BOOLEAN]
  BY DEF AFP!Users
<1>2. AFP!TypeOK
  BY <1>1 DEF NoPages, NoResult, AFP!TypeOK, AFP!Messages, AFP!Friend, AF!Friend
<1> QED
  BY <1>2, NoneAssumption
     DEF NoPages, NoResult, AFP!IInv, AFP!ShownIsStranger, AFP!ResultIsTrue,
         AFP!DialogOnAddPage, AFP!NospamOnlyUndecoded, AFP!DigitsClearedOnLeave,
         AF!Codes

LEMMA FreshModel ==
    NoModel /\ core \in Seq(CM!CoreFriend) /\ Len(core) <= MaxFriends => CMP!IInv
  BY MaxAssumption
     DEF NoModel, NoDelegates, CMP!IInv, CMP!TypeOK, CMP!Unwired,
         CMP!RowsMirrorCore, CMP!ShownIsCurrent, CMP!CoreFriend, CM!CoreFriend

\* A step of the pages is one of AddFriend, which its proof is about.
LEMMA PagesStep ==
    ASSUME AFP!IInv,
           \/ UNCHANGED uiVars
           \/ AF!Navigate \/ AF!CancelAddFriend \/ AF!CloseDialog
           \/ \E text \in AF!Texts \cup {None}, msg \in AF!Messages :
                 AF!Type(text, msg)
           \/ \E k \in Keys : AF!FriendRequestReceived(k) \/ AF!FriendConfirms(k)
           \/ AF!AcceptFriendRequest \/ AF!ConfirmAddFriend
    PROVE  AFP!IInv'
<1>1. [AFP!Next]_(AFP!vars)
  <2>1. CASE UNCHANGED uiVars
    BY <2>1 DEF uiVars, AFP!vars
  <2>2. CASE AF!Navigate \/ AF!CancelAddFriend \/ AF!CloseDialog
    BY <2>2
       DEF AF!Navigate, AF!GoTo, AF!CancelAddFriend, AF!ClearFields,
           AF!CloseDialog, AFP!Navigate, AFP!GoTo, AFP!CancelAddFriend,
           AFP!ClearFields, AFP!CloseDialog, AFP!Next
  <2>3. CASE \E text \in AF!Texts \cup {None}, msg \in AF!Messages :
                AF!Type(text, msg)
    BY <2>3 DEF AF!Texts, AF!Messages, AF!Type,
                AFP!Texts, AFP!Messages, AFP!Type, AFP!Next
  <2>4. CASE \E k \in Keys : AF!FriendRequestReceived(k) \/ AF!FriendConfirms(k)
    BY <2>4 DEF AF!FriendRequestReceived, AF!FriendConfirms, AF!IsFriend,
                AFP!FriendRequestReceived, AFP!FriendConfirms, AFP!IsFriend,
                AFP!Next
  <2>5. CASE AF!AcceptFriendRequest
    BY <2>5
       DEF AF!AcceptFriendRequest, AF!IsFriend, AF!FriendsWithConfirmed,
           AF!OnFriendAdded, AF!OnFailedToAddFriend, AF!OpenDialog,
           AFP!AcceptFriendRequest, AFP!IsFriend, AFP!FriendsWithConfirmed,
           AFP!OnFriendAdded, AFP!OnFailedToAddFriend, AFP!OpenDialog, AFP!Next
  <2>6. CASE AF!ConfirmAddFriend
    BY <2>6
       DEF AF!ConfirmAddFriend, AF!RequestCode, AF!AddFriendCode,
           AF!FriendsAfter, AF!IsFriend, AF!HasFriendWithAddress,
           AF!MessageSent, AF!Read, AF!Addresses, AF!Outcomes, AF!UserId,
           AF!OnFriendAdded,
           AF!OnFailedToAddFriend, AF!OpenDialog, AF!ClearFields,
           AFP!ConfirmAddFriend, AFP!RequestCode, AFP!AddFriendCode,
           AFP!FriendsAfter, AFP!IsFriend, AFP!HasFriendWithAddress,
           AFP!MessageSent, AFP!Read, AFP!Addresses, AFP!Outcomes, AFP!UserId,
           AFP!OnFriendAdded,
           AFP!OnFailedToAddFriend, AFP!OpenDialog, AFP!ClearFields, AFP!Next
  <2> QED
    BY <2>1, <2>2, <2>3, <2>4, <2>5, <2>6
<1> QED
  BY <1>1, PagesAssumptions, AFP!StepIInv
     DEF AFP!KeysAssumption, AFP!NoneAssumption

\* A step of the model is one of ContactsModel.
LEMMA ModelStep ==
    ASSUME CMP!IInv,
           \/ UNCHANGED modelVars
           \/ CM!ModelInit \/ CM!Kill
           \/ \E k \in Keys : CM!FriendAdded(k)
           \/ \E i \in 1..MaxFriends : CM!CreateDelegate(i) \/ CM!DestroyDelegate(i)
           \/ \E i \in 1..MaxFriends, b \in Bytes :
                 CM!NameReceived(i, b) \/ CM!StatusReceived(i, b)
    PROVE  CMP!IInv'
<1>1. [CMP!Next]_(CMP!vars)
  <2>1. CASE UNCHANGED modelVars
    BY <2>1 DEF modelVars, CMP!vars
  <2>2. CASE CM!ModelInit \/ CM!Kill
    BY <2>2 DEF CM!ModelInit, CM!Row, CM!Copy, CM!Kill, CM!Running,
                CMP!ModelInit, CMP!Row, CMP!Copy, CMP!Kill, CMP!Running,
                CMP!Next
  <2>3. CASE \E k \in Keys : CM!FriendAdded(k)
    BY <2>3 DEF CM!FriendAdded, CM!Row, CM!Copy, CM!Running,
                CMP!FriendAdded, CMP!Row, CMP!Copy, CMP!Running, CMP!Next
  <2>4. CASE \E i \in 1..MaxFriends : CM!CreateDelegate(i) \/ CM!DestroyDelegate(i)
    BY <2>4 DEF CM!CreateDelegate, CM!DestroyDelegate, CM!Data, CM!Blank,
                CMP!CreateDelegate, CMP!DestroyDelegate, CMP!Data, CMP!Blank,
                CMP!Next
  <2>5. ASSUME NEW i \in 1..MaxFriends, NEW b \in Bytes, CM!NameReceived(i, b)
        PROVE  CMP!Next
    <3>1. CMP!NameReceived(i, b)
      BY <2>5 DEF CM!NameReceived, CM!SetFriendName, CM!NoSuchRow, CM!FoundAt,
                  CM!Replace, CM!Refreshed, CM!Data, CM!Running,
                  CMP!NameReceived, CMP!SetFriendName, CMP!NoSuchRow,
                  CMP!FoundAt, CMP!Replace, CMP!Refreshed, CMP!Data,
                  CMP!Running
    <3> QED
      BY <3>1 DEF CMP!Next
  <2>6. ASSUME NEW i \in 1..MaxFriends, NEW b \in Bytes, CM!StatusReceived(i, b)
        PROVE  CMP!Next
    <3>1. CMP!StatusReceived(i, b)
      BY <2>6 DEF CM!StatusReceived, CM!SetFriendStatusMessage, CM!NoSuchRow,
                  CM!FoundAt, CM!Replace, CM!Refreshed, CM!Data, CM!Running,
                  CMP!StatusReceived, CMP!SetFriendStatusMessage,
                  CMP!NoSuchRow, CMP!FoundAt, CMP!Replace, CMP!Refreshed,
                  CMP!Data, CMP!Running
    <3> QED
      BY <3>1 DEF CMP!Next
  <2> QED
    BY <2>1, <2>2, <2>3, <2>4, <2>5, <2>6
<1> QED
  BY <1>1, ModelAssumptions, CMP!StepIInv
     DEF CMP!BytesAssumption, CMP!MaxAssumption, CMP!NoneAssumption

LEMMA InitParts == Init => Parts
<1> SUFFICES ASSUME Init PROVE Parts
  OBVIOUS
<1>1. NoPages /\ NoModel /\ core = <<>>
  BY DEF Init, NoPages, NoModel
<1>2. friends \in [Keys -> AF!Friend \cup {None}]
  BY DEF Init, NoFriends
<1> QED
  BY <1>1, <1>2, FreshPages, FreshModel, MaxAssumption DEF Parts, Fresh

\* A process that starts or ends.
LEMMA FreshParts ==
    ASSUME NoPages', NoModel', friends' \in [Keys -> AF!Friend \cup {None}],
           core' \in Seq(CM!CoreFriend), Len(core') <= MaxFriends
    PROVE  Parts'
<1>1. (NoPages /\ friends \in [Keys -> AF!Friend \cup {None}])' => AFP!IInv'
  BY FreshPages, PTL
<1>2. (NoModel /\ core \in Seq(CM!CoreFriend) /\ Len(core) <= MaxFriends)'
          => CMP!IInv'
  BY FreshModel, PTL
<1> QED
  BY <1>1, <1>2 DEF Parts, Fresh

\* With the model wired, any steps of the two.
LEMMA WiredParts ==
    ASSUME AFP!IInv', CMP!IInv', pointer' = "set"
    PROVE  Parts'
  BY DEF Parts, Fresh

LEMMA AskParts ==
    ASSUME Parts, Working, Propagate,
           AF!ConfirmAddFriend \/ AF!AcceptFriendRequest
    PROVE  Parts'
<1>1. AFP!IInv'
  BY PagesStep DEF Parts
<1>2. UNCHANGED modelVars \/ \E k \in Keys : CM!FriendAdded(k)
  <2>1. FriendKeys(friends') \subseteq Keys
    BY DEF FriendKeys
  <2> QED
    BY <2>1 DEF Propagate
<1>3. CMP!IInv'
  BY <1>2, ModelStep DEF Parts
<1>4. pointer' = "set"
  BY <1>2 DEF Working, modelVars, CM!FriendAdded
<1> QED
  BY <1>1, <1>3, <1>4, WiredParts

LEMMA StepParts == Parts /\ [Next]_vars => Parts'
<1> SUFFICES ASSUME Parts, [Next]_vars PROVE Parts'
  OBVIOUS
<1>1. AFP!IInv /\ CMP!IInv /\ Fresh
  BY DEF Parts
<1>2. CASE UNCHANGED <<uiVars, modelVars>>
  <2>1. AFP!IInv' /\ CMP!IInv'
    BY <1>1, <1>2, PagesStep, ModelStep
  <2> QED
    BY <1>1, <1>2, <2>1
       DEF Parts, Fresh, NoPages, NoModel, uiVars, modelVars
<1>3. CASE Upgrade \/ UNCHANGED vars
  BY <1>2, <1>3 DEF Upgrade, vars
<1>4. CASE Launch
  <2>1. /\ pointer = "null"
        /\ UNCHANGED <<page, address, message, shown, result, dialog,
                       object, pointer, rows, delegates>>
    BY <1>4 DEF Launch, Down
  <2>2. NoPages' /\ NoModel'
    BY <1>1, <2>1 DEF Fresh, NoPages, NoModel
  <2>3. friends' \in [Keys -> AF!Friend \cup {None}]
    BY <1>4 DEF Launch
  <2>4. PICK n \in 0..MaxFriends : core' \in [1..n -> CM!CoreFriend]
    BY <1>4 DEF Launch
  <2>5. core' \in Seq(CM!CoreFriend) /\ Len(core') <= MaxFriends
    BY <2>4, MaxAssumption
  <2> QED
    BY <2>2, <2>3, <2>5, FreshParts
<1>5. CASE Wire
  <2>1. CM!ModelInit /\ UNCHANGED uiVars /\ pointer' = "set"
    BY <1>5 DEF Wire, CM!ModelInit
  <2> QED
    BY <1>1, <2>1, PagesStep, ModelStep, WiredParts
<1>6. CASE SendFriendRequest \/ AcceptFriendRequest
  BY <1>6, AskParts DEF SendFriendRequest, AcceptFriendRequest
<1>7. CASE CallBack
  <2>1. CASE /\ \E k \in Keys : AF!FriendRequestReceived(k) \/ AF!FriendConfirms(k)
             /\ UNCHANGED modelVars
    <3>1. AFP!IInv' /\ CMP!IInv'
      BY <1>1, <2>1, PagesStep, ModelStep
    <3>2. pointer' = "set"
      BY <1>7, <2>1 DEF CallBack, Working, modelVars
    <3> QED
      BY <3>1, <3>2, WiredParts
  <2>2. CASE /\ \E i \in 1..MaxFriends, b \in Bytes :
                   CM!NameReceived(i, b) \/ CM!StatusReceived(i, b)
             /\ UNCHANGED uiVars
    <3>1. AFP!IInv' /\ CMP!IInv'
      BY <1>1, <2>2, PagesStep, ModelStep
    <3>2. pointer' = "set"
      BY <1>7, <2>2 DEF CallBack, Working, CM!NameReceived, CM!StatusReceived
    <3> QED
      BY <3>1, <3>2, WiredParts
  <2> QED
    BY <1>7, <2>1, <2>2 DEF CallBack
<1>8. CASE UseUi
  <2>1. CASE /\ \/ AF!Navigate \/ AF!CancelAddFriend \/ AF!CloseDialog
                \/ \E text \in AF!Texts \cup {None}, msg \in AF!Messages :
                      AF!Type(text, msg)
             /\ UNCHANGED modelVars
    <3>1. AFP!IInv' /\ CMP!IInv'
      BY <1>1, <2>1, PagesStep, ModelStep
    <3>2. pointer' = "set"
      BY <1>8, <2>1 DEF UseUi, Working, Killed, modelVars
    <3> QED
      BY <3>1, <3>2, WiredParts
  <2>2. CASE /\ \E i \in 1..MaxFriends : CM!CreateDelegate(i) \/ CM!DestroyDelegate(i)
             /\ UNCHANGED uiVars
    <3>1. AFP!IInv' /\ CMP!IInv'
      BY <1>1, <2>2, PagesStep, ModelStep
    <3>2. pointer' = "set"
      BY <1>8, <2>2 DEF UseUi, Working, Killed,
                        CM!CreateDelegate, CM!DestroyDelegate
    <3> QED
      BY <3>1, <3>2, WiredParts
  <2> QED
    BY <1>8, <2>1, <2>2 DEF UseUi
<1>9. CASE HandleSigTerm
  <2>1. CM!Kill /\ UNCHANGED uiVars /\ pointer' = "set"
    BY <1>9 DEF HandleSigTerm, Working, CM!Kill
  <2> QED
    BY <1>1, <2>1, PagesStep, ModelStep, WiredParts
<1>10. CASE End
  <2>1. NoPages' /\ NoModel' /\ core' = <<>> /\ friends' = NoFriends
    BY <1>10 DEF End, NoPages, NoModel, NoResult, NoDelegates
  <2>2. friends' \in [Keys -> AF!Friend \cup {None}]
    BY <2>1 DEF NoFriends
  <2>3. core' \in Seq(CM!CoreFriend) /\ Len(core') <= MaxFriends
    BY <2>1, MaxAssumption
  <2> QED
    BY <2>1, <2>2, <2>3, FreshParts
<1> QED
  BY <1>3, <1>4, <1>5, <1>6, <1>7, <1>8, <1>9, <1>10 DEF Next

LEMMA AlwaysParts == Spec => []Parts
  BY InitParts, StepParts, PTL DEF Spec

-----------------------------------------------------------------------------
(* Theorems                                                                *)

\* The rows of a wired model are tox's friends.
LEMMA RowsOfCore ==
    ASSUME IInv, pointer = "set"
    PROVE  /\ RowKeys = CoreKeys
           /\ \A i, j \in 1..Len(rows) : rows[i].key = rows[j].key => i = j
<1>1. Len(rows) = Len(core) /\ \A i \in 1..Len(core) : rows[i].key = core[i].key
  BY DEF IInv, RowsAreCore
<1>2. \A i, j \in 1..Len(core) : core[i].key = core[j].key => i = j
  BY DEF IInv, ModelType
<1> QED
  BY <1>1, <1>2 DEF RowKeys, CoreKeys

\* The lists of the components stay joined.
THEOREM Invariance == Spec => []IInv
<1> QED
  BY InitIInv, StepIInv, PTL DEF Spec

\* While the client works, tox's account, the list that requests are checked
\* against and the contacts page have the same friends, each in one row.
THEOREM FriendListIsOne == Spec => []OneFriendList
<1>1. IInv => OneFriendList
  <2> SUFFICES ASSUME IInv, Working PROVE OneFriendList
    BY DEF OneFriendList
  <2> QED
    BY RowsOfCore DEF Working, IInv, Joined, OneFriendList
<1> QED
  BY <1>1, Invariance, PTL

\* Whoever the result label calls added is on the contacts page.
THEOREM SuccessListed == Spec => []SuccessIsListed
<1>1. IInv => SuccessIsListed
  BY RowsOfCore DEF IInv, Reported, SuccessIsListed, Added
<1> QED
  BY <1>1, Invariance, PTL

\* Whoever it calls added is in the file, unless the last save failed.
THEOREM SuccessSaved == Spec => []SuccessIsSaved
<1>1. IInv => SuccessIsSaved
  BY DEF IInv
<1> QED
  BY <1>1, Invariance, PTL

\* A friend reported and saved is there in every session that goes on with
\* the account.
THEOREM KeptReturn == Spec => []KeptFriendsReturn
<1>1. IInv => KeptFriendsReturn
  <2> SUFFICES ASSUME IInv, Working PROVE kept \subseteq FriendKeys(friends) \cap RowKeys
    BY DEF KeptFriendsReturn
  <2> QED
    BY RowsOfCore DEF Working, IInv, Joined, KeptSafe
<1> QED
  BY <1>1, Invariance, PTL

\* The state of every component keeps its type, over all sessions.
THEOREM TypeCorrect == Spec => []TypeOK
<1>1. IInv /\ Parts => TypeOK
  <2> SUFFICES ASSUME IInv, Parts PROVE TypeOK
    OBVIOUS
  <2>1. AF!TypeOK
    BY DEF Parts, AFP!IInv, AFP!TypeOK, AF!TypeOK, AFP!Friend, AF!Friend,
           AFP!Texts, AF!Texts, AFP!Messages, AF!Messages, AFP!Codes, AF!Codes,
           AFP!Users, AF!Users
  <2>2. CM!TypeOK
    BY DEF Parts, CMP!IInv, CMP!TypeOK, CM!TypeOK, CMP!CoreFriend, CM!CoreFriend,
           CMP!Friend, CM!Friend, CMP!Delegate, CM!Delegate
  <2>3. P!TypeOK /\ kept \in SUBSET Keys
    BY DEF IInv, AccountType, P!TypeOK
  <2> QED
    BY <2>1, <2>2, <2>3 DEF TypeOK
<1> QED
  BY <1>1, Invariance, AlwaysParts, PTL

\* What AddFriend guarantees of the labels and the dialog holds in every
\* session: no request of a friend is shown, no success without a friend, no
\* dialog off its page, no address of 76 digits left behind it.
THEOREM PagesGuarantee ==
    Spec => [](/\ AF!ShownIsStranger /\ AF!ResultIsTrue
               /\ AF!DialogOnAddPage /\ AF!DigitsClearedOnLeave)
<1>1. Parts => /\ AF!ShownIsStranger /\ AF!ResultIsTrue
               /\ AF!DialogOnAddPage /\ AF!DigitsClearedOnLeave
  BY DEF Parts, AFP!IInv, AF!ShownIsStranger, AF!ResultIsTrue, AF!IsFriend,
         AF!DialogOnAddPage, AF!DigitsClearedOnLeave, AFP!ShownIsStranger,
         AFP!ResultIsTrue, AFP!IsFriend, AFP!DialogOnAddPage,
         AFP!DigitsClearedOnLeave
<1> QED
  BY <1>1, AlwaysParts, PTL

\* So does what ContactsModel guarantees of its rows and delegates: they are
\* tox's friends of this session, under the names tox has for them.
THEOREM ModelGuarantee == Spec => [](CM!RowsMirrorCore /\ CM!ShownIsCurrent)
<1>1. Parts => CM!RowsMirrorCore /\ CM!ShownIsCurrent
  BY DEF Parts, CMP!IInv, CM!RowsMirrorCore, CM!ShownIsCurrent, CM!ShowsFriend,
         CMP!RowsMirrorCore, CMP!ShownIsCurrent, CMP!ShowsFriend
<1> QED
  BY <1>1, AlwaysParts, PTL

\* Nobody on the contacts page is offered on the main page to be accepted.
THEOREM ContactsAreAccepted == Spec => []NoRequestOfContact
<1>1. IInv /\ Parts => NoRequestOfContact
  <2> SUFFICES ASSUME IInv, Parts, shown # None, shown \in RowKeys
               PROVE  FALSE
    BY DEF NoRequestOfContact
  <2>1. pointer = "set"
    BY DEF Parts, Fresh, NoPages, IInv, ModelType
  <2>2. RowKeys = FriendKeys(friends)
    BY <2>1, RowsOfCore DEF IInv, Joined
  <2> QED
    BY <2>2 DEF Parts, AFP!IInv, AFP!ShownIsStranger, AFP!IsFriend, FriendKeys
<1> QED
  BY <1>1, Invariance, AlwaysParts, PTL
=============================================================================
