-------------------------- MODULE AddFriendProofs --------------------------
(***************************************************************************)
(* Proofs about AddFriend, for every set of keys and nospams.              *)
(***************************************************************************)
EXTENDS AddFriend, TLAPS

\* DigitsClearedOnLeave rests on this: the code whose dialog leaves the page
\* with its fields filled comes up only for a text that is not all digits.
NospamOnlyUndecoded ==
    (dialog = "SETNEWNOSPAM" /\ address # None) => address.form \in {"garbled", "short"}

IInv == /\ TypeOK
        /\ ShownIsStranger
        /\ ResultIsTrue
        /\ DialogOnAddPage
        /\ NospamOnlyUndecoded
        /\ DigitsClearedOnLeave

-----------------------------------------------------------------------------
(* tox's answers and the friend list                                       *)

LEMMA CodeType ==
    ASSUME NEW text, NEW a, NEW outcome \in Outcomes
    PROVE  RequestCode(text, a, outcome) \in Codes \cup {"OK"}
  BY DEF RequestCode, AddFriendCode, Codes, Outcomes

\* What tox reads of a text is an address, and of a text of 76 digits the one
\* the text names.
LEMMA ReadType ==
    ASSUME NEW text \in Texts \cup {None}, NEW a \in Read(text)
    PROVE  /\ a \in Addresses
           /\ \/ text # None /\ a.key = text.user
              \/ text = None
              \/ text.form \in {"garbled", "short"}
           /\ UserId(text, a) \in {a.key, Other, None}
<1>1. CASE text # None /\ text.form \in {"good", "bad"}
  <2>1. text \in [user : Keys \cup {OwnKey}, nospam : Nospams, form : {"good", "bad"}]
    BY <1>1 DEF Texts
  <2>2. a = [key |-> text.user, nospam |-> text.nospam, valid |-> text.form = "good"]
    BY <1>1 DEF Read
  <2>3. a \in Addresses
    BY <2>1, <2>2 DEF Addresses
  <2> QED
    BY <1>1, <2>2, <2>3 DEF UserId
<1>2. CASE ~(text # None /\ text.form \in {"good", "bad"})
  <2>1. a \in Addresses
    BY <1>2 DEF Read
  <2>2. text = None \/ text.form \in {"garbled", "short"}
    BY <1>2 DEF Texts
  <2> QED
    BY <2>1, <2>2 DEF UserId
<1> QED
  BY <1>1, <1>2

\* A code that changes the list does it for somebody who is not the user;
\* "OK" for a stranger, SETNEWNOSPAM for a friend.
LEMMA CodeMeans ==
    ASSUME NEW text \in Texts \cup {None}, NEW a \in Read(text),
           NEW outcome \in Outcomes
    PROVE  /\ RequestCode(text, a, outcome) = "OK" =>
                  a.key \in Keys /\ ~IsFriend(a.key)
           /\ RequestCode(text, a, outcome) = "SETNEWNOSPAM" =>
                  /\ IsFriend(a.key)
                  /\ text = None \/ text.form \in {"garbled", "short"}
<1> DEFINE code == AddFriendCode(a, MessageSent, outcome)
<1>1. code = "OK" => a.key # OwnKey /\ ~IsFriend(a.key)
  BY DEF AddFriendCode
<1>2. code = "SETNEWNOSPAM" => IsFriend(a.key)
  BY DEF AddFriendCode, Outcomes
<1>3. /\ a.key \in Keys \cup {OwnKey}
      /\ \/ text # None /\ a.key = text.user
         \/ text = None
         \/ text.form \in {"garbled", "short"}
  BY ReadType DEF Addresses
<1> HIDE DEF code
<1>4. \/ /\ HasFriendWithAddress(text)
         /\ RequestCode(text, a, outcome) = "ALREADYSENT"
      \/ /\ ~HasFriendWithAddress(text)
         /\ RequestCode(text, a, outcome) = code
  BY DEF RequestCode, code
<1> QED
  BY <1>1, <1>2, <1>3, <1>4 DEF HasFriendWithAddress

\* IsFriend(k) after the step, of the k before it.
FriendAfter(k) == k \in Keys /\ friends'[k] # None

\* What every operation on the list keeps: a friend stays a friend, and only
\* `k` can become one.
OnlyNewFriend(k) ==
    /\ friends' \in [Keys -> Friend \cup {None}]
    /\ \A l \in Keys : /\ IsFriend(l) => FriendAfter(l)
                       /\ (~IsFriend(l) /\ l # k) => ~FriendAfter(l)

LEMMA SameFriends ==
    ASSUME TypeOK, friends' = friends, NEW k
    PROVE  OnlyNewFriend(k)
  BY DEF TypeOK, OnlyNewFriend, IsFriend, FriendAfter

\* A list with a new entry f for the key k.
LEMMA NewEntry ==
    ASSUME TypeOK, NEW k \in Keys, NEW f \in Friend,
           friends' = [friends EXCEPT ![k] = f]
    PROVE  OnlyNewFriend(k) /\ FriendAfter(k)
<1>1. f # None
  BY NoneAssumption
<1>2. friends' \in [Keys -> Friend \cup {None}]
  BY DEF TypeOK
<1>3. \A l \in Keys : friends'[l] = IF l = k THEN f ELSE friends[l]
  BY DEF TypeOK
<1> QED
  BY <1>1, <1>2, <1>3 DEF OnlyNewFriend, IsFriend, FriendAfter

LEMMA ConfirmedFriend ==
    ASSUME TypeOK, NEW k \in Keys, friends' = FriendsWithConfirmed(k)
    PROVE  OnlyNewFriend(k) /\ FriendAfter(k)
<1>1. [nospam |-> None, confirmed |-> TRUE] \in Friend
  BY DEF Friend
<1> QED
  BY <1>1, NewEntry DEF FriendsWithConfirmed

LEMMA RequestedFriend ==
    ASSUME TypeOK, NEW a \in Addresses, NEW code,
           code = "OK" => a.key \in Keys,
           code = "SETNEWNOSPAM" => IsFriend(a.key),
           friends' = FriendsAfter(a, code)
    PROVE  /\ OnlyNewFriend(a.key)
           /\ code = "OK" => FriendAfter(a.key)
           /\ code = "SETNEWNOSPAM" => FriendAfter(a.key)
           /\ code \notin {"OK", "SETNEWNOSPAM"} => friends' = friends
<1>1. CASE code = "OK"
  <2>1. [nospam |-> a.nospam, confirmed |-> FALSE] \in Friend
    BY DEF Friend, Addresses
  <2>2. friends' = [friends EXCEPT ![a.key] =
                        [nospam |-> a.nospam, confirmed |-> FALSE]]
    BY <1>1 DEF FriendsAfter
  <2> QED
    BY <1>1, <2>1, <2>2, NewEntry
<1>2. CASE code = "SETNEWNOSPAM"
  <2> DEFINE f == [friends[a.key] EXCEPT !.nospam = a.nospam]
  <2>1. a.key \in Keys /\ friends[a.key] \in Friend
    BY <1>2 DEF IsFriend, FriendAfter, TypeOK
  <2>2. f \in Friend
    BY <2>1 DEF Friend, Addresses
  <2>3. friends' = [friends EXCEPT ![a.key] = f]
    BY <1>2 DEF FriendsAfter
  <2> HIDE DEF f
  <2> QED
    BY <1>2, <2>1, <2>2, <2>3, NewEntry
<1>3. CASE code \notin {"OK", "SETNEWNOSPAM"}
  <2>1. friends' = friends
    BY <1>3 DEF FriendsAfter
  <2> QED
    BY <1>3, <2>1, SameFriends
<1> QED
  BY <1>1, <1>2, <1>3

-----------------------------------------------------------------------------
(* The inductive invariant                                                 *)

LEMMA InitIInv == Init => IInv
<1> SUFFICES ASSUME Init
             PROVE  IInv
  OBVIOUS
<1>1. friends \in [Keys -> Friend \cup {None}]
  BY DEF Init, Friend
<1>2. [user |-> None, success |-> FALSE] \in
          [user : Users, success : BOOLEAN]
  BY DEF Users
<1>3. TypeOK
  BY <1>1, <1>2 DEF Init, TypeOK, Messages
<1> QED
  BY <1>3, NoneAssumption
     DEF Init, IInv, ShownIsStranger, ResultIsTrue, DialogOnAddPage,
         NospamOnlyUndecoded, DigitsClearedOnLeave, Codes

\* The two handlers of the main page's labels, after an operation that made
\* at most `k` a friend.
LEMMA LabelsAfter ==
    ASSUME TypeOK, NEW k, OnlyNewFriend(k), NEW user \in Users,
           \/ OnFriendAdded(user) /\ (user \in Keys => FriendAfter(user))
           \/ OnFailedToAddFriend(user)
    PROVE  /\ ShownIsStranger' /\ ResultIsTrue'
           /\ shown' = None
           /\ result' \in [user : Users, success : BOOLEAN]
<1>1. shown' = None
  BY DEF OnFriendAdded, OnFailedToAddFriend
<1>2. CASE OnFriendAdded(user) /\ (user \in Keys => FriendAfter(user))
  <2>1. result' = [user |-> user, success |-> TRUE]
    BY <1>2 DEF OnFriendAdded
  <2>2. ResultIsTrue'
    BY <1>2, <2>1 DEF ResultIsTrue, IsFriend, FriendAfter
  <2> QED
    BY <1>1, <2>1, <2>2 DEF ShownIsStranger
<1>3. CASE OnFailedToAddFriend(user)
  BY <1>1, <1>3 DEF OnFailedToAddFriend, ShownIsStranger, ResultIsTrue
<1> QED
  BY <1>1, <1>2, <1>3

\* The labels after a step that leaves them and loses no friend.
LEMMA LabelsKept ==
    ASSUME IInv, UNCHANGED <<shown, result>>,
           \A l \in Keys : FriendAfter(l) <=> IsFriend(l),
           friends' \in [Keys -> Friend \cup {None}]
    PROVE  ShownIsStranger' /\ ResultIsTrue'
<1>1. \A l : FriendAfter(l) => l \in Keys
  BY DEF IsFriend, FriendAfter
<1> QED
  BY <1>1 DEF IInv, TypeOK, ShownIsStranger, ResultIsTrue, IsFriend, FriendAfter

LEMMA StepIInv == IInv /\ [Next]_vars => IInv'
<1> SUFFICES ASSUME IInv, [Next]_vars
             PROVE  IInv'
  OBVIOUS
<1>1. TypeOK
  BY DEF IInv
<1>2. ASSUME friends' = friends, UNCHANGED <<shown, result>>
      PROVE  ShownIsStranger' /\ ResultIsTrue'
  BY <1>1, <1>2, LabelsKept DEF TypeOK, IsFriend, FriendAfter
<1>3. ASSUME NEW from, NEW to \in {"main", "contacts", "addFriend"},
             from # "addFriend", GoTo(from, to)
      PROVE  IInv'
  <2>1. dialog = None
    BY <1>3 DEF GoTo, IInv, DialogOnAddPage
  <2>2. TypeOK'
    BY <1>1, <1>3 DEF GoTo, TypeOK
  <2>3. ShownIsStranger' /\ ResultIsTrue'
    BY <1>2, <1>3 DEF GoTo
  <2> QED
    BY <1>3, <2>1, <2>2, <2>3
       DEF GoTo, IInv, DialogOnAddPage, NospamOnlyUndecoded, DigitsClearedOnLeave
<1>4. CASE Navigate
  BY <1>3, <1>4 DEF Navigate
<1>5. ASSUME NEW k \in Keys, FriendRequestReceived(k)
      PROVE  IInv'
  <2>1. TypeOK'
    BY <1>1, <1>5 DEF FriendRequestReceived, TypeOK, Users
  <2>2. ShownIsStranger' /\ ResultIsTrue'
    <3>1. friends' = friends /\ shown' = k /\ ~IsFriend(k)
      BY <1>5 DEF FriendRequestReceived
    <3>2. ~result'.success
      BY <1>5 DEF FriendRequestReceived
    <3> QED
      BY <3>1, <3>2 DEF ShownIsStranger, ResultIsTrue, IsFriend
  <2> QED
    BY <1>5, <2>1, <2>2
       DEF FriendRequestReceived, IInv, DialogOnAddPage, NospamOnlyUndecoded,
           DigitsClearedOnLeave
<1>6. CASE AcceptFriendRequest
  <2>1. /\ page = "main" /\ shown \in Keys
        /\ UNCHANGED <<page, address, message, dialog>>
    BY <1>1, <1>6 DEF AcceptFriendRequest, TypeOK, OpenDialog
  <2>2. /\ OnlyNewFriend(shown)
        /\ \/ OnFriendAdded(shown) /\ FriendAfter(shown)
           \/ OnFailedToAddFriend(shown)
        /\ shown \in Users
    BY <1>1, <1>6, <2>1, ConfirmedFriend, SameFriends DEF AcceptFriendRequest, Users
  <2>3. /\ ShownIsStranger' /\ ResultIsTrue'
        /\ shown' = None
        /\ result' \in [user : Users, success : BOOLEAN]
    BY <1>1, <2>1, <2>2, LabelsAfter
  <2>4. TypeOK'
    BY <1>1, <2>1, <2>2, <2>3 DEF TypeOK, OnlyNewFriend
  <2> QED
    BY <2>1, <2>3, <2>4
       DEF IInv, DialogOnAddPage, NospamOnlyUndecoded, DigitsClearedOnLeave
<1>7. ASSUME NEW text \in Texts \cup {None}, NEW msg \in Messages, Type(text, msg)
      PROVE  IInv'
  <2>1. TypeOK'
    BY <1>1, <1>7 DEF Type, TypeOK
  <2>2. ShownIsStranger' /\ ResultIsTrue'
    BY <1>2, <1>7 DEF Type
  <2> QED
    BY <1>7, <2>1, <2>2, NoneAssumption
       DEF Type, IInv, DialogOnAddPage, NospamOnlyUndecoded,
           DigitsClearedOnLeave, Codes
<1>8. CASE CancelAddFriend
  <2>1. TypeOK'
    BY <1>1, <1>8 DEF CancelAddFriend, ClearFields, TypeOK, Messages
  <2>2. ShownIsStranger' /\ ResultIsTrue'
    BY <1>2, <1>8 DEF CancelAddFriend
  <2> QED
    BY <1>8, <2>1, <2>2, NoneAssumption
       DEF CancelAddFriend, ClearFields, IInv, DialogOnAddPage,
           NospamOnlyUndecoded, DigitsClearedOnLeave, Codes
<1>9. CASE ConfirmAddFriend
  <2>1. /\ page = "addFriend" /\ dialog = None
        /\ address \in Texts \cup {None}
    BY <1>1, <1>9 DEF ConfirmAddFriend, TypeOK
  <2>2. PICK a \in Read(address), outcome \in Outcomes :
          LET code == RequestCode(address, a, outcome)
          IN  /\ friends' = FriendsAfter(a, code)
              /\ \/ /\ code = "OK"
                    /\ OnFriendAdded(UserId(address, a))
                    /\ ClearFields
                    /\ page' = "contacts"
                    /\ UNCHANGED dialog
                 \/ /\ code # "OK"
                    /\ OnFailedToAddFriend(UserId(address, a))
                    /\ OpenDialog(code)
                    /\ UNCHANGED <<page, address, message>>
    BY <1>9 DEF ConfirmAddFriend
  <2>3. a \in Addresses /\ UserId(address, a) \in {a.key, Other, None}
    BY <2>1, ReadType
  <2> DEFINE code == RequestCode(address, a, outcome)
             user == UserId(address, a)
  <2>4. /\ code \in Codes \cup {"OK"}
        /\ code = "OK" => a.key \in Keys /\ ~IsFriend(a.key)
        /\ code = "SETNEWNOSPAM" =>
               /\ IsFriend(a.key)
               /\ address = None \/ address.form \in {"garbled", "short"}
    BY <2>1, CodeType, CodeMeans
  <2>5. /\ friends' = FriendsAfter(a, code)
        /\ \/ /\ code = "OK"
              /\ OnFriendAdded(user)
              /\ ClearFields
              /\ page' = "contacts"
              /\ UNCHANGED dialog
           \/ /\ code # "OK"
              /\ OnFailedToAddFriend(user)
              /\ OpenDialog(code)
              /\ UNCHANGED <<page, address, message>>
    BY <2>2
  <2> HIDE DEF code
  <2>6. OnlyNewFriend(a.key) /\ (code = "OK" => FriendAfter(a.key))
    BY <1>1, <2>3, <2>4, <2>5, RequestedFriend
  <2>7. a.key \in Keys \cup {OwnKey} /\ user \in Users
    BY <2>3 DEF Addresses, Users
  <2> HIDE DEF user
  <2>8. /\ ShownIsStranger' /\ ResultIsTrue'
        /\ shown' = None
        /\ result' \in [user : Users, success : BOOLEAN]
    <3>1. user \in {a.key, Other, None}
      BY <2>3 DEF user
    <3>2. \/ OnFriendAdded(user) /\ (user \in Keys => FriendAfter(user))
          \/ OnFailedToAddFriend(user)
      BY <2>5, <2>6, <3>1, KeysAssumption
    <3> QED
      BY <1>1, <2>6, <2>7, <3>2, LabelsAfter
  <2>9. CASE code = "OK"
    <3>1. /\ page' = "contacts" /\ dialog' = None
          /\ address' = None /\ message' = "empty"
      BY <2>1, <2>5, <2>9 DEF ClearFields
    <3>2. TypeOK'
      BY <2>6, <2>8, <3>1 DEF TypeOK, OnlyNewFriend, Messages
    <3> QED
      BY <2>8, <3>1, <3>2, NoneAssumption
         DEF IInv, DialogOnAddPage, NospamOnlyUndecoded, DigitsClearedOnLeave, Codes
  <2>10. CASE code # "OK"
    <3>1. dialog' = code /\ UNCHANGED <<page, address, message>>
      BY <2>1, <2>5, <2>10 DEF OpenDialog
    <3>2. TypeOK'
      BY <1>1, <2>4, <2>6, <2>8, <2>10, <3>1 DEF TypeOK, OnlyNewFriend
    <3> QED
      BY <2>1, <2>4, <2>8, <3>1, <3>2
         DEF IInv, DialogOnAddPage, NospamOnlyUndecoded, DigitsClearedOnLeave
  <2> QED
    BY <2>9, <2>10
<1>10. CASE CloseDialog
  <2>1. /\ page = "addFriend" /\ dialog' = None
        /\ page' = "addFriend" \/ (page' = "contacts" /\ dialog = "SETNEWNOSPAM")
        /\ UNCHANGED <<friends, address, message, shown, result>>
    BY <1>10 DEF CloseDialog, IInv, DialogOnAddPage
  <2>2. ShownIsStranger' /\ ResultIsTrue'
    BY <1>2, <2>1
  <2>3. TypeOK'
    BY <1>1, <2>1 DEF TypeOK
  <2> QED
    BY <2>1, <2>2, <2>3, NoneAssumption
       DEF IInv, DialogOnAddPage, NospamOnlyUndecoded, DigitsClearedOnLeave, Codes
<1>11. ASSUME NEW k \in Keys, FriendConfirms(k)
       PROVE  IInv'
  <2> DEFINE f == [friends[k] EXCEPT !.confirmed = TRUE]
  <2>1. IsFriend(k) /\ friends' = [friends EXCEPT ![k] = f]
        /\ UNCHANGED <<page, address, message, shown, result, dialog>>
    BY <1>11 DEF FriendConfirms
  <2>2. f \in Friend
    BY <1>1, <2>1 DEF IsFriend, FriendAfter, TypeOK, Friend
  <2> HIDE DEF f
  <2>3. OnlyNewFriend(k) /\ FriendAfter(k)
    BY <1>1, <2>1, <2>2, NewEntry
  <2>4. ShownIsStranger' /\ ResultIsTrue'
    <3>1. \A l \in Keys : FriendAfter(l) <=> IsFriend(l)
      BY <2>1, <2>3 DEF OnlyNewFriend
    <3> QED
      BY <2>1, <2>3, <3>1, LabelsKept DEF OnlyNewFriend
  <2>5. TypeOK'
    BY <1>1, <2>1, <2>3 DEF TypeOK, OnlyNewFriend
  <2> QED
    BY <2>1, <2>4, <2>5
       DEF IInv, DialogOnAddPage, NospamOnlyUndecoded, DigitsClearedOnLeave
<1>12. CASE UNCHANGED vars
  <2>1. ShownIsStranger' /\ ResultIsTrue'
    BY <1>2, <1>12 DEF vars
  <2> QED
    BY <1>12, <2>1 DEF vars, IInv, TypeOK, DialogOnAddPage, NospamOnlyUndecoded,
                       DigitsClearedOnLeave
<1> QED
  BY <1>4, <1>5, <1>6, <1>7, <1>8, <1>9, <1>10, <1>11, <1>12 DEF Next

LEMMA AlwaysIInv == Spec => []IInv
  BY InitIInv, StepIInv, PTL DEF Spec

-----------------------------------------------------------------------------
(* The theorems                                                            *)

\* The friend list, the pages, the labels and the dialog keep their types.
THEOREM TypeCorrect == Spec => []TypeOK
<1>1. IInv => TypeOK
  BY DEF IInv
<1> QED
  BY AlwaysIInv, <1>1, PTL

\* The main page never offers to accept somebody who is a friend already.
THEOREM NoRequestOfFriend == Spec => []ShownIsStranger
<1>1. IInv => ShownIsStranger
  BY DEF IInv
<1> QED
  BY AlwaysIInv, <1>1, PTL

\* The main page reports success only for somebody who is a friend.
THEOREM ReportIsTrue == Spec => []ResultIsTrue
<1>1. IInv => ResultIsTrue
  BY DEF IInv
<1> QED
  BY AlwaysIInv, <1>1, PTL

\* The error dialog is open only on the add page, so the page its button pops
\* is that one.
THEOREM DialogPopsAddPage == Spec => []DialogOnAddPage
<1>1. IInv => DialogOnAddPage
  BY DEF IInv
<1> QED
  BY AlwaysIInv, <1>1, PTL

\* An address of 76 digits is gone from the field once the add page is left,
\* whatever the error dialog showed: no such text brings up the one code
\* whose dialog leaves the page without clearing.
THEOREM LeavingClears == Spec => []DigitsClearedOnLeave
<1>1. IInv => DigitsClearedOnLeave
  BY DEF IInv
<1> QED
  BY AlwaysIInv, <1>1, PTL
=============================================================================
