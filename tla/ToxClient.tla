----------------------------- MODULE ToxClient -----------------------------
(***************************************************************************)
(* The client over several sessions, composed of                           *)
(*   - the pages and slots that add friends (AddFriend),                   *)
(*   - the model of the contacts page (ContactsModel), and                 *)
(*   - the account with its file (Account, which ToxBackend implements).   *)
(*                                                                         *)
(* Each keeps a list of the same friends.  What joins them are signals,    *)
(* which are direct calls, and saveTox(): a step here is a step of the     *)
(* component that acts, with what it sets off in the others.               *)
(***************************************************************************)
EXTENDS Naturals, Sequences

CONSTANTS
    Ids, Keys, OwnKey, Other, Nospams, None,
    Bytes, Strings, NoBytes, Empty, FromUtf8, MaxFriends

VARIABLES
    friends, page, address, message, shown, result, dialog,  \* of AddFriend
    core, object, pointer, rows, delegates,                  \* of ContactsModel
    account, file, saved,                                    \* of Account
    kept  \* history: friends reported as added and saved, of the account
          \* that the sessions since the last SetOut go on with

AF == INSTANCE AddFriend
CM == INSTANCE ContactsModel WITH memory <- object, tox <- pointer,
                                  shown <- delegates
P  == INSTANCE Account WITH memory <- account

ASSUME NoneAssumption ==
    /\ OwnKey \notin Keys /\ Other \notin Keys \cup {OwnKey}
    /\ None \notin AF!Texts \cup AF!Friend \cup AF!Codes
    /\ None \notin Keys \cup {OwnKey, Other}
    /\ None \notin CM!Delegate
    /\ None \notin P!Accounts \cup P!Files
ASSUME BytesAssumption ==
    /\ NoBytes \in Bytes /\ Empty \in Strings
    /\ FromUtf8 \in [Bytes -> Strings] /\ FromUtf8[NoBytes] = Empty
ASSUME MaxAssumption == MaxFriends \in Nat

uiVars    == <<friends, page, address, message, shown, result, dialog>>
modelVars == <<core, object, pointer, rows, delegates>>
fileVars  == <<account, file, saved>>
vars      == <<uiVars, modelVars, fileVars, kept>>

\* No process; one after its SIGTERM, whose loop still runs; a working one.
Down    == account = None /\ pointer = "null"
Killed  == account = None /\ pointer = "set"
Working == account # None /\ pointer = "set"

FriendKeys(list) == {k \in Keys : list[k] # None}
RowKeys          == {rows[i].key : i \in 1..Len(rows)}

\* The key whose success the main page shows, if it names one.
Added == IF result.success THEN {result.user} \cap Keys ELSE {}

NoFriends   == [k \in Keys |-> None]
NoResult    == [user |-> None, success |-> FALSE]
NoDelegates == [i \in 1..MaxFriends |-> None]

Init ==
    /\ friends = NoFriends /\ result = NoResult
    /\ page = "main" /\ address = None /\ message = "empty"
    /\ shown = None /\ dialog = None
    /\ core = <<>> /\ rows = <<>> /\ delegates = NoDelegates
    /\ object = "alive" /\ pointer = "null"
    /\ P!Init
    /\ kept = {}

-----------------------------------------------------------------------------
(* A session begins                                                        *)

\* The constructor: tox has the friends of the account, in any order and
\* state; the pages are as main.qml declares them.
Launch ==
    /\ Down
    /\ \/ P!Resume /\ UNCHANGED kept
       \/ /\ \E a \in P!Accounts : P!SetOut(a)
          /\ kept' = {}
    /\ friends' \in [Keys -> {None} \cup
                        {f \in AF!Friend : f.nospam = None => f.confirmed}]
    /\ FriendKeys(friends') = account'.friends
    /\ \E n \in 0..MaxFriends : core' \in [1..n -> CM!CoreFriend]
    /\ {core'[i].key : i \in DOMAIN core'} = account'.friends
    /\ \A i, j \in DOMAIN core' : core'[i].key = core'[j].key => i = j
    /\ UNCHANGED <<page, address, message, shown, result, dialog,
                   object, pointer, rows, delegates>>

\* The binding of toxBackend is evaluated.
Wire == /\ account # None
        /\ CM!ModelInit
        /\ UNCHANGED <<uiVars, fileVars, kept>>

-----------------------------------------------------------------------------
(* A session goes on                                                       *)

\* Mutants of Propagate: the model is not connected to friendAdded; it is
\* connected while its page is shown.
NotPropagated == UNCHANGED modelVars
PropagatedOnPage ==
    IF page' = "contacts" /\ friends' # friends
    THEN \E k \in FriendKeys(friends') \ FriendKeys(friends) : CM!FriendAdded(k)
    ELSE UNCHANGED modelVars

\* friendAdded goes to the contacts model too.
Propagate ==
    LET new == FriendKeys(friends') \ FriendKeys(friends)
    IN  IF new = {} THEN UNCHANGED modelVars
                    ELSE \E k \in new : CM!FriendAdded(k)

\* Mutant of SaveSent: no save when tox took the friend.
SaveFailedOnly ==
    LET a == [account EXCEPT !.friends = FriendKeys(friends')]
    IN  IF friends' = friends THEN P!Change(a)
                              ELSE account' = a /\ UNCHANGED <<file, saved>>

\* saveTox at the end of sendFriendRequest, whatever tox answered.
SaveSent == P!Change([account EXCEPT !.friends = FriendKeys(friends')])

\* Mutant of SaveAccepted: no save.
AcceptedUnsaved ==
    /\ account' = [account EXCEPT !.friends = FriendKeys(friends')]
    /\ UNCHANGED <<file, saved>>

\* acceptFriendRequest saves when tox took the friend.
SaveAccepted ==
    \/ /\ friends' # friends
       /\ P!Change([account EXCEPT !.friends = FriendKeys(friends')])
    \/ /\ friends' = friends
       /\ UNCHANGED fileVars

\* Reported as added, and saved.
Keep == kept' = IF saved' THEN kept \cup Added' ELSE kept

SendFriendRequest ==
    /\ Working
    /\ AF!ConfirmAddFriend
    /\ Propagate
    /\ SaveSent
    /\ Keep

AcceptFriendRequest ==
    /\ Working
    /\ AF!AcceptFriendRequest
    /\ Propagate
    /\ SaveAccepted
    /\ Keep

\* tox_do calls back: a request, a friend coming online, a new name.
CallBack ==
    /\ Working
    /\ \/ /\ \E k \in Keys : AF!FriendRequestReceived(k) \/ AF!FriendConfirms(k)
          /\ UNCHANGED modelVars
       \/ /\ \E i \in 1..MaxFriends, b \in Bytes :
                CM!NameReceived(i, b) \/ CM!StatusReceived(i, b)
          /\ UNCHANGED uiVars
    /\ UNCHANGED <<fileVars, kept>>

\* What needs no tox: the pages, and the delegates of the contacts.
UseUi ==
    /\ (Working \/ Killed)
    /\ \/ /\ \/ AF!Navigate \/ AF!CancelAddFriend \/ AF!CloseDialog
             \/ \E text \in AF!Texts \cup {None}, msg \in AF!Messages :
                   AF!Type(text, msg)
          /\ UNCHANGED modelVars
       \/ /\ \E i \in 1..MaxFriends : CM!CreateDelegate(i) \/ CM!DestroyDelegate(i)
          /\ UNCHANGED uiVars
    /\ UNCHANGED <<fileVars, kept>>

-----------------------------------------------------------------------------
(* A session ends                                                          *)

\* handleSigTerm: save and kill, and the event loop goes on.
HandleSigTerm ==
    /\ Working
    /\ P!Leave /\ P!Save(account)
    /\ CM!Kill
    /\ UNCHANGED uiVars
    /\ Keep

\* The process ends: closed, killed, or by the crash of a click or of a tick
\* after SIGTERM.
End ==
    /\ ~Down
    /\ \/ P!Leave
       \/ Killed /\ UNCHANGED fileVars
    /\ friends' = NoFriends /\ result' = NoResult
    /\ page' = "main" /\ address' = None /\ message' = "empty"
    /\ shown' = None /\ dialog' = None
    /\ core' = <<>> /\ rows' = <<>> /\ delegates' = NoDelegates
    /\ object' = "alive" /\ pointer' = "null"
    /\ UNCHANGED kept

-----------------------------------------------------------------------------
\* Another libtoxcore is installed.
Upgrade == Down /\ P!Age /\ UNCHANGED <<uiVars, modelVars, kept>>

Next == \/ Upgrade \/ Launch \/ Wire
        \/ SendFriendRequest \/ AcceptFriendRequest \/ CallBack \/ UseUi
        \/ HandleSigTerm \/ End

Spec == Init /\ [][Next]_vars

-----------------------------------------------------------------------------
(* Properties                                                              *)

TypeOK == AF!TypeOK /\ CM!TypeOK /\ P!TypeOK /\ kept \in SUBSET Keys

\* One list of friends: those of tox's account, those the client compares
\* requests with, and those on the contacts page, each in one row.
OneFriendList ==
    Working => /\ FriendKeys(friends) = account.friends
               /\ RowKeys = account.friends
               /\ \A i, j \in 1..Len(rows) : rows[i].key = rows[j].key => i = j

\* The main page offers to accept nobody who is on the contacts page: the
\* label and the rows are kept by different pages, and hear of a new friend
\* by two connections to the same signal.
NoRequestOfContact == shown # None => shown \notin RowKeys

\* "Added friend successfully" is never read of somebody who is not on the
\* contacts page too, even after a SIGTERM.
SuccessIsListed == Added \subseteq RowKeys

\* Nor of somebody who is not in the file, unless the last save failed: both
\* ways of adding a friend save it, and so does the SIGTERM that follows.
SuccessIsSaved ==
    (Added # {} /\ saved) => file # None /\ Added \subseteq file.account.friends

\* A friend reported as added and saved is a friend in every later session
\* that goes on with the account, and on its contacts page.
KeptFriendsReturn ==
    Working => kept \subseteq FriendKeys(friends) \cap RowKeys
=============================================================================
