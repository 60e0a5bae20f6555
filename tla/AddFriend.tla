----------------------------- MODULE AddFriend -----------------------------
(***************************************************************************)
(* Adding friends, from the pages of main.qml through sendFriendRequest    *)
(* and acceptFriendRequest to tox's friend list and back, by the signals   *)
(* friendAdded and failedToAddFriend, to the labels and the error dialog.  *)
(*                                                                         *)
(* Both slots emit their signal synchronously, so a click with everything  *)
(* it sets off is one action.  Requests of others come out of tox_do, on   *)
(* any page and under an open dialog.  Saving is in ToxBackend.tla.        *)
(***************************************************************************)
CONSTANTS
    Keys,      \* public keys of other users
    OwnKey,
    Nospams,
    Other,     \* a user id that is not the key tox reads from the text
    None       \* no request, no friend, an empty user id or text field

ASSUME KeysAssumption == /\ OwnKey \notin Keys
                         /\ Other \notin Keys \cup {OwnKey}
                         /\ None \notin Keys \cup {OwnKey, Other}

Codes == {"TOOLONG", "NOMESSAGE", "OWNKEY", "ALREADYSENT", "UNKNOWN",
          "BADCHECKSUM", "SETNEWNOSPAM", "NOMEM",
          "UNSPECIFIED"}  \* 0, the default argument of failedToAddFriend

\* A text of the address field.  "good" and "bad" have the 76 digits of an
\* address, with a right and a wrong checksum.  "garbled" has 76 characters
\* that are not all digits, "short" has less.  `user` is what the first 64
\* characters name: those of a garbled or short text need not be a key.
Texts == [user : Keys \cup {OwnKey}, nospam : Nospams, form : {"good", "bad"}]
    \cup [user : Keys \cup {OwnKey, Other}, nospam : {None},
          form : {"garbled", "short"}]

\* The 38 bytes that tox_add_friend reads.
Addresses == [key : Keys \cup {OwnKey}, nospam : Nospams, valid : BOOLEAN]

\* fromHex skips what is no digit, and an odd number of digits moves each by
\* half a byte; bytes a text does not give are as the allocator left them.
\* Whatever a garbled, short or empty text names, tox may read any address.
Read(text) ==
    IF text # None /\ text.form \in {"good", "bad"}
    THEN {[key |-> text.user, nospam |-> text.nospam, valid |-> text.form = "good"]}
    ELSE Addresses

\* What friendAdded and failedToAddFriend name.
UserId(text, a) == IF text = None THEN None
                   ELSE IF text.user = a.key THEN text.user ELSE Other

Users == Keys \cup {OwnKey, Other, None}

Messages == {"empty", "fits", "long"}

\* An entry of tox's friend list; one added without a request is confirmed.
Friend == [nospam : Nospams \cup {None}, confirmed : BOOLEAN]

ASSUME NoneAssumption == None \notin Texts \cup Friend \cup Codes

VARIABLES
    friends,  \* tox's friend list: Friend or None for each key
    page,     \* pageStack.currentPage
    address,  \* friendAddressTextField.text
    message,  \* friendMessageTextField.text
    shown,    \* friendRequestLabel.userId
    result,   \* addFriendResultLabel
    dialog    \* errorCode of the open addFriendErrorDialog

vars == <<friends, page, address, message, shown, result, dialog>>

TypeOK ==
    /\ friends \in [Keys -> Friend \cup {None}]
    /\ page \in {"main", "contacts", "addFriend"}
    /\ address \in Texts \cup {None}
    /\ message \in Messages
    /\ shown \in Keys \cup {None}
    /\ result \in [user : Users, success : BOOLEAN]
    /\ dialog \in Codes \cup {None}

Init ==
    /\ friends \in [Keys -> {None} \cup [nospam : Nospams, confirmed : BOOLEAN]]
    /\ page = "main"
    /\ address = None
    /\ message = "empty"
    /\ shown = None
    /\ result = [user |-> None, success |-> FALSE]
    /\ dialog = None

IsFriend(k) == k \in Keys /\ friends[k] # None

-----------------------------------------------------------------------------
(* tox's friend list                                                       *)

\* What tox_add_friend answers to the address a: the first check that fails,
\* or what comes of growing the list.
Outcomes == {"OK", "NOMEM", "UNKNOWN"}

AddFriendCode(a, msg, outcome) ==
    IF msg = "long" THEN "TOOLONG"
    ELSE IF ~a.valid THEN "BADCHECKSUM"
    ELSE IF msg = "empty" THEN "NOMESSAGE"
    ELSE IF a.key = OwnKey THEN "OWNKEY"
    ELSE IF IsFriend(a.key)
         THEN IF friends[a.key].confirmed \/ friends[a.key].nospam = a.nospam
              THEN "ALREADYSENT" ELSE "SETNEWNOSPAM"
    ELSE outcome

\* What it does to the list.
FriendsAfter(a, code) ==
    CASE code = "OK" ->
            [friends EXCEPT ![a.key] = [nospam |-> a.nospam, confirmed |-> FALSE]]
      [] code = "SETNEWNOSPAM" ->
            [friends EXCEPT ![a.key].nospam = a.nospam]
      [] OTHER -> friends

\* tox_add_friend_norequest, when it succeeds.
FriendsWithConfirmed(k) ==
    [friends EXCEPT ![k] = [nospam |-> None, confirmed |-> TRUE]]

-----------------------------------------------------------------------------
(* The signals' handlers in main.qml                                       *)

\* Mutants of OnFriendAdded: the request stays on the main page; the label
\* takes the other argument of the signal.
OnFriendAddedKeepsRequest(user) ==
    /\ result' = [user |-> user, success |-> TRUE]
    /\ UNCHANGED shown
OnFriendAddedTakesId(user) ==
    /\ shown' = None
    /\ result' = [user |-> "friendId", success |-> TRUE]

OnFriendAdded(user) ==
    /\ shown' = None
    /\ result' = [user |-> user, success |-> TRUE]

\* Mutant of OnFailedToAddFriend: the label keeps an earlier success.
OnFailedKeepsSuccess(user) ==
    /\ shown' = None
    /\ result' = [result EXCEPT !.user = user]

OnFailedToAddFriend(user) ==
    /\ shown' = None
    /\ result' = [user |-> user, success |-> FALSE]

ClearFields == address' = None /\ message' = "empty"

\* Mutant of OpenDialog: whatever page is current.
OpenDialogAnywhere(code) == dialog' = code

\* The add page's handler of failedToAddFriend opens the dialog only when
\* that page is the current one.
OpenDialog(code) == dialog' = IF page = "addFriend" THEN code ELSE dialog

-----------------------------------------------------------------------------
(* Friend requests of others                                               *)

\* tox_do calls onFriendRequest; tox drops the requests of friends.  The
\* label has one place: a newer request replaces the one it shows.
FriendRequestReceived(k) ==
    /\ ~IsFriend(k)
    /\ shown' = k
    /\ result' = [user |-> None, success |-> FALSE]
    /\ UNCHANGED <<friends, page, address, message, dialog>>

\* acceptButton, visible with the label.  acceptFriendRequest fails when
\* tox_add_friend_norequest does: a friend already, or no memory.
AcceptFriendRequest ==
    /\ page = "main"
    /\ shown # None
    /\ \/ /\ ~IsFriend(shown)
          /\ friends' = FriendsWithConfirmed(shown)
          /\ OnFriendAdded(shown)
          /\ UNCHANGED dialog
       \/ /\ OnFailedToAddFriend(shown)
          /\ OpenDialog("UNSPECIFIED")
          /\ UNCHANGED friends
    /\ UNCHANGED <<page, address, message>>

-----------------------------------------------------------------------------
(* The add page                                                            *)

\* Mutant of HasFriendWithAddress: the check is removed, as its TODO thinks
\* of.
NoCheck(text) == FALSE

\* Compares the first 64 of 76 characters with the keys of all friends.
HasFriendWithAddress(text) ==
    text # None /\ text.form # "short" /\ IsFriend(text.user)

\* addFriendAction, and the way to the contacts and back.
GoTo(from, to) ==
    /\ page = from
    /\ page' = to
    /\ UNCHANGED <<friends, address, message, shown, result, dialog>>

Type(text, msg) ==
    /\ page = "addFriend" /\ dialog = None
    /\ address' = text
    /\ message' = msg
    /\ UNCHANGED <<friends, page, shown, result, dialog>>

CancelAddFriend ==
    /\ page = "addFriend" /\ dialog = None
    /\ ClearFields
    /\ page' = "contacts"
    /\ UNCHANGED <<friends, shown, result, dialog>>

\* An empty message is replaced by the placeholder of its field.
MessageSent == IF message = "empty" THEN "fits" ELSE message

\* The answer to a request with this text, of which tox reads the address a:
\* the client's own check, then tox's.
RequestCode(text, a, outcome) ==
    IF HasFriendWithAddress(text) THEN "ALREADYSENT"
    ELSE AddFriendCode(a, MessageSent, outcome)

\* confirmAddFriendAction, with whatever the address field holds.
ConfirmAddFriend ==
    /\ page = "addFriend" /\ dialog = None
    /\ \E a \in Read(address), outcome \in Outcomes :
          LET code == RequestCode(address, a, outcome)
          IN  /\ friends' = FriendsAfter(a, code)
              /\ \/ /\ code = "OK"
                    /\ OnFriendAdded(UserId(address, a))
                    /\ ClearFields
                    /\ page' = "contacts"
                    /\ UNCHANGED dialog
                 \/ /\ code # "OK"
                    /\ OnFailedToAddFriend(UserId(address, a))
                    /\ OpenDialog(code)
                    /\ UNCHANGED <<page, address, message>>

\* The dialog's button, which leaves the add page after SETNEWNOSPAM.
CloseDialog ==
    /\ dialog # None
    /\ dialog' = None
    /\ page' = IF dialog = "SETNEWNOSPAM" THEN "contacts" ELSE page
    /\ UNCHANGED <<friends, address, message, shown, result>>

\* A friend who got a request comes online.
FriendConfirms(k) ==
    /\ IsFriend(k) /\ ~friends[k].confirmed
    /\ friends' = [friends EXCEPT ![k].confirmed = TRUE]
    /\ UNCHANGED <<page, address, message, shown, result, dialog>>

-----------------------------------------------------------------------------
Navigate == \/ GoTo("main", "contacts") \/ GoTo("contacts", "main")
            \/ GoTo("contacts", "addFriend")

Next == \/ Navigate
        \/ \E k \in Keys : FriendRequestReceived(k) \/ FriendConfirms(k)
        \/ AcceptFriendRequest
        \/ \E text \in Texts \cup {None}, msg \in Messages : Type(text, msg)
        \/ CancelAddFriend \/ ConfirmAddFriend \/ CloseDialog

Spec == Init /\ [][Next]_vars

-----------------------------------------------------------------------------
(* Properties                                                              *)

\* The request the main page shows is never one of a friend: whichever way
\* its sender became a friend took it off the page.
ShownIsStranger == shown # None => ~IsFriend(shown)

\* "Added friend successfully" stands only where the named user is a friend,
\* whichever of the two operations the label's last change came from.  (A text
\* whose first 64 characters are not the key it decodes to names nobody.)
ResultIsTrue == (result.success /\ result.user \in Keys) => IsFriend(result.user)

\* The add page's pageStack.pop() in the dialog pops the add page: the
\* dialog is open on no other.
DialogOnAddPage == dialog # None => page = "addFriend"

\* The add page is left with its address field cleared, if that holds 76
\* digits.  The dialog of SETNEWNOSPAM leaves it without clearing anything,
\* but hasFriendWithAddress, which compares characters, keeps that code from
\* coming up for such a text.  It does for others: one pasted after two
\* blanks stays in the field, to be there on the next visit.
DigitsClearedOnLeave ==
    (page # "addFriend" /\ address # None) => address.form \in {"garbled", "short"}

-----------------------------------------------------------------------------
(* What a comment says, and the code does not do                           *)

\* "TODO: Think about removing this as it is already handled by
\* tox_add_friend": when the dialog says that a request was already sent,
\* tox_add_friend would say so too.
CheckIsRedundant ==
    (dialog = "ALREADYSENT" /\ address # None /\ address.form = "good") =>
        \A a \in Read(address) : AddFriendCode(a, "fits", "OK") = "ALREADYSENT"
=============================================================================
