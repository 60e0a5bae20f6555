------------------------------- MODULE CData -------------------------------
(***************************************************************************)
(* CUserId and CFriendAddress, which take keys and addresses between the   *)
(* hexadecimal texts of QML and the bytes of tox, and the slots that rely  *)
(* on them: the user id of a request is shown and accepted, an address is  *)
(* typed, checked and sent.                                                *)
(*                                                                         *)
(* AddFriend.tla has the codes, the pages and the dialog; here keys and    *)
(* addresses are bytes, of two digits, and texts are characters.           *)
(***************************************************************************)
EXTENDS Integers, Sequences, FiniteSets

CONSTANTS
    KeySize,        \* TOX_CLIENT_ID_SIZE
    AddressSize,    \* TOX_FRIEND_ADDRESS_SIZE: key, nospam and checksum
    ValidAddresses  \* those with a right checksum

\* Two of the digits, one of them a letter, in both cases; and a character
\* that is no digit.
Digits == {"0", "a"}
Chars  == Digits \cup {"A", "x"}
Byte   == Digits \X Digits

Keys      == [1..KeySize -> Byte]
Addresses == [1..AddressSize -> Byte]

ASSUME SizesAssumption == /\ KeySize \in Nat \ {0}
                          /\ AddressSize \in Nat /\ AddressSize > KeySize
                          /\ ValidAddresses \subseteq Addresses

VARIABLES
    friends,    \* the keys in tox's friend list
    requester,  \* history: the keys of the request shown, a set of at most one
    shown,      \* friendRequestLabel.userId
    result,     \* addFriendResultLabel: user, success; and whether the text
                \* it is about was Aligned
    buffer      \* of the last CData: bytes allocated and bytes written

vars == <<friends, requester, shown, result, buffer>>

-----------------------------------------------------------------------------
(* Conversions                                                             *)

ToLower(text) == [i \in 1..Len(text) |-> IF text[i] = "A" THEN "a" ELSE text[i]]
ToUpper(text) == [i \in 1..Len(text) |-> IF text[i] = "a" THEN "A" ELSE text[i]]

IsDigit(c)   == c \in Digits
Left(text, n) == SubSeq(text, 1, IF n <= Len(text) THEN n ELSE Len(text))

\* The n-th digit of a text from its end, with zeros before the first one.
DigitPlaces(text) == {i \in 1..Len(text) : IsDigit(text[i])}
DigitFromEnd(text, n) ==
    IF n > Cardinality(DigitPlaces(text)) THEN "0"
    ELSE text[CHOOSE i \in DigitPlaces(text) :
                 Cardinality({j \in DigitPlaces(text) : i <= j}) = n]

\* QByteArray::fromHex skips what is no digit and pairs the digits from the
\* end: of an odd number, the first is a byte alone.
FromHex(text) ==
    LET size == (Cardinality(DigitPlaces(text)) + 1) \div 2
    IN  [b \in 1..size |-> <<DigitFromEnd(text, 2 * (size - b) + 2),
                             DigitFromEnd(text, 2 * (size - b) + 1)>>]

\* Mutant of ToHex: the low digit first.
ToHexSwapped(bytes) == [i \in 1..(2 * Len(bytes)) |->
                          bytes[(i + 1) \div 2][1 + (i % 2)]]

ToHex(bytes) == [i \in 1..(2 * Len(bytes)) |-> bytes[(i + 1) \div 2][2 - (i % 2)]]

\* Mutant of CDataToString: toUpper is left out.
CDataToLowerString(bytes) == ToHex(bytes)

\* CData::toString and CData::fromString.
CDataToString(bytes) == ToUpper(ToHex(bytes))
FromString(text)     == FromHex(ToLower(text))

\* The bytes that tox may read from a buffer with the text: those fromString
\* does not write are as the allocator left them.
Readable(text, values) ==
    LET written == FromString(text)
    IN  {b \in values : \A i \in DOMAIN b \cap DOMAIN written : b[i] = written[i]}

\* The buffer of a CData for `byteSize` bytes.
Filled(text, byteSize) ==
    [allocated |-> byteSize + 1, written |-> Len(FromString(text))]

\* CUserId's constructor makes room for as many bytes as there are characters.
UserIdBytes(text) == IF KeySize < Len(text) THEN Len(text) ELSE KeySize

-----------------------------------------------------------------------------
(* The slots                                                               *)

\* Mutant of FieldLimit: room for "tox:".
FieldLimitWithScheme == 2 * AddressSize + 4

\* getFriendAddressSize, the maximumLength of friendAddressTextField.
FieldLimit == 2 * AddressSize

\* Mutant of UserId: a size in bytes taken for one in characters.
UserIdOfBytes(text) == Left(text, KeySize)

\* What sendFriendRequest calls the user id of an address.
UserId(text) == Left(text, 2 * KeySize)

\* Mutant of HasFriendWithPublicKey: toUpper is left out.
HasFriendAsTyped(text) ==
    /\ Len(text) = 2 * KeySize
    /\ \E k \in friends : CDataToString(k) = text

\* getFriendUserId of each friend is compared with the text.
HasFriendWithPublicKey(text) ==
    /\ Len(text) = 2 * KeySize
    /\ \E k \in friends : ToUpper(CDataToString(k)) = ToUpper(text)

HasFriendWithAddress(text) ==
    /\ Len(text) = 2 * AddressSize
    /\ HasFriendWithPublicKey(UserId(text))

KeyOf(address) == [i \in 1..KeySize |-> address[i]]

TypeOK ==
    /\ friends \in SUBSET Keys
    /\ \/ requester = {} /\ shown = <<>>
       \/ /\ \E k \in Keys : requester = {k}
          /\ shown \in [1..(2 * KeySize) -> {"0", "A"}]
    /\ Len(result.user) <= 2 * KeySize
    /\ result.success \in BOOLEAN /\ result.aligned \in BOOLEAN
    /\ buffer.allocated \in 0..(2 * AddressSize + 1)
    /\ buffer.written \in 0..AddressSize

NoResult == [user |-> <<>>, success |-> FALSE, aligned |-> TRUE]

\* A text whose key is where sendFriendRequest takes the user id from: those
\* characters are digits, and none is left alone among all of them.
Aligned(text) ==
    /\ Len(text) >= 2 * KeySize
    /\ \A i \in 1..(2 * KeySize) : text[i] # "x"
    /\ Cardinality({i \in 1..Len(text) : text[i] # "x"}) % 2 = 0

Init ==
    /\ friends \in SUBSET Keys
    /\ requester = {}
    /\ shown = <<>>
    /\ result = NoResult
    /\ buffer = [allocated |-> 0, written |-> 0]

\* onFriendRequest, and the label.
FriendRequestReceived(k) ==
    /\ k \notin friends
    /\ requester' = {k}
    /\ shown' = CDataToString(k)
    /\ result' = NoResult
    /\ UNCHANGED <<friends, buffer>>

\* The signal friendAdded or failedToAddFriend, with its handler.
Emit(user, success, text) ==
    /\ result' = [user |-> user, success |-> success, aligned |-> Aligned(text)]
    /\ requester' = {}
    /\ shown' = <<>>

\* acceptFriendRequest; tox_add_friend_norequest refuses a friend, and may
\* fail with anybody.
AcceptFriendRequest ==
    /\ shown # <<>>
    /\ buffer' = Filled(shown, UserIdBytes(shown))
    /\ \E k \in Readable(shown, Keys) :
          \/ /\ k \notin friends
             /\ friends' = friends \cup {k}
             /\ Emit(shown, TRUE, shown)
          \/ /\ UNCHANGED friends
             /\ Emit(shown, FALSE, shown)

\* sendFriendRequest when the check finds a friend.
AlreadySent(text) ==
    /\ HasFriendWithAddress(text)
    /\ Emit(UserId(text), FALSE, text)
    /\ UNCHANGED <<friends, buffer>>

\* And when it does not: tox looks at the checksum and at its list.
SendFriendRequest(text) ==
    /\ ~HasFriendWithAddress(text)
    /\ buffer' = Filled(text, AddressSize)
    /\ \E address \in Readable(text, Addresses) :
          LET ok == address \in ValidAddresses /\ KeyOf(address) \notin friends
          IN  /\ friends' = IF ok THEN friends \cup {KeyOf(address)} ELSE friends
              /\ Emit(UserId(text), ok, text)

\* What the address field holds.
AddressTexts == UNION {[1..n -> Chars] : n \in 0..FieldLimit}

Next == \/ \E k \in Keys : FriendRequestReceived(k)
        \/ AcceptFriendRequest
        \/ \E text \in AddressTexts : AlreadySent(text) \/ SendFriendRequest(text)

Spec == Init /\ [][Next]_vars

-----------------------------------------------------------------------------
(* Properties                                                              *)

\* Whoever becomes a friend by accepting a request is the one who sent it,
\* whose key goes out to a label as text and comes back as the same bytes; and
\* of a request accepted with success, the sender is a friend then.
RequesterIsAdded ==
    [][AcceptFriendRequest =>
         /\ friends' # friends => friends' = friends \cup requester
         /\ result'.success => requester \subseteq friends']_vars

\* Of a request that is reported as a success, the user named is the one tox
\* added, though the code takes the name from the characters of the address
\* and tox the key from its bytes.  (It need not be when characters that are
\* no digits shift the bytes.)
ReportNamesFriend ==
    (result.success /\ result.aligned) =>
        \E k \in friends : CDataToString(k) = ToUpper(result.user)

\* What fromString writes stays within the buffer made for it, whatever text
\* the field or the label holds.
WrittenFits == buffer.written <= buffer.allocated

\* The check by text answers as one by bytes would: an address whose key tox
\* has is found in whatever case it was typed.
CheckFindsFriend ==
    \A k \in friends, rest \in [1..(2 * (AddressSize - KeySize)) -> Digits],
       lower \in BOOLEAN :
          LET text == CDataToString(k) \o rest
          IN  HasFriendWithAddress(IF lower THEN ToLower(text) ELSE text)
=============================================================================
