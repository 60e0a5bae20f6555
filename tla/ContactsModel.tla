--------------------------- MODULE ContactsModel ---------------------------
(***************************************************************************)
(* The list model of the contacts page: a copy of tox's friend list, made  *)
(* by init() and kept up by tox's callbacks and the signal friendAdded,    *)
(* and the delegates of the list view, which read it through data().       *)
(*                                                                         *)
(* Callbacks, signals and slots are direct calls, so an event of tox_do is *)
(* one action with everything it sets off.  Delegates come and go as the   *)
(* user opens and scrolls the list.  init() with a null tox, and the end   *)
(* of the process, are in ToxBackend.tla.                                  *)
(***************************************************************************)
EXTENDS Naturals, Sequences

CONSTANTS
    Keys,        \* public keys
    Bytes,       \* names and status messages, as tox keeps them
    Strings,     \* the same as QStrings
    NoBytes,     \* of length 0
    Empty,       \* the empty QString
    FromUtf8,    \* CString::toString
    MaxFriends,  \* bound on the length of the friend list
    None         \* a row without a delegate

ASSUME BytesAssumption ==
    /\ NoBytes \in Bytes /\ Empty \in Strings
    /\ FromUtf8 \in [Bytes -> Strings] /\ FromUtf8[NoBytes] = Empty
ASSUME MaxAssumption == MaxFriends \in Nat

CoreFriend == [key : Keys, name : Bytes, status : Bytes]
Friend == [id : Nat, key : Keys, name : Strings, status : Strings]

\* What a delegate shows; `blank` after data() returned QVariant().
Delegate == [blank : BOOLEAN, title : Strings \cup Keys, status : Strings]

ASSUME NoneAssumption == None \notin Delegate

VARIABLES
    core,    \* tox's friend list; the friend with id n is core[n + 1]
    memory,  \* the Tox object: "alive", or "freed" by tox_kill
    tox,     \* ContactsModel::tox: "null", or "set" to the object's address
    rows,    \* friendList
    shown    \* for each row its delegate, or None

vars == <<core, memory, tox, rows, shown>>

TypeOK ==
    /\ core \in Seq(CoreFriend) /\ Len(core) <= MaxFriends
    /\ memory \in {"alive", "freed"}
    /\ tox \in {"null", "set"}
    /\ rows \in Seq(Friend)
    /\ shown \in [1..MaxFriends -> Delegate \cup {None}]

Init ==
    /\ core \in UNION {[1..n -> CoreFriend] : n \in 0..MaxFriends}
    /\ \A i, j \in DOMAIN core : core[i].key = core[j].key => i = j
    /\ memory = "alive"
    /\ tox = "null"
    /\ rows = <<>>
    /\ shown = [i \in 1..MaxFriends |-> None]

-----------------------------------------------------------------------------
(* Rows                                                                    *)

\* Mutant of Copy: an attribute that the copy constructor forgets.
CopyWithoutStatus(f) == [f EXCEPT !.status = Empty]

\* The copy constructor of Friend, through which the list stores its rows.
Copy(f) == [id |-> f.id, key |-> f.key, name |-> f.name, status |-> f.status]

\* Mutant of Row: the bytes of tox, not decoded.
RowOfBytes(id, f) ==
    Copy([id |-> id, key |-> f.key, name |-> f.name,
          status |-> FromUtf8[f.status]])

\* The row that addFriendToModel makes of tox's friend.
Row(id, f) ==
    Copy([id |-> id, key |-> f.key, name |-> FromUtf8[f.name],
          status |-> FromUtf8[f.status]])

\* data() of a row that tox's count includes.
Data(f) == [blank  |-> FALSE,
            title  |-> IF f.name # Empty THEN f.name ELSE f.key,
            status |-> f.status]

Blank == [blank |-> TRUE, title |-> Empty, status |-> Empty]

\* Mutant of Refreshed: no dataChanged.
NotRefreshed(i, f) == shown

\* The delegates after dataChanged of row i, which holds f.
Refreshed(i, f) ==
    [shown EXCEPT ![i] = IF shown[i] = None THEN None ELSE Data(f)]

\* The row a loop over friendList stops at.
FoundAt(id, i) == /\ i \in 1..Len(rows)
                  /\ rows[i].id = id
                  /\ \A j \in 1..(i - 1) : rows[j].id # id

\* The end of setFriendName and setFriendStatusMessage: f replaces row i,
\* and the view is told.
Replace(i, f) ==
    /\ rows' = [rows EXCEPT ![i] = f]
    /\ shown' = Refreshed(i, f)

NoSuchRow(id) == /\ \A i \in 1..Len(rows) : rows[i].id # id
                 /\ UNCHANGED <<rows, shown>>

SetFriendName(id, text) ==
    \/ NoSuchRow(id)
    \/ \E i \in 1..Len(rows) :
          FoundAt(id, i) /\ Replace(i, [rows[i] EXCEPT !.name = text])

SetFriendStatusMessage(id, text) ==
    \/ NoSuchRow(id)
    \/ \E i \in 1..Len(rows) :
          FoundAt(id, i) /\ Replace(i, [rows[i] EXCEPT !.status = text])

-----------------------------------------------------------------------------
(* Steps                                                                   *)

\* init(), when the binding of toxBackend is evaluated: before the first
\* tick, and before the user can do anything.
ModelInit ==
    /\ tox = "null"
    /\ tox' = "set"
    /\ rows' = [i \in 1..Len(core) |-> Row(i - 1, core[i])]
    /\ UNCHANGED <<core, memory, shown>>

\* tox works for the client until tox_kill.
Running == tox = "set" /\ memory = "alive"

\* tox_add_friend or tox_add_friend_norequest succeeds, and friendAdded
\* calls addFriendToModel.  tox gives the new friend the next id, as the
\* client deletes none, and no name.
FriendAdded(k) ==
    LET f == [key |-> k, name |-> NoBytes, status |-> NoBytes]
    IN  /\ Running
        /\ Len(core) < MaxFriends
        /\ \A i \in 1..Len(core) : core[i].key # k
        /\ core' = Append(core, f)
        /\ rows' = Append(rows, Row(Len(core), f))
        /\ UNCHANGED <<memory, tox, shown>>

\* A friend's new name or status message comes out of tox_do.
NameReceived(i, name) ==
    /\ Running
    /\ i \in 1..Len(core)
    /\ core' = [core EXCEPT ![i].name = name]
    /\ SetFriendName(i - 1, FromUtf8[name])
    /\ UNCHANGED <<memory, tox>>

StatusReceived(i, status) ==
    /\ Running
    /\ i \in 1..Len(core)
    /\ core' = [core EXCEPT ![i].status = status]
    /\ SetFriendStatusMessage(i - 1, FromUtf8[status])
    /\ UNCHANGED <<memory, tox>>

\* The list view makes the delegate of a row: data() asks tox for its count
\* and then reads the row.  The count in a freed object is any number.
CreateDelegate(i) ==
    /\ tox = "set"
    /\ i \in 1..Len(rows) /\ shown[i] = None
    /\ \E counted \in BOOLEAN :
          /\ memory = "alive" => (counted <=> i <= Len(core))
          /\ shown' = [shown EXCEPT ![i] = IF counted THEN Data(rows[i])
                                                      ELSE Blank]
    /\ UNCHANGED <<core, memory, tox, rows>>

DestroyDelegate(i) ==
    /\ shown[i] # None
    /\ shown' = [shown EXCEPT ![i] = None]
    /\ UNCHANGED <<core, memory, tox, rows>>

\* cleanUpOnClose of the backend, by SIGTERM: the object is freed, and the
\* backend forgets its address; the model does not hear of it.
Kill ==
    /\ Running
    /\ memory' = "freed"
    /\ UNCHANGED <<core, tox, rows, shown>>

-----------------------------------------------------------------------------
Next == \/ ModelInit \/ Kill
        \/ \E k \in Keys : FriendAdded(k)
        \/ \E i \in 1..MaxFriends :
              \/ CreateDelegate(i) \/ DestroyDelegate(i)
              \/ \E b \in Bytes : NameReceived(i, b) \/ StatusReceived(i, b)

Spec == Init /\ [][Next]_vars

-----------------------------------------------------------------------------
(* Properties                                                              *)

\* Once wired, the rows are tox's friends in tox's order, each with the name
\* and status message tox has for it.
RowsMirrorCore ==
    tox = "set" =>
        /\ Len(rows) = Len(core)
        /\ \A i \in 1..Len(core) :
              /\ rows[i].id = i - 1
              /\ rows[i].key = core[i].key
              /\ rows[i].name = FromUtf8[core[i].name]
              /\ rows[i].status = FromUtf8[core[i].status]

\* A delegate shows friend f as tox knows it: by its name or else its key.
ShowsFriend(delegate, f) ==
    /\ ~delegate.blank
    /\ delegate.status = FromUtf8[f.status]
    /\ delegate.title = IF FromUtf8[f.name] = Empty THEN f.key
                                                   ELSE FromUtf8[f.name]

\* While tox lives, every delegate shows its friend as tox knows it now, and
\* none is blank: the two counts that data() and the view go by agree.
ShownIsCurrent ==
    memory = "alive" =>
        \A i \in 1..MaxFriends :
            shown[i] # None =>
                i <= Len(core) /\ ShowsFriend(shown[i], core[i])

-----------------------------------------------------------------------------
(* What a comment says, and the code does not do                           *)

\* "Run this before closing shop" of tox_kill, which frees all
\* datastructures: nothing is read through the pointer after it.  data()
\* reads it whenever a delegate is made.
NoReadAfterKill ==
    [][memory = "freed" =>
          \A i \in 1..MaxFriends : shown'[i] \in {shown[i], None}]_vars
=============================================================================
