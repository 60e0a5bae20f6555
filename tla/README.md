# Verification of ubuntu-tox-client

TLA+ models of the Tox client for Ubuntu (Qt 5 / QML over libtoxcore), checked
with TLC on small instances and proved with TLAPS for every instance. Paths
below are relative to the repository; `B/` stands for
`backend/modules/UbuntuToxClient/`.

    tlc -config MC_MainLoop.cfg MC_MainLoop          # any module and cfg of "Runs"
    tlapm MainLoopProofs.tla                         # any *Proofs.tla

`PROJECT.json` lists the runs, the source lines behind each definition, a
mutation of the code that each property catches, the findings, the hazards and
the theorems.

## The system

One process, one thread: the Qt event loop. Slots, tox callbacks (called from
inside `tox_do`) and QML handlers run to their end and call each other directly,
so each is one atomic step. What interleaves is the *order* of timer ticks,
clicks, callbacks, the SIGTERM notifier and the end of the process. The only
asynchronous code is the signal handler, which may run anywhere.

| Component | Source | State | Operations |
|---|---|---|---|
| Main loop | `B/toxbackend.cpp` 113-166, `B/bootstrapnodes.h` | `m_connected`, static `tolerance`, static `j` | `tick`, `isConnectedCheck`, `setConnected`, `bootstrap` |
| Backend lifecycle | `B/toxbackend.cpp` 37-111, 243-433 | pointer `tox`, `save.tox`, socket pair, signal disposition, timer | constructor, setters, `saveTox`, `loadTox`, `cleanUpOnClose`, `termSignalHandler`, `handleSigTerm` |
| Adding friends | `B/toxbackend.cpp` 168-241, `app/main.qml` 116-352, 528-560 | tox's friend list, labels, text fields, error dialog, page | `onFriendRequest`, `acceptFriendRequest`, `sendFriendRequest`, the handlers of `friendAdded` and `failedToAddFriend` |
| Contacts model | `B/contactsmodel.*`, `B/friend.*` | `friendList`, a copy of the pointer `tox`, the list view's delegates | `init`, `addFriendToModel`, `setFriendName`, `setFriendStatusMessage`, `rowCount`, `data` |
| Conversions | `B/cdata.*`, `B/cstring.*` | none | `CString`, `CUserId`, `CFriendAddress` and back |
| Settings page | `app/main.qml` 428-522, setters and getters of `B/toxbackend.cpp` 243-283 | two text fields, tox's name and status message | open, type, save, cancel, the handlers of the setters' signals |
| Other QML | `app/main.qml` 355-426, `app/ui/AboutPage.qml` | chat page (dummy), about page | none |
| Plugin registration | `B/backend.*`, `B/qmldir` | none | `registerTypes` |
| libtoxcore | binaries; `B/include/tox/tox.h` | account, friend list, network | external |

How they interact. QML creates one `ToxBackend` (whose constructor loads the
account and runs the first tick) and one `ContactsModel`, which takes the raw
`Tox*` of the backend when its `toxBackend` binding is evaluated and registers
its own callbacks. The timer calls `tick`, `tick` calls `tox_do`, `tox_do` calls
the callbacks: friend requests go to the backend and from there by signal to
`main.qml`; names and status messages go to the model. Clicks call slots of the
backend, which answer by the signals `friendAdded` and `failedToAddFriend`;
`main.qml`, the add page and the model listen to them. SIGTERM goes through a
socket pair to `handleSigTerm`, and the destruction of the QML tree calls
`cleanUpOnClose`: both save and kill tox.

What is hard, and what makes each component correct:

* Main loop: a countdown that is never reset below zero, an unsigned counter that
  wraps at 2^32, which 18 nodes do not divide, a flag whose signal is filtered.
  Correct when an outage is answered by one bootstrap, of different nodes each
  time, and the label ends up showing the truth.
* Backend: saves that may fail at any point and whose failure nobody sees;
  crashes; a file of another version; an uninitialised return value and
  uninitialised `sa_flags`; a signal before the socket pair is there; a killed tox
  under a running loop. Correct when the file follows the account in memory and an
  account that was loaded is never replaced.
* Adding friends: requests arrive on any page and under the dialog; two checks of
  the same thing with different answers, one of the text and one of its bytes;
  one label shared by three signals; a
  dialog that pops "the" page; buffers filled in part. Correct when what the pages
  say about friends agrees with tox's list.
* Contacts model: a copy of a list kept up by increments, a second copy in the
  view's delegates, and a copied pointer. Correct when both copies agree with tox.
* Settings page: a save of two setters, the signal of the first handled before
  the second reads its field; three measures of one text (UTF-16 units, bytes, a
  16-bit size) with limits of their own. Correct when both texts arrive and the
  page never shows anything but what tox has.
* Conversions: hexadecimal decoding that skips what is no digit, into buffers
  sized elsewhere. Correct when a key that went through a text is the same key.
* The whole: one friend list in four places (tox, file, contacts model, the checks
  and labels of the pages), changed by separate calls. Correct when they agree.

## Modules

| Module | Contents |
|---|---|
| `MainLoop`, `MC_MainLoop`, `MainLoopProofs` | main loop and bootstrapping |
| `ToxBackend`, `MC_ToxBackend`, `ToxBackendProofs` | lifecycle, persistence, SIGTERM, restart |
| `Account` | abstract: what the client promises about the account and its file |
| `ToxBackendRefinement` | `ToxBackend` implements `Account` |
| `AddFriend`, `MC_AddFriend`, `AddFriendProofs` | requests and adding friends, backend and QML |
| `ContactsModel`, `MC_ContactsModel`, `ContactsModelProofs` | the contacts list |
| `ToxClient`, `MC_ToxClient`, `ToxClientProofs` | `AddFriend`, `ContactsModel` and `Account` composed, over sessions |
| `CString` | texts in UTF-16 and UTF-8, sizes of 16 bits |
| `Settings`, `MC_Settings`, `SettingsProofs` | the settings page with the setters, over `CString`; the proofs have the lemmas about sizes and cuts |
| `CData`, `MC_CData`, `CDataProofs` | keys and addresses as texts and bytes, and the slots that take them |

An operator named in a comment "Mutant of X" is X with a plausible mistake; it is
not part of the model and only serves the mutation check of `PROJECT.json`.

### MainLoop

`online` is what `tox_isconnected` would answer; the network changes it between
ticks. `connected`, `tolerance` and `j` are the variables of the code, `label` is
what `connectedLabel` last evaluated to. `outage`, `tries` and `contacted` are
histories. `TickOnline` and `TickOffline` are the two branches of `tick`, with
`setConnected` and `bootstrap` inside; `BurstFrom` and `CounterAfter` do the
arithmetic of `bootstrap`'s loop in the width of the counter. Of the table only
the number of nodes matters.

### ToxBackend

`phase` is down, inside the constructor between `sigaction` and `socketpair`
("handlers"), or running. `tox` is null or the part of the account that
`tox_save` writes and the client changes. `disk` is the file: absent, empty, of
this library's format, or one `tox_load` refuses. Start: `SetUpUnixSignalHandlers`
and then `Construct` (or `ConstructWithoutTox`, when `tox_new` fails).
Operations: `SaveSettings`, `AcceptFriendRequest`, `SendFriendRequest`. End:
`Close`, `SigTerm`, `HandleSigTerm`, `TickWithoutTox`, `CallWithoutTox`,
`Kill`. The process then starts again on the file it left.

A slot that saves twice (`SaveTwice`) lets the disk change between the saves:
`writable` is the disk at the start of the slot, `writable'` at its second save. A
process that dies inside a slot leaves the file some failed saves would leave, so
`Kill` after a slot with failed saves stands for a death inside it.

Uninitialised values are choices: `returnValue` of `loadTox` for an empty file is
any Boolean; `sa_flags` may or may not contain `SA_RESETHAND` ("handlerOnce",
"reset" after the first signal). `Dispositions` has the default action too, for a
`sigaction` that fails: it answers -1 and the test for failure is `> 0`. `loaded`
says whether this session's account came from the file; it outlives the end of
the process, until the next start, so that `AccountKept` covers the save of
`Close`.
`tox_load` may fail after reading some sections, as `tox.h` 937-939 says
(`PartlyLoaded`).

### AddFriend

`friends` is tox's list, with for each friend the nospam its request was sent
to, and whether the friend has been confirmed (added without a request, or come
online). `page`, `address`, `message`, `shown`, `result` and `dialog` are the
state of `main.qml`. A text of the address field is a record of what the code tells
apart: the user its first 64 characters name, which nospam, and its form: 76
digits with a "good" or "bad" checksum, "garbled" (76 characters that are not all
digits) or "short". `Read` is what tox gets: the address of the text if that is
all digits, and otherwise any address whatever, as decoding skips characters,
shifts digits and leaves bytes of the buffer of `CFriendAddress` unwritten; the
same for an empty field. The report names the text's first 64 characters
(`UserId`), which is `Other` if they are not the key that tox read: such a report
names nobody that the labels could be compared with. What a garbled text
is decoded to, and when the name is right all the same, is in `CData`. A click
with all the signals it causes is one action.

The other pages than the main, the contacts and the add page take no part in this
and are left out; so are the texts of the labels. The codes stand for the texts
of the dialog.

### ContactsModel

`core` is tox's friend list in the order of its ids, `rows` is `friendList`,
`shown` the delegates that exist and what they show, `tox` the model's own
pointer and `memory` what has become of the object. `NameReceived` and
`StatusReceived` are a callback with its signal, the slot and `dataChanged`;
`FriendAdded` is tox's success with `addFriendToModel`; `CreateDelegate` is the view
calling `rowCount` and `data`. `FromUtf8` is `CString::toString`: a function on
the bytes, any function that maps no bytes to the empty string.

### Account and ToxBackendRefinement

`Account` has three variables: the account in memory (identity and friends), the
file, which has a whole account or is not there, and `saved`. A process resumes a
readable file (`Resume`) or sets out with another account (`SetOut`); from then on
the account only gains friends (`Change`), every change is offered to the disk
(`Save`, which may fail), and the process ends with a last save or without
(`Leave`). In `ToxBackend`, `ImplementsAccount` is `Account!Spec` with
`memory <- AccountOf(tox)` and the file's account likewise: an empty file and an
absent one are both no file, and name and status message are forgotten. A start
that finds no account or a part of one is `SetOut`; a start without tox, a signal
or a crash without tox is a stutter.

### ToxClient

The composition takes the variables of `AddFriend` and `ContactsModel` as they are
and `Account` for the backend, since `ToxBackend` implements it. Its steps are
steps of one component with what they set off in the others by direct call:
`SendFriendRequest` is `AddFriend`'s click with `friendAdded` in the model
(`Propagate`) and `saveTox()` (`SaveSent`, whatever tox answered);
`AcceptFriendRequest` saves only when tox took the friend (`SaveAccepted`).
`Launch` is the constructor, `Wire` the model's `init()`; `HandleSigTerm` leaves a
process whose pages still answer (`Killed`) until `End`. The components' own
steps after `tox_kill` that need tox are the crashes of `ToxBackend`, and `End`
here. `Upgrade` brings another libtoxcore between sessions. `kept` is a history:
the friends reported as added by a step that saved.

### CString and Settings

A text is a sequence of characters: letters of each width in UTF-8, 1 to 4 bytes,
of which the widest is a surrogate pair of UTF-16, the byte order mark, U+FFFD, a
question mark, and half of a pair. `ToUtf8` makes a question mark of the half.
tox's name and status message are the beginning of a text's bytes: whole
characters, and `cut` bytes of one more. `Sent` is what a setter passes on,
`ToQString` what comes back: without a byte order mark at the beginning, which
`QString::fromUtf8` drops, and with U+FFFD for each byte of a cut character.
`Field` is a text field whose `maximumLength` counts UTF-16 units, the same number
as tox's limit in bytes; it may keep half a pair at its end. The account may have
any name and message at first (`OldStrings`), an empty name too, which
`backend_load` shows can be. `Save` is `saveAction`: the first setter, the handler of
its signal, the second setter with what is in the field by then, its handler.
`name` and `status` are what tox has; `tox_set_name` refuses an empty name.

A name is cut inside a character when its bytes pass the limit there
(`B/toxbackend.cpp` 245), although `tox.h` 92 says "Strings in Tox are all UTF-8".
The properties state what such a name loses (the cut character, shown as
replacement characters) and that nothing else is lost; likewise for the byte order
mark and the half of a pair.

### CData

A key is a sequence of bytes, a text one of characters: digits in either case and
one character that is no digit. `FromHex` is `QByteArray::fromHex`, which skips
what is no digit and pairs digits from the end of the text: digits are numbered
by counting those behind them (`DigitFromEnd`). A buffer is what it decoded followed by whatever was in memory (`Filled`). `FriendRequestReceived`,
`AcceptFriendRequest`, `SendFriendRequest` and `AlreadySent` take keys and
addresses through these; accepting may fail for anybody, as
`tox_add_friend_norequest` may. `friends` keeps what tox got, `shown` and `result` what the
user reads, `buffer` how much was allocated and written.

## Runs

| Run | States | Shows |
|---|---|---|
| `main_loop` | 712 | one bootstrap per outage (`OneBootstrapPerOutage`); a call contacts four different nodes (`BurstHasDistinctNodes`) across the wrap too, that the previous call did not unless the counter wraps in one of the two (`NextBurstIsFresh`); a lasting outage is answered (`OutageIsAnswered`); the label follows the network (`LabelSettles`) |
| `backend` | 170,498 | the file is the account unless the last save failed (`FileMatchesMemory`); no save after a successful load replaces the account, those on SIGTERM and on closing included (`AccountKept`); closing saves what earlier saves failed to (`ClosingSaves`); all of it is `Account` (`ImplementsAccount`); SIGTERM ends the process (`TermEndsProcess`), through a crash |
| `backend_signal` | - | counterexample to `SigTermIsNotified` |
| `backend_load` | - | counterexample to `LoadReportsSuccess` |
| `backend_kill` | - | counterexample to `NoTickAfterKill` |
| `add_friend` | 8,128 | the request on the page is no friend's (`ShownIsStranger`); reported successes are true (`ResultIsTrue`); the dialog is on the page it pops (`DialogOnAddPage`); the add page is left with no address of 76 digits in its field (`DigitsClearedOnLeave`) |
| `add_friend_check` | - | counterexample to `CheckIsRedundant` |
| `contacts` | 151,139 | the rows are tox's friends (`RowsMirrorCore`); the view shows what tox knows (`ShownIsCurrent`) |
| `contacts_kill` | - | counterexample to `NoReadAfterKill` |
| `settings` | 90,673 | fields not being edited show what tox has (`FieldsShowAccount`), all that `toString` gives of it (`FieldsHoldAll`); a save takes both texts as typed, or cut at tox's limit (`SaveTakesTyped`); saving the page unedited changes nothing but a byte order mark at the beginning (`SavingUneditedKeeps`) |
| `cdata` | 1,620 | the user named in the report is the one tox added (`ReportNamesFriend`); decoding stays inside the buffers (`WrittenFits`); a friend is found by any address, in either case (`CheckFindsFriend`); accepting adds the requester or nobody (`RequesterIsAdded`) |
| `tox_client` | 949,279 | account, checks and contacts page have one friend list (`OneFriendList`); nobody on the contacts page is offered to be accepted (`NoRequestOfContact`); a reported success is on the contacts page (`SuccessIsListed`) and in the file unless the last save failed (`SuccessIsSaved`); a friend reported and saved is there in later sessions (`KeptFriendsReturn`) |

Every passing run also checks the module's `TypeOK`.

Findings (quoted with their lines in `PROJECT.json`):

* A SIGTERM between `sigaction` and `socketpair` is written to descriptor 0 and
  lost. (With `SA_RESETHAND` in the uninitialised flags a second one kills the
  process before the save, and a failing `sigaction` goes unnoticed; the run does
  not need either.)
* `loadTox` returns an uninitialised value for an empty file.
* `handleSigTerm` kills tox and lets the loop go on: the next tick dereferences
  null. The process does end, which is what `TermEndsProcess` says of it.
* The contacts model keeps the pointer to the freed object and reads it.
* `hasFriendWithAddress` is not redundant with `tox_add_friend`, as its TODO
  supposes: for an address typed as its 76 digits it hides
  `TOX_FAERR_SETNEWNOSPAM`, for which the dialog has a text and a handler. The
  code does come up for other texts, such as an address pasted after two blanks,
  which the check does not recognise and the decoding does.

### Bounds

* `main_loop`: tolerance 3 for 30, least int -4, 9 nodes for 18, a counter of 40
  values for 2^32. The wrap and the freshness of the next burst depend on the
  remainder of the counter's range by the number of nodes and on there being at
  least two bursts of nodes; 40 % 9 = 4 = 2^32 % 18 and 9 >= 2 * 4. With that
  remainder the calls next to the wrap share a node, which `NextBurstIsFresh` says
  too. All starts of the counter are initial states and the run goes round the
  wrap. `IntMin` stops
  a tick that would overflow the int (years of outage).
* `backend`: two identities (the account's and a newly made one), two keys, three
  texts (empty, a default, another), at most two SIGTERMs unread (`MaxTerms`).
  Restarts are not bounded. No symmetry, as the run checks liveness. The smaller
  instances of the other backend runs have one key and two texts: friends play no
  part in their properties.
* `add_friend`: two keys besides the user's own and two nospams, so that a request
  can come from the person being added and from another one, and a nospam can be
  new; `Other` for any text that names nobody. Sequences of clicks and requests are not bounded.
* `contacts`: three friends (first, middle, last row), four byte strings, one of
  each kind that the decoding tells apart: empty, plain, not UTF-8, and not empty
  but decoding to the empty string. Keys are symmetric. Deadlock is not checked:
  after `Kill` an empty list has nothing left to do, and the process is about to
  crash.

* `settings`: limits of 4 for the name and 3 for the status message, where the
  code has 128 and 1007; 16 for the 2^16 sizes, which `MaxAssumption` needs to be
  above three times the limits, as it is. Texts of up to two characters of 1 to 4
  bytes and up to 4 units against these give every cut there is, and a pair split
  by the field. The account of the time before has any text of up to two
  characters, plain or byte order marks, whole or cut, within the limits.
* `cdata`: keys of one byte and addresses of two, for 32 and 38; two digits, one of
  them a letter in both cases, and a character to skip; all 341 texts of up to four
  characters.
* `tox_client`: two keys, one nospam, one identity, one name, lists of up to two
  friends (`MaxFriends`). What a second nospam or identity adds is in the runs of
  the components. Sessions are not bounded.

Symmetry is used only in runs without liveness.

### Fairness

* `MainLoop!FairSpec`: weak fairness of `Tick`, because every tick arms the timer
  again. The network owes nothing: `OutageIsAnswered` and `LabelSettles` are
  conditional on it settling.
* `ToxBackend!FairSpec`: weak fairness of the socket notifier and of the timer,
  which a running event loop serves. Starts, clicks, signals, and a disk with room
  are owed by nobody.

## Proofs

`tlapm` proves, for every value of the constants under the named assumptions of
the modules:

| Module | Theorems | Argument |
|---|---|---|
| `MainLoopProofs` | `TypeCorrect`, `BootstrapOnce`, `BurstIsDistinct`, `BurstIsFresh` | The histories are tied to the code's counter: `tolerance` is `Tolerance` less the ticks of the outage. Without that `OneBootstrapPerOutage` is not inductive, as the test reads the counter and not the history. For the nodes, the positions of two neighbouring bursts are shown to differ by less than the number of nodes, the wrap included: `WrapAssumption`, that the remainder of the counter's range is 0 or leaves room for a burst. 2^32 % 18 = 4 = one burst satisfies it; the remainder by 17 is 1, and a burst across the wrap would contact a node twice. With a remainder of one burst the positions of two calls next to the wrap overlap (`WrapRepeats`), so `BurstIsFresh` says that these share a node and no others do. |
| `ToxBackendProofs` | `TypeCorrect`, `FileIsCurrent`, `AccountIsKept`, `ClosingIsSaved` | The invariant adds that tox is null outside the running phase, and that while a loaded account lives its identity is the file's and the file's friends are among its own; with it every save, that of a SIGTERM and of closing included, is a save of the same account with no fewer friends. |
| `ToxBackendRefinement` | `Refinement` | Under the invariant of `ToxBackendProofs`, each step is one step of `Account` or a stutter: one lemma for each action of `ToxBackend`. |
| `AddFriendProofs` | `TypeCorrect`, `NoRequestOfFriend`, `ReportIsTrue`, `DialogPopsAddPage`, `LeavingClears` | The list only grows, and only by the friend whose signal clears or sets the labels (`OnlyNewFriend`). `ReportIsTrue` needs that a name which is a key is the key that tox read. `LeavingClears` needs that SETNEWNOSPAM comes up only for a text that is not 76 digits (`NospamOnlyUndecoded`). |
| `ContactsModelProofs` | `TypeCorrect`, `ModelMirrorsTox`, `ViewIsCurrent` | The row of id n is at index n + 1, so the loop of the slots finds the right row and no other (`FoundRow`); a replaced row and its delegate then mirror the changed friend (`ReplaceKeeps`). `Unwired`: before `init` there are no delegates. |
| `SettingsProofs` | `TypeCorrect`, `PageShowsAccount`, `PageShowsAll`, `TypedIsTaken`, `UneditedIsKept` | Sizes are cardinalities, so that lemmas on disjoint unions take the place of induction on texts: a text has no more units than bytes, bytes come to less than `SizeRange`, a text gets no longer by losing its first character (`TailTakesLess`), and what `ToQString` makes of `max` bytes has at most `max` units. So the fields hold all of tox's strings, and setting one never shortens it. |
| `CDataProofs` | `TypeCorrect`, `ReportIsOfFriend`, `NothingPastBuffer`, `FriendsAreFound`, `AcceptedIsSender` | The number of a digit is a cardinality, so that no induction on the text is needed: in a text that begins with digits, the digit at a place and the one so numbered from the end are the same (`PlaceOfDigit`), and if the number of all digits is even the text decodes pair by pair as far as those go (`DecodesPrefix`). From this, a key goes through `toHex`, `toUpper`, `toLower` and `fromHex` unchanged (`RoundTrip`), and the first characters of an address name the key in its first bytes (`AlignedNamesKey`). |
| `ToxClientProofs` | `TypeCorrect`, `FriendListIsOne`, `ContactsAreAccepted`, `SuccessListed`, `SuccessSaved`, `KeptReturn`, `PagesGuarantee`, `ModelGuarantee` | The invariant joins neighbours: rows with tox's list, tox's list and the checks with the account, the account with the file if `saved`. Every step asks tox for at most one friend (`Asked`), whom all the lists get. `Reported` ties a success to tox's list and not to the account, as it must outlive the kill; `KeptSafe` is in terms of the file, as nothing else outlives the process. The guarantees of the components are not proved again: each step of a session is shown to be a step of `AddFriend` or a stutter, and one of `ContactsModel` or a stutter (`PagesStep`, `ModelStep`), to which the inductive steps of `AddFriendProofs` and `ContactsModelProofs` apply; a process that starts or ends leaves both as new but for the friends (`Fresh`), where their invariants hold. Together with the joined lists, which the invariant keeps even after a kill, this gives `NoRequestOfContact`. |

Every invariant and action property of the passing runs is the subject of a
theorem. Only model-checked: liveness (`OutageIsAnswered`, `LabelSettles`,
`TermEndsProcess`), which is beyond the prover.

What the proofs take from libtoxcore is in the actions marked external in
`PROJECT.json`: which code `tox_add_friend` answers and when it changes the list,
that ids are given in order as nothing is deleted, that requests of friends are
dropped, and that `tox_load` of what `tox_save` wrote gives the same account. Its
binaries are in the repository and its source is not.

## Not modelled

* `registerTypes`, the build files, packaging, translations: no behaviour.
* `AboutPage.qml`, the chat page (fixed example messages), the copy check mark.
  The chat page's headline is set once from the row clicked (`main.qml` 184) and
  keeps a name that changes later; the page is under construction and nothing says
  what it should show.
* `CString::fromString` and the copy constructor of `CString`: they have no callers.
* `m_toxId`, the address on the page: the constructor assigns it once, after the load
  (`B/toxbackend.cpp` 95-103), and nothing changes it.
* The fields of `Tox_Options` that stay uninitialised: the network they lead to is
  any network in `MainLoop`.
* `onFriendAction`: emits a signal that nothing is connected to.
* `~ToxBackend` is empty.
* In `ToxBackend`, `SaveSettings` takes any two texts; `Settings` has their bytes,
  and not the file.

## Plan

All components with behaviour of their own are modelled and proved about. What a later version of the code would call for first: the chat page
once it sends messages, and removing friends, which would end the argument that ids
are given in order.
