----------------------------- MODULE ToxBackend -----------------------------
(***************************************************************************)
(* The life of a ToxBackend: construction, the account kept in save.tox,   *)
(* the operations that change and save it, SIGTERM, and the end of the     *)
(* process; then the process starts again on the file it left.             *)
(*                                                                         *)
(* All of it runs on one thread, each slot to its end, except the signal   *)
(* handler.  So a slot is one action; a save that fails inside it, and the *)
(* death of the process at any point of it, are covered because every save *)
(* may fail and Kill may follow every action: a process killed before a    *)
(* save leaves the file a failed save leaves.                              *)
(*                                                                         *)
(* A tick of a live tox changes nothing here (MainLoop.tla has it).        *)
(***************************************************************************)
EXTENDS Integers

CONSTANTS
    Ids,            \* tox identities: a key pair with its nospam
    Keys,           \* public keys of other users
    Texts,          \* user names and status messages, within their limits
    EmptyText,
    DefaultName,    \* "Ubuntu User"
    DefaultStatus,  \* "Toxing from my Ubuntu phone"
    Null,           \* nullptr
    MaxTerms        \* bound: SIGTERMs waiting in the socket pair

ASSUME IdsAssumption   == \A i \in Ids : Ids \ {i} # {}
ASSUME TextsAssumption == /\ EmptyText \in Texts
                          /\ DefaultName \in Texts \ {EmptyText}
                          /\ DefaultStatus \in Texts
ASSUME TermsAssumption == MaxTerms \in Nat

\* The part of tox's state that tox_save writes and the client changes.
Profile == [id : Ids, name : Texts, status : Texts, friends : SUBSET Keys]

\* Of a profile, what identifies the user to others and the others to him.
AccountOf(p) == [id |-> p.id, friends |-> p.friends]
Accounts     == [id : Ids, friends : SUBSET Keys]

ASSUME NullAssumption == /\ Null \notin Profile
                         /\ Null \notin Accounts
                         /\ Null \notin [readable : BOOLEAN, account : Accounts]

VARIABLES
    phase,    \* of the process: "down", "handlers" (inside the constructor,
              \* after sigaction and before socketpair) or "running"
    tox,      \* what the pointer tox points to, or Null
    disk,     \* the file save.tox
    writable, \* environment: whether saving the file succeeds
    timer,    \* whether toxTimer is armed
    sigterm,  \* disposition of SIGTERM; "reset" is the default again
    pipe,     \* unread bytes in the socket pair
    loaded,   \* history: what loadTox() returned in this process or the last
    saved,    \* history: the last save, or the load, of this process succeeded
    missed,   \* history: a SIGTERM came after a sigaction that succeeded, and
              \* notified nobody
    ending    \* history: how the last process ended

vars == <<phase, tox, disk, writable, timer, sigterm, pipe,
          loaded, saved, missed, ending>>

\* "refused" is a file tox_load returns non-zero for.
Files == [kind : {"absent", "empty"}, profile : {Null}]
            \cup [kind : {"current", "refused"}, profile : Profile]

Current(p)    == [kind |-> "current", profile |-> p]
HasProfile(d) == d.kind \in {"current", "refused"}

Dispositions == {"default", "handler", "handlerOnce", "reset"}

FlagsOK == /\ writable \in BOOLEAN /\ timer \in BOOLEAN
           /\ loaded \in BOOLEAN /\ saved \in BOOLEAN /\ missed \in BOOLEAN

TypeOK ==
    /\ phase \in {"down", "handlers", "running"}
    /\ tox \in Profile \cup {Null}
    /\ disk \in Files
    /\ sigterm \in Dispositions
    /\ pipe \in 0 .. MaxTerms
    /\ ending \in {"none", "closed", "killed", "terminated",
                   "nullCall", "nullTick"}
    /\ FlagsOK

Init ==
    /\ phase = "down"
    /\ tox = Null
    /\ disk \in {d \in Files : d.kind \in {"absent", "empty"}}
    /\ writable = TRUE
    /\ timer = FALSE
    /\ sigterm = "default"
    /\ pipe = 0
    /\ loaded = FALSE /\ saved = FALSE /\ missed = FALSE
    /\ ending = "none"

-----------------------------------------------------------------------------
(* Saving and loading                                                      *)

\* Mutant of FileAfter: QFile, which empties the file when it is opened, in
\* place of QSaveFile.
FileTruncated(d, p, ok) ==
    IF ok THEN Current(p) ELSE [kind |-> "empty", profile |-> Null]

\* A QSaveFile replaces the file whole or leaves it as it was; saveTox()
\* ignores which.
FileAfter(d, p, ok) == IF ok THEN Current(p) ELSE d

SaveTox(p) ==
    /\ disk' = FileAfter(disk, p, writable)
    /\ saved' = writable

\* Mutant of SaveTwice: the second setter does not save.
SaveFirstOnly(p, q) ==
    /\ disk' = FileAfter(disk, p, writable)
    /\ saved' = writable
    /\ UNCHANGED writable

\* Two saves in one slot, of p and then of q.  The disk may change between
\* them: the second one finds it as it is after the step.
SaveTwice(p, q) ==
    /\ writable' \in BOOLEAN
    /\ disk' = FileAfter(FileAfter(disk, p, writable), q, writable')
    /\ saved' = writable'

\* tox_set_name refuses an empty name; setUserName does not look.
WithName(p, n)   == IF n = EmptyText THEN p ELSE [p EXCEPT !.name = n]
WithStatus(p, m) == [p EXCEPT !.status = m]

\* A tox just made by tox_new, with the identity i.
Fresh(i) == [id |-> i, name |-> EmptyText, status |-> EmptyText, friends |-> {}]

\* A tox_load that fails may have read some sections of p ("this however
\* does not mean nothing was loaded").
PartlyLoaded(p, i) ==
    [id : {p.id, i}, name : {p.name, EmptyText},
     status : {p.status, EmptyText}, friends : {p.friends, {}}]

\* Mutant of LoadTox: the result of tox_load is not looked at.
LoadToxUnchecked(d, i) ==
    [ok : {FALSE}, tox : {Fresh(i)}]
      \cup IF HasProfile(d)
           THEN [ok : {TRUE}, tox : PartlyLoaded(d.profile, i)] ELSE {}

\* What loadTox() can return for the file d, and the tox it leaves.  The
\* file may be impossible to open; for an empty file the result is an
\* uninitialised bool; else it is the success of tox_load.
LoadTox(d, i) ==
    [ok : {FALSE}, tox : {Fresh(i)}]
      \cup CASE d.kind = "absent"  -> {}
             [] d.kind = "empty"   -> [ok : BOOLEAN, tox : {Fresh(i)}]
             [] d.kind = "current" -> [ok : {TRUE}, tox : {d.profile}]
             [] d.kind = "refused" -> [ok : {FALSE}, tox : PartlyLoaded(d.profile, i)]

\* The default user name and status message, each setter with its save.
DefaultsSaved(p) ==
    LET named == WithName(p, DefaultName)
    IN  /\ tox' = WithStatus(named, DefaultStatus)
        /\ SaveTwice(named, WithStatus(named, DefaultStatus))

-----------------------------------------------------------------------------
(* The constructor                                                         *)

\* setUpUnixSignalHandlers.  sa_flags is never initialised: the garbage may
\* hold SA_RESETHAND, and the handler then serves one signal only.  A failure
\* of sigaction is -1, which "> 0" misses: the constructor goes on without a
\* handler.
SetUpUnixSignalHandlers ==
    /\ phase = "down"
    /\ phase' = "handlers"
    /\ sigterm' \in {"handler", "handlerOnce", "default"}
    /\ loaded' = FALSE /\ missed' = FALSE
    /\ ending' = "none"
    /\ UNCHANGED <<tox, disk, writable, timer, pipe, saved>>

\* tox_new returned NULL: the constructor returns early, with no timer.
ConstructWithoutTox ==
    /\ phase = "handlers"
    /\ phase' = "running"
    /\ UNCHANGED <<tox, disk, writable, timer, sigterm, pipe,
                   loaded, saved, missed, ending>>

\* socketpair, tox_new, loadTox or the defaults, and the first tick(), which
\* arms the timer.
Construct ==
    /\ phase = "handlers"
    /\ phase' = "running"
    /\ \E i \in Ids : /\ HasProfile(disk) => i # disk.profile.id
                      /\ \E load \in LoadTox(disk, i) :
                            /\ loaded' = load.ok
                            /\ \/ /\ load.ok
                                  /\ tox' = load.tox
                                  /\ saved' = HasProfile(disk)
                                  /\ UNCHANGED <<disk, writable>>
                               \/ /\ ~load.ok
                                  /\ DefaultsSaved(load.tox)
    /\ timer' = TRUE
    /\ UNCHANGED <<sigterm, pipe, missed, ending>>

-----------------------------------------------------------------------------
(* Slots called from QML                                                   *)

Live == phase = "running" /\ tox # Null

\* The save action of the settings page: setUserName, then setStatusMessage.
SaveSettings(n, m) ==
    /\ Live
    /\ LET named == WithName(tox, n)
       IN  /\ tox' = WithStatus(named, m)
           /\ SaveTwice(named, WithStatus(named, m))
    /\ UNCHANGED <<phase, timer, sigterm, pipe, loaded, missed, ending>>

WithFriend(p, k) == [p EXCEPT !.friends = @ \cup {k}]

\* tox_add_friend_norequest, and a save if it took the friend; it refuses a
\* key that is a friend already.
AcceptFriendRequest(k) ==
    /\ Live
    /\ \/ /\ k \notin tox.friends
          /\ tox' = WithFriend(tox, k)
          /\ SaveTox(WithFriend(tox, k))
       \/ UNCHANGED <<tox, disk, saved>>
    /\ UNCHANGED <<phase, writable, timer, sigterm, pipe,
                   loaded, missed, ending>>

\* tox_add_friend, unless the key is a friend's already; it may refuse too
\* (message, checksum, own key, memory).  Saves in every case.
SendFriendRequest(k) ==
    /\ Live
    /\ \/ /\ k \notin tox.friends
          /\ tox' = WithFriend(tox, k)
       \/ UNCHANGED tox
    /\ SaveTox(tox')
    /\ UNCHANGED <<phase, writable, timer, sigterm, pipe,
                   loaded, missed, ending>>

-----------------------------------------------------------------------------
(* The end                                                                 *)

\* What the process leaves: nothing but the file and the histories.
EndProcess(how) ==
    /\ phase' = "down"
    /\ tox' = Null
    /\ timer' = FALSE
    /\ sigterm' = "default"
    /\ pipe' = 0
    /\ ending' = how
    /\ missed' = (missed \/ (how = "terminated" /\ sigterm = "reset"))
    /\ UNCHANGED <<writable, loaded>>

\* Mutant of SaveOnClose: tox_kill first, so that saveTox finds no tox.
SaveAfterKill == UNCHANGED <<disk, saved>>

\* cleanUpOnClose, up to the tox_kill: saveTox() does nothing without a tox.
SaveOnClose ==
    \/ tox # Null /\ SaveTox(tox)
    \/ tox = Null /\ UNCHANGED <<disk, saved>>

\* QML's Component.onDestruction calls cleanUpOnClose; the process ends.
Close ==
    /\ phase = "running"
    /\ SaveOnClose
    /\ EndProcess("closed")

\* A SIGTERM.  The handler writes a byte to sigtermFd[0], which is the
\* program's standard input until socketpair has run.
SigTerm ==
    /\ phase # "down"
    /\ sigterm \in {"handler", "handlerOnce"}
    /\ \/ /\ phase = "handlers"
          /\ missed' = TRUE
          /\ UNCHANGED pipe
       \/ /\ phase = "running"
          /\ pipe < MaxTerms
          /\ pipe' = pipe + 1
          /\ UNCHANGED missed
    /\ sigterm' = IF sigterm = "handlerOnce" THEN "reset" ELSE sigterm
    /\ UNCHANGED <<phase, tox, disk, writable, timer,
                   loaded, saved, ending>>

\* A SIGTERM when the handler has been reset, or never was set.
SigTermDefault ==
    /\ phase # "down"
    /\ sigterm \in {"default", "reset"}
    /\ EndProcess("terminated")
    /\ UNCHANGED <<disk, saved>>

\* Mutant of HandleSigTerm: it runs with nothing to read.
HandleSigTermUnread ==
    /\ phase = "running"
    /\ pipe' = pipe - 1
    /\ SaveOnClose
    /\ tox' = Null
    /\ UNCHANGED <<phase, writable, timer, sigterm,
                   loaded, missed, ending>>

\* The notifier calls handleSigTerm: one byte read, then cleanUpOnClose.  The
\* timer stays armed, the notifier is enabled again, nothing ends the loop.
HandleSigTerm ==
    /\ phase = "running"
    /\ pipe > 0
    /\ pipe' = pipe - 1
    /\ SaveOnClose
    /\ tox' = Null
    /\ UNCHANGED <<phase, writable, timer, sigterm,
                   loaded, missed, ending>>

\* Mutant of TickWithoutTox: tick() returns when there is no tox, and arms
\* the timer again.
TickGuarded == phase = "running" /\ timer /\ tox = Null /\ UNCHANGED vars

\* The timer fires when tox_kill has run: tox_do(nullptr) ends the process.
TickWithoutTox ==
    /\ phase = "running"
    /\ timer
    /\ tox = Null
    /\ EndProcess("nullTick")
    /\ UNCHANGED <<disk, saved>>

\* QML reads or calls something of the backend that needs tox.
CallWithoutTox ==
    /\ phase = "running"
    /\ tox = Null
    /\ EndProcess("nullCall")
    /\ UNCHANGED <<disk, saved>>

-----------------------------------------------------------------------------
(* The environment                                                         *)

\* SIGKILL, a crash, a power cut, or a qFatal of the constructor.
Kill ==
    /\ phase # "down"
    /\ EndProcess("killed")
    /\ UNCHANGED <<disk, saved>>

\* The disk fills up, or has room again.
DiskChange ==
    /\ writable' = ~writable
    /\ UNCHANGED <<phase, tox, disk, timer, sigterm, pipe,
                   loaded, saved, missed, ending>>

\* Another libtoxcore is installed, whose format the file is not in.
Upgrade ==
    /\ phase = "down"
    /\ disk.kind = "current"
    /\ disk' = [disk EXCEPT !.kind = "refused"]
    /\ UNCHANGED <<phase, tox, writable, timer, sigterm, pipe,
                   loaded, saved, missed, ending>>

-----------------------------------------------------------------------------
Start     == SetUpUnixSignalHandlers \/ ConstructWithoutTox \/ Construct
Operation == \/ \E n, m \in Texts : SaveSettings(n, m)
             \/ \E k \in Keys : AcceptFriendRequest(k) \/ SendFriendRequest(k)
Stop      == \/ Close \/ SigTerm \/ SigTermDefault \/ HandleSigTerm
             \/ TickWithoutTox \/ CallWithoutTox
Environment == Kill \/ DiskChange \/ Upgrade

Next == Start \/ Operation \/ Stop \/ Environment

Spec == Init /\ [][Next]_vars

\* A live event loop serves the notifier and the timer.  Nobody owes a start,
\* a call, a signal or a disk with room.
FairSpec == Spec /\ WF_vars(HandleSigTerm) /\ WF_vars(TickWithoutTox)

-----------------------------------------------------------------------------
(* Properties                                                              *)

\* Every slot that changes the account saves it: while the last save (or the
\* load) succeeded, a crash loses nothing.
FileMatchesMemory == (Live /\ saved) => disk = Current(tox)

\* A process whose loadTox() returned true never takes the account in the
\* file away: no save of it, those of cleanUpOnClose on SIGTERM and on closing
\* included, replaces the identity or drops a friend.
AccountKept ==
    [][(loaded' /\ HasProfile(disk)) =>
            /\ HasProfile(disk')
            /\ disk'.profile.id = disk.profile.id
            /\ disk.profile.friends \subseteq disk'.profile.friends]_vars

\* cleanUpOnClose saves before it kills tox: what an earlier save failed to
\* write is on disk once the client was closed with room on the disk.
ClosingSaves ==
    [][(Live /\ tox' = Null /\ writable
            /\ ending' \notin {"killed", "terminated"})
        => disk' = Current(tox)]_vars

\* A SIGTERM that reached the notifier of a started client ends the process,
\* if only because the timer is left armed and the next tick crashes.
TermEndsProcess == (Live /\ timer /\ pipe > 0) ~> (phase = "down")

-----------------------------------------------------------------------------
(* The abstract specification                                              *)

AccountInMemory == IF tox = Null THEN Null ELSE AccountOf(tox)
AccountFile(d)  == IF HasProfile(d)
                   THEN [readable |-> (d.kind = "current"),
                         account  |-> AccountOf(d.profile)]
                   ELSE Null
AccountOnDisk == AccountFile(disk)

A == INSTANCE Account WITH memory <- AccountInMemory, file <- AccountOnDisk,
                           None <- Null

\* The backend keeps the promise of Account: whatever saves fail and however
\* processes end, the file has a whole account, replaced only by a save of
\* the account in memory, whose identity stays and whose friends only grow.
ImplementsAccount == A!Spec

-----------------------------------------------------------------------------
(* What comments say, and the code does not do                             *)

\* "Setup SIGTERM handlers to get notified when the application is closed":
\* every SIGTERM after sigaction has set the handler is notified.
SigTermIsNotified == ~missed

\* "Returns whether loading was successful": true means that the account of
\* a file was loaded.
LoadReportsSuccess == (phase = "running" /\ loaded) => HasProfile(disk)

\* "Run this before closing shop": the main loop does not go on after
\* tox_kill.
NoTickAfterKill == ending # "nullTick"
=============================================================================
