-------------------------- MODULE ToxBackendProofs --------------------------
(***************************************************************************)
(* Proofs about ToxBackend, for every set of identities, friends and texts *)
(* and any number of SIGTERMs.                                             *)
(***************************************************************************)
EXTENDS ToxBackend, TLAPS

-----------------------------------------------------------------------------
(* Operators on profiles and files                                         *)

LEMMA ProfileEdits ==
    ASSUME NEW p \in Profile, NEW n \in Texts, NEW k \in Keys
    PROVE  /\ WithName(p, n) \in Profile
           /\ WithName(p, n).id = p.id
           /\ WithName(p, n).friends = p.friends
           /\ WithStatus(p, n) \in Profile
           /\ WithStatus(p, n).id = p.id
           /\ WithStatus(p, n).friends = p.friends
           /\ WithFriend(p, k) \in Profile
           /\ WithFriend(p, k).id = p.id
           /\ p.friends \subseteq WithFriend(p, k).friends
  BY DEF Profile, WithName, WithStatus, WithFriend

LEMMA CurrentIsFile ==
    ASSUME NEW p \in Profile
    PROVE  /\ Current(p) \in Files
           /\ Current(p).kind = "current"
           /\ Current(p).profile = p
           /\ HasProfile(Current(p))
  BY DEF Current, Files, HasProfile

LEMMA FileOfProfile ==
    ASSUME NEW d \in Files, HasProfile(d)
    PROVE  d.profile \in Profile
  BY DEF Files, HasProfile

\* A save leaves the file or replaces it, and `saved` says which.
LEMMA SaveChoice ==
    ASSUME NEW p, SaveTox(p), FlagsOK
    PROVE  \/ saved' = TRUE /\ disk' = Current(p)
           \/ saved' = FALSE /\ disk' = disk
<1>1. CASE writable
  BY <1>1 DEF SaveTox, FileAfter, FlagsOK
<1>2. CASE ~writable
  BY <1>2 DEF SaveTox, FileAfter, FlagsOK
<1> QED
  BY <1>1, <1>2

LEMMA SaveTwiceChoice ==
    ASSUME NEW p, NEW q, SaveTwice(p, q), FlagsOK
    PROVE  /\ writable' \in BOOLEAN
           /\ \/ saved' = TRUE /\ disk' = Current(q)
              \/ saved' = FALSE /\ disk' \in {disk, Current(p)}
<1>1. writable' \in BOOLEAN /\ saved' = writable'
  BY DEF SaveTwice
<1>2. FileAfter(disk, p, writable) \in {disk, Current(p)}
  BY DEF FileAfter
<1>3. CASE writable'
  BY <1>1, <1>3 DEF SaveTwice, FileAfter
<1>4. CASE ~writable'
  <2>1. disk' = FileAfter(disk, p, writable)
    BY <1>4 DEF SaveTwice, FileAfter
  <2>2. saved' = FALSE
    BY <1>1, <1>4
  <2> QED
    BY <1>1, <1>2, <2>1, <2>2
<1> QED
  BY <1>3, <1>4

\* A tox that loadTox() leaves is a profile; if it returned true for a file
\* with a profile, it is that profile, and the file is in the current format.
LEMMA LoadToxType ==
    ASSUME NEW d \in Files, NEW i \in Ids, NEW load \in LoadTox(d, i)
    PROVE  /\ load.ok \in BOOLEAN
           /\ load.tox \in Profile
           /\ (load.ok /\ HasProfile(d)) => d = Current(load.tox)
<1> USE TextsAssumption
<1>1. Fresh(i) \in Profile
  BY DEF Fresh, Profile
<1>2. d.kind \in {"absent", "empty", "current", "refused"}
  BY DEF Files
<1>3. CASE load \in [ok : {FALSE}, tox : {Fresh(i)}]
  BY <1>1, <1>3
<1>4. CASE load \notin [ok : {FALSE}, tox : {Fresh(i)}]
  <2>1. CASE d.kind = "absent"
    BY <1>4, <2>1 DEF LoadTox
  <2>2. CASE d.kind = "empty"
    <3>1. load \in [ok : BOOLEAN, tox : {Fresh(i)}]
      BY <1>4, <2>2 DEF LoadTox
    <3> QED
      BY <1>1, <2>2, <3>1 DEF HasProfile
  <2>3. CASE d.kind = "current"
    <3>1. load \in [ok : {TRUE}, tox : {d.profile}]
      BY <1>4, <2>3 DEF LoadTox
    <3>2. d.profile \in Profile /\ d = Current(d.profile)
      BY <2>3 DEF Files, Current
    <3> QED
      BY <3>1, <3>2
  <2>4. CASE d.kind = "refused"
    <3>1. load \in [ok : {FALSE}, tox : PartlyLoaded(d.profile, i)]
      BY <1>4, <2>4 DEF LoadTox
    <3>2. d.profile \in Profile
      BY <2>4 DEF Files
    <3>3. PartlyLoaded(d.profile, i) \subseteq Profile
      BY <3>2 DEF PartlyLoaded, Profile
    <3> QED
      BY <3>1, <3>3
  <2> QED
    BY <1>2, <2>1, <2>2, <2>3, <2>4
<1> QED
  BY <1>3, <1>4

-----------------------------------------------------------------------------
(* Types                                                                   *)

LEMMA InitType == Init => TypeOK
<1> SUFFICES ASSUME Init
             PROVE  TypeOK
  OBVIOUS
<1>1. FlagsOK
  BY DEF Init, FlagsOK
<1> QED
  BY <1>1, TermsAssumption DEF Init, TypeOK, Files, Dispositions

LEMMA StepFlags == TypeOK /\ [Next]_vars => FlagsOK'
<1> SUFFICES ASSUME TypeOK, [Next]_vars
             PROVE  FlagsOK'
  OBVIOUS
<1>0. FlagsOK
  BY DEF TypeOK
<1> USE <1>0 DEF FlagsOK
<1>1. CASE SetUpUnixSignalHandlers
  BY <1>1 DEF SetUpUnixSignalHandlers
<1>2. CASE ConstructWithoutTox
  BY <1>2 DEF ConstructWithoutTox
<1>3. CASE Construct
  <2>1. PICK i \in Ids : \E load \in LoadTox(disk, i) :
            /\ loaded' = load.ok
            /\ \/ saved' = HasProfile(disk) /\ UNCHANGED <<disk, writable>>
               \/ DefaultsSaved(load.tox)
    BY <1>3 DEF Construct
  <2>2. PICK load \in LoadTox(disk, i) :
            /\ loaded' = load.ok
            /\ \/ saved' = HasProfile(disk) /\ UNCHANGED <<disk, writable>>
               \/ DefaultsSaved(load.tox)
    BY <2>1
  <2>3. loaded' \in BOOLEAN
    BY <2>2, LoadToxType DEF TypeOK
  <2>4. timer' \in BOOLEAN /\ missed' \in BOOLEAN
    BY <1>3 DEF Construct
  <2>5. CASE saved' = HasProfile(disk) /\ UNCHANGED <<disk, writable>>
    BY <2>3, <2>4, <2>5 DEF HasProfile
  <2>6. CASE DefaultsSaved(load.tox)
    BY <2>3, <2>4, <2>6 DEF DefaultsSaved, SaveTwice
  <2> QED
    BY <2>2, <2>5, <2>6
<1>4. ASSUME NEW n \in Texts, NEW m \in Texts, SaveSettings(n, m)
      PROVE  FlagsOK'
  BY <1>4 DEF SaveSettings, SaveTwice
<1>5. ASSUME NEW k \in Keys, AcceptFriendRequest(k)
      PROVE  FlagsOK'
  BY <1>5 DEF AcceptFriendRequest, SaveTox
<1>6. ASSUME NEW k \in Keys, SendFriendRequest(k)
      PROVE  FlagsOK'
  BY <1>6 DEF SendFriendRequest, SaveTox
<1>7. CASE Close
  BY <1>7 DEF Close, SaveOnClose, SaveTox, EndProcess
<1>8. CASE SigTerm
  BY <1>8 DEF SigTerm
<1>9. CASE HandleSigTerm
  BY <1>9 DEF HandleSigTerm, SaveOnClose, SaveTox
<1>10. CASE SigTermDefault \/ TickWithoutTox \/ CallWithoutTox \/ Kill
  BY <1>10 DEF SigTermDefault, TickWithoutTox, CallWithoutTox, Kill, EndProcess
<1>11. CASE DiskChange
  BY <1>11 DEF DiskChange
<1>12. CASE Upgrade
  BY <1>12 DEF Upgrade
<1>13. CASE UNCHANGED vars
  BY <1>13 DEF vars
<1> QED
  BY <1>1, <1>2, <1>3, <1>4, <1>5, <1>6, <1>7, <1>8, <1>9, <1>10, <1>11,
     <1>12, <1>13 DEF Next, Start, Operation, Stop, Environment

-----------------------------------------------------------------------------
(* The inductive invariant                                                 *)

\* Only a running process has a tox, and one that starts has loaded nothing.
NothingWhileDown == /\ phase # "running" => tox = Null
                    /\ phase = "handlers" => loaded = FALSE

\* While a loaded account lives, the file has the same identity and no
\* friend that memory lacks: the next save takes nothing away.
LoadedAccountGrows ==
    (tox # Null /\ loaded = TRUE /\ HasProfile(disk)) =>
        /\ disk.kind = "current"
        /\ disk.profile.id = tox.id
        /\ disk.profile.friends \subseteq tox.friends

\* FileMatchesMemory with `saved` compared, not used as a formula.
SavedIsOnDisk == (tox # Null /\ saved = TRUE) => disk = Current(tox)

IInv == /\ TypeOK
        /\ NothingWhileDown
        /\ LoadedAccountGrows
        /\ SavedIsOnDisk

\* A slot that turns tox into p, and saved q and then p, or p alone.
LEMMA EditKeepsIInv ==
    ASSUME IInv, Live,
           NEW p \in Profile, p.id = tox.id, tox.friends \subseteq p.friends,
           NEW q \in Profile, q.id = tox.id, tox.friends \subseteq q.friends,
           q.friends \subseteq p.friends,
           tox' = p,
           \/ saved' = TRUE /\ disk' = Current(p)
           \/ saved' = FALSE /\ disk' \in {disk, Current(q)},
           FlagsOK',
           UNCHANGED <<phase, sigterm, pipe, loaded, ending>>
    PROVE  IInv'
<1> USE DEF IInv
<1>1. /\ Current(p) \in Files /\ Current(p).profile = p /\ Current(p).kind = "current"
      /\ Current(q) \in Files /\ Current(q).profile = q /\ Current(q).kind = "current"
  BY CurrentIsFile
<1>2. p # Null
  BY NullAssumption
<1>3. TypeOK'
  BY <1>1 DEF TypeOK
<1>4. NothingWhileDown'
  BY DEF NothingWhileDown, Live
<1>5. SavedIsOnDisk'
  BY DEF SavedIsOnDisk
<1>6. LoadedAccountGrows'
  <2>1. CASE disk' = disk
    BY <2>1 DEF LoadedAccountGrows, Live, HasProfile
  <2>2. CASE disk' = Current(p)
    BY <1>1, <2>2 DEF LoadedAccountGrows
  <2>3. CASE disk' = Current(q)
    BY <1>1, <2>3 DEF LoadedAccountGrows
  <2> QED
    BY <2>1, <2>2, <2>3
<1> QED
  BY <1>3, <1>4, <1>5, <1>6

\* A step after which there is no tox.
LEMMA NoToxKeepsIInv ==
    ASSUME IInv, FlagsOK', tox' = Null, disk' \in Files,
           phase' \in {"down", "handlers", "running"},
           phase' = "handlers" => loaded' = FALSE,
           sigterm' \in Dispositions,
           pipe' \in 0 .. MaxTerms,
           ending' \in {"none", "closed", "killed", "terminated",
                        "nullCall", "nullTick"}
    PROVE  IInv'
  BY DEF IInv, TypeOK, NothingWhileDown, LoadedAccountGrows, SavedIsOnDisk

\* A step that changes neither the account nor what was saved of it.
LEMMA OtherKeepsIInv ==
    ASSUME IInv, FlagsOK',
           UNCHANGED <<phase, tox, disk, loaded, saved>>,
           sigterm' \in Dispositions,
           pipe' \in 0 .. MaxTerms,
           ending' = ending
    PROVE  IInv'
  BY DEF IInv, TypeOK, NothingWhileDown, LoadedAccountGrows, SavedIsOnDisk,
         HasProfile

\* Closing saves, or leaves the file.
LEMMA SaveOnCloseType ==
    ASSUME TypeOK, SaveOnClose
    PROVE  disk' \in Files
<1>1. CASE tox # Null
  <2>1. tox \in Profile
    BY <1>1 DEF TypeOK
  <2>2. SaveTox(tox)
    BY <1>1 DEF SaveOnClose
  <2> QED
    BY <2>1, <2>2, CurrentIsFile DEF TypeOK, SaveTox, FileAfter
<1>2. CASE tox = Null
  BY <1>2 DEF SaveOnClose, TypeOK
<1> QED
  BY <1>1, <1>2

LEMMA ConstructKeepsIInv ==
    ASSUME IInv, Construct, FlagsOK'
    PROVE  IInv'
<1> USE DEF IInv
<1>1. PICK i \in Ids : \E load \in LoadTox(disk, i) :
          /\ loaded' = load.ok
          /\ \/ /\ load.ok
                /\ tox' = load.tox
                /\ saved' = HasProfile(disk)
                /\ UNCHANGED <<disk, writable>>
             \/ /\ ~load.ok
                /\ DefaultsSaved(load.tox)
  BY DEF Construct
<1>2. PICK load \in LoadTox(disk, i) :
          /\ loaded' = load.ok
          /\ \/ /\ load.ok
                /\ tox' = load.tox
                /\ saved' = HasProfile(disk)
                /\ UNCHANGED <<disk, writable>>
             \/ /\ ~load.ok
                /\ DefaultsSaved(load.tox)
  BY <1>1
<1>3. /\ load.ok \in BOOLEAN
      /\ load.tox \in Profile
      /\ (load.ok /\ HasProfile(disk)) => disk = Current(load.tox)
  BY LoadToxType DEF TypeOK
<1>4. phase' = "running" /\ UNCHANGED <<sigterm, pipe, ending>>
  BY DEF Construct
<1>5. CASE /\ load.ok
           /\ tox' = load.tox
           /\ saved' = HasProfile(disk)
           /\ UNCHANGED <<disk, writable>>
  <2>1. tox' \in Profile
    BY <1>3, <1>5
  <2>2. TypeOK'
    BY <1>4, <1>5, <2>1 DEF TypeOK
  <2>3. HasProfile(disk) => /\ disk = Current(tox')
                            /\ disk.kind = "current" /\ disk.profile = tox'
    BY <1>3, <1>5 DEF Current
  <2>4. SavedIsOnDisk'
    <3>1. saved' = TRUE => HasProfile(disk)
      BY <1>5
    <3> QED
      BY <1>5, <2>3, <3>1 DEF SavedIsOnDisk
  <2>5. LoadedAccountGrows'
    <3>1. HasProfile(disk)' = HasProfile(disk)
      BY <1>5 DEF HasProfile
    <3> QED
      BY <1>5, <2>3, <3>1 DEF LoadedAccountGrows
  <2> QED
    BY <1>4, <2>2, <2>4, <2>5 DEF NothingWhileDown
<1>6. CASE ~load.ok /\ DefaultsSaved(load.tox)
  <2> DEFINE p == WithName(load.tox, DefaultName)
             q == WithStatus(p, DefaultStatus)
  <2>1. p \in Profile /\ q \in Profile
    BY <1>3, ProfileEdits, TextsAssumption DEF WithName, WithStatus, Profile
  <2>2. tox' = q /\ SaveTwice(p, q)
    BY <1>6 DEF DefaultsSaved
  <2>3. \/ saved' = TRUE /\ disk' = Current(q)
        \/ saved' = FALSE /\ disk' \in {disk, Current(p)}
    BY <2>2, SaveTwiceChoice DEF TypeOK
  <2>4. Current(p) \in Files /\ Current(q) \in Files
    BY <2>1, CurrentIsFile
  <2> HIDE DEF p, q
  <2>5. TypeOK'
    BY <1>4, <2>1, <2>2, <2>3, <2>4 DEF TypeOK
  <2>6. loaded' = FALSE
    BY <1>2, <1>3, <1>6
  <2> QED
    BY <1>4, <2>2, <2>3, <2>5, <2>6
       DEF NothingWhileDown, LoadedAccountGrows, SavedIsOnDisk
<1> QED
  BY <1>2, <1>5, <1>6

LEMMA InitIInv == Init => IInv
  BY InitType
     DEF Init, IInv, NothingWhileDown, LoadedAccountGrows, SavedIsOnDisk

LEMMA StepIInv == IInv /\ [Next]_vars => IInv'
<1> SUFFICES ASSUME IInv, [Next]_vars
             PROVE  IInv'
  OBVIOUS
<1>1. FlagsOK'
  BY StepFlags DEF IInv
<1>2. TypeOK /\ FlagsOK
  BY DEF IInv, TypeOK
<1>3. ASSUME Live
      PROVE  tox \in Profile
  BY <1>2, <1>3 DEF Live, TypeOK
<1>4. CASE SetUpUnixSignalHandlers
  BY <1>1, <1>2, <1>4, NoToxKeepsIInv
     DEF SetUpUnixSignalHandlers, IInv, NothingWhileDown, TypeOK, Dispositions
<1>5. CASE ConstructWithoutTox
  BY <1>1, <1>2, <1>5, NoToxKeepsIInv
     DEF ConstructWithoutTox, IInv, NothingWhileDown, TypeOK
<1>6. CASE Construct
  BY <1>1, <1>6, ConstructKeepsIInv
<1>7. ASSUME NEW n \in Texts, NEW m \in Texts, SaveSettings(n, m)
      PROVE  IInv'
  <2> DEFINE q == WithName(tox, n)
             p == WithStatus(q, m)
  <2>1. Live /\ tox' = p /\ SaveTwice(q, p)
    BY <1>7 DEF SaveSettings
  <2>2. q \in Profile /\ q.id = tox.id /\ q.friends = tox.friends
    BY <1>3, <2>1, ProfileEdits DEF WithName, Profile
  <2>3. p \in Profile /\ p.id = tox.id /\ p.friends = tox.friends
    BY <2>2, ProfileEdits DEF WithStatus, Profile
  <2>4. \/ saved' = TRUE /\ disk' = Current(p)
        \/ saved' = FALSE /\ disk' \in {disk, Current(q)}
    BY <1>2, <2>1, SaveTwiceChoice
  <2>5. UNCHANGED <<phase, sigterm, pipe, loaded, ending>>
    BY <1>7 DEF SaveSettings
  <2> HIDE DEF p, q
  <2> QED
    BY <1>1, <2>1, <2>2, <2>3, <2>4, <2>5, EditKeepsIInv
<1>8. ASSUME NEW k \in Keys, AcceptFriendRequest(k)
      PROVE  IInv'
  <2>1. Live /\ UNCHANGED <<phase, sigterm, pipe, loaded, ending>>
    BY <1>8 DEF AcceptFriendRequest
  <2>2. CASE tox' = WithFriend(tox, k) /\ SaveTox(WithFriend(tox, k))
    <3> DEFINE p == WithFriend(tox, k)
    <3>1. p \in Profile /\ p.id = tox.id /\ tox.friends \subseteq p.friends
      BY <1>3, <2>1, ProfileEdits DEF WithFriend, Profile
    <3>2. \/ saved' = TRUE /\ disk' = Current(p)
          \/ saved' = FALSE /\ disk' = disk
      BY <1>2, <2>2, SaveChoice
    <3> HIDE DEF p
    <3> QED
      BY <1>1, <2>1, <2>2, <3>1, <3>2, EditKeepsIInv DEF p
  <2>3. CASE UNCHANGED <<tox, disk, saved>>
    BY <1>1, <1>2, <2>1, <2>3, OtherKeepsIInv DEF TypeOK
  <2> QED
    BY <1>8, <2>2, <2>3 DEF AcceptFriendRequest
<1>9. ASSUME NEW k \in Keys, SendFriendRequest(k)
      PROVE  IInv'
  <2>1. Live /\ UNCHANGED <<phase, sigterm, pipe, loaded, ending>>
    BY <1>9 DEF SendFriendRequest
  <2>2. SaveTox(tox')
    BY <1>9 DEF SendFriendRequest
  <2>3. tox' \in Profile /\ tox'.id = tox.id /\ tox.friends \subseteq tox'.friends
    <3>1. tox' = WithFriend(tox, k) \/ tox' = tox
      BY <1>9 DEF SendFriendRequest
    <3>2. tox \in Profile
      BY <1>3, <2>1
    <3> QED
      BY <3>1, <3>2 DEF WithFriend, Profile
  <2>4. \/ saved' = TRUE /\ disk' = Current(tox')
        \/ saved' = FALSE /\ disk' = disk
    BY <1>2, <2>2, SaveChoice
  <2> QED
    BY <1>1, <2>1, <2>3, <2>4, EditKeepsIInv
<1>10. ASSUME NEW how \in {"closed", "killed", "terminated",
                           "nullCall", "nullTick"},
              EndProcess(how), disk' \in Files
       PROVE  IInv'
  <2>1. /\ tox' = Null /\ phase' = "down"
        /\ sigterm' = "default" /\ pipe' = 0
        /\ ending' = how
    BY <1>10 DEF EndProcess
  <2>2. pipe' \in 0 .. MaxTerms
    BY <2>1, TermsAssumption
  <2> QED
    BY <1>1, <1>10, <2>1, <2>2, NoToxKeepsIInv DEF Dispositions
<1>11. CASE Close
  BY <1>2, <1>10, <1>11, SaveOnCloseType DEF Close
<1>12. CASE SigTermDefault \/ TickWithoutTox \/ CallWithoutTox \/ Kill
  BY <1>2, <1>10, <1>12
     DEF SigTermDefault, TickWithoutTox, CallWithoutTox, Kill, TypeOK
<1>13. CASE SigTerm
  <2>1. pipe' \in 0 .. MaxTerms
    BY <1>2, <1>13, TermsAssumption DEF SigTerm, TypeOK
  <2>2. sigterm' \in Dispositions
    BY <1>2, <1>13 DEF SigTerm, TypeOK, Dispositions
  <2> QED
    BY <1>1, <1>13, <2>1, <2>2, OtherKeepsIInv DEF SigTerm
<1>14. CASE HandleSigTerm
  <2>1. disk' \in Files
    BY <1>2, <1>14, SaveOnCloseType DEF HandleSigTerm
  <2>2. pipe' \in 0 .. MaxTerms
    BY <1>2, <1>14, TermsAssumption DEF HandleSigTerm, TypeOK
  <2> QED
    BY <1>1, <1>2, <1>14, <2>1, <2>2, NoToxKeepsIInv DEF HandleSigTerm, TypeOK
<1>15. CASE DiskChange
  BY <1>1, <1>2, <1>15, OtherKeepsIInv DEF DiskChange, TypeOK
<1>16. CASE Upgrade
  <2>1. tox = Null /\ phase = "down"
    BY <1>16 DEF Upgrade, IInv, NothingWhileDown
  <2>2. disk' \in Files
    BY <1>2, <1>16 DEF Upgrade, TypeOK, Files
  <2> QED
    BY <1>1, <1>2, <1>16, <2>1, <2>2, NoToxKeepsIInv DEF Upgrade, TypeOK
<1>17. CASE UNCHANGED vars
  BY <1>1, <1>2, <1>17, OtherKeepsIInv DEF vars, TypeOK
<1> QED
  BY <1>4, <1>5, <1>6, <1>7, <1>8, <1>9, <1>11, <1>12, <1>13, <1>14, <1>15,
     <1>16, <1>17 DEF Next, Start, Operation, Stop, Environment

LEMMA AlwaysIInv == Spec => []IInv
  BY InitIInv, StepIInv, PTL DEF Spec

-----------------------------------------------------------------------------
(* The theorems                                                            *)

\* Every variable of the backend keeps its type: tox is null or an account,
\* the file is absent, empty, or holds an account.
THEOREM TypeCorrect == Spec => []TypeOK
<1>1. IInv => TypeOK
  BY DEF IInv
<1> QED
  BY AlwaysIInv, <1>1, PTL

\* While the last save or the load succeeded, save.tox holds exactly the
\* account in memory, whatever slots, failed saves, signals, crashes and
\* restarts came before.
THEOREM FileIsCurrent == Spec => []FileMatchesMemory
<1>1. IInv => FileMatchesMemory
  <2>1. ASSUME IInv, Live, saved
        PROVE  disk = Current(tox)
    <3>1. saved = TRUE
      BY <2>1 DEF IInv, TypeOK, FlagsOK
    <3> QED
      BY <2>1, <3>1 DEF IInv, SavedIsOnDisk, Live
  <2> QED
    BY <2>1 DEF FileMatchesMemory
<1> QED
  BY AlwaysIInv, <1>1, PTL

\* What AccountKept asks of a step.
Kept == /\ HasProfile(disk')
        /\ disk'.profile.id = disk.profile.id
        /\ disk.profile.friends \subseteq disk'.profile.friends

\* Saving an account that grew out of the one in memory keeps the file's.
LEMMA SaveKeeps ==
    ASSUME IInv, tox # Null, loaded = TRUE, HasProfile(disk),
           NEW p \in Profile, p.id = tox.id, tox.friends \subseteq p.friends,
           disk' \in {disk, Current(p)}
    PROVE  Kept
<1>1. CASE disk' = disk
  BY <1>1 DEF Kept
<1>2. CASE disk' = Current(p)
  BY <1>2, CurrentIsFile DEF Kept, IInv, LoadedAccountGrows
<1> QED
  BY <1>1, <1>2

LEMMA StepKeepsAccount ==
    ASSUME IInv, [Next]_vars, loaded' = TRUE, HasProfile(disk)
    PROVE  Kept
<1>1. TypeOK /\ FlagsOK
  BY DEF IInv, TypeOK
<1>2. CASE disk' = disk
  BY <1>2 DEF Kept
<1>3. CASE SetUpUnixSignalHandlers \/ ConstructWithoutTox \/ SigTerm \/ DiskChange
           \/ UNCHANGED vars
  BY <1>2, <1>3
     DEF SetUpUnixSignalHandlers, ConstructWithoutTox, SigTerm, DiskChange, vars
<1>4. CASE Construct
  <2>1. PICK i \in Ids : \E load \in LoadTox(disk, i) :
            /\ loaded' = load.ok
            /\ load.ok => disk' = disk
    BY <1>4 DEF Construct
  <2>2. disk' = disk
    BY <2>1
  <2> QED
    BY <1>2, <2>2
<1>5. ASSUME NEW n \in Texts, NEW m \in Texts, SaveSettings(n, m)
      PROVE  Kept
  <2> DEFINE q == WithName(tox, n)
             p == WithStatus(q, m)
  <2>1. Live /\ loaded = TRUE /\ SaveTwice(q, p)
    BY <1>5 DEF SaveSettings
  <2>2. tox # Null /\ tox \in Profile
    BY <1>1, <2>1 DEF Live, TypeOK
  <2>3. q \in Profile /\ q.id = tox.id /\ q.friends = tox.friends
    BY <2>2, ProfileEdits DEF WithName, Profile
  <2>4. p \in Profile /\ p.id = tox.id /\ p.friends = tox.friends
    BY <2>3, ProfileEdits DEF WithStatus, Profile
  <2>5. disk' \in {disk, Current(q)} \/ disk' = Current(p)
    BY <1>1, <2>1, SaveTwiceChoice
  <2> HIDE DEF p, q
  <2> QED
    BY <2>1, <2>2, <2>3, <2>4, <2>5, SaveKeeps
<1>6. ASSUME NEW k \in Keys, AcceptFriendRequest(k) \/ SendFriendRequest(k)
      PROVE  Kept
  <2> DEFINE p == WithFriend(tox, k)
  <2>1. Live /\ loaded = TRUE
    BY <1>6 DEF AcceptFriendRequest, SendFriendRequest
  <2>2. tox # Null /\ tox \in Profile
    BY <1>1, <2>1 DEF Live, TypeOK
  <2>3. p \in Profile /\ p.id = tox.id /\ tox.friends \subseteq p.friends
    BY <2>2 DEF WithFriend, Profile
  <2>4. disk' = disk \/ SaveTox(p) \/ SaveTox(tox)
    BY <1>6 DEF AcceptFriendRequest, SendFriendRequest, SaveTox
  <2>5. disk' \in {disk, Current(p), Current(tox)}
    BY <2>4 DEF SaveTox, FileAfter
  <2> HIDE DEF p
  <2> QED
    BY <2>1, <2>2, <2>3, <2>5, SaveKeeps
<1>7. CASE HandleSigTerm \/ Close
  <2>1. loaded = TRUE /\ SaveOnClose
    BY <1>7 DEF HandleSigTerm, Close, EndProcess
  <2>2. CASE tox = Null
    BY <1>2, <2>1, <2>2 DEF SaveOnClose
  <2>3. CASE tox # Null
    <3>1. tox \in Profile /\ SaveTox(tox)
      BY <1>1, <2>1, <2>3 DEF TypeOK, SaveOnClose
    <3>2. disk' \in {disk, Current(tox)}
      BY <3>1 DEF SaveTox, FileAfter
    <3> QED
      BY <2>1, <2>3, <3>1, <3>2, SaveKeeps
  <2> QED
    BY <2>2, <2>3
<1>8. CASE SigTermDefault \/ TickWithoutTox \/ CallWithoutTox \/ Kill
  BY <1>2, <1>8 DEF SigTermDefault, TickWithoutTox, CallWithoutTox, Kill
<1>9. CASE Upgrade
  BY <1>1, <1>9 DEF Upgrade, Kept, TypeOK, Files, HasProfile
<1> QED
  BY <1>3, <1>4, <1>5, <1>6, <1>7, <1>8, <1>9
     DEF Next, Start, Operation, Stop, Environment

\* Once loadTox() has returned true, no step of the process, the last saves
\* on SIGTERM and on closing included, replaces the identity in the file or
\* drops a friend.
THEOREM AccountIsKept == Spec => AccountKept
<1>1. IInv /\ IInv' /\ [Next]_vars =>
        [(loaded' /\ HasProfile(disk)) =>
            /\ HasProfile(disk')
            /\ disk'.profile.id = disk.profile.id
            /\ disk.profile.friends \subseteq disk'.profile.friends]_vars
  <2>1. ASSUME IInv, IInv', [Next]_vars, loaded', HasProfile(disk)
        PROVE  Kept
    <3>1. loaded' = TRUE
      BY <2>1 DEF IInv, TypeOK, FlagsOK
    <3> QED
      BY <2>1, <3>1, StepKeepsAccount
  <2> QED
    BY <2>1 DEF Kept
<1> QED
  BY <1>1, AlwaysIInv, PTL DEF Spec, AccountKept

LEMMA StepClosingSaves ==
    ASSUME TypeOK, [Next]_vars, Live, tox' = Null, writable,
           ending' \notin {"killed", "terminated"}
    PROVE  disk' = Current(tox)
<1>1. tox \in Profile /\ phase = "running"
  BY DEF Live, TypeOK
<1>2. ASSUME SaveOnClose
      PROVE  disk' = Current(tox)
  BY <1>2 DEF SaveOnClose, SaveTox, FileAfter, Live
<1>3. CASE Close \/ HandleSigTerm
  BY <1>2, <1>3 DEF Close, HandleSigTerm
<1>4. CASE SigTermDefault \/ Kill
  BY <1>4 DEF SigTermDefault, Kill, EndProcess
<1>5. ASSUME tox' \in Profile
      PROVE  FALSE
  BY <1>5, NullAssumption
<1>6. ASSUME NEW n \in Texts, NEW m \in Texts, SaveSettings(n, m)
      PROVE  FALSE
  BY <1>1, <1>5, <1>6 DEF SaveSettings, WithName, WithStatus, Profile
<1>7. ASSUME NEW k \in Keys, AcceptFriendRequest(k) \/ SendFriendRequest(k)
      PROVE  FALSE
  <2>1. tox' = tox \/ tox' = WithFriend(tox, k)
    BY <1>7 DEF AcceptFriendRequest, SendFriendRequest
  <2> QED
    BY <1>1, <1>5, <2>1 DEF WithFriend, Profile
<1> QED
  BY <1>1, <1>3, <1>4, <1>6, <1>7
     DEF Next, Start, Operation, Stop, Environment, Live, vars,
         SetUpUnixSignalHandlers, ConstructWithoutTox, Construct, SigTerm,
         TickWithoutTox, CallWithoutTox, DiskChange, Upgrade

\* Whatever earlier saves failed, a client closed or terminated with room on
\* the disk leaves its account in the file.
THEOREM ClosingIsSaved == Spec => ClosingSaves
<1>1. IInv /\ [Next]_vars =>
        [(Live /\ tox' = Null /\ writable
            /\ ending' \notin {"killed", "terminated"})
        => disk' = Current(tox)]_vars
  BY StepClosingSaves DEF IInv
<1> QED
  BY <1>1, AlwaysIInv, PTL DEF Spec, ClosingSaves
=============================================================================
