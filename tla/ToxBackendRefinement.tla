------------------------ MODULE ToxBackendRefinement ------------------------
(***************************************************************************)
(* ToxBackend implements Account: initial states map to initial states,    *)
(* and every step of the backend to a step of the account or to none.      *)
(***************************************************************************)
EXTENDS ToxBackendProofs

-----------------------------------------------------------------------------
(* The mapped variables                                                    *)

LEMMA AccountOfProfile ==
    ASSUME NEW p \in Profile
    PROVE  /\ AccountOf(p) \in Accounts
           /\ AccountOf(p).id = p.id
           /\ AccountOf(p).friends = p.friends
           /\ AccountOf(p) # Null
           /\ p # Null
  BY NullAssumption DEF AccountOf, Accounts, Profile

LEMMA AccountsEqual == Accounts = A!Accounts
  BY DEF Accounts, A!Accounts

LEMMA CurrentIsHolding ==
    ASSUME NEW p \in Profile
    PROVE  AccountFile(Current(p)) = A!Holding(AccountOf(p))
  BY CurrentIsFile DEF AccountFile, Current, HasProfile, A!Holding

\* A file with an account maps to something.
LEMMA FileOfAccount ==
    ASSUME NEW d \in Files, HasProfile(d)
    PROVE  /\ AccountFile(d) = [readable |-> (d.kind = "current"),
                                account  |-> AccountOf(d.profile)]
           /\ AccountFile(d) # Null
<1>1. AccountOf(d.profile) \in Accounts
  BY FileOfProfile, AccountOfProfile
<1>2. AccountFile(d) \in [readable : BOOLEAN, account : Accounts]
  BY <1>1 DEF AccountFile
<1> QED
  BY <1>2, NullAssumption DEF AccountFile

\* Saves of accounts with the same identity and friends are saves of Account.
LEMMA SaveMaps ==
    ASSUME NEW p \in Profile, NEW q \in Profile, AccountOf(p) = AccountOf(q),
           \/ saved' = TRUE /\ disk' = Current(q)
           \/ saved' = FALSE /\ disk' \in {disk, Current(p)}
    PROVE  A!Save(AccountOf(q))
<1>1. /\ AccountFile(Current(p)) = A!Holding(AccountOf(q))
      /\ AccountFile(Current(q)) = A!Holding(AccountOf(q))
  BY CurrentIsHolding
<1>2. AccountOnDisk' = AccountFile(disk')
  BY DEF AccountOnDisk, AccountFile, HasProfile
<1> QED
  BY <1>1, <1>2 DEF A!Save, AccountOnDisk

-----------------------------------------------------------------------------
(* Steps                                                                   *)

\* A step that leaves tox, the file and `saved` is a stutter.
LEMMA StutterMaps ==
    ASSUME UNCHANGED <<tox, disk, saved>>
    PROVE  UNCHANGED A!vars
  BY DEF A!vars, AccountInMemory, AccountOnDisk, AccountFile, HasProfile, AccountOf

\* So does one of a process that has no tox.
LEMMA LeaveMaps ==
    ASSUME TypeOK, tox' = Null,
           \/ UNCHANGED <<disk, saved>>
           \/ tox # Null /\ SaveTox(tox)
    PROVE  A!Next \/ UNCHANGED A!vars
<1>1. CASE tox = Null
  BY <1>1, StutterMaps
<1>2. CASE tox # Null
  <2>1. tox \in Profile
    BY <1>2 DEF TypeOK
  <2>2. /\ AccountInMemory = AccountOf(tox)
        /\ AccountInMemory # Null
        /\ AccountInMemory' = Null
    BY <1>2, <2>1, AccountOfProfile DEF AccountInMemory
  <2>3. CASE UNCHANGED <<disk, saved>>
    <3>1. UNCHANGED <<AccountOnDisk, saved>>
      BY <2>3 DEF AccountOnDisk, AccountFile, HasProfile
    <3> QED
      BY <2>2, <3>1 DEF A!Next, A!Leave
  <2>4. CASE SaveTox(tox)
    <3>1. A!Save(AccountOf(tox))
      BY <2>1, <2>4, SaveChoice, SaveMaps DEF TypeOK
    <3> QED
      BY <2>2, <3>1 DEF A!Next, A!Leave
  <2> QED
    BY <1>2, <2>3, <2>4
<1> QED
  BY <1>1, <1>2

\* An operation on the account is a change of it.
LEMMA ChangeMaps ==
    ASSUME TypeOK, tox # Null,
           NEW p \in Profile, NEW q \in Profile, AccountOf(p) = AccountOf(q),
           q.id = tox.id,
           \/ q.friends = tox.friends
           \/ \E k \in Keys : q.friends = tox.friends \cup {k},
           tox' = q,
           \/ saved' = TRUE /\ disk' = Current(q)
           \/ saved' = FALSE /\ disk' \in {disk, Current(p)}
    PROVE  A!Next
<1>1. tox \in Profile
  BY DEF TypeOK
<1>2. /\ AccountInMemory = AccountOf(tox)
      /\ AccountInMemory # Null
      /\ AccountInMemory' = AccountOf(q)
  BY <1>1, AccountOfProfile DEF AccountInMemory, AccountOf
<1>3. A!Save(AccountOf(q))
  BY SaveMaps
<1>4. A!Change(AccountOf(q))
  BY <1>1, <1>2, <1>3, AccountOfProfile DEF A!Change
<1> QED
  BY <1>4, AccountOfProfile, AccountsEqual DEF A!Next

\* The constructor resumes the account of the file, or sets out with another.
LEMMA ConstructMaps ==
    ASSUME IInv, Construct
    PROVE  A!Next
<1> DEFINE Loaded(load) ==
              /\ load.ok
              /\ tox' = load.tox
              /\ saved' = HasProfile(disk)
              /\ UNCHANGED <<disk, writable>>
           Defaults(load) == ~load.ok /\ DefaultsSaved(load.tox)
<1>1. PICK i \in Ids : \E load \in LoadTox(disk, i) :
          Loaded(load) \/ Defaults(load)
  BY DEF Construct
<1>2. PICK load \in LoadTox(disk, i) : Loaded(load) \/ Defaults(load)
  BY <1>1
<1>3. /\ load.tox \in Profile
      /\ (load.ok /\ HasProfile(disk)) => disk = Current(load.tox)
  BY LoadToxType DEF IInv, TypeOK
<1>4. tox = Null
  BY DEF IInv, NothingWhileDown, Construct
<1>5. AccountInMemory = Null
  BY <1>4 DEF AccountInMemory
<1>6. disk \in Files /\ FlagsOK
  BY DEF IInv, TypeOK
<1>7. CASE Loaded(load)
  <2>1. /\ AccountInMemory' = AccountOf(load.tox)
        /\ AccountOf(load.tox) \in A!Accounts
    BY <1>3, <1>7, AccountOfProfile, AccountsEqual DEF AccountInMemory, AccountOf
  <2>2. AccountOnDisk' = AccountOnDisk
    BY <1>7 DEF AccountOnDisk, AccountFile, HasProfile
  <2>3. CASE HasProfile(disk)
    <3>1. /\ AccountOnDisk # Null
          /\ AccountOnDisk.readable
          /\ AccountOnDisk.account = AccountOf(load.tox)
      <4>1. disk.kind = "current" /\ disk.profile = load.tox
        BY <1>3, <1>7, <2>3 DEF Current
      <4>2. /\ AccountOnDisk = [readable |-> TRUE,
                                account  |-> AccountOf(load.tox)]
            /\ AccountOnDisk # Null
        BY <1>6, <2>3, <4>1, FileOfAccount DEF AccountOnDisk
      <4> QED
        BY <4>2
    <3>2. saved' = TRUE
      BY <1>7, <2>3
    <3> QED
      BY <1>5, <2>1, <2>2, <3>1, <3>2 DEF A!Next, A!Resume
  <2>4. CASE ~HasProfile(disk)
    <3>1. saved' = FALSE
      BY <1>7, <2>4
    <3>2. A!Save(AccountOf(load.tox))
      BY <2>2, <3>1 DEF A!Save
    <3> QED
      BY <1>5, <2>1, <3>2 DEF A!Next, A!SetOut
  <2> QED
    BY <2>3, <2>4
<1>8. CASE Defaults(load)
  <2> DEFINE p == WithName(load.tox, DefaultName)
             q == WithStatus(p, DefaultStatus)
  <2>1. /\ p \in Profile /\ q \in Profile
        /\ q.id = p.id /\ q.friends = p.friends
    BY <1>3, ProfileEdits, TextsAssumption DEF WithName, WithStatus, Profile
  <2>2. tox' = q /\ SaveTwice(p, q)
    BY <1>8 DEF DefaultsSaved
  <2>3. \/ saved' = TRUE /\ disk' = Current(q)
        \/ saved' = FALSE /\ disk' \in {disk, Current(p)}
    BY <1>6, <2>2, SaveTwiceChoice
  <2> HIDE DEF p, q
  <2>4. AccountOf(p) = AccountOf(q)
    BY <2>1 DEF AccountOf
  <2>5. A!Save(AccountOf(q))
    BY <2>1, <2>3, <2>4, SaveMaps
  <2>6. AccountInMemory' = AccountOf(q)
    BY <2>1, <2>2, AccountOfProfile DEF AccountInMemory, AccountOf
  <2> QED
    BY <1>5, <2>1, <2>5, <2>6, AccountOfProfile, AccountsEqual
       DEF A!Next, A!SetOut
<1> QED
  BY <1>2, <1>7, <1>8

LEMMA StepMaps == IInv /\ [Next]_vars => [A!Next]_(A!vars)
<1> SUFFICES ASSUME IInv, [Next]_vars
             PROVE  A!Next \/ UNCHANGED A!vars
  OBVIOUS
<1>1. TypeOK /\ FlagsOK
  BY DEF IInv, TypeOK
<1>2. ASSUME Live
      PROVE  tox # Null /\ tox \in Profile
  BY <1>1, <1>2 DEF Live, TypeOK
<1>3. CASE SetUpUnixSignalHandlers \/ ConstructWithoutTox \/ SigTerm
           \/ DiskChange \/ UNCHANGED vars
  BY <1>3, StutterMaps
     DEF SetUpUnixSignalHandlers, ConstructWithoutTox, SigTerm, DiskChange, vars
<1>4. CASE Construct
  BY <1>4, ConstructMaps
<1>5. ASSUME NEW n \in Texts, NEW m \in Texts, SaveSettings(n, m)
      PROVE  A!Next
  <2> DEFINE p == WithName(tox, n)
             q == WithStatus(p, m)
  <2>1. Live /\ tox' = q /\ SaveTwice(p, q)
    BY <1>5 DEF SaveSettings
  <2>2. p \in Profile /\ p.id = tox.id /\ p.friends = tox.friends
    BY <1>2, <2>1, ProfileEdits DEF WithName, Profile
  <2>3. q \in Profile /\ q.id = tox.id /\ q.friends = tox.friends
    BY <2>2, ProfileEdits DEF WithStatus, Profile
  <2>4. \/ saved' = TRUE /\ disk' = Current(q)
        \/ saved' = FALSE /\ disk' \in {disk, Current(p)}
    BY <1>1, <2>1, SaveTwiceChoice
  <2>5. AccountOf(p) = AccountOf(q)
    BY <2>2, <2>3 DEF AccountOf
  <2> HIDE DEF p, q
  <2> QED
    BY <1>1, <1>2, <2>1, <2>2, <2>3, <2>4, <2>5, ChangeMaps
<1>6. ASSUME NEW k \in Keys, AcceptFriendRequest(k) \/ SendFriendRequest(k)
      PROVE  A!Next \/ UNCHANGED A!vars
  <2>1. tox # Null /\ tox \in Profile
    BY <1>2, <1>6 DEF AcceptFriendRequest, SendFriendRequest
  <2>2. CASE UNCHANGED <<tox, disk, saved>>
    BY <2>2, StutterMaps
  <2>3. CASE SaveTox(tox') /\ tox' \in {tox, WithFriend(tox, k)}
    <3>1. /\ tox' \in Profile /\ tox'.id = tox.id
          /\ tox'.friends \in {tox.friends, tox.friends \cup {k}}
      BY <2>1, <2>3 DEF WithFriend, Profile
    <3>2. \/ saved' = TRUE /\ disk' = Current(tox')
          \/ saved' = FALSE /\ disk' = disk
      BY <1>1, <2>3, SaveChoice
    <3> DEFINE q == tox'
    <3>3. tox' = q
      OBVIOUS
    <3> HIDE DEF q
    <3> QED
      BY <1>1, <2>1, <3>1, <3>2, <3>3, ChangeMaps
  <2> QED
    BY <1>6, <2>2, <2>3 DEF AcceptFriendRequest, SendFriendRequest
<1>7. CASE Close \/ SigTermDefault \/ HandleSigTerm \/ TickWithoutTox
           \/ CallWithoutTox \/ Kill
  BY <1>1, <1>7, LeaveMaps
     DEF Close, SigTermDefault, HandleSigTerm, TickWithoutTox, CallWithoutTox,
         Kill, EndProcess, SaveOnClose
<1>8. CASE Upgrade
  <2>1. tox = Null /\ tox' = Null /\ saved' = saved
    BY <1>8 DEF Upgrade, IInv, NothingWhileDown
  <2>2. AccountInMemory = Null /\ AccountInMemory' = Null
    BY <2>1 DEF AccountInMemory
  <2>3. HasProfile(disk) /\ disk \in Files
    BY <1>1, <1>8 DEF Upgrade, HasProfile, TypeOK
  <2>4. /\ AccountOnDisk = [readable |-> (disk.kind = "current"),
                            account  |-> AccountOf(disk.profile)]
        /\ AccountOnDisk # Null
    BY <2>3, FileOfAccount DEF AccountOnDisk
  <2>5. /\ disk'.kind = "refused"
        /\ disk'.profile = disk.profile
    BY <1>1, <1>8 DEF Upgrade, TypeOK, Files
  <2>6. AccountOnDisk' = [readable |-> FALSE, account |-> AccountOf(disk.profile)]
    BY <2>5 DEF AccountOnDisk, AccountFile, HasProfile, AccountOf
  <2>7. A!Age
    BY <2>1, <2>2, <2>4, <2>6 DEF A!Age
  <2> QED
    BY <2>7 DEF A!Next
<1> QED
  BY <1>3, <1>4, <1>5, <1>6, <1>7, <1>8
     DEF Next, Start, Operation, Stop, Environment

\* The backend implements Account for every set of identities, friends and
\* texts: whatever fails, the file changes only by a whole save of the account
\* in memory, and a process without tox changes nothing.
THEOREM Refinement == Spec => ImplementsAccount
<1>1. Init => A!Init
  BY DEF Init, A!Init, AccountInMemory, AccountOnDisk, AccountFile, HasProfile
<1>2. IInv /\ [Next]_vars => [A!Next]_(A!vars)
  BY StepMaps
<1> QED
  BY <1>1, <1>2, AlwaysIInv, PTL DEF Spec, ImplementsAccount, A!Spec
=============================================================================
