------------------------------ MODULE Account ------------------------------
(***************************************************************************)
(* What the client promises about the user's account: the identity and the *)
(* friends, in the memory of a process and in its file.  ToxBackend        *)
(* implements it.                                                          *)
(*                                                                         *)
(* The file holds a whole account or none, whatever fails.  A process      *)
(* resumes the account of a readable file or sets out with another one; as *)
(* long as it runs, the identity stays and friends are only added.         *)
(***************************************************************************)
CONSTANTS
    Ids,   \* identities
    Keys,  \* public keys of other users
    None   \* no account, no file

Accounts == [id : Ids, friends : SUBSET Keys]

\* A file with an account; one that is not readable is of another version.
Files == [readable : BOOLEAN, account : Accounts]

VARIABLES
    memory,  \* the account of the process, or None
    file,    \* the file, or None
    saved    \* the last save or load left memory and file the same

vars == <<memory, file, saved>>

TypeOK == /\ memory \in Accounts \cup {None}
          /\ file \in Files \cup {None}
          /\ saved \in BOOLEAN

Init == memory = None /\ file = None /\ saved = FALSE

Holding(a) == [readable |-> TRUE, account |-> a]

\* A save of `a` that may fail: the file is replaced whole, or not at all.
\* With several saves in a step, an earlier one may have succeeded.
Save(a) == /\ file' \in {file, Holding(a)}
           /\ saved' \in BOOLEAN /\ (saved' => file' = Holding(a))

\* A process resumes the account of the file.
Resume == /\ memory = None /\ file # None
          /\ file.readable
          /\ memory' = file.account
          /\ saved' = TRUE
          /\ UNCHANGED file

\* Or it sets out with another one: a new account, or what could be read of
\* a file of another version.
SetOut(a) == /\ memory = None
             /\ memory' = a
             /\ Save(a)

\* The account changes in nothing but a new friend, or is saved again.
Change(a) == /\ memory # None
             /\ a.id = memory.id
             /\ \/ a.friends = memory.friends
                \/ \E k \in Keys : a.friends = memory.friends \cup {k}
             /\ memory' = a
             /\ Save(a)

\* tox is killed, with a last save, or the process ends without one.
Leave == /\ memory # None
         /\ memory' = None
         /\ \/ Save(memory)
            \/ UNCHANGED <<file, saved>>

\* Another version of the library comes, which cannot read the file.
Age == /\ memory = None /\ file # None
       /\ file' = [readable |-> FALSE, account |-> file.account]
       /\ UNCHANGED <<memory, saved>>

Next == \/ Resume \/ Leave \/ Age
        \/ \E a \in Accounts : SetOut(a) \/ Change(a)

Spec == Init /\ [][Next]_vars
=============================================================================
