------------------------------ MODULE Settings ------------------------------
(***************************************************************************)
(* The settings page: two text fields, which show the user's own name and  *)
(* status message, are edited, saved or given up; and the two setters of   *)
(* the backend, whose signals write into the fields again.                 *)
(*                                                                         *)
(* The page is the only one to change name and status message.  Their file *)
(* is in ToxBackend.tla, where SaveSettings is the same save action.       *)
(***************************************************************************)
EXTENDS CString

CONSTANTS
    MaxName,        \* TOX_MAX_NAME_LENGTH, of bytes and in the field of units
    MaxStatus,      \* TOX_MAX_STATUSMESSAGE_LENGTH
    TypedTexts,     \* what the user may put into a field
    OldStrings      \* what the account may have of the time before

\* The texts of the fields fit in a CString.
ASSUME MaxAssumption == /\ MaxName \in Nat \ {0} /\ MaxStatus \in Nat \ {0}
                        /\ 3 * MaxName < SizeRange
                        /\ 3 * MaxStatus < SizeRange
ASSUME TextsAssumption == /\ TypedTexts \subseteq Seq(Chars)
                          /\ OldStrings \subseteq String

VARIABLES
    page,    \* "settings" or "other": whether the page is the current one
    name,    \* the user's name, as tox has it
    status,  \* the user's status message, as tox has it
    fields   \* the texts of userNameTextField and statusMessageTextField

vars == <<page, name, status, fields>>

TypeOK ==
    /\ page \in {"settings", "other"}
    /\ name \in String /\ StringSize(name) <= MaxName
    /\ status \in String /\ StringSize(status) <= MaxStatus
    /\ fields \in [name : Seq(Chars), status : Seq(Chars)]
    /\ Length(fields.name) <= MaxName
    /\ Length(fields.status) <= MaxStatus

\* Mutant of Field: it is limited in bytes.
FieldOfBytes(text, max) == Beginning(Width, text, max)

\* A text field keeps maximumLength units of a text, the last of which may be
\* half of a pair.
Field(text, max) ==
    LET kept == Beginning(Units, text, max)
    IN  IF kept # text /\ Length(kept) < max THEN Append(kept, "half") ELSE kept

\* What the fields show of a name and a status message.
NameField(n)   == Field(ToQString(n), MaxName)
StatusField(m) == Field(ToQString(m), MaxStatus)

\* Component.onCompleted and updateLabels.
UpdateLabels(n, m) == [name |-> NameField(n), status |-> StatusField(m)]

\* tox has the defaults, or what it found in the file: any name and message,
\* an empty name too.
Init ==
    /\ page = "other"
    /\ name \in {s \in OldStrings : StringSize(s) <= MaxName}
    /\ status \in {s \in OldStrings : StringSize(s) <= MaxStatus}
    /\ fields = UpdateLabels(name, status)

-----------------------------------------------------------------------------
(* The setters                                                             *)

AtMost(n, max) == IF n <= max THEN n ELSE max

\* The beginning of a text that a setter passes to tox.
Sent(text, max) == Bytes(ToUtf8(text), AtMost(Size(text), max))

\* setUserName: tox_set_name refuses an empty name.
NameAfter(text) == IF Size(text) = 0 THEN name ELSE Sent(text, MaxName)

\* setStatusMessage.
StatusAfter(text) == Sent(text, MaxStatus)

\* Mutants of OnUserNameChanged: setUserName emits its signal only if tox has
\* another name now; the handler updates both fields.
OnlyWhenChanged(f, n, m) == IF n = name THEN f ELSE [f EXCEPT !.name = NameField(n)]
OnAnyChanged(f, n, m)    == UpdateLabels(n, m)

\* The handlers of the signals, with n and m what tox has.
OnUserNameChanged(f, n, m)      == [f EXCEPT !.name = NameField(n)]
OnStatusMessageChanged(f, n, m) == [f EXCEPT !.status = StatusField(m)]

-----------------------------------------------------------------------------
(* The page                                                                *)

Open ==
    /\ page = "other"
    /\ page' = "settings"
    /\ UNCHANGED <<name, status, fields>>

\* Typing or pasting a text, of which the field keeps what it can.
TypeName(text) ==
    /\ page = "settings"
    /\ fields' = [fields EXCEPT !.name = Field(text, MaxName)]
    /\ UNCHANGED <<page, name, status>>

TypeStatus(text) ==
    /\ page = "settings"
    /\ fields' = [fields EXCEPT !.status = Field(text, MaxStatus)]
    /\ UNCHANGED <<page, name, status>>

\* saveAction: setUserName with its signal, then setStatusMessage with what
\* is in the other field by then, then pop.
Save ==
    LET n  == NameAfter(fields.name)
        f  == OnUserNameChanged(fields, n, status)
        m  == StatusAfter(f.status)
    IN  /\ page = "settings"
        /\ name' = n
        /\ status' = m
        /\ fields' = OnStatusMessageChanged(f, n, m)
        /\ page' = "other"

\* cancelAction.
Cancel ==
    /\ page = "settings"
    /\ fields' = UpdateLabels(name, status)
    /\ page' = "other"
    /\ UNCHANGED <<name, status>>

Next == \/ Open \/ Save \/ Cancel
        \/ \E text \in TypedTexts : TypeName(text) \/ TypeStatus(text)

Spec == Init /\ [][Next]_vars

-----------------------------------------------------------------------------
(* Properties                                                              *)

\* A page not being edited shows what tox has, in whatever way it was left:
\* an edit that was given up or refused has been taken back.
FieldsShowAccount ==
    page = "other" => fields = UpdateLabels(name, status)

\* The fields' limits cut nothing of what toString gives of tox's strings: an
\* own name of 128 bytes fits a field of 128 units, with a replacement for each
\* byte of a cut end.  (toString itself leaves out a byte order mark at the
\* beginning.)
FieldsHoldAll == page = "other" => /\ fields.name = ToQString(name)
                                   /\ fields.status = ToQString(status)

\* s is what tox can keep of a text: all of it, or `max` bytes of it.
Keeps(s, text, max) ==
    /\ Len(s.chars) <= Len(text) /\ s.chars = SubSeq(text, 1, Len(s.chars))
    /\ IF Utf8Size(text) <= max THEN s = Whole(text)
       ELSE /\ StringSize(s) = max
            /\ s.cut < Width[text[Len(s.chars) + 1]]

\* Saving takes both texts as the fields had them, though the signal of the
\* first setter writes into the fields before the second one is read.  Only
\* half a pair, which a field's limit may leave at the end, becomes a question
\* mark.
SaveTakesTyped ==
    [][Save => /\ IF fields.name = <<>> THEN UNCHANGED name
                  ELSE Keeps(name', ToUtf8(fields.name), MaxName)
               /\ Keeps(status', ToUtf8(fields.status), MaxStatus)]_vars

\* Opening the page and saving what it shows changes nothing of a name and a
\* status message that are UTF-8, but that they lose a byte order mark at their
\* beginning, the name if there is more to it.
SavingUneditedKeeps ==
    [][(Save /\ fields = UpdateLabels(name, status)
             /\ IsUtf8(name) /\ IsUtf8(status))
        => /\ name' = IF Unmarked(name.chars) = <<>> THEN name
                      ELSE Whole(Unmarked(name.chars))
           /\ status' = Whole(Unmarked(status.chars))]_vars
=============================================================================
