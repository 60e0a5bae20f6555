CONSTANTS
    SizeRange = 16
    MaxName = 4
    MaxStatus = 3
    TypedTexts <- MC_TypedTexts
    OldStrings <- MC_OldStrings
SPECIFICATION Spec
INVARIANTS
    TypeOK
    FieldsShowAccount
    FieldsHoldAll
PROPERTIES
    SaveTakesTyped
    SavingUneditedKeeps
