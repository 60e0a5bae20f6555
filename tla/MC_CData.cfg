CONSTANTS
    KeySize = 1
    AddressSize = 2
    ValidAddresses <- MC_ValidAddresses
SPECIFICATION Spec
INVARIANTS
    TypeOK
    ReportNamesFriend
    WrittenFits
    CheckFindsFriend
PROPERTY RequesterIsAdded
