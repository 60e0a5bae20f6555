CONSTANTS
    k1 = k1
    k2 = k2
    Ids = {id}
    Keys = {k1, k2}
    OwnKey = own
    Other = other
    Nospams = {n1}
    None = None
    Bytes = {"0 bytes"}
    Strings = {""}
    NoBytes = "0 bytes"
    Empty = ""
    FromUtf8 <- MC_FromUtf8
    MaxFriends = 2
SPECIFICATION Spec
SYMMETRY KeySymmetry
INVARIANTS
    TypeOK
    OneFriendList
    NoRequestOfContact
    SuccessIsListed
    SuccessIsSaved
    KeptFriendsReturn
