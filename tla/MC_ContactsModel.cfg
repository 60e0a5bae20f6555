SPECIFICATION Spec
CHECK_DEADLOCK FALSE
CONSTANTS
  k1 = k1
  k2 = k2
  k3 = k3
  Keys = {k1, k2, k3}
  Bytes <- MCBytes
  Strings <- MCStrings
  FromUtf8 <- MCFromUtf8
  NoBytes = "0 bytes"
  Empty = ""
  MaxFriends = 3
  None = None
SYMMETRY KeySymmetry
INVARIANTS
  TypeOK
  RowsMirrorCore
  ShownIsCurrent
