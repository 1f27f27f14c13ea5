SPECIFICATION Spec
CONSTANTS
  c1 = c1
  c2 = c2
  c3 = c3
  u1 = u1
  u2 = u2
  d1 = d1
  d2 = d2
  Conn <- ThreeConns
  NoConn = NoConn
  User <- OneUser
  NoUser = NoUser
  Digest <- TwoDigests
  NoDigest = NoDigest
  MAX_CLIENTS = 2
  MaxTime = 2
  DbMayFail = TRUE
  Input <- AllInputs
SYMMETRY Interchangeable
INVARIANTS TypeOK OneActiveRow ActiveSlotHasThread CreatedMeansMine SlotNamesItsSession
PROPERTIES EndedForGood
CHECK_DEADLOCK FALSE
