SPECIFICATION Spec
CONSTANTS
  c1 = c1
  c2 = c2
  c3 = c3
  u1 = u1
  u2 = u2
  d1 = d1
  d2 = d2
  Conn <- TwoConns
  NoConn = NoConn
  User <- OneUser
  NoUser = NoUser
  Digest <- OneDigest
  NoDigest = NoDigest
  MAX_CLIENTS = 2
  MaxTime = 1
  DbMayFail = FALSE
  Input <- NoCrash
INVARIANTS CleanupEndsSession
CHECK_DEADLOCK FALSE
