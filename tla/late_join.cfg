SPECIFICATION Spec
CONSTANTS
  c1 = c1
  c2 = c2
  c3 = c3
  u1 = u1
  u2 = u2
  u3 = u3
  u4 = u4
  Client <- TwoClients
  User <- TwoUsers
  NoUser = NoUser
  Score = {0}
  NoScore = NoScore
  MaxTime = 1
  MAX_PARTICIPANTS = 2
  IdReuse = FALSE
  DbMayFail = FALSE
  SharedLogin = FALSE
  Input <- NoCrash
PROPERTIES JoinOnlyBeforeStart
CHECK_DEADLOCK FALSE
