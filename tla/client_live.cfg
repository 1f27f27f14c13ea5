SPECIFICATION FairSpec
CONSTANTS
  u1 = u1
  u2 = u2
  User <- TwoUsers
  NoUser = NoUser
  Score = {0}
  NoScore = NoScore
  MaxTime = 1
  IdReuse = FALSE
  DbMayFail = FALSE
  Buffer = 1
  Input <- AskAndEnd
PROPERTIES AppAnswered
CHECK_DEADLOCK FALSE
