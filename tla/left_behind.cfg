SPECIFICATION FairSpec
CONSTANTS
  u1 = u1
  u2 = u2
  User <- TwoUsers
  NoUser = NoUser
  Score = {0}
  NoScore = NoScore
  MaxTime = 1
  IdReuse = FALSE
  DbMayFail = FALSE
  Buffer = 4
  Input <- StartOnly
PROPERTIES ParticipantsReachExam
CHECK_DEADLOCK FALSE
