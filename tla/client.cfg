SPECIFICATION Spec
CONSTANTS
  u1 = u1
  u2 = u2
  User <- TwoUsers
  NoUser = NoUser
  Score = {0}
  NoScore = NoScore
  MaxTime = 2
  IdReuse = FALSE
  DbMayFail = FALSE
  Buffer = 3
  Input <- TwoRoomInputs
SYMMETRY Interchangeable
INVARIANTS TypeOK CreatorMenuIsCreators NobodyWaitsInVain
