SPECIFICATION Spec
CONSTANTS
  t1 = t1
  t2 = t2
  Symbol <- SomeSymbols
  Thread <- TwoThreads
  Command <- TwoCommands
  Typed <- TwoTyped
  Key <- TwoQuestions
  RoomName <- TheRoom
  Leftover <- Stray
  MAX_PARAMS = 2
INVARIANTS TypeOK FieldsArrive ScoreIsRight
