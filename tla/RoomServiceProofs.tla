-------------------------- MODULE RoomServiceProofs --------------------------
(***************************************************************************)
(* What holds of RoomService for every set of connections and users, every *)
(* limit and every bound on the clock.                                     *)
(***************************************************************************)
EXTENDS RoomService, RoomStoreProofs, TLAPS

\* A thread that is handling a command is authenticated (check_authentication
\* opens every handler and only the thread itself logs out) and names a room.
BusyOK == \A c \in Client : pc[c] # "idle" => arg[c] \in RoomId /\ user[c] \in User

\* The part of the type invariant about threads and sessions.
ThreadTypeOK ==
  /\ now \in RoomId \cup {NoRoom}
  /\ pc \in [Client -> Label]
  /\ arg \in [Client -> RoomId \cup {NoRoom}]
  /\ user \in [Client -> User \cup {NoUser}]
  /\ current_room \in [Client -> RoomId \cup {NoRoom}]
  /\ told \in [Client -> SUBSET RoomId]

TypeInv == StoreTypeOK /\ ThreadTypeOK /\ BusyOK

----------------------------------------------------------------------------
(* The thread's own variables. *)

\* A command that begins leaves the thread busy with a room.
LEMMA BeginType ==
  ASSUME ThreadTypeOK, BusyOK, NEW c \in Client, NEW cmd, NEW r \in RoomId, NEW l \in Label,
         Begin(c, cmd, r, l), UNCHANGED <<now, sessionVars>>
  PROVE  ThreadTypeOK' /\ BusyOK'
BY DEF ThreadTypeOK, BusyOK, Begin, sessionVars

\* A call that only moves its thread keeps the types.
LEMMA GotoType ==
  ASSUME ThreadTypeOK, BusyOK, NEW c \in Client, NEW l \in Label, pc[c] # "idle",
         Goto(c, l), UNCHANGED <<now, sessionVars>>
  PROVE  ThreadTypeOK' /\ BusyOK'
BY DEF ThreadTypeOK, BusyOK, Goto, sessionVars

\* A call that ends its handler keeps the types.
LEMMA ReturnType ==
  ASSUME ThreadTypeOK, BusyOK, NEW c \in Client, Return(c), UNCHANGED <<now, sessionVars>>
  PROVE  ThreadTypeOK' /\ BusyOK'
BY DEF ThreadTypeOK, BusyOK, Return, sessionVars, NoRoom, Label

\* A call that goes on, or fails and ends its handler, keeps the types.
LEMMA ProceedType ==
  ASSUME ThreadTypeOK, BusyOK, NEW c \in Client, NEW ok \in BOOLEAN, NEW l \in Label,
         pc[c] # "idle", Proceed(c, ok, l), UNCHANGED <<now, sessionVars>>
  PROVE  ThreadTypeOK' /\ BusyOK'
BY GotoType, ReturnType DEF Proceed

\* A thread enters the room it names, or none.
LEMMA EnterType ==
  ASSUME ThreadTypeOK, BusyOK, NEW c \in Client, NEW r \in RoomId \cup {NoRoom},
         pc[c] # "idle", SetCurrentRoom(c, r), UNCHANGED now,
         Return(c) \/ \E l \in Label : Goto(c, l)
  PROVE  ThreadTypeOK' /\ BusyOK'
BY DEF ThreadTypeOK, BusyOK, SetCurrentRoom, Return, Goto, NoRoom, Label
----------------------------------------------------------------------------
(* Type correctness. *)

\* Every command keeps the type invariant.
LEMMA CommandType ==
  ASSUME TypeInv, NEW c \in Client, Command(c)
  PROVE  TypeInv'
<1>1. StoreTypeOK /\ ThreadTypeOK /\ BusyOK
  BY DEF TypeInv
<1>2. CASE CreateId(c)
  <2>1. UNCHANGED storeVars /\ UNCHANGED <<now, sessionVars>>
    BY <1>2 DEF CreateId
  <2>2. now \in RoomId /\ Begin(c, "CREATE_ROOM", now, "create_insert")
    BY <1>1, <1>2 DEF CreateId, ThreadTypeOK
  <2>3. "create_insert" \in Label
    BY DEF Label, CreateLabel
  <2> QED
    BY <1>1, <2>1, <2>2, <2>3, BeginType, SameStoreType DEF TypeInv
<1>3. ASSUME NEW r \in RoomId, JoinStatus(c, r) PROVE TypeInv'
  <2>1. UNCHANGED storeVars /\ UNCHANGED <<now, sessionVars>>
    BY <1>3 DEF JoinStatus
  <2>2. Begin(c, "JOIN_ROOM", r, "join_count")
    BY <1>3 DEF JoinStatus
  <2>3. "join_count" \in Label
    BY DEF Label, JoinLabel
  <2> QED
    BY <1>1, <2>1, <2>2, <2>3, BeginType, SameStoreType DEF TypeInv
<1>4. ASSUME NEW r \in RoomId, LeaveParticipant(c, r) PROVE TypeInv'
  <2>1. UNCHANGED storeVars /\ UNCHANGED <<now, sessionVars>>
    BY <1>4 DEF LeaveParticipant
  <2>2. Begin(c, "LEAVE_ROOM", r, "leave_creator")
    BY <1>4 DEF LeaveParticipant
  <2>3. "leave_creator" \in Label
    BY DEF Label, LeaveLabel
  <2> QED
    BY <1>1, <2>1, <2>2, <2>3, BeginType, SameStoreType DEF TypeInv
<1>5. ASSUME NEW r \in RoomId, StartStatus(c, r) PROVE TypeInv'
  <2>1. UNCHANGED storeVars /\ UNCHANGED <<now, sessionVars>>
    BY <1>5 DEF StartStatus
  <2>2. Begin(c, "START_EXAM", r, "start_creator")
    BY <1>5 DEF StartStatus
  <2>3. "start_creator" \in Label
    BY DEF Label, StartLabel
  <2> QED
    BY <1>1, <2>1, <2>2, <2>3, BeginType, SameStoreType DEF TypeInv
<1>6. ASSUME NEW r \in RoomId, GetStatus(c, r) PROVE TypeInv'
  <2>1. UNCHANGED storeVars /\ UNCHANGED <<now, sessionVars>>
    BY <1>6 DEF GetStatus
  <2>2. Begin(c, "GET_EXAM", r, "get_participant")
    BY <1>6 DEF GetStatus
  <2>3. "get_participant" \in Label
    BY DEF Label, GetLabel
  <2> QED
    BY <1>1, <2>1, <2>2, <2>3, BeginType, SameStoreType DEF TypeInv
<1>7. ASSUME NEW r \in RoomId, SubmitStatus(c, r) PROVE TypeInv'
  <2>1. UNCHANGED storeVars /\ UNCHANGED <<now, sessionVars>>
    BY <1>7 DEF SubmitStatus
  <2>2. Begin(c, "SUBMIT_EXAM", r, "submit_participant")
    BY <1>7 DEF SubmitStatus
  <2>3. "submit_participant" \in Label
    BY DEF Label, SubmitLabel
  <2> QED
    BY <1>1, <2>1, <2>2, <2>3, BeginType, SameStoreType DEF TypeInv
<1>8. ASSUME NEW r \in RoomId, ViewStatus(c, r) PROVE TypeInv'
  <2>1. UNCHANGED storeVars /\ UNCHANGED <<now, sessionVars>>
    BY <1>8 DEF ViewStatus
  <2>2. Begin(c, "VIEW_RESULT", r, "view_leaderboard")
    BY <1>8 DEF ViewStatus
  <2>3. "view_leaderboard" \in Label
    BY DEF Label, ViewLabel
  <2> QED
    BY <1>1, <2>1, <2>2, <2>3, BeginType, SameStoreType DEF TypeInv
<1>9. ASSUME NEW u \in User, Login(c, u) PROVE TypeInv'
  <2>1. StoreTypeOK'
    BY <1>1, <1>9, SameStoreType DEF Login
  <2>2. ThreadTypeOK' /\ BusyOK'
    BY <1>1, <1>9 DEF Login, ThreadTypeOK, BusyOK, threadVars
  <2> QED
    BY <2>1, <2>2 DEF TypeInv
<1>10. CASE Logout(c)
  <2>1. StoreTypeOK'
    BY <1>1, <1>10, SameStoreType DEF Logout
  <2>2. ThreadTypeOK' /\ BusyOK'
    BY <1>1, <1>10 DEF Logout, ThreadTypeOK, BusyOK, threadVars
  <2> QED
    BY <2>1, <2>2 DEF TypeInv
<1>11. CASE Disconnect(c)
  <2>1. StoreTypeOK'
    BY <1>1, <1>11, SameStoreType DEF Disconnect
  <2>2. ThreadTypeOK' /\ BusyOK'
    BY <1>1, <1>11 DEF Disconnect, ThreadTypeOK, BusyOK, threadVars
  <2> QED
    BY <2>1, <2>2 DEF TypeInv
<1> QED
  BY <1>2, <1>3, <1>4, <1>5, <1>6, <1>7, <1>8, <1>9, <1>10, <1>11 DEF Command

\* Every call of a handler keeps the type invariant.
LEMMA ContinueType ==
  ASSUME TypeInv, NEW c \in Client, Continue(c)
  PROVE  TypeInv'
<1>1. StoreTypeOK /\ ThreadTypeOK /\ BusyOK
  BY DEF TypeInv
<1>2. CASE CreateInsert(c)
  <2>1. pc[c] # "idle" /\ arg[c] \in RoomId /\ user[c] \in User
    BY <1>1, <1>2 DEF CreateInsert, At, BusyOK
  <2>2. PICK ok \in BOOLEAN : db_create_room(arg[c], user[c], ok) /\ Proceed(c, ok, "create_enter")
    BY <1>2 DEF CreateInsert
  <2>3. UNCHANGED <<now, sessionVars>> /\ "create_enter" \in Label
    BY <1>2 DEF CreateInsert, Label, CreateLabel
  <2> QED
    BY <1>1, <2>1, <2>2, <2>3, CreateRoomType, ProceedType DEF TypeInv
<1>3. CASE CreateEnter(c)
  <2>1. pc[c] # "idle" /\ arg[c] \in RoomId /\ user[c] \in User
    BY <1>1, <1>3 DEF CreateEnter, At, BusyOK
  <2>2. StoreTypeOK'
    BY <1>1, <1>3, SameStoreType DEF CreateEnter
  <2> QED
    BY <1>1, <1>3, <2>1, <2>2, EnterType DEF CreateEnter, TypeInv
<1>4. CASE JoinCount(c)
  <2>1. pc[c] # "idle" /\ arg[c] \in RoomId /\ user[c] \in User
    BY <1>1, <1>4 DEF JoinCount, At, BusyOK
  <2>2. UNCHANGED storeVars /\ UNCHANGED <<now, sessionVars>>
    BY <1>4 DEF JoinCount
  <2>3. "join_insert" \in Label
    BY DEF Label, JoinLabel
  <2>4. Goto(c, "join_insert") \/ Return(c)
    BY <1>4 DEF JoinCount, Proceed
  <2> QED
    BY <1>1, <2>1, <2>2, <2>3, <2>4, SameStoreType, GotoType, ReturnType DEF TypeInv
<1>5. CASE JoinInsert(c)
  <2>1. pc[c] # "idle" /\ arg[c] \in RoomId /\ user[c] \in User
    BY <1>1, <1>5 DEF JoinInsert, At, BusyOK
  <2>2. PICK ok \in BOOLEAN : db_join_room(arg[c], user[c], ok) /\ Proceed(c, ok, "join_enter")
    BY <1>5 DEF JoinInsert
  <2>3. UNCHANGED <<now, sessionVars>> /\ "join_enter" \in Label
    BY <1>5 DEF JoinInsert, Label, JoinLabel
  <2> QED
    BY <1>1, <2>1, <2>2, <2>3, JoinRoomType, ProceedType DEF TypeInv
<1>6. CASE JoinEnter(c)
  <2>1. pc[c] # "idle" /\ arg[c] \in RoomId /\ user[c] \in User
    BY <1>1, <1>6 DEF JoinEnter, At, BusyOK
  <2>2. StoreTypeOK'
    BY <1>1, <1>6, SameStoreType DEF JoinEnter
  <2> QED
    BY <1>1, <1>6, <2>1, <2>2, EnterType DEF JoinEnter, TypeInv
<1>7. CASE LeaveCreator(c)
  <2>1. pc[c] # "idle" /\ arg[c] \in RoomId /\ user[c] \in User
    BY <1>1, <1>7 DEF LeaveCreator, At, BusyOK
  <2>2. UNCHANGED storeVars /\ UNCHANGED <<now, sessionVars>>
    BY <1>7 DEF LeaveCreator
  <2>3. \E l \in Label : Goto(c, l)
    BY <1>7 DEF LeaveCreator, Label, LeaveLabel
  <2> QED
    BY <1>1, <2>1, <2>2, <2>3, SameStoreType, GotoType DEF TypeInv
<1>8. CASE LeaveDelete(c)
  <2>1. pc[c] # "idle" /\ arg[c] \in RoomId /\ user[c] \in User
    BY <1>1, <1>8 DEF LeaveDelete, At, BusyOK
  <2>2. PICK ok \in BOOLEAN : db_delete_room(arg[c], ok) /\ Proceed(c, ok, "leave_exit")
    BY <1>8 DEF LeaveDelete
  <2>3. UNCHANGED <<now, sessionVars>> /\ "leave_exit" \in Label
    BY <1>8 DEF LeaveDelete, Label, LeaveLabel
  <2> QED
    BY <1>1, <2>1, <2>2, <2>3, DeleteRoomType, ProceedType DEF TypeInv
<1>9. CASE LeaveRemove(c)
  <2>1. pc[c] # "idle" /\ arg[c] \in RoomId /\ user[c] \in User
    BY <1>1, <1>9 DEF LeaveRemove, At, BusyOK
  <2>2. PICK ok \in BOOLEAN : db_leave_room(arg[c], user[c], ok) /\ Proceed(c, ok, "leave_exit")
    BY <1>9 DEF LeaveRemove
  <2>3. UNCHANGED <<now, sessionVars>> /\ "leave_exit" \in Label
    BY <1>9 DEF LeaveRemove, Label, LeaveLabel
  <2> QED
    BY <1>1, <2>1, <2>2, <2>3, LeaveRoomType, ProceedType DEF TypeInv
<1>10. CASE LeaveExit(c)
  <2>1. pc[c] # "idle" /\ arg[c] \in RoomId /\ user[c] \in User
    BY <1>1, <1>10 DEF LeaveExit, At, BusyOK
  <2>2. StoreTypeOK'
    BY <1>1, <1>10, SameStoreType DEF LeaveExit
  <2> QED
    BY <1>1, <1>10, <2>1, <2>2, EnterType DEF LeaveExit, TypeInv
<1>11. CASE StartCreator(c)
  <2>1. pc[c] # "idle" /\ arg[c] \in RoomId /\ user[c] \in User
    BY <1>1, <1>11 DEF StartCreator, At, BusyOK
  <2>2. UNCHANGED storeVars /\ UNCHANGED <<now, sessionVars>>
    BY <1>11 DEF StartCreator
  <2>3. "start_update" \in Label
    BY DEF Label, StartLabel
  <2>4. Goto(c, "start_update") \/ Return(c)
    BY <1>11 DEF StartCreator, Proceed
  <2> QED
    BY <1>1, <2>1, <2>2, <2>3, <2>4, SameStoreType, GotoType, ReturnType DEF TypeInv
<1>12. CASE StartUpdate(c)
  <2>1. pc[c] # "idle" /\ arg[c] \in RoomId /\ user[c] \in User
    BY <1>1, <1>12 DEF StartUpdate, At, BusyOK
  <2>2. PICK ok \in BOOLEAN : SetStatus(arg[c], "IN_PROGRESS", ok) /\ Proceed(c, ok, "start_broadcast")
    BY <1>12 DEF StartUpdate, db_start_room
  <2>3. UNCHANGED <<now, sessionVars>> /\ "start_broadcast" \in Label
    BY <1>12 DEF StartUpdate, Label, StartLabel
  <2>4. "IN_PROGRESS" \in RowStatus
    BY DEF RowStatus, Started
  <2> QED
    BY <1>1, <2>1, <2>2, <2>3, <2>4, SetStatusType, ProceedType DEF TypeInv
<1>13. CASE StartBroadcast(c)
  <2>1. pc[c] # "idle" /\ arg[c] \in RoomId /\ user[c] \in User
    BY <1>1, <1>13 DEF StartBroadcast, At, BusyOK
  <2>2. StoreTypeOK'
    BY <1>1, <1>13, SameStoreType DEF StartBroadcast
  <2> QED
    BY <1>1, <1>13, <2>1, <2>2
       DEF StartBroadcast, Return, TypeInv, ThreadTypeOK, BusyOK, Label
<1>14. CASE GetParticipant(c)
  <2>1. pc[c] # "idle" /\ arg[c] \in RoomId /\ user[c] \in User
    BY <1>1, <1>14 DEF GetParticipant, At, BusyOK
  <2>2. UNCHANGED storeVars /\ UNCHANGED <<now, sessionVars>>
    BY <1>14 DEF GetParticipant
  <2>3. \E l \in Label : Goto(c, l)
    BY <1>14 DEF GetParticipant, Label, GetLabel
  <2> QED
    BY <1>1, <2>1, <2>2, <2>3, SameStoreType, GotoType DEF TypeInv
<1>15. CASE GetCreator(c)
  <2>1. pc[c] # "idle" /\ arg[c] \in RoomId /\ user[c] \in User
    BY <1>1, <1>15 DEF GetCreator, At, BusyOK
  <2>2. UNCHANGED storeVars /\ UNCHANGED <<now, sessionVars>>
    BY <1>15 DEF GetCreator
  <2>3. "get_questions" \in Label
    BY DEF Label, GetLabel
  <2>4. Goto(c, "get_questions") \/ Return(c)
    BY <1>15 DEF GetCreator, Proceed
  <2> QED
    BY <1>1, <2>1, <2>2, <2>3, <2>4, SameStoreType, GotoType, ReturnType DEF TypeInv
<1>16. CASE GetQuestions(c)
  <2>1. pc[c] # "idle" /\ arg[c] \in RoomId /\ user[c] \in User
    BY <1>1, <1>16 DEF GetQuestions, At, BusyOK
  <2>2. UNCHANGED storeVars /\ UNCHANGED <<now, sessionVars>>
    BY <1>16 DEF GetQuestions
  <2> QED
    BY <1>1, <1>16, <2>2, SameStoreType, ReturnType DEF GetQuestions, TypeInv
<1>17. CASE SubmitParticipant(c)
  <2>1. pc[c] # "idle" /\ arg[c] \in RoomId /\ user[c] \in User
    BY <1>1, <1>17 DEF SubmitParticipant, At, BusyOK
  <2>2. UNCHANGED storeVars /\ UNCHANGED <<now, sessionVars>>
    BY <1>17 DEF SubmitParticipant
  <2>3. \E l \in Label : Goto(c, l)
    BY <1>17 DEF SubmitParticipant, Label, SubmitLabel
  <2> QED
    BY <1>1, <2>1, <2>2, <2>3, SameStoreType, GotoType DEF TypeInv
<1>18. CASE SubmitCreator(c)
  <2>1. pc[c] # "idle" /\ arg[c] \in RoomId /\ user[c] \in User
    BY <1>1, <1>18 DEF SubmitCreator, At, BusyOK
  <2>2. UNCHANGED storeVars /\ UNCHANGED <<now, sessionVars>>
    BY <1>18 DEF SubmitCreator
  <2>3. "submit_check" \in Label
    BY DEF Label, SubmitLabel
  <2>4. Goto(c, "submit_check") \/ Return(c)
    BY <1>18 DEF SubmitCreator, Proceed
  <2> QED
    BY <1>1, <2>1, <2>2, <2>3, <2>4, SameStoreType, GotoType, ReturnType DEF TypeInv
<1>19. CASE SubmitCheck(c)
  <2>1. pc[c] # "idle" /\ arg[c] \in RoomId /\ user[c] \in User
    BY <1>1, <1>19 DEF SubmitCheck, At, BusyOK
  <2>2. UNCHANGED storeVars /\ UNCHANGED <<now, sessionVars>>
    BY <1>19 DEF SubmitCheck
  <2>3. "submit_insert" \in Label
    BY DEF Label, SubmitLabel
  <2>4. Goto(c, "submit_insert") \/ Return(c)
    BY <1>19 DEF SubmitCheck, Proceed
  <2> QED
    BY <1>1, <2>1, <2>2, <2>3, <2>4, SameStoreType, GotoType, ReturnType DEF TypeInv
<1>20. CASE SubmitInsert(c)
  <2>1. pc[c] # "idle" /\ arg[c] \in RoomId /\ user[c] \in User
    BY <1>1, <1>20 DEF SubmitInsert, At, BusyOK
  <2>2. UNCHANGED <<now, sessionVars>> /\ "submit_exit" \in Label
    BY <1>20 DEF SubmitInsert, Label, SubmitLabel
  <2>3. CASE UNCHANGED storeVars /\ Return(c)
    BY <1>1, <2>2, <2>3, SameStoreType, ReturnType DEF TypeInv
  <2>4. ASSUME NEW s \in Score, NEW ok \in BOOLEAN,
               db_submit_exam(arg[c], user[c], s, ok), Proceed(c, ok, "submit_exit")
        PROVE  TypeInv'
    BY <1>1, <2>1, <2>2, <2>4, SubmitExamType, ProceedType DEF TypeInv
  <2> QED
    BY <1>20, <2>3, <2>4 DEF SubmitInsert
<1>21. CASE SubmitExit(c)
  <2>1. pc[c] # "idle" /\ arg[c] \in RoomId /\ user[c] \in User
    BY <1>1, <1>21 DEF SubmitExit, At, BusyOK
  <2>2. StoreTypeOK' /\ "submit_count" \in Label
    BY <1>1, <1>21, SameStoreType DEF SubmitExit, Label, SubmitLabel
  <2> QED
    BY <1>1, <1>21, <2>1, <2>2, EnterType DEF SubmitExit, TypeInv
<1>22. CASE SubmitCount(c)
  <2>1. pc[c] # "idle" /\ arg[c] \in RoomId /\ user[c] \in User
    BY <1>1, <1>22 DEF SubmitCount, At, BusyOK
  <2>2. UNCHANGED storeVars /\ UNCHANGED <<now, sessionVars>>
    BY <1>22 DEF SubmitCount
  <2>3. "submit_finish" \in Label
    BY DEF Label, SubmitLabel
  <2>4. Goto(c, "submit_finish") \/ Return(c)
    BY <1>22 DEF SubmitCount, Proceed
  <2> QED
    BY <1>1, <2>1, <2>2, <2>3, <2>4, SameStoreType, GotoType, ReturnType DEF TypeInv
<1>23. CASE SubmitFinish(c)
  <2>1. pc[c] # "idle" /\ arg[c] \in RoomId /\ user[c] \in User
    BY <1>1, <1>23 DEF SubmitFinish, At, BusyOK
  <2>2. PICK ok \in BOOLEAN : SetStatus(arg[c], "FINISHED", ok)
    BY <1>23 DEF SubmitFinish, db_finish_room
  <2>3. Return(c) /\ UNCHANGED <<now, sessionVars>> /\ "FINISHED" \in RowStatus
    BY <1>23 DEF SubmitFinish, RowStatus, Started
  <2> QED
    BY <1>1, <2>1, <2>2, <2>3, SetStatusType, ReturnType DEF TypeInv
<1>24. CASE ViewLeaderboard(c)
  <2>1. pc[c] # "idle" /\ arg[c] \in RoomId /\ user[c] \in User
    BY <1>1, <1>24 DEF ViewLeaderboard, At, BusyOK
  <2>2. UNCHANGED storeVars /\ UNCHANGED <<now, sessionVars>>
    BY <1>24 DEF ViewLeaderboard
  <2> QED
    BY <1>1, <1>24, <2>2, SameStoreType, ReturnType DEF ViewLeaderboard, TypeInv
<1> QED
  BY <1>2, <1>3, <1>4, <1>5, <1>6, <1>7, <1>8, <1>9, <1>10, <1>11, <1>12, <1>13, <1>14, <1>15, <1>16, <1>17, <1>18, <1>19, <1>20, <1>21, <1>22, <1>23, <1>24 DEF Continue

\* Every step keeps the type invariant.
LEMMA TypeStep ==
  ASSUME TypeInv, [Next]_vars
  PROVE  TypeInv'
<1>1. ASSUME NEW c \in Client, Command(c) PROVE TypeInv'
  BY <1>1, CommandType
<1>2. ASSUME NEW c \in Client, Continue(c) PROVE TypeInv'
  BY <1>2, ContinueType
<1>3. CASE Crash
  <2>1. StoreTypeOK'
    BY <1>3, SameStoreType DEF Crash, TypeInv
  <2> QED
    BY <1>3, <2>1 DEF Crash, TypeInv, ThreadTypeOK, BusyOK, Label, NoRoom
<1>4. CASE Tick
  <2>1. StoreTypeOK'
    BY <1>4, SameStoreType DEF Tick, TypeInv
  <2>2. now' \in RoomId
    BY <1>4, StoreAssumption DEF Tick, TypeInv, ThreadTypeOK, RoomId, NoRoom
  <2> QED
    BY <1>4, <2>1, <2>2
       DEF Tick, TypeInv, ThreadTypeOK, BusyOK, threadVars, sessionVars
<1>5. CASE UNCHANGED vars
  BY <1>5 DEF vars, TypeInv, StoreTypeOK, ThreadTypeOK, BusyOK
<1> QED
  BY <1>1, <1>2, <1>3, <1>4, <1>5 DEF Next

\* The initial state is well typed.
LEMMA InitType == Init => TypeInv
BY DEF Init, StoreInit, TypeInv, StoreTypeOK, ThreadTypeOK, BusyOK, RoomStatus, Label,
       NoRoom

\* The type invariant of RoomService, with the fact that a busy thread is
\* authenticated and names a room.
THEOREM TypeInvariant == Spec => []TypeInv
<1>1. Init => TypeInv
  BY InitType
<1>2. TypeInv /\ [Next]_vars => TypeInv'
  BY TypeStep
<1> QED
  BY <1>1, <1>2, PTL DEF Spec

\* TypeOK, the invariant the runs check.
THEOREM TypeCorrect == Spec => []TypeOK
<1>1. TypeInv => TypeOK
  BY DEF TypeInv, ThreadTypeOK, TypeOK
<1> QED
  BY <1>1, TypeInvariant, PTL

----------------------------------------------------------------------------
(* Which steps touch the tables, and how. *)

\* The call the thread of c makes writes the tables.
Write(c) ==
  \E ok \in BOOLEAN :
    \/ pc[c] = "create_insert" /\ db_create_room(arg[c], user[c], ok)
    \/ pc[c] = "join_insert" /\ db_join_room(arg[c], user[c], ok)
    \/ pc[c] = "leave_delete" /\ db_delete_room(arg[c], ok)
    \/ pc[c] = "leave_remove" /\ db_leave_room(arg[c], user[c], ok)
    \/ pc[c] = "start_update" /\ db_start_room(arg[c], ok)
    \/ pc[c] = "submit_finish" /\ db_finish_room(arg[c], ok)
    \/ pc[c] = "submit_insert"
         /\ \E s \in Score : db_submit_exam(arg[c], user[c], s, ok)

\* A call of a handler is one of the seven that write, or changes no table.
LEMMA ContinueWrites ==
  ASSUME NEW c \in Client, Continue(c)
  PROVE  UNCHANGED storeVars \/ (Write(c) /\ pc[c] # "idle")
<1>1. CASE CreateInsert(c) \/ JoinInsert(c) \/ LeaveDelete(c) \/ LeaveRemove(c)
             \/ StartUpdate(c) \/ SubmitFinish(c)
  BY <1>1 DEF CreateInsert, JoinInsert, LeaveDelete, LeaveRemove, StartUpdate,
     SubmitFinish, Write, At
<1>2. CASE SubmitInsert(c)
  BY <1>2 DEF SubmitInsert, Write, At
<1>3. CASE CreateEnter(c) \/ JoinCount(c) \/ JoinEnter(c) \/ LeaveCreator(c)
             \/ LeaveExit(c) \/ StartCreator(c) \/ StartBroadcast(c)
  BY <1>3 DEF CreateEnter, JoinCount, JoinEnter, LeaveCreator, LeaveExit,
     StartCreator, StartBroadcast
<1>4. CASE GetParticipant(c) \/ GetCreator(c) \/ GetQuestions(c)
             \/ SubmitParticipant(c) \/ SubmitCreator(c) \/ SubmitCheck(c)
             \/ SubmitExit(c) \/ SubmitCount(c) \/ ViewLeaderboard(c)
  BY <1>4 DEF GetParticipant, GetCreator, GetQuestions, SubmitParticipant,
     SubmitCreator, SubmitCheck, SubmitExit, SubmitCount, ViewLeaderboard
<1> QED
  BY <1>1, <1>2, <1>3, <1>4 DEF Continue

\* The first call of a command only reads.
LEMMA CommandReads ==
  ASSUME NEW c \in Client, Command(c)
  PROVE  UNCHANGED storeVars
BY DEF Command, CreateId, Logout, Disconnect, Login, JoinStatus,
   LeaveParticipant, StartStatus, GetStatus, SubmitStatus, ViewStatus

\* A writing call that fails changes nothing, one that does not is one of the
\* seven.
LEMMA WriteCases ==
  ASSUME NEW c \in Client, Write(c)
  PROVE  \/ UNCHANGED storeVars
         \/ pc[c] = "create_insert" /\ db_create_room(arg[c], user[c], TRUE)
         \/ pc[c] = "join_insert" /\ db_join_room(arg[c], user[c], TRUE)
         \/ pc[c] = "leave_delete" /\ db_delete_room(arg[c], TRUE)
         \/ pc[c] = "leave_remove" /\ db_leave_room(arg[c], user[c], TRUE)
         \/ pc[c] = "start_update" /\ SetStatus(arg[c], "IN_PROGRESS", TRUE)
         \/ pc[c] = "submit_finish" /\ SetStatus(arg[c], "FINISHED", TRUE)
         \/ pc[c] = "submit_insert"
              /\ \E s \in Score : db_submit_exam(arg[c], user[c], s, TRUE)
<1> DEFINE r == arg[c]
           u == user[c]
<1>1. ASSUME NEW ok \in BOOLEAN, db_create_room(r, u, ok)
      PROVE  UNCHANGED storeVars \/ db_create_room(r, u, TRUE)
  BY <1>1 DEF db_create_room
<1>2. ASSUME NEW ok \in BOOLEAN, db_join_room(r, u, ok)
      PROVE  UNCHANGED storeVars \/ db_join_room(r, u, TRUE)
  BY <1>2 DEF db_join_room
<1>3. ASSUME NEW ok \in BOOLEAN, db_delete_room(r, ok)
      PROVE  UNCHANGED storeVars \/ db_delete_room(r, TRUE)
  BY <1>3 DEF db_delete_room
<1>4. ASSUME NEW ok \in BOOLEAN, db_leave_room(r, u, ok)
      PROVE  UNCHANGED storeVars \/ db_leave_room(r, u, TRUE)
  BY <1>4 DEF db_leave_room
<1>5. ASSUME NEW ok \in BOOLEAN, NEW s, SetStatus(r, s, ok)
      PROVE  UNCHANGED storeVars \/ SetStatus(r, s, TRUE)
  BY <1>5 DEF SetStatus
<1>6. ASSUME NEW ok \in BOOLEAN, NEW s \in Score, db_submit_exam(r, u, s, ok)
      PROVE  UNCHANGED storeVars \/ db_submit_exam(r, u, s, TRUE)
  BY <1>6 DEF db_submit_exam
<1> QED
  BY <1>1, <1>2, <1>3, <1>4, <1>5, <1>6 DEF Write, db_start_room, db_finish_room

\* Only the seven writing calls change the tables.
LEMMA StoreStep ==
  ASSUME TypeInv, [Next]_vars
  PROVE  \/ UNCHANGED storeVars
         \/ \E c \in Client : /\ arg[c] \in RoomId
                              /\ user[c] \in User
                              /\ Write(c)
<1>1. ASSUME NEW c \in Client, Command(c) PROVE UNCHANGED storeVars
  BY <1>1, CommandReads
<1>2. ASSUME NEW c \in Client, Continue(c)
      PROVE  UNCHANGED storeVars \/ (Write(c) /\ pc[c] # "idle")
  BY <1>2, ContinueWrites
<1>3. ASSUME NEW c \in Client, pc[c] # "idle"
      PROVE  arg[c] \in RoomId /\ user[c] \in User
  BY <1>3 DEF TypeInv, BusyOK
<1>4. CASE Crash \/ Tick \/ UNCHANGED vars
  BY <1>4 DEF Crash, Tick, vars, storeVars
<1> QED
  BY <1>1, <1>2, <1>3, <1>4 DEF Next

\* A result is in the table with its score, unless its room was deleted.
LEMMA WriteKeepsResults ==
  ASSUME TypeInv, NEW c \in Client, arg[c] \in RoomId, user[c] \in User, Write(c),
         NEW r \in RoomId, NEW u \in User, results[r][u] # NoScore
  PROVE  results'[r][u] = results[r][u] \/ status'[r] = "DELETED"
<1>1. status \in [RoomId -> RoomStatus] /\ results \in [RoomId -> [User -> Score \cup {NoScore}]]
  BY DEF TypeInv, StoreTypeOK
<1>2. ASSUME NEW ok \in BOOLEAN, db_delete_room(arg[c], ok)
      PROVE  results'[r][u] = results[r][u] \/ status'[r] = "DELETED"
  BY <1>1, <1>2 DEF db_delete_room, storeVars
<1>3. ASSUME NEW ok \in BOOLEAN, NEW s \in Score,
             db_submit_exam(arg[c], user[c], s, ok)
      PROVE  results'[r][u] = results[r][u]
  <2>1. CASE ok
    <3>1. results' = [results EXCEPT ![arg[c]] = [results[arg[c]] EXCEPT ![user[c]] = s]]
      BY <1>3, <2>1 DEF db_submit_exam
    <3>2. ~(arg[c] = r /\ user[c] = u)
      BY <1>3, <2>1 DEF db_submit_exam
    <3> QED
      BY <1>1, <3>1, <3>2
  <2>2. CASE ~ok
    BY <1>3, <2>2 DEF db_submit_exam, storeVars
  <2> QED
    BY <2>1, <2>2
<1>4. ASSUME NEW ok \in BOOLEAN,
             \/ db_create_room(arg[c], user[c], ok)
             \/ db_join_room(arg[c], user[c], ok)
             \/ db_leave_room(arg[c], user[c], ok)
             \/ db_start_room(arg[c], ok)
             \/ db_finish_room(arg[c], ok)
      PROVE  results' = results
  BY <1>4 DEF db_create_room, db_join_room, db_leave_room, db_start_room,
     db_finish_room, SetStatus, storeVars
<1> QED
  BY <1>2, <1>3, <1>4 DEF Write

\* A stored score never changes and goes only with its room: no interleaving of
\* handlers, failed call, crash, shared login or reused room id overwrites it.
THEOREM ScoresAreFinal == Spec => ResultsAreFinal
<1>1. TypeInv /\ [Next]_vars =>
        \A r \in RoomId : \A u \in Submitted(r) :
          results'[r][u] = results[r][u] \/ status'[r] = "DELETED"
  <2> SUFFICES ASSUME TypeInv, [Next]_vars,
                      NEW r \in RoomId, NEW u \in Submitted(r)
               PROVE  results'[r][u] = results[r][u] \/ status'[r] = "DELETED"
    OBVIOUS
  <2>1. u \in User /\ results[r][u] # NoScore
    BY DEF Submitted
  <2>2. CASE UNCHANGED storeVars
    BY <2>2 DEF storeVars
  <2>3. ASSUME NEW c \in Client, arg[c] \in RoomId, user[c] \in User, Write(c)
        PROVE  results'[r][u] = results[r][u] \/ status'[r] = "DELETED"
    BY <2>1, <2>3, WriteKeepsResults
  <2> QED
    BY <2>2, <2>3, StoreStep
<1> QED
  BY <1>1, TypeInvariant, PTL DEF Spec, ResultsAreFinal

----------------------------------------------------------------------------
(* Rooms whose ids are not used twice.  A handler acts on what it read some *)
(* calls ago; what makes this safe is what cannot change back meanwhile:   *)
(* a room that has started has started for good, and its creator is its    *)
(* creator until it is deleted.                                            *)

Past == Started \cup {"DELETED"}

\* What the thread of c has read and may still rely on.
RemembersOK(c) ==
  /\ pc[c] \notin {"idle", "create_insert"} => status[arg[c]] # "NONE"
  /\ pc[c] \in GetLabel \cup SubmitLabel \cup {"start_broadcast"}
       => status[arg[c]] \in Past
  /\ pc[c] \in {"start_update", "leave_delete"} /\ Exists(arg[c])
       => creator[arg[c]] = user[c]
  /\ pc[c] = "leave_remove" /\ Exists(arg[c]) /\ ~DbMayFail
       => creator[arg[c]] # user[c]

\* The rows of one room fit together.
RoomOK(r) ==
  /\ ~Exists(r) => participants[r] = {}
  /\ status[r] \notin Started => \A u \in User : results[r][u] = NoScore
  /\ Exists(r) /\ ~DbMayFail => creator[r] \in participants[r]

\* The inductive invariant.
IInv ==
  /\ TypeInv
  /\ \A r \in RoomId : RoomOK(r)
  /\ \A c \in Client : RemembersOK(c)
  /\ ToldMeansStarted

\* What may happen to one room in one step.
Evolves(r) ==
  /\ status[r] # "NONE" => status'[r] # "NONE"
  /\ status[r] \in Past => status'[r] \in Past
  /\ status[r] # "NONE" /\ Exists(r)' => Exists(r) /\ creator'[r] = creator[r]

\* A room none of whose rows change stays in order.
LEMMA SameRoom ==
  ASSUME NEW r \in RoomId, RoomOK(r),
         status'[r] = status[r], creator'[r] = creator[r],
         participants'[r] = participants[r], results'[r] = results[r]
  PROVE  RoomOK(r)' /\ Evolves(r)
BY DEF RoomOK, Evolves, Exists

\* A writing call leaves the rows of every other room alone.
LEMMA OtherRooms ==
  ASSUME TypeInv, NEW c \in Client, arg[c] \in RoomId, Write(c),
         NEW r \in RoomId, r # arg[c]
  PROVE  /\ status'[r] = status[r] /\ creator'[r] = creator[r]
         /\ participants'[r] = participants[r] /\ results'[r] = results[r]
<1>1. /\ status \in [RoomId -> RoomStatus]
      /\ creator \in [RoomId -> User \cup {NoUser}]
      /\ participants \in [RoomId -> SUBSET User]
      /\ results \in [RoomId -> [User -> Score \cup {NoScore}]]
  BY DEF TypeInv, StoreTypeOK
<1> QED
  BY <1>1 DEF Write, db_create_room, db_join_room, db_delete_room, db_leave_room,
     db_start_room, db_finish_room, SetStatus, db_submit_exam, storeVars

\* A writing call of a thread that remembers right keeps its room in order.
LEMMA WriteKeepsRoom ==
  ASSUME IInv, ~IdReuse, NEW c \in Client, arg[c] \in RoomId, user[c] \in User,
         Write(c), NEW r \in RoomId, r = arg[c]
  PROVE  RoomOK(r)' /\ Evolves(r)
<1>1. /\ status \in [RoomId -> RoomStatus]
      /\ creator \in [RoomId -> User \cup {NoUser}]
      /\ participants \in [RoomId -> SUBSET User]
      /\ results \in [RoomId -> [User -> Score \cup {NoScore}]]
      /\ RemembersOK(c) /\ RoomOK(r)
  BY DEF IInv, TypeInv, StoreTypeOK
<1>2. CASE UNCHANGED storeVars
  BY <1>1, <1>2, SameRoom DEF storeVars
<1>3. ASSUME db_create_room(r, user[c], TRUE) PROVE RoomOK(r)' /\ Evolves(r)
  <2>1. /\ status'[r] = "NOT_STARTED" /\ creator'[r] = user[c]
        /\ participants'[r] = {user[c]} /\ results'[r] = results[r]
        /\ status[r] = "NONE"
    BY <1>1, <1>3 DEF db_create_room, Free
  <2> QED
    BY <1>1, <2>1 DEF RoomOK, Evolves, Exists, Past, Started, RowStatus
<1>4. ASSUME db_join_room(r, user[c], TRUE) PROVE RoomOK(r)' /\ Evolves(r)
  <2>1. /\ status'[r] = status[r] /\ creator'[r] = creator[r] /\ results'[r] = results[r]
        /\ participants'[r] = IF Exists(r) THEN participants[r] \cup {user[c]}
                                          ELSE participants[r]
    BY <1>1, <1>4 DEF db_join_room
  <2> QED
    BY <1>1, <2>1 DEF RoomOK, Evolves, Exists
<1>5. ASSUME db_delete_room(r, TRUE) PROVE RoomOK(r)' /\ Evolves(r)
  <2>1. /\ status'[r] = "DELETED" /\ participants'[r] = {}
        /\ results'[r] = [u \in User |-> NoScore]
    BY <1>1, <1>5 DEF db_delete_room
  <2> QED
    BY <1>1, <2>1 DEF RoomOK, Evolves, Exists, Past, Started, RowStatus
<1>6. ASSUME pc[c] = "leave_remove", db_leave_room(r, user[c], TRUE)
      PROVE  RoomOK(r)' /\ Evolves(r)
  <2>1. /\ status'[r] = status[r] /\ creator'[r] = creator[r] /\ results'[r] = results[r]
        /\ participants'[r] = participants[r] \ {user[c]}
    BY <1>1, <1>6 DEF db_leave_room
  <2>2. Exists(r) /\ ~DbMayFail => creator[r] # user[c]
    BY <1>1, <1>6 DEF RemembersOK
  <2> QED
    BY <1>1, <2>1, <2>2 DEF RoomOK, Evolves, Exists
<1>7. ASSUME NEW s \in Started, SetStatus(r, s, TRUE)
      PROVE  RoomOK(r)' /\ Evolves(r)
  <2>1. /\ creator'[r] = creator[r] /\ results'[r] = results[r]
        /\ participants'[r] = participants[r]
        /\ status'[r] = IF Exists(r) THEN s ELSE status[r]
    BY <1>1, <1>7 DEF SetStatus
  <2> QED
    BY <1>1, <2>1 DEF RoomOK, Evolves, Exists, Past, Started, RowStatus
<1>8. ASSUME pc[c] = "submit_insert", NEW s \in Score,
             db_submit_exam(r, user[c], s, TRUE)
      PROVE  RoomOK(r)' /\ Evolves(r)
  <2>1. /\ status'[r] = status[r] /\ creator'[r] = creator[r]
        /\ participants'[r] = participants[r] /\ Exists(r)
    BY <1>1, <1>8 DEF db_submit_exam
  <2>2. status[r] \in Started
    BY <1>1, <1>8, <2>1 DEF RemembersOK, SubmitLabel, Past, Exists, RowStatus, Started
  <2> QED
    BY <1>1, <2>1, <2>2 DEF RoomOK, Evolves, Exists
<1> QED
  BY <1>2, <1>3, <1>4, <1>5, <1>6, <1>7, <1>8, WriteCases DEF Started

\* Every step keeps every room in order.
LEMMA RoomStep ==
  ASSUME IInv, ~IdReuse, [Next]_vars
  PROVE  \A r \in RoomId : RoomOK(r)' /\ Evolves(r)
<1>1. CASE UNCHANGED storeVars
  BY <1>1, SameRoom DEF IInv, storeVars
<1>2. ASSUME NEW c \in Client, arg[c] \in RoomId, user[c] \in User, Write(c),
             NEW r \in RoomId
      PROVE  RoomOK(r)' /\ Evolves(r)
  <2>1. CASE r = arg[c]
    BY <1>2, <2>1, WriteKeepsRoom
  <2>2. CASE r # arg[c]
    BY <1>2, <2>2, OtherRooms, SameRoom DEF IInv
  <2> QED
    BY <2>1, <2>2
<1> QED
  BY <1>1, <1>2, StoreStep DEF IInv

\* A call of a handler is made on behalf of the user who sent the command.
LEMMA ContinueUser ==
  ASSUME NEW c \in Client, Continue(c)
  PROVE  user' = user
BY DEF Continue, CreateInsert, CreateEnter, JoinCount, JoinInsert, JoinEnter,
   LeaveCreator, LeaveDelete, LeaveRemove, LeaveExit, StartCreator, StartUpdate,
   StartBroadcast, GetParticipant, GetCreator, GetQuestions, SubmitParticipant,
   SubmitCreator, SubmitCheck, SubmitInsert, SubmitExit, SubmitCount,
   SubmitFinish, ViewLeaderboard, SetCurrentRoom, sessionVars

\* A thread in recv_line is in no handler.
LEMMA ContinueBusy ==
  ASSUME NEW c \in Client, Continue(c)
  PROVE  pc[c] # "idle"
BY DEF Continue, CreateInsert, CreateEnter, JoinCount, JoinInsert, JoinEnter,
   LeaveCreator, LeaveDelete, LeaveRemove, LeaveExit, StartCreator, StartUpdate,
   StartBroadcast, GetParticipant, GetCreator, GetQuestions, SubmitParticipant,
   SubmitCreator, SubmitCheck, SubmitInsert, SubmitExit, SubmitCount,
   SubmitFinish, ViewLeaderboard, At

\* The calls after which the handler may go on.
LEMMA ContinueReturns ==
  ASSUME NEW c \in Client, Continue(c)
  PROVE  \/ Return(c)
         \/ /\ ~Return(c)
            /\ \/ CreateInsert(c) \/ JoinCount(c) \/ JoinInsert(c) \/ LeaveCreator(c)
               \/ LeaveDelete(c) \/ LeaveRemove(c) \/ StartCreator(c) \/ StartUpdate(c)
               \/ GetParticipant(c) \/ GetCreator(c) \/ SubmitParticipant(c)
               \/ SubmitCreator(c) \/ SubmitCheck(c) \/ SubmitInsert(c)
               \/ SubmitExit(c) \/ SubmitCount(c)
BY DEF Continue, CreateEnter, JoinEnter, LeaveExit, StartBroadcast, GetQuestions,
   SubmitFinish, ViewLeaderboard

\* A call of a handler moves its own thread.
LEMMA ContinueMoves ==
  ASSUME NEW c \in Client, Continue(c)
  PROVE  Return(c) \/ \E l \in Label : Goto(c, l)
BY ContinueReturns DEF CreateInsert, JoinCount, JoinInsert, LeaveCreator,
   LeaveDelete, LeaveRemove, StartCreator, StartUpdate, GetParticipant, GetCreator,
   SubmitParticipant, SubmitCreator, SubmitCheck, SubmitInsert, SubmitExit,
   SubmitCount, Proceed, Label, CreateLabel, JoinLabel,
   LeaveLabel, StartLabel, GetLabel, SubmitLabel

\* A step of one thread leaves the others where they are.
LEMMA OneThread ==
  ASSUME TypeInv, NEW c \in Client, Command(c) \/ Continue(c),
         NEW d \in Client, d # c
  PROVE  pc'[d] = pc[d] /\ arg'[d] = arg[d] /\ user'[d] = user[d]
<1>1. CASE Command(c)
  BY <1>1 DEF Command, CreateId, JoinStatus, LeaveParticipant, StartStatus,
     GetStatus, SubmitStatus, ViewStatus, Login, Logout, Disconnect, Begin,
     TypeInv, ThreadTypeOK, sessionVars, threadVars
<1>2. CASE Continue(c)
  <2>1. user' = user
    BY <1>2, ContinueUser
  <2>2. Return(c) \/ \E l \in Label : Goto(c, l)
    BY <1>2, ContinueMoves
  <2> QED
    BY <2>1, <2>2 DEF Return, Goto, TypeInv, ThreadTypeOK
<1> QED
  BY <1>1, <1>2

\* What a thread remembers stays true while others move.
LEMMA StillRemembers ==
  ASSUME TypeInv, NEW d \in Client, RemembersOK(d), \A r \in RoomId : Evolves(r),
         pc'[d] = pc[d], arg'[d] = arg[d], user'[d] = user[d]
  PROVE  RemembersOK(d)'
<1>1. CASE pc[d] = "idle"
  BY <1>1 DEF RemembersOK, GetLabel, SubmitLabel
<1>2. CASE pc[d] = "create_insert"
  BY <1>2 DEF RemembersOK, GetLabel, SubmitLabel
<1>3. CASE pc[d] \notin {"idle", "create_insert"}
  <2>1. Evolves(arg[d]) /\ status[arg[d]] # "NONE"
    BY <1>3 DEF TypeInv, BusyOK, RemembersOK
  <2> QED
    BY <2>1 DEF Evolves, RemembersOK, Exists
<1> QED
  BY <1>1, <1>2, <1>3

\* A thread back in recv_line remembers nothing.
LEMMA IdleRemembers ==
  ASSUME NEW c \in Client, pc'[c] = "idle"
  PROVE  RemembersOK(c)'
BY DEF RemembersOK, GetLabel, SubmitLabel

\* A command goes on only with what its first call saw.
LEMMA CommandRemembers ==
  ASSUME IInv, NEW c \in Client, Command(c), \A r \in RoomId : Evolves(r)
  PROVE  RemembersOK(c)'
<1>1. TypeInv /\ pc \in [Client -> Label] /\ arg \in [Client -> RoomId \cup {NoRoom}]
  BY DEF IInv, TypeInv, ThreadTypeOK
<1>2. CASE CreateId(c)
  BY <1>1, <1>2 DEF CreateId, Begin, RemembersOK, GetLabel, SubmitLabel
<1>3. ASSUME NEW r \in RoomId,
             JoinStatus(c, r) \/ StartStatus(c, r) \/ GetStatus(c, r)
               \/ SubmitStatus(c, r) \/ ViewStatus(c, r)
      PROVE  RemembersOK(c)'
  <2>1. \A s \in RowStatus : s \in db_get_room_status(r) => status[r] = s
    BY DEF db_get_room_status, OnError, Exists, RowStatus, Started
  <2>2. arg'[c] = r /\ status'[r] = status[r]
    BY <1>1, <1>3 DEF JoinStatus, StartStatus, GetStatus, SubmitStatus, ViewStatus,
       Begin, storeVars
  <2>3. \/ pc'[c] \in {"join_count", "start_creator"} /\ status[r] = "NOT_STARTED"
        \/ pc'[c] \in {"get_participant", "submit_participant"}
             /\ status[r] = "IN_PROGRESS"
        \/ pc'[c] = "view_leaderboard" /\ status[r] = "FINISHED"
    BY <1>1, <1>3, <2>1 DEF JoinStatus, StartStatus, GetStatus, SubmitStatus,
       ViewStatus, Begin, RowStatus, Started
  <2> QED
    BY <2>2, <2>3 DEF RemembersOK, Past, Started, GetLabel, SubmitLabel
<1>4. ASSUME NEW r \in RoomId, LeaveParticipant(c, r) PROVE RemembersOK(c)'
  <2>1. participants[r] # {} /\ RoomOK(r)
    BY <1>4 DEF LeaveParticipant, db_is_participant, OnError, IInv
  <2>2. status'[r] = status[r] /\ status[r] # "NONE"
    BY <1>4, <2>1 DEF LeaveParticipant, RoomOK, Exists, RowStatus, Started, storeVars
  <2>3. pc'[c] = "leave_creator" /\ arg'[c] = r
    BY <1>1, <1>4 DEF LeaveParticipant, Begin
  <2> QED
    BY <2>2, <2>3 DEF RemembersOK, GetLabel, SubmitLabel
<1>5. ASSUME (\E u \in User : Login(c, u)) \/ Logout(c) \/ Disconnect(c)
      PROVE  RemembersOK(c)'
  BY <1>1, <1>5, IdleRemembers DEF Login, Logout, Disconnect, threadVars
<1> QED
  BY <1>2, <1>3, <1>4, <1>5 DEF Command

\* A call goes on only with what it saw, or with what was seen before it.
LEMMA ContinueRemembers ==
  ASSUME IInv, ~IdReuse, NEW c \in Client, Continue(c), \A r \in RoomId : Evolves(r)
  PROVE  RemembersOK(c)'
<1> DEFINE r == arg[c]
<1>1. /\ pc \in [Client -> Label] /\ arg \in [Client -> RoomId \cup {NoRoom}]
      /\ RemembersOK(c)
      /\ StoreTypeOK
  BY DEF IInv, TypeInv, ThreadTypeOK
<1>2. user'[c] = user[c]
  BY ContinueUser
<1>3. CASE Return(c)
  BY <1>1, <1>3, IdleRemembers DEF Return
<1>4. pc[c] # "idle" /\ r \in RoomId /\ Evolves(r)
  <2>1. pc[c] # "idle"
    BY ContinueBusy
  <2> QED
    BY <2>1 DEF IInv, TypeInv, BusyOK
<1>5. ASSUME NEW l \in Label, Goto(c, l) PROVE pc'[c] = l /\ arg'[c] = r
  BY <1>1, <1>5 DEF Goto
<1> HIDE DEF r
\* Steps to labels that need no more than that the room is not unused.
<1>6. ASSUME pc[c] \notin {"idle", "create_insert"},
             NEW l \in {"join_insert", "join_enter", "leave_exit", "create_enter"}, Goto(c, l)
      PROVE  RemembersOK(c)'
  <2>1. l \in Label
    BY DEF Label, CreateLabel, JoinLabel, LeaveLabel
  <2> QED
    BY <1>1, <1>4, <1>5, <1>6, <2>1 DEF RemembersOK, Evolves, r, GetLabel, SubmitLabel
\* Steps within GET_EXAM and SUBMIT_EXAM.
<1>7. ASSUME pc[c] \in GetLabel \cup SubmitLabel,
             NEW l \in GetLabel \cup SubmitLabel, Goto(c, l)
      PROVE  RemembersOK(c)'
  <2>1. l \in Label
    BY DEF Label
  <2> QED
    BY <1>1, <1>4, <1>5, <1>7, <2>1
       DEF RemembersOK, Evolves, r, GetLabel, SubmitLabel, Past, Started
<1>8. CASE CreateInsert(c) /\ ~Return(c)
  <2>1. db_create_room(r, user[c], TRUE) /\ Goto(c, "create_enter")
    BY <1>8 DEF CreateInsert, Proceed, r
  <2>2. status'[r] = "NOT_STARTED"
    BY <1>1, <1>4, <2>1 DEF db_create_room, StoreTypeOK
  <2>3. pc'[c] = "create_enter" /\ arg'[c] = r
    BY <1>5, <2>1 DEF Label, CreateLabel
  <2> QED
    BY <2>2, <2>3 DEF RemembersOK, GetLabel, SubmitLabel
<1>9. CASE (JoinCount(c) \/ JoinInsert(c) \/ LeaveDelete(c) \/ LeaveRemove(c)) /\ ~Return(c)
  <2>1. \E l \in {"join_insert", "join_enter", "leave_exit"} : Goto(c, l)
    BY <1>9 DEF JoinCount, JoinInsert, LeaveDelete, LeaveRemove, Proceed
  <2>2. pc[c] \notin {"idle", "create_insert"}
    BY <1>9 DEF JoinCount, JoinInsert, LeaveDelete, LeaveRemove, At
  <2> QED
    BY <1>6, <2>1, <2>2
<1>10. CASE LeaveCreator(c)
  <2>1. PICK mine \in db_is_room_creator(r, user[c]) :
          Goto(c, IF mine THEN "leave_delete" ELSE "leave_remove")
    BY <1>10 DEF LeaveCreator, r
  <2>2. /\ mine = TRUE => Exists(r) /\ creator[r] = user[c]
        /\ mine = FALSE /\ Exists(r) /\ ~DbMayFail => creator[r] # user[c]
        /\ mine \in BOOLEAN
    BY DEF db_is_room_creator, OnError
  <2>3. status[r] # "NONE" /\ UNCHANGED storeVars
    BY <1>1, <1>10 DEF RemembersOK, LeaveCreator, At, r
  <2>4. arg'[c] = r /\ pc'[c] = IF mine THEN "leave_delete" ELSE "leave_remove"
    BY <1>5, <2>1, <2>2 DEF Label, LeaveLabel
  <2> QED
    BY <1>2, <2>2, <2>3, <2>4 DEF RemembersOK, Exists, GetLabel, SubmitLabel, storeVars
<1>11. CASE StartCreator(c) /\ ~Return(c)
  <2>1. TRUE \in db_is_room_creator(r, user[c]) /\ Goto(c, "start_update")
    BY <1>11 DEF StartCreator, Proceed, r, db_is_room_creator, OnError
  <2>2. Exists(r) /\ creator[r] = user[c]
    BY <2>1 DEF db_is_room_creator, OnError
  <2>3. status[r] # "NONE" /\ UNCHANGED storeVars
    BY <1>1, <1>11 DEF RemembersOK, StartCreator, At, r
  <2>4. arg'[c] = r /\ pc'[c] = "start_update"
    BY <1>5, <2>1 DEF Label, StartLabel
  <2> QED
    BY <1>2, <2>2, <2>3, <2>4 DEF RemembersOK, Exists, GetLabel, SubmitLabel, storeVars
<1>12. CASE StartUpdate(c) /\ ~Return(c)
  <2>1. SetStatus(r, "IN_PROGRESS", TRUE) /\ Goto(c, "start_broadcast")
    BY <1>12 DEF StartUpdate, Proceed, db_start_room, r
  <2>2. status[r] # "NONE"
    BY <1>1, <1>12 DEF RemembersOK, StartUpdate, At, r
  <2>3. status'[r] \in Past
    BY <1>1, <1>4, <2>1, <2>2
       DEF SetStatus, StoreTypeOK, Exists, RowStatus, RoomStatus, Started, Past
  <2>4. arg'[c] = r /\ pc'[c] = "start_broadcast"
    BY <1>5, <2>1 DEF Label, StartLabel
  <2> QED
    BY <2>3, <2>4 DEF RemembersOK, Past, Started, GetLabel, SubmitLabel
<1>13. CASE /\ GetParticipant(c) \/ GetCreator(c) \/ SubmitParticipant(c)
              \/ SubmitCreator(c) \/ SubmitCheck(c) \/ SubmitInsert(c)
              \/ SubmitExit(c) \/ SubmitCount(c)
            /\ ~Return(c)
  <2>1. \E l \in GetLabel \cup SubmitLabel : Goto(c, l)
    BY <1>13 DEF GetParticipant, GetCreator, SubmitParticipant, SubmitCreator,
       SubmitCheck, SubmitInsert, SubmitExit, SubmitCount, Proceed, GetLabel, SubmitLabel
  <2>2. pc[c] \in GetLabel \cup SubmitLabel
    BY <1>13 DEF GetParticipant, GetCreator, SubmitParticipant, SubmitCreator,
       SubmitCheck, SubmitInsert, SubmitExit, SubmitCount, At, GetLabel, SubmitLabel
  <2> QED
    BY <1>7, <2>1, <2>2
<1> QED
  BY <1>3, <1>8, <1>9, <1>10, <1>11, <1>12, <1>13, ContinueReturns

\* A connection is told of the rooms in which a START_EXAM got to its broadcast.
LEMMA ToldStep ==
  ASSUME IInv, [Next]_vars, \A r \in RoomId : Evolves(r)
  PROVE  ToldMeansStarted'
<1>1. told \in [Client -> SUBSET RoomId]
  BY DEF IInv, TypeInv, ThreadTypeOK
<1>2. ASSUME NEW d \in Client, NEW r \in told[d] PROVE status'[r] \in Past
  BY <1>1, <1>2 DEF IInv, ToldMeansStarted, Evolves, Past
<1>3. CASE \E c \in Client : StartBroadcast(c)
  <2>1. PICK c \in Client : StartBroadcast(c)
    BY <1>3
  <2>2. arg[c] \in RoomId /\ status[arg[c]] \in Past
    BY <2>1 DEF StartBroadcast, At, IInv, TypeInv, BusyOK, RemembersOK
  <2>3. status'[arg[c]] \in Past
    BY <2>2 DEF Evolves
  <2>4. \A d \in Client : told'[d] \subseteq told[d] \cup {arg[c]}
    BY <2>1 DEF StartBroadcast
  <2> QED
    BY <1>2, <2>3, <2>4 DEF ToldMeansStarted, Past
<1>4. CASE ~\E c \in Client : StartBroadcast(c)
  <2>1. \A d \in Client : told'[d] \subseteq told[d]
    <3>1. ASSUME NEW c \in Client, Command(c)
          PROVE  \A d \in Client : told'[d] \subseteq told[d]
      BY <1>1, <3>1 DEF Command, CreateId, JoinStatus, LeaveParticipant, StartStatus,
         GetStatus, SubmitStatus, ViewStatus, Login, Logout, Disconnect, sessionVars
    <3>2. ASSUME NEW c \in Client, Continue(c) PROVE told' = told
      BY <1>4, <3>2 DEF Continue, CreateInsert, CreateEnter, JoinCount, JoinInsert,
         JoinEnter, LeaveCreator, LeaveDelete, LeaveRemove, LeaveExit, StartCreator,
         StartUpdate, GetParticipant, GetCreator, GetQuestions, SubmitParticipant,
         SubmitCreator, SubmitCheck, SubmitInsert, SubmitExit, SubmitCount,
         SubmitFinish, ViewLeaderboard, SetCurrentRoom, sessionVars
    <3>3. CASE Crash \/ Tick \/ UNCHANGED vars
      BY <3>3 DEF Crash, Tick, vars, sessionVars
    <3> QED
      BY <3>1, <3>2, <3>3 DEF Next
  <2> QED
    BY <1>2, <2>1 DEF ToldMeansStarted, Past
<1> QED
  BY <1>3, <1>4

\* The inductive invariant of a server whose room ids are not used twice.
THEOREM Inductive ==
  ASSUME ~IdReuse
  PROVE  Spec => []IInv
<1>1. Init => IInv
  BY DEF Init, StoreInit, IInv, RoomOK, RemembersOK, ToldMeansStarted, TypeInv,
     StoreTypeOK, ThreadTypeOK, BusyOK, RoomStatus, RowStatus, Started, Exists,
     Label, GetLabel, SubmitLabel, NoRoom
<1>2. IInv /\ [Next]_vars => IInv'
  <2> SUFFICES ASSUME IInv, [Next]_vars PROVE IInv'
    OBVIOUS
  <2>1. TypeInv'
    BY TypeStep DEF IInv
  <2>2. \A r \in RoomId : RoomOK(r)' /\ Evolves(r)
    BY RoomStep
  <2>3. ToldMeansStarted'
    BY <2>2, ToldStep
  <2>4. ASSUME NEW d \in Client PROVE RemembersOK(d)'
    <3>1. ASSUME NEW c \in Client, Command(c) \/ Continue(c) PROVE RemembersOK(d)'
      <4>1. CASE c = d
        BY <2>2, <3>1, <4>1, CommandRemembers, ContinueRemembers
      <4>2. CASE c # d
        BY <2>2, <3>1, <4>2, OneThread, StillRemembers DEF IInv
      <4> QED
        BY <4>1, <4>2
    <3>2. CASE Crash
      BY <3>2, IdleRemembers DEF Crash
    <3>3. CASE Tick \/ UNCHANGED vars
      BY <2>2, <3>3, StillRemembers DEF Tick, vars, IInv, threadVars, sessionVars
    <3> QED
      BY <3>1, <3>2, <3>3 DEF Next
  <2> QED
    BY <2>1, <2>2, <2>3, <2>4 DEF IInv
<1> QED
  BY <1>1, <1>2, PTL DEF Spec

\* No room has a result before it starts.
THEOREM NoResultBeforeStart ==
  ASSUME ~IdReuse
  PROVE  Spec => []ResultsOnlyAfterStart
<1>1. IInv => ResultsOnlyAfterStart
  BY DEF IInv, RoomOK, ResultsOnlyAfterStart, Submitted
<1> QED
  BY <1>1, Inductive, PTL

\* "125 START_OK" is sent for started rooms only.
THEOREM NoEarlyStart ==
  ASSUME ~IdReuse
  PROVE  Spec => []ToldMeansStarted
<1>1. IInv => ToldMeansStarted
  BY DEF IInv
<1> QED
  BY <1>1, Inductive, PTL

\* Without failing statements the creator of a room stays its participant,
\* also when several connections are logged in as the creator.
THEOREM CreatorStays ==
  ASSUME ~IdReuse, ~DbMayFail
  PROVE  Spec => []CreatorIsMember
<1>1. IInv => CreatorIsMember
  BY DEF IInv, RoomOK, CreatorIsMember
<1> QED
  BY <1>1, Inductive, PTL

\* A room is started and deleted by its creator alone.
THEOREM CreatorDecides ==
  ASSUME ~IdReuse
  PROVE  Spec => OnlyCreatorStartsOrDeletes
<1>1. IInv /\ [Next]_vars =>
        \A r \in RoomId :
          /\ status'[r] # status[r]
          /\ status'[r] \in {"IN_PROGRESS", "DELETED"}
          => \E c \in Client : /\ arg[c] = r
                               /\ user[c] = creator[r]
                               /\ pc[c] \in {"start_update", "leave_delete"}
  <2> SUFFICES ASSUME IInv, [Next]_vars, NEW r \in RoomId,
                      status'[r] # status[r],
                      status'[r] \in {"IN_PROGRESS", "DELETED"}
               PROVE  \E c \in Client : /\ arg[c] = r
                                        /\ user[c] = creator[r]
                                        /\ pc[c] \in {"start_update", "leave_delete"}
    OBVIOUS
  <2>1. status \in [RoomId -> RoomStatus]
    BY DEF IInv, TypeInv, StoreTypeOK
  <2>2. PICK c \in Client : arg[c] \in RoomId /\ user[c] \in User /\ Write(c)
    BY StoreStep DEF IInv, storeVars
  <2>3. arg[c] = r
    BY <2>2, OtherRooms DEF IInv
  <2>4. /\ pc[c] \in {"start_update", "leave_delete"}
        /\ Exists(r)
    BY <2>1, <2>2, <2>3 DEF Write, db_create_room, db_join_room, db_delete_room,
       db_leave_room, db_start_room, db_finish_room, SetStatus, db_submit_exam, storeVars
  <2>5. creator[r] = user[c]
    BY <2>3, <2>4 DEF IInv, RemembersOK
  <2> QED
    BY <2>3, <2>4, <2>5
<1> QED
  BY <1>1, Inductive, PTL DEF Spec, OnlyCreatorStartsOrDeletes

=============================================================================
