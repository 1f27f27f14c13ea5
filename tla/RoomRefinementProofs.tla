------------------------- MODULE RoomRefinementProofs -------------------------
(***************************************************************************)
(* RoomService implements ExamRooms when room ids are not used twice, no   *)
(* statement fails and no user is logged in on two connections.  The proof *)
(* rests on what a thread has read some calls ago and nobody else can have *)
(* undone since: a user's own rows are written by his own thread only.     *)
(***************************************************************************)
EXTENDS RoomRefinement, RoomServiceProofs

\* No user is logged in on two connections.
Exclusive == \A c, d \in Client : user[c] # NoUser /\ user[c] = user[d] => c = d

\* What the thread of c has read about its own user: a creator that found his
\* room not started is the only one who can start it; a participant stays one
\* until his own thread takes him out, or the room goes; his result stays.
VisitOK(c) ==
  /\ pc[c] \in {"start_creator", "start_update"}
       /\ Exists(arg[c]) /\ creator[arg[c]] = user[c]
       => status[arg[c]] = "NOT_STARTED"
  /\ pc[c] \in LeaveLabel \ {"leave_exit"} /\ Exists(arg[c])
       => user[c] \in participants[arg[c]]
  /\ pc[c] \in {"submit_check", "submit_insert"} /\ Exists(arg[c]) /\ ~DbMayFail
       => user[c] \in participants[arg[c]]
  /\ pc[c] \in {"submit_exit", "submit_count", "submit_finish"} /\ Exists(arg[c])
       => user[c] \in Submitted(arg[c])

\* The inductive invariant of a server on which every login is exclusive.
VInv == IInv /\ Exclusive /\ \A c \in Client : VisitOK(c)

----------------------------------------------------------------------------
(* The steps of others. *)

\* What one step of the thread of c leaves true of room r and of a user u who
\* is not its own.
KeepsFor(r, u) ==
  Exists(r)' =>
    /\ u \in participants[r] => u \in participants'[r]
    /\ u \in Submitted(r) => u \in Submitted(r)'
    /\ status[r] = "NOT_STARTED" /\ creator[r] = u => status'[r] = "NOT_STARTED"

\* A write on behalf of one user keeps what another one has read.
LEMMA WriteKeepsOthers ==
  ASSUME IInv, ~IdReuse, NEW c \in Client, arg[c] \in RoomId, user[c] \in User, Write(c),
         NEW r \in RoomId, status[r] # "NONE", NEW u \in User, u # user[c]
  PROVE  KeepsFor(r, u)
<1>1. /\ status \in [RoomId -> RoomStatus]
      /\ creator \in [RoomId -> User \cup {NoUser}]
      /\ participants \in [RoomId -> SUBSET User]
      /\ results \in [RoomId -> [User -> Score \cup {NoScore}]]
      /\ RemembersOK(c)
  BY DEF IInv, TypeInv, StoreTypeOK
<1>2. CASE r # arg[c]
  BY <1>2, OtherRooms DEF IInv, KeepsFor, Submitted
<1>3. CASE UNCHANGED storeVars
  BY <1>3 DEF KeepsFor, Submitted, storeVars
<1>4. CASE r = arg[c]
  <2>1. CASE pc[c] = "create_insert" /\ db_create_room(r, user[c], TRUE)
    BY <2>1 DEF db_create_room, Free
  <2>2. CASE pc[c] = "join_insert" /\ db_join_room(r, user[c], TRUE)
    BY <1>1, <2>2 DEF db_join_room, KeepsFor, Submitted
  <2>3. CASE pc[c] = "leave_delete" /\ db_delete_room(r, TRUE)
    BY <1>1, <2>3 DEF db_delete_room, KeepsFor, Exists, RowStatus, Started
  <2>4. CASE pc[c] = "leave_remove" /\ db_leave_room(r, user[c], TRUE)
    BY <1>1, <2>4 DEF db_leave_room, KeepsFor, Submitted
  <2>5. CASE pc[c] = "start_update" /\ SetStatus(r, "IN_PROGRESS", TRUE)
    <3>1. /\ participants' = participants /\ results' = results
          /\ Exists(r) => creator[r] = user[c]
          /\ ~Exists(r) => status'[r] = status[r]
      BY <1>1, <1>4, <2>5 DEF SetStatus, RemembersOK
    <3> QED
      BY <3>1 DEF KeepsFor, Submitted, Exists
  <2>6. CASE pc[c] = "submit_finish" /\ SetStatus(r, "FINISHED", TRUE)
    <3>1. /\ participants' = participants /\ results' = results
          /\ status[r] \in Past
      BY <1>1, <1>4, <2>6 DEF SetStatus, RemembersOK, SubmitLabel
    <3> QED
      BY <3>1 DEF KeepsFor, Submitted, Past, Started
  <2>7. ASSUME NEW s \in Score, db_submit_exam(r, user[c], s, TRUE)
        PROVE  KeepsFor(r, u)
    BY <1>1, <2>7 DEF db_submit_exam, KeepsFor, Submitted
  <2> QED
    BY <1>3, <1>4, <2>1, <2>2, <2>3, <2>4, <2>5, <2>6, <2>7, WriteCases
<1> QED
  BY <1>2, <1>4

\* What a thread has read stays true while others move.
LEMMA OthersVisit ==
  ASSUME VInv, ~IdReuse, NEW c \in Client, Command(c) \/ Continue(c),
         \A r \in RoomId : Evolves(r), NEW d \in Client, d # c
  PROVE  VisitOK(d)'
<1>1. pc'[d] = pc[d] /\ arg'[d] = arg[d] /\ user'[d] = user[d]
  BY OneThread DEF VInv, IInv
<1>2. CASE pc[d] \in {"idle", "create_insert"}
  BY <1>1, <1>2 DEF VisitOK, LeaveLabel
<1>3. CASE pc[d] \notin {"idle", "create_insert"}
  <2>1. PICK r \in RoomId, u \in User : r = arg[d] /\ u = user[d]
    BY <1>3 DEF VInv, IInv, TypeInv, BusyOK
  <2>2. status[r] # "NONE" /\ Evolves(r) /\ VisitOK(d)
    BY <1>3, <2>1 DEF VInv, IInv, RemembersOK
  <2>3. KeepsFor(r, u)
    <3>1. CASE UNCHANGED storeVars
      BY <3>1 DEF KeepsFor, Submitted, storeVars
    <3>2. CASE Write(c) /\ pc[c] # "idle"
      <4>1. arg[c] \in RoomId /\ user[c] \in User
        BY <3>2 DEF VInv, IInv, TypeInv, BusyOK
      <4>2. u # user[c]
        BY <2>1, StoreAssumption DEF VInv, Exclusive
      <4> QED
        BY <2>2, <3>2, <4>1, <4>2, WriteKeepsOthers DEF VInv
    <3> QED
      BY <3>1, <3>2, CommandReads, ContinueWrites
  <2>4. Exists(r)' => Exists(r) /\ creator'[r] = creator[r]
    BY <2>2 DEF Evolves
  <2> QED
    BY <1>1, <2>1, <2>2, <2>3, <2>4 DEF VisitOK, KeepsFor
<1> QED
  BY <1>2, <1>3

----------------------------------------------------------------------------
(* The steps of the thread itself. *)

\* Labels at which a thread relies on nothing about its user.
FreeLabel ==
  Label \ ({"start_creator", "start_update"} \cup (LeaveLabel \ {"leave_exit"})
             \cup {"submit_check", "submit_insert"}
             \cup {"submit_exit", "submit_count", "submit_finish"})

\* A thread between two queries that depend on nothing it has read.
LEMMA FreeVisit ==
  ASSUME NEW c \in Client, pc'[c] \in FreeLabel
  PROVE  VisitOK(c)'
BY DEF VisitOK, FreeLabel

\* START_EXAM and LEAVE_ROOM go on only with what their first query saw.
LEMMA CommandVisit ==
  ASSUME VInv, NEW c \in Client, Command(c)
  PROVE  VisitOK(c)'
<1>1. TypeInv /\ pc \in [Client -> Label] /\ arg \in [Client -> RoomId \cup {NoRoom}]
  BY DEF VInv, IInv, TypeInv, ThreadTypeOK
<1> USE DEF Begin, Label, CreateLabel, JoinLabel, LeaveLabel, StartLabel, GetLabel,
        SubmitLabel, ViewLabel
<1>2. ASSUME NEW r \in RoomId, StartStatus(c, r) PROVE VisitOK(c)'
  <2>1. status[r] = "NOT_STARTED"
    BY <1>2 DEF StartStatus, db_get_room_status, OnError
  <2>2. pc'[c] = "start_creator" /\ arg'[c] = r /\ status' = status
    BY <1>1, <1>2 DEF StartStatus, storeVars
  <2> QED
    BY <2>1, <2>2 DEF VisitOK
<1>3. ASSUME NEW r \in RoomId, LeaveParticipant(c, r) PROVE VisitOK(c)'
  <2>1. user[c] \in participants[r]
    BY <1>3 DEF LeaveParticipant, db_is_participant, OnError
  <2>2. /\ pc'[c] = "leave_creator" /\ arg'[c] = r
        /\ participants' = participants /\ user' = user
    BY <1>1, <1>3 DEF LeaveParticipant, storeVars, sessionVars
  <2> QED
    BY <2>1, <2>2 DEF VisitOK
<1>4. ASSUME NEW r \in RoomId,
             JoinStatus(c, r) \/ GetStatus(c, r) \/ SubmitStatus(c, r) \/ ViewStatus(c, r)
      PROVE  pc'[c] \in FreeLabel
  BY <1>1, <1>4 DEF JoinStatus, GetStatus, SubmitStatus, ViewStatus, FreeLabel
<1>5. ASSUME CreateId(c) PROVE pc'[c] \in FreeLabel
  BY <1>1, <1>5 DEF CreateId, FreeLabel
<1>6. ASSUME (\E u \in User : Login(c, u)) \/ Logout(c) \/ Disconnect(c)
      PROVE  pc'[c] \in FreeLabel
  BY <1>1, <1>6 DEF Login, Logout, Disconnect, threadVars, FreeLabel
<1> QED
  BY <1>2, <1>3, <1>4, <1>5, <1>6, FreeVisit DEF Command

\* Where a call leaves its thread when the handler does not return.
LEMMA GoesTo ==
  ASSUME TypeInv, NEW c \in Client, NEW l \in Label, Goto(c, l)
  PROVE  pc'[c] = l /\ arg'[c] = arg[c]
BY DEF Goto, TypeInv, ThreadTypeOK

\* A call of a handler keeps what its thread relies on, or looks again.
LEMMA ContinueVisit ==
  ASSUME VInv, NEW c \in Client, Continue(c)
  PROVE  VisitOK(c)'
<1>1. /\ TypeInv /\ pc \in [Client -> Label] /\ VisitOK(c)
      /\ arg[c] \in RoomId /\ user[c] \in User
  <2>1. pc[c] # "idle"
    BY ContinueBusy
  <2> QED
    BY <2>1 DEF VInv, IInv, TypeInv, ThreadTypeOK, BusyOK
<1>2. user' = user
  BY ContinueUser
<1>3. CASE Return(c)
  BY <1>1, <1>3, FreeVisit DEF Return, FreeLabel, Label, LeaveLabel
<1> USE DEF Label, CreateLabel, JoinLabel, LeaveLabel, StartLabel, GetLabel,
        SubmitLabel, ViewLabel
\* Calls after which nothing is relied on.
<1>4. ASSUME NEW l \in FreeLabel, Goto(c, l) PROVE VisitOK(c)'
  BY <1>1, <1>4, GoesTo, FreeVisit DEF FreeLabel
\* Calls that keep what their thread relied on.
<1>5. ASSUME UNCHANGED storeVars, NEW l \in Label, Goto(c, l),
             \/ pc[c] = "start_creator" /\ l = "start_update"
             \/ pc[c] = "leave_creator" /\ l \in {"leave_delete", "leave_remove"}
             \/ pc[c] = "submit_check" /\ l = "submit_insert"
             \/ pc[c] = "submit_exit" /\ l = "submit_count"
             \/ pc[c] = "submit_count" /\ l = "submit_finish"
      PROVE  VisitOK(c)'
  <2>1. pc'[c] = l /\ arg'[c] = arg[c]
    BY <1>1, <1>5, GoesTo
  <2> QED
    BY <1>1, <1>2, <1>5, <2>1 DEF VisitOK, storeVars, Exists, Submitted
<1>6. CASE (StartCreator(c) \/ LeaveCreator(c) \/ SubmitCheck(c) \/ SubmitExit(c)
              \/ SubmitCount(c)) /\ ~Return(c)
  BY <1>5, <1>6 DEF StartCreator, LeaveCreator, SubmitCheck, SubmitExit, SubmitCount,
     Proceed, At
\* SUBMIT_EXAM finds that its user is in the room.
<1>7. ASSUME UNCHANGED storeVars, Goto(c, "submit_check"),
             user[c] \in participants[arg[c]] \/ DbMayFail
      PROVE  VisitOK(c)'
  <2>1. pc'[c] = "submit_check" /\ arg'[c] = arg[c]
    BY <1>1, <1>7, GoesTo
  <2> QED
    BY <1>2, <1>7, <2>1 DEF VisitOK, storeVars
<1>8. CASE SubmitParticipant(c)
  BY <1>4, <1>7, <1>8 DEF SubmitParticipant, db_is_participant, OnError, FreeLabel
<1>9. CASE SubmitCreator(c) /\ ~Return(c)
  <2>1. /\ Goto(c, "submit_check") /\ UNCHANGED storeVars
        /\ Exists(arg[c]) /\ creator[arg[c]] = user[c]
    BY <1>9 DEF SubmitCreator, Proceed, db_is_room_creator, OnError
  <2>2. user[c] \in participants[arg[c]] \/ DbMayFail
    BY <1>1, <2>1 DEF VInv, IInv, RoomOK
  <2> QED
    BY <1>7, <2>1, <2>2
<1>10. CASE SubmitInsert(c) /\ ~Return(c)
  <2>1. PICK s \in Score : db_submit_exam(arg[c], user[c], s, TRUE)
                             /\ Goto(c, "submit_exit")
    BY <1>10 DEF SubmitInsert, Proceed
  <2>2. pc'[c] = "submit_exit" /\ arg'[c] = arg[c]
    BY <1>1, <2>1, GoesTo
  <2>3. results'[arg[c]][user[c]] = s
    BY <1>1, <2>1 DEF db_submit_exam, TypeInv, StoreTypeOK
  <2> QED
    BY <1>1, <1>2, <2>2, <2>3, StoreAssumption DEF VisitOK, Submitted
<1>11. CASE /\ CreateInsert(c) \/ JoinCount(c) \/ JoinInsert(c) \/ LeaveDelete(c)
                 \/ LeaveRemove(c) \/ StartUpdate(c) \/ GetParticipant(c) \/ GetCreator(c)
            /\ ~Return(c)
  BY <1>4, <1>11 DEF CreateInsert, JoinCount, JoinInsert, LeaveDelete, LeaveRemove,
     StartUpdate, GetParticipant, GetCreator, Proceed, FreeLabel
<1> QED
  BY <1>3, <1>6, <1>8, <1>9, <1>10, <1>11, ContinueReturns

----------------------------------------------------------------------------
(* The inductive invariant. *)

\* LOGIN refuses a user who is logged in (without SharedLogin); every other
\* step logs nobody in.
LEMMA ExclusiveStep ==
  ASSUME ~SharedLogin, TypeInv, Exclusive, [Next]_vars
  PROVE  Exclusive'
<1>1. user \in [Client -> User \cup {NoUser}]
  BY DEF TypeInv, ThreadTypeOK
<1>2. ASSUME user' = user PROVE Exclusive'
  BY <1>2 DEF Exclusive
<1>3. ASSUME NEW c \in Client, NEW u \in User, Login(c, u) PROVE Exclusive'
  <2>1. user' = [user EXCEPT ![c] = u] /\ \A d \in Client : user[d] # u
    BY <1>3 DEF Login
  <2> QED
    BY <1>1, <2>1 DEF Exclusive
<1>4. ASSUME NEW c \in Client, Logout(c) \/ Disconnect(c) PROVE Exclusive'
  <2>1. user' = [user EXCEPT ![c] = NoUser]
    BY <1>4 DEF Logout, Disconnect
  <2> QED
    BY <1>1, <2>1 DEF Exclusive
<1>5. ASSUME NEW c \in Client, NEW r \in RoomId,
             JoinStatus(c, r) \/ LeaveParticipant(c, r) \/ StartStatus(c, r)
               \/ GetStatus(c, r) \/ SubmitStatus(c, r) \/ ViewStatus(c, r)
      PROVE  user' = user
  BY <1>5 DEF JoinStatus, LeaveParticipant, StartStatus, GetStatus, SubmitStatus,
     ViewStatus, sessionVars
<1>6. ASSUME NEW c \in Client, CreateId(c) PROVE user' = user
  BY <1>6 DEF CreateId, sessionVars
<1>7. CASE Crash
  BY <1>7 DEF Crash, Exclusive
<1>8. ASSUME Tick \/ UNCHANGED vars PROVE user' = user
  BY <1>8 DEF Tick, sessionVars, vars
<1> QED
  BY <1>2, <1>3, <1>4, <1>5, <1>6, <1>7, <1>8, ContinueUser DEF Next, Command

\* Every step keeps what each thread has read true of the rows.
LEMMA VisitStep ==
  ASSUME ~IdReuse, ~SharedLogin, VInv, [Next]_vars
  PROVE  \A d \in Client : VisitOK(d)'
<1> SUFFICES ASSUME NEW d \in Client PROVE VisitOK(d)'
  OBVIOUS
<1>1. \A r \in RoomId : Evolves(r)
  BY RoomStep DEF VInv
<1>2. ASSUME NEW c \in Client, Command(c) \/ Continue(c) PROVE VisitOK(d)'
  BY <1>1, <1>2, OthersVisit, CommandVisit, ContinueVisit
<1>3. CASE Crash
  BY <1>3, FreeVisit DEF Crash, FreeLabel, Label, LeaveLabel
<1>4. CASE Tick \/ UNCHANGED vars
  <2>1. UNCHANGED <<storeVars, pc, arg, user>>
    BY <1>4 DEF Tick, vars, storeVars, threadVars, sessionVars
  <2> QED
    BY <2>1 DEF VInv, VisitOK, Exists, Submitted, storeVars
<1> QED
  BY <1>2, <1>3, <1>4 DEF Next

\* What every thread has read about its own user stays true until it acts on it.
THEOREM VisitInvariant ==
  ASSUME ~IdReuse, ~SharedLogin
  PROVE  Spec => []VInv
<1> DEFINE Visits == Exclusive /\ \A c \in Client : VisitOK(c)
<1>1. Init => Visits
  BY DEF Init, Exclusive, VisitOK, LeaveLabel
<1>2. IInv /\ Visits /\ [Next]_vars => Visits'
  BY ExclusiveStep, VisitStep DEF VInv, IInv
<1>3. IInv /\ Visits => VInv
  BY DEF VInv
<1> HIDE DEF Visits
<1> QED
  BY <1>1, <1>2, <1>3, Inductive, PTL DEF Spec

----------------------------------------------------------------------------
(* What submissions promise. *)

\* SUBMIT_EXAM stores the answers of a participant.
LEMMA SubmitStep ==
  ASSUME ~IdReuse, ~DbMayFail, VInv, [Next]_vars, NEW r \in RoomId
  PROVE  Submitted(r)' \ Submitted(r) \subseteq participants[r]
<1> SUFFICES ASSUME NEW u \in User, results[r][u] = NoScore, results'[r][u] # NoScore
             PROVE  u \in participants[r]
  BY DEF Submitted
<1>1. results \in [RoomId -> [User -> Score \cup {NoScore}]]
  BY DEF VInv, IInv, TypeInv, StoreTypeOK
<1>2. PICK c \in Client : arg[c] \in RoomId /\ user[c] \in User /\ Write(c)
  BY StoreStep DEF VInv, IInv, storeVars
<1>3. arg[c] = r
  BY <1>2, OtherRooms DEF VInv, IInv
<1>4. CASE db_create_room(r, user[c], TRUE) \/ db_join_room(r, user[c], TRUE)
             \/ db_leave_room(r, user[c], TRUE)
             \/ \E s \in Started : SetStatus(r, s, TRUE)
  BY <1>4 DEF db_create_room, db_join_room, db_leave_room, SetStatus
<1>5. CASE db_delete_room(r, TRUE)
  BY <1>1, <1>5 DEF db_delete_room
<1>6. ASSUME pc[c] = "submit_insert", NEW s \in Score, db_submit_exam(r, user[c], s, TRUE)
      PROVE  u \in participants[r]
  <2>1. u = user[c] /\ Exists(r)
    BY <1>1, <1>6 DEF db_submit_exam
  <2> QED
    BY <1>3, <1>6, <2>1 DEF VInv, VisitOK
<1>7. ~UNCHANGED storeVars
  BY DEF storeVars
<1> QED
  BY <1>2, <1>3, <1>4, <1>5, <1>6, <1>7, WriteCases DEF Started

\* SubmitterIsMember: although SUBMIT_EXAM looked some calls before it inserts
\* (exam.c:313-391), whoever's answers are stored is a participant.
THEOREM OnlyMembersSubmit ==
  ASSUME ~IdReuse, ~DbMayFail, ~SharedLogin
  PROVE  Spec => SubmitterIsMember
<1>1. VInv /\ [Next]_vars =>
        [\A r \in RoomId : Submitted(r)' \ Submitted(r) \subseteq participants[r]]_vars
  BY SubmitStep
<1> QED
  BY <1>1, VisitInvariant, PTL DEF Spec, SubmitterIsMember

----------------------------------------------------------------------------
(* Every step of the handlers is a step of ExamRooms, or is not seen there. *)

\* The two functions the abstract state is completed with.
knocked == [c \in Client |-> Knocked(c)]
verdict == [c \in Client |-> Verdict(c)]

\* A step of one thread changes how far that thread has come, and no other.
LEMMA OneVisitor ==
  ASSUME TypeInv, NEW c \in Client, Command(c) \/ Continue(c)
  PROVE  /\ knocked' = [knocked EXCEPT ![c] = Knocked(c)']
         /\ verdict' = [verdict EXCEPT ![c] = Verdict(c)']
<1>1. \A d \in Client \ {c} : Knocked(d)' = Knocked(d) /\ Verdict(d)' = Verdict(d)
  BY OneThread DEF Knocked, Verdict
<1> QED
  BY <1>1 DEF knocked, verdict

\* A step after which its thread has neither found a room open nor complete, and
\* that changes no table and no login, is a withdrawal, also if there was
\* nothing to withdraw from.
LEMMA Withdraws ==
  ASSUME TypeInv, NEW c \in Client, Command(c) \/ Continue(c),
         UNCHANGED storeVars, user' = user,
         pc'[c] \notin {"join_count", "join_insert", "submit_finish"}
  PROVE  Abs!Withdraw(c)
<1>1. Knocked(c)' = NoRoom /\ Verdict(c)' = NoRoom
  BY DEF Knocked, Verdict
<1> QED
  BY <1>1, OneVisitor DEF Abs!Withdraw, Abs!room, storeVars, knocked, verdict

\* The first call of a command.
LEMMA CommandImplements ==
  ASSUME TypeInv, NEW c \in Client, Command(c)
  PROVE  Abs!Next
<1>1. /\ pc \in [Client -> Label] /\ arg \in [Client -> RoomId \cup {NoRoom}]
      /\ user \in [Client -> User \cup {NoUser}]
  BY DEF TypeInv, ThreadTypeOK
<1>2. ASSUME NEW r \in RoomId, JoinStatus(c, r) PROVE Abs!Knock(c, r)
  <2>1. status[r] = "NOT_STARTED"
    BY <1>2 DEF JoinStatus, db_get_room_status, OnError
  <2>2. /\ pc[c] = "idle" /\ pc'[c] = "join_count" /\ arg'[c] = r /\ user[c] # NoUser
        /\ UNCHANGED storeVars /\ user' = user
    BY <1>1, <1>2 DEF JoinStatus, Begin, sessionVars
  <2>3. /\ Knocked(c) = NoRoom /\ Verdict(c) = NoRoom
        /\ Knocked(c)' = r /\ Verdict(c)' = NoRoom
    BY <2>2 DEF Knocked, Verdict
  <2>4. /\ knocked[c] = NoRoom /\ verdict[c] = NoRoom
        /\ knocked' = [knocked EXCEPT ![c] = r] /\ verdict' = verdict
    BY <2>3, OneVisitor DEF knocked, verdict
  <2> QED
    BY <2>1, <2>2, <2>4 DEF Abs!Knock, Abs!room, storeVars, knocked, verdict
<1>3. ASSUME NEW u \in User \cup {NoUser}, pc[c] = "idle", user' = [user EXCEPT ![c] = u],
             UNCHANGED <<storeVars, threadVars>>
      PROVE  Abs!Sign(c, u)
  <2>1. UNCHANGED <<knocked, verdict>> /\ knocked[c] = NoRoom /\ verdict[c] = NoRoom
    BY <1>3 DEF knocked, verdict, Knocked, Verdict, threadVars
  <2> QED
    BY <1>3, <2>1 DEF Abs!Sign, Abs!room, Abs!visit, storeVars, knocked, verdict
<1>4. ASSUME (\E u \in User : Login(c, u)) \/ Logout(c) \/ Disconnect(c)
      PROVE  \E u \in User \cup {NoUser} : Abs!Sign(c, u)
  BY <1>3, <1>4 DEF Login, Logout, Disconnect
<1>5. ASSUME NEW r \in RoomId, LeaveParticipant(c, r) \/ StartStatus(c, r) \/ GetStatus(c, r)
                                 \/ SubmitStatus(c, r) \/ ViewStatus(c, r)
      PROVE  Abs!Withdraw(c)
  <2>1. /\ UNCHANGED storeVars /\ user' = user
        /\ pc'[c] \in {"leave_creator", "start_creator", "get_participant",
                       "submit_participant", "view_leaderboard"}
    BY <1>1, <1>5 DEF LeaveParticipant, StartStatus, GetStatus, SubmitStatus,
       ViewStatus, Begin, sessionVars
  <2> QED
    BY <2>1, Withdraws
<1>6. ASSUME CreateId(c) PROVE Abs!Withdraw(c)
  <2>1. UNCHANGED storeVars /\ user' = user /\ pc'[c] = "create_insert"
    BY <1>1, <1>6 DEF CreateId, Begin, sessionVars
  <2> QED
    BY <2>1, Withdraws
<1> QED
  BY <1>2, <1>4, <1>5, <1>6 DEF Command, Abs!Next

\* Only a count takes its thread to where it has found a room open or complete.
LEMMA ContinueLeaves ==
  ASSUME TypeInv, NEW c \in Client, Continue(c), ~JoinCount(c), ~SubmitCount(c)
  PROVE  pc'[c] \notin {"join_count", "join_insert", "submit_finish"}
<1>1. CASE Return(c)
  BY <1>1 DEF Return, TypeInv, ThreadTypeOK
<1> USE DEF Label, CreateLabel, JoinLabel, LeaveLabel, StartLabel, GetLabel, SubmitLabel
<1>2. CASE ~Return(c)
  <2>1. \E l \in Label \ {"join_count", "join_insert", "submit_finish"} : Goto(c, l)
    BY <1>2, ContinueReturns DEF CreateInsert, JoinInsert, LeaveCreator, LeaveDelete,
       LeaveRemove, StartCreator, StartUpdate, GetParticipant, GetCreator,
       SubmitParticipant, SubmitCreator, SubmitCheck, SubmitInsert, SubmitExit, Proceed
  <2> QED
    BY <2>1, GoesTo
<1> QED
  BY <1>1, <1>2

\* What a call that writes does with the room its thread names.
LEMMA WriteImplements ==
  ASSUME ~IdReuse, ~DbMayFail, VInv, NEW c \in Client, Continue(c), Write(c),
         ~UNCHANGED storeVars
  PROVE  Abs!Next
<1>1. PICK r \in RoomId, u \in User : r = arg[c] /\ u = user[c]
  BY ContinueBusy DEF VInv, IInv, TypeInv, BusyOK
<1>2. /\ status \in [RoomId -> RoomStatus]
      /\ creator \in [RoomId -> User \cup {NoUser}]
      /\ participants \in [RoomId -> SUBSET User]
      /\ results \in [RoomId -> [User -> Score \cup {NoScore}]]
      /\ TypeInv /\ u # NoUser /\ r # NoRoom
      /\ RoomOK(r) /\ RemembersOK(c) /\ VisitOK(c)
  BY StoreAssumption DEF VInv, IInv, TypeInv, StoreTypeOK, RoomId, NoRoom
<1>3. user' = user
  BY ContinueUser
<1>4. pc'[c] \notin {"join_count", "join_insert", "submit_finish"}
        \/ pc[c] \in {"join_count", "submit_count"}
  BY <1>2, ContinueLeaves DEF JoinCount, SubmitCount, At
\* A thread that has not counted changes how far it has come in nothing.
<1>5. ASSUME pc[c] \notin {"join_count", "join_insert", "submit_count", "submit_finish"}
      PROVE  UNCHANGED <<knocked, verdict>>
  <2>1. Knocked(c)' = Knocked(c) /\ Verdict(c)' = Verdict(c)
    BY <1>4, <1>5 DEF Knocked, Verdict
  <2> QED
    BY <1>2, <2>1, OneVisitor DEF knocked, verdict
<1>6. ASSUME pc[c] = "create_insert", db_create_room(r, u, TRUE) PROVE Abs!Create(c, r)
  BY <1>1, <1>2, <1>3, <1>5, <1>6
     DEF db_create_room, Free, Abs!Create, Abs!visit, knocked, verdict
<1>7. ASSUME pc[c] = "join_insert", db_join_room(r, u, TRUE)
      PROVE  Abs!Enter(c)
  <2>1. Knocked(c) = r /\ Knocked(c)' = NoRoom /\ Verdict(c)' = Verdict(c)
    BY <1>1, <1>4, <1>7 DEF Knocked, Verdict
  <2>2. /\ knocked[c] = r /\ verdict' = verdict
        /\ knocked' = [knocked EXCEPT ![c] = NoRoom]
    BY <1>2, <2>1, OneVisitor DEF knocked, verdict
  <2>3. Exists(r)
    BY <1>2, <1>7 DEF db_join_room, storeVars
  <2>4. creator[r] # NoUser
    BY <1>2, <2>3, StoreAssumption DEF RoomOK
  <2>5. /\ participants' = [participants EXCEPT ![r] = @ \cup {u}]
        /\ UNCHANGED <<status, creator, results>>
    BY <1>2, <1>7, <2>3 DEF db_join_room
  <2> QED
    BY <1>1, <1>2, <1>3, <2>2, <2>4, <2>5 DEF Abs!Enter, knocked, verdict
<1>8. ASSUME pc[c] = "leave_delete", db_delete_room(r, TRUE) PROVE Abs!Delete(c, r)
  <2>1. u = creator[r]
    BY <1>1, <1>2, <1>8 DEF db_delete_room, RemembersOK
  <2> QED
    BY <1>1, <1>2, <1>3, <1>5, <1>8, <2>1
       DEF db_delete_room, Abs!Delete, Abs!visit, knocked, verdict
<1>9. ASSUME pc[c] = "leave_remove", db_leave_room(r, u, TRUE) PROVE Abs!Leave(c, r)
  <2>1. Exists(r)
    <3>1. ASSUME participants[r] = {} PROVE FALSE
      <4>1. /\ participants' = [participants EXCEPT ![r] = @ \ {u}]
            /\ UNCHANGED <<status, creator, results>>
        BY <1>9 DEF db_leave_room
      <4>2. participants[r] \ {u} = participants[r]
        BY <3>1
      <4>3. participants' = participants
        BY <1>2, <4>1, <4>2
      <4> QED
        BY <4>1, <4>3 DEF storeVars
    <3> QED
      BY <1>2, <3>1 DEF RoomOK
  <2>2. u \in participants[r] \ {creator[r]}
    BY <1>1, <1>2, <1>9, <2>1 DEF RemembersOK, VisitOK, LeaveLabel
  <2> QED
    BY <1>1, <1>3, <1>5, <1>9, <2>2 DEF db_leave_room, Abs!Leave, Abs!visit, knocked, verdict
<1>10. ASSUME pc[c] = "start_update", SetStatus(r, "IN_PROGRESS", TRUE)
       PROVE  Abs!Start(c, r)
  <2>1. Exists(r)
    BY <1>2, <1>10 DEF SetStatus, storeVars
  <2>2. creator[r] = u /\ status[r] = "NOT_STARTED"
    BY <1>1, <1>2, <1>10, <2>1 DEF RemembersOK, VisitOK
  <2> QED
    BY <1>1, <1>3, <1>5, <1>10, <2>1, <2>2
       DEF SetStatus, Abs!Start, Abs!visit, knocked, verdict
<1>11. ASSUME pc[c] = "submit_finish", SetStatus(r, "FINISHED", TRUE)
       PROVE  Abs!Finish(c)
  <2>1. Knocked(c)' = Knocked(c) /\ Verdict(c) = r /\ Verdict(c)' = NoRoom
    BY <1>1, <1>4, <1>11 DEF Knocked, Verdict
  <2>2. /\ verdict[c] = r /\ knocked' = knocked
        /\ verdict' = [verdict EXCEPT ![c] = NoRoom]
    BY <1>2, <2>1, OneVisitor DEF knocked, verdict
  <2>3. Exists(r) /\ status[r] # "FINISHED"
    BY <1>2, <1>11 DEF SetStatus, storeVars
  <2>4. status[r] = "IN_PROGRESS"
    BY <1>1, <1>2, <1>11, <2>3
       DEF RemembersOK, SubmitLabel, Past, Exists, RowStatus, Started
  <2> QED
    BY <1>2, <1>3, <1>11, <2>2, <2>3, <2>4 DEF SetStatus, Abs!Finish, knocked, verdict
<1>12. ASSUME pc[c] = "submit_insert", NEW s \in Score, db_submit_exam(r, u, s, TRUE)
       PROVE  Abs!Submit(c, r, s)
  <2>1. Exists(r) /\ u \in User /\ results[r][u] = NoScore
    BY <1>12 DEF db_submit_exam
  <2>2. u \in participants[r] /\ status[r] \in {"IN_PROGRESS", "FINISHED"}
    BY <1>1, <1>2, <1>12, <2>1
       DEF RemembersOK, VisitOK, SubmitLabel, Past, Exists, RowStatus, Started
  <2> QED
    BY <1>1, <1>3, <1>5, <1>12, <2>1, <2>2
       DEF db_submit_exam, Abs!Submit, Abs!Submitted, Abs!visit, knocked, verdict
<1> QED
  BY <1>1, <1>6, <1>7, <1>8, <1>9, <1>10, <1>11, <1>12, WriteCases DEF Abs!Next

\* ExamRooms has an instance of FiniteSets of its own, and counts with it.
LEMMA SameCardinality ==
  ASSUME NEW S PROVE Abs!Cardinality(S) = Cardinality(S)
BY DEF Abs!Cardinality, Cardinality

\* A call of a handler.
LEMMA ContinueImplements ==
  ASSUME ~IdReuse, ~DbMayFail, VInv, NEW c \in Client, Continue(c)
  PROVE  Abs!Next \/ UNCHANGED Abs!vars
<1>1. TypeInv /\ user' = user
  BY ContinueUser DEF VInv, IInv
<1>2. ASSUME UNCHANGED storeVars, pc'[c] \notin {"join_count", "join_insert", "submit_finish"}
      PROVE  Abs!Next
  BY <1>1, <1>2, Withdraws DEF Abs!Next
<1>3. ASSUME JoinCount(c), pc'[c] = "join_insert" PROVE UNCHANGED Abs!vars
  <2>1. /\ pc[c] = "join_count" /\ UNCHANGED storeVars /\ arg'[c] = arg[c]
    BY <1>1, <1>3 DEF JoinCount, At, Proceed, Return, Goto, TypeInv, ThreadTypeOK
  <2>2. Knocked(c)' = Knocked(c) /\ Verdict(c)' = Verdict(c)
    BY <1>3, <2>1 DEF Knocked, Verdict
  <2>3. UNCHANGED <<knocked, verdict>>
    BY <1>1, <2>2, OneVisitor DEF knocked, verdict
  <2> QED
    BY <1>1, <2>1, <2>3 DEF Abs!vars, storeVars, knocked, verdict
<1>4. ASSUME SubmitCount(c), ~Return(c) PROVE Abs!Next
  <2>1. PICK r \in RoomId, u \in User : r = arg[c] /\ u = user[c]
    BY ContinueBusy DEF VInv, IInv, TypeInv, BusyOK
  <2>2. /\ pc[c] = "submit_count" /\ Goto(c, "submit_finish") /\ UNCHANGED storeVars
        /\ participants[r] # {}
        /\ Cardinality(Submitted(r)) >= Cardinality(participants[r])
    BY <1>4, <2>1 DEF SubmitCount, At, Proceed, db_check_all_submitted, OnError
  <2>3. u \in Submitted(r)
    BY <2>1, <2>2 DEF VInv, IInv, RoomOK, VisitOK
  <2>4. pc'[c] = "submit_finish" /\ arg'[c] = r
    BY <1>1, <2>1, <2>2, GoesTo DEF Label, SubmitLabel
  <2>5. /\ Knocked(c) = NoRoom /\ Verdict(c) = NoRoom
        /\ Knocked(c)' = NoRoom /\ Verdict(c)' = r
    BY <2>2, <2>4 DEF Knocked, Verdict
  <2>6. /\ knocked[c] = NoRoom /\ verdict[c] = NoRoom
        /\ knocked' = knocked /\ verdict' = [verdict EXCEPT ![c] = r]
    BY <1>1, <2>5, OneVisitor DEF knocked, verdict
  <2>7. Abs!Complete(r)
    BY <2>2, SameCardinality DEF Abs!Complete, Abs!Submitted, Submitted
  <2>8. Abs!Judge(c, r)
    BY <1>1, <2>1, <2>2, <2>3, <2>6, <2>7
       DEF Abs!Judge, Abs!Submitted, Submitted, Abs!room, storeVars, knocked, verdict
  <2> QED
    BY <2>8 DEF Abs!Next
<1>5. JoinCount(c) \/ SubmitCount(c) => UNCHANGED storeVars
  BY DEF JoinCount, SubmitCount
<1>6. JoinCount(c) => pc'[c] \in {"idle", "join_insert"}
  BY <1>1 DEF JoinCount, Proceed, Return, Goto, TypeInv, ThreadTypeOK
<1>7. Return(c) => pc'[c] = "idle"
  BY <1>1 DEF Return, TypeInv, ThreadTypeOK
<1>8. CASE JoinCount(c) \/ SubmitCount(c)
  BY <1>2, <1>3, <1>4, <1>5, <1>6, <1>7, <1>8
<1>9. CASE ~JoinCount(c) /\ ~SubmitCount(c)
  BY <1>1, <1>2, <1>9, ContinueLeaves, ContinueWrites, WriteImplements
<1> QED
  BY <1>8, <1>9

\* ImplementsExamRooms: the handlers, interleaved call by call, do what ExamRooms
\* says and nothing else, for every number of connections, users and rooms.
THEOREM Refinement ==
  ASSUME ~IdReuse, ~DbMayFail, ~SharedLogin
  PROVE  Spec => ImplementsExamRooms
<1>1. Init => Abs!Init
  BY DEF Init, StoreInit, Abs!Init, Knocked, Verdict
<1>2. VInv /\ [Next]_vars => [Abs!Next]_(Abs!vars)
  <2> SUFFICES ASSUME VInv, [Next]_vars PROVE Abs!Next \/ UNCHANGED Abs!vars
    OBVIOUS
  <2>1. ASSUME NEW c \in Client, Command(c) PROVE Abs!Next
    BY <2>1, CommandImplements DEF VInv, IInv
  <2>2. ASSUME NEW c \in Client, Continue(c) PROVE Abs!Next \/ UNCHANGED Abs!vars
    BY <2>2, ContinueImplements
  <2>3. ASSUME Crash PROVE Abs!Restart
    BY <2>3 DEF Crash, Abs!Restart, Abs!room, storeVars, Knocked, Verdict
  <2>4. CASE Tick \/ UNCHANGED vars
    BY <2>4 DEF Tick, vars, Abs!vars, storeVars, threadVars, sessionVars, Knocked, Verdict
  <2> QED
    BY <2>1, <2>2, <2>3, <2>4 DEF Next, Abs!Next
<1> QED
  BY <1>1, <1>2, VisitInvariant, PTL DEF Spec, ImplementsExamRooms, Abs!Spec
====
