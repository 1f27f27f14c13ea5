----------------------------- MODULE RoomService -----------------------------
(***************************************************************************)
(* The room and exam commands: the handlers of server/room/room.c and      *)
(* server/exam/exam.c, each run by the thread of one connection.           *)
(*                                                                         *)
(* A handler is a chain of db_* calls.  Between two calls every other      *)
(* thread may run, so each call is a step of its own and pc[c] names the   *)
(* call the thread makes next.  A command that its first call refuses      *)
(* changes nothing and is a stuttering step.  Response texts and the       *)
(* activity log are left out.                                              *)
(***************************************************************************)
EXTENDS RoomStore

CONSTANTS
  Client,            \* connections (a slot of server->clients and its thread)
  MAX_PARTICIPANTS,  \* 50 in the code
  SharedLogin,       \* two connections may be logged in as one user
  Input              \* the inputs the environment offers in this model

NoRoom == 0

Inputs == {"CREATE_ROOM", "JOIN_ROOM", "LEAVE_ROOM", "START_EXAM", "GET_EXAM",
           "SUBMIT_EXAM", "VIEW_RESULT", "LOGOUT", "DISCONNECT", "CRASH"}

ASSUME ServiceAssumption ==
  /\ IsFiniteSet(Client)
  /\ MAX_PARTICIPANTS \in Nat \ {0}
  /\ SharedLogin \in BOOLEAN
  /\ Input \subseteq Inputs

VARIABLES
  now,           \* time(NULL)
  pc,            \* the call each thread makes next; "idle": in recv_line
  arg,           \* the room id its command names
  user,          \* client->username; NoUser: not authenticated
  current_room,  \* client->current_room
  told           \* the rooms whose "125 START_OK" the connection was sent

threadVars == <<pc, arg>>
sessionVars == <<user, current_room, told>>
vars == <<status, creator, participants, results,
          now, pc, arg, user, current_room, told>>

CreateLabel == {"create_insert", "create_enter"}
JoinLabel == {"join_count", "join_insert", "join_enter"}
LeaveLabel == {"leave_creator", "leave_delete", "leave_remove", "leave_exit"}
StartLabel == {"start_creator", "start_update", "start_broadcast"}
GetLabel == {"get_participant", "get_creator", "get_questions"}
SubmitLabel == {"submit_participant", "submit_creator", "submit_check",
                "submit_insert", "submit_exit", "submit_count", "submit_finish"}
ViewLabel == {"view_leaderboard"}
Label == {"idle"} \cup CreateLabel \cup JoinLabel \cup LeaveLabel
           \cup StartLabel \cup GetLabel \cup SubmitLabel \cup ViewLabel

TypeOK ==
  /\ StoreTypeOK
  /\ now \in RoomId \cup {NoRoom}
  /\ pc \in [Client -> Label]
  /\ arg \in [Client -> RoomId \cup {NoRoom}]
  /\ user \in [Client -> User \cup {NoUser}]
  /\ current_room \in [Client -> RoomId \cup {NoRoom}]
  /\ told \in [Client -> SUBSET RoomId]

Init ==
  /\ StoreInit
  /\ now = NoRoom
  /\ pc = [c \in Client |-> "idle"]
  /\ arg = [c \in Client |-> NoRoom]
  /\ user = [c \in Client |-> NoUser]
  /\ current_room = [c \in Client |-> NoRoom]
  /\ told = [c \in Client |-> {}]

----------------------------------------------------------------------------
(* How a thread moves. *)

\* The thread read a command naming room r from an authenticated client and
\* is past its first call.
Begin(c, cmd, r, label) ==
  /\ cmd \in Input
  /\ pc[c] = "idle"
  /\ user[c] # NoUser
  /\ pc' = [pc EXCEPT ![c] = label]
  /\ arg' = [arg EXCEPT ![c] = r]

At(c, label) == pc[c] = label

Goto(c, label) == pc' = [pc EXCEPT ![c] = label] /\ UNCHANGED arg

Return(c) ==
  /\ pc' = [pc EXCEPT ![c] = "idle"]
  /\ arg' = [arg EXCEPT ![c] = NoRoom]

\* The handler goes on when its call reports ok and returns otherwise.
Proceed(c, ok, label) == IF ok THEN Goto(c, label) ELSE Return(c)

SetCurrentRoom(c, r) ==
  /\ current_room' = [current_room EXCEPT ![c] = r]
  /\ UNCHANGED <<user, told>>

----------------------------------------------------------------------------
(* CREATE_ROOM *)

\* time(NULL) is the id; the parameters were in order.
CreateId(c) ==
  /\ now # NoRoom
  /\ Begin(c, "CREATE_ROOM", now, "create_insert")
  /\ UNCHANGED <<storeVars, now, sessionVars>>

CreateInsert(c) ==
  /\ At(c, "create_insert")
  /\ \E ok \in BOOLEAN : /\ db_create_room(arg[c], user[c], ok)
                         /\ Proceed(c, ok, "create_enter")
  /\ UNCHANGED <<now, sessionVars>>

CreateEnter(c) ==
  /\ At(c, "create_enter")
  /\ SetCurrentRoom(c, arg[c])
  /\ Return(c)
  /\ UNCHANGED <<storeVars, now>>

----------------------------------------------------------------------------
(* JOIN_ROOM *)

\* Mutant: the room is looked for and its status is not.
JoinStatusM(c, r) ==
  /\ \E s \in db_get_room_status(r) : s # "NOT_FOUND"
  /\ Begin(c, "JOIN_ROOM", r, "join_count")
  /\ UNCHANGED <<storeVars, now, sessionVars>>

JoinStatus(c, r) ==
  /\ "NOT_STARTED" \in db_get_room_status(r)
  /\ Begin(c, "JOIN_ROOM", r, "join_count")
  /\ UNCHANGED <<storeVars, now, sessionVars>>

\* Mutant: the full room is let in one too late.
JoinCountM(c) ==
  /\ At(c, "join_count")
  /\ \E n \in db_get_room_participant_count(arg[c]) :
       Proceed(c, n <= MAX_PARTICIPANTS, "join_insert")
  /\ UNCHANGED <<storeVars, now, sessionVars>>

JoinCount(c) ==
  /\ At(c, "join_count")
  /\ \E n \in db_get_room_participant_count(arg[c]) :
       Proceed(c, n < MAX_PARTICIPANTS, "join_insert")
  /\ UNCHANGED <<storeVars, now, sessionVars>>

JoinInsert(c) ==
  /\ At(c, "join_insert")
  /\ \E ok \in BOOLEAN : /\ db_join_room(arg[c], user[c], ok)
                         /\ Proceed(c, ok, "join_enter")
  /\ UNCHANGED <<now, sessionVars>>

\* Mutant: the wrong string is copied into current_room.
JoinEnterM(c) ==
  /\ At(c, "join_enter")
  /\ SetCurrentRoom(c, user[c])
  /\ Return(c)
  /\ UNCHANGED <<storeVars, now>>

JoinEnter(c) ==
  /\ At(c, "join_enter")
  /\ SetCurrentRoom(c, arg[c])
  /\ Return(c)
  /\ UNCHANGED <<storeVars, now>>

----------------------------------------------------------------------------
(* LEAVE_ROOM: a participant leaves, the creator deletes the room. *)

LeaveParticipant(c, r) ==
  /\ TRUE \in db_is_participant(r, user[c])
  /\ Begin(c, "LEAVE_ROOM", r, "leave_creator")
  /\ UNCHANGED <<storeVars, now, sessionVars>>

\* Mutant: the creator leaves like everybody else.
LeaveCreatorM(c) ==
  /\ At(c, "leave_creator")
  /\ Goto(c, "leave_remove")
  /\ UNCHANGED <<storeVars, now, sessionVars>>

LeaveCreator(c) ==
  /\ At(c, "leave_creator")
  /\ \E mine \in db_is_room_creator(arg[c], user[c]) :
       Goto(c, IF mine THEN "leave_delete" ELSE "leave_remove")
  /\ UNCHANGED <<storeVars, now, sessionVars>>

LeaveDelete(c) ==
  /\ At(c, "leave_delete")
  /\ \E ok \in BOOLEAN : /\ db_delete_room(arg[c], ok)
                         /\ Proceed(c, ok, "leave_exit")
  /\ UNCHANGED <<now, sessionVars>>

LeaveRemove(c) ==
  /\ At(c, "leave_remove")
  /\ \E ok \in BOOLEAN : /\ db_leave_room(arg[c], user[c], ok)
                         /\ Proceed(c, ok, "leave_exit")
  /\ UNCHANGED <<now, sessionVars>>

\* current_room is cleared whichever room was left.
LeaveExit(c) ==
  /\ At(c, "leave_exit")
  /\ SetCurrentRoom(c, NoRoom)
  /\ Return(c)
  /\ UNCHANGED <<storeVars, now>>

----------------------------------------------------------------------------
(* START_EXAM *)

\* Any other status is refused, after the creator check.
StartStatus(c, r) ==
  /\ "NOT_STARTED" \in db_get_room_status(r)
  /\ Begin(c, "START_EXAM", r, "start_creator")
  /\ UNCHANGED <<storeVars, now, sessionVars>>

\* Mutant: the room is told before its row is updated.
StartCreatorM(c) ==
  /\ At(c, "start_creator")
  /\ \E mine \in db_is_room_creator(arg[c], user[c]) :
       Proceed(c, mine, "start_broadcast")
  /\ UNCHANGED <<storeVars, now, sessionVars>>

StartCreator(c) ==
  /\ At(c, "start_creator")
  /\ \E mine \in db_is_room_creator(arg[c], user[c]) :
       Proceed(c, mine, "start_update")
  /\ UNCHANGED <<storeVars, now, sessionVars>>

StartUpdate(c) ==
  /\ At(c, "start_update")
  /\ \E ok \in BOOLEAN : /\ db_start_room(arg[c], ok)
                         /\ Proceed(c, ok, "start_broadcast")
  /\ UNCHANGED <<now, sessionVars>>

\* Under clients_mutex, to every connection whose current_room is the room.
StartBroadcast(c) ==
  /\ At(c, "start_broadcast")
  /\ told' = [d \in Client |-> IF current_room[d] = arg[c]
                                 THEN told[d] \cup {arg[c]} ELSE told[d]]
  /\ Return(c)
  /\ UNCHANGED <<storeVars, now, user, current_room>>

----------------------------------------------------------------------------
(* GET_EXAM: a member reads the questions of a running exam. *)

GetStatus(c, r) ==
  /\ "IN_PROGRESS" \in db_get_room_status(r)
  /\ Begin(c, "GET_EXAM", r, "get_participant")
  /\ UNCHANGED <<storeVars, now, sessionVars>>

\* Once is_participant holds, the creator query cannot change the outcome.
GetParticipant(c) ==
  /\ At(c, "get_participant")
  /\ \E member \in db_is_participant(arg[c], user[c]) :
       Goto(c, IF member THEN "get_questions" ELSE "get_creator")
  /\ UNCHANGED <<storeVars, now, sessionVars>>

GetCreator(c) ==
  /\ At(c, "get_creator")
  /\ \E mine \in db_is_room_creator(arg[c], user[c]) :
       Proceed(c, mine, "get_questions")
  /\ UNCHANGED <<storeVars, now, sessionVars>>

GetQuestions(c) ==
  /\ At(c, "get_questions")
  /\ Return(c)
  /\ UNCHANGED <<storeVars, now, sessionVars>>

----------------------------------------------------------------------------
(* SUBMIT_EXAM *)

\* Mutant: a room that has not started takes submissions.
SubmitStatusM(c, r) ==
  /\ \E s \in db_get_room_status(r) : s \in {"NOT_STARTED", "IN_PROGRESS"}
  /\ Begin(c, "SUBMIT_EXAM", r, "submit_participant")
  /\ UNCHANGED <<storeVars, now, sessionVars>>

SubmitStatus(c, r) ==
  /\ "IN_PROGRESS" \in db_get_room_status(r)
  /\ Begin(c, "SUBMIT_EXAM", r, "submit_participant")
  /\ UNCHANGED <<storeVars, now, sessionVars>>

\* Mutant: nobody asks whether the user is in the room.
SubmitParticipantM(c) ==
  /\ At(c, "submit_participant")
  /\ Goto(c, "submit_check")
  /\ UNCHANGED <<storeVars, now, sessionVars>>

SubmitParticipant(c) ==
  /\ At(c, "submit_participant")
  /\ \E member \in db_is_participant(arg[c], user[c]) :
       Goto(c, IF member THEN "submit_check" ELSE "submit_creator")
  /\ UNCHANGED <<storeVars, now, sessionVars>>

SubmitCreator(c) ==
  /\ At(c, "submit_creator")
  /\ \E mine \in db_is_room_creator(arg[c], user[c]) :
       Proceed(c, mine, "submit_check")
  /\ UNCHANGED <<storeVars, now, sessionVars>>

SubmitCheck(c) ==
  /\ At(c, "submit_check")
  /\ \E already \in db_check_already_submitted(arg[c], user[c]) :
       Proceed(c, ~already, "submit_insert")
  /\ UNCHANGED <<storeVars, now, sessionVars>>

\* The answers are graded against questions that never change; a wrong number
\* of answers ends the command, any other submission has some score.
SubmitInsert(c) ==
  /\ At(c, "submit_insert")
  /\ \/ UNCHANGED storeVars /\ Return(c)
     \/ \E s \in Score, ok \in BOOLEAN :
          /\ db_submit_exam(arg[c], user[c], s, ok)
          /\ Proceed(c, ok, "submit_exit")
  /\ UNCHANGED <<now, sessionVars>>

\* current_room is cleared whichever room was submitted to.
SubmitExit(c) ==
  /\ At(c, "submit_exit")
  /\ SetCurrentRoom(c, NoRoom)
  /\ Goto(c, "submit_count")
  /\ UNCHANGED <<storeVars, now>>

SubmitCount(c) ==
  /\ At(c, "submit_count")
  /\ \E all \in db_check_all_submitted(arg[c]) :
       Proceed(c, all, "submit_finish")
  /\ UNCHANGED <<storeVars, now, sessionVars>>

SubmitFinish(c) ==
  /\ At(c, "submit_finish")
  /\ \E ok \in BOOLEAN : db_finish_room(arg[c], ok)
  /\ Return(c)
  /\ UNCHANGED <<now, sessionVars>>

----------------------------------------------------------------------------
(* VIEW_RESULT: the leaderboard of a finished room, for any user. *)

ViewStatus(c, r) ==
  /\ "FINISHED" \in db_get_room_status(r)
  /\ Begin(c, "VIEW_RESULT", r, "view_leaderboard")
  /\ UNCHANGED <<storeVars, now, sessionVars>>

ViewLeaderboard(c) ==
  /\ At(c, "view_leaderboard")
  /\ Return(c)
  /\ UNCHANGED <<storeVars, now, sessionVars>>

----------------------------------------------------------------------------
(* Connections, the process and the clock.  Module SessionService has the  *)
(* steps of LOGIN and of a disconnect; here each is one step.              *)

\* Also from a connection that is logged in, as another user; current_room stays.
Login(c, u) ==
  /\ pc[c] = "idle"
  /\ SharedLogin \/ \A d \in Client : user[d] # u
  /\ user' = [user EXCEPT ![c] = u]
  /\ UNCHANGED <<storeVars, now, threadVars, current_room, told>>

\* handle_logout clears the session and the user name, not current_room.
Logout(c) ==
  /\ "LOGOUT" \in Input
  /\ pc[c] = "idle"
  /\ user[c] # NoUser
  /\ user' = [user EXCEPT ![c] = NoUser]
  /\ UNCHANGED <<storeVars, now, threadVars, current_room, told>>

\* recv_line fails and the thread ends; the next connection gets the slot,
\* zeroed.
Disconnect(c) ==
  /\ "DISCONNECT" \in Input
  /\ pc[c] = "idle"
  /\ user' = [user EXCEPT ![c] = NoUser]
  /\ current_room' = [current_room EXCEPT ![c] = NoRoom]
  /\ told' = [told EXCEPT ![c] = {}]
  /\ UNCHANGED <<storeVars, now, threadVars>>

\* The server process dies between two calls and is started again: the
\* tables stay, every connection is gone.
Crash ==
  /\ "CRASH" \in Input
  /\ pc' = [c \in Client |-> "idle"]
  /\ arg' = [c \in Client |-> NoRoom]
  /\ user' = [c \in Client |-> NoUser]
  /\ current_room' = [c \in Client |-> NoRoom]
  /\ told' = [c \in Client |-> {}]
  /\ UNCHANGED <<storeVars, now>>

Tick ==
  /\ now < MaxTime
  /\ now' = now + 1
  /\ UNCHANGED <<storeVars, threadVars, sessionVars>>

----------------------------------------------------------------------------

\* A client sends a command.
Command(c) ==
  \/ CreateId(c) \/ Logout(c) \/ Disconnect(c)
  \/ \E u \in User : Login(c, u)
  \/ \E r \in RoomId : \/ JoinStatus(c, r) \/ LeaveParticipant(c, r)
                       \/ StartStatus(c, r) \/ GetStatus(c, r)
                       \/ SubmitStatus(c, r) \/ ViewStatus(c, r)

\* The thread of c goes on with the command it is handling.
Continue(c) ==
  \/ CreateInsert(c) \/ CreateEnter(c)
  \/ JoinCount(c) \/ JoinInsert(c) \/ JoinEnter(c)
  \/ LeaveCreator(c) \/ LeaveDelete(c) \/ LeaveRemove(c) \/ LeaveExit(c)
  \/ StartCreator(c) \/ StartUpdate(c) \/ StartBroadcast(c)
  \/ GetParticipant(c) \/ GetCreator(c) \/ GetQuestions(c)
  \/ SubmitParticipant(c) \/ SubmitCreator(c) \/ SubmitCheck(c)
  \/ SubmitInsert(c) \/ SubmitExit(c) \/ SubmitCount(c) \/ SubmitFinish(c)
  \/ ViewLeaderboard(c)

Next ==
  \/ \E c \in Client : Command(c) \/ Continue(c)
  \/ Crash
  \/ Tick

Spec == Init /\ [][Next]_vars

\* The scheduler runs every thread that has a call to make; nothing forces a
\* client to send a command.
FairSpec == Spec /\ \A c \in Client : WF_vars(Continue(c))
----------------------------------------------------------------------------
(* What the rooms promise. *)

\* The creator of a room stays in its participants table, because the only
\* LEAVE_ROOM that could remove the row deletes the room (room.c:244-256).
\* Submitting and starting rely on it.
CreatorIsMember ==
  \A r \in RoomId : Exists(r) => creator[r] \in participants[r]

\* A room that was never started has no result: the status SUBMIT_EXAM read
\* (exam.c:290-310) may be old when it inserts, but it is never NOT_STARTED again.
ResultsOnlyAfterStart ==
  \A r \in RoomId : Submitted(r) # {} => status[r] \in Started

\* A connection was sent "125 START_OK" only for a room that has started, or
\* that started and has been deleted (exam.c:228-246).
ToldMeansStarted ==
  \A c \in Client : \A r \in told[c] : status[r] \in Started \cup {"DELETED"}

\* JOIN_ROOM counts and inserts in two calls (room.c:186-195), so a room may
\* go over its limit, but by no more than one place for each other thread.
OverfullBounded ==
  \A r \in RoomId :
    Cardinality(participants[r]) <= MAX_PARTICIPANTS + Cardinality(Client) - 1

\* Whoever's answers are stored is a participant at that moment, although
\* SUBMIT_EXAM looked some calls before (exam.c:313-391).
SubmitterIsMember ==
  [][\A r \in RoomId : Submitted(r)' \ Submitted(r) \subseteq participants[r]]_vars

\* A stored score never changes and goes only with its room, whoever submits
\* again, twice at once, or from two connections (exam.c:324-391).
ResultsAreFinal ==
  [][\A r \in RoomId : \A u \in Submitted(r) :
       results'[r][u] = results[r][u] \/ status'[r] = "DELETED"]_vars

\* Only the creator's own START_EXAM starts a room and only the creator's own
\* LEAVE_ROOM deletes it, also when calls fail and from several connections
\* (exam.c:204-228, room.c:244-251).
OnlyCreatorStartsOrDeletes ==
  [][\A r \in RoomId :
       /\ status'[r] # status[r]
       /\ status'[r] \in {"IN_PROGRESS", "DELETED"}
       => \E c \in Client : /\ arg[c] = r
                            /\ user[c] = creator[r]
                            /\ pc[c] \in {"start_update", "leave_delete"}]_vars

\* Everyone in a running exam has submitted.
AllIn(r) == status[r] = "IN_PROGRESS" /\ participants[r] \subseteq Submitted(r)

\* Whoever's submission completes an exam finishes it (exam.c:391-418), also
\* when others submit, join or leave at the same time: it ends up finished or
\* deleted, or somebody without a result is in it again.
AutoFinish ==
  \A r \in RoomId, c \in Client :
    (AllIn(r) /\ arg[c] = r /\ pc[c] \in {"submit_exit", "submit_count"})
      ~> ~AllIn(r)

----------------------------------------------------------------------------
(* What the comments say and the code does not do. *)

\* room.h:47 "Check room status = NOT_STARTED": nobody enters a room that has
\* started.
JoinOnlyBeforeStart ==
  [][\A r \in RoomId :
       participants'[r] \ participants[r] # {}
         => status[r] \notin Started]_vars

\* exam.h:49-50 "Check room status = NOT_STARTED", "Update room status =
\* IN_PROGRESS": no START_EXAM starts an exam that is over.
StartOnlyNotStarted ==
  [][\A r \in RoomId :
       status[r] # status'[r] /\ status'[r] = "IN_PROGRESS"
         => status[r] = "NOT_STARTED"]_vars

\* database.c:978 "Check if all participants in a room have submitted their
\* exams": a room is finished only when each of its participants has a result.
FinishedMeansAllSubmitted ==
  [][\A r \in RoomId :
       status[r] = "IN_PROGRESS" /\ status'[r] = "FINISHED"
         => participants[r] \subseteq Submitted(r)]_vars
=============================================================================
