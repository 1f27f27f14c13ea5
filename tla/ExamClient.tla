----------------------------- MODULE ExamClient -----------------------------
(***************************************************************************)
(* The client application (client/main.c, client/handle/handle.c,          *)
(* client/client.c), one per account, the two byte streams between it and  *)
(* the thread that serves it, and that thread (server/server.c).           *)
(*                                                                         *)
(* The application sends a command and takes the next line the server      *)
(* sends for its response.  START_EXAM has no response of its own: the     *)
(* broadcast to the room is one line more for everybody else, and it may   *)
(* arrive before a response that is still to come.                         *)
(*                                                                         *)
(* A line waits in the buffers of the connection until the application     *)
(* reads it.  When they are full, the thread that sends is blocked, and if *)
(* it is in the broadcast it is blocked with clients_mutex locked.  Either *)
(* side may end the connection, and the other learns of it later.          *)
(*                                                                         *)
(* A handler's database calls are one step here (RoomService has them one  *)
(* by one); what it does after them, and in which order, is kept in todo.  *)
(* A line is received whole: each is one send of a short buffer.           *)
(*                                                                         *)
(* The connections are in slots of their own.  After a slot was freed, the *)
(* next accept takes it, also when its old thread is still at work; both   *)
(* threads then have one descriptor (SessionService).  This module goes    *)
(* that far and stops: what it says, it says of the time before.           *)
(***************************************************************************)
EXTENDS RoomStore, Sequences

CONSTANTS
  Input,    \* the menu entries, and the ends, this model offers
  Buffer    \* the lines that fit into the buffers of a connection

Commands == {"LOGIN", "LOGOUT", "QUERY", "CREATE_ROOM", "JOIN_ROOM",
             "LEAVE_ROOM", "START_EXAM", "SUBMIT_EXAM"}
Ends == {"EXIT", "KILL", "CRASH"}

ASSUME ClientAssumption ==
  /\ Input \subseteq Commands \cup {"EXIT_EXAM"} \cup Ends
  /\ Buffer \in Nat \ {0}
  /\ User # {}
  /\ ~DbMayFail /\ ~IdReuse

NoRoom == 0

VARIABLES
  up,            \* the server runs
  slots,         \* the account that is served in each slot of server->clients
  active,        \* client->active in the slot of the account
  auth,          \* client->username is set there
  current_room,  \* client->current_room there
  phase,         \* where the thread of the account is in handle_client
  todo,          \* what it still does for the command it serves
  mutex,         \* clients_mutex: who broadcasts, and the slot he is at
  inbox,         \* commands on their way to the server
  wire,          \* lines on their way to the application
  reset,         \* the connections that do not take a send any more
  reused,        \* history: a connection was accepted into a slot that was freed
  asked,         \* the command whose response the application waits for
  state,         \* the application's client.state
  room,          \* its client.current_room
  is_creator     \* its client.is_creator

sessionVars == <<slots, active, auth, current_room>>
serverVars == <<up, slots, active, auth, current_room, phase, todo, mutex>>
appVars == <<state, room, is_creator>>
vars == <<status, creator, participants, results, up, slots, active, auth,
          current_room, phase, todo, mutex, inbox, wire, reset, reused, asked,
          state, room, is_creator>>

\* "GONE": the program has ended.
AppState == {"GONE", "DISCONNECTED", "CONNECTED", "AUTHENTICATED", "IN_ROOM", "IN_EXAM"}

\* One line, or command, and the room id it carries.
Msg(kind, r) == [kind |-> kind, room |-> r]
Nothing == Msg("NOTHING", NoRoom)
RefusalCode == "ERROR"
OkCode == [LOGIN |-> "LOGIN_OK", LOGOUT |-> "LOGOUT_OK", QUERY |-> "DATA",
           CREATE_ROOM |-> "ROOM_CREATED", JOIN_ROOM |-> "ROOM_JOIN_OK",
           LEAVE_ROOM |-> "ROOM_LEAVE_OK", START_EXAM |-> "START_OK",
           SUBMIT_EXAM |-> "SUBMIT_OK"]
Codes == {RefusalCode} \cup {OkCode[k] : k \in Commands}

\* What is left of a handler: send a line, set current_room, tell the room,
\* finish the room if everyone has submitted.
Reply(code, r) == [do |-> "reply", code |-> code, room |-> r]
Enter(r) == [do |-> "enter", code |-> RefusalCode, room |-> r]
Tell(r) == [do |-> "tell", code |-> "START_OK", room |-> r]
Check(r) == [do |-> "check", code |-> RefusalCode, room |-> r]
Chore == [do : {"reply", "enter", "tell", "check"}, code : Codes,
          room : RoomId \cup {NoRoom}]

Slot == 0..(Cardinality(User) - 1)

\* "recv": in recv_line; "serve": in a handler and, without anything to do, at
\* the condition of the loop; "remove": before remove_client_session; "close":
\* before close; "over": its connection is closed.
Phase == {"recv", "serve", "remove", "close", "over"}
Unlocked == [holder |-> NoUser, slot |-> 0]

TypeOK ==
  /\ StoreTypeOK
  /\ up \in BOOLEAN
  /\ slots \in [Slot -> User]
  /\ active \in [User -> BOOLEAN]
  /\ auth \in [User -> BOOLEAN]
  /\ current_room \in [User -> RoomId \cup {NoRoom}]
  /\ phase \in [User -> Phase]
  /\ todo \in [User -> Seq(Chore)]
  /\ mutex \in [holder : User \cup {NoUser}, slot : Slot]
  /\ reset \subseteq User
  /\ reused \in BOOLEAN
  /\ \A u \in User : Len(wire[u]) <= Buffer
  /\ inbox \in [User -> Seq([kind : Commands, room : RoomId \cup {NoRoom}])]
  /\ wire \in [User -> Seq([kind : Codes, room : RoomId \cup {NoRoom}])]
  /\ asked \in [User -> [kind : Commands \cup {"NOTHING"},
                         room : RoomId \cup {NoRoom}]]
  /\ state \in [User -> AppState]
  /\ room \in [User -> RoomId \cup {NoRoom}]
  /\ is_creator \in [User -> BOOLEAN]

\* client_connect succeeded everywhere, in some order.  (Until a slot is freed
\* every connection gets one that was never used: one that is made later is one
\* that does nothing until then.)
Init ==
  /\ StoreInit
  /\ up = TRUE
  /\ slots \in {f \in [Slot -> User] : \A u \in User : \E i \in Slot : f[i] = u}
  /\ active = [u \in User |-> TRUE]
  /\ auth = [u \in User |-> FALSE]
  /\ current_room = [u \in User |-> NoRoom]
  /\ phase = [u \in User |-> "serve"]
  /\ todo = [u \in User |-> <<>>]
  /\ mutex = Unlocked
  /\ reset = {}
  /\ reused = FALSE
  /\ inbox = [u \in User |-> <<>>]
  /\ wire = [u \in User |-> <<>>]
  /\ asked = [u \in User |-> Nothing]
  /\ state = [u \in User |-> "CONNECTED"]
  /\ room = [u \in User |-> NoRoom]
  /\ is_creator = [u \in User |-> FALSE]

\* No slot has been used again.
Going == ~reused /\ UNCHANGED reused

----------------------------------------------------------------------------
(* The server's handlers: u's thread takes cmd, does its database calls     *)
(* and knows what is left to do.                                            *)

Then(u, chores) == todo' = [todo EXCEPT ![u] = chores]

Refuse(u) == Then(u, <<Reply(RefusalCode, NoRoom)>>) /\ UNCHANGED <<storeVars, auth>>

\* A wrong password is refused, and so is a session that is still open.
ServeLogin(u) ==
  \/ /\ auth' = [auth EXCEPT ![u] = TRUE]
     /\ Then(u, <<Reply("LOGIN_OK", NoRoom)>>)
     /\ UNCHANGED storeVars
  \/ Refuse(u)

\* current_room is kept.
ServeLogout(u) ==
  /\ auth' = [auth EXCEPT ![u] = FALSE]
  /\ Then(u, <<Reply("LOGOUT_OK", NoRoom)>>)
  /\ UNCHANGED storeVars

\* LIST_ROOMS, GET_EXAM and VIEW_RESULT: whatever comes back, it is printed.
ServeQuery(u) == Then(u, <<Reply("DATA", NoRoom)>>) /\ UNCHANGED <<storeVars, auth>>

\* Ids grow with the clock; a second CREATE_ROOM in one second is refused.
ServeCreate(u) ==
  \/ \E r \in RoomId :
       /\ \A q \in 1..(r - 1) : status[q] # "NONE"
       /\ status[r] = "NONE"
       /\ db_create_room(r, u, TRUE)
       /\ Then(u, <<Enter(r), Reply("ROOM_CREATED", r)>>)
       /\ UNCHANGED auth
  \/ Refuse(u)

ServeJoin(u, r) ==
  \/ /\ "NOT_STARTED" \in db_get_room_status(r)
     /\ db_join_room(r, u, TRUE)
     /\ Then(u, <<Enter(r), Reply("ROOM_JOIN_OK", r)>>)
     /\ UNCHANGED auth
  \/ "NOT_STARTED" \notin db_get_room_status(r) /\ Refuse(u)

ServeLeave(u, r) ==
  \/ /\ TRUE \in db_is_participant(r, u)
     /\ IF TRUE \in db_is_room_creator(r, u) THEN db_delete_room(r, TRUE)
                                             ELSE db_leave_room(r, u, TRUE)
     /\ Then(u, <<Enter(NoRoom), Reply("ROOM_LEAVE_OK", r)>>)
     /\ UNCHANGED auth
  \/ FALSE \in db_is_participant(r, u) /\ Refuse(u)

MayStart(u, r) ==
  "NOT_STARTED" \in db_get_room_status(r) /\ TRUE \in db_is_room_creator(r, u)

\* No reply: the creator learns of the start like everybody in the room.
ServeStart(u, r) ==
  \/ /\ MayStart(u, r)
     /\ db_start_room(r, TRUE)
     /\ Then(u, <<Tell(r)>>)
     /\ UNCHANGED auth
  \/ ~MayStart(u, r) /\ Refuse(u)

\* Refused, too, when the number of answers is wrong.
ServeSubmit(u, r) ==
  \/ /\ "IN_PROGRESS" \in db_get_room_status(r)
     /\ TRUE \in db_is_participant(r, u) \cup db_is_room_creator(r, u)
     /\ \E s \in Score : db_submit_exam(r, u, s, TRUE)
     /\ Then(u, <<Reply("SUBMIT_OK", r), Enter(NoRoom), Check(r)>>)
     /\ UNCHANGED auth
  \/ Refuse(u)

\* while (client->active ...): on to recv_line, or out.
Loop(u) ==
  /\ up /\ Going
  /\ phase[u] = "serve" /\ todo[u] = <<>>
  /\ phase' = [phase EXCEPT ![u] = IF active[u] THEN "recv" ELSE "remove"]
  /\ UNCHANGED <<storeVars, up, sessionVars, todo, mutex, inbox, wire, reset, asked, appVars>>

\* The command loop of u's thread: every command but LOGIN wants a login
\* (REGISTER is a QUERY here, and its answer is printed either way).
Dispatch(u) ==
  /\ up /\ Going
  /\ phase[u] = "recv"
  /\ inbox[u] # <<>>
  /\ inbox' = [inbox EXCEPT ![u] = Tail(@)]
  /\ phase' = [phase EXCEPT ![u] = "serve"]
  /\ LET cmd == Head(inbox[u]) IN
       \/ cmd.kind = "LOGIN" /\ ServeLogin(u)
       \/ cmd.kind # "LOGIN" /\ ~auth[u] /\ Refuse(u)
       \/ /\ auth[u]
          /\ \/ cmd.kind = "LOGOUT" /\ ServeLogout(u)
             \/ cmd.kind = "QUERY" /\ ServeQuery(u)
             \/ cmd.kind = "CREATE_ROOM" /\ ServeCreate(u)
             \/ cmd.kind = "JOIN_ROOM" /\ ServeJoin(u, cmd.room)
             \/ cmd.kind = "LEAVE_ROOM" /\ ServeLeave(u, cmd.room)
             \/ cmd.kind = "START_EXAM" /\ ServeStart(u, cmd.room)
             \/ cmd.kind = "SUBMIT_EXAM" /\ ServeSubmit(u, cmd.room)
  /\ UNCHANGED <<up, slots, active, current_room, mutex, wire, reset, asked, appVars>>

Gone(u) == state[u] = "GONE"

\* recv_line fails: the application has gone and its commands are served.
Eof(u) ==
  /\ up /\ Going
  /\ phase[u] = "recv"
  /\ Gone(u) /\ inbox[u] = <<>>
  /\ phase' = [phase EXCEPT ![u] = "remove"]
  /\ UNCHANGED <<storeVars, up, sessionVars, todo, mutex, inbox, wire, reset, asked, appVars>>

\* send_full: blocks while the buffers are full.  The first send to a peer that
\* has gone seems to go well.
send_full(v, line) ==
  IF Gone(v) THEN reset' = reset \cup {v} /\ UNCHANGED wire
  ELSE /\ Len(wire[v]) < Buffer
       /\ wire' = [wire EXCEPT ![v] = Append(@, line)]
       /\ UNCHANGED reset

Chosen(u) == Head(todo[u])
NextChore(u) == todo' = [todo EXCEPT ![u] = Tail(@)]

DoReply(u) ==
  /\ Chosen(u).do = "reply"
  /\ send_full(u, Msg(Chosen(u).code, Chosen(u).room))
  /\ NextChore(u)
  /\ UNCHANGED <<storeVars, current_room, mutex>>

DoEnter(u) ==
  /\ Chosen(u).do = "enter"
  /\ current_room' = [current_room EXCEPT ![u] = Chosen(u).room]
  /\ NextChore(u)
  /\ UNCHANGED <<storeVars, mutex, wire, reset>>

TellLock(u) ==
  /\ Chosen(u).do = "tell"
  /\ mutex.holder = NoUser
  /\ mutex' = [holder |-> u, slot |-> 0]
  /\ UNCHANGED <<storeVars, current_room, todo, wire, reset>>

\* Mutant: the one who started the room is skipped.
RecipientM(u, v) == v # u /\ active[v] /\ current_room[v] = Chosen(u).room

Recipient(u, v) == active[v] /\ current_room[v] = Chosen(u).room

\* broadcast_to_room goes through the slots in order.
TellSlot(u) ==
  LET v == slots[mutex.slot]
  IN /\ Chosen(u).do = "tell"
     /\ mutex.holder = u
     /\ \/ Recipient(u, v) /\ send_full(v, Msg("START_OK", Chosen(u).room))
        \/ ~Recipient(u, v) /\ UNCHANGED <<wire, reset>>
     /\ IF mutex.slot + 1 \in Slot
          THEN mutex' = [mutex EXCEPT !.slot = @ + 1] /\ UNCHANGED todo
          ELSE mutex' = Unlocked /\ NextChore(u)
     /\ UNCHANGED <<storeVars, current_room>>

DoCheck(u) ==
  /\ Chosen(u).do = "check"
  /\ LET r == Chosen(u).room IN
       \/ TRUE \in db_check_all_submitted(r) /\ db_finish_room(r, TRUE)
       \/ FALSE \in db_check_all_submitted(r) /\ UNCHANGED storeVars
  /\ NextChore(u)
  /\ UNCHANGED <<current_room, mutex, wire, reset>>

\* u's thread goes on with its handler.
Work(u) ==
  /\ up /\ Going
  /\ todo[u] # <<>>
  /\ DoReply(u) \/ DoEnter(u) \/ TellLock(u) \/ TellSlot(u) \/ DoCheck(u)
  /\ UNCHANGED <<up, slots, active, auth, phase, inbox, asked, appVars>>

\* Mutant: it returns from the loop with the mutex locked.
RemoveSessionM(u) ==
  /\ up /\ Going
  /\ phase[u] = "remove"
  /\ mutex.holder = NoUser
  /\ mutex' = [holder |-> u, slot |-> 0]
  /\ active' = [active EXCEPT ![slots[0]] = FALSE]
  /\ phase' = [phase EXCEPT ![u] = "close"]
  /\ UNCHANGED <<storeVars, up, slots, auth, current_room, todo, inbox, wire,
                 reset, asked, appVars>>

\* Whichever slot the thread has, slot 0 is marked.
RemoveSession(u) ==
  /\ up /\ Going
  /\ phase[u] = "remove"
  /\ mutex.holder = NoUser
  /\ active' = [active EXCEPT ![slots[0]] = FALSE]
  /\ phase' = [phase EXCEPT ![u] = "close"]
  /\ UNCHANGED <<storeVars, up, slots, auth, current_room, todo, mutex, inbox, wire,
                 reset, asked, appVars>>

\* close and client->active = 0.  Commands that were not read reset the
\* connection.
Close(u) ==
  /\ up /\ Going
  /\ phase[u] = "close"
  /\ phase' = [phase EXCEPT ![u] = "over"]
  /\ active' = [active EXCEPT ![u] = FALSE]
  /\ reset' = IF inbox[u] # <<>> THEN reset \cup {u} ELSE reset
  /\ inbox' = [inbox EXCEPT ![u] = <<>>]
  /\ UNCHANGED <<storeVars, up, slots, auth, current_room, todo, mutex, wire, asked, appVars>>

\* One more connection: it gets the first slot that is not active, and a slot
\* that was freed lies before those that were never used.
Accept ==
  /\ up
  /\ ~reused
  /\ mutex.holder = NoUser
  /\ \E u \in User : ~active[u]
  /\ reused' = TRUE
  /\ UNCHANGED <<storeVars, serverVars, inbox, wire, reset, asked, appVars>>

\* The process ends; what it sent before can still be read.
Die ==
  /\ up' = FALSE
  /\ phase' = [u \in User |-> "over"]
  /\ active' = [u \in User |-> FALSE]
  /\ auth' = [u \in User |-> FALSE]
  /\ current_room' = [u \in User |-> NoRoom]
  /\ todo' = [u \in User |-> <<>>]
  /\ mutex' = Unlocked
  /\ reset' = reset \cup {u \in User : inbox[u] # <<>>}
  /\ inbox' = [u \in User |-> <<>>]
  /\ UNCHANGED <<storeVars, slots, wire, asked, appVars>>

Crash == "CRASH" \in Input /\ up /\ Going /\ Die

\* The next send to a peer that has gone raises SIGPIPE, which nothing catches.
Sigpipe(u) ==
  /\ up /\ Going
  /\ todo[u] # <<>>
  /\ \E v \in reset :
       /\ Gone(v)
       /\ \/ Chosen(u).do = "reply" /\ v = u
          \/ /\ Chosen(u).do = "tell" /\ mutex.holder = u
             /\ v = slots[mutex.slot] /\ Recipient(u, v)
  /\ Die

----------------------------------------------------------------------------
(* The application. *)

Waiting(u) == asked[u] # Nothing

Become(u, s, r, c) ==
  /\ state' = [state EXCEPT ![u] = s]
  /\ room' = [room EXCEPT ![u] = r]
  /\ is_creator' = [is_creator EXCEPT ![u] = c]

Closed(u) == phase[u] = "over"

\* The program ends, with what it has not read.
Vanish(u) ==
  /\ Become(u, "GONE", NoRoom, FALSE)
  /\ wire' = [wire EXCEPT ![u] = <<>>]

\* A command sent on a connection that the server has closed is lost, and the
\* one after it ends the program (SIGPIPE).
client_create_send_command(u, kind, r) ==
  /\ Going
  /\ kind \in Input
  /\ ~Waiting(u)
  /\ \/ /\ ~Closed(u)
        /\ asked' = [asked EXCEPT ![u] = Msg(kind, r)]
        /\ inbox' = [inbox EXCEPT ![u] = Append(@, Msg(kind, r))]
        /\ UNCHANGED <<reset, wire, appVars>>
     \/ /\ Closed(u)
        /\ asked' = [asked EXCEPT ![u] = Msg(kind, r)]
        /\ reset' = reset \cup {u}
        /\ UNCHANGED <<inbox, wire, appVars>>
     \/ /\ Closed(u) /\ u \in reset
        /\ Vanish(u)
        /\ UNCHANGED <<inbox, reset, asked>>
  /\ UNCHANGED <<storeVars, serverVars>>

MenuMain(u) ==
  /\ state[u] = "CONNECTED"
  /\ \E kind \in {"LOGIN", "QUERY"} : client_create_send_command(u, kind, NoRoom)

\* Any room id can be typed in.
MenuAuthenticated(u) ==
  /\ state[u] = "AUTHENTICATED"
  /\ \/ \E kind \in {"CREATE_ROOM", "QUERY", "LOGOUT"} :
          client_create_send_command(u, kind, NoRoom)
     \/ \E r \in RoomId : client_create_send_command(u, "JOIN_ROOM", r)

MenuParticipant(u) ==
  /\ state[u] = "IN_ROOM" /\ ~is_creator[u]
  /\ client_create_send_command(u, "LEAVE_ROOM", room[u])

MenuCreator(u) ==
  /\ state[u] = "IN_ROOM" /\ is_creator[u]
  /\ \E kind \in {"START_EXAM", "LEAVE_ROOM"} :
       client_create_send_command(u, kind, room[u])

MenuExam(u) ==
  /\ state[u] = "IN_EXAM"
  /\ \E kind \in {"QUERY", "SUBMIT_EXAM"} :
       client_create_send_command(u, kind, room[u])

\* "Back": the server is not told.
ExitExam(u) ==
  /\ "EXIT_EXAM" \in Input /\ Going
  /\ state[u] = "IN_EXAM"
  /\ ~Waiting(u)
  /\ Become(u, "AUTHENTICATED", NoRoom, FALSE)
  /\ UNCHANGED <<storeVars, serverVars, inbox, wire, reset, asked>>

\* "Exit" in the first two menus, and the end of the program from outside at
\* any time.  Lines that were not read reset the connection.
Exit(u) ==
  /\ ~Gone(u) /\ Going
  /\ \/ "EXIT" \in Input /\ state[u] \in {"CONNECTED", "AUTHENTICATED"} /\ ~Waiting(u)
     \/ "KILL" \in Input
  /\ Vanish(u)
  /\ asked' = [asked EXCEPT ![u] = Nothing]
  /\ reset' = IF wire[u] # <<>> THEN reset \cup {u} ELSE reset
  /\ UNCHANGED <<storeVars, serverVars, inbox>>

(* The second half of each handle_*: what the response line does.  Any      *)
(* other code is shown as an error and changes nothing.                     *)

handle_login(u, line) ==
  asked[u].kind = "LOGIN" /\ line.kind = "LOGIN_OK"
    /\ Become(u, "AUTHENTICATED", room[u], is_creator[u])

handle_logout(u, line) ==
  asked[u].kind = "LOGOUT" /\ line.kind = "LOGOUT_OK"
    /\ Become(u, "CONNECTED", room[u], is_creator[u])

handle_create_room(u, line) ==
  asked[u].kind = "CREATE_ROOM" /\ line.kind = "ROOM_CREATED"
    /\ Become(u, "IN_ROOM", line.room, TRUE)

\* Mutant: the flag is not reset.
handle_join_roomM(u, line) ==
  asked[u].kind = "JOIN_ROOM" /\ line.kind = "ROOM_JOIN_OK"
    /\ Become(u, "IN_ROOM", asked[u].room, is_creator[u])

\* The room is the one that was typed in, not the one in the line.
handle_join_room(u, line) ==
  asked[u].kind = "JOIN_ROOM" /\ line.kind = "ROOM_JOIN_OK"
    /\ Become(u, "IN_ROOM", asked[u].room, FALSE)

handle_leave_room(u, line) ==
  asked[u].kind = "LEAVE_ROOM" /\ line.kind = "ROOM_LEAVE_OK"
    /\ Become(u, "AUTHENTICATED", NoRoom, FALSE)

\* Mutant: the status of the room becomes the state of the application.
handle_start_examM(u, line) ==
  asked[u].kind = "START_EXAM" /\ line.kind = "START_OK"
    /\ Become(u, "IN_PROGRESS", room[u], is_creator[u])

handle_start_exam(u, line) ==
  asked[u].kind = "START_EXAM" /\ line.kind = "START_OK"
    /\ Become(u, "IN_EXAM", room[u], is_creator[u])

\* is_creator is kept.
handle_submit_exam(u, line) ==
  asked[u].kind = "SUBMIT_EXAM" /\ line.kind = "SUBMIT_OK"
    /\ Become(u, "AUTHENTICATED", NoRoom, is_creator[u])

\* The next line is the response, or the connection is closed.
client_receive_response(u) ==
  /\ Waiting(u) /\ Going
  /\ asked' = [asked EXCEPT ![u] = Nothing]
  /\ \/ /\ wire[u] # <<>>
        /\ wire' = [wire EXCEPT ![u] = Tail(@)]
        /\ LET line == Head(wire[u]) IN
             \/ handle_login(u, line) \/ handle_logout(u, line)
             \/ handle_create_room(u, line) \/ handle_join_room(u, line)
             \/ handle_leave_room(u, line) \/ handle_start_exam(u, line)
             \/ handle_submit_exam(u, line)
             \/ line.kind # OkCode[asked[u].kind] /\ UNCHANGED appVars
             \/ asked[u].kind = "QUERY" /\ line.kind = "DATA" /\ UNCHANGED appVars
     \/ wire[u] = <<>> /\ Closed(u) /\ UNCHANGED <<wire, appVars>>
  /\ UNCHANGED <<storeVars, serverVars, inbox, reset>>

InRoomLoop(u) == state[u] = "IN_ROOM" /\ ~is_creator[u] /\ ~Waiting(u)

\* The room loop of a participant takes whatever has arrived with one recv;
\* without a START_OK in it, it is thrown away.
RoomLoopRecv(u) ==
  /\ InRoomLoop(u) /\ Going
  /\ \E n \in 1..Len(wire[u]) :
       /\ wire' = [wire EXCEPT ![u] = SubSeq(@, n + 1, Len(@))]
       /\ \/ /\ \E i \in 1..n : wire[u][i].kind = "START_OK"
             /\ Become(u, "IN_EXAM", room[u], is_creator[u])
          \/ /\ \A i \in 1..n : wire[u][i].kind # "START_OK"
             /\ UNCHANGED appVars
  /\ UNCHANGED <<storeVars, serverVars, inbox, reset, asked>>

RoomLoopClosed(u) ==
  /\ InRoomLoop(u) /\ Going
  /\ Closed(u) /\ wire[u] = <<>>
  /\ Become(u, "DISCONNECTED", room[u], is_creator[u])
  /\ UNCHANGED <<storeVars, serverVars, inbox, wire, reset, asked>>

----------------------------------------------------------------------------
Server(u) ==
  \/ Loop(u) \/ Dispatch(u) \/ Work(u) \/ Sigpipe(u)
  \/ Eof(u) \/ RemoveSession(u) \/ Close(u)
Listen(u) == client_receive_response(u) \/ RoomLoopRecv(u) \/ RoomLoopClosed(u)
Menu(u) ==
  \/ MenuMain(u) \/ MenuAuthenticated(u) \/ MenuParticipant(u)
  \/ MenuCreator(u) \/ MenuExam(u) \/ ExitExam(u) \/ Exit(u)

Next ==
  \/ Accept \/ Crash
  \/ \E u \in User : Server(u) \/ Listen(u) \/ Menu(u)

Spec == Init /\ [][Next]_vars

\* Threads of the server and applications that wait in recv get to run; what
\* the people at the menus do is up to them.
FairSpec == Spec /\ \A u \in User : WF_vars(Server(u)) /\ WF_vars(Listen(u))

----------------------------------------------------------------------------
(* Properties *)

\* An application shows the creator's menu, from which START_EXAM is sent,
\* only to the creator of the room it is in (client->is_creator, which
\* handle_submit_exam does not reset), responses out of step included, as long as
\* no freed slot is used again and mixes up the lines of two connections.
CreatorMenuIsCreators ==
  ~reused =>
    \A u \in User :
      state[u] = "IN_ROOM" /\ is_creator[u] /\ Exists(room[u]) => creator[room[u]] = u

\* Its thread comes back to recv_line: it leaves the loop when somebody else's
\* cleanup has marked its slot.
KeepsServing(u) == phase[u] = "recv" \/ (phase[u] = "serve" /\ active[u])

\* As long as its connection is served, and no freed slot has been given to
\* another connection, an application that waits for a response has a line
\* coming: also after START_EXAM, which nobody answers (exam.c:228-262), and when
\* its earlier responses were taken by a broadcast.  A broadcast passes by a slot
\* that was marked free (server.c:333); its thread then ends the connection, and
\* with it the wait, unless the next accept makes the slot active again
\* (server.c:136-160).
NobodyWaitsInVain ==
  ~reused =>
    \A u \in User :
      KeepsServing(u) /\ Waiting(u)
        => inbox[u] # <<>> \/ todo[u] # <<>> \/ wire[u] # <<>>

\* An application at a menu does not read; its buffers may be full.
Clogged(u) ==
  /\ state[u] \in AppState \ {"GONE"}
  /\ ~Waiting(u) /\ ~InRoomLoop(u)
  /\ Len(wire[u]) = Buffer

\* client_receive_response returns, with a line or because the connection ended
\* (client.c:96-105), although threads wait for clients_mutex, for room in the
\* buffers and for each other (exam.c:157-169, server.c:321-337).  Two things can
\* keep it from returning: a person at a menu, because the broadcast is then stuck,
\* with the mutex locked, in a connection that nobody reads; and a connection
\* accepted into a freed slot, because the slot's old thread then replies to it
\* (server.c:333, 157-160).
AppAnswered ==
  \A u \in User :
    Waiting(u) ~> ~Waiting(u) \/ reused \/ \E v \in User : Clogged(v)

\* handle.c:512: "All participants have been notified".  A participant of a
\* room that was started gets into the exam, unless he leaves or is done.
InRunningExam(u, r) ==
  u \in participants[r] /\ status[r] = "IN_PROGRESS" /\ u \notin Submitted(r)

ParticipantsReachExam ==
  \A u \in User, r \in RoomId :
    InRunningExam(u, r) ~> state[u] = "IN_EXAM" \/ ~InRunningExam(u, r)
=============================================================================
