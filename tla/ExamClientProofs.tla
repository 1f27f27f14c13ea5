--------------------------- MODULE ExamClientProofs ---------------------------
(***************************************************************************)
(* What holds of ExamClient for every set of users, every bound on the     *)
(* rooms and every size of the buffers.                                    *)
(***************************************************************************)
EXTENDS ExamClient, RoomStoreProofs, FiniteSetTheorems, SequenceTheorems, TLAPS

\* A room u made, or one that was deleted after u had made it.
Mine(u, r) ==
  r \in RoomId /\ status[r] # "NONE" /\ (Exists(r) => creator[r] = u)

CarriesRoom == {"JOIN_ROOM", "LEAVE_ROOM", "START_EXAM", "SUBMIT_EXAM"}
CommandOK(m) == m.kind \in CarriesRoom => m.room \in RoomId

LineOK(u, line) == line.kind = "ROOM_CREATED" => Mine(u, line.room)

ChoreOK(u, x) ==
  /\ x.do \in {"tell", "check"} => x.room \in RoomId
  /\ x.do = "reply" => LineOK(u, Msg(x.code, x.room))

\* What the thread of u still does, and the command it has.
ThreadOK(u) ==
  /\ phase[u] # "serve" => todo[u] = <<>>
  /\ mutex.holder = u => todo[u] # <<>> /\ Chosen(u).do = "tell"
  /\ \E i \in Slot : slots[i] = u
  /\ \A i \in DOMAIN todo[u] : ChoreOK(u, todo[u][i])
  /\ \A i, j \in DOMAIN todo[u] :
       todo[u][i].do = "enter" /\ todo[u][j].do = "enter" => i = j

ShowsCreatorMenu(u) == state[u] = "IN_ROOM" /\ is_creator[u]

\* What the application shows, and the command it waits for.
AppOK(u) ==
  /\ state[u] \in {"IN_ROOM", "IN_EXAM"} => room[u] \in RoomId
  /\ ShowsCreatorMenu(u) => Mine(u, room[u])
  /\ asked[u].kind = "START_EXAM" => ShowsCreatorMenu(u)
  /\ ShowsCreatorMenu(u) /\ Waiting(u)
       => asked[u].kind \in {"START_EXAM", "LEAVE_ROOM"} /\ asked[u].room = room[u]

ConnectionOK(u) ==
  /\ Gone(u) => wire[u] = <<>> /\ ~Waiting(u)
  /\ CommandOK(asked[u])
  /\ \A i \in DOMAIN inbox[u] : CommandOK(inbox[u][i])
  /\ \A i \in DOMAIN wire[u] : LineOK(u, wire[u][i])

TypeInv ==
  TypeOK /\ \A u \in User : ThreadOK(u) /\ AppOK(u) /\ ConnectionOK(u)

----------------------------------------------------------------------------
Replies(u) == \E i \in DOMAIN todo[u] : todo[u][i].do = "reply"

\* The room u's thread is in when it has done its chores.
WillBeIn(u, r) ==
  \/ \E i \in DOMAIN todo[u] : todo[u][i].do = "enter" /\ todo[u][i].room = r
  \/ (\A i \in DOMAIN todo[u] : todo[u][i].do # "enter") /\ current_room[u] = r

\* u may start r, and the broadcast would pass u by.
Missed(u, r) ==
  status[r] = "NOT_STARTED" /\ creator[r] = u /\ ~WillBeIn(u, r)

\* The commands that have a response, whatever the broadcast does.
Counts(u, m) == m.kind = "START_EXAM" => m.room = room[u]

CommandComes(u) == \E i \in DOMAIN inbox[u] : Counts(u, inbox[u][i])
CommandBefore(u) ==
  \E i \in DOMAIN inbox[u] : i < Len(inbox[u]) /\ Counts(u, inbox[u][i])

\* The broadcast of u's own thread has not passed the slot of u.
BroadcastComes(u) ==
  /\ todo[u] # <<>>
  /\ Chosen(u).do = "tell"
  /\ current_room[u] = Chosen(u).room
  /\ mutex.holder = u => \E i \in Slot : i >= mutex.slot /\ slots[i] = u

\* Commands are served in the order in which they were sent.
AskedLast(u) ==
  Waiting(u) => inbox[u] = <<>> \/ inbox[u][Len(inbox[u])] = asked[u]

\* The line that tells of a room is followed by one that tells of the next.
CreatedMissed(u) ==
  /\ \A i \in DOMAIN wire[u] :
       wire[u][i].kind = "ROOM_CREATED" /\ Missed(u, wire[u][i].room)
         => i < Len(wire[u]) \/ Replies(u)
  /\ \A i \in DOMAIN todo[u] :
       todo[u][i].do = "reply" /\ todo[u][i].code = "ROOM_CREATED"
         => ~Missed(u, todo[u][i].room)

\* An application whose menu is behind has a line to come that it does not
\* expect, besides the one it waits for.
MenuMissed(u) ==
  ShowsCreatorMenu(u) /\ Missed(u, room[u]) =>
    IF Waiting(u)
      THEN \/ /\ inbox[u] # <<>>
              /\ wire[u] # <<>> \/ Replies(u) \/ CommandBefore(u)
           \/ Len(wire[u]) >= 2
           \/ wire[u] # <<>> /\ Replies(u)
      ELSE wire[u] # <<>> \/ Replies(u) \/ CommandComes(u)

LineComes(u) ==
  Waiting(u) =>
    wire[u] # <<>> \/ Replies(u) \/ CommandComes(u) \/ BroadcastComes(u)

WaitOK(u) ==
  KeepsServing(u) =>
    AskedLast(u) /\ CreatedMissed(u) /\ MenuMissed(u) /\ LineComes(u)

IInv == TypeInv /\ \A u \in User : WaitOK(u)
----------------------------------------------------------------------------
(* Sequences, and what is in them. *)

Command == [kind : Commands, room : RoomId \cup {NoRoom}]
Line == [kind : Codes, room : RoomId \cup {NoRoom}]

\* What is left when the first member of a sequence is taken.
LEMMA HeadAndTail ==
  ASSUME NEW S, NEW s \in Seq(S), s # <<>>
  PROVE  /\ Len(s) \in Nat \ {0} /\ DOMAIN s = 1..Len(s)
         /\ Head(s) \in S /\ Head(s) = s[1]
         /\ Tail(s) \in Seq(S) /\ Len(Tail(s)) = Len(s) - 1
         /\ DOMAIN Tail(s) = 1..(Len(s) - 1)
         /\ \A i \in 1..(Len(s) - 1) : Tail(s)[i] = s[i + 1]
         /\ Tail(s) = <<>> <=> Len(s) = 1
<1>1. /\ Len(s) \in Nat \ {0} /\ DOMAIN s = 1..Len(s)
      /\ Head(s) \in S /\ Head(s) = s[1]
      /\ Tail(s) \in Seq(S) /\ Len(Tail(s)) = Len(s) - 1
      /\ DOMAIN Tail(s) = 1..(Len(s) - 1)
      /\ \A i \in 1..(Len(s) - 1) : Tail(s)[i] = s[i + 1]
  BY HeadTailProperties, LenProperties, EmptySeq
<1>2. \A t \in Seq(S) : t = <<>> <=> Len(t) = 0
  BY EmptySeq
<1>3. Tail(s) = <<>> <=> Len(Tail(s)) = 0
  BY <1>1, <1>2
<1> QED
  BY <1>1, <1>3

\* A member is put behind the others.
LEMMA Appended ==
  ASSUME NEW S, NEW s \in Seq(S), NEW e \in S
  PROVE  /\ Append(s, e) \in Seq(S) /\ Append(s, e) # <<>>
         /\ Len(s) \in Nat /\ Len(Append(s, e)) = Len(s) + 1
         /\ DOMAIN s = 1..Len(s) /\ DOMAIN Append(s, e) = 1..(Len(s) + 1)
         /\ \A i \in 1..Len(s) : Append(s, e)[i] = s[i]
         /\ Append(s, e)[Len(s) + 1] = e
<1>1. /\ Append(s, e) \in Seq(S) /\ Len(Append(s, e)) = Len(s) + 1
      /\ Len(s) \in Nat
      /\ \A i \in 1..Len(s) : Append(s, e)[i] = s[i]
      /\ Append(s, e)[Len(s) + 1] = e
  OBVIOUS
<1> QED
  BY <1>1, LenProperties, EmptySeq

\* The first n members are thrown away.
LEMMA Dropped ==
  ASSUME NEW S, NEW s \in Seq(S), NEW n \in 1..Len(s)
  PROVE  /\ SubSeq(s, n + 1, Len(s)) \in Seq(S)
         /\ Len(SubSeq(s, n + 1, Len(s))) = Len(s) - n
         /\ DOMAIN SubSeq(s, n + 1, Len(s)) = 1..(Len(s) - n)
         /\ \A i \in 1..(Len(s) - n) : SubSeq(s, n + 1, Len(s))[i] = s[i + n]
<1>1. Len(s) \in Nat /\ \A i \in (n + 1)..Len(s) : s[i] \in S
  BY LenProperties, ElementOfSeq
<1>2. /\ SubSeq(s, n + 1, Len(s)) \in Seq(S)
      /\ Len(SubSeq(s, n + 1, Len(s)))
           = IF n + 1 <= Len(s) THEN Len(s) - (n + 1) + 1 ELSE 0
      /\ \A i \in 1..(Len(s) - (n + 1) + 1) :
           SubSeq(s, n + 1, Len(s))[i] = s[(n + 1) + i - 1]
  BY <1>1, SubSeqProperties
<1> QED
  BY <1>1, <1>2, LenProperties

\* The codes of the responses.
LEMMA CodesAre ==
  /\ {"ERROR", "LOGIN_OK", "LOGOUT_OK", "DATA", "ROOM_CREATED", "ROOM_JOIN_OK",
      "ROOM_LEAVE_OK", "START_OK", "SUBMIT_OK"} \subseteq Codes
BY DEF Codes, RefusalCode, OkCode, Commands

\* The thread's chores are chores.
LEMMA ChoresAre ==
  ASSUME NEW r \in RoomId \cup {NoRoom}
  PROVE  /\ Enter(r) \in Chore /\ Tell(r) \in Chore /\ Check(r) \in Chore
         /\ \A code \in Codes : Reply(code, r) \in Chore
BY CodesAre DEF Enter, Tell, Check, Reply, Chore, RefusalCode

----------------------------------------------------------------------------
(* What a handler leaves to its thread. *)

\* m starts its room, and the room is to be told.
Starts(u, m, x) ==
  /\ m.kind = "START_EXAM"
  /\ creator[m.room] = u /\ status[m.room] = "NOT_STARTED"
  /\ status'[m.room] # "NOT_STARTED"
  /\ x = <<Tell(m.room)>>

\* The chores x after the command m: whoever enters a room is told so, and a
\* creator who leaves does not keep the room.
Served(u, m, x) ==
  /\ x \in Seq(Chore) /\ x # <<>>
  /\ \A i \in DOMAIN x : ChoreOK(u, x[i])'
  /\ \A i, j \in DOMAIN x : x[i].do = "enter" /\ x[j].do = "enter" => i = j
  /\ Starts(u, m, x) \/ \E i \in DOMAIN x : x[i].do = "reply"
  /\ \A i \in DOMAIN x : x[i].do = "reply" /\ x[i].code = "ROOM_CREATED" =>
       \E j \in DOMAIN x : x[j].do = "enter" /\ x[j].room = x[i].room
  /\ \A i \in DOMAIN x : x[i].do = "enter" =>
       /\ m.kind # "START_EXAM"
       /\ m.kind = "LEAVE_ROOM" =>
            ~(status'[m.room] = "NOT_STARTED" /\ creator'[m.room] = u)

\* A command that is answered and does nothing else.
LEMMA OneReply ==
  ASSUME NEW u \in User, NEW m, NEW code \in Codes, code # "ROOM_CREATED",
         NEW r \in RoomId \cup {NoRoom}
  PROVE  Served(u, m, <<Reply(code, r)>>)
<1> DEFINE x == <<Reply(code, r)>>
<1>1. x \in Seq(Chore) /\ x # <<>> /\ DOMAIN x = {1} /\ x[1] = Reply(code, r)
  BY ChoresAre
<1>2. x[1].do = "reply" /\ x[1].code = code
  BY <1>1 DEF Reply
<1>3. ChoreOK(u, x[1])'
  BY <1>1, <1>2 DEF ChoreOK, LineOK, Msg, Reply
<1>4. Served(u, m, x)
  <2> HIDE DEF x
  <2> QED
    BY <1>1, <1>2, <1>3 DEF Served
<1> QED
  BY <1>4

\* A command that moves its thread into a room, or out of one.
LEMMA EnterAndReply ==
  ASSUME NEW u \in User, NEW m, NEW code \in Codes,
         NEW r \in RoomId \cup {NoRoom}, NEW q \in RoomId \cup {NoRoom},
         code = "ROOM_CREATED" => q = r /\ Mine(u, r)',
         m.kind # "START_EXAM",
         m.kind = "LEAVE_ROOM" =>
           ~(status'[m.room] = "NOT_STARTED" /\ creator'[m.room] = u)
  PROVE  Served(u, m, <<Enter(r), Reply(code, q)>>)
<1> DEFINE x == <<Enter(r), Reply(code, q)>>
<1>1. /\ x \in Seq(Chore) /\ x # <<>> /\ DOMAIN x = {1, 2}
      /\ x[1] = Enter(r) /\ x[2] = Reply(code, q)
  BY ChoresAre
<1>2. /\ x[1].do = "enter" /\ x[1].room = r
      /\ x[2].do = "reply" /\ x[2].code = code /\ x[2].room = q
  BY <1>1 DEF Enter, Reply
<1>3. ChoreOK(u, x[1])' /\ ChoreOK(u, x[2])'
  BY <1>1, <1>2 DEF ChoreOK, LineOK, Msg, Reply, Enter
<1>4. Served(u, m, x)
  <2> HIDE DEF x
  <2> QED
    BY <1>1, <1>2, <1>3 DEF Served
<1> QED
  BY <1>4

\* A submission.
LEMMA SubmitChores ==
  ASSUME NEW u \in User, NEW m, NEW r \in RoomId, m.kind = "SUBMIT_EXAM"
  PROVE  Served(u, m, <<Reply("SUBMIT_OK", r), Enter(NoRoom), Check(r)>>)
<1> DEFINE x == <<Reply("SUBMIT_OK", r), Enter(NoRoom), Check(r)>>
<1>1. /\ x \in Seq(Chore) /\ x # <<>> /\ DOMAIN x = {1, 2, 3}
      /\ x[1] = Reply("SUBMIT_OK", r) /\ x[2] = Enter(NoRoom) /\ x[3] = Check(r)
  BY ChoresAre, CodesAre
<1>2. /\ x[1].do = "reply" /\ x[1].code = "SUBMIT_OK"
      /\ x[2].do = "enter" /\ x[3].do = "check" /\ x[3].room = r
  BY <1>1 DEF Enter, Reply, Check
<1>3. ChoreOK(u, x[1])' /\ ChoreOK(u, x[2])' /\ ChoreOK(u, x[3])'
  BY <1>1, <1>2 DEF ChoreOK, LineOK, Msg, Reply, Enter, Check
<1>4. Served(u, m, x)
  <2> HIDE DEF x
  <2> QED
    BY <1>1, <1>2, <1>3 DEF Served
<1> QED
  BY <1>4

\* A room that is started.
LEMMA StartChores ==
  ASSUME NEW u \in User, NEW m, m.room \in RoomId, Starts(u, m, <<Tell(m.room)>>)
  PROVE  Served(u, m, <<Tell(m.room)>>)
<1> DEFINE x == <<Tell(m.room)>>
<1>1. /\ x \in Seq(Chore) /\ x # <<>> /\ DOMAIN x = {1} /\ x[1] = Tell(m.room)
  BY ChoresAre
<1>2. x[1].do = "tell" /\ x[1].room = m.room
  BY <1>1 DEF Tell
<1>3. ChoreOK(u, x[1])'
  BY <1>1, <1>2 DEF ChoreOK, Tell
<1>4. Starts(u, m, x)
  OBVIOUS
<1>5. Served(u, m, x)
  <2> HIDE DEF x
  <2> QED
    BY <1>1, <1>2, <1>3, <1>4 DEF Served
<1> QED
  BY <1>5

\* What every handler does for m.
Handled(u, m) ==
  /\ StoreTypeOK' /\ RowsGoOn
  /\ auth' \in [User -> BOOLEAN]
  /\ \E x : Served(u, m, x) /\ Then(u, x)

\* REGISTER, LOGIN, LOGOUT, the queries, and every refusal.
LEMMA RepliesAreHandled ==
  ASSUME TypeOK, NEW u \in User, NEW m, NEW code \in Codes, code # "ROOM_CREATED",
         Then(u, <<Reply(code, NoRoom)>>), UNCHANGED storeVars,
         auth' \in [User -> BOOLEAN]
  PROVE  Handled(u, m)
<1>1. StoreTypeOK' /\ RowsGoOn
  BY SameStoreType, SameRowsGoOn DEF TypeOK, storeVars
<1>2. NoRoom \in RoomId \cup {NoRoom}
  OBVIOUS
<1>3. Served(u, m, <<Reply(code, NoRoom)>>)
  BY <1>2, OneReply
<1> QED
  BY <1>1, <1>3 DEF Handled

\* A refusal is an answer.
LEMMA RefuseIsHandled ==
  ASSUME TypeOK, NEW u \in User, NEW m, Refuse(u)
  PROVE  Handled(u, m)
<1>1. "ERROR" \in Codes /\ auth' \in [User -> BOOLEAN]
  BY CodesAre DEF Refuse, TypeOK
<1> QED
  BY <1>1, RepliesAreHandled DEF Refuse, RefusalCode

\* LOGIN, LOGOUT and the queries answer and leave the rooms alone.
LEMMA SignIsHandled ==
  ASSUME TypeOK, NEW u \in User, NEW m, ServeLogin(u) \/ ServeLogout(u) \/ ServeQuery(u)
  PROVE  Handled(u, m)
<1>1. /\ {"LOGIN_OK", "LOGOUT_OK", "DATA"} \subseteq Codes
      /\ auth \in [User -> BOOLEAN]
  BY CodesAre DEF TypeOK
<1>2. CASE Refuse(u)
  BY <1>2, RefuseIsHandled
<1>3. CASE ServeLogin(u) /\ ~Refuse(u)
  BY <1>1, <1>3, RepliesAreHandled DEF ServeLogin
<1>4. CASE ServeLogout(u)
  BY <1>1, <1>4, RepliesAreHandled DEF ServeLogout
<1>5. CASE ServeQuery(u)
  BY <1>1, <1>5, RepliesAreHandled DEF ServeQuery
<1> QED
  BY <1>2, <1>3, <1>4, <1>5

\* CREATE_ROOM tells the user of a room he has made.
LEMMA CreateIsHandled ==
  ASSUME TypeOK, NEW u \in User, NEW m, m.kind = "CREATE_ROOM", ServeCreate(u)
  PROVE  Handled(u, m)
<1>1. CASE Refuse(u)
  BY <1>1, RefuseIsHandled
<1>2. ASSUME NEW r \in RoomId, db_create_room(r, u, TRUE), UNCHANGED auth,
             Then(u, <<Enter(r), Reply("ROOM_CREATED", r)>>)
      PROVE  Handled(u, m)
  <2>1. StoreTypeOK' /\ RowsGoOn
    BY <1>2, CreateRoomType, CreateRoomGoesOn, ClientAssumption DEF TypeOK
  <2>2. Mine(u, r)'
    BY <1>2 DEF db_create_room, Mine, Exists, TypeOK, StoreTypeOK
  <2>3. "ROOM_CREATED" \in Codes /\ r \in RoomId \cup {NoRoom}
    BY CodesAre
  <2>4. Served(u, m, <<Enter(r), Reply("ROOM_CREATED", r)>>)
    BY <2>2, <2>3, EnterAndReply
  <2> QED
    BY <1>2, <2>1, <2>4 DEF Handled, TypeOK
<1> QED
  BY <1>1, <1>2 DEF ServeCreate

\* JOIN_ROOM answers, and moves its thread into the room if it is let in.
LEMMA JoinIsHandled ==
  ASSUME TypeOK, NEW u \in User, NEW m, m.kind = "JOIN_ROOM", m.room \in RoomId,
         ServeJoin(u, m.room)
  PROVE  Handled(u, m)
<1>1. CASE Refuse(u)
  BY <1>1, RefuseIsHandled
<1>2. CASE /\ db_join_room(m.room, u, TRUE) /\ UNCHANGED auth
           /\ Then(u, <<Enter(m.room), Reply("ROOM_JOIN_OK", m.room)>>)
  <2>1. StoreTypeOK'
    BY <1>2, JoinRoomType DEF TypeOK
  <2>2. RowsGoOn
    BY <1>2, SameRowsGoOn DEF TypeOK, db_join_room
  <2>3. "ROOM_JOIN_OK" \in Codes /\ m.room \in RoomId \cup {NoRoom}
    BY CodesAre
  <2>4. Served(u, m, <<Enter(m.room), Reply("ROOM_JOIN_OK", m.room)>>)
    BY <2>3, EnterAndReply
  <2> QED
    BY <1>2, <2>1, <2>2, <2>4 DEF Handled, TypeOK
<1> QED
  BY <1>1, <1>2 DEF ServeJoin

\* LEAVE_ROOM by the creator deletes the room.
LEMMA LeaveIsHandled ==
  ASSUME TypeOK, NEW u \in User, NEW m, m.kind = "LEAVE_ROOM", m.room \in RoomId,
         ServeLeave(u, m.room)
  PROVE  Handled(u, m)
<1>1. CASE Refuse(u)
  BY <1>1, RefuseIsHandled
<1>2. CASE /\ IF TRUE \in db_is_room_creator(m.room, u)
                THEN db_delete_room(m.room, TRUE) ELSE db_leave_room(m.room, u, TRUE)
           /\ UNCHANGED auth
           /\ Then(u, <<Enter(NoRoom), Reply("ROOM_LEAVE_OK", m.room)>>)
  <2>1. ASSUME db_delete_room(m.room, TRUE)
        PROVE  /\ StoreTypeOK' /\ RowsGoOn
               /\ status'[m.room] # "NOT_STARTED"
    <3>1. StoreTypeOK' /\ RowsGoOn
      BY <2>1, DeleteRoomType, DeleteRoomGoesOn DEF TypeOK
    <3> QED
      BY <2>1, <3>1 DEF TypeOK, StoreTypeOK, db_delete_room
  <2>2. ASSUME TRUE \notin db_is_room_creator(m.room, u), db_leave_room(m.room, u, TRUE)
        PROVE  /\ StoreTypeOK' /\ RowsGoOn
               /\ ~(status'[m.room] = "NOT_STARTED" /\ creator'[m.room] = u)
    <3>1. StoreTypeOK'
      BY <2>2, LeaveRoomType DEF TypeOK
    <3>2. RowsGoOn
      BY <2>2, SameRowsGoOn DEF TypeOK, db_leave_room
    <3> QED
      BY <2>2, <3>1, <3>2 DEF db_leave_room, db_is_room_creator, Exists, RowStatus
  <2>3. /\ StoreTypeOK' /\ RowsGoOn
        /\ ~(status'[m.room] = "NOT_STARTED" /\ creator'[m.room] = u)
    BY <1>2, <2>1, <2>2
  <2>4. /\ "ROOM_LEAVE_OK" \in Codes /\ m.room \in RoomId \cup {NoRoom}
        /\ NoRoom \in RoomId \cup {NoRoom}
    BY CodesAre
  <2>5. Served(u, m, <<Enter(NoRoom), Reply("ROOM_LEAVE_OK", m.room)>>)
    BY <2>3, <2>4, EnterAndReply
  <2> QED
    BY <1>2, <2>3, <2>5 DEF Handled, TypeOK
<1> QED
  BY <1>1, <1>2 DEF ServeLeave

\* START_EXAM answers itself, or starts the room and tells the members.
LEMMA StartIsHandled ==
  ASSUME TypeOK, NEW u \in User, NEW m, m.kind = "START_EXAM", m.room \in RoomId,
         ServeStart(u, m.room)
  PROVE  Handled(u, m)
<1>1. CASE Refuse(u)
  BY <1>1, RefuseIsHandled
<1>2. CASE /\ MayStart(u, m.room) /\ db_start_room(m.room, TRUE) /\ UNCHANGED auth
           /\ Then(u, <<Tell(m.room)>>)
  <2>1. "IN_PROGRESS" \in RowStatus /\ "IN_PROGRESS" \in Started
    BY DEF RowStatus, Started
  <2>2. StoreTypeOK' /\ RowsGoOn
    BY <1>2, <2>1, SetStatusType, SetStatusGoesOn DEF TypeOK, db_start_room
  <2>3. creator[m.room] = u /\ status[m.room] = "NOT_STARTED"
    BY <1>2, ClientAssumption
       DEF MayStart, db_get_room_status, db_is_room_creator, OnError
  <2>4. status'[m.room] = "IN_PROGRESS"
    BY <1>2, <2>3 DEF db_start_room, SetStatus, Exists, RowStatus, TypeOK, StoreTypeOK
  <2>5. Served(u, m, <<Tell(m.room)>>)
    BY <2>3, <2>4, StartChores DEF Starts
  <2> QED
    BY <1>2, <2>2, <2>5 DEF Handled, TypeOK
<1> QED
  BY <1>1, <1>2 DEF ServeStart

\* SUBMIT_EXAM answers before it looks whether it was the last.
LEMMA SubmitIsHandled ==
  ASSUME TypeOK, NEW u \in User, NEW m, m.kind = "SUBMIT_EXAM", m.room \in RoomId,
         ServeSubmit(u, m.room)
  PROVE  Handled(u, m)
<1>1. CASE Refuse(u)
  BY <1>1, RefuseIsHandled
<1>2. ASSUME NEW s \in Score, db_submit_exam(m.room, u, s, TRUE), UNCHANGED auth,
             Then(u, <<Reply("SUBMIT_OK", m.room), Enter(NoRoom), Check(m.room)>>)
      PROVE  Handled(u, m)
  <2>1. StoreTypeOK'
    BY <1>2, SubmitExamType DEF TypeOK
  <2>2. RowsGoOn
    BY <1>2, SameRowsGoOn DEF TypeOK, db_submit_exam
  <2>3. Served(u, m, <<Reply("SUBMIT_OK", m.room), Enter(NoRoom), Check(m.room)>>)
    BY SubmitChores
  <2> QED
    BY <1>2, <2>1, <2>2, <2>3 DEF Handled, TypeOK
<1> QED
  BY <1>1, <1>2 DEF ServeSubmit

\* Whatever the command at the head of the inbox is.
LEMMA DispatchIsHandled ==
  ASSUME TypeInv, NEW u \in User, Dispatch(u)
  PROVE  Handled(u, Head(inbox[u]))
<1> DEFINE m == Head(inbox[u])
<1>1. inbox[u] \in Seq(Command) /\ inbox[u] # <<>>
  BY DEF TypeInv, TypeOK, Command, Dispatch
<1>2. m \in Command /\ CommandOK(m)
  BY <1>1, HeadAndTail DEF TypeInv, ConnectionOK
<1>3. TypeOK
  BY DEF TypeInv
<1>4. \/ ServeLogin(u) \/ ServeLogout(u) \/ ServeQuery(u) \/ Refuse(u)
      \/ m.kind = "CREATE_ROOM" /\ ServeCreate(u)
      \/ m.kind = "JOIN_ROOM" /\ ServeJoin(u, m.room)
      \/ m.kind = "LEAVE_ROOM" /\ ServeLeave(u, m.room)
      \/ m.kind = "START_EXAM" /\ ServeStart(u, m.room)
      \/ m.kind = "SUBMIT_EXAM" /\ ServeSubmit(u, m.room)
  BY DEF Dispatch
<1>5. m.kind \in CarriesRoom => m.room \in RoomId
  BY <1>2 DEF CommandOK
<1> HIDE DEF m
<1>6. Handled(u, m)
  BY <1>3, <1>4, <1>5, RefuseIsHandled, SignIsHandled, CreateIsHandled, JoinIsHandled,
     LeaveIsHandled, StartIsHandled, SubmitIsHandled DEF CarriesRoom
<1> QED
  BY <1>6 DEF m

----------------------------------------------------------------------------
(* Types. *)

ServerTypes ==
  /\ up \in BOOLEAN
  /\ slots \in [Slot -> User]
  /\ active \in [User -> BOOLEAN]
  /\ auth \in [User -> BOOLEAN]
  /\ current_room \in [User -> RoomId \cup {NoRoom}]
  /\ phase \in [User -> Phase]
  /\ todo \in [User -> Seq(Chore)]
  /\ mutex \in [holder : User \cup {NoUser}, slot : Slot]

ConnectionTypes ==
  /\ reset \subseteq User
  /\ \A u \in User : Len(wire[u]) <= Buffer
  /\ inbox \in [User -> Seq(Command)]
  /\ wire \in [User -> Seq(Line)]

AskedType ==
  asked \in [User -> [kind : Commands \cup {"NOTHING"}, room : RoomId \cup {NoRoom}]]

AppTypes ==
  /\ state \in [User -> AppState]
  /\ room \in [User -> RoomId \cup {NoRoom}]
  /\ is_creator \in [User -> BOOLEAN]

\* The type invariant by the parts of the system it is about.
LEMMA TypesAre ==
  /\ TypeOK
       <=> /\ StoreTypeOK /\ ServerTypes /\ ConnectionTypes /\ AskedType /\ AppTypes
           /\ reused \in BOOLEAN
  /\ TypeOK'
       <=> /\ StoreTypeOK' /\ ServerTypes' /\ ConnectionTypes' /\ AskedType' /\ AppTypes'
           /\ reused' \in BOOLEAN
BY DEF TypeOK, ServerTypes, ConnectionTypes, AskedType, AppTypes, Command, Line

\* A step of the server leaves the applications alone.
LEMMA SameAppTypes ==
  ASSUME AppTypes, UNCHANGED appVars PROVE AppTypes'
BY DEF AppTypes, appVars

\* Somebody has the first slot, and nobody has the mutex.
LEMMA UnlockedType ==
  /\ 0 \in Slot
  /\ Unlocked \in [holder : User \cup {NoUser}, slot : Slot]
<1>1. Cardinality(User) \in Nat /\ Cardinality(User) # 0
  BY StoreAssumption, ClientAssumption, FS_CardinalityType, FS_EmptySet
<1>2. 0 \in Slot
  BY <1>1 DEF Slot
<1> QED
  BY <1>2 DEF Unlocked

\* An application that changes its menu.
LEMMA BecomeType ==
  ASSUME AppTypes, NEW u \in User, NEW s \in AppState, NEW r \in RoomId \cup {NoRoom},
         NEW b \in BOOLEAN, Become(u, s, r, b)
  PROVE  AppTypes'
BY DEF AppTypes, Become

\* send_full puts a line on the wire of one user, or nothing anywhere.
LEMMA SendType ==
  ASSUME ConnectionTypes, NEW v \in User, NEW line \in Line, send_full(v, line),
         UNCHANGED inbox
  PROVE  ConnectionTypes'
<1>1. CASE Gone(v)
  BY <1>1 DEF ConnectionTypes, send_full
<1>2. CASE ~Gone(v)
  <2>1. wire[v] \in Seq(Line)
    BY DEF ConnectionTypes
  <2>2. /\ wire' = [wire EXCEPT ![v] = Append(wire[v], line)]
        /\ Len(wire[v]) < Buffer /\ UNCHANGED reset
    BY <1>2 DEF send_full
  <2>3. Append(wire[v], line) \in Seq(Line) /\ Len(Append(wire[v], line)) <= Buffer
    BY <2>1, <2>2, Appended, ClientAssumption
  <2> QED
    BY <2>2, <2>3 DEF ConnectionTypes
<1> QED
  BY <1>1, <1>2

\* What the thread does next, and what is left then.
LEMMA ChosenIs ==
  ASSUME TypeInv, NEW u \in User, todo[u] # <<>>
  PROVE  /\ Chosen(u) \in Chore /\ ChoreOK(u, Chosen(u)) /\ Chosen(u) = todo[u][1]
         /\ todo[u] \in Seq(Chore) /\ Tail(todo[u]) \in Seq(Chore)
         /\ Msg(Chosen(u).code, Chosen(u).room) \in Line
         /\ Chosen(u).room \in RoomId \cup {NoRoom}
<1>1. todo[u] \in Seq(Chore)
  BY DEF TypeInv, TypeOK
<1>2. 1 \in DOMAIN todo[u] /\ Chosen(u) = todo[u][1] /\ Chosen(u) \in Chore
  BY <1>1, HeadAndTail DEF Chosen
<1>3. ChoreOK(u, Chosen(u))
  BY <1>2 DEF TypeInv, ThreadOK
<1> QED
  BY <1>1, <1>2, <1>3, HeadAndTail DEF Chore, Msg, Line

\* A thread that takes its next command.
LEMMA DispatchType ==
  ASSUME TypeInv, NEW u \in User, Dispatch(u), reused' \in BOOLEAN
  PROVE  TypeOK'
<1>1. PICK x : Served(u, Head(inbox[u]), x) /\ Then(u, x)
  BY DispatchIsHandled DEF Handled
<1>2. StoreTypeOK' /\ auth' \in [User -> BOOLEAN]
  BY DispatchIsHandled DEF Handled
<1>3. TypeOK
  BY DEF TypeInv
<1>4. todo' \in [User -> Seq(Chore)]
  BY <1>1, <1>3 DEF Served, Then, TypeOK
<1>5. phase' \in [User -> Phase]
  BY <1>3 DEF Dispatch, Phase, TypeOK
<1>6. ServerTypes'
  BY <1>2, <1>3, <1>4, <1>5, TypesAre DEF ServerTypes, Dispatch
<1>7. Tail(inbox[u]) \in Seq(Command)
  BY <1>3, HeadAndTail DEF Dispatch, TypeOK, Command
<1>8. ConnectionTypes'
  BY <1>3, <1>7, TypesAre DEF ConnectionTypes, Dispatch
<1>9. AskedType' /\ AppTypes'
  BY <1>3, TypesAre, SameAppTypes DEF AskedType, Dispatch
<1> QED
  BY <1>2, <1>6, <1>8, <1>9, TypesAre

\* A thread that does its next chore.
LEMMA WorkType ==
  ASSUME TypeInv, NEW u \in User, Work(u), reused' \in BOOLEAN
  PROVE  TypeOK'
<1>1. /\ todo[u] # <<>> /\ UNCHANGED <<up, slots, active, auth, phase, inbox, asked>>
      /\ UNCHANGED appVars
  BY DEF Work
<1>2. /\ StoreTypeOK /\ ServerTypes /\ ConnectionTypes /\ AskedType /\ AppTypes
  BY TypesAre DEF TypeInv
<1>3. AskedType' /\ AppTypes'
  BY <1>1, <1>2, SameAppTypes DEF AskedType
<1>4. NextChore(u) => todo' \in [User -> Seq(Chore)]
  BY <1>1, <1>2, ChosenIs DEF NextChore, ServerTypes
<1>5. UNCHANGED <<wire, reset>> => ConnectionTypes'
  BY <1>1, <1>2 DEF ConnectionTypes
<1>6. UNCHANGED storeVars => StoreTypeOK'
  BY <1>2, SameStoreType
<1>7. CASE DoReply(u)
  <2>1. ConnectionTypes'
    BY <1>1, <1>2, <1>7, ChosenIs, SendType DEF DoReply
  <2>2. ServerTypes'
    BY <1>1, <1>2, <1>4, <1>7 DEF DoReply, ServerTypes
  <2> QED
    BY <1>3, <1>6, <1>7, <2>1, <2>2, TypesAre DEF DoReply
<1>8. CASE DoEnter(u)
  <2>1. current_room' \in [User -> RoomId \cup {NoRoom}]
    BY <1>1, <1>2, <1>8, ChosenIs DEF DoEnter, ServerTypes
  <2>2. ServerTypes'
    BY <1>1, <1>2, <1>4, <1>8, <2>1 DEF DoEnter, ServerTypes
  <2> QED
    BY <1>3, <1>5, <1>6, <1>8, <2>2, TypesAre DEF DoEnter
<1>9. CASE TellLock(u)
  <2>1. mutex' \in [holder : User \cup {NoUser}, slot : Slot]
    BY <1>9, UnlockedType DEF TellLock
  <2>2. ServerTypes'
    BY <1>1, <1>2, <1>9, <2>1 DEF TellLock, ServerTypes
  <2> QED
    BY <1>3, <1>5, <1>6, <1>9, <2>2, TypesAre DEF TellLock
<1>10. CASE TellSlot(u)
  <2>1. slots[mutex.slot] \in User
    BY <1>2 DEF ServerTypes
  <2>2. Msg("START_OK", Chosen(u).room) \in Line
    BY <1>1, ChosenIs, CodesAre DEF Msg, Line
  <2>3. ConnectionTypes'
    BY <1>1, <1>2, <1>5, <1>10, <2>1, <2>2, SendType DEF TellSlot
  <2>4. todo' \in [User -> Seq(Chore)]
    BY <1>2, <1>4, <1>10 DEF TellSlot, ServerTypes
  <2>5. mutex' \in [holder : User \cup {NoUser}, slot : Slot]
    <3>1. CASE mutex.slot + 1 \in Slot
      BY <1>2, <1>10, <3>1 DEF TellSlot, ServerTypes
    <3>2. CASE mutex.slot + 1 \notin Slot
      BY <1>10, <3>2, UnlockedType DEF TellSlot
    <3> QED
      BY <3>1, <3>2
  <2>6. ServerTypes'
    BY <1>1, <1>2, <1>10, <2>4, <2>5 DEF TellSlot, ServerTypes
  <2> QED
    BY <1>3, <1>6, <1>10, <2>3, <2>6, TypesAre DEF TellSlot
<1>11. CASE DoCheck(u)
  <2>1. Chosen(u).room \in RoomId
    BY <1>1, <1>11, ChosenIs DEF DoCheck, ChoreOK
  <2>2. StoreTypeOK'
    BY <1>2, <1>6, <1>11, <2>1, SetStatusType DEF DoCheck, db_finish_room, RowStatus, Started
  <2>3. ServerTypes'
    BY <1>1, <1>2, <1>4, <1>11 DEF DoCheck, ServerTypes
  <2> QED
    BY <1>3, <1>5, <1>11, <2>2, <2>3, TypesAre DEF DoCheck
<1> QED
  BY <1>7, <1>8, <1>9, <1>10, <1>11 DEF Work

\* The end of the server.
LEMMA DieType ==
  ASSUME TypeInv, Die, reused' \in BOOLEAN
  PROVE  TypeOK'
<1>1. StoreTypeOK /\ ServerTypes /\ ConnectionTypes /\ AskedType /\ AppTypes
  BY TypesAre DEF TypeInv
<1>2. ServerTypes'
  <2>1. <<>> \in Seq(Chore) /\ NoRoom \in RoomId \cup {NoRoom} /\ "over" \in Phase
    BY EmptySeq DEF Phase
  <2> QED
    BY <1>1, <2>1, UnlockedType DEF Die, ServerTypes
<1>3. ConnectionTypes'
  BY <1>1, EmptySeq DEF Die, ConnectionTypes
<1> QED
  BY <1>1, <1>2, <1>3, SameStoreType, SameAppTypes, TypesAre DEF Die, AskedType

\* The steps of the thread that are not about its chores.
LEMMA ThreadType ==
  ASSUME TypeInv, NEW u \in User, Loop(u) \/ Eof(u) \/ RemoveSession(u) \/ Close(u),
         reused' \in BOOLEAN
  PROVE  TypeOK'
<1>1. StoreTypeOK /\ ServerTypes /\ ConnectionTypes /\ AskedType /\ AppTypes
  BY TypesAre DEF TypeInv
<1>2. UNCHANGED <<storeVars, up, slots, auth, current_room, todo, mutex, wire, asked, appVars>>
  BY DEF Loop, Eof, RemoveSession, Close, sessionVars
<1>3. phase' \in [User -> Phase]
  <2>1. phase \in [User -> Phase] /\ {"recv", "remove", "close", "over"} \subseteq Phase
    BY <1>1 DEF ServerTypes, Phase
  <2>2. \E p \in {"recv", "remove", "close", "over"} : phase' = [phase EXCEPT ![u] = p]
    BY DEF Loop, Eof, RemoveSession, Close
  <2> QED
    BY <2>1, <2>2
<1>4. active' \in [User -> BOOLEAN]
  BY <1>1, UnlockedType DEF ServerTypes, Loop, Eof, RemoveSession, Close, sessionVars
<1>5. ServerTypes'
  BY <1>1, <1>2, <1>3, <1>4 DEF ServerTypes
<1>6. ConnectionTypes'
  <2>1. CASE Close(u)
    <3>1. reset' \subseteq User
      BY <1>1, <2>1 DEF ConnectionTypes, Close
    <3>2. inbox' \in [User -> Seq(Command)]
      BY <1>1, <2>1, EmptySeq DEF ConnectionTypes, Close
    <3> QED
      BY <1>1, <1>2, <3>1, <3>2 DEF ConnectionTypes
  <2>2. CASE UNCHANGED <<inbox, reset>>
    BY <1>1, <1>2, <2>2 DEF ConnectionTypes
  <2> QED
    BY <2>1, <2>2 DEF Loop, Eof, RemoveSession
<1> QED
  BY <1>1, <1>2, <1>5, <1>6, SameStoreType, SameAppTypes, TypesAre DEF AskedType

\* What the menus send.
Sends(u) ==
  /\ ~Gone(u)
  /\ \/ \E kind \in {"LOGIN", "QUERY", "CREATE_ROOM", "LOGOUT"} :
          /\ ~ShowsCreatorMenu(u)
          /\ client_create_send_command(u, kind, NoRoom)
     \/ \E r \in RoomId :
          ~ShowsCreatorMenu(u) /\ client_create_send_command(u, "JOIN_ROOM", r)
     \/ \E kind \in {"QUERY", "LEAVE_ROOM", "SUBMIT_EXAM"} :
          ~ShowsCreatorMenu(u) /\ room[u] \in RoomId
            /\ client_create_send_command(u, kind, room[u])
     \/ \E kind \in {"START_EXAM", "LEAVE_ROOM"} :
          ShowsCreatorMenu(u) /\ client_create_send_command(u, kind, room[u])

\* Every menu sends only what fits the room it shows.
LEMMA MenusSend ==
  ASSUME TypeInv, NEW u \in User,
         \/ MenuMain(u) \/ MenuAuthenticated(u) \/ MenuParticipant(u)
         \/ MenuCreator(u) \/ MenuExam(u)
  PROVE  Sends(u)
<1>1. state[u] \in {"IN_ROOM", "IN_EXAM"} => room[u] \in RoomId
  BY DEF TypeInv, AppOK
<1>2. CASE MenuMain(u)
  BY <1>2 DEF MenuMain, Sends, ShowsCreatorMenu, Gone
<1>3. CASE MenuAuthenticated(u)
  BY <1>3 DEF MenuAuthenticated, Sends, ShowsCreatorMenu, Gone
<1>4. CASE MenuParticipant(u)
  BY <1>1, <1>4 DEF MenuParticipant, Sends, ShowsCreatorMenu, Gone
<1>5. CASE MenuCreator(u)
  BY <1>1, <1>5 DEF MenuCreator, Sends, ShowsCreatorMenu, Gone
<1>6. CASE MenuExam(u)
  BY <1>1, <1>6 DEF MenuExam, Sends, ShowsCreatorMenu, Gone
<1> QED
  BY <1>2, <1>3, <1>4, <1>5, <1>6

\* The command that is sent.
LEMMA SendsOne ==
  ASSUME TypeInv, NEW u \in User, Sends(u)
  PROVE  \E kind \in Commands, r \in RoomId \cup {NoRoom} :
           /\ client_create_send_command(u, kind, r)
           /\ CommandOK(Msg(kind, r))
           /\ ShowsCreatorMenu(u) => kind \in {"START_EXAM", "LEAVE_ROOM"} /\ r = room[u]
           /\ kind = "START_EXAM" => ShowsCreatorMenu(u)
<1>1. room[u] \in RoomId \cup {NoRoom} /\ (ShowsCreatorMenu(u) => room[u] \in RoomId)
  BY DEF TypeInv, TypeOK, AppOK, ShowsCreatorMenu
<1>2. NoRoom \in RoomId \cup {NoRoom}
  OBVIOUS
<1>3. \A kind : CommandOK(Msg(kind, NoRoom)) <=> (kind \in CarriesRoom => NoRoom \in RoomId)
  BY DEF CommandOK, Msg
<1>4. \A kind, r : r \in RoomId => CommandOK(Msg(kind, r))
  BY DEF CommandOK, Msg
<1>5. {"LOGIN", "QUERY", "CREATE_ROOM", "LOGOUT"} \cap CarriesRoom = {}
  BY DEF CarriesRoom
<1> QED
  BY <1>1, <1>2, <1>3, <1>4, <1>5 DEF Sends, Commands

\* What happens when one is.
LEMMA SendCases ==
  ASSUME TypeInv, NEW u \in User, NEW kind \in Commands, NEW r \in RoomId \cup {NoRoom},
         client_create_send_command(u, kind, r)
  PROVE  /\ ~Waiting(u) /\ UNCHANGED <<storeVars, serverVars>>
         /\ \/ /\ ~Closed(u)
               /\ asked' = [asked EXCEPT ![u] = Msg(kind, r)]
               /\ inbox' = [inbox EXCEPT ![u] = Append(@, Msg(kind, r))]
               /\ UNCHANGED <<reset, wire, appVars>>
            \/ /\ Closed(u)
               /\ asked' = [asked EXCEPT ![u] = Msg(kind, r)]
               /\ reset' \subseteq User
               /\ UNCHANGED <<inbox, wire, appVars>>
            \/ /\ Closed(u)
               /\ Vanish(u)
               /\ UNCHANGED <<inbox, reset, asked>>
BY DEF client_create_send_command, TypeInv, TypeOK

\* The end of the program.
LEMMA VanishType ==
  ASSUME TypeOK, NEW u \in User, Vanish(u), reset' \subseteq User, UNCHANGED inbox
  PROVE  ConnectionTypes' /\ AppTypes'
<1>1. ConnectionTypes /\ AppTypes
  BY TypesAre
<1>2. NoRoom \in RoomId \cup {NoRoom} /\ "GONE" \in AppState
  BY DEF AppState
<1>3. AppTypes'
  BY <1>1, <1>2, BecomeType DEF Vanish
<1> QED
  BY <1>1, <1>3, EmptySeq, ClientAssumption DEF Vanish, ConnectionTypes

\* An application that sends.
LEMMA SendsType ==
  ASSUME TypeInv, NEW u \in User, Sends(u), reused' \in BOOLEAN
  PROVE  TypeOK'
<1>1. StoreTypeOK /\ ServerTypes /\ ConnectionTypes /\ AskedType /\ AppTypes
  BY TypesAre DEF TypeInv
<1>2. PICK kind \in Commands, r \in RoomId \cup {NoRoom} : client_create_send_command(u, kind, r)
  BY SendsOne
<1>3. StoreTypeOK' /\ ServerTypes'
  BY <1>1, <1>2, SendCases, SameStoreType DEF serverVars, ServerTypes
<1>4. Msg(kind, r) \in Command
  BY DEF Msg, Command
<1>5. asked' = asked \/ asked' = [asked EXCEPT ![u] = Msg(kind, r)]
  BY <1>2, SendCases
<1>6. AskedType'
  BY <1>1, <1>4, <1>5 DEF AskedType, Msg
<1>7. ConnectionTypes' /\ AppTypes'
  <2>1. CASE /\ inbox' = [inbox EXCEPT ![u] = Append(@, Msg(kind, r))]
             /\ UNCHANGED <<reset, wire, appVars>>
    <3>1. Append(inbox[u], Msg(kind, r)) \in Seq(Command)
      BY <1>1, <1>4, Appended DEF ConnectionTypes
    <3> QED
      BY <1>1, <2>1, <3>1, SameAppTypes DEF ConnectionTypes
  <2>2. CASE reset' \subseteq User /\ UNCHANGED <<inbox, wire, appVars>>
    BY <1>1, <2>2, SameAppTypes DEF ConnectionTypes
  <2>3. CASE Vanish(u) /\ UNCHANGED <<inbox, reset>>
    BY <1>1, <2>3, VanishType DEF TypeInv, ConnectionTypes
  <2> QED
    BY <1>2, <2>1, <2>2, <2>3, SendCases
<1> QED
  BY <1>3, <1>6, <1>7, TypesAre

\* What a line does to an application.
Reacts(u, line) ==
  \/ handle_login(u, line) \/ handle_logout(u, line) \/ handle_create_room(u, line)
  \/ handle_join_room(u, line) \/ handle_leave_room(u, line)
  \/ handle_start_exam(u, line) \/ handle_submit_exam(u, line)
  \/ UNCHANGED appVars

\* The state of an application that is in a room, or in its exam, has the room;
\* the creator's menu comes with the line that tells of the room.
Arrives(u, line) ==
  /\ AppTypes'
  /\ \A v \in User \ {u} :
       state'[v] = state[v] /\ room'[v] = room[v] /\ is_creator'[v] = is_creator[v]
  /\ Gone(u)' => Gone(u)
  /\ state'[u] \in {"IN_ROOM", "IN_EXAM"} => room'[u] \in RoomId
  /\ ShowsCreatorMenu(u)' =>
       \/ ShowsCreatorMenu(u) /\ room'[u] = room[u]
       \/ line.kind = "ROOM_CREATED" /\ room'[u] = line.room

\* What an application becomes is what the line it read says.
LEMMA Becomes ==
  ASSUME AppTypes, NEW u \in User, NEW s \in AppState, NEW r \in RoomId \cup {NoRoom},
         NEW b \in BOOLEAN, NEW line, Become(u, s, r, b), s # "GONE",
         s \in {"IN_ROOM", "IN_EXAM"} => r \in RoomId,
         s = "IN_ROOM" /\ b => line.kind = "ROOM_CREATED" /\ r = line.room
  PROVE  Arrives(u, line)
<1>1. AppTypes'
  BY BecomeType
<1> QED
  BY <1>1 DEF Become, AppTypes, Arrives, ShowsCreatorMenu, Gone

\* A line that changes no menu.
LEMMA SameArrives ==
  ASSUME TypeInv, NEW u \in User, NEW line, UNCHANGED appVars
  PROVE  Arrives(u, line)
<1>1. AppTypes'
  BY SameAppTypes, TypesAre DEF TypeInv
<1> QED
  BY <1>1 DEF Arrives, appVars, TypeInv, AppOK, ShowsCreatorMenu, Gone

\* Every reaction of the application to a response.
LEMMA ReactsArrives ==
  ASSUME TypeInv, NEW u \in User, NEW line \in Line, LineOK(u, line), Reacts(u, line)
  PROVE  Arrives(u, line)
<1>1. /\ AppTypes /\ AppOK(u) /\ CommandOK(asked[u])
      /\ room[u] \in RoomId \cup {NoRoom} /\ is_creator[u] \in BOOLEAN
  BY TypesAre DEF TypeInv, ConnectionOK, AppTypes
<1>2. NoRoom \in RoomId \cup {NoRoom}
  OBVIOUS
<1>3. {"AUTHENTICATED", "CONNECTED", "IN_ROOM", "IN_EXAM"} \subseteq AppState
  BY DEF AppState
<1>4. CASE handle_login(u, line) \/ handle_logout(u, line)
  BY <1>1, <1>3, <1>4, Becomes DEF handle_login, handle_logout
<1>5. CASE handle_leave_room(u, line) \/ handle_submit_exam(u, line)
  BY <1>1, <1>2, <1>3, <1>5, Becomes DEF handle_leave_room, handle_submit_exam
<1>6. CASE handle_create_room(u, line)
  BY <1>1, <1>3, <1>6, Becomes DEF handle_create_room, LineOK, Mine
<1>7. CASE handle_join_room(u, line)
  BY <1>1, <1>3, <1>7, Becomes DEF handle_join_room, CommandOK, CarriesRoom
<1>8. CASE handle_start_exam(u, line)
  BY <1>1, <1>3, <1>8, Becomes DEF handle_start_exam, AppOK, ShowsCreatorMenu
<1>9. CASE UNCHANGED appVars
  BY <1>9, SameArrives
<1> QED
  BY <1>4, <1>5, <1>6, <1>7, <1>8, <1>9 DEF Reacts

\* client_receive_response takes a line, or the connection is closed.
LEMMA ReceiveCases ==
  ASSUME TypeInv, NEW u \in User, client_receive_response(u)
  PROVE  /\ Waiting(u) /\ asked' = [asked EXCEPT ![u] = Nothing]
         /\ UNCHANGED <<storeVars, serverVars, inbox, reset>>
         /\ \/ /\ wire[u] # <<>>
               /\ wire' = [wire EXCEPT ![u] = Tail(@)]
               /\ Head(wire[u]) \in Line /\ LineOK(u, Head(wire[u]))
               /\ Reacts(u, Head(wire[u]))
            \/ wire[u] = <<>> /\ Closed(u) /\ UNCHANGED <<wire, appVars>>
<1>1. wire[u] \in Seq(Line) /\ ConnectionOK(u)
  BY DEF TypeInv, TypeOK, Line
<1>2. wire[u] # <<>> => Head(wire[u]) \in Line /\ LineOK(u, Head(wire[u]))
  BY <1>1, HeadAndTail DEF ConnectionOK
<1> QED
  BY <1>2 DEF client_receive_response, Reacts

\* The rest of what an application does by itself.
LEMMA LoopCases ==
  ASSUME TypeInv, NEW u \in User,
         RoomLoopRecv(u) \/ RoomLoopClosed(u) \/ ExitExam(u)
  PROVE  /\ ~Waiting(u) /\ UNCHANGED <<storeVars, serverVars, inbox, reset, asked>>
         /\ \/ \E n \in 1..Len(wire[u]) :
                 wire' = [wire EXCEPT ![u] = SubSeq(@, n + 1, Len(@))]
            \/ UNCHANGED wire
         /\ AppTypes'
         /\ \A v \in User \ {u} :
              state'[v] = state[v] /\ room'[v] = room[v] /\ is_creator'[v] = is_creator[v]
         /\ state'[u] \in {"IN_ROOM", "IN_EXAM"} => room'[u] \in RoomId
         /\ ~ShowsCreatorMenu(u)' /\ ~Gone(u)'
<1> DEFINE line == Nothing
<1>1. AppTypes /\ AppOK(u) /\ room[u] \in RoomId \cup {NoRoom} /\ is_creator[u] \in BOOLEAN
  BY TypesAre DEF TypeInv, AppTypes
<1>2. NoRoom \in RoomId \cup {NoRoom} /\ line.kind # "ROOM_CREATED"
  BY DEF Nothing, Msg
<1>3. {"AUTHENTICATED", "DISCONNECTED", "IN_ROOM", "IN_EXAM"} \subseteq AppState
  BY DEF AppState
<1> HIDE DEF line
<1>4. CASE RoomLoopRecv(u)
  <2>1. state[u] = "IN_ROOM" /\ ~is_creator[u] /\ ~Waiting(u) /\ room[u] \in RoomId
    BY <1>1, <1>4 DEF RoomLoopRecv, InRoomLoop, AppOK
  <2>2. Arrives(u, line)
    BY <1>1, <1>2, <1>3, <1>4, <2>1, Becomes, SameArrives DEF RoomLoopRecv
  <2> QED
    BY <1>2, <1>4, <2>1, <2>2 DEF RoomLoopRecv, Arrives, ShowsCreatorMenu, Gone
<1>5. CASE RoomLoopClosed(u)
  <2>1. Arrives(u, line) /\ ~ShowsCreatorMenu(u)
    BY <1>1, <1>2, <1>3, <1>5, Becomes DEF RoomLoopClosed, InRoomLoop, ShowsCreatorMenu
  <2> QED
    BY <1>2, <1>5, <2>1 DEF RoomLoopClosed, InRoomLoop, Arrives, Gone
<1>6. CASE ExitExam(u)
  <2>1. Arrives(u, line) /\ ~ShowsCreatorMenu(u)
    BY <1>1, <1>2, <1>3, <1>6, Becomes DEF ExitExam, ShowsCreatorMenu
  <2> QED
    BY <1>2, <1>6, <2>1 DEF ExitExam, Arrives, Gone
<1> QED
  BY <1>4, <1>5, <1>6

\* An application that reads.
LEMMA ListenType ==
  ASSUME TypeInv, NEW u \in User,
         \/ client_receive_response(u)
         \/ RoomLoopRecv(u) \/ RoomLoopClosed(u) \/ ExitExam(u),
         reused' \in BOOLEAN
  PROVE  TypeOK'
<1>1. StoreTypeOK /\ ServerTypes /\ ConnectionTypes /\ AskedType /\ AppTypes
  BY TypesAre DEF TypeInv
<1>2. UNCHANGED <<storeVars, serverVars, inbox, reset>>
  BY ReceiveCases, LoopCases
<1>3. StoreTypeOK' /\ ServerTypes'
  BY <1>1, <1>2, SameStoreType DEF ServerTypes, serverVars
<1>4. AskedType'
  <2>1. Nothing \in [kind : Commands \cup {"NOTHING"}, room : RoomId \cup {NoRoom}]
    BY DEF Nothing, Msg
  <2> QED
    BY <1>1, <2>1, ReceiveCases, LoopCases DEF AskedType
<1>5. AppTypes'
  BY <1>1, ReceiveCases, LoopCases, ReactsArrives, SameAppTypes DEF Arrives
<1>6. ConnectionTypes'
  <2>1. wire[u] \in Seq(Line) /\ Len(wire[u]) \in Nat /\ Len(wire[u]) <= Buffer
    BY <1>1 DEF ConnectionTypes
  <2>2. CASE wire[u] # <<>> /\ wire' = [wire EXCEPT ![u] = Tail(@)]
    <3>1. Tail(wire[u]) \in Seq(Line) /\ Len(Tail(wire[u])) <= Buffer
      BY <2>1, <2>2, HeadAndTail, ClientAssumption
    <3> QED
      BY <1>1, <1>2, <2>2, <3>1 DEF ConnectionTypes
  <2>3. ASSUME NEW n \in 1..Len(wire[u]),
               wire' = [wire EXCEPT ![u] = SubSeq(@, n + 1, Len(@))]
        PROVE  ConnectionTypes'
    <3>1. /\ SubSeq(wire[u], n + 1, Len(wire[u])) \in Seq(Line)
          /\ Len(SubSeq(wire[u], n + 1, Len(wire[u]))) <= Buffer
      BY <2>1, Dropped, ClientAssumption
    <3> QED
      BY <1>1, <1>2, <2>3, <3>1 DEF ConnectionTypes
  <2>4. CASE UNCHANGED wire
    BY <1>1, <1>2, <2>4 DEF ConnectionTypes
  <2> QED
    BY <2>2, <2>3, <2>4, ReceiveCases, LoopCases
<1> QED
  BY <1>3, <1>4, <1>5, <1>6, TypesAre

\* An application that is closed by its user.
LEMMA ExitType ==
  ASSUME TypeInv, NEW u \in User, Exit(u), reused' \in BOOLEAN
  PROVE  TypeOK'
<1>1. StoreTypeOK /\ ServerTypes /\ ConnectionTypes /\ AskedType /\ AppTypes
  BY TypesAre DEF TypeInv
<1>2. reset' \subseteq User
  BY <1>1 DEF Exit, ConnectionTypes
<1>3. ConnectionTypes' /\ AppTypes'
  BY <1>2, VanishType DEF TypeInv, Exit
<1>4. StoreTypeOK' /\ ServerTypes'
  BY <1>1, SameStoreType DEF Exit, ServerTypes, serverVars
<1>5. AskedType'
  BY <1>1 DEF Exit, AskedType, Nothing, Msg
<1> QED
  BY <1>3, <1>4, <1>5, TypesAre

\* Every step but an accept.
Step ==
  \/ Crash
  \/ \E u \in User : Server(u) \/ Listen(u) \/ Menu(u)

\* Every step keeps the types.
LEMMA TypeStep ==
  ASSUME TypeInv, Step
  PROVE  TypeOK'
<1>1. reused' \in BOOLEAN
  <2>1. ASSUME NEW u \in User, Menu(u) PROVE Going
    BY <2>1 DEF Menu, MenuMain, MenuAuthenticated, MenuParticipant, MenuCreator, MenuExam,
                client_create_send_command, ExitExam, Exit
  <2>2. ASSUME NEW u \in User, Server(u) \/ Listen(u) PROVE Going
    BY <2>2 DEF Server, Loop, Dispatch, Work, Sigpipe, Eof, RemoveSession, Close,
                Listen, client_receive_response, RoomLoopRecv, RoomLoopClosed
  <2> QED
    BY <2>1, <2>2 DEF Step, Crash, Going, TypeInv, TypeOK
<1>2. CASE Crash
  BY <1>1, <1>2, DieType DEF Crash
<1>3. ASSUME NEW u \in User, Server(u) PROVE TypeOK'
  BY <1>1, <1>3, DispatchType, WorkType, DieType, ThreadType DEF Server, Sigpipe
<1>4. ASSUME NEW u \in User, Listen(u) PROVE TypeOK'
  BY <1>1, <1>4, ListenType DEF Listen
<1>5. ASSUME NEW u \in User, Menu(u) PROVE TypeOK'
  BY <1>1, <1>5, MenusSend, SendsType, ListenType, ExitType DEF Menu
<1> QED
  BY <1>2, <1>3, <1>4, <1>5 DEF Step

----------------------------------------------------------------------------
(* The rooms, and the users who take no part in a step. *)

\* The rooms go on, whatever step is taken.
LEMMA RowsStep ==
  ASSUME TypeInv, Step
  PROVE  RowsGoOn
<1>1. StoreTypeOK /\ (UNCHANGED storeVars => RowsGoOn)
  BY SameRowsGoOn DEF TypeInv, TypeOK, storeVars
<1>2. ASSUME NEW u \in User, Work(u) PROVE RowsGoOn
  <2>1. todo[u] # <<>> /\ (UNCHANGED storeVars \/ DoCheck(u))
    BY <1>2 DEF Work, DoReply, DoEnter, TellLock, TellSlot
  <2>2. CASE DoCheck(u)
    <3>1. Chosen(u).room \in RoomId
      BY <2>1, <2>2, ChosenIs DEF DoCheck, ChoreOK
    <3> QED
      BY <1>1, <2>2, <3>1, SetStatusGoesOn DEF DoCheck, db_finish_room, Started
  <2> QED
    BY <1>1, <2>1, <2>2
<1>3. ASSUME NEW u \in User, Dispatch(u) PROVE RowsGoOn
  BY <1>3, DispatchIsHandled DEF Handled
<1>4. ASSUME NEW u \in User, Server(u) PROVE RowsGoOn
  BY <1>1, <1>2, <1>3, <1>4
     DEF Server, Loop, Sigpipe, Die, Eof, RemoveSession, Close
<1>5. ASSUME NEW u \in User, Listen(u) PROVE RowsGoOn
  BY <1>1, <1>5, ReceiveCases, LoopCases DEF Listen
<1>6. ASSUME NEW u \in User, Menu(u) PROVE RowsGoOn
  <2>1. Sends(u) => UNCHANGED storeVars
    BY SendsOne, SendCases
  <2> QED
    BY <1>1, <1>6, <2>1, MenusSend, LoopCases DEF Menu, Exit
<1> QED
  BY <1>1, <1>4, <1>5, <1>6 DEF Step, Crash, Die

\* A room stays somebody's.
LEMMA MineStays ==
  ASSUME RowsGoOn, NEW u, NEW r, Mine(u, r)
  PROVE  Mine(u, r)'
BY DEF RowsGoOn, Mine, Exists

\* A room that will be missed is missed already, unless its thread goes away.
LEMMA MissedBefore ==
  ASSUME RowsGoOn, NEW u, NEW r \in RoomId, status[r] # "NONE", Missed(u, r)',
         WillBeIn(u, r) => WillBeIn(u, r)'
  PROVE  Missed(u, r)
BY DEF RowsGoOn, Missed, Exists, RowStatus

\* A step of others: at most, a broadcast reaches v.
Apart(v) ==
  /\ todo'[v] = todo[v] /\ current_room'[v] = current_room[v]
  /\ inbox'[v] = inbox[v] /\ asked'[v] = asked[v]
  /\ state'[v] = state[v] /\ room'[v] = room[v] /\ is_creator'[v] = is_creator[v]
  /\ slots' = slots
  /\ phase'[v] # "serve" => todo[v] = <<>>
  /\ mutex'.holder = v => mutex.holder = v \/ (todo[v] # <<>> /\ Chosen(v).do = "tell")
  /\ KeepsServing(v)' => KeepsServing(v)
  /\ \/ wire'[v] = wire[v]
     \/ \E line \in Line :
          /\ ~Gone(v) /\ line.kind # "ROOM_CREATED"
          /\ wire'[v] = Append(wire[v], line)

\* The broadcast of v's own thread gets to v.
Reaches(v) ==
  Waiting(v) /\ BroadcastComes(v) => BroadcastComes(v)' \/ wire'[v] # <<>>

\* A user who is only sent lines by others keeps the ones he has.
LEMMA ApartWire ==
  ASSUME TypeInv, NEW v \in User, Apart(v)
  PROVE  /\ wire[v] # <<>> => wire'[v] # <<>>
         /\ Len(wire[v]) \in Nat /\ Len(wire'[v]) \in Nat
         /\ Len(wire'[v]) >= Len(wire[v])
         /\ \A i \in DOMAIN wire'[v] :
              \/ /\ i \in DOMAIN wire[v] /\ wire'[v][i] = wire[v][i]
                 /\ i < Len(wire[v]) => i < Len(wire'[v])
              \/ wire'[v][i].kind # "ROOM_CREATED"
<1>1. wire[v] \in Seq(Line) /\ Len(wire[v]) \in Nat /\ DOMAIN wire[v] = 1..Len(wire[v])
  BY LenProperties DEF TypeInv, TypeOK, Line
<1>2. CASE wire'[v] = wire[v]
  BY <1>1, <1>2
<1>3. ASSUME NEW line \in Line, line.kind # "ROOM_CREATED", wire'[v] = Append(wire[v], line)
      PROVE  /\ wire'[v] # <<>> /\ Len(wire'[v]) = Len(wire[v]) + 1
             /\ DOMAIN wire'[v] = 1..(Len(wire[v]) + 1)
             /\ \A i \in 1..Len(wire[v]) : wire'[v][i] = wire[v][i]
             /\ wire'[v][Len(wire[v]) + 1].kind # "ROOM_CREATED"
  BY <1>1, <1>3, Appended
<1> QED
  BY <1>1, <1>2, <1>3 DEF Apart

\* The step of another does not disturb what the thread and the
\* application of v are entitled to.
LEMMA ApartKeepsTypes ==
  ASSUME TypeInv, RowsGoOn, NEW v \in User, Apart(v)
  PROVE  ThreadOK(v)' /\ AppOK(v)' /\ ConnectionOK(v)'
<1>1. ThreadOK(v) /\ AppOK(v) /\ ConnectionOK(v)
  BY DEF TypeInv
<1>2. \A line : LineOK(v, line) => LineOK(v, line)'
  BY MineStays DEF LineOK
<1>3. ThreadOK(v)'
  <2>1. \A x : ChoreOK(v, x) => ChoreOK(v, x)'
    BY <1>2 DEF ChoreOK
  <2> QED
    BY <1>1, <2>1 DEF ThreadOK, Apart, Chosen
<1>4. AppOK(v)'
  BY <1>1, MineStays DEF AppOK, Apart, ShowsCreatorMenu, Waiting
<1>5. ConnectionOK(v)'
  <2>1. ASSUME NEW i \in DOMAIN wire'[v], NEW line, line = wire'[v][i]
        PROVE  LineOK(v, line)'
    <3>1. CASE line.kind # "ROOM_CREATED"
      BY <3>1 DEF LineOK
    <3>2. CASE line.kind = "ROOM_CREATED"
      BY <1>1, <1>2, <2>1, <3>2, ApartWire DEF ConnectionOK
    <3> QED
      BY <3>1, <3>2
  <2> QED
    BY <1>1, <2>1 DEF ConnectionOK, Apart, CommandOK, Gone, Waiting
<1> QED
  BY <1>3, <1>4, <1>5

\* The step of another does not take away the answer v waits for.
LEMMA ApartKeepsWait ==
  ASSUME TypeInv, RowsGoOn, NEW v \in User, Apart(v), WaitOK(v),
         KeepsServing(v) => Reaches(v)
  PROVE  WaitOK(v)'
<1> SUFFICES ASSUME KeepsServing(v)'
             PROVE  AskedLast(v)' /\ CreatedMissed(v)' /\ MenuMissed(v)' /\ LineComes(v)'
  BY DEF WaitOK
<1>1. AskedLast(v) /\ CreatedMissed(v) /\ MenuMissed(v) /\ LineComes(v)
  BY DEF WaitOK, Apart
<1>2. /\ Replies(v)' = Replies(v)
      /\ CommandComes(v)' = CommandComes(v) /\ CommandBefore(v)' = CommandBefore(v)
      /\ Waiting(v)' = Waiting(v) /\ ShowsCreatorMenu(v)' = ShowsCreatorMenu(v)
      /\ \A r : WillBeIn(v, r)' = WillBeIn(v, r)
  BY DEF Apart, Replies, CommandComes, CommandBefore, Counts, Waiting, ShowsCreatorMenu,
         WillBeIn
<1>3. \A r : Mine(v, r) /\ Missed(v, r)' => Missed(v, r)
  BY <1>2, MissedBefore DEF Mine
<1>4. AskedLast(v)'
  BY <1>1, <1>2 DEF AskedLast, Apart
<1>5. CreatedMissed(v)'
  <2>1. /\ \A i \in DOMAIN wire[v] :
             wire[v][i].kind = "ROOM_CREATED" => Mine(v, wire[v][i].room)
        /\ \A i \in DOMAIN todo[v] :
             todo[v][i].do = "reply" /\ todo[v][i].code = "ROOM_CREATED"
               => Mine(v, todo[v][i].room)
    BY DEF TypeInv, ConnectionOK, ThreadOK, LineOK, ChoreOK, Msg
  <2>2. ASSUME NEW i \in DOMAIN wire'[v], wire'[v][i].kind = "ROOM_CREATED",
               NEW r, r = wire'[v][i].room, Missed(v, r)'
        PROVE  i < Len(wire'[v]) \/ Replies(v)'
    <3>1. /\ i \in DOMAIN wire[v] /\ wire'[v][i] = wire[v][i]
          /\ i < Len(wire[v]) => i < Len(wire'[v])
      BY <2>2, ApartWire
    <3> QED
      BY <1>1, <1>2, <1>3, <2>1, <2>2, <3>1 DEF CreatedMissed
  <2>3. ASSUME NEW i \in DOMAIN todo'[v],
               todo'[v][i].do = "reply", todo'[v][i].code = "ROOM_CREATED",
               NEW r, r = todo'[v][i].room
        PROVE  ~Missed(v, r)'
    BY <1>1, <1>3, <2>1, <2>3 DEF CreatedMissed, Apart
  <2> QED
    BY <2>2, <2>3 DEF CreatedMissed
<1>6. MenuMissed(v)'
  <2>1. ShowsCreatorMenu(v) => Mine(v, room[v])
    BY DEF TypeInv, AppOK
  <2>2. ShowsCreatorMenu(v)' /\ Missed(v, room[v])' => ShowsCreatorMenu(v) /\ Missed(v, room[v])
    BY <1>2, <1>3, <2>1 DEF Apart
  <2>3. Len(wire[v]) >= 2 => Len(wire'[v]) >= 2
    BY ApartWire
  <2> QED
    BY <1>1, <1>2, <2>2, <2>3, ApartWire DEF MenuMissed, Apart
<1>7. LineComes(v)'
  <2>1. Reaches(v)
    BY DEF Apart
  <2> QED
    BY <1>1, <1>2, <2>1, ApartWire DEF LineComes, Reaches
<1> QED
  BY <1>4, <1>5, <1>6, <1>7

\* A step that leaves v and the mutex alone.
LEMMA NotAtAll ==
  ASSUME TypeInv, NEW v \in User,
         UNCHANGED <<slots, mutex>>,
         todo'[v] = todo[v], current_room'[v] = current_room[v],
         inbox'[v] = inbox[v], asked'[v] = asked[v], wire'[v] = wire[v],
         state'[v] = state[v], room'[v] = room[v], is_creator'[v] = is_creator[v],
         phase'[v] # "serve" => todo[v] = <<>>,
         KeepsServing(v)' => KeepsServing(v)
  PROVE  Apart(v) /\ Reaches(v)
BY DEF Apart, Reaches, BroadcastComes, Chosen

\* A thread that does not work on a command.
LEMMA ThreadApart ==
  ASSUME TypeInv, NEW u \in User, NEW v \in User,
         \/ Loop(u) \/ Eof(u) \/ RemoveSession(u)
         \/ Close(u) /\ v # u
  PROVE  Apart(v) /\ Reaches(v)
<1>1. /\ active \in [User -> BOOLEAN] /\ phase \in [User -> Phase]
      /\ inbox \in [User -> Seq(Command)] /\ slots[0] \in User
      /\ phase[v] # "serve" => todo[v] = <<>>
  BY UnlockedType DEF TypeInv, TypeOK, ThreadOK, Command
<1>2. /\ UNCHANGED <<slots, mutex, todo, current_room, asked, wire, state, room, is_creator>>
      /\ inbox'[v] = inbox[v]
  BY <1>1 DEF Loop, Eof, RemoveSession, Close, sessionVars, appVars
<1>3. phase'[v] # "serve" => todo[v] = <<>>
  BY <1>1 DEF Loop, Eof, RemoveSession, Close
<1>4. KeepsServing(v)' => KeepsServing(v)
  BY <1>1 DEF Loop, Eof, RemoveSession, Close, sessionVars, KeepsServing
<1> QED
  BY <1>2, <1>3, <1>4, NotAtAll

\* The thread of u works, and v is another user.
LEMMA WorkApart ==
  ASSUME TypeInv, NEW u \in User, NEW v \in User \ {u}, Work(u)
  PROVE  Apart(v) /\ Reaches(v)
<1>1. /\ UNCHANGED <<slots, active, phase, inbox, asked, state, room, is_creator>>
      /\ todo[u] # <<>>
  BY DEF Work, appVars
<1>2. todo \in [User -> Seq(Chore)] /\ current_room \in [User -> RoomId \cup {NoRoom}]
  BY DEF TypeInv, TypeOK
<1>3. /\ todo'[v] = todo[v] /\ current_room'[v] = current_room[v]
  BY <1>2 DEF Work, DoReply, DoEnter, TellLock, TellSlot, DoCheck, NextChore
<1>4. mutex' = mutex \/ mutex'.holder # v
  <2>1. mutex \in [holder : User \cup {NoUser}, slot : Slot] /\ v # NoUser
    BY StoreAssumption DEF TypeInv, TypeOK
  <2>2. CASE TellLock(u)
    BY <2>2 DEF TellLock
  <2>3. CASE TellSlot(u)
    <3>1. CASE mutex' = [mutex EXCEPT !.slot = @ + 1]
      BY <2>1, <2>3, <3>1 DEF TellSlot
    <3>2. CASE mutex' = Unlocked
      BY <2>1, <3>2 DEF Unlocked
    <3> QED
      BY <2>3, <3>1, <3>2 DEF TellSlot
  <2> QED
    BY <2>2, <2>3 DEF Work, DoReply, DoEnter, DoCheck
<1>5. \/ wire'[v] = wire[v]
      \/ \E line \in Line :
           /\ ~Gone(v) /\ line.kind # "ROOM_CREATED"
           /\ wire'[v] = Append(wire[v], line)
  <2>1. wire \in [User -> Seq(Line)] /\ slots[mutex.slot] \in User
    BY DEF TypeInv, TypeOK, Line
  <2>2. CASE DoReply(u)
    BY <2>1, <2>2 DEF DoReply, send_full
  <2>3. CASE TellSlot(u)
    <3>1. Msg("START_OK", Chosen(u).room) \in Line
      BY <1>1, ChosenIs, CodesAre DEF Msg, Line
    <3>2. Msg("START_OK", Chosen(u).room).kind # "ROOM_CREATED"
      BY DEF Msg
    <3> QED
      BY <2>1, <2>3, <3>1, <3>2 DEF TellSlot, send_full
  <2> QED
    BY <2>2, <2>3 DEF Work, DoEnter, TellLock, DoCheck
<1>6. KeepsServing(v)' = KeepsServing(v) /\ (phase'[v] # "serve" => todo[v] = <<>>)
  BY <1>1 DEF KeepsServing, TypeInv, ThreadOK
<1>7. Apart(v)
  BY <1>1, <1>3, <1>4, <1>5, <1>6 DEF Apart
<1>8. mutex'.holder = v => mutex' = mutex
  BY <1>4
<1> QED
  BY <1>1, <1>3, <1>7, <1>8 DEF Reaches, BroadcastComes, Chosen

\* Another user's command does not touch v's thread or connection.
LEMMA DispatchApart ==
  ASSUME TypeInv, NEW u \in User, NEW v \in User \ {u}, Dispatch(u)
  PROVE  Apart(v) /\ Reaches(v)
<1>1. PICK x : Then(u, x)
  BY DispatchIsHandled DEF Handled
<1>2. /\ todo \in [User -> Seq(Chore)] /\ inbox \in [User -> Seq(Command)]
      /\ phase \in [User -> Phase]
      /\ phase[v] # "serve" => todo[v] = <<>>
  BY DEF TypeInv, TypeOK, Command, ThreadOK
<1>3. todo'[v] = todo[v] /\ inbox'[v] = inbox[v] /\ phase'[v] = phase[v]
  BY <1>1, <1>2 DEF Then, Dispatch
<1>4. UNCHANGED <<slots, mutex, active, current_room, asked, wire, state, room, is_creator>>
  BY DEF Dispatch, appVars
<1>5. KeepsServing(v)' = KeepsServing(v)
  BY <1>3, <1>4 DEF KeepsServing
<1> QED
  BY <1>2, <1>3, <1>4, <1>5, NotAtAll

\* The application of u goes on, and v is another user.
LEMMA AppApart ==
  ASSUME TypeInv, NEW u \in User, NEW v \in User \ {u}, Listen(u) \/ Menu(u)
  PROVE  Apart(v) /\ Reaches(v)
<1>1. /\ inbox \in [User -> Seq(Command)] /\ wire \in [User -> Seq(Line)]
      /\ asked \in [User -> [kind : Commands \cup {"NOTHING"}, room : RoomId \cup {NoRoom}]]
      /\ AppTypes
      /\ phase[v] # "serve" => todo[v] = <<>>
  BY TypesAre DEF TypeInv, TypeOK, Command, Line, ThreadOK
<1> DEFINE Left == /\ UNCHANGED serverVars
                   /\ inbox'[v] = inbox[v] /\ wire'[v] = wire[v] /\ asked'[v] = asked[v]
                   /\ state'[v] = state[v] /\ room'[v] = room[v]
                   /\ is_creator'[v] = is_creator[v]
<1>2. CASE client_receive_response(u)
  <2>1. \/ Arrives(u, Head(wire[u]))
        \/ UNCHANGED appVars
    BY <1>2, ReceiveCases, ReactsArrives
  <2>2. Left
    BY <1>1, <1>2, <2>1, ReceiveCases DEF Arrives, appVars
  <2> QED
    BY <1>1, <2>2, NotAtAll DEF serverVars, KeepsServing
<1>3. CASE RoomLoopRecv(u) \/ RoomLoopClosed(u) \/ ExitExam(u)
  <2>1. Left
    BY <1>1, <1>3, LoopCases
  <2> QED
    BY <1>1, <2>1, NotAtAll DEF serverVars, KeepsServing
<1>4. CASE Sends(u)
  <2>1. PICK kind \in Commands, r \in RoomId \cup {NoRoom} :
          client_create_send_command(u, kind, r)
    BY <1>4, SendsOne
  <2>2. \/ asked' = [asked EXCEPT ![u] = Msg(kind, r)]
        \/ UNCHANGED asked
    BY <2>1, SendCases
  <2>3. \/ inbox' = [inbox EXCEPT ![u] = Append(@, Msg(kind, r))]
        \/ UNCHANGED inbox
    BY <2>1, SendCases
  <2>4. UNCHANGED <<wire, appVars>> \/ Vanish(u)
    BY <2>1, SendCases
  <2>5. Left
    BY <1>1, <2>1, <2>2, <2>3, <2>4, SendCases DEF Vanish, Become, appVars, AppTypes
  <2> QED
    BY <1>1, <2>5, NotAtAll DEF serverVars, KeepsServing
<1>5. CASE Exit(u)
  <2>1. Left
    BY <1>1, <1>5 DEF Exit, Vanish, Become, AppTypes
  <2> QED
    BY <1>1, <2>1, NotAtAll DEF serverVars, KeepsServing
<1> QED
  BY <1>2, <1>3, <1>4, <1>5, MenusSend DEF Listen, Menu

----------------------------------------------------------------------------
(* The thread goes on with its chores. *)

\* One chore of u is done, and perhaps a line is on its wire.
Done(u) ==
  /\ todo[u] # <<>> /\ todo'[u] = Tail(todo[u])
  /\ UNCHANGED <<slots, active, phase, inbox, asked, state, room, is_creator>>
  /\ mutex'.holder # u
  /\ \A r : WillBeIn(u, r) => WillBeIn(u, r)'
  /\ \/ wire'[u] = wire[u] /\ (Gone(u) \/ Chosen(u).do # "reply")
     \/ \E line \in Line :
          /\ ~Gone(u)
          /\ wire'[u] = Append(wire[u], line) /\ LineOK(u, line)
          /\ KeepsServing(u) /\ line.kind = "ROOM_CREATED" => ~Missed(u, line.room)
  /\ KeepsServing(u) => Reaches(u)

\* What it has still to do, it had to do before.
LEMMA DoneTodo ==
  ASSUME TypeInv, NEW u \in User, Done(u)
  PROVE  /\ \A i \in DOMAIN todo'[u] :
              i + 1 \in DOMAIN todo[u] /\ todo'[u][i] = todo[u][i + 1]
         /\ \A i \in DOMAIN todo[u] :
              \/ i = 1 /\ todo[u][i] = Chosen(u)
              \/ i - 1 \in DOMAIN todo'[u] /\ todo'[u][i - 1] = todo[u][i]
<1>1. todo[u] \in Seq(Chore) /\ todo[u] # <<>> /\ todo'[u] = Tail(todo[u])
  BY DEF Done, TypeInv, TypeOK
<1> QED
  BY <1>1, HeadAndTail DEF Chosen

\* A chore that is done adds at most one line for its own user.
LEMMA DoneWire ==
  ASSUME TypeInv, NEW u \in User, Done(u)
  PROVE  /\ wire[u] # <<>> => wire'[u] # <<>>
         /\ Len(wire[u]) \in Nat /\ Len(wire'[u]) \in Nat
         /\ \/ Gone(u) /\ wire'[u] = wire[u]
            \/ (Replies(u) => Replies(u)') /\ wire'[u] = wire[u]
            \/ wire'[u] # <<>> /\ Len(wire'[u]) = Len(wire[u]) + 1
         /\ \A i \in DOMAIN wire'[u] :
              \/ /\ i \in DOMAIN wire[u] /\ wire'[u][i] = wire[u][i]
                 /\ wire'[u] = wire[u] \/ i < Len(wire'[u])
              \/ /\ LineOK(u, wire'[u][i])
                 /\ KeepsServing(u) /\ wire'[u][i].kind = "ROOM_CREATED"
                      => ~Missed(u, wire'[u][i].room)
<1>1. wire[u] \in Seq(Line) /\ Len(wire[u]) \in Nat /\ DOMAIN wire[u] = 1..Len(wire[u])
  BY LenProperties DEF TypeInv, TypeOK, Line
<1>2. CASE wire'[u] = wire[u] /\ (Gone(u) \/ Chosen(u).do # "reply")
  <2>1. Chosen(u).do # "reply" /\ Replies(u) => Replies(u)'
    BY DoneTodo DEF Replies
  <2> QED
    BY <1>1, <1>2, <2>1
<1>3. ASSUME NEW line \in Line, wire'[u] = Append(wire[u], line), LineOK(u, line),
             KeepsServing(u) /\ line.kind = "ROOM_CREATED" => ~Missed(u, line.room)
      PROVE  /\ wire'[u] # <<>> /\ Len(wire'[u]) = Len(wire[u]) + 1
             /\ DOMAIN wire'[u] = 1..(Len(wire[u]) + 1)
             /\ \A i \in 1..Len(wire[u]) : wire'[u][i] = wire[u][i]
             /\ wire'[u][Len(wire[u]) + 1] = line
  BY <1>1, <1>3, Appended
<1> QED
  BY <1>1, <1>2, <1>3 DEF Done

\* A chore that is done leaves the thread and its lines in order.
LEMMA DoneKeepsTypes ==
  ASSUME TypeInv, RowsGoOn, NEW u \in User, Done(u)
  PROVE  ThreadOK(u)' /\ AppOK(u)' /\ ConnectionOK(u)'
<1>1. ThreadOK(u) /\ AppOK(u) /\ ConnectionOK(u)
  BY DEF TypeInv
<1>2. \A line : LineOK(u, line) => LineOK(u, line)'
  BY MineStays DEF LineOK
<1>3. ThreadOK(u)'
  <2>1. \A x : ChoreOK(u, x) => ChoreOK(u, x)'
    BY <1>2 DEF ChoreOK
  <2>2. phase[u] = "serve" /\ phase' = phase /\ slots' = slots /\ mutex'.holder # u
    BY <1>1 DEF ThreadOK, Done
  <2>3. \A i \in DOMAIN todo'[u] : i + 1 \in DOMAIN todo[u] /\ todo'[u][i] = todo[u][i + 1]
    BY DoneTodo
  <2>4. ASSUME NEW i \in DOMAIN todo'[u], NEW j \in DOMAIN todo'[u],
               todo'[u][i].do = "enter", todo'[u][j].do = "enter"
        PROVE  i = j
    <3>1. i + 1 = j + 1
      BY <1>1, <2>3, <2>4 DEF ThreadOK
    <3>2. todo'[u] \in Seq(Chore)
      BY ChosenIs DEF Done
    <3> QED
      BY <3>1, <3>2, LenProperties
  <2>5. \A i \in DOMAIN todo'[u] : \A x : x = todo'[u][i] => ChoreOK(u, x)'
    BY <1>1, <2>1, <2>3 DEF ThreadOK
  <2> QED
    BY <1>1, <2>2, <2>4, <2>5 DEF ThreadOK
<1>4. AppOK(u)'
  BY <1>1, MineStays DEF AppOK, Done, ShowsCreatorMenu, Waiting
<1>5. ConnectionOK(u)'
  <2>1. ASSUME NEW i \in DOMAIN wire'[u], NEW line, line = wire'[u][i]
        PROVE  LineOK(u, line)'
    BY <1>1, <1>2, <2>1, DoneWire DEF ConnectionOK
  <2>2. Gone(u) => wire'[u] = wire[u]
    BY DEF Done
  <2> QED
    BY <1>1, <2>1, <2>2 DEF ConnectionOK, Done, CommandOK, Gone, Waiting
<1> QED
  BY <1>3, <1>4, <1>5

\* A chore that is done leaves a line for the user it was done for.
LEMMA DoneKeepsWait ==
  ASSUME TypeInv, RowsGoOn, NEW u \in User, Done(u), WaitOK(u)
  PROVE  WaitOK(u)'
<1> SUFFICES ASSUME KeepsServing(u)'
             PROVE  AskedLast(u)' /\ CreatedMissed(u)' /\ MenuMissed(u)' /\ LineComes(u)'
  BY DEF WaitOK
<1>1. KeepsServing(u) /\ AskedLast(u) /\ CreatedMissed(u) /\ MenuMissed(u) /\ LineComes(u)
  BY DEF WaitOK, Done, KeepsServing
<1>2. /\ CommandComes(u)' = CommandComes(u) /\ CommandBefore(u)' = CommandBefore(u)
      /\ Waiting(u)' = Waiting(u) /\ ShowsCreatorMenu(u)' = ShowsCreatorMenu(u)
  BY DEF Done, CommandComes, CommandBefore, Counts, Waiting, ShowsCreatorMenu
<1>3. \A r : Mine(u, r) /\ Missed(u, r)' => Missed(u, r)
  BY MissedBefore DEF Mine, Done
<1>4. Gone(u) => wire[u] = <<>> /\ ~Waiting(u) /\ ~ShowsCreatorMenu(u)
  BY DEF TypeInv, ConnectionOK, Gone, ShowsCreatorMenu
<1>5. AskedLast(u)'
  BY <1>1, <1>2 DEF AskedLast, Done
<1>6. CreatedMissed(u)'
  <2>1. /\ \A i \in DOMAIN wire[u] :
             wire[u][i].kind = "ROOM_CREATED" => Mine(u, wire[u][i].room)
        /\ \A i \in DOMAIN todo[u] :
             todo[u][i].do = "reply" /\ todo[u][i].code = "ROOM_CREATED"
               => Mine(u, todo[u][i].room)
    BY DEF TypeInv, ConnectionOK, ThreadOK, LineOK, ChoreOK, Msg
  <2>2. ASSUME NEW i \in DOMAIN wire'[u], wire'[u][i].kind = "ROOM_CREATED",
               NEW r, r = wire'[u][i].room, Missed(u, r)'
        PROVE  i < Len(wire'[u]) \/ Replies(u)'
    <3>1. CASE i \in DOMAIN wire[u] /\ wire'[u][i] = wire[u][i]
      <4>1. Missed(u, r) /\ (i < Len(wire[u]) \/ Replies(u))
        BY <1>1, <1>3, <2>1, <2>2, <3>1 DEF CreatedMissed
      <4>2. wire[u] # <<>> /\ i \in 1..Len(wire[u]) /\ Len(wire[u]) \in Nat
        BY <3>1, LenProperties, EmptySeq DEF TypeInv, TypeOK, Line
      <4> QED
        BY <1>4, <4>1, <4>2, DoneWire
    <3>2. CASE LineOK(u, wire'[u][i]) /\ ~Missed(u, wire'[u][i].room)
      BY <1>3, <2>2, <3>2 DEF LineOK
    <3> QED
      BY <1>1, <2>2, <3>1, <3>2, DoneWire
  <2>3. ASSUME NEW i \in DOMAIN todo'[u],
               todo'[u][i].do = "reply", todo'[u][i].code = "ROOM_CREATED",
               NEW r, r = todo'[u][i].room
        PROVE  ~Missed(u, r)'
    BY <1>1, <1>3, <2>1, <2>3, DoneTodo DEF CreatedMissed
  <2> QED
    BY <2>2, <2>3 DEF CreatedMissed
<1>7. MenuMissed(u)'
  <2>1. ShowsCreatorMenu(u) => Mine(u, room[u])
    BY DEF TypeInv, AppOK
  <2>2. ShowsCreatorMenu(u)' /\ Missed(u, room[u])' => ShowsCreatorMenu(u) /\ Missed(u, room[u])
    BY <1>2, <1>3, <2>1 DEF Done
  <2>3. inbox' = inbox
    BY DEF Done
  <2>4. wire[u] # <<>> => Len(wire[u]) >= 1
    BY EmptySeq DEF TypeInv, TypeOK, Line
  <2> QED
    BY <1>1, <1>2, <1>4, <2>2, <2>3, <2>4, DoneWire DEF MenuMissed
<1>8. LineComes(u)'
  <2>1. Reaches(u)
    BY <1>1 DEF Done
  <2> QED
    BY <1>1, <1>2, <1>4, <2>1, DoneWire DEF LineComes, Reaches
<1> QED
  BY <1>5, <1>6, <1>7, <1>8

\* What u's thread sends, enters and checks.
LEMMA WorkIsDone ==
  ASSUME TypeInv, NEW u \in User, Work(u), WaitOK(u),
         ~TellLock(u), ~(TellSlot(u) /\ mutex.slot + 1 \in Slot)
  PROVE  Done(u)
<1>1. /\ todo[u] # <<>> /\ todo \in [User -> Seq(Chore)]
      /\ current_room \in [User -> RoomId \cup {NoRoom}]
      /\ UNCHANGED <<slots, active, phase, inbox, asked, state, room, is_creator>>
  BY DEF Work, appVars, TypeInv, TypeOK
<1>2. todo'[u] = Tail(todo[u])
  BY <1>1 DEF Work, DoReply, DoEnter, TellSlot, DoCheck, NextChore
<1>3. /\ 1 \in DOMAIN todo[u] /\ Chosen(u) = todo[u][1]
      /\ \A i \in DOMAIN todo'[u] :
           i + 1 \in DOMAIN todo[u] /\ todo'[u][i] = todo[u][i + 1] /\ i # 0
      /\ \A i \in DOMAIN todo[u] :
           \/ i = 1
           \/ i - 1 \in DOMAIN todo'[u] /\ todo'[u][i - 1] = todo[u][i]
  BY <1>1, <1>2, HeadAndTail DEF Chosen
<1>4. \A i, j \in DOMAIN todo[u] : todo[u][i].do = "enter" /\ todo[u][j].do = "enter" => i = j
  BY DEF TypeInv, ThreadOK
<1>5. u # NoUser /\ wire \in [User -> Seq(Line)]
      /\ (mutex.holder = u => Chosen(u).do = "tell")
  BY StoreAssumption DEF TypeInv, TypeOK, Line, ThreadOK
<1>6. Chosen(u).do # "enter" /\ current_room'[u] = current_room[u]
        => \A r : WillBeIn(u, r) => WillBeIn(u, r)'
  BY <1>3 DEF WillBeIn
<1>7. Chosen(u).do # "tell" => Reaches(u)
  BY DEF Reaches, BroadcastComes
<1>8. CASE DoReply(u)
  <2>1. Msg(Chosen(u).code, Chosen(u).room) \in Line /\ ChoreOK(u, Chosen(u))
    BY <1>1, ChosenIs
  <2>2. PICK line \in Line : line = Msg(Chosen(u).code, Chosen(u).room)
    BY <2>1
  <2>3. line.kind = Chosen(u).code /\ line.room = Chosen(u).room /\ LineOK(u, line)
    BY <1>8, <2>1, <2>2 DEF Msg, DoReply, ChoreOK
  <2>4. KeepsServing(u) /\ line.kind = "ROOM_CREATED" => ~Missed(u, line.room)
    BY <1>3, <1>8, <2>3 DEF DoReply, WaitOK, CreatedMissed
  <2>5. CASE Gone(u)
    BY <1>1, <1>2, <1>5, <1>6, <1>7, <1>8, <2>5 DEF DoReply, send_full, Done
  <2>6. CASE ~Gone(u)
    <3>1. wire'[u] = Append(wire[u], line)
      BY <1>5, <1>8, <2>2, <2>6 DEF DoReply, send_full
    <3> QED
      BY <1>1, <1>2, <1>5, <1>6, <1>7, <1>8, <2>3, <2>4, <2>6, <3>1 DEF DoReply, Done
  <2> QED
    BY <2>5, <2>6
<1>9. CASE DoEnter(u)
  <2>1. current_room'[u] = Chosen(u).room /\ Chosen(u).do = "enter"
    BY <1>1, <1>9 DEF DoEnter
  <2>2. \A i \in DOMAIN todo'[u] : todo'[u][i].do # "enter"
    <3>1. ASSUME NEW i \in DOMAIN todo'[u], todo'[u][i].do = "enter" PROVE FALSE
      <4>1. i + 1 = 1
        BY <1>3, <1>4, <2>1, <3>1
      <4> QED
        BY <1>1, <1>2, <3>1, <4>1, HeadAndTail
    <3> QED
      BY <3>1
  <2>3. ASSUME NEW r, WillBeIn(u, r) PROVE WillBeIn(u, r)'
    BY <1>3, <1>4, <2>1, <2>2, <2>3 DEF WillBeIn
  <2> QED
    BY <1>1, <1>2, <1>5, <1>7, <1>9, <2>1, <2>3 DEF DoEnter, Done
<1>10. CASE DoCheck(u)
  BY <1>1, <1>2, <1>5, <1>6, <1>7, <1>10 DEF DoCheck, Done
<1>11. CASE TellSlot(u) /\ mutex.slot + 1 \notin Slot
  <2>1. mutex.slot \in Slot /\ Cardinality(User) \in Nat
    BY StoreAssumption, FS_CardinalityType DEF TypeInv, TypeOK
  <2>2. \A i \in Slot : i >= mutex.slot => i = mutex.slot
    BY <1>11, <2>1 DEF Slot
  <2>3. mutex'.holder # u /\ current_room' = current_room /\ Chosen(u).do = "tell"
    BY <1>5, <1>11 DEF TellSlot, Unlocked
  <2>4. Msg("START_OK", Chosen(u).room) \in Line
    BY <1>1, ChosenIs, CodesAre DEF Msg, Line
  <2>5. PICK line \in Line : line = Msg("START_OK", Chosen(u).room)
    BY <2>4
  <2>6. line.kind # "ROOM_CREATED" /\ LineOK(u, line)
    BY <2>5 DEF Msg, LineOK
  <2>7. \/ wire'[u] = wire[u]
        \/ ~Gone(u) /\ wire'[u] = Append(wire[u], line)
    <3>1. slots[mutex.slot] \in User
      BY DEF TypeInv, TypeOK
    <3> QED
      BY <1>5, <1>11, <2>5, <3>1 DEF TellSlot, send_full
  <2>8. KeepsServing(u) => Reaches(u)
    <3> SUFFICES ASSUME KeepsServing(u), Waiting(u), BroadcastComes(u)
                 PROVE  wire'[u] # <<>>
      BY DEF Reaches
    <3>1. slots[mutex.slot] = u /\ current_room[u] = Chosen(u).room
      BY <1>11, <2>2 DEF BroadcastComes, TellSlot
    <3>2. active[u] /\ ~Gone(u)
      BY <1>1 DEF KeepsServing, TypeInv, ThreadOK, ConnectionOK
    <3>3. wire'[u] = Append(wire[u], line)
      BY <1>5, <1>11, <2>5, <3>1, <3>2 DEF TellSlot, Recipient, send_full
    <3> QED
      BY <1>5, <3>3, Appended
  <2> QED
    BY <1>1, <1>2, <1>6, <2>3, <2>6, <2>7, <2>8 DEF Done
<1> QED
  BY <1>8, <1>9, <1>10, <1>11 DEF Work

\* The broadcast of u is under way: u is passed by only when nobody serves it.
LEMMA TellApart ==
  ASSUME TypeInv, NEW u \in User, Work(u),
         TellLock(u) \/ (TellSlot(u) /\ mutex.slot + 1 \in Slot)
  PROVE  Apart(u) /\ (KeepsServing(u) => Reaches(u))
<1>1. /\ todo[u] # <<>> /\ wire \in [User -> Seq(Line)]
      /\ UNCHANGED <<slots, active, phase, inbox, asked, state, room, is_creator>>
      /\ UNCHANGED <<todo, current_room>>
      /\ Chosen(u).do = "tell"
      /\ Cardinality(User) \in Nat
      /\ mutex \in [holder : User \cup {NoUser}, slot : Slot]
      /\ slots[mutex.slot] \in User
  BY StoreAssumption, FS_CardinalityType
     DEF Work, TellLock, TellSlot, appVars, TypeInv, TypeOK, Line
<1>2. phase[u] = "serve" /\ (KeepsServing(u) => active[u]) /\ KeepsServing(u)' = KeepsServing(u)
  BY <1>1 DEF TypeInv, ThreadOK, KeepsServing
<1>3. PICK line \in Line : line = Msg("START_OK", Chosen(u).room)
  <2>1. Msg("START_OK", Chosen(u).room) \in Line
    BY <1>1, ChosenIs, CodesAre DEF Msg, Line
  <2> QED
    BY <2>1
<1>4. line.kind # "ROOM_CREATED"
  BY <1>3 DEF Msg
<1>5. \/ wire'[u] = wire[u]
      \/ ~Gone(u) /\ wire'[u] = Append(wire[u], line)
  BY <1>1, <1>3 DEF TellLock, TellSlot, send_full
<1>6. Apart(u)
  BY <1>1, <1>2, <1>4, <1>5 DEF Apart
<1>7. Waiting(u) => ~Gone(u)
  BY DEF TypeInv, ConnectionOK
<1>8. ASSUME KeepsServing(u), Waiting(u), BroadcastComes(u)
      PROVE  BroadcastComes(u)' \/ wire'[u] # <<>>
  <2>1. CASE TellLock(u)
    <3>1. mutex'.slot = 0 /\ \E i \in Slot : slots[i] = u
      BY <2>1 DEF TellLock, TypeInv, ThreadOK
    <3>2. \A i \in Slot : i >= 0
      BY <1>1 DEF Slot
    <3> QED
      BY <1>1, <1>8, <3>1, <3>2 DEF BroadcastComes, Chosen
  <2>2. CASE TellSlot(u) /\ mutex.slot + 1 \in Slot
    <3>1. mutex.holder = u /\ mutex'.slot = mutex.slot + 1
      BY <1>1, <2>2 DEF TellSlot
    <3>2. PICK i \in Slot : i >= mutex.slot /\ slots[i] = u
      BY <1>8, <3>1 DEF BroadcastComes
    <3>3. CASE i = mutex.slot
      <4>1. wire'[u] = Append(wire[u], line)
        BY <1>1, <1>2, <1>3, <1>7, <1>8, <2>2, <3>2, <3>3
           DEF TellSlot, Recipient, send_full, BroadcastComes
      <4> QED
        BY <1>1, <4>1, Appended
    <3>4. CASE i # mutex.slot
      <4>1. i >= mutex'.slot
        BY <1>1, <3>1, <3>2, <3>4 DEF Slot
      <4> QED
        BY <1>1, <1>8, <3>2, <4>1 DEF BroadcastComes, Chosen
    <3> QED
      BY <3>3, <3>4
  <2> QED
    BY <2>1, <2>2
<1> QED
  BY <1>6, <1>8 DEF Reaches

----------------------------------------------------------------------------
(* The thread takes a command. *)

\* What the step has to do with u.
LEMMA DispatchDoes ==
  ASSUME TypeInv, NEW u \in User, Dispatch(u)
  PROVE  \E x :
    /\ Served(u, Head(inbox[u]), x)
    /\ todo[u] = <<>> /\ todo'[u] = x
    /\ KeepsServing(u) /\ phase'[u] = "serve"
    /\ mutex' = mutex /\ mutex.holder # u
    /\ UNCHANGED <<slots, current_room, asked, wire, state, room, is_creator>>
<1>1. PICK x : Served(u, Head(inbox[u]), x) /\ Then(u, x)
  BY DispatchIsHandled DEF Handled
<1>2. ThreadOK(u) /\ phase[u] = "recv" /\ todo[u] = <<>>
  BY DEF TypeInv, ThreadOK, Dispatch
<1>3. todo'[u] = x
  BY <1>1 DEF Then, TypeInv, TypeOK
<1>4. phase'[u] = "serve"
  BY DEF Dispatch, TypeInv, TypeOK
<1> QED
  BY <1>1, <1>2, <1>3, <1>4 DEF Dispatch, ThreadOK, KeepsServing, appVars

\* The commands that are left.
LEMMA DispatchInbox ==
  ASSUME TypeInv, NEW u \in User, Dispatch(u)
  PROVE  /\ inbox[u] # <<>> /\ Len(inbox[u]) \in Nat \ {0}
         /\ Head(inbox[u]) \in Command /\ Head(inbox[u]) = inbox[u][1]
         /\ DOMAIN inbox[u] = 1..Len(inbox[u])
         /\ Len(inbox'[u]) = Len(inbox[u]) - 1
         /\ DOMAIN inbox'[u] = 1..(Len(inbox[u]) - 1)
         /\ \A i \in 1..(Len(inbox[u]) - 1) : inbox'[u][i] = inbox[u][i + 1]
         /\ \A i \in 1..Len(inbox[u]) :
              \/ i = 1
              \/ /\ i - 1 \in 1..(Len(inbox[u]) - 1) /\ inbox'[u][i - 1] = inbox[u][i]
                 /\ i < Len(inbox[u]) => i - 1 < Len(inbox[u]) - 1
         /\ inbox'[u] = <<>> <=> Len(inbox[u]) = 1
<1>1. inbox[u] \in Seq(Command) /\ inbox[u] # <<>> /\ inbox'[u] = Tail(inbox[u])
  BY DEF Dispatch, TypeInv, TypeOK, Command
<1>2. /\ Len(inbox[u]) \in Nat \ {0} /\ Tail(inbox[u]) \in Seq(Command)
      /\ Len(Tail(inbox[u])) = Len(inbox[u]) - 1
      /\ \A i \in 1..(Len(inbox[u]) - 1) : inbox'[u][i] = inbox[u][i + 1]
  BY <1>1, HeadAndTail
<1>3. ASSUME NEW i \in 1..Len(inbox[u]), i # 1
      PROVE  /\ i - 1 \in 1..(Len(inbox[u]) - 1) /\ inbox'[u][i - 1] = inbox[u][i]
             /\ i < Len(inbox[u]) => i - 1 < Len(inbox[u]) - 1
  <2>1. i - 1 \in 1..(Len(inbox[u]) - 1) /\ (i - 1) + 1 = i
    BY <1>2, <1>3
  <2> QED
    BY <1>2, <2>1
<1> QED
  BY <1>1, <1>2, <1>3, HeadAndTail

\* A command that is taken leaves the thread and its lines in order.
LEMMA DispatchKeepsTypes ==
  ASSUME TypeInv, NEW u \in User, Dispatch(u)
  PROVE  ThreadOK(u)' /\ AppOK(u)' /\ ConnectionOK(u)'
<1>1. ThreadOK(u) /\ AppOK(u) /\ ConnectionOK(u) /\ RowsGoOn
  BY DispatchIsHandled DEF TypeInv, Handled
<1>2. PICK x :
        /\ Served(u, Head(inbox[u]), x) /\ todo'[u] = x
        /\ phase'[u] = "serve" /\ mutex' = mutex /\ mutex.holder # u
        /\ UNCHANGED <<slots, current_room, asked, wire, state, room, is_creator>>
  BY DispatchDoes
<1>3. ThreadOK(u)'
  <2>1. \A i \in DOMAIN todo'[u] : \A e : e = todo'[u][i] => ChoreOK(u, e)'
    BY <1>2 DEF Served
  <2>2. \A i, j \in DOMAIN todo'[u] :
          todo'[u][i].do = "enter" /\ todo'[u][j].do = "enter" => i = j
    BY <1>2 DEF Served
  <2> QED
    BY <1>1, <1>2, <2>1, <2>2 DEF ThreadOK
<1>4. AppOK(u)'
  BY <1>1, <1>2, MineStays DEF AppOK, ShowsCreatorMenu, Waiting
<1>5. ConnectionOK(u)'
  <2>1. \A line : LineOK(u, line) => LineOK(u, line)'
    BY <1>1, MineStays DEF LineOK
  <2>2. ASSUME NEW i \in DOMAIN inbox'[u] PROVE CommandOK(inbox'[u][i])
    <3>1. /\ Len(inbox[u]) \in Nat \ {0} /\ DOMAIN inbox[u] = 1..Len(inbox[u])
          /\ DOMAIN inbox'[u] = 1..(Len(inbox[u]) - 1)
          /\ \A j \in 1..(Len(inbox[u]) - 1) : inbox'[u][j] = inbox[u][j + 1]
      BY DispatchInbox
    <3>2. i \in 1..(Len(inbox[u]) - 1) /\ inbox'[u][i] = inbox[u][i + 1]
      BY <2>2, <3>1
    <3>3. i + 1 \in DOMAIN inbox[u]
      BY <3>1, <3>2
    <3> QED
      BY <1>1, <3>2, <3>3 DEF ConnectionOK
  <2> QED
    BY <1>1, <1>2, <2>1, <2>2 DEF ConnectionOK, CommandOK, Gone, Waiting
<1> QED
  BY <1>3, <1>4, <1>5

\* A room that will be missed from now on is missed because of an answer.
LEMMA DispatchMisses ==
  ASSUME TypeInv, RowsGoOn, NEW u \in User, Dispatch(u),
         NEW r, Mine(u, r), Missed(u, r)', ~Missed(u, r)
  PROVE  /\ Replies(u)'
         /\ Head(inbox[u]).kind # "START_EXAM"
         /\ Head(inbox[u]).kind = "LEAVE_ROOM" => Head(inbox[u]).room # r
<1>1. PICK x :
        /\ Served(u, Head(inbox[u]), x) /\ todo[u] = <<>> /\ todo'[u] = x
        /\ current_room' = current_room
  BY DispatchDoes
<1>2. WillBeIn(u, r) /\ ~WillBeIn(u, r)'
  <2>1. ~WillBeIn(u, r)'
    BY DEF Missed
  <2> QED
    BY <2>1, MissedBefore DEF Mine
<1>3. PICK i \in DOMAIN x : x[i].do = "enter"
  <2>1. current_room[u] = r
    BY <1>1, <1>2 DEF WillBeIn
  <2> QED
    BY <1>1, <1>2, <2>1 DEF WillBeIn
<1>4. status'[r] = "NOT_STARTED" /\ creator'[r] = u
  BY DEF Missed
<1>5. Head(inbox[u]).kind # "START_EXAM"
  BY <1>1, <1>3 DEF Served
<1>6. \E j \in DOMAIN x : x[j].do = "reply"
  BY <1>1, <1>5 DEF Served, Starts
<1> QED
  BY <1>1, <1>3, <1>4, <1>5, <1>6 DEF Served, Replies

\* The command is answered, or it starts a room.
LEMMA DispatchAnswers ==
  ASSUME TypeInv, NEW u \in User, Dispatch(u), ~Replies(u)'
  PROVE  LET m == Head(inbox[u]) IN
         /\ m.kind = "START_EXAM" /\ creator[m.room] = u
         /\ status[m.room] = "NOT_STARTED" /\ status'[m.room] # "NOT_STARTED"
         /\ todo'[u] # <<>> /\ Chosen(u)'.do = "tell" /\ Chosen(u)'.room = m.room
<1>1. PICK x : Served(u, Head(inbox[u]), x) /\ todo'[u] = x
  BY DispatchDoes
<1>2. Starts(u, Head(inbox[u]), x)
  BY <1>1 DEF Served, Replies
<1>3. x = <<Tell(Head(inbox[u]).room)>>
  BY <1>2 DEF Starts
<1>4. Head(x).do = "tell" /\ Head(x).room = Head(inbox[u]).room
  BY <1>3 DEF Tell
<1> QED
  BY <1>1, <1>2, <1>4 DEF Starts, Served, Chosen

\* A command that is taken is answered by the chores it leaves.
LEMMA DispatchKeepsWait ==
  ASSUME TypeInv, NEW u \in User, Dispatch(u), WaitOK(u)
  PROVE  WaitOK(u)'
<1> DEFINE m == Head(inbox[u])
<1>1. AskedLast(u) /\ CreatedMissed(u) /\ MenuMissed(u) /\ LineComes(u) /\ RowsGoOn
  BY DispatchDoes, DispatchIsHandled DEF WaitOK, Handled
<1>2. /\ todo[u] = <<>> /\ mutex' = mutex /\ mutex.holder # u
      /\ UNCHANGED <<slots, current_room, asked, wire, state, room, is_creator>>
  BY DispatchDoes
<1>3. /\ ~Replies(u) /\ ~BroadcastComes(u)
      /\ Waiting(u)' = Waiting(u) /\ ShowsCreatorMenu(u)' = ShowsCreatorMenu(u)
      /\ \A r : WillBeIn(u, r) => current_room[u] = r
  BY <1>2 DEF Replies, BroadcastComes, Waiting, ShowsCreatorMenu, WillBeIn
<1>4. /\ Len(inbox[u]) \in Nat \ {0} /\ m = inbox[u][1]
      /\ DOMAIN inbox[u] = 1..Len(inbox[u])
      /\ Len(inbox'[u]) = Len(inbox[u]) - 1
      /\ DOMAIN inbox'[u] = 1..(Len(inbox[u]) - 1)
      /\ \A i \in 1..(Len(inbox[u]) - 1) : inbox'[u][i] = inbox[u][i + 1]
      /\ \A i \in 1..Len(inbox[u]) :
           \/ i = 1
           \/ /\ i - 1 \in 1..(Len(inbox[u]) - 1) /\ inbox'[u][i - 1] = inbox[u][i]
              /\ i < Len(inbox[u]) => i - 1 < Len(inbox[u]) - 1
      /\ inbox'[u] = <<>> <=> Len(inbox[u]) = 1
  BY DispatchInbox
<1> HIDE DEF m
<1>5. Waiting(u) => inbox[u][Len(inbox[u])] = asked[u]
  BY <1>1, DispatchInbox DEF AskedLast
<1>6. /\ asked[u].kind = "START_EXAM" => ShowsCreatorMenu(u)
      /\ ShowsCreatorMenu(u) /\ Waiting(u)
           => asked[u].kind \in {"START_EXAM", "LEAVE_ROOM"} /\ asked[u].room = room[u]
      /\ ShowsCreatorMenu(u) => Mine(u, room[u])
  BY DEF TypeInv, AppOK
<1>7. ~Replies(u)' =>
        /\ m.kind = "START_EXAM" /\ creator[m.room] = u
        /\ status[m.room] = "NOT_STARTED" /\ status'[m.room] # "NOT_STARTED"
        /\ todo'[u] # <<>> /\ Chosen(u)'.do = "tell" /\ Chosen(u)'.room = m.room
  BY DispatchAnswers DEF m
<1>8. Counts(u, asked[u]) \/ ~Waiting(u)
  BY <1>6 DEF Counts
<1>9. AskedLast(u)'
  BY <1>2, <1>3, <1>4, <1>5 DEF AskedLast
<1>10. CreatedMissed(u)'
  <2>1. ASSUME NEW i \in DOMAIN wire'[u], wire'[u][i].kind = "ROOM_CREATED",
               NEW r, r = wire'[u][i].room, Missed(u, r)'
        PROVE  i < Len(wire'[u]) \/ Replies(u)'
    <3>1. Mine(u, r)
      BY <1>2, <2>1 DEF TypeInv, ConnectionOK, LineOK
    <3> QED
      BY <1>1, <1>2, <1>3, <2>1, <3>1, DispatchMisses DEF CreatedMissed
  <2>2. ASSUME NEW i \in DOMAIN todo'[u],
               todo'[u][i].do = "reply", todo'[u][i].code = "ROOM_CREATED",
               NEW r, r = todo'[u][i].room
        PROVE  ~Missed(u, r)'
    <3>1. PICK x : Served(u, Head(inbox[u]), x) /\ todo'[u] = x
      BY DispatchDoes
    <3>2. PICK j \in DOMAIN x : x[j].do = "enter" /\ x[j].room = r
      BY <2>2, <3>1 DEF Served
    <3> QED
      BY <3>1, <3>2 DEF Missed, WillBeIn
  <2> QED
    BY <2>1, <2>2 DEF CreatedMissed
<1>11. MenuMissed(u)'
  <2> SUFFICES ASSUME ShowsCreatorMenu(u), NEW r, r = room[u], Missed(u, r)'
               PROVE  IF Waiting(u)
                        THEN \/ /\ inbox'[u] # <<>>
                                /\ wire[u] # <<>> \/ Replies(u)' \/ CommandBefore(u)'
                             \/ Len(wire[u]) >= 2
                             \/ wire[u] # <<>> /\ Replies(u)'
                        ELSE wire[u] # <<>> \/ Replies(u)' \/ CommandComes(u)'
    BY <1>2, <1>3 DEF MenuMissed
  <2>1. Mine(u, r) /\ status'[r] = "NOT_STARTED"
    BY <1>6 DEF Missed
  <2>2. ~Replies(u)' => ~Counts(u, m)
    BY <1>7, <2>1 DEF Counts
  <2>3. CASE ~Missed(u, r)
    <3>1. Replies(u)' /\ m.kind # "START_EXAM" /\ (m.kind = "LEAVE_ROOM" => m.room # r)
      BY <1>1, <2>1, <2>3, DispatchMisses DEF m
    <3>2. Waiting(u) => Len(inbox[u]) # 1
      BY <1>4, <1>5, <1>6, <3>1
    <3> QED
      BY <1>4, <3>1, <3>2
  <2>4. CASE Missed(u, r) /\ Waiting(u)
    <3>1. \/ wire[u] # <<>> \/ CommandBefore(u)
          \/ Len(wire[u]) >= 2
      BY <1>1, <1>3, <2>4 DEF MenuMissed
    <3>2. CASE Replies(u)'
      BY <1>4, <2>4, <3>1, <3>2 DEF CommandBefore
    <3>3. CASE ~Replies(u)'
      <4>1. Len(inbox[u]) # 1
        BY <1>4, <1>5, <1>8, <2>2, <2>4, <3>3
      <4>2. CommandBefore(u) => CommandBefore(u)'
        <5>1. ASSUME NEW i \in DOMAIN inbox[u], i < Len(inbox[u]), Counts(u, inbox[u][i])
              PROVE  CommandBefore(u)'
          <6>1. i # 1
            BY <1>4, <2>2, <3>3, <5>1
          <6>2. /\ i - 1 \in DOMAIN inbox'[u] /\ i - 1 < Len(inbox'[u])
                /\ inbox'[u][i - 1] = inbox[u][i]
            BY <1>4, <5>1, <6>1
          <6> QED
            BY <1>2, <5>1, <6>2 DEF CommandBefore, Counts
        <5> QED
          BY <5>1 DEF CommandBefore
      <4> QED
        BY <1>4, <2>4, <3>1, <4>1, <4>2
    <3> QED
      BY <3>2, <3>3
  <2>5. CASE Missed(u, r) /\ ~Waiting(u)
    <3>1. wire[u] # <<>> \/ CommandComes(u)
      BY <1>1, <1>3, <2>5 DEF MenuMissed
    <3>2. ASSUME ~Replies(u)', NEW i \in DOMAIN inbox[u], Counts(u, inbox[u][i])
          PROVE  CommandComes(u)'
      <4>1. i # 1
        BY <1>4, <2>2, <3>2
      <4>2. i - 1 \in DOMAIN inbox'[u] /\ inbox'[u][i - 1] = inbox[u][i]
        BY <1>4, <3>2, <4>1
      <4> QED
        BY <1>2, <3>2, <4>2 DEF CommandComes, Counts
    <3> QED
      BY <2>5, <3>1, <3>2 DEF CommandComes
  <2> QED
    BY <2>3, <2>4, <2>5
<1>12. LineComes(u)'
  <2> SUFFICES ASSUME Waiting(u), ~Replies(u)', wire[u] = <<>>
               PROVE  CommandComes(u)' \/ BroadcastComes(u)'
    BY <1>2, <1>3 DEF LineComes
  <2>1. CASE Len(inbox[u]) # 1
    <3>1. PICK i \in 1..Len(inbox[u]) : i # 1 /\ inbox[u][i] = asked[u]
      BY <1>4, <1>5, <2>1
    <3>2. i - 1 \in DOMAIN inbox'[u] /\ inbox'[u][i - 1] = asked[u]
      BY <1>4, <3>1
    <3> QED
      BY <1>2, <1>8, <3>2 DEF CommandComes, Counts
  <2>2. CASE Len(inbox[u]) = 1
    <3>1. m = asked[u] /\ ~CommandBefore(u)
      BY <1>4, <1>5, <2>2 DEF CommandBefore
    <3>2. ShowsCreatorMenu(u) /\ m.room = room[u]
      BY <1>6, <1>7, <3>1
    <3>3. Len(wire[u]) = 0
      BY EmptySeq
    <3>4. ~Missed(u, room[u])
      BY <1>1, <1>3, <3>1, <3>2, <3>3 DEF MenuMissed
    <3>5. current_room[u] = m.room
      BY <1>3, <1>7, <3>2, <3>4 DEF Missed
    <3> QED
      BY <1>2, <1>7, <3>5 DEF BroadcastComes
  <2> QED
    BY <2>1, <2>2
<1> QED
  BY <1>9, <1>10, <1>11, <1>12 DEF WaitOK


----------------------------------------------------------------------------
(* The application goes on. *)

\* A program that has ended shows nothing and waits for nothing.
LEMMA VanishKeeps ==
  ASSUME TypeInv, NEW u \in User, Vanish(u), UNCHANGED inbox,
         asked'[u] = Nothing
  PROVE  AppOK(u)' /\ ConnectionOK(u)'
<1>1. state'[u] = "GONE" /\ wire'[u] = <<>>
  BY DEF Vanish, Become, TypeInv, TypeOK
<1>2. Nothing.kind = "NOTHING" /\ CommandOK(Nothing)
  BY DEF Nothing, Msg, CommandOK, CarriesRoom
<1>3. ~Waiting(u)' /\ ~ShowsCreatorMenu(u)'
  BY <1>1 DEF Waiting, ShowsCreatorMenu
<1>4. AppOK(u)'
  BY <1>1, <1>2, <1>3 DEF AppOK
<1>5. DOMAIN wire'[u] = {}
  BY <1>1, EmptySeq
<1>6. \A i \in DOMAIN inbox'[u] : CommandOK(inbox'[u][i])
  BY DEF TypeInv, ConnectionOK
<1>7. ConnectionOK(u)'
  BY <1>1, <1>2, <1>3, <1>5, <1>6 DEF ConnectionOK, CommandOK
<1> QED
  BY <1>4, <1>7

\* A command is sent.  What the application had not got then comes before it.
LEMMA SendsKeeps ==
  ASSUME TypeInv, NEW u \in User, Sends(u), WaitOK(u)
  PROVE  ThreadOK(u)' /\ AppOK(u)' /\ ConnectionOK(u)' /\ WaitOK(u)'
<1>1. PICK kind \in Commands, r \in RoomId \cup {NoRoom} :
        /\ client_create_send_command(u, kind, r)
        /\ CommandOK(Msg(kind, r))
        /\ ShowsCreatorMenu(u) => kind \in {"START_EXAM", "LEAVE_ROOM"} /\ r = room[u]
        /\ kind = "START_EXAM" => ShowsCreatorMenu(u)
  BY SendsOne
<1>2. /\ ThreadOK(u) /\ AppOK(u) /\ ConnectionOK(u)
      /\ inbox \in [User -> Seq(Command)] /\ wire \in [User -> Seq(Line)] /\ AppTypes
      /\ asked \in [User -> [kind : Commands \cup {"NOTHING"}, room : RoomId \cup {NoRoom}]]
  BY TypesAre DEF TypeInv, TypeOK, Command, Line
<1>3. ~Waiting(u) /\ UNCHANGED <<storeVars, serverVars>>
  BY <1>1, SendCases
<1>4. /\ \A q : Mine(u, q)' = Mine(u, q) /\ Missed(u, q)' = Missed(u, q)
      /\ \A line : LineOK(u, line)' = LineOK(u, line)
      /\ \A x : ChoreOK(u, x)' = ChoreOK(u, x)
      /\ Replies(u)' = Replies(u) /\ KeepsServing(u)' = KeepsServing(u)
  BY <1>3 DEF Mine, Missed, LineOK, ChoreOK, WillBeIn, Replies, KeepsServing, Exists,
              serverVars, storeVars
<1>5. ThreadOK(u)'
  BY <1>2, <1>3, <1>4 DEF ThreadOK, serverVars, Chosen
<1>6. Closed(u) => ~KeepsServing(u)
  BY DEF Closed, KeepsServing
<1>7. PICK m \in Command : m = Msg(kind, r)
  BY DEF Msg, Command
<1>8. /\ m.kind = kind /\ m.room = r /\ m # Nothing /\ kind \in Commands
      /\ Nothing.kind = "NOTHING"
  BY <1>7 DEF Msg, Nothing, Commands
<1>9. ~Gone(u)
  BY DEF Sends
<1>10. CASE ~Closed(u)
  <2>1. /\ asked'[u] = m /\ inbox'[u] = Append(inbox[u], m)
        /\ UNCHANGED <<wire, state, room, is_creator>>
    BY <1>1, <1>2, <1>7, <1>10, SendCases DEF appVars
  <2>2. /\ inbox'[u] # <<>> /\ Len(inbox[u]) \in Nat
        /\ Len(inbox'[u]) = Len(inbox[u]) + 1
        /\ DOMAIN inbox[u] = 1..Len(inbox[u])
        /\ DOMAIN inbox'[u] = 1..(Len(inbox[u]) + 1)
        /\ \A i \in 1..Len(inbox[u]) : inbox'[u][i] = inbox[u][i]
        /\ inbox'[u][Len(inbox[u]) + 1] = m
    BY <1>2, <2>1, Appended
  <2>3. Waiting(u)' /\ ShowsCreatorMenu(u)' = ShowsCreatorMenu(u) /\ Gone(u)' = Gone(u)
    BY <1>8, <2>1 DEF Waiting, ShowsCreatorMenu, Gone
  <2>4. AppOK(u)'
    BY <1>1, <1>2, <1>4, <1>8, <2>1, <2>3 DEF AppOK
  <2>5. ConnectionOK(u)'
    <3>1. ASSUME NEW i \in DOMAIN inbox'[u] PROVE CommandOK(inbox'[u][i])
      <4>1. CommandOK(m) /\ \A j \in DOMAIN inbox[u] : CommandOK(inbox[u][j])
        BY <1>1, <1>2, <1>7 DEF ConnectionOK
      <4>2. i \in 1..Len(inbox[u]) \/ i = Len(inbox[u]) + 1
        BY <2>2, <3>1
      <4> QED
        BY <2>2, <4>1, <4>2
    <3> QED
      BY <1>1, <1>2, <1>4, <1>7, <1>9, <2>1, <2>3, <3>1 DEF ConnectionOK, CommandOK
  <2>6. ASSUME KeepsServing(u)'
        PROVE  AskedLast(u)' /\ CreatedMissed(u)' /\ MenuMissed(u)' /\ LineComes(u)'
    <3>1. CreatedMissed(u) /\ MenuMissed(u)
      BY <1>4, <2>6 DEF WaitOK
    <3>2. AskedLast(u)'
      BY <2>1, <2>2 DEF AskedLast
    <3>3. CreatedMissed(u)'
      BY <1>3, <1>4, <2>1, <3>1 DEF CreatedMissed, serverVars
    <3>4. CommandComes(u) => CommandBefore(u)'
      BY <2>1, <2>2 DEF CommandComes, CommandBefore, Counts
    <3>5. MenuMissed(u)'
      BY <1>3, <1>4, <2>1, <2>2, <2>3, <3>1, <3>4 DEF MenuMissed
    <3>6. Counts(u, m)'
      BY <1>1, <1>8, <2>1 DEF Counts
    <3>7. CommandComes(u)'
      BY <2>1, <2>2, <3>6 DEF CommandComes, Counts
    <3> QED
      BY <3>2, <3>3, <3>5, <3>7 DEF LineComes
  <2> QED
    BY <1>5, <2>4, <2>5, <2>6 DEF WaitOK
<1>11. CASE Closed(u)
  <2>1. WaitOK(u)'
    BY <1>4, <1>6, <1>11 DEF WaitOK
  <2>2. CASE asked' = [asked EXCEPT ![u] = m] /\ UNCHANGED <<inbox, wire, appVars>>
    <3>1. asked'[u] = m
      BY <1>2, <2>2
    <3>2. ShowsCreatorMenu(u)' = ShowsCreatorMenu(u) /\ Gone(u)' = Gone(u)
      BY <2>2 DEF ShowsCreatorMenu, Gone, appVars
    <3>3. AppOK(u)'
      BY <1>1, <1>2, <1>4, <1>8, <2>2, <3>1, <3>2 DEF AppOK, appVars
    <3>4. ConnectionOK(u)'
      BY <1>1, <1>2, <1>4, <1>7, <1>9, <2>2, <3>1, <3>2 DEF ConnectionOK, CommandOK
    <3> QED
      BY <1>5, <2>1, <3>3, <3>4
  <2>3. CASE Vanish(u) /\ UNCHANGED <<inbox, asked>>
    BY <1>3, <1>5, <2>1, <2>3, VanishKeeps DEF Waiting
  <2> QED
    BY <1>1, <1>7, <1>11, <2>2, <2>3, SendCases
<1> QED
  BY <1>10, <1>11

\* A line is taken, and what it was for is settled.
LEMMA ReceiveKeeps ==
  ASSUME TypeInv, NEW u \in User, client_receive_response(u), WaitOK(u)
  PROVE  ThreadOK(u)' /\ AppOK(u)' /\ ConnectionOK(u)' /\ WaitOK(u)'
<1>1. /\ Waiting(u) /\ asked'[u] = Nothing
      /\ UNCHANGED <<storeVars, serverVars, inbox, reset>>
  BY ReceiveCases DEF TypeInv, TypeOK
<1>2. /\ ThreadOK(u) /\ AppOK(u) /\ ConnectionOK(u) /\ ~Gone(u)
      /\ wire \in [User -> Seq(Line)]
  BY <1>1 DEF TypeInv, ConnectionOK, TypeOK, Line
<1>3. /\ \A q : Mine(u, q)' = Mine(u, q) /\ Missed(u, q)' = Missed(u, q)
      /\ \A line : LineOK(u, line)' = LineOK(u, line)
      /\ \A x : ChoreOK(u, x)' = ChoreOK(u, x)
      /\ Replies(u)' = Replies(u) /\ KeepsServing(u)' = KeepsServing(u)
  BY <1>1 DEF Mine, Missed, LineOK, ChoreOK, WillBeIn, Replies, KeepsServing, Exists,
              serverVars, storeVars
<1>4. Nothing.kind = "NOTHING" /\ CommandOK(Nothing) /\ ~Waiting(u)'
  BY <1>1 DEF Nothing, Msg, CommandOK, CarriesRoom, Waiting
<1>5. ThreadOK(u)'
  BY <1>2, <1>1, <1>3 DEF ThreadOK, serverVars, Chosen
<1>6. AskedLast(u)' /\ LineComes(u)'
  BY <1>4 DEF AskedLast, LineComes
<1>7. CASE /\ wire[u] # <<>> /\ wire'[u] = Tail(wire[u])
           /\ LineOK(u, Head(wire[u])) /\ Arrives(u, Head(wire[u]))
  <2> DEFINE line == Head(wire[u])
  <2>1. /\ Len(wire[u]) \in Nat \ {0} /\ DOMAIN wire[u] = 1..Len(wire[u])
        /\ line = wire[u][1] /\ Len(wire'[u]) = Len(wire[u]) - 1
        /\ DOMAIN wire'[u] = 1..(Len(wire[u]) - 1)
        /\ \A i \in 1..(Len(wire[u]) - 1) : wire'[u][i] = wire[u][i + 1]
        /\ wire'[u] = <<>> <=> Len(wire[u]) = 1
    BY <1>2, <1>7, HeadAndTail
  <2>2. /\ LineOK(u, line) /\ ~Gone(u)'
        /\ state'[u] \in {"IN_ROOM", "IN_EXAM"} => room'[u] \in RoomId
        /\ ShowsCreatorMenu(u)' =>
             \/ ShowsCreatorMenu(u) /\ room'[u] = room[u]
             \/ line.kind = "ROOM_CREATED" /\ room'[u] = line.room
    BY <1>2, <1>7 DEF Arrives
  <2> HIDE DEF line
  <2>3. AppOK(u)'
    <3>1. ShowsCreatorMenu(u)' => Mine(u, room[u])'
      <4>1. \A r : ShowsCreatorMenu(u)' /\ r = room'[u] => Mine(u, r)
        BY <1>2, <2>2 DEF AppOK, LineOK
      <4> QED
        BY <1>3, <4>1
    <3> QED
      BY <1>1, <1>4, <2>2, <3>1 DEF AppOK
  <2>4. ConnectionOK(u)'
    <3>1. ASSUME NEW i \in DOMAIN wire'[u] PROVE LineOK(u, wire'[u][i])
      <4>1. i + 1 \in DOMAIN wire[u] /\ wire'[u][i] = wire[u][i + 1]
        BY <2>1, <3>1
      <4> QED
        BY <1>2, <4>1 DEF ConnectionOK
    <3> QED
      BY <1>1, <1>2, <1>3, <1>4, <2>2, <3>1 DEF ConnectionOK, CommandOK
  <2>5. ASSUME KeepsServing(u)'
        PROVE  CreatedMissed(u)' /\ MenuMissed(u)'
    <3>1. AskedLast(u) /\ CreatedMissed(u) /\ MenuMissed(u)
      BY <1>3, <2>5 DEF WaitOK
    <3>2. CreatedMissed(u)'
      <4>1. ASSUME NEW i \in DOMAIN wire'[u], wire'[u][i].kind = "ROOM_CREATED",
                   Missed(u, wire'[u][i].room)
            PROVE  i < Len(wire'[u]) \/ Replies(u)
        <5>1. /\ i \in 1..(Len(wire[u]) - 1) /\ i + 1 \in DOMAIN wire[u]
              /\ wire'[u][i] = wire[u][i + 1]
          BY <2>1, <4>1
        <5>2. i + 1 < Len(wire[u]) \/ Replies(u)
          BY <3>1, <4>1, <5>1 DEF CreatedMissed
        <5> QED
          BY <2>1, <5>1, <5>2
      <4>2. \A i \in DOMAIN todo[u] :
              todo[u][i].do = "reply" /\ todo[u][i].code = "ROOM_CREATED"
                => ~Missed(u, todo[u][i].room)
        BY <3>1 DEF CreatedMissed
      <4> QED
        BY <1>1, <1>3, <4>1, <4>2 DEF CreatedMissed, serverVars
    <3>3. ASSUME ShowsCreatorMenu(u)', NEW r, r = room'[u], Missed(u, r)
          PROVE  wire'[u] # <<>> \/ Replies(u) \/ CommandComes(u)'
      <4>1. CASE ShowsCreatorMenu(u) /\ room'[u] = room[u]
        <5>1. \/ inbox[u] # <<>> \/ Len(wire[u]) >= 2 \/ Replies(u)
          BY <1>1, <3>1, <3>3, <4>1 DEF MenuMissed
        <5>2. CASE inbox[u] # <<>>
          <6>1. asked[u].room = room[u] /\ inbox[u][Len(inbox[u])] = asked[u]
            BY <1>1, <1>2, <3>1, <4>1, <5>2 DEF AskedLast, AppOK
          <6>2. Len(inbox[u]) \in DOMAIN inbox[u]
            <7>1. inbox[u] \in Seq(Command)
              BY DEF TypeInv, TypeOK, Command
            <7> QED
              BY <5>2, <7>1, HeadAndTail
          <6> QED
            BY <1>1, <4>1, <6>1, <6>2 DEF CommandComes, Counts
        <5> QED
          BY <2>1, <5>1, <5>2
      <4>2. CASE line.kind = "ROOM_CREATED" /\ r = line.room
        <5>1. 1 < Len(wire[u]) \/ Replies(u)
          BY <2>1, <3>1, <3>3, <4>2 DEF CreatedMissed
        <5> QED
          BY <2>1, <5>1
      <4> QED
        BY <2>2, <3>3, <4>1, <4>2
    <3>4. MenuMissed(u)'
      BY <1>3, <1>4, <3>3 DEF MenuMissed
    <3> QED
      BY <3>2, <3>4
  <2> QED
    BY <1>5, <1>6, <2>3, <2>4, <2>5 DEF WaitOK
<1>8. CASE Closed(u) /\ UNCHANGED <<wire, appVars>>
  <2>1. ~KeepsServing(u)'
    BY <1>3, <1>8 DEF Closed, KeepsServing
  <2>2. ShowsCreatorMenu(u)' = ShowsCreatorMenu(u) /\ Gone(u)' = Gone(u)
    BY <1>8 DEF ShowsCreatorMenu, Gone, appVars
  <2>3. AppOK(u)'
    BY <1>1, <1>2, <1>3, <1>4, <1>8, <2>2 DEF AppOK, appVars
  <2>4. ConnectionOK(u)'
    BY <1>1, <1>2, <1>3, <1>4, <1>8, <2>2 DEF ConnectionOK
  <2> QED
    BY <1>5, <2>1, <2>3, <2>4 DEF WaitOK
<1>9. \/ /\ wire[u] # <<>> /\ wire'[u] = Tail(wire[u])
         /\ LineOK(u, Head(wire[u])) /\ Arrives(u, Head(wire[u]))
      \/ Closed(u) /\ UNCHANGED <<wire, appVars>>
  BY <1>2, ReceiveCases, ReactsArrives
<1> QED
  BY <1>7, <1>8, <1>9

\* The room loop and "Back": nobody waits, and the creator's menu is not shown.
LEMMA LoopKeeps ==
  ASSUME TypeInv, NEW u \in User, WaitOK(u),
         RoomLoopRecv(u) \/ RoomLoopClosed(u) \/ ExitExam(u)
  PROVE  ThreadOK(u)' /\ AppOK(u)' /\ ConnectionOK(u)' /\ WaitOK(u)'
<1>1. /\ ~Waiting(u) /\ UNCHANGED <<storeVars, serverVars, inbox, reset, asked>>
      /\ state'[u] \in {"IN_ROOM", "IN_EXAM"} => room'[u] \in RoomId
      /\ ~ShowsCreatorMenu(u)' /\ ~Gone(u)'
  BY LoopCases
<1>2. /\ ThreadOK(u) /\ AppOK(u) /\ ConnectionOK(u)
      /\ wire[u] \in Seq(Line) /\ wire \in [User -> Seq(Line)]
  BY DEF TypeInv, TypeOK, Line
<1>3. /\ \A q : Mine(u, q)' = Mine(u, q) /\ Missed(u, q)' = Missed(u, q)
      /\ \A line : LineOK(u, line)' = LineOK(u, line)
      /\ \A x : ChoreOK(u, x)' = ChoreOK(u, x)
      /\ Replies(u)' = Replies(u) /\ KeepsServing(u)' = KeepsServing(u)
  BY <1>1 DEF Mine, Missed, LineOK, ChoreOK, WillBeIn, Replies, KeepsServing, Exists,
              serverVars, storeVars
<1>4. ~Waiting(u)' /\ asked[u].kind # "START_EXAM"
  BY <1>1 DEF Waiting, Nothing, Msg
<1>5. ThreadOK(u)'
  BY <1>2, <1>1, <1>3 DEF ThreadOK, serverVars, Chosen
<1>6. AppOK(u)'
  BY <1>1, <1>4 DEF AppOK
<1>7. /\ Len(wire[u]) \in Nat /\ DOMAIN wire[u] = 1..Len(wire[u])
      /\ \/ \E n \in 1..Len(wire[u]) :
              /\ Len(wire'[u]) = Len(wire[u]) - n
              /\ DOMAIN wire'[u] = 1..(Len(wire[u]) - n)
              /\ \A i \in 1..(Len(wire[u]) - n) : wire'[u][i] = wire[u][i + n]
         \/ wire'[u] = wire[u]
  <2>1. Len(wire[u]) \in Nat /\ DOMAIN wire[u] = 1..Len(wire[u])
    BY <1>2, LenProperties
  <2>2. ASSUME NEW n \in 1..Len(wire[u]),
               wire' = [wire EXCEPT ![u] = SubSeq(@, n + 1, Len(@))]
        PROVE  /\ Len(wire'[u]) = Len(wire[u]) - n
               /\ DOMAIN wire'[u] = 1..(Len(wire[u]) - n)
               /\ \A i \in 1..(Len(wire[u]) - n) : wire'[u][i] = wire[u][i + n]
    <3>1. wire'[u] = SubSeq(wire[u], n + 1, Len(wire[u]))
      BY <1>2, <2>2
    <3> QED
      BY <1>2, <3>1, Dropped
  <2> QED
    BY <2>1, <2>2, LoopCases
<1>8. ASSUME NEW i \in DOMAIN wire'[u]
      PROVE  \E j \in DOMAIN wire[u] :
               wire'[u][i] = wire[u][j] /\ (j < Len(wire[u]) => i < Len(wire'[u]))
  <2>1. ASSUME NEW n \in 1..Len(wire[u]), Len(wire'[u]) = Len(wire[u]) - n,
               DOMAIN wire'[u] = 1..(Len(wire[u]) - n),
               \A k \in 1..(Len(wire[u]) - n) : wire'[u][k] = wire[u][k + n]
        PROVE  \E j \in DOMAIN wire[u] :
                 wire'[u][i] = wire[u][j] /\ (j < Len(wire[u]) => i < Len(wire'[u]))
    <3>1. i \in 1..(Len(wire[u]) - n) /\ wire'[u][i] = wire[u][i + n]
      BY <1>8, <2>1
    <3>2. Len(wire[u]) \in Nat /\ DOMAIN wire[u] = 1..Len(wire[u])
      BY <1>7
    <3>3. i + n \in 1..Len(wire[u]) /\ (i + n < Len(wire[u]) => i < Len(wire[u]) - n)
      BY <3>1, <3>2
    <3> QED
      BY <2>1, <3>1, <3>2, <3>3
  <2> QED
    BY <1>7, <1>8, <2>1
<1>9. ConnectionOK(u)'
  <2>1. \A i \in DOMAIN wire'[u] : LineOK(u, wire'[u][i])
    BY <1>2, <1>8 DEF ConnectionOK
  <2> QED
    BY <1>1, <1>2, <1>3, <2>1 DEF ConnectionOK
<1>10. ASSUME KeepsServing(u)'
       PROVE  AskedLast(u)' /\ CreatedMissed(u)' /\ MenuMissed(u)' /\ LineComes(u)'
  <2>1. CreatedMissed(u)
    BY <1>3, <1>10 DEF WaitOK
  <2>2. \A i \in DOMAIN wire'[u] :
          wire'[u][i].kind = "ROOM_CREATED" /\ Missed(u, wire'[u][i].room)
            => i < Len(wire'[u]) \/ Replies(u)
    BY <1>8, <2>1 DEF CreatedMissed
  <2>3. CreatedMissed(u)'
    BY <1>1, <1>3, <2>1, <2>2 DEF CreatedMissed, serverVars
  <2> QED
    BY <1>1, <1>4, <2>3 DEF AskedLast, MenuMissed, LineComes
<1> QED
  BY <1>5, <1>6, <1>9, <1>10 DEF WaitOK

\* A user who closes the application waits for nothing.
LEMMA ExitKeeps ==
  ASSUME TypeInv, NEW u \in User, Exit(u), WaitOK(u)
  PROVE  ThreadOK(u)' /\ AppOK(u)' /\ ConnectionOK(u)' /\ WaitOK(u)'
<1>1. /\ Vanish(u) /\ asked'[u] = Nothing
      /\ UNCHANGED <<storeVars, serverVars, inbox>>
  BY DEF Exit, TypeInv, TypeOK
<1>2. AppOK(u)' /\ ConnectionOK(u)'
  BY <1>1, VanishKeeps
<1>3. ThreadOK(u)'
  <2>1. \A x : ChoreOK(u, x)' = ChoreOK(u, x)
    BY <1>1 DEF ChoreOK, LineOK, Mine, Exists, storeVars
  <2> QED
    BY <1>1, <2>1 DEF TypeInv, ThreadOK, serverVars, Chosen
<1>4. state'[u] = "GONE" /\ wire'[u] = <<>> /\ DOMAIN wire'[u] = {}
  BY <1>1, EmptySeq DEF Vanish, Become, TypeInv, TypeOK
<1>5. ~Waiting(u)' /\ ~ShowsCreatorMenu(u)'
  BY <1>1, <1>4 DEF Waiting, ShowsCreatorMenu
<1>6. CreatedMissed(u) => CreatedMissed(u)'
  <2>1. \A r : Missed(u, r)' = Missed(u, r)
    BY <1>1 DEF Missed, WillBeIn, serverVars, storeVars
  <2> QED
    BY <1>1, <1>4, <2>1 DEF CreatedMissed, serverVars
<1>7. AskedLast(u)' /\ MenuMissed(u)' /\ LineComes(u)'
  BY <1>5 DEF AskedLast, MenuMissed, LineComes
<1>8. KeepsServing(u)' = KeepsServing(u)
  BY <1>1 DEF KeepsServing, serverVars
<1> QED
  BY <1>2, <1>3, <1>6, <1>7, <1>8 DEF WaitOK

----------------------------------------------------------------------------
(* The server ends, and the invariant. *)

\* When the server ends, no connection is served any more.
LEMMA DieKeeps ==
  ASSUME TypeInv, NEW u \in User, Die
  PROVE  ThreadOK(u)' /\ AppOK(u)' /\ ConnectionOK(u)' /\ WaitOK(u)'
<1>1. /\ phase'[u] = "over" /\ todo'[u] = <<>> /\ mutex'.holder # u /\ inbox'[u] = <<>>
      /\ UNCHANGED <<storeVars, slots, wire, asked, appVars>>
  BY StoreAssumption DEF Die, Unlocked
<1>2. ThreadOK(u) /\ AppOK(u) /\ ConnectionOK(u)
  BY DEF TypeInv
<1>3. DOMAIN todo'[u] = {} /\ DOMAIN inbox'[u] = {}
  BY <1>1, EmptySeq
<1>4. ThreadOK(u)'
  BY <1>1, <1>2, <1>3 DEF ThreadOK
<1>5. /\ \A q : Mine(u, q)' = Mine(u, q)
      /\ \A line : LineOK(u, line)' = LineOK(u, line)
  BY <1>1 DEF Mine, LineOK, Exists, storeVars
<1>6. AppOK(u)'
  BY <1>1, <1>2, <1>5 DEF AppOK, ShowsCreatorMenu, Waiting, appVars
<1>7. ConnectionOK(u)'
  BY <1>1, <1>2, <1>3, <1>5 DEF ConnectionOK, Gone, Waiting, CommandOK, appVars
<1>8. WaitOK(u)'
  BY <1>1 DEF WaitOK, KeepsServing
<1> QED
  BY <1>4, <1>6, <1>7, <1>8

\* The end of a connection ends what was promised of it.
LEMMA CloseKeeps ==
  ASSUME TypeInv, NEW u \in User, Close(u)
  PROVE  ThreadOK(u)' /\ AppOK(u)' /\ ConnectionOK(u)' /\ WaitOK(u)'
<1>1. /\ phase'[u] = "over" /\ inbox'[u] = <<>> /\ phase[u] = "close"
      /\ UNCHANGED <<storeVars, slots, todo, mutex, wire, asked, appVars>>
  BY DEF Close, TypeInv, TypeOK
<1>2. ThreadOK(u) /\ AppOK(u) /\ ConnectionOK(u)
  BY DEF TypeInv
<1>3. DOMAIN inbox'[u] = {}
  BY <1>1, EmptySeq
<1>4. /\ \A q : Mine(u, q)' = Mine(u, q)
      /\ \A line : LineOK(u, line)' = LineOK(u, line)
      /\ \A x : ChoreOK(u, x)' = ChoreOK(u, x)
  BY <1>1 DEF Mine, LineOK, ChoreOK, Exists, storeVars
<1>5. ThreadOK(u)'
  BY <1>1, <1>2, <1>4 DEF ThreadOK, Chosen
<1>6. AppOK(u)'
  BY <1>1, <1>2, <1>4 DEF AppOK, ShowsCreatorMenu, Waiting, appVars
<1>7. ConnectionOK(u)'
  BY <1>1, <1>2, <1>3, <1>4 DEF ConnectionOK, Gone, Waiting, CommandOK, appVars
<1>8. WaitOK(u)'
  BY <1>1 DEF WaitOK, KeepsServing
<1> QED
  BY <1>5, <1>6, <1>7, <1>8

Kept(v) == ThreadOK(v)' /\ AppOK(v)' /\ ConnectionOK(v)' /\ WaitOK(v)'

\* Another's step keeps the invariant of v.
LEMMA ApartKept ==
  ASSUME TypeInv, RowsGoOn, NEW v \in User, WaitOK(v), Apart(v),
         KeepsServing(v) => Reaches(v)
  PROVE  Kept(v)
BY ApartKeepsTypes, ApartKeepsWait DEF Kept

\* A chore that is done keeps the invariant of its own user.
LEMMA DoneKept ==
  ASSUME TypeInv, RowsGoOn, NEW u \in User, WaitOK(u), Done(u)
  PROVE  Kept(u)
BY DoneKeepsTypes, DoneKeepsWait DEF Kept

\* Every step of a thread keeps the invariant of every user.
LEMMA ServerKeeps ==
  ASSUME TypeInv, RowsGoOn, NEW u \in User, NEW v \in User, WaitOK(v), Server(u)
  PROVE  Kept(v)
<1>1. CASE Loop(u) \/ Eof(u) \/ RemoveSession(u)
  BY <1>1, ThreadApart, ApartKept
<1>2. CASE Close(u)
  BY <1>2, ThreadApart, ApartKept, CloseKeeps DEF Kept
<1>3. CASE Dispatch(u)
  BY <1>3, DispatchApart, ApartKept, DispatchKeepsTypes, DispatchKeepsWait DEF Kept
<1>4. CASE Work(u)
  BY <1>4, WorkApart, ApartKept, WorkIsDone, DoneKept, TellApart
<1>5. CASE Sigpipe(u)
  BY <1>5, DieKeeps DEF Sigpipe, Kept
<1> QED
  BY <1>1, <1>2, <1>3, <1>4, <1>5 DEF Server

\* Every step of an application keeps the invariant of every user.
LEMMA AppKeeps ==
  ASSUME TypeInv, RowsGoOn, NEW u \in User, NEW v \in User, WaitOK(v),
         Listen(u) \/ Menu(u)
  PROVE  Kept(v)
<1>1. CASE v # u
  BY <1>1, AppApart, ApartKept
<1>2. CASE v = u
  <2>1. CASE Listen(u)
    BY <1>2, <2>1, ReceiveKeeps, LoopKeeps DEF Listen, Kept
  <2>2. CASE Menu(u)
    BY <1>2, <2>2, MenusSend, SendsKeeps, LoopKeeps, ExitKeeps DEF Menu, Kept
  <2> QED
    BY <2>1, <2>2
<1> QED
  BY <1>1, <1>2

\* The invariant is inductive.
LEMMA InvariantStep ==
  ASSUME IInv, [Next]_vars
  PROVE  IInv'
<1>1. CASE Step
  <2>1. TypeInv /\ TypeOK' /\ RowsGoOn
    BY <1>1, TypeStep, RowsStep DEF IInv
  <2>2. ASSUME NEW v \in User PROVE Kept(v)
    <3>1. WaitOK(v)
      BY DEF IInv
    <3> QED
      BY <1>1, <2>1, <3>1, ServerKeeps, AppKeeps, DieKeeps DEF Step, Crash, Kept
  <2> QED
    BY <2>1, <2>2 DEF IInv, TypeInv, Kept
<1>2. CASE Accept \/ UNCHANGED vars
  <2> USE <1>2 DEF vars, Accept, storeVars, serverVars, sessionVars, appVars
  <2>1. TypeOK'
    BY DEF IInv, TypeInv, TypeOK, StoreTypeOK
  <2>2. RowsGoOn /\ UNCHANGED <<storeVars, serverVars, inbox, wire, reset, asked, appVars>>
    BY SameRowsGoOn DEF IInv, TypeInv, TypeOK, storeVars, serverVars, appVars
  <2>3. ASSUME NEW v \in User PROVE Kept(v)
    <3>1. /\ WaitOK(v) /\ TypeInv
          /\ phase[v] # "serve" => todo[v] = <<>>
          /\ KeepsServing(v)' = KeepsServing(v)
      BY DEF IInv, TypeInv, ThreadOK, KeepsServing
    <3>2. Apart(v) /\ Reaches(v)
      BY <3>1, NotAtAll
    <3> QED
      BY <2>2, <3>1, <3>2, ApartKept
  <2> QED
    BY <2>1, <2>3 DEF IInv, TypeInv, Kept
<1> QED
  BY <1>1, <1>2 DEF Next, Step

\* The invariant holds when nobody is connected.
LEMMA InvariantInit == Init => IInv
<1> SUFFICES ASSUME Init PROVE IInv
  OBVIOUS
<1>1. StoreTypeOK
  <2>1. [u \in User |-> NoScore] \in [User -> Score \cup {NoScore}]
    OBVIOUS
  <2> QED
    BY <2>1 DEF Init, StoreInit, StoreTypeOK, RoomStatus
<1>2. ServerTypes
  BY UnlockedType, EmptySeq DEF Init, ServerTypes, Phase
<1>3. ConnectionTypes /\ AskedType /\ AppTypes
  BY EmptySeq, ClientAssumption
     DEF Init, ConnectionTypes, AskedType, AppTypes, AppState, Nothing, Msg
<1>4. ASSUME NEW u \in User
      PROVE  ThreadOK(u) /\ AppOK(u) /\ ConnectionOK(u) /\ WaitOK(u)
  <2>1. /\ todo[u] = <<>> /\ inbox[u] = <<>> /\ wire[u] = <<>> /\ asked[u] = Nothing
        /\ phase[u] = "serve" /\ state[u] = "CONNECTED" /\ mutex.holder # u
        /\ \E i \in Slot : slots[i] = u
    BY StoreAssumption DEF Init, Unlocked
  <2>2. DOMAIN todo[u] = {} /\ DOMAIN inbox[u] = {} /\ DOMAIN wire[u] = {}
    BY <2>1, EmptySeq
  <2>3. /\ ~Waiting(u) /\ ~ShowsCreatorMenu(u) /\ ~Gone(u)
        /\ asked[u].kind = "NOTHING"
    BY <2>1 DEF Waiting, ShowsCreatorMenu, Gone, Nothing, Msg
  <2>4. ThreadOK(u)
    BY <2>1, <2>2 DEF ThreadOK
  <2>5. AppOK(u)
    BY <2>1, <2>3 DEF AppOK
  <2>6. ConnectionOK(u)
    BY <2>2, <2>3 DEF ConnectionOK, CommandOK, CarriesRoom
  <2>7. WaitOK(u)
    BY <2>2, <2>3 DEF WaitOK, AskedLast, CreatedMissed, MenuMissed, LineComes
  <2> QED
    BY <2>4, <2>5, <2>6, <2>7
<1> QED
  BY <1>1, <1>2, <1>3, <1>4, TypesAre DEF Init, IInv, TypeInv

----------------------------------------------------------------------------
\* What the theorems below are instances of: the types, what is on its way on
\* each connection, and what an application that waits is going to get.
THEOREM ClientInvariant == Spec => []IInv
<1>1. Init => IInv
  BY InvariantInit
<1>2. IInv /\ [Next]_vars => IInv'
  BY InvariantStep
<1> QED
  BY <1>1, <1>2, PTL DEF Spec

\* TypeOK: the variables keep their types; in particular no connection holds
\* more lines than its buffers take (send_full, client.c).
THEOREM TypeCorrect == Spec => []TypeOK
<1>1. IInv => TypeOK
  BY DEF IInv, TypeInv
<1> QED
  BY <1>1, ClientInvariant, PTL

\* CreatorMenuIsCreators: a creator's menu is shown to the creator only,
\* although handle_submit_exam keeps is_creator and responses may be one late, as
\* long as no connection is accepted into a slot that was freed.
THEOREM MenuIsTheCreators == Spec => []CreatorMenuIsCreators
<1>1. IInv => CreatorMenuIsCreators
  BY DEF IInv, TypeInv, AppOK, ShowsCreatorMenu, Mine, CreatorMenuIsCreators
<1> QED
  BY <1>1, ClientInvariant, PTL

\* NobodyWaitsInVain: a START_EXAM is answered by the broadcast, or by a line
\* that was left over from an earlier command; all other commands are answered.
\* This is so until a connection is accepted into a slot that was freed
\* (server.c:136-160): then the old thread of the slot replies to it.
THEOREM EveryWaitIsAnswered == Spec => []NobodyWaitsInVain
<1>1. IInv => NobodyWaitsInVain
  <2> SUFFICES ASSUME IInv, NEW u \in User, KeepsServing(u), Waiting(u)
               PROVE  inbox[u] # <<>> \/ todo[u] # <<>> \/ wire[u] # <<>>
    BY DEF NobodyWaitsInVain
  <2>1. wire[u] # <<>> \/ Replies(u) \/ CommandComes(u) \/ BroadcastComes(u)
    BY DEF IInv, WaitOK, LineComes
  <2>2. DOMAIN <<>> = {}
    BY EmptySeq
  <2> QED
    BY <2>1, <2>2 DEF Replies, CommandComes, BroadcastComes
<1> QED
  BY <1>1, ClientInvariant, PTL
=============================================================================
