---------------------------- MODULE SessionService ----------------------------
(***************************************************************************)
(* Connections and logins: the accept loop, the connection threads and the *)
(* table server->clients of server/server.c, the handlers of               *)
(* server/auth/auth.c and the rows of `users` and `sessions`.              *)
(*                                                                         *)
(* A step is the code between two points at which another thread may run:  *)
(* one db_* call, one critical section of clients_mutex, or one access to  *)
(* the thread's ClientSession outside of it.  The commands on rooms and    *)
(* exams are in RoomService; here they are the command OTHER.              *)
(*                                                                         *)
(* After server.c:333 two threads may have slot 0 and write its strings    *)
(* without a lock: each string is a step, and what two strcpy at once into *)
(* the same string would leave is not modelled.                            *)
(*                                                                         *)
(* client->state is left out.  Only check_authentication reads it, beside  *)
(* session_id; a LOGOUT that it refuses changes nothing, as OTHER.         *)
(***************************************************************************)
EXTENDS Integers, FiniteSets

CONSTANTS
  Conn,         \* the connections clients open, each with its thread
  NoConn,
  User,         \* user names
  NoUser,       \* the empty user name
  Digest,       \* passwords, as sha256_hash leaves them: one byte of the hash
  NoDigest,     \* of an account that does not exist
  MAX_CLIENTS,  \* the slots of server->clients; 100 in the code
  MaxTime,      \* bound: the seconds the model's clock counts
  DbMayFail,    \* a MySQL statement may fail
  Input         \* the inputs the environment offers in this model

NoFd == 0

Inputs == {"REGISTER", "LOGIN", "LOGOUT", "OTHER", "HANGUP", "CRASH"}

ASSUME SessionAssumption ==
  /\ NoConn \notin Conn
  /\ NoUser \notin User
  /\ NoDigest \notin Digest
  /\ IsFiniteSet(Conn)
  /\ IsFiniteSet(User)
  /\ MAX_CLIENTS \in Nat \ {0}
  /\ MaxTime \in Nat
  /\ DbMayFail \in BOOLEAN
  /\ Input \subseteq Inputs

Slot == 0..(MAX_CLIENTS - 1)
NoSlot == -1
Fd == 1..Cardinality(Conn)

\* "sess_<second>_<username>"
Session == (0..MaxTime) \X User
NoSession == <<>>
Owner(id) == id[2]

Label == {"none", "loop", "recv", "register_create", "login_check", "login_create",
          "login_enter", "login_name", "logout_clear", "logout_name",
          "remove", "close", "release", "done"}

VARIABLES
  now,       \* time(NULL)
  accounts,  \* users.password_hash, by user name
  rows,      \* sessions.is_active, by session id
  clients,   \* server->clients
  file,      \* the connection each file descriptor refers to
  peer,      \* what the client has done with its connection
  pc,        \* what each thread does next
  slot,      \* the thread's ClientSession
  fd,        \* the descriptor its recv_line reads
  asked,     \* the user name its command names
  pass,      \* the digest of the password its REGISTER names
  sid,       \* the session id its last LOGIN made
  told,      \* history: the digests whose REGISTER was answered CREATED
  spared     \* history: the rows that an UPDATE should have ended and failed

tables == <<accounts, rows, told, spared>>
thread == <<slot, fd, asked, pass, sid>>
vars == <<now, accounts, rows, clients, file, peer, pc, slot, fd, asked, pass, sid, told,
          spared>>

ClientSession == [socket_fd : Fd \cup {NoFd},
                  session_id : Session \cup {NoSession},
                  username : User \cup {NoUser},
                  active : BOOLEAN]

\* memset(client, 0, sizeof(ClientSession))
Zeroed == [socket_fd |-> NoFd, session_id |-> NoSession,
           username |-> NoUser, active |-> FALSE]

TypeOK ==
  /\ now \in 0..MaxTime
  /\ accounts \in [User -> Digest \cup {NoDigest}]
  /\ rows \in [Session -> {"absent", "active", "inactive"}]
  /\ clients \in [Slot -> ClientSession]
  /\ file \in [Fd -> Conn \cup {NoConn}]
  /\ peer \in [Conn -> {"new", "up", "down"}]
  /\ pc \in [Conn -> Label]
  /\ slot \in [Conn -> Slot \cup {NoSlot}]
  /\ fd \in [Conn -> Fd \cup {NoFd}]
  /\ asked \in [Conn -> User \cup {NoUser}]
  /\ pass \in [Conn -> Digest \cup {NoDigest}]
  /\ sid \in [Conn -> Session \cup {NoSession}]
  /\ told \in [User -> SUBSET Digest]
  /\ spared \subseteq Session

Init ==
  /\ now = 0
  /\ accounts = [u \in User |-> NoDigest]
  /\ rows = [id \in Session |-> "absent"]
  /\ clients = [i \in Slot |-> Zeroed]
  /\ file = [f \in Fd |-> NoConn]
  /\ peer = [c \in Conn |-> "new"]
  /\ pc = [c \in Conn |-> "none"]
  /\ slot = [c \in Conn |-> NoSlot]
  /\ fd = [c \in Conn |-> NoFd]
  /\ asked = [c \in Conn |-> NoUser]
  /\ pass = [c \in Conn |-> NoDigest]
  /\ sid = [c \in Conn |-> NoSession]
  /\ told = [u \in User |-> {}]
  /\ spared = {}

At(c, label) == pc[c] = label
Goto(c, label) == pc' = [pc EXCEPT ![c] = label]

\* The iteration of handle_client's loop ends; its locals with it.
NextCommand(c) ==
  /\ Goto(c, "loop")
  /\ asked' = [asked EXCEPT ![c] = NoUser]
  /\ pass' = [pass EXCEPT ![c] = NoDigest]
  /\ fd' = [fd EXCEPT ![c] = NoFd]

\* `client` in the thread of c.
Mine(c) == clients[slot[c]]

Least(S) == CHOOSE x \in S : \A y \in S : x <= y

----------------------------------------------------------------------------
(* The tables of users and sessions.  A statement that fails answers -1,    *)
(* which every caller of the first four takes for "yes".                    *)

Says(answer) == {answer} \cup (IF DbMayFail THEN {TRUE} ELSE {})

db_check_username_exists(u) == Says(accounts[u] # NoDigest)
db_verify_login(u, p) == Says(accounts[u] = p)

\* Nothing in the server locks an account.
db_is_account_locked(u) == Says(FALSE)

db_check_user_logged_in(u) ==
  Says(\E id \in Session : Owner(id) = u /\ rows[id] = "active")

\* Mutant: the row is replaced (ON DUPLICATE KEY UPDATE).
db_create_userM(u, p, ok) ==
  \/ ok /\ accounts' = [accounts EXCEPT ![u] = p]
  \/ ~ok /\ DbMayFail /\ UNCHANGED accounts

\* The name is UNIQUE.
db_create_user(u, p, ok) ==
  \/ ok /\ accounts[u] = NoDigest /\ accounts' = [accounts EXCEPT ![u] = p]
  \/ ~ok /\ (DbMayFail \/ accounts[u] # NoDigest) /\ UNCHANGED accounts

\* Mutant: the user's older sessions are left as they are.
db_create_sessionM(id, ok) ==
  /\ \/ ok /\ rows[id] = "absent" /\ rows' = [rows EXCEPT ![id] = "active"]
     \/ ~ok /\ rows[id] # "absent" /\ UNCHANGED rows
  /\ UNCHANGED spared

\* The sessions of id's user that are active.
OpenBeside(id) == {x \in Session : Owner(x) = Owner(id) /\ rows[x] = "active"}

\* Two statements under one lock.  The result of the UPDATE is not looked at
\* and nothing undoes it when the INSERT meets an id that is there already, or a
\* name without an account (the foreign key).
db_create_session(id, ok) ==
  \E cleared \in {TRUE} \cup (IF DbMayFail THEN {FALSE} ELSE {}) :
    LET old == [x \in Session |->
                  IF cleared /\ x \in OpenBeside(id) THEN "inactive" ELSE rows[x]]
    IN /\ spared' = IF cleared THEN spared ELSE spared \cup OpenBeside(id)
       /\ \/ /\ ok
             /\ rows[id] = "absent"
             /\ accounts[Owner(id)] # NoDigest
             /\ rows' = [old EXCEPT ![id] = "active"]
          \/ /\ ~ok
             /\ DbMayFail \/ rows[id] # "absent" \/ accounts[Owner(id)] = NoDigest
             /\ rows' = old

\* Mutant: the row is deleted.
db_destroy_sessionM(id) == rows' = [rows EXCEPT ![id] = "absent"]

\* Its result is ignored by both callers.
db_destroy_session(id) ==
  \/ rows' = [rows EXCEPT ![id] = IF @ = "active" THEN "inactive" ELSE @]
  \/ DbMayFail /\ UNCHANGED rows

----------------------------------------------------------------------------
(* Connections. *)

\* The main thread takes a connection: accept returns the least descriptor
\* that is free, the first slot that is not active is zeroed and given to a new
\* thread.
Accept(c) ==
  LET free == {i \in Slot : ~clients[i].active}
      i == Least(free)
      f == Least({g \in Fd : file[g] = NoConn})
  IN /\ peer[c] = "new"
     /\ free # {}
     /\ peer' = [peer EXCEPT ![c] = "up"]
     /\ file' = [file EXCEPT ![f] = c]
     /\ clients' = [clients EXCEPT ![i] = [Zeroed EXCEPT !.socket_fd = f,
                                                         !.active = TRUE]]
     /\ slot' = [slot EXCEPT ![c] = i]
     /\ Goto(c, "loop")
     /\ UNCHANGED <<now, tables, fd, asked, pass, sid>>

\* No slot is free: "Server full", and the connection is closed.
Refuse(c) ==
  /\ peer[c] = "new"
  /\ \A i \in Slot : clients[i].active
  /\ peer' = [peer EXCEPT ![c] = "down"]
  /\ UNCHANGED <<now, tables, clients, file, pc, thread>>

\* while (client->active ...): on to recv_line, or out.
Loop(c) ==
  /\ At(c, "loop")
  /\ IF Mine(c).active
       THEN Goto(c, "recv") /\ fd' = [fd EXCEPT ![c] = Mine(c).socket_fd]
       ELSE Goto(c, "remove") /\ UNCHANGED fd
  /\ UNCHANGED <<now, tables, clients, file, peer, slot, asked, pass, sid>>

\* The connection that the thread's descriptor refers to, if it is up.
Heard(c) == fd[c] # NoFd /\ file[fd[c]] # NoConn /\ peer[file[fd[c]]] = "up"

\* recv_line fails: the descriptor is closed or cut, or its client has gone.
\* (That the client went earlier makes no difference to the server.)
Eof(c) ==
  /\ At(c, "recv")
  /\ IF Heard(c)
       THEN "HANGUP" \in Input /\ peer' = [peer EXCEPT ![file[fd[c]]] = "down"]
       ELSE UNCHANGED peer
  /\ Goto(c, "remove")
  /\ fd' = [fd EXCEPT ![c] = NoFd]
  /\ UNCHANGED <<now, tables, clients, file, slot, asked, pass, sid>>

\* recv_line returned a command.
Receive(c, cmd) ==
  /\ cmd \in Input
  /\ At(c, "recv")
  /\ Heard(c)

\* A command that changes no account and no session.
OtherCommand(c) ==
  /\ Receive(c, "OTHER")
  /\ NextCommand(c)
  /\ UNCHANGED <<now, tables, clients, file, peer, slot, sid>>

\* Mutant: the thread's own slot is marked, before its descriptor is closed.
RemoveSessionM(c) ==
  /\ At(c, "remove")
  /\ IF Mine(c).session_id # NoSession
       THEN db_destroy_session(Mine(c).session_id)
       ELSE UNCHANGED rows
  /\ clients' = [clients EXCEPT ![slot[c]].active = FALSE]
  /\ Goto(c, "close")
  /\ UNCHANGED <<now, accounts, told, spared, file, peer, thread>>

\* remove_client_session, called with client->socket_fd: the loop ends after
\* slot 0, whose session it ends if slot 0 has this descriptor, and which it
\* marks free in any case.
RemoveSession(c) ==
  /\ At(c, "remove")
  /\ IF clients[0].socket_fd = Mine(c).socket_fd /\ clients[0].session_id # NoSession
       THEN db_destroy_session(clients[0].session_id)
       ELSE UNCHANGED rows
  /\ clients' = [clients EXCEPT ![0].active = FALSE]
  /\ Goto(c, "close")
  /\ UNCHANGED <<now, accounts, told, spared, file, peer, thread>>

\* close(client->socket_fd): the connection it now refers to, if any, is cut.
Close(c) ==
  LET f == Mine(c).socket_fd
  IN /\ At(c, "close")
     /\ IF f # NoFd /\ file[f] # NoConn
          THEN /\ file' = [file EXCEPT ![f] = NoConn]
               /\ peer' = [peer EXCEPT ![file[f]] = "down"]
          ELSE UNCHANGED <<file, peer>>
     /\ Goto(c, "release")
     /\ UNCHANGED <<now, tables, clients, thread>>

\* Mutant: the thread ends and leaves its slot to remove_client_session.
ReleaseM(c) ==
  /\ At(c, "release")
  /\ Goto(c, "done")
  /\ UNCHANGED <<now, tables, clients, file, peer, thread>>

\* client->active = 0
Release(c) ==
  /\ At(c, "release")
  /\ clients' = [clients EXCEPT ![slot[c]].active = FALSE]
  /\ Goto(c, "done")
  /\ UNCHANGED <<now, tables, file, peer, thread>>

----------------------------------------------------------------------------
(* REGISTER.  A name or a password of the wrong form is refused before any *)
(* query, as OTHER.                                                        *)

RegisterCheck(c, u, p) ==
  /\ Receive(c, "REGISTER")
  /\ \E exists \in db_check_username_exists(u) :
       IF exists
         THEN NextCommand(c)
         ELSE /\ Goto(c, "register_create")
              /\ asked' = [asked EXCEPT ![c] = u]
              /\ pass' = [pass EXCEPT ![c] = p]
              /\ UNCHANGED fd
  /\ UNCHANGED <<now, tables, clients, file, peer, slot, sid>>

\* The answer is CREATED or an error; of two that passed the check one has it.
RegisterCreate(c) ==
  /\ At(c, "register_create")
  /\ \E ok \in BOOLEAN :
       /\ db_create_user(asked[c], pass[c], ok)
       /\ told' = [told EXCEPT ![asked[c]] = IF ok THEN @ \cup {pass[c]} ELSE @]
  /\ NextCommand(c)
  /\ UNCHANGED <<now, rows, spared, clients, file, peer, slot, sid>>

----------------------------------------------------------------------------
(* LOGIN *)

\* The account exists, the password is right, the account is not locked.  The
\* three queries are one step: no account is ever deleted, locked or changed.
\* A LOGIN that is refused here changes nothing, as OTHER.
LoginVerify(c, u, p) ==
  /\ Receive(c, "LOGIN")
  /\ TRUE \in db_check_username_exists(u)
  /\ TRUE \in db_verify_login(u, p)
  /\ FALSE \in db_is_account_locked(u)
  /\ asked' = [asked EXCEPT ![c] = u]
  /\ Goto(c, "login_check")
  /\ UNCHANGED <<now, tables, clients, file, peer, slot, fd, pass, sid>>

\* The session id is made from the clock as soon as the check has passed.
LoginCheck(c) ==
  /\ At(c, "login_check")
  /\ \E logged_in \in db_check_user_logged_in(asked[c]) :
       IF logged_in
         THEN NextCommand(c) /\ UNCHANGED sid
         ELSE /\ Goto(c, "login_create")
              /\ sid' = [sid EXCEPT ![c] = <<now, asked[c]>>]
              /\ UNCHANGED <<fd, asked, pass>>
  /\ UNCHANGED <<now, tables, clients, file, peer, slot>>

LoginCreate(c) ==
  /\ At(c, "login_create")
  /\ \E ok \in BOOLEAN :
       /\ db_create_session(sid[c], ok)
       /\ IF ok THEN Goto(c, "login_enter") /\ UNCHANGED <<fd, asked, pass, sid>>
                ELSE NextCommand(c) /\ sid' = [sid EXCEPT ![c] = NoSession]
  /\ UNCHANGED <<now, accounts, told, clients, file, peer, slot>>

\* Mutant: the strings are copied the wrong way round.
LoginEnterM(c) ==
  /\ At(c, "login_enter")
  /\ clients' = [clients EXCEPT ![slot[c]].session_id = asked[c]]
  /\ Goto(c, "login_name")
  /\ UNCHANGED <<now, tables, file, peer, thread>>

\* strcpy(client->session_id, session_id); a connection that is logged in
\* already is logged in anew.
LoginEnter(c) ==
  /\ At(c, "login_enter")
  /\ clients' = [clients EXCEPT ![slot[c]].session_id = sid[c]]
  /\ Goto(c, "login_name")
  /\ UNCHANGED <<now, tables, file, peer, thread>>

\* strcpy(client->username, username)
LoginName(c) ==
  /\ At(c, "login_name")
  /\ clients' = [clients EXCEPT ![slot[c]].username = asked[c]]
  /\ NextCommand(c)
  /\ UNCHANGED <<now, tables, file, peer, slot, sid>>

----------------------------------------------------------------------------
(* LOGOUT *)

LogoutDestroy(c) ==
  /\ Receive(c, "LOGOUT")
  /\ Mine(c).session_id # NoSession
  /\ db_destroy_session(Mine(c).session_id)
  /\ Goto(c, "logout_clear")
  /\ UNCHANGED <<now, accounts, told, spared, clients, file, peer, thread>>

\* memset(client->session_id, 0, ...)
LogoutClear(c) ==
  /\ At(c, "logout_clear")
  /\ clients' = [clients EXCEPT ![slot[c]].session_id = NoSession]
  /\ Goto(c, "logout_name")
  /\ UNCHANGED <<now, tables, file, peer, thread>>

\* memset(client->username, 0, ...)
LogoutName(c) ==
  /\ At(c, "logout_name")
  /\ clients' = [clients EXCEPT ![slot[c]].username = NoUser]
  /\ NextCommand(c)
  /\ UNCHANGED <<now, tables, file, peer, slot, sid>>

----------------------------------------------------------------------------

\* The process dies (a SIGPIPE on a connection that is gone is enough) and is
\* started again; nothing in server_init looks at the tables.
Crash ==
  /\ "CRASH" \in Input
  /\ clients' = [i \in Slot |-> Zeroed]
  /\ file' = [f \in Fd |-> NoConn]
  /\ peer' = [c \in Conn |-> IF peer[c] = "up" THEN "down" ELSE peer[c]]
  /\ pc' = [c \in Conn |-> IF pc[c] = "none" THEN "none" ELSE "done"]
  /\ UNCHANGED <<now, tables, thread>>

Tick ==
  /\ now < MaxTime
  /\ now' = now + 1
  /\ UNCHANGED <<tables, clients, file, peer, pc, thread>>

Continue(c) ==
  \/ Loop(c) \/ Eof(c) \/ RemoveSession(c) \/ Close(c) \/ Release(c)
  \/ RegisterCreate(c) \/ LoginCheck(c) \/ LoginCreate(c)
  \/ LoginEnter(c) \/ LoginName(c) \/ LogoutClear(c) \/ LogoutName(c)

Command(c) ==
  \/ OtherCommand(c) \/ LogoutDestroy(c)
  \/ \E u \in User, p \in Digest : RegisterCheck(c, u, p) \/ LoginVerify(c, u, p)

Next ==
  \/ \E c \in Conn : Accept(c) \/ Refuse(c) \/ Command(c) \/ Continue(c)
  \/ Crash
  \/ Tick

Spec == Init /\ [][Next]_vars

----------------------------------------------------------------------------
(* What logins and slots promise. *)

Working(c) == pc[c] \notin {"none", "done"}

\* However many LOGINs of a user race, its last one ends the sessions of the
\* others: one active row per user (database.c:131-139), and beside it only rows
\* that an UPDATE which failed has spared.
OneActiveRow ==
  \A u \in User :
    Cardinality({id \in Session : Owner(id) = u /\ rows[id] = "active"} \ spared) <= 1

\* However many REGISTERs of a name pass the check together, one is answered
\* CREATED, and the account has its password's digest and keeps it
\* (auth.c:53-73).
CreatedMeansMine ==
  \A u \in User :
    told[u] = IF accounts[u] = NoDigest THEN {} ELSE {accounts[u]}

\* No thread is between the two strings of slot i.
Settled(i) == \A c \in Conn : slot[c] = i => pc[c] \notin {"login_name", "logout_name"}

\* Any thread that ends marks slot 0 free under the thread that has it
\* (server.c:333), and two threads may then mix up its two strings
\* (auth.c:135-136, 164-165).  Slot 0 is the only one: every other slot belongs to
\* one thread at a time and, outside of that thread's own LOGIN and LOGOUT, it is
\* logged out or holds its user's name with the id of a session of that user.
SlotNamesItsSession ==
  \A i \in Slot \ {0} :
    /\ \A c, d \in Conn :
         Working(c) /\ Working(d) /\ slot[c] = i /\ slot[d] = i => c = d
    /\ LET s == clients[i]
       IN Settled(i) =>
            IF s.session_id = NoSession
              THEN s.username = NoUser
              ELSE Owner(s.session_id) = s.username /\ rows[s.session_id] # "absent"

\* No slot is lost: an active slot has a thread at work that will free it
\* (server.c:268-270), although remove_client_session frees the wrong one.
ActiveSlotHasThread ==
  \A i \in Slot : clients[i].active => \E c \in Conn : Working(c) /\ slot[c] = i

\* A session that has ended stays ended, and a row never goes away.
EndedForGood ==
  [][\A id \in Session : /\ rows[id] = "inactive" => rows'[id] = "inactive"
                         /\ rows[id] = "active" => rows'[id] # "absent"]_vars

----------------------------------------------------------------------------
(* What the comments say and the code does not do. *)

\* server.c:316-318 "Remove client session": when a thread is through with its
\* cleanup, the session of its connection has ended.
CleanupEndsSession ==
  \A c \in Conn :
    At(c, "done") /\ sid[c] # NoSession => rows[sid[c]] = "inactive"
=============================================================================
