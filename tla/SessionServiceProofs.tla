------------------------- MODULE SessionServiceProofs -------------------------
(***************************************************************************)
(* What holds of SessionService for every set of connections, users and    *)
(* passwords, every number of slots and every bound on the clock.          *)
(***************************************************************************)
EXTENDS SessionService, DataLemmas

\* A descriptor that is open refers to a connection that was accepted, and no
\* connection has two.
FileOK ==
  /\ \A f \in Fd : file[f] # NoConn => peer[file[f]] # "new"
  /\ \A f, g \in Fd : file[f] # NoConn /\ file[f] = file[g] => f = g

\* What the thread of c has at the call it makes next.
ThreadOK(c) ==
  /\ peer[c] = "new" => pc[c] = "none"
  /\ pc[c] # "none" => slot[c] \in Slot
  /\ pc[c] = "register_create" => asked[c] \in User /\ pass[c] \in Digest
  /\ pc[c] \in {"login_check", "login_create", "login_enter", "login_name"} =>
       asked[c] \in User
  /\ pc[c] \in {"login_create", "login_enter", "login_name"} =>
       sid[c] \in Session /\ Owner(sid[c]) = asked[c]

TypeInv == TypeOK /\ FileOK /\ \A c \in Conn : ThreadOK(c)

----------------------------------------------------------------------------
(* The accept loop finds the slot and the descriptor it chooses. *)

\* Of numbers, if there are any, one is the least.
LEMMA LeastIn ==
  ASSUME NEW S \in SUBSET Nat, S # {}
  PROVE  Least(S) \in S
BY LeastNumber DEF Least

\* While a connection waits to be accepted a descriptor is free: each open one
\* belongs to another connection, and there are as many as connections.
LEMMA FreeFd ==
  ASSUME TypeOK, FileOK, NEW c \in Conn, peer[c] = "new"
  PROVE  Least({g \in Fd : file[g] = NoConn}) \in {g \in Fd : file[g] = NoConn}
<1>1. IsFiniteSet(Conn) /\ Cardinality(Conn) \in Nat
  BY SessionAssumption, FS_CardinalityType
<1>2. IsFiniteSet(Fd) /\ Cardinality(Fd) = Cardinality(Conn)
  <2>1. Cardinality(Conn) > 0
    BY <1>1, FS_EmptySet
  <2> QED
    BY <1>1, <2>1, FS_Interval DEF Fd
<1>3. IsFiniteSet(Conn \ {c}) /\ Cardinality(Conn \ {c}) = Cardinality(Conn) - 1
  BY <1>1, FS_RemoveElement
<1>4. \E g \in Fd : file[g] = NoConn
  <2>1. SUFFICES ASSUME \A g \in Fd : file[g] # NoConn PROVE FALSE
    OBVIOUS
  <2>2. file \in [Fd -> Conn \ {c}]
    BY <2>1 DEF TypeOK, FileOK
  <2>3. \E x, y \in Fd : x # y /\ file[x] = file[y]
    BY <1>1, <1>2, <1>3, <2>2, FS_PigeonHole
  <2> QED
    BY <2>1, <2>3 DEF FileOK
<1> QED
  <2> DEFINE S == {g \in Fd : file[g] = NoConn}
  <2>1. S \in SUBSET Nat /\ S # {}
    BY <1>1, <1>4 DEF Fd
  <2> HIDE DEF S
  <2>2. Least(S) \in S
    BY <2>1, LeastIn
  <2> QED
    BY <2>2 DEF S
----------------------------------------------------------------------------
(* Type correctness. *)

\* The strings that LOGIN and LOGOUT write.
LEMMA FieldsType ==
  ASSUME TypeOK, NEW i \in Slot, NEW id \in Session \cup {NoSession},
         NEW u \in User \cup {NoUser}
  PROVE  /\ [clients EXCEPT ![i].session_id = id] \in [Slot -> ClientSession]
         /\ [clients EXCEPT ![i].username = u] \in [Slot -> ClientSession]
<1>1. clients \in [Slot -> ClientSession]
  BY DEF TypeOK
<1>2. /\ [clients[i] EXCEPT !.session_id = id] \in ClientSession
      /\ [clients[i] EXCEPT !.username = u] \in ClientSession
  BY <1>1 DEF ClientSession
<1> QED
  BY <1>1, <1>2

\* db_create_session writes rows that are active or not.
LEMMA CreateSessionType ==
  ASSUME TypeOK, NEW id \in Session, NEW ok \in BOOLEAN, db_create_session(id, ok)
  PROVE  rows' \in [Session -> {"absent", "active", "inactive"}] /\ spared' \subseteq Session
<1> DEFINE old(cleared) == [x \in Session |->
             IF cleared /\ x \in OpenBeside(id) THEN "inactive" ELSE rows[x]]
<1>1. PICK cleared \in BOOLEAN : \/ rows' = [old(cleared) EXCEPT ![id] = "active"]
                                \/ rows' = old(cleared)
  BY DEF db_create_session
<1>2. old(cleared) \in [Session -> {"absent", "active", "inactive"}]
  BY DEF TypeOK
<1>3. spared' \subseteq Session
  BY DEF db_create_session, OpenBeside, TypeOK
<1> HIDE DEF old
<1> QED
  BY <1>1, <1>2, <1>3

\* db_destroy_session writes a row that is not active.
LEMMA DestroySessionType ==
  ASSUME TypeOK, NEW id \in Session, db_destroy_session(id)
  PROVE  rows' \in [Session -> {"absent", "active", "inactive"}]
BY DEF TypeOK, db_destroy_session

\* A connection that is accepted is given the lowest descriptor and slot.
LEMMA AcceptType ==
  ASSUME TypeInv, NEW c \in Conn, Accept(c)
  PROVE  TypeInv'
<1> DEFINE free == {i \in Slot : ~clients[i].active}
           i == Least(free)
           f == Least({g \in Fd : file[g] = NoConn})
<1>1. /\ peer[c] = "new" /\ free # {}
      /\ peer' = [peer EXCEPT ![c] = "up"]
      /\ file' = [file EXCEPT ![f] = c]
      /\ clients' = [clients EXCEPT ![i] = [Zeroed EXCEPT !.socket_fd = f, !.active = TRUE]]
      /\ slot' = [slot EXCEPT ![c] = i]
      /\ pc' = [pc EXCEPT ![c] = "loop"]
      /\ UNCHANGED <<now, tables, fd, asked, pass, sid>>
  BY DEF Accept, Goto
<1>2. i \in Slot
  <2>1. free \in SUBSET Nat
    BY SessionAssumption DEF Slot
  <2> HIDE DEF free
  <2>2. Least(free) \in free
    BY <1>1, <2>1, LeastIn
  <2> QED
    BY <2>2 DEF free
<1>3. f \in Fd /\ file[f] = NoConn
  BY <1>1, FreeFd DEF TypeInv
<1> HIDE DEF free, i, f
<1>4. [Zeroed EXCEPT !.socket_fd = f, !.active = TRUE] \in ClientSession
  BY <1>3 DEF Zeroed, ClientSession
<1>5. TypeOK'
  BY <1>1, <1>2, <1>3, <1>4 DEF TypeInv, TypeOK, tables, Label
<1>6. FileOK'
  BY <1>1, <1>3, SessionAssumption DEF TypeInv, TypeOK, FileOK
<1>7. ASSUME NEW d \in Conn PROVE ThreadOK(d)'
  BY <1>1, <1>2 DEF TypeInv, TypeOK, ThreadOK
<1> QED
  BY <1>5, <1>6, <1>7 DEF TypeInv

\* remove_client_session and the end of a thread free a slot.
LEMMA FreeSlotType ==
  ASSUME TypeOK, NEW i \in Slot
  PROVE  [clients EXCEPT ![i].active = FALSE] \in [Slot -> ClientSession]
<1>1. clients \in [Slot -> ClientSession]
  BY DEF TypeOK
<1>2. [clients[i] EXCEPT !.active = FALSE] \in ClientSession
  BY <1>1 DEF ClientSession
<1> QED
  BY <1>1, <1>2

\* A connection that is turned away, heard, cut or closed.
LEMMA ConnectionType ==
  ASSUME TypeInv, NEW c \in Conn,
         Refuse(c) \/ Loop(c) \/ Eof(c) \/ OtherCommand(c) \/ Close(c) \/ Release(c)
  PROVE  TypeInv'
<1> USE DEF TypeInv, TypeOK, FileOK, ThreadOK, Label, At, Goto, tables, thread
<1>1. CASE Refuse(c)
  BY <1>1 DEF Refuse
<1>2. CASE Loop(c)
  BY <1>2 DEF Loop, Mine, ClientSession
<1>3. CASE Eof(c)
  BY <1>3 DEF Eof, Heard
<1>4. CASE OtherCommand(c)
  BY <1>4 DEF OtherCommand, Receive, NextCommand
<1>5. CASE Close(c)
  BY <1>5 DEF Close, Mine
<1>6. CASE Release(c)
  <2>1. clients' \in [Slot -> ClientSession]
    BY <1>6, FreeSlotType DEF Release
  <2> QED
    BY <1>6, <2>1 DEF Release
<1> QED
  BY <1>1, <1>2, <1>3, <1>4, <1>5, <1>6

\* remove_client_session.
LEMMA RemoveType ==
  ASSUME TypeInv, NEW c \in Conn, RemoveSession(c)
  PROVE  TypeInv'
<1>1. 0 \in Slot
  BY SessionAssumption DEF Slot
<1>2. clients' \in [Slot -> ClientSession]
  BY <1>1, FreeSlotType DEF RemoveSession, TypeInv
<1>3. rows' \in [Session -> {"absent", "active", "inactive"}]
  <2>1. clients[0].session_id \in Session \cup {NoSession}
    BY <1>1 DEF TypeInv, TypeOK, ClientSession
  <2> QED
    BY <2>1, DestroySessionType DEF RemoveSession, TypeInv, TypeOK
<1> QED
  BY <1>2, <1>3 DEF RemoveSession, TypeInv, TypeOK, FileOK, ThreadOK, Label, At, Goto, thread

\* A command is received.
LEMMA CommandType ==
  ASSUME TypeInv, NEW c \in Conn, Command(c)
  PROVE  TypeInv'
<1>1. CASE OtherCommand(c)
  BY <1>1, ConnectionType
<1> USE DEF TypeInv, TypeOK, FileOK, ThreadOK, Label, Receive, At, Goto, tables, thread
<1>2. CASE LogoutDestroy(c)
  <2>1. Mine(c).session_id \in Session
    BY <1>2 DEF LogoutDestroy, Mine, ClientSession
  <2>2. rows' \in [Session -> {"absent", "active", "inactive"}]
    BY <1>2, <2>1, DestroySessionType DEF LogoutDestroy
  <2> QED
    BY <1>2, <2>2 DEF LogoutDestroy
<1>3. ASSUME NEW u \in User, NEW p \in Digest, RegisterCheck(c, u, p) PROVE TypeInv'
  BY <1>3 DEF RegisterCheck, NextCommand
<1>4. ASSUME NEW u \in User, NEW p \in Digest, LoginVerify(c, u, p) PROVE TypeInv'
  BY <1>4 DEF LoginVerify
<1> QED
  BY <1>1, <1>2, <1>3, <1>4 DEF Command

\* The later calls of REGISTER, LOGIN and LOGOUT.
LEMMA HandlerType ==
  ASSUME TypeInv, NEW c \in Conn,
         \/ RegisterCreate(c) \/ LoginCheck(c) \/ LoginCreate(c)
         \/ LoginEnter(c) \/ LoginName(c) \/ LogoutClear(c) \/ LogoutName(c)
  PROVE  TypeInv'
<1> USE DEF TypeInv, TypeOK, FileOK, ThreadOK, Label, At, Goto, NextCommand, tables
<1>1. CASE RegisterCreate(c)
  <2>1. /\ accounts' \in [User -> Digest \cup {NoDigest}]
        /\ told' \in [User -> SUBSET Digest]
    BY <1>1 DEF RegisterCreate, db_create_user
  <2> QED
    BY <1>1, <2>1 DEF RegisterCreate
<1>2. CASE LoginCheck(c)
  BY <1>2 DEF LoginCheck, Session, Owner
<1>3. CASE LoginCreate(c)
  <2>1. rows' \in [Session -> {"absent", "active", "inactive"}] /\ spared' \subseteq Session
    BY <1>3, CreateSessionType DEF LoginCreate
  <2> QED
    BY <1>3, <2>1 DEF LoginCreate
<1>4. CASE LoginEnter(c)
  <2>1. clients' \in [Slot -> ClientSession]
    BY <1>4, FieldsType DEF LoginEnter
  <2> QED
    BY <1>4, <2>1 DEF LoginEnter, thread
<1>5. CASE LoginName(c)
  <2>1. clients' \in [Slot -> ClientSession]
    BY <1>5, FieldsType DEF LoginName
  <2> QED
    BY <1>5, <2>1 DEF LoginName
<1>6. CASE LogoutClear(c)
  <2>1. clients' \in [Slot -> ClientSession]
    BY <1>6, FieldsType DEF LogoutClear
  <2> QED
    BY <1>6, <2>1 DEF LogoutClear, thread
<1>7. CASE LogoutName(c)
  <2>1. clients' \in [Slot -> ClientSession]
    BY <1>7, FieldsType DEF LogoutName
  <2> QED
    BY <1>7, <2>1 DEF LogoutName
<1> QED
  BY <1>1, <1>2, <1>3, <1>4, <1>5, <1>6, <1>7

\* A crash zeroes the table of clients; the clock only moves on.
LEMMA CrashTickType ==
  ASSUME TypeInv, Crash \/ Tick \/ UNCHANGED vars
  PROVE  TypeInv'
<1> USE DEF TypeInv, TypeOK, FileOK, ThreadOK, tables, thread
<1>1. CASE Crash
  BY <1>1 DEF Crash, Label, Zeroed, ClientSession
<1>2. CASE Tick
  BY <1>2, SessionAssumption DEF Tick
<1>3. CASE UNCHANGED vars
  BY <1>3 DEF vars
<1> QED
  BY <1>1, <1>2, <1>3

\* Every step keeps the types.
LEMMA TypeStep ==
  ASSUME TypeInv, [Next]_vars
  PROVE  TypeInv'
<1>1. ASSUME NEW c \in Conn, Continue(c) PROVE TypeInv'
  BY <1>1, ConnectionType, RemoveType, HandlerType DEF Continue
<1> QED
  BY <1>1, AcceptType, ConnectionType, CommandType, CrashTickType DEF Next

\* The types hold when the server starts.
LEMMA InitType == Init => TypeInv
BY SessionAssumption DEF Init, TypeInv, TypeOK, FileOK, ThreadOK, Zeroed, ClientSession, Label

\* Every thread's slot, command and session are what its next call needs, and
\* the descriptors are shared by no two connections.
THEOREM TypeInvariant == Spec => []TypeInv
<1>1. Init => TypeInv
  BY InitType
<1>2. TypeInv /\ [Next]_vars => TypeInv'
  BY TypeStep
<1> QED
  BY <1>1, <1>2, PTL DEF Spec

\* TypeOK: the tables, the slots, the descriptors and the locals of every
\* thread keep their types, and accept always finds a descriptor.
THEOREM TypeCorrect == Spec => []TypeOK
<1>1. TypeInv => TypeOK
  BY DEF TypeInv
<1> QED
  BY <1>1, TypeInvariant, PTL
----------------------------------------------------------------------------
(* Which steps write the tables of users and sessions, and how. *)

\* Three calls write: the INSERT of REGISTER, the UPDATE and INSERT of LOGIN,
\* and the UPDATE that ends a session.
LEMMA TableStep ==
  ASSUME TypeInv, [Next]_vars
  PROVE  \/ UNCHANGED tables
         \/ \E c \in Conn : RegisterCreate(c)
         \/ \E c \in Conn : LoginCreate(c)
         \/ \E id \in Session : db_destroy_session(id) /\ UNCHANGED <<accounts, told, spared>>
<1>1. ASSUME NEW c \in Conn, Accept(c) \/ Refuse(c)
      PROVE  UNCHANGED tables
  BY <1>1 DEF Accept, Refuse, tables
<1>2. ASSUME NEW c \in Conn, Command(c), ~LogoutDestroy(c)
      PROVE  UNCHANGED tables
  BY <1>2 DEF Command, OtherCommand, RegisterCheck, LoginVerify, tables
<1>3. ASSUME NEW c \in Conn, LogoutDestroy(c)
      PROVE  \E id \in Session : db_destroy_session(id) /\ UNCHANGED <<accounts, told, spared>>
  BY <1>3 DEF LogoutDestroy, Receive, At, Mine, TypeInv, TypeOK, ThreadOK, ClientSession
<1>4. ASSUME NEW c \in Conn, Continue(c), ~RegisterCreate(c), ~LoginCreate(c),
             ~RemoveSession(c)
      PROVE  UNCHANGED tables
  BY <1>4 DEF Continue, Loop, Eof, Close, Release, LoginCheck, LoginEnter,
     LoginName, LogoutClear, LogoutName, tables
<1>5. ASSUME NEW c \in Conn, RemoveSession(c)
      PROVE  \/ UNCHANGED tables
             \/ \E id \in Session : db_destroy_session(id) /\ UNCHANGED <<accounts, told, spared>>
  <2>1. clients[0].session_id \in Session \cup {NoSession}
    BY SessionAssumption DEF Slot, TypeInv, TypeOK, ClientSession
  <2> QED
    BY <1>5, <2>1 DEF RemoveSession, tables
<1>6. CASE Crash \/ Tick \/ UNCHANGED vars
  BY <1>6 DEF Crash, Tick, vars, tables
<1> QED
  BY <1>1, <1>2, <1>3, <1>4, <1>5, <1>6 DEF Next

----------------------------------------------------------------------------
(* REGISTER *)

\* The INSERT makes an account only of a name that has none.
LEMMA CreatedStep ==
  ASSUME TypeInv, CreatedMeansMine, [Next]_vars
  PROVE  CreatedMeansMine'
<1>1. CASE UNCHANGED <<accounts, told>>
  BY <1>1 DEF CreatedMeansMine
<1>2. ASSUME NEW c \in Conn, RegisterCreate(c) PROVE CreatedMeansMine'
  <2>1. asked[c] \in User /\ pass[c] \in Digest
    BY <1>2 DEF RegisterCreate, At, TypeInv, ThreadOK
  <2>2. PICK ok \in BOOLEAN :
          /\ db_create_user(asked[c], pass[c], ok)
          /\ told' = [told EXCEPT ![asked[c]] = IF ok THEN @ \cup {pass[c]} ELSE @]
    BY <1>2 DEF RegisterCreate
  <2> USE DEF TypeInv, TypeOK
  <2>3. CASE ok
    <3>1. /\ accounts[asked[c]] = NoDigest
          /\ accounts' = [accounts EXCEPT ![asked[c]] = pass[c]]
          /\ told' = [told EXCEPT ![asked[c]] = @ \cup {pass[c]}]
      BY <2>2, <2>3 DEF db_create_user
    <3>2. told[asked[c]] = {}
      BY <2>1, <3>1 DEF CreatedMeansMine
    <3>3. told'[asked[c]] = {pass[c]} /\ accounts'[asked[c]] = pass[c]
      BY <2>1, <3>1, <3>2
    <3>4. pass[c] # NoDigest
      BY <2>1, SessionAssumption
    <3>5. \A u \in User \ {asked[c]} : told'[u] = told[u] /\ accounts'[u] = accounts[u]
      BY <2>1, <3>1
    <3> QED
      BY <3>3, <3>4, <3>5 DEF CreatedMeansMine
  <2>4. CASE ~ok
    BY <2>1, <2>2, <2>4 DEF db_create_user, CreatedMeansMine
  <2> QED
    BY <2>3, <2>4
<1> QED
  BY <1>1, <1>2, TableStep DEF LoginCreate, tables

\* However many REGISTERs of a name race between their check and their INSERT,
\* one is answered CREATED, and the account keeps its password's digest
\* (auth.c:53-73).
THEOREM OneRegisterWins == Spec => []CreatedMeansMine
<1>1. Init => CreatedMeansMine
  BY DEF Init, CreatedMeansMine
<1>2. TypeInv /\ CreatedMeansMine /\ [Next]_vars => CreatedMeansMine'
  BY CreatedStep
<1> QED
  BY <1>1, <1>2, TypeInvariant, PTL DEF Spec

----------------------------------------------------------------------------
(* The rows of sessions. *)

\* The row of a session moves from absent to active to inactive.
RowsEvolve ==
  \A id \in Session : /\ rows[id] = "inactive" => rows'[id] = "inactive"
                      /\ rows[id] = "active" => rows'[id] # "absent"

\* Destroying a session deletes no row and revives none.
LEMMA DestroyEvolves ==
  ASSUME TypeInv, NEW id \in Session, db_destroy_session(id)
  PROVE  RowsEvolve
BY DEF db_destroy_session, RowsEvolve, TypeInv, TypeOK

\* A new session deletes no row and revives none.
LEMMA CreateEvolves ==
  ASSUME TypeInv, NEW id \in Session, NEW ok \in BOOLEAN, db_create_session(id, ok)
  PROVE  RowsEvolve
BY DEF db_create_session, OpenBeside, RowsEvolve, TypeInv, TypeOK

\* No step deletes a session or revives one.
LEMMA RowsStep ==
  ASSUME TypeInv, [Next]_vars
  PROVE  RowsEvolve
<1>1. CASE UNCHANGED rows
  BY <1>1 DEF RowsEvolve
<1>2. ASSUME NEW c \in Conn, LoginCreate(c) PROVE RowsEvolve
  <2>1. sid[c] \in Session
    BY <1>2 DEF LoginCreate, At, TypeInv, ThreadOK
  <2> QED
    BY <1>2, <2>1, CreateEvolves DEF LoginCreate
<1> QED
  BY <1>1, <1>2, TableStep, DestroyEvolves DEF RegisterCreate, tables

\* Ending a session is for good, and no row is ever lost: no LOGIN, however late,
\* brings a session back.
THEOREM SessionsEndForGood == Spec => EndedForGood
<1>1. TypeInv /\ [Next]_vars =>
        [\A id \in Session : /\ rows[id] = "inactive" => rows'[id] = "inactive"
                             /\ rows[id] = "active" => rows'[id] # "absent"]_vars
  BY RowsStep DEF RowsEvolve
<1> QED
  BY <1>1, TypeInvariant, PTL DEF Spec, EndedForGood

\* OneActiveRow without the counting.
Open(id) == rows[id] = "active" /\ id \notin spared
OneActive == \A a, b \in Session : Owner(a) = Owner(b) /\ Open(a) /\ Open(b) => a = b

\* Every step leaves a user with one active session, beside those that a failed
\* UPDATE spared.
LEMMA OneActiveStep ==
  ASSUME TypeInv, OneActive, [Next]_vars
  PROVE  OneActive'
<1>1. CASE UNCHANGED <<rows, spared>>
  BY <1>1 DEF OneActive, Open
<1>2. ASSUME NEW id \in Session, db_destroy_session(id), UNCHANGED spared PROVE OneActive'
  BY <1>2 DEF db_destroy_session, OneActive, Open, TypeInv, TypeOK
<1>3. ASSUME NEW c \in Conn, LoginCreate(c) PROVE OneActive'
  <2>1. sid[c] \in Session
    BY <1>3 DEF LoginCreate, At, TypeInv, ThreadOK
  <2> DEFINE old(cleared) == [x \in Session |->
               IF cleared /\ x \in OpenBeside(sid[c]) THEN "inactive" ELSE rows[x]]
  <2>2. PICK cleared \in BOOLEAN :
          /\ spared' = IF cleared THEN spared ELSE spared \cup OpenBeside(sid[c])
          /\ rows' = [old(cleared) EXCEPT ![sid[c]] = "active"] \/ rows' = old(cleared)
    BY <1>3 DEF LoginCreate, db_create_session
  <2>3. \A x \in Session :
          Open(x)' => x = sid[c] \/ (Open(x) /\ Owner(x) # Owner(sid[c]))
    BY <2>1, <2>2 DEF OpenBeside, Open, TypeInv, TypeOK
  <2> QED
    BY <2>1, <2>3 DEF OneActive
<1> QED
  BY <1>1, <1>2, <1>3, TableStep DEF RegisterCreate, tables

\* However many LOGINs of a user race between their check and their INSERT, the
\* last one leaves one active row of that user (database.c:131-139), beside rows
\* that an UPDATE which failed has spared.
THEOREM OneSessionPerUser == Spec => []OneActiveRow
<1>1. Init => OneActive
  BY DEF Init, OneActive, Open
<1>2. TypeInv /\ OneActive /\ [Next]_vars => OneActive'
  BY OneActiveStep
<1>3. OneActive => OneActiveRow
  <2> DEFINE Active(u) == {id \in Session : Owner(id) = u /\ rows[id] = "active"} \ spared
  <2> SUFFICES ASSUME OneActive, NEW u \in User PROVE Cardinality(Active(u)) <= 1
    BY DEF OneActiveRow
  <2>1. CASE Active(u) = {}
    BY <2>1, FS_EmptySet
  <2>2. CASE Active(u) # {}
    <3>1. PICK id \in Active(u) : TRUE
      BY <2>2
    <3>2. \A x \in Active(u) : x = id
      BY <3>1 DEF OneActive, Open
    <3> HIDE DEF Active
    <3>3. Active(u) = {id}
      BY <3>1, <3>2
    <3> QED
      BY <3>3, FS_Singleton
  <2> QED
    BY <2>1, <2>2
<1> QED
  BY <1>1, <1>2, <1>3, TypeInvariant, PTL DEF Spec

----------------------------------------------------------------------------
(* The slots. *)

\* A command that is received moves its thread and touches no slot.
LEMMA CommandMoves ==
  ASSUME NEW c \in Conn, Command(c)
  PROVE  /\ pc[c] = "recv"
         /\ \E l \in {"loop", "register_create", "login_check", "logout_clear"} : Goto(c, l)
         /\ UNCHANGED <<clients, file, peer, slot, sid>>
<1> USE DEF Receive, At, NextCommand, thread
<1>1. CASE OtherCommand(c)
  BY <1>1 DEF OtherCommand
<1>2. CASE LogoutDestroy(c)
  BY <1>2 DEF LogoutDestroy
<1>3. ASSUME NEW u \in User, NEW p \in Digest, RegisterCheck(c, u, p)
      PROVE  /\ pc[c] = "recv" /\ (Goto(c, "loop") \/ Goto(c, "register_create"))
             /\ UNCHANGED <<clients, file, peer, slot, sid>>
  BY <1>3 DEF RegisterCheck
<1>4. ASSUME NEW u \in User, NEW p \in Digest, LoginVerify(c, u, p)
      PROVE  /\ pc[c] = "recv" /\ Goto(c, "login_check")
             /\ UNCHANGED <<clients, file, peer, slot, sid>>
  BY <1>4 DEF LoginVerify
<1> QED
  BY <1>1, <1>2, <1>3, <1>4 DEF Command


\* LOGIN copies the id of a session that has its row.
Entering(c) == pc[c] \in {"login_enter", "login_name"}
Entered == \A c \in Conn : Entering(c) => rows[sid[c]] # "absent"

\* Every step keeps the row of a session that LOGIN is to enter.
LEMMA EnteredStep ==
  ASSUME TypeInv, Entered, [Next]_vars
  PROVE  Entered'
<1> SUFFICES ASSUME NEW d \in Conn, Entering(d)' PROVE rows'[sid'[d]] # "absent"
  BY DEF Entered
<1>1. CASE Entering(d) /\ sid'[d] = sid[d]
  <2>1. sid[d] \in Session /\ rows[sid[d]] # "absent"
    BY <1>1 DEF Entered, Entering, TypeInv, ThreadOK
  <2> QED
    BY <1>1, <2>1, RowsStep DEF RowsEvolve, TypeInv, TypeOK
<1>2. CASE LoginCreate(d)
  <2>1. sid[d] \in Session
    BY <1>2 DEF LoginCreate, At, TypeInv, ThreadOK
  <2>2. db_create_session(sid[d], TRUE) /\ sid' = sid
    BY <1>2 DEF LoginCreate, Entering, NextCommand, Goto, TypeInv, TypeOK
  <2> QED
    BY <2>1, <2>2 DEF db_create_session, TypeInv, TypeOK
<1>3. (Entering(d) /\ sid'[d] = sid[d]) \/ LoginCreate(d)
  <2> USE DEF Entering, Goto, NextCommand, At, Receive, TypeInv, TypeOK
  <2>1. ASSUME NEW c \in Conn, Accept(c) \/ Refuse(c)
        PROVE  Entering(d) /\ sid'[d] = sid[d]
    BY <2>1 DEF Accept, Refuse, thread
  <2>2. ASSUME NEW c \in Conn, Command(c)
        PROVE  Entering(d) /\ sid'[d] = sid[d]
    BY <2>2, CommandMoves
  <2>3. ASSUME NEW c \in Conn, LoginCreate(c)
        PROVE  (Entering(d) /\ sid'[d] = sid[d]) \/ LoginCreate(d)
    BY <2>3 DEF LoginCreate
  <2>4. ASSUME NEW c \in Conn, LoginCheck(c)
        PROVE  Entering(d) /\ sid'[d] = sid[d]
    BY <2>4 DEF LoginCheck
  <2>5. ASSUME NEW c \in Conn, LoginEnter(c)
        PROVE  Entering(d) /\ sid'[d] = sid[d]
    BY <2>5 DEF LoginEnter, thread
  <2>6. ASSUME NEW c \in Conn, Continue(c), ~LoginCheck(c), ~LoginCreate(c), ~LoginEnter(c)
        PROVE  Entering(d) /\ sid'[d] = sid[d]
    BY <2>6 DEF Continue, Loop, Eof, RemoveSession, Close, Release, RegisterCreate,
       LoginName, LogoutClear, LogoutName, thread
  <2>7. CASE Crash \/ Tick \/ UNCHANGED vars
    BY <2>7 DEF Crash, Tick, thread, vars
  <2> QED
    BY <2>1, <2>2, <2>3, <2>4, <2>5, <2>6, <2>7 DEF Next
<1> QED
  BY <1>1, <1>2, <1>3

\* A slot has one thread, and is active while it has one.
OneThread(i) ==
  \A c, d \in Conn : Working(c) /\ Working(d) /\ slot[c] = i /\ slot[d] = i => c = d
Busy(i) == \A c \in Conn : Working(c) /\ slot[c] = i => clients[i].active

\* Its two strings, as SlotNamesItsSession reads them, and while they are written.
Strings(i) ==
  LET s == clients[i]
  IN Settled(i) =>
       IF s.session_id = NoSession
         THEN s.username = NoUser
         ELSE Owner(s.session_id) = s.username /\ rows[s.session_id] # "absent"
Halfway(i) ==
  \A c \in Conn : slot[c] = i =>
    /\ pc[c] = "login_name" => clients[i].session_id = sid[c]
    /\ pc[c] = "logout_name" => clients[i].session_id = NoSession

SlotOK(i) == OneThread(i) /\ Busy(i) /\ Strings(i) /\ Halfway(i)

\* A step that does not write slot i, and in which no thread of slot i comes to the
\* second of its strings or is through with it.
Undisturbed(i) ==
  /\ slot' = slot /\ clients'[i] = clients[i]
  /\ \A d \in Conn :
       /\ Working(d)' => Working(d)
       /\ slot[d] = i =>
            \/ pc'[d] = pc[d] /\ sid'[d] = sid[d]
            \/ /\ pc[d] \notin {"login_name", "logout_name"}
               /\ pc'[d] \notin {"login_name", "logout_name"}

\* A slot that is not disturbed keeps naming its session.
LEMMA UndisturbedStep ==
  ASSUME TypeInv, RowsEvolve, rows' \in [Session -> {"absent", "active", "inactive"}],
         NEW i \in Slot, SlotOK(i), Undisturbed(i)
  PROVE  SlotOK(i)'
<1>1. OneThread(i)'
  BY DEF Undisturbed, SlotOK, OneThread
<1>2. Busy(i)'
  BY DEF Undisturbed, SlotOK, Busy
<1>3. Strings(i)'
  <2>1. Settled(i)' => Settled(i)
    BY DEF Undisturbed, Settled
  <2>2. clients[i].session_id \in Session \cup {NoSession}
    BY DEF TypeInv, TypeOK, ClientSession
  <2>3. \A id \in Session : rows[id] # "absent" => rows'[id] # "absent"
    BY DEF RowsEvolve, TypeInv, TypeOK
  <2> QED
    BY <2>1, <2>2, <2>3 DEF Undisturbed, SlotOK, Strings
<1>4. Halfway(i)'
  BY DEF Undisturbed, SlotOK, Halfway
<1> QED
  BY <1>1, <1>2, <1>3, <1>4 DEF SlotOK

\* The steps that write no string and end no thread; remove_client_session marks
\* slot 0 and no other.
LEMMA MostUndisturbed ==
  ASSUME TypeInv, NEW i \in Slot, i # 0, NEW c \in Conn,
         \/ Refuse(c) \/ Command(c) \/ Loop(c) \/ Eof(c) \/ RemoveSession(c) \/ Close(c)
         \/ RegisterCreate(c) \/ LoginCheck(c) \/ LoginCreate(c)
  PROVE  Undisturbed(i)
<1> USE DEF TypeInv, TypeOK, Undisturbed, Working, Goto, At
<1>1. CASE Refuse(c)
  BY <1>1 DEF Refuse, thread
<1>2. CASE Command(c)
  BY <1>2, CommandMoves
<1>3. CASE Loop(c) \/ Eof(c) \/ Close(c)
  <2>1. /\ slot' = slot /\ clients' = clients
        /\ pc[c] \in {"loop", "recv", "close"}
        /\ \E l \in {"recv", "remove", "release"} : pc' = [pc EXCEPT ![c] = l]
        /\ sid' = sid
    BY <1>3 DEF Loop, Eof, Close, thread
  <2> QED
    BY <2>1
<1>4. CASE RemoveSession(c)
  <2>1. /\ slot' = slot /\ sid' = sid /\ pc[c] = "remove" /\ pc' = [pc EXCEPT ![c] = "close"]
        /\ clients' = [clients EXCEPT ![0].active = FALSE]
    BY <1>4 DEF RemoveSession, thread
  <2> QED
    BY <2>1
<1>5. CASE RegisterCreate(c) \/ LoginCheck(c) \/ LoginCreate(c)
  <2>1. /\ slot' = slot /\ clients' = clients
        /\ pc[c] \in {"register_create", "login_check", "login_create"}
        /\ \E l \in {"loop", "login_create", "login_enter"} : pc' = [pc EXCEPT ![c] = l]
        /\ \A d \in Conn : d # c => sid'[d] = sid[d]
    BY <1>5 DEF RegisterCreate, LoginCheck, LoginCreate, NextCommand
  <2> QED
    BY <2>1
<1> QED
  BY <1>1, <1>2, <1>3, <1>4, <1>5

\* The thread that an accept starts is alone in its slot, which is empty.
LEMMA AcceptSlot ==
  ASSUME TypeInv, RowsEvolve, rows' \in [Session -> {"absent", "active", "inactive"}],
         NEW i \in Slot, SlotOK(i), NEW c \in Conn, Accept(c)
  PROVE  SlotOK(i)'
<1> USE DEF TypeInv, TypeOK, Working
<1> DEFINE free == {k \in Slot : ~clients[k].active}
           j == Least(free)
           f == Least({g \in Fd : file[g] = NoConn})
<1>1. /\ free # {} /\ pc[c] = "none" /\ pc' = [pc EXCEPT ![c] = "loop"] /\ sid' = sid
      /\ slot' = [slot EXCEPT ![c] = j]
      /\ clients' = [clients EXCEPT ![j] = [Zeroed EXCEPT !.socket_fd = f, !.active = TRUE]]
  BY DEF Accept, Goto, ThreadOK
<1>2. j \in Slot /\ ~clients[j].active
  <2>1. free \in SUBSET Nat
    BY SessionAssumption DEF Slot
  <2> HIDE DEF free
  <2>2. Least(free) \in free
    BY <1>1, <2>1, LeastIn
  <2> QED
    BY <2>2 DEF free
<1> HIDE DEF free, j, f
<1>3. CASE i = j
  <2>1. \A d \in Conn : Working(d) => slot[d] # i
    BY <1>2, <1>3 DEF SlotOK, Busy
  <2>2. \A d \in Conn : Working(d)' /\ slot'[d] = i => d = c
    BY <1>1, <2>1
  <2>3. /\ clients'[i].active /\ clients'[i].session_id = NoSession
        /\ clients'[i].username = NoUser
    BY <1>1, <1>2, <1>3 DEF Zeroed
  <2>4. OneThread(i)' /\ Busy(i)'
    BY <2>2, <2>3 DEF OneThread, Busy
  <2>5. Strings(i)'
    BY <2>3 DEF Strings
  <2>6. Halfway(i)'
    BY <1>1, <2>2 DEF Halfway
  <2> QED
    BY <2>4, <2>5, <2>6 DEF SlotOK
<1>4. CASE i # j
  <2>1. clients'[i] = clients[i]
    BY <1>1, <1>4
  <2>2. \A d \in Conn : slot'[d] = i => d # c /\ slot[d] = i
    BY <1>1, <1>4
  <2>3. \A d \in Conn : d # c => pc'[d] = pc[d] /\ slot'[d] = slot[d]
    BY <1>1
  <2>4. OneThread(i)' /\ Busy(i)'
    BY <2>1, <2>2, <2>3 DEF SlotOK, OneThread, Busy
  <2>5. Settled(i)' => Settled(i)
    BY <1>1, <2>3 DEF Settled
  <2>6. clients[i].session_id \in Session \cup {NoSession}
    BY DEF ClientSession
  <2>7. \A id \in Session : rows[id] # "absent" => rows'[id] # "absent"
    BY DEF RowsEvolve
  <2>8. Strings(i)'
    BY <2>1, <2>5, <2>6, <2>7 DEF SlotOK, Strings
  <2>9. Halfway(i)'
    BY <1>1, <2>1, <2>2, <2>3 DEF SlotOK, Halfway
  <2> QED
    BY <2>4, <2>8, <2>9 DEF SlotOK
<1> QED
  BY <1>3, <1>4

\* The id of a session is not empty.
LEMMA SomeSession ==
  ASSUME NEW id \in Session
  PROVE  id # NoSession
<1>1. id = <<id[1], id[2]>>
  BY DEF Session
<1>2. <<id[1], id[2]>> # << >>
  OBVIOUS
<1> QED
  BY <1>1, <1>2 DEF NoSession

\* LOGIN and LOGOUT write the strings of the slot that their thread has alone.
LEMMA WriteSlot ==
  ASSUME TypeInv, Entered, NEW i \in Slot, SlotOK(i), NEW c \in Conn, slot[c] = i,
         LoginEnter(c) \/ LoginName(c) \/ LogoutClear(c) \/ LogoutName(c)
  PROVE  SlotOK(i)'
<1> USE DEF TypeInv, TypeOK, Working, Goto, At, NextCommand
<1>1. /\ slot' = slot /\ sid' = sid /\ rows' = rows /\ clients'[i].active = clients[i].active
      /\ \A d \in Conn : Working(d)' = Working(d)
      /\ \A d \in Conn : d # c => pc'[d] = pc[d]
  BY DEF LoginEnter, LoginName, LogoutClear, LogoutName, thread, tables, ClientSession
<1>2. OneThread(i)' /\ Busy(i)'
  BY <1>1 DEF SlotOK, OneThread, Busy
<1>3. \A d \in Conn : slot[d] = i /\ Working(d) => d = c
  BY DEF SlotOK, OneThread, LoginEnter, LoginName, LogoutClear, LogoutName
<1>4. CASE LoginEnter(c)
  <2>1. pc'[c] = "login_name" /\ clients'[i].session_id = sid[c]
    BY <1>4 DEF LoginEnter, ClientSession
  <2>2. Strings(i)'
    BY <1>1, <2>1 DEF Strings, Settled
  <2>3. Halfway(i)'
    BY <1>1, <1>3, <2>1 DEF Halfway
  <2> QED
    BY <1>2, <2>2, <2>3 DEF SlotOK
<1>5. CASE LoginName(c)
  <2>1. /\ pc[c] = "login_name" /\ pc'[c] = "loop" /\ clients'[i].username = asked[c]
        /\ clients'[i].session_id = clients[i].session_id
    BY <1>5 DEF LoginName, ClientSession
  <2>2. clients[i].session_id = sid[c] /\ Owner(sid[c]) = asked[c] /\ rows[sid[c]] # "absent"
    BY <2>1 DEF SlotOK, Halfway, ThreadOK, Entered, Entering
  <2>3. sid[c] # NoSession
    BY <2>1, SomeSession DEF ThreadOK
  <2>4. Strings(i)'
    BY <1>1, <2>1, <2>2, <2>3 DEF Strings
  <2>5. Halfway(i)'
    BY <1>1, <1>3, <2>1 DEF Halfway
  <2> QED
    BY <1>2, <2>4, <2>5 DEF SlotOK
<1>6. CASE LogoutClear(c)
  <2>1. pc'[c] = "logout_name" /\ clients'[i].session_id = NoSession
    BY <1>6 DEF LogoutClear, ClientSession
  <2>2. Strings(i)'
    BY <1>1, <2>1 DEF Strings, Settled
  <2>3. Halfway(i)'
    BY <1>1, <1>3, <2>1 DEF Halfway
  <2> QED
    BY <1>2, <2>2, <2>3 DEF SlotOK
<1>7. CASE LogoutName(c)
  <2>1. /\ pc[c] = "logout_name" /\ pc'[c] = "loop" /\ clients'[i].username = NoUser
        /\ clients'[i].session_id = clients[i].session_id
    BY <1>7 DEF LogoutName, ClientSession
  <2>2. clients[i].session_id = NoSession
    BY <2>1 DEF SlotOK, Halfway
  <2>3. Strings(i)'
    BY <2>1, <2>2 DEF Strings
  <2>4. Halfway(i)'
    BY <1>1, <1>3, <2>1 DEF Halfway
  <2> QED
    BY <1>2, <2>3, <2>4 DEF SlotOK
<1> QED
  BY <1>4, <1>5, <1>6, <1>7

\* The thread that frees a slot was its only one.
LEMMA ReleaseSlot ==
  ASSUME TypeInv, NEW i \in Slot, SlotOK(i), NEW c \in Conn, slot[c] = i, Release(c)
  PROVE  SlotOK(i)'
<1> USE DEF TypeInv, TypeOK, Working, Goto, At
<1>1. /\ slot' = slot /\ sid' = sid /\ rows' = rows
      /\ pc[c] = "release" /\ pc' = [pc EXCEPT ![c] = "done"]
      /\ clients'[i].session_id = clients[i].session_id
      /\ clients'[i].username = clients[i].username
  BY DEF Release, thread, tables, ClientSession
<1>2. \A d \in Conn : slot'[d] = i => ~Working(d)'
  BY <1>1 DEF SlotOK, OneThread
<1>3. OneThread(i)' /\ Busy(i)'
  BY <1>2 DEF OneThread, Busy
<1>4. Settled(i)' => Settled(i)
  BY <1>1 DEF Settled
<1>5. Strings(i)'
  BY <1>1, <1>4 DEF SlotOK, Strings
<1>6. Halfway(i)'
  BY <1>2 DEF Halfway
<1> QED
  BY <1>3, <1>5, <1>6 DEF SlotOK

\* A step of the thread of another slot.
LEMMA ElsewhereUndisturbed ==
  ASSUME TypeInv, NEW i \in Slot, NEW c \in Conn, slot[c] # i,
         \/ LoginEnter(c) \/ LoginName(c) \/ LogoutClear(c) \/ LogoutName(c) \/ Release(c)
  PROVE  Undisturbed(i)
<1> USE DEF TypeInv, TypeOK, Working, Goto, At, NextCommand
<1>1. /\ slot' = slot /\ sid' = sid /\ clients'[i] = clients[i]
      /\ pc[c] \notin {"none", "done"}
      /\ \A d \in Conn : d # c => pc'[d] = pc[d]
  BY DEF LoginEnter, LoginName, LogoutClear, LogoutName, Release, thread
<1> QED
  BY <1>1 DEF Undisturbed

\* Every step keeps what a slot other than the first says of its session.
LEMMA SlotStep ==
  ASSUME TypeInv, Entered, [Next]_vars, NEW i \in Slot, i # 0, SlotOK(i)
  PROVE  SlotOK(i)'
<1>1. RowsEvolve /\ rows' \in [Session -> {"absent", "active", "inactive"}]
  BY RowsStep, TypeStep DEF TypeInv, TypeOK
<1>2. ASSUME NEW c \in Conn, Accept(c) PROVE SlotOK(i)'
  BY <1>1, <1>2, AcceptSlot
<1>3. ASSUME NEW c \in Conn, Refuse(c) \/ Command(c) PROVE SlotOK(i)'
  BY <1>1, <1>3, MostUndisturbed, UndisturbedStep
<1>4. ASSUME NEW c \in Conn, Continue(c) PROVE SlotOK(i)'
  <2>1. CASE \/ Loop(c) \/ Eof(c) \/ RemoveSession(c) \/ Close(c)
             \/ RegisterCreate(c) \/ LoginCheck(c) \/ LoginCreate(c)
    BY <1>1, <2>1, MostUndisturbed, UndisturbedStep
  <2>2. CASE /\ slot[c] # i
             /\ \/ LoginEnter(c) \/ LoginName(c) \/ LogoutClear(c) \/ LogoutName(c)
                \/ Release(c)
    BY <1>1, <2>2, ElsewhereUndisturbed, UndisturbedStep
  <2>3. CASE /\ slot[c] = i
             /\ LoginEnter(c) \/ LoginName(c) \/ LogoutClear(c) \/ LogoutName(c)
    BY <2>3, WriteSlot
  <2>4. CASE slot[c] = i /\ Release(c)
    BY <2>4, ReleaseSlot
  <2> QED
    BY <1>4, <2>1, <2>2, <2>3, <2>4 DEF Continue
<1>5. CASE Crash
  <2>1. /\ \A d \in Conn : pc'[d] \in {"none", "done"}
        /\ clients'[i].session_id = NoSession /\ clients'[i].username = NoUser
    BY <1>5 DEF Crash, Zeroed
  <2> QED
    BY <2>1 DEF SlotOK, OneThread, Busy, Strings, Halfway, Working
<1>6. CASE Tick \/ UNCHANGED vars
  <2>1. Undisturbed(i)
    BY <1>6 DEF Tick, vars, thread, Undisturbed, Working
  <2> QED
    BY <1>1, <2>1, UndisturbedStep
<1> QED
  BY <1>2, <1>3, <1>4, <1>5, <1>6 DEF Next

\* Threads come to share slot 0 and no other (server.c:333); every other slot is
\* one thread's at a time and, outside of its LOGIN and LOGOUT, holds its user's
\* name with the id of a session of that user that has its row
\* (auth.c:135-136, 164-165).
THEOREM SlotsNameTheirSessions == Spec => []SlotNamesItsSession
<1> DEFINE SlotInv == Entered /\ \A i \in Slot \ {0} : SlotOK(i)
<1>1. Init => SlotInv
  BY DEF Init, Entered, Entering, SlotOK, OneThread, Busy, Strings, Halfway, Working, Zeroed
<1>2. TypeInv /\ SlotInv /\ [Next]_vars => SlotInv'
  BY EnteredStep, SlotStep
<1>3. SlotInv => SlotNamesItsSession
  BY DEF SlotNamesItsSession, SlotOK, OneThread, Strings
<1> HIDE DEF SlotInv
<1> QED
  BY <1>1, <1>2, <1>3, TypeInvariant, PTL DEF Spec

\* The slot of an active session has its thread.
ThreadAt(i) == clients[i].active => \E c \in Conn : Working(c) /\ slot[c] = i

\* A step that activates no slot and ends no thread keeps ThreadAt.
LEMMA StillWorking ==
  ASSUME NEW i \in Slot, ThreadAt(i), clients'[i].active => clients[i].active,
         \A d \in Conn : Working(d) => Working(d)' /\ slot'[d] = slot[d]
  PROVE  ThreadAt(i)'
BY DEF ThreadAt

\* Every step keeps the thread of an active slot.
LEMMA ThreadStep ==
  ASSUME TypeInv, [Next]_vars, NEW i \in Slot, ThreadAt(i)
  PROVE  ThreadAt(i)'
<1> USE DEF TypeInv, TypeOK, Working, Goto, At
<1>1. ASSUME NEW c \in Conn, Accept(c) PROVE ThreadAt(i)'
  <2>1. /\ pc[c] = "none" /\ pc' = [pc EXCEPT ![c] = "loop"]
        /\ \E j : slot' = [slot EXCEPT ![c] = j] /\ (i # j => clients'[i] = clients[i])
    BY <1>1 DEF Accept, ThreadOK
  <2>2. PICK j : slot' = [slot EXCEPT ![c] = j] /\ (i # j => clients'[i] = clients[i])
    BY <2>1
  <2>3. \A d \in Conn : Working(d) => Working(d)' /\ slot'[d] = slot[d]
    BY <2>1, <2>2
  <2>4. Working(c)' /\ slot'[c] = j
    BY <2>1, <2>2
  <2>5. CASE i = j
    BY <2>4, <2>5 DEF ThreadAt
  <2>6. CASE i # j
    BY <2>2, <2>3, <2>6, StillWorking
  <2> QED
    BY <2>5, <2>6
<1>2. ASSUME NEW c \in Conn, Release(c) PROVE ThreadAt(i)'
  <2>1. /\ slot' = slot /\ pc' = [pc EXCEPT ![c] = "done"] /\ slot[c] \in Slot
        /\ clients' = [clients EXCEPT ![slot[c]].active = FALSE]
    BY <1>2 DEF Release, ThreadOK, thread
  <2>2. CASE slot[c] = i
    BY <2>1, <2>2 DEF ThreadAt, ClientSession
  <2>3. CASE slot[c] # i
    BY <2>1, <2>3 DEF ThreadAt
  <2> QED
    BY <2>2, <2>3
<1>3. ASSUME NEW c \in Conn, RemoveSession(c) PROVE ThreadAt(i)'
  <2>1. /\ slot' = slot /\ pc' = [pc EXCEPT ![c] = "close"]
        /\ clients' = [clients EXCEPT ![0].active = FALSE]
    BY <1>3 DEF RemoveSession, thread
  <2>2. clients'[i].active => clients[i].active
    BY <2>1 DEF ClientSession
  <2> QED
    BY <2>1, <2>2, StillWorking
<1>4. ASSUME NEW c \in Conn, Refuse(c) \/ Command(c) PROVE ThreadAt(i)'
  <2>1. /\ slot' = slot /\ clients' = clients
        /\ \A d \in Conn : Working(d) => Working(d)'
    BY <1>4, CommandMoves DEF Refuse, thread
  <2> QED
    BY <2>1, StillWorking
<1>5. ASSUME NEW c \in Conn,
             LoginEnter(c) \/ LoginName(c) \/ LogoutClear(c) \/ LogoutName(c)
      PROVE  ThreadAt(i)'
  <2>1. /\ slot' = slot
        /\ \E l \in {"login_name", "logout_name", "loop"} : pc' = [pc EXCEPT ![c] = l]
        /\ clients'[i].active = clients[i].active
    BY <1>5 DEF LoginEnter, LoginName, LogoutClear, LogoutName, NextCommand, thread,
       ClientSession
  <2> QED
    BY <2>1, StillWorking
<1>6. ASSUME NEW c \in Conn, Loop(c) \/ Eof(c) \/ Close(c) PROVE ThreadAt(i)'
  <2>1. /\ slot' = slot /\ clients' = clients
        /\ \E l \in {"recv", "remove", "release"} : pc' = [pc EXCEPT ![c] = l]
    BY <1>6 DEF Loop, Eof, Close, thread
  <2> QED
    BY <2>1, StillWorking
<1>7. ASSUME NEW c \in Conn, RegisterCreate(c) \/ LoginCheck(c) \/ LoginCreate(c)
      PROVE  ThreadAt(i)'
  <2>1. /\ slot' = slot /\ clients' = clients
        /\ \E l \in {"loop", "login_create", "login_enter"} : pc' = [pc EXCEPT ![c] = l]
    BY <1>7 DEF RegisterCreate, LoginCheck, LoginCreate, NextCommand
  <2> QED
    BY <2>1, StillWorking
<1>8. CASE Crash
  BY <1>8 DEF Crash, ThreadAt, Zeroed
<1>9. CASE Tick \/ UNCHANGED vars
  BY <1>9, StillWorking DEF Tick, thread, vars
<1> QED
  BY <1>1, <1>2, <1>3, <1>4, <1>5, <1>6, <1>7, <1>8, <1>9 DEF Next, Continue

\* No slot is lost: an active slot has a thread at work that will free it
\* (server.c:268-270), although remove_client_session marks slot 0 free
\* whichever connection has ended.
THEOREM NoSlotIsLost == Spec => []ActiveSlotHasThread
<1>1. Init => ActiveSlotHasThread
  BY DEF Init, ActiveSlotHasThread, Zeroed
<1>2. TypeInv /\ ActiveSlotHasThread /\ [Next]_vars => ActiveSlotHasThread'
  BY ThreadStep DEF ActiveSlotHasThread, ThreadAt
<1> QED
  BY <1>1, <1>2, TypeInvariant, PTL DEF Spec
====
