---------------------------- MODULE RoomStoreProofs ----------------------------
(***************************************************************************)
(* What each db_* call does to the tables, for every set of users and      *)
(* every bound on the clock: the lemmas the servers' proofs rest on.       *)
(***************************************************************************)
EXTENDS RoomStore, TLAPS

(* The calls keep the types of the tables. *)

\* db_create_room writes well-formed rows.
LEMMA CreateRoomType ==
  ASSUME StoreTypeOK, NEW r \in RoomId, NEW u \in User, NEW ok \in BOOLEAN,
         db_create_room(r, u, ok)
  PROVE  StoreTypeOK'
<1>1. CASE ok
  <2>1. status' \in [RoomId -> RoomStatus]
    BY <1>1 DEF StoreTypeOK, db_create_room, RoomStatus, RowStatus
  <2>2. creator' \in [RoomId -> User \cup {NoUser}]
    BY <1>1 DEF StoreTypeOK, db_create_room
  <2>3. participants' \in [RoomId -> SUBSET User]
    BY <1>1 DEF StoreTypeOK, db_create_room
  <2>4. results' = results
    BY <1>1 DEF db_create_room
  <2> QED
    BY <2>1, <2>2, <2>3, <2>4 DEF StoreTypeOK
<1>2. CASE ~ok
  BY <1>2 DEF StoreTypeOK, db_create_room, storeVars
<1> QED
  BY <1>1, <1>2

\* db_join_room adds an account.
LEMMA JoinRoomType ==
  ASSUME StoreTypeOK, NEW r \in RoomId, NEW u \in User, NEW ok \in BOOLEAN,
         db_join_room(r, u, ok)
  PROVE  StoreTypeOK'
BY DEF StoreTypeOK, db_join_room, storeVars

\* db_leave_room takes an account away.
LEMMA LeaveRoomType ==
  ASSUME StoreTypeOK, NEW r \in RoomId, NEW u \in User, NEW ok \in BOOLEAN,
         db_leave_room(r, u, ok)
  PROVE  StoreTypeOK'
BY DEF StoreTypeOK, db_leave_room, storeVars

\* db_delete_room empties a room's tables.
LEMMA DeleteRoomType ==
  ASSUME StoreTypeOK, NEW r \in RoomId, NEW ok \in BOOLEAN, db_delete_room(r, ok)
  PROVE  StoreTypeOK'
<1>1. CASE ok
  <2>1. /\ status' \in [RoomId -> RoomStatus]
        /\ creator' \in [RoomId -> User \cup {NoUser}]
        /\ participants' \in [RoomId -> SUBSET User]
    BY <1>1 DEF StoreTypeOK, db_delete_room, RoomStatus
  <2>2. [u \in User |-> NoScore] \in [User -> Score \cup {NoScore}]
    OBVIOUS
  <2>3. results' \in [RoomId -> [User -> Score \cup {NoScore}]]
    BY <1>1, <2>2 DEF StoreTypeOK, db_delete_room
  <2> QED
    BY <2>1, <2>3 DEF StoreTypeOK
<1>2. CASE ~ok
  BY <1>2 DEF StoreTypeOK, db_delete_room, storeVars
<1> QED
  BY <1>1, <1>2

\* An UPDATE of the status writes a status.
LEMMA SetStatusType ==
  ASSUME StoreTypeOK, NEW r \in RoomId, NEW s \in RowStatus, NEW ok \in BOOLEAN,
         SetStatus(r, s, ok)
  PROVE  StoreTypeOK'
BY DEF StoreTypeOK, SetStatus, storeVars, RoomStatus

\* db_submit_exam writes a score.
LEMMA SubmitExamType ==
  ASSUME StoreTypeOK, NEW r \in RoomId, NEW u \in User, NEW s \in Score,
         NEW ok \in BOOLEAN, db_submit_exam(r, u, s, ok)
  PROVE  StoreTypeOK'
<1>1. CASE ok
  <2>1. [results[r] EXCEPT ![u] = s] \in [User -> Score \cup {NoScore}]
    BY DEF StoreTypeOK
  <2>2. results' = [results EXCEPT ![r] = [results[r] EXCEPT ![u] = s]]
    BY <1>1 DEF db_submit_exam
  <2>3. results' \in [RoomId -> [User -> Score \cup {NoScore}]]
    BY <2>1, <2>2 DEF StoreTypeOK
  <2> QED
    BY <1>1, <2>3 DEF StoreTypeOK, db_submit_exam
<1>2. CASE ~ok
  BY <1>2 DEF StoreTypeOK, db_submit_exam, storeVars
<1> QED
  BY <1>1, <1>2

\* A step that touches no table keeps them.
LEMMA SameStoreType ==
  ASSUME StoreTypeOK, UNCHANGED storeVars
  PROVE  StoreTypeOK'
BY DEF StoreTypeOK, storeVars

----------------------------------------------------------------------------
(* The rows of a room: from an id that was given out there is no way back. *)

\* A room stays the room of its creator and does not become open again.
RowsGoOn ==
  \A r \in RoomId : status[r] # "NONE" =>
    /\ status'[r] # "NONE"
    /\ status'[r] = "NOT_STARTED" => status[r] = "NOT_STARTED"
    /\ status'[r] \in RowStatus => Exists(r) /\ creator'[r] = creator[r]

\* A step that touches neither status nor creator.
LEMMA SameRowsGoOn ==
  ASSUME StoreTypeOK, UNCHANGED <<status, creator>>
  PROVE  RowsGoOn
BY DEF RowsGoOn, Exists

\* db_create_room takes an id that is free, and a used one is not.
LEMMA CreateRoomGoesOn ==
  ASSUME StoreTypeOK, ~IdReuse, NEW r \in RoomId, NEW u \in User,
         db_create_room(r, u, TRUE)
  PROVE  RowsGoOn
BY DEF StoreTypeOK, RowsGoOn, Exists, Free, db_create_room

\* db_delete_room leaves an id that is never given out again.
LEMMA DeleteRoomGoesOn ==
  ASSUME StoreTypeOK, NEW r \in RoomId, db_delete_room(r, TRUE)
  PROVE  RowsGoOn
BY DEF StoreTypeOK, RowsGoOn, Exists, RowStatus, Started, db_delete_room

\* db_start_room and db_finish_room close a room to newcomers.
LEMMA SetStatusGoesOn ==
  ASSUME StoreTypeOK, NEW r \in RoomId, NEW s \in Started, SetStatus(r, s, TRUE)
  PROVE  RowsGoOn
BY DEF StoreTypeOK, RowsGoOn, Exists, RowStatus, Started, SetStatus
=============================================================================
