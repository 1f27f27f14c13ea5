------------------------------ MODULE RoomStore ------------------------------
(***************************************************************************)
(* The rows of `rooms`, `participants` and `exam_results`, and the db_*    *)
(* calls of server/database/database.c that read and write them.           *)
(*                                                                         *)
(* Every call holds db->mutex from its first statement to its last and     *)
(* the server has one connection, so a call is one atomic step.  A query   *)
(* is written as the set of values the call may return: the answer, and,   *)
(* when DbMayFail, what the code returns after mysql_query failed.  An     *)
(* update takes the outcome it reports, ok, and a failed one changes       *)
(* nothing (a transaction is rolled back, a single statement is atomic).   *)
(***************************************************************************)
EXTENDS Integers, FiniteSets

CONSTANTS
  User,       \* the accounts
  NoUser,     \* the empty user name
  Score,      \* the scores a graded submission can have
  NoScore,    \* no row in exam_results
  MaxTime,    \* bound: the seconds the model's clock counts
  IdReuse,    \* a room may be deleted and one created within one second
  DbMayFail   \* a MySQL statement may fail

ASSUME StoreAssumption ==
  /\ NoUser \notin User
  /\ NoScore \notin Score
  /\ IsFiniteSet(User)
  /\ MaxTime \in Nat
  /\ IdReuse \in BOOLEAN
  /\ DbMayFail \in BOOLEAN

VARIABLES
  status,        \* rooms.status; "NONE": no row yet, "DELETED": row deleted
  creator,       \* rooms.creator
  participants,  \* the user names in participants, by room
  results        \* exam_results.score, by room and user

storeVars == <<status, creator, participants, results>>

\* A room id is the second in which the room was created.
RoomId == 1..MaxTime

Started == {"IN_PROGRESS", "FINISHED"}
RowStatus == {"NOT_STARTED"} \cup Started
RoomStatus == {"NONE", "DELETED"} \cup RowStatus

StoreTypeOK ==
  /\ status \in [RoomId -> RoomStatus]
  /\ creator \in [RoomId -> User \cup {NoUser}]
  /\ participants \in [RoomId -> SUBSET User]
  /\ results \in [RoomId -> [User -> Score \cup {NoScore}]]

StoreInit ==
  /\ status = [r \in RoomId |-> "NONE"]
  /\ creator = [r \in RoomId |-> NoUser]
  /\ participants = [r \in RoomId |-> {}]
  /\ results = [r \in RoomId |-> [u \in User |-> NoScore]]

Exists(r) == status[r] \in RowStatus

\* The UNIQUE key on rooms.room_id lets a row with this id in.
Free(r) == status[r] = "NONE" \/ (IdReuse /\ status[r] = "DELETED")

Submitted(r) == {u \in User : results[r][u] # NoScore}

\* What a query returns after a failed statement.
OnError(v) == IF DbMayFail THEN {v} ELSE {}

----------------------------------------------------------------------------
(* Queries. *)

db_get_room_status(r) ==
  {IF Exists(r) THEN status[r] ELSE "NOT_FOUND"} \cup OnError("NOT_FOUND")

db_get_room_participant_count(r) ==
  {Cardinality(participants[r])} \cup OnError(-1)

\* Mutant: the row is looked for by its id alone.
db_is_room_creatorM(r, u) == {Exists(r)} \cup OnError(FALSE)

db_is_room_creator(r, u) == {Exists(r) /\ creator[r] = u} \cup OnError(FALSE)

db_is_participant(r, u) == {u \in participants[r]} \cup OnError(FALSE)

db_check_already_submitted(r, u) == {u \in Submitted(r)} \cup OnError(FALSE)

\* Mutant: one result too many is asked for.
db_check_all_submittedM(r) ==
  {/\ participants[r] # {}
   /\ Cardinality(Submitted(r)) > Cardinality(participants[r])}
  \cup OnError(FALSE)

\* Two SELECTs under one lock: the rows are counted, not matched.
db_check_all_submitted(r) ==
  {/\ participants[r] # {}
   /\ Cardinality(Submitted(r)) >= Cardinality(participants[r])}
  \cup OnError(FALSE)

----------------------------------------------------------------------------
(* Updates. *)

\* One transaction: the room, its questions, its creator as participant.  It
\* fails on a taken id, and whenever the limits miss the CHECKs of the schema
\* (5..50 questions, 5..120 minutes), which the server does not test before.
db_create_room(r, u, ok) ==
  \/ /\ ok
     /\ Free(r)
     /\ status' = [status EXCEPT ![r] = "NOT_STARTED"]
     /\ creator' = [creator EXCEPT ![r] = u]
     /\ participants' = [participants EXCEPT ![r] = {u}]
     /\ UNCHANGED results
  \/ ~ok /\ UNCHANGED storeVars

\* INSERT IGNORE: neither a duplicate nor a missing room is an error.
db_join_room(r, u, ok) ==
  \/ /\ ok
     /\ participants' =
          [participants EXCEPT ![r] = IF Exists(r) THEN @ \cup {u} ELSE @]
     /\ UNCHANGED <<status, creator, results>>
  \/ ~ok /\ DbMayFail /\ UNCHANGED storeVars

db_leave_room(r, u, ok) ==
  \/ /\ ok
     /\ participants' = [participants EXCEPT ![r] = @ \ {u}]
     /\ UNCHANGED <<status, creator, results>>
  \/ ~ok /\ DbMayFail /\ UNCHANGED storeVars

\* ON DELETE CASCADE takes the room's participants and results with it.
db_delete_room(r, ok) ==
  \/ /\ ok
     /\ Exists(r)
     /\ status' = [status EXCEPT ![r] = "DELETED"]
     /\ creator' = [creator EXCEPT ![r] = NoUser]
     /\ participants' = [participants EXCEPT ![r] = {}]
     /\ results' = [results EXCEPT ![r] = [u \in User |-> NoScore]]
  \/ ~ok /\ (DbMayFail \/ ~Exists(r)) /\ UNCHANGED storeVars

\* UPDATE rooms SET status = s WHERE room_id = r, whatever the status was.
SetStatus(r, s, ok) ==
  \/ /\ ok
     /\ status' = [status EXCEPT ![r] = IF Exists(r) THEN s ELSE @]
     /\ UNCHANGED <<creator, participants, results>>
  \/ ~ok /\ DbMayFail /\ UNCHANGED storeVars

db_start_room(r, ok) == SetStatus(r, "IN_PROGRESS", ok)
db_finish_room(r, ok) == SetStatus(r, "FINISHED", ok)

\* Mutant: INSERT ... ON DUPLICATE KEY UPDATE.
db_submit_examM(r, u, s, ok) ==
  \/ /\ ok
     /\ Exists(r)
     /\ results' = [results EXCEPT ![r][u] = s]
     /\ UNCHANGED <<status, creator, participants>>
  \/ /\ ~ok
     /\ DbMayFail \/ ~Exists(r)
     /\ UNCHANGED storeVars

\* A plain INSERT: the foreign key wants the room, the UNIQUE key wants the
\* user to have no result in it yet.
db_submit_exam(r, u, s, ok) ==
  \/ /\ ok
     /\ Exists(r)
     /\ results[r][u] = NoScore
     /\ results' = [results EXCEPT ![r][u] = s]
     /\ UNCHANGED <<status, creator, participants>>
  \/ /\ ~ok
     /\ DbMayFail \/ ~Exists(r) \/ results[r][u] # NoScore
     /\ UNCHANGED storeVars
=============================================================================
