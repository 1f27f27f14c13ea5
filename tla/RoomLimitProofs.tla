--------------------------- MODULE RoomLimitProofs ---------------------------
(***************************************************************************)
(* How far a room can go over MAX_PARTICIPANTS.  JOIN_ROOM counts the      *)
(* participants in one call and adds its user in another, so every thread  *)
(* that has counted and not yet added holds a place the others do not see. *)
(***************************************************************************)
EXTENDS RoomServiceProofs, FiniteSetTheorems

\* The threads that found room r not full and have not joined it yet.
Joining(r) == {c \in Client : pc[c] = "join_insert" /\ arg[c] = r}

\* Participants and places promised.
LimitOK(r) ==
  /\ IsFiniteSet(participants[r])
  /\ Cardinality(participants[r]) + Cardinality(Joining(r))
       <= MAX_PARTICIPANTS + Cardinality(Client) - 1

LimitInv == TypeInv /\ \A r \in RoomId : LimitOK(r)

\* Sets of threads are finite, and their sizes numbers.
LEMMA JoiningFinite ==
  ASSUME NEW r
  PROVE  /\ IsFiniteSet(Client) /\ Cardinality(Client) \in Nat
         /\ IsFiniteSet(Joining(r)) /\ Cardinality(Joining(r)) \in Nat
         /\ IsFiniteSet(Joining(r)') /\ Cardinality(Joining(r)') \in Nat
         /\ Cardinality(Joining(r)) <= Cardinality(Client)
         /\ Cardinality(Joining(r)') <= Cardinality(Client)
BY ServiceAssumption, FS_Subset, FS_CardinalityType DEF Joining

\* The bound when a set of participants and a set of joiners only shrink.
LEMMA Shrink ==
  ASSUME NEW r \in RoomId, LimitOK(r),
         participants'[r] \subseteq participants[r], Joining(r)' \subseteq Joining(r)
  PROVE  LimitOK(r)'
<1>1. /\ IsFiniteSet(participants'[r])
      /\ Cardinality(participants'[r]) <= Cardinality(participants[r])
      /\ Cardinality(participants'[r]) \in Nat /\ Cardinality(participants[r]) \in Nat
  BY FS_Subset, FS_CardinalityType DEF LimitOK
<1>2. Cardinality(Joining(r)') <= Cardinality(Joining(r))
  BY JoiningFinite, FS_Subset
<1> QED
  BY <1>1, <1>2, JoiningFinite, ServiceAssumption DEF LimitOK
\* A thread comes to join_insert through its count only.
LEMMA JoiningStep ==
  ASSUME TypeInv, [Next]_vars, NEW r \in RoomId
  PROVE  \/ Joining(r)' \subseteq Joining(r)
         \/ \E c \in Client : JoinCount(c) /\ arg[c] = r
<1>1. ASSUME NEW c \in Client, Command(c) \/ Continue(c), ~(JoinCount(c) /\ arg[c] = r)
      PROVE  Joining(r)' \subseteq Joining(r)
  <2>1. ~(pc'[c] = "join_insert" /\ arg'[c] = r)
    <3>1. pc \in [Client -> Label] /\ arg \in [Client -> RoomId \cup {NoRoom}]
      BY DEF TypeInv, ThreadTypeOK
    <3>2. CASE Command(c)
      BY <3>1, <3>2 DEF Command, CreateId, JoinStatus, LeaveParticipant, StartStatus,
         GetStatus, SubmitStatus, ViewStatus, Login, Logout, Disconnect, Begin, threadVars
    <3>3. CASE JoinCount(c)
      BY <1>1, <3>1, <3>3 DEF JoinCount, Proceed, Goto, Return
    <3>4. CASE Continue(c) /\ ~JoinCount(c)
      BY <3>1, <3>4 DEF Continue, CreateInsert, CreateEnter, JoinInsert, JoinEnter,
         LeaveCreator, LeaveDelete, LeaveRemove, LeaveExit, StartCreator, StartUpdate,
         StartBroadcast, GetParticipant, GetCreator, GetQuestions, SubmitParticipant,
         SubmitCreator, SubmitCheck, SubmitInsert, SubmitExit, SubmitCount,
         SubmitFinish, ViewLeaderboard, Proceed, Goto, Return
    <3> QED
      BY <1>1, <3>2, <3>3, <3>4
  <2>2. \A d \in Client : d # c => pc'[d] = pc[d] /\ arg'[d] = arg[d]
    BY <1>1, OneThread
  <2> QED
    BY <2>1, <2>2 DEF Joining
<1>2. CASE Crash \/ Tick \/ UNCHANGED vars
  BY <1>2 DEF Crash, Tick, vars, threadVars, Joining
<1> QED
  BY <1>1, <1>2 DEF Next

\* Counting a room that is not full keeps the bound: at most every thread joins.
LEMMA CountKeepsLimit ==
  ASSUME LimitInv, ~DbMayFail, NEW c \in Client, JoinCount(c),
         NEW r \in RoomId, arg[c] = r
  PROVE  LimitOK(r)'
<1>1. participants'[r] = participants[r] /\ IsFiniteSet(participants[r])
  BY DEF JoinCount, storeVars, LimitInv, LimitOK
<1>2. CASE Cardinality(participants[r]) < MAX_PARTICIPANTS
  <2>1. Cardinality(participants[r]) \in Nat
    BY <1>1, FS_CardinalityType
  <2> QED
    BY <1>1, <1>2, <2>1, JoiningFinite, ServiceAssumption DEF LimitOK
<1>3. CASE ~(Cardinality(participants[r]) < MAX_PARTICIPANTS)
  <2>1. Return(c)
    BY <1>3 DEF JoinCount, db_get_room_participant_count, OnError, Proceed
  <2>2. Joining(r)' \subseteq Joining(r)
    BY <2>1 DEF Joining, Return, LimitInv, TypeInv, ThreadTypeOK
  <2> QED
    BY <1>1, <2>2, Shrink DEF LimitInv
<1> QED
  BY <1>2, <1>3

\* Joining turns a promised place into a taken one.
LEMMA JoinKeepsLimit ==
  ASSUME LimitInv, NEW c \in Client, JoinInsert(c), db_join_room(arg[c], user[c], TRUE),
         NEW r \in RoomId, arg[c] = r
  PROVE  LimitOK(r)'
<1>1. participants'[r] \subseteq participants[r] \cup {user[c]}
  BY DEF db_join_room, LimitInv, TypeInv, StoreTypeOK
<1>2. c \in Joining(r) /\ Joining(r)' \subseteq Joining(r) \ {c}
  <2>1. pc[c] = "join_insert" /\ pc'[c] # "join_insert"
    BY DEF JoinInsert, At, Proceed, Goto, Return, LimitInv, TypeInv, ThreadTypeOK
  <2>2. \A d \in Client : d # c => pc'[d] = pc[d] /\ arg'[d] = arg[d]
    BY OneThread DEF LimitInv, Continue
  <2> QED
    BY <2>1, <2>2 DEF Joining
<1>3. /\ IsFiniteSet(participants'[r])
      /\ Cardinality(participants'[r]) <= Cardinality(participants[r]) + 1
      /\ Cardinality(participants'[r]) \in Nat
      /\ Cardinality(participants[r]) \in Nat
  <2>1. IsFiniteSet(participants[r])
    BY DEF LimitInv, LimitOK
  <2>2. Cardinality(participants[r]) \in Nat
    BY <2>1, FS_CardinalityType
  <2>3. /\ IsFiniteSet(participants[r] \cup {user[c]})
        /\ Cardinality(participants[r] \cup {user[c]}) <= Cardinality(participants[r]) + 1
    BY <2>1, <2>2, FS_AddElement
  <2>4. /\ IsFiniteSet(participants'[r])
        /\ Cardinality(participants'[r]) <= Cardinality(participants[r] \cup {user[c]})
    BY <1>1, <2>3, FS_Subset
  <2>5. /\ Cardinality(participants'[r]) \in Nat
        /\ Cardinality(participants[r] \cup {user[c]}) \in Nat
    BY <2>3, <2>4, FS_CardinalityType
  <2> QED
    BY <2>2, <2>3, <2>4, <2>5
<1>4. Cardinality(Joining(r)') <= Cardinality(Joining(r)) - 1
  <2>1. Cardinality(Joining(r) \ {c}) = Cardinality(Joining(r)) - 1
        /\ IsFiniteSet(Joining(r) \ {c})
    BY <1>2, JoiningFinite, FS_RemoveElement
  <2> QED
    BY <1>2, <2>1, FS_Subset
<1> QED
  BY <1>3, <1>4, JoiningFinite, ServiceAssumption DEF LimitInv, LimitOK

\* A new room has its creator in it, and the thread that creates it does not join.
LEMMA CreateKeepsLimit ==
  ASSUME LimitInv, NEW c \in Client, CreateInsert(c), db_create_room(arg[c], user[c], TRUE),
         NEW r \in RoomId, arg[c] = r
  PROVE  LimitOK(r)'
<1>1. participants'[r] = {user[c]}
  BY DEF db_create_room, LimitInv, TypeInv, StoreTypeOK
<1>2. Joining(r)' \subseteq Client \ {c}
  BY DEF Joining, CreateInsert, At, Proceed, Goto, Return, LimitInv, TypeInv, ThreadTypeOK
<1>3. Cardinality(Joining(r)') <= Cardinality(Client) - 1
  <2>1. /\ IsFiniteSet(Client \ {c})
        /\ Cardinality(Client \ {c}) = Cardinality(Client) - 1
    BY ServiceAssumption, FS_RemoveElement
  <2> QED
    BY <1>2, <2>1, FS_Subset
<1>4. IsFiniteSet(participants'[r]) /\ Cardinality(participants'[r]) = 1
  BY <1>1, FS_Singleton
<1> QED
  BY <1>3, <1>4, JoiningFinite, ServiceAssumption DEF LimitOK

\* The participants of a room grow by CREATE_ROOM and JOIN_ROOM alone.
LEMMA ParticipantsStep ==
  ASSUME TypeInv, [Next]_vars, NEW r \in RoomId
  PROVE  \/ participants'[r] \subseteq participants[r]
         \/ \E c \in Client : /\ arg[c] = r
                              /\ \/ CreateInsert(c) /\ db_create_room(r, user[c], TRUE)
                                 \/ JoinInsert(c) /\ db_join_room(r, user[c], TRUE)
<1>1. ASSUME NEW c \in Client, Command(c)
      PROVE  participants' = participants
  BY <1>1 DEF Command, CreateId, Logout, Disconnect, Login, JoinStatus, storeVars,
     LeaveParticipant, StartStatus, GetStatus, SubmitStatus, ViewStatus
<1>2. ASSUME NEW c \in Client, Continue(c), ~CreateInsert(c), ~JoinInsert(c)
      PROVE  participants'[r] \subseteq participants[r]
  <2>1. pc[c] # "create_insert" /\ pc[c] # "join_insert"
    BY <1>2 DEF Continue, CreateEnter, JoinCount, JoinEnter, LeaveCreator, LeaveDelete,
       LeaveRemove, LeaveExit, StartCreator, StartUpdate, StartBroadcast,
       GetParticipant, GetCreator, GetQuestions, SubmitParticipant, SubmitCreator,
       SubmitCheck, SubmitInsert, SubmitExit, SubmitCount, SubmitFinish,
       ViewLeaderboard, At
  <2>2. CASE UNCHANGED storeVars
    BY <2>2 DEF storeVars
  <2>3. CASE Write(c)
    BY <2>1, <2>3 DEF Write, db_delete_room, db_leave_room, db_start_room,
       db_finish_room, SetStatus, db_submit_exam, storeVars, TypeInv, StoreTypeOK
  <2> QED
    BY <1>2, <2>2, <2>3, ContinueWrites
<1>3. ASSUME NEW c \in Client, CreateInsert(c)
      PROVE  \/ participants'[r] \subseteq participants[r]
             \/ arg[c] = r /\ db_create_room(r, user[c], TRUE)
  BY <1>3 DEF CreateInsert, db_create_room, storeVars, TypeInv, StoreTypeOK
<1>4. ASSUME NEW c \in Client, JoinInsert(c)
      PROVE  \/ participants'[r] \subseteq participants[r]
             \/ arg[c] = r /\ db_join_room(r, user[c], TRUE)
  BY <1>4 DEF JoinInsert, db_join_room, storeVars, TypeInv, StoreTypeOK
<1>5. CASE Crash \/ Tick \/ UNCHANGED vars
  BY <1>5 DEF Crash, Tick, vars, storeVars
<1> QED
  BY <1>1, <1>2, <1>3, <1>4, <1>5 DEF Next

\* Without failing statements a room goes over its limit by at most one place for
\* each connection but one, whatever the interleaving, ids and logins.
THEOREM LimitHolds ==
  ASSUME ~DbMayFail
  PROVE  Spec => []OverfullBounded
<1>1. Init => LimitInv
  <2> SUFFICES ASSUME Init PROVE LimitInv
    OBVIOUS
  <2>1. TypeInv
    BY InitType
  <2>2. ASSUME NEW r \in RoomId PROVE LimitOK(r)
    <3>1. participants[r] = {} /\ Joining(r) = {}
      BY DEF Init, StoreInit, Joining
    <3>2. IsFiniteSet(participants[r]) /\ Cardinality(participants[r]) = 0
          /\ Cardinality(Joining(r)) = 0
      BY <3>1, FS_EmptySet
    <3>3. Cardinality(Client) \in Nat
      BY ServiceAssumption, FS_CardinalityType
    <3> QED
      BY <3>2, <3>3, ServiceAssumption DEF LimitOK
  <2> QED
    BY <2>1, <2>2 DEF LimitInv
<1>2. LimitInv /\ [Next]_vars => LimitInv'
  <2> SUFFICES ASSUME LimitInv, [Next]_vars, NEW r \in RoomId PROVE LimitOK(r)'
    BY TypeStep DEF LimitInv
  <2>1. CASE \E c \in Client : JoinCount(c) /\ arg[c] = r
    BY <2>1, CountKeepsLimit
  <2>2. CASE Joining(r)' \subseteq Joining(r) /\ participants'[r] \subseteq participants[r]
    BY <2>2, Shrink DEF LimitInv
  <2>3. CASE \E c \in Client : /\ arg[c] = r
                              /\ \/ CreateInsert(c) /\ db_create_room(r, user[c], TRUE)
                                 \/ JoinInsert(c) /\ db_join_room(r, user[c], TRUE)
    BY <2>3, CreateKeepsLimit, JoinKeepsLimit
  <2> QED
    BY <2>1, <2>2, <2>3, JoiningStep, ParticipantsStep DEF LimitInv
<1>3. LimitInv => OverfullBounded
  <2> SUFFICES ASSUME LimitInv, NEW r \in RoomId
               PROVE  Cardinality(participants[r])
                        <= MAX_PARTICIPANTS + Cardinality(Client) - 1
    BY DEF OverfullBounded
  <2>1. Cardinality(participants[r]) \in Nat
    BY FS_CardinalityType DEF LimitInv, LimitOK
  <2> QED
    BY <2>1, JoiningFinite, ServiceAssumption DEF LimitInv, LimitOK
<1> QED
  BY <1>1, <1>2, <1>3, PTL DEF Spec

=============================================================================
