------------------------------ MODULE ExamRooms ------------------------------
(***************************************************************************)
(* What the server promises of its exam rooms, as one who sees only the    *)
(* tables and who is logged in would say it: every operation is one step,  *)
(* no thread and no database call is seen.                                 *)
(*                                                                         *)
(* Two operations cannot be as simple as their documentation has them,     *)
(* because the code looks first and acts later.  Somebody enters a room    *)
(* that he has found open, some time ago; a room is finished by somebody   *)
(* who has counted its results, some time ago.  `knocked` and `verdict`    *)
(* say who has, and nothing else of the past matters.                      *)
(***************************************************************************)
EXTENDS Integers, FiniteSets

CONSTANTS Client, User, NoUser, Room, NoRoom, Score, NoScore

VARIABLES
  status,        \* "NONE", "NOT_STARTED", "IN_PROGRESS", "FINISHED", "DELETED"
  creator,       \* the user who made the room
  participants,  \* the users in the room
  results,       \* the score of each user who has submitted
  user,          \* who is logged in on each connection
  knocked,       \* the room each connection has found open and may enter
  verdict        \* the room each connection has found complete and may finish

room == <<status, creator, participants, results>>
visit == <<knocked, verdict>>
vars == <<status, creator, participants, results, user, knocked, verdict>>

Submitted(r) == {u \in User : results[r][u] # NoScore}
Complete(r) == Cardinality(Submitted(r)) >= Cardinality(participants[r])

Init ==
  /\ status = [r \in Room |-> "NONE"]
  /\ creator = [r \in Room |-> NoUser]
  /\ participants = [r \in Room |-> {}]
  /\ results = [r \in Room |-> [u \in User |-> NoScore]]
  /\ user = [c \in Client |-> NoUser]
  /\ knocked = [c \in Client |-> NoRoom]
  /\ verdict = [c \in Client |-> NoRoom]

\* Nobody logs in or out in the middle of a visit.
Sign(c, u) ==
  /\ knocked[c] = NoRoom /\ verdict[c] = NoRoom
  /\ user' = [user EXCEPT ![c] = u]
  /\ UNCHANGED <<room, visit>>

\* The server is started again.
Restart ==
  /\ user' = [c \in Client |-> NoUser]
  /\ knocked' = [c \in Client |-> NoRoom]
  /\ verdict' = [c \in Client |-> NoRoom]
  /\ UNCHANGED room

\* Its creator is in the room from the start.
Create(c, r) ==
  /\ user[c] # NoUser
  /\ status[r] = "NONE"
  /\ status' = [status EXCEPT ![r] = "NOT_STARTED"]
  /\ creator' = [creator EXCEPT ![r] = user[c]]
  /\ participants' = [participants EXCEPT ![r] = {user[c]}]
  /\ UNCHANGED <<results, user, visit>>

\* A room that has not started is open.
Knock(c, r) ==
  /\ user[c] # NoUser
  /\ knocked[c] = NoRoom /\ verdict[c] = NoRoom
  /\ status[r] = "NOT_STARTED"
  /\ knocked' = [knocked EXCEPT ![c] = r]
  /\ UNCHANGED <<room, user, verdict>>

\* Into a room that was open, started or not, unless it is gone.
Enter(c) ==
  LET r == knocked[c]
  IN /\ r # NoRoom
     /\ creator[r] # NoUser
     /\ participants' = [participants EXCEPT ![r] = @ \cup {user[c]}]
     /\ knocked' = [knocked EXCEPT ![c] = NoRoom]
     /\ UNCHANGED <<status, creator, results, user, verdict>>

\* One who has knocked, or counted, does nothing with it.
Withdraw(c) ==
  /\ knocked' = [knocked EXCEPT ![c] = NoRoom]
  /\ verdict' = [verdict EXCEPT ![c] = NoRoom]
  /\ UNCHANGED <<room, user>>

\* Everybody but the creator may leave.
Leave(c, r) ==
  /\ user[c] \in participants[r] \ {creator[r]}
  /\ participants' = [participants EXCEPT ![r] = @ \ {user[c]}]
  /\ UNCHANGED <<status, creator, results, user, visit>>

Delete(c, r) ==
  /\ user[c] # NoUser
  /\ user[c] = creator[r]
  /\ status' = [status EXCEPT ![r] = "DELETED"]
  /\ creator' = [creator EXCEPT ![r] = NoUser]
  /\ participants' = [participants EXCEPT ![r] = {}]
  /\ results' = [results EXCEPT ![r] = [u \in User |-> NoScore]]
  /\ UNCHANGED <<user, visit>>

Start(c, r) ==
  /\ user[c] = creator[r]
  /\ status[r] = "NOT_STARTED"
  /\ status' = [status EXCEPT ![r] = "IN_PROGRESS"]
  /\ UNCHANGED <<creator, participants, results, user, visit>>

\* Once, by a member, in a room that has started.
Submit(c, r, s) ==
  /\ user[c] \in participants[r] \ Submitted(r)
  /\ status[r] \in {"IN_PROGRESS", "FINISHED"}
  /\ results' = [results EXCEPT ![r][user[c]] = s]
  /\ UNCHANGED <<status, creator, participants, user, visit>>

\* One whose own result is in finds that there are as many results as members.
Judge(c, r) ==
  /\ knocked[c] = NoRoom /\ verdict[c] = NoRoom
  /\ user[c] \in Submitted(r)
  /\ Complete(r)
  /\ verdict' = [verdict EXCEPT ![c] = r]
  /\ UNCHANGED <<room, user, knocked>>

Finish(c) ==
  LET r == verdict[c]
  IN /\ r # NoRoom
     /\ status[r] = "IN_PROGRESS"
     /\ status' = [status EXCEPT ![r] = "FINISHED"]
     /\ verdict' = [verdict EXCEPT ![c] = NoRoom]
     /\ UNCHANGED <<creator, participants, results, user, knocked>>

Next ==
  \/ Restart
  \/ \E c \in Client :
       \/ \E u \in User \cup {NoUser} : Sign(c, u)
       \/ Enter(c) \/ Withdraw(c) \/ Finish(c)
       \/ \E r \in Room :
            \/ Create(c, r) \/ Knock(c, r) \/ Leave(c, r) \/ Delete(c, r)
            \/ Start(c, r) \/ Judge(c, r)
            \/ \E s \in Score : Submit(c, r, s)

Spec == Init /\ [][Next]_vars
=============================================================================
