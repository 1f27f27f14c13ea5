---------------------------- MODULE RoomRefinement ----------------------------
(***************************************************************************)
(* RoomService implements ExamRooms: the tables and the logins are the     *)
(* state, and what the handlers remember between two calls is how far each *)
(* thread has come.                                                        *)
(***************************************************************************)
EXTENDS RoomService

\* JOIN_ROOM has seen NOT_STARTED (room.c:162-183) and has not inserted yet.
Knocked(c) == IF pc[c] \in {"join_count", "join_insert"} THEN arg[c] ELSE NoRoom

\* SUBMIT_EXAM has seen enough results (exam.c:415) and has not written the
\* status yet.
Verdict(c) == IF pc[c] = "submit_finish" THEN arg[c] ELSE NoRoom

Abs == INSTANCE ExamRooms WITH
         Room <- RoomId,
         knocked <- [c \in Client |-> Knocked(c)],
         verdict <- [c \in Client |-> Verdict(c)]

\* The handlers of room.c and exam.c, interleaved call by call, do what
\* ExamRooms says and nothing else: in particular a room is entered late only
\* by somebody who found it open (room.c:162-195), nobody submits twice,
\* from outside or before the start (exam.c:290-391), and only somebody who has
\* counted enough results finishes a room (exam.c:415-418).
ImplementsExamRooms == Abs!Spec
=============================================================================
