# A verification project for the online exam system

The repository is an online exam system in C: a server with one thread per TCP
connection and a MySQL database, and a text client. A user logs in, makes an
exam room or joins one, the creator starts the exam, everyone submits, and the
server finishes the room when all have. This directory holds TLA+ modules that
model the server and the client, TLC configurations that check them on small instances, and
proofs, checked by TLAPS, of theorems about every instance.

## 1. The system

| Part | State | Operations |
| --- | --- | --- |
| Accept loop and connection threads, `server/server.c` | `server->clients[MAX_CLIENTS]` (descriptor, session id, user name, current room, active), `clients_mutex` | accept a connection into a slot, read and dispatch commands, clean up |
| Authentication, `server/auth/auth.c` | rows of `users` and `sessions`, the fields of the `ClientSession` | REGISTER, LOGIN, LOGOUT |
| Rooms, `server/room/room.c` | rows of `rooms` and `participants`, `client->current_room` | CREATE_ROOM, LIST_ROOMS, JOIN_ROOM, LEAVE_ROOM |
| Exams, `server/exam/exam.c` | rows of `rooms` and `exam_results` | START_EXAM with a broadcast, GET_EXAM, SUBMIT_EXAM with the automatic finish, VIEW_RESULT |
| Database layer, `server/database/database.c` | one connection, `db->mutex` | the `db_*` calls, each under the mutex |
| Schema, `database/schema.sql` | keys, cascades, CHECKs | |
| Wire protocol, `server/protocol/protocol.c` and the client's copy | none | framing, parsing and building of messages |
| Client, `client/client.c`, `client/main.c`, `client/handle/handle.c` | connection, user, room, role | menus; one command, then one response |
| Logger, `server/logger/logger.c` | a file under a mutex | append |
| Practice mode, `server/practice` | empty files | |

How they interact. A connection thread runs handlers one after another; a
handler is a chain of `db_*` calls and of accesses to the thread's
`ClientSession`. `db->mutex` makes one call atomic and nothing makes a chain
atomic, so whatever a handler read in one call may be old in the next. Threads
also meet in `server->clients`: the accept loop writes slots, the broadcast
reads all of them, and a thread's cleanup writes its own slot and slot 0. The
tables outlive the process, the slots do not.

What is hard in it:

- check-then-act over two database calls: join against start, join against
  join, submit against submit, leave and finish, login against login, start
  against start of the same user;
- the automatic finish: it must happen, once, and not too early;
- the broadcast, which goes by what the slots say and not by the table;
- slots that are reused while an old thread still points at them;
- statements that fail: some callers take a failure as yes, some as no;
- the client, which takes the next line for the response to its command, and
  START_EXAM, which has no response but the broadcast;
- a crash between two calls of a handler;
- ids made from `time(NULL)` with the resolution of a second.

What makes each part correct: an exam is started once; only its room's
creator starts or deletes it; its creator stays a member; a score is stored once
by a member after the start; the limit of the room is kept as well as two calls
can keep it; an exam that everybody has submitted is finished; a user has one
active session row; a slot names a session of its user; no slot is lost; an
application that waits is answered, and shows the creator's menu to the creator.
`PROJECT.json` lists every hazard at its line with the properties for it.

## 2. The modules

| Module | Models | Uses |
| --- | --- | --- |
| `RoomStore` | `rooms`, `participants`, `exam_results`, and the `db_*` calls on them | |
| `RoomStoreProofs` | lemmas about those calls, for the proofs of two modules | `RoomStore` |
| `RoomService` | the room and exam handlers, interleaved call by call | `RoomStore` |
| `ExamRooms` | the abstract specification of rooms and exams: every operation one step | |
| `RoomRefinement` | how `RoomService` implements `ExamRooms` | `RoomService`, `ExamRooms` |
| `MCRooms` | small instances of `RoomService` | `RoomRefinement` |
| `RoomServiceProofs`, `RoomLimitProofs` | theorems about `RoomService` | `RoomService`, `RoomStoreProofs` |
| `RoomRefinementProofs` | that `RoomService` implements `ExamRooms`, and what needs one connection per user | `RoomRefinement`, `RoomServiceProofs` |
| `SessionService` | accept loop, slots, descriptors, REGISTER, LOGIN and LOGOUT, `users` and `sessions` | |
| `MCSessions` | small instances of `SessionService` | |
| `SessionServiceProofs` | theorems about `SessionService` | `SessionService`, `DataLemmas` |
| `AnswerSheets` | from what is typed to the score: the client's command line, `parse_message`, the grading loop, and the `strtok` that all threads share | |
| `MCSheets` | a small instance of `AnswerSheets` | |
| `AnswerSheetsProofs` | theorems about `AnswerSheets` | `AnswerSheets`, `DataLemmas` |
| `DataLemmas` | lemmas about sets of numbers and about `FlattenSeq`, for the proofs of two modules | |
| `ExamClient` | the client application, its menus and handlers, the bounded streams between it and its server thread, the broadcast and the end of either side | `RoomStore` |
| `MCClient` | small instances of `ExamClient` | |
| `ExamClientProofs` | theorems about `ExamClient` | `ExamClient`, `RoomStoreProofs` |

### RoomStore

A `db_*` call is atomic, so it is one operator with the name it has in the code.
A query is the set of values it may return: the answer and, if `DbMayFail`, the
value the code returns after `mysql_query` failed (`db_get_room_status` -1,
written `"NOT_FOUND"`; `db_is_participant` 0; and so on). An update takes the
outcome `ok` it reports. A failed update changes nothing. (A connection that is
lost after the server has executed a statement and before it has answered is
left out.)

`status[r]` has two values more than the column: `"NONE"` before the room was
created and `"DELETED"` after LEAVE_ROOM of its creator. The program cannot tell
the two apart; the properties can. A room id is the second in which the room was
made. With `IdReuse` a room can be deleted and another made with its id.

`db_join_room` is an INSERT IGNORE: it reports success for a duplicate and for a
room that is gone. `db_delete_room` takes participants and results with the room
(ON DELETE CASCADE). `db_start_room` and `db_finish_room` do not look at the
status they replace. `db_check_all_submitted` compares two counts.

### RoomService

`pc[c]` is the call that the thread of connection `c` makes next. The first call
of a handler is made in the step that takes the command from the client; if it
refuses, nothing has changed and the step is left out. Then there is one action
for each call and for each access to the `ClientSession`:

| Handler | Actions, in order |
| --- | --- |
| `handle_create_room` | `CreateId`, `CreateInsert`, `CreateEnter` |
| `handle_join_room` | `JoinStatus`, `JoinCount`, `JoinInsert`, `JoinEnter` |
| `handle_leave_room` | `LeaveParticipant`, `LeaveCreator`, `LeaveDelete` or `LeaveRemove`, `LeaveExit` |
| `handle_start_exam` | `StartStatus`, `StartCreator`, `StartUpdate`, `StartBroadcast` |
| `handle_get_exam` | `GetStatus`, `GetParticipant`, `GetCreator`, `GetQuestions` |
| `handle_submit_exam` | `SubmitStatus`, `SubmitParticipant`, `SubmitCreator`, `SubmitCheck`, `SubmitInsert`, `SubmitExit`, `SubmitCount`, `SubmitFinish` |
| `handle_view_result` | `ViewStatus`, `ViewLeaderboard` |

`user[c]` and `current_room[c]` are the fields of the `ClientSession`, and
`told[c]` records the rooms whose `125 START_OK` the connection was sent. LOGIN,
LOGOUT and a disconnect are one step each here; `SharedLogin` says whether two
connections can be logged in as one user: they can, because the check for a
session and the INSERT of its row (`LoginCheck`, `LoginCreate` in
`SessionService`) are two calls.
LIST_ROOMS and PING change nothing and are not actions.

Abstractions: the grading loop is a choice of a score, or of "wrong number of
answers" (`AnswerSheets` has the loop); questions and answers do not change and are not held; response texts,
`client->state` (no handler tells its values from STATE_AUTHENTICATED upwards
apart) and the activity log are left out. A connection has a `ClientSession` of
its own: that slots can be shared is in `SessionService`, and the two are not
composed yet. In particular a connection in slot 0 that another thread has
marked inactive would miss a broadcast here too.

### ExamRooms and RoomRefinement

`ExamRooms` is what somebody sees who looks at the tables and at who is logged
in: create, start, delete, leave, submit and finish are one step each, under the
condition that a reader of `room.h` and `exam.h` expects. Two operations cannot
be that simple, because the code looks first and acts later, and the abstract
state says so with two variables and no program counters: `knocked[c]` is the
room that connection `c` has found open and may still enter, `verdict[c]` the one
whose results it has counted and which it may still finish. A room can therefore
be entered after its start, but only by one who knocked before, and finished
while a member has no result, but only after the numbers once agreed.

`RoomRefinement` maps the tables and the logins to themselves, and `knocked` and
`verdict` to the room of the threads that are between `JoinStatus` and
`JoinInsert`, and between `SubmitCount` and `SubmitFinish`. Every other step of a
handler is a stutter. It holds when no statement fails, ids are not used twice
and a user has one connection, the instance of the `rooms` run; each of the three
conditions is needed: a failed query lets a creator leave as a participant, a
deleted room's id may come back within its second, and two connections of the
creator may start a room again that has been finished in between.

### SessionService

`clients` is the table of slots, `file` the connection that each descriptor
refers to (`accept` takes the least one that is free), `peer` whether the client
has its connection up, `rows` the column `is_active` by session id. A session id
is a pair of second and user. The actions of a thread are `Loop` (the loop's
condition and the call of `recv_line`), `Receive` in each command, `Eof`, and
then the three steps of cleanup: `RemoveSession` (the critical section),
`Close`, `Release`. `RemoveSession` is what the code does: the loop of
`remove_client_session` breaks after its first iteration, so slot 0 is marked
free whichever slot the thread has.

`RegisterCheck` and `RegisterCreate` are the two calls of REGISTER; the UNIQUE
key of `users` decides between two that race, and `told` records which password
was answered `CREATED`. The three queries of LOGIN on `users` are one step,
`LoginVerify`, because accounts are never deleted, changed or locked by the
server; checking for a session, making the row, and writing the id and the name
into the slot are one each (`LoginCheck`, `LoginCreate`, `LoginEnter`, `LoginName`), and
so are the parts of LOGOUT (`LogoutDestroy`, `LogoutClear`, `LogoutName`). The
strings are steps of their own because no lock is held over them and two threads
may have slot 0: the model then has slots with one user's id and another user's
name. `client->state` is left out: beside the session id it only decides whether
`check_authentication` refuses, and a refused LOGOUT changes nothing, as
`OtherCommand`. `Says` is what a failed query means to its caller: -1 is true. `spared`
records the rows that were active when the UPDATE that should have ended them
failed (`db_create_session` goes on to its INSERT). A `recv` reads from what the
descriptor refers to at that moment; two threads that read from one connection
each get whole lines.

A password is what `sha256_hash` leaves of it, an element of `Digest`: its loop
writes every byte of the hash to the start of the text (`auth.c:16`), so the text
is the last byte in hexadecimal. Two passwords of one digest are one password to
this server and to the model. Names and passwords of the wrong form are refused
before any call and change nothing.

### AnswerSheets

A text is a sequence of symbols: one for each character that some code looks for
(`Space`, `Comma`, `Bar`, the letters of the answers) and one for a command name or
the word DATA. `Symbol` are those a person can type, which the end of a string is
not among. The client's half is pure: `Acceptable` and `Answers` are the loop that
`handle_submit_exam` runs over what was typed, `create_control_message` makes the
line. The server's half has one action for each point at which another thread may
be in `strtok`: `strtok(NULL, ...)` reads its place (`StrtokRead`), and writes
into the text and the place later (`StrtokWrite`). `strtok(s, ...)` only writes.

`olds` is the variable inside the C library: a thread, one of its two buffers, and
a position. A thread whose place was taken goes on in the other's buffer, as the
code does, with two consequences that the model has: it may put the end of a
string into a text that another thread is reading, and it may read a buffer that
its thread has left (`tmp` of a `parse_message` that returned, an `answer_copy`
that was freed). What is there then is not defined; the outcomes are no token, or
one of `Leftover`. `parse_message` has both its branches: the one for data
messages, which ends the text before the word it then looks for, goes on only
with a token of another thread.

`HandleOther` stands for the handlers of the other modules and only counts the
parameters. The status and membership checks of SUBMIT_EXAM are in
`RoomService`; what is stored there as a score is `score` here. Lengths are left
out: a field of more than 255 characters, a line of more than `MAX_MESSAGE_LEN`,
and a key of more than 255 questions.

### ExamClient

One application per account. `state`, `room` and `is_creator` are the fields of
`Client`; `asked[u]` is the command whose handler is blocked in
`client_receive_response`. Each menu of `main.c` is an action that offers its
entries in its state (`MenuMain`, `MenuAuthenticated`, `MenuParticipant`,
`MenuCreator`, `MenuExam`, `ExitExam`), and the part of each `handle_*` after the
response is an operator with its name: it acts on one code and shows any other
as an error. `client_receive_response` takes the first line of `wire[u]` whatever
it answers. A participant in a room is in the select loop instead:
`RoomLoopRecv` takes any number of lines that have arrived, as one `recv` may,
and looks for START_OK in them; which room it names is not looked at.

On the server's side `inbox[u]` holds commands (more than one when the
application runs ahead of its responses), `phase[u]` is where the thread of `u` is
in `handle_client`, and `todo[u]` what it still does for a command: `Dispatch` is
the checks and database calls of a handler in one step, and `Work` the rest of it
in the order of the code: `current_room` before the response in CREATE_ROOM,
JOIN_ROOM and LEAVE_ROOM, after it in SUBMIT_EXAM, and the broadcast and no
response in START_EXAM. So this module has the races between what a handler has
done in the tables, in the slot and on the wire; `RoomService` has those between
its database calls.

`Buffer` lines fit into the buffers of a connection; `send_full` blocks when they
are full. The broadcast is one step for `clients_mutex` (`TellLock`) and one for
each slot in the order of the table (`TellSlot`), so it may block half way with
the mutex locked, and then `RemoveSession`, which wants the mutex, waits as well.

Either side may end. `Exit` is the entry 0 of the first two menus, or the end of
the program from outside (`"KILL"`), `Crash` that of the server; what was sent
before is still read. The server's thread learns of it by the end of the stream
(`Eof`) and does its cleanup, in which `RemoveSession` marks slot 0, whosever it
is: the thread of that slot leaves its loop after the command it is in, and
broadcasts pass it by. A peer that has gone, or that has closed with something
unread, is in `reset`: the first send to it seems to go well, and the next one
raises SIGPIPE, which neither program handles. `Sigpipe` is that for the server,
the last branch of `client_create_send_command` for the application.

Abstractions: a line is its code and, where the client uses it, a room id; lines
are received whole. REGISTER, LIST_ROOMS, GET_EXAM and VIEW_RESULT are `QUERY`,
because the client prints whatever comes back. Room limits, failing statements
and one account in two applications are left to `RoomService` and
`SessionService`. All connections are there from the start. One that is opened later gets
the first slot that is not active, which is one that was marked free, if there
is one: `Accept` is that accept, it sets `reused`, and there the model stops (every
other action has `Going`), because from then on a thread that still has the slot
takes commands of its own client and replies to the new one. The properties say
where they end with it. Two steps are coarser than the code and nothing in the
module can see it: the second section under `clients_mutex` of START_EXAM
(exam.c:249-257) only writes `client->state`, and `Close` is the `close` and the
`active = 0` after it.

## 3. The runs

| Run | Instance | Shows |
| --- | --- | --- |
| `rooms` | 3 connections, 3 users, 1 room, 2 places; crashes | `TypeOK`, `CreatorIsMember`, `SubmitterIsMember`, `ImplementsExamRooms` |
| `rooms_faults` | 2 connections, 2 users, logins shared, every statement may fail, 2 scores; crashes | `ResultsOnlyAfterStart`, `ToldMeansStarted`, `ResultsAreFinal`, `OnlyCreatorStartsOrDeletes` |
| `rooms_live` | 2 connections, 4 users, 1 room, 2 places, no crash, fairness | `OverfullBounded`, `AutoFinish` |
| `sessions` | 3 connections, 2 slots, 1 user, 2 passwords, seconds 0 to 2, every statement may fail; crashes | `TypeOK`, `OneActiveRow`, `ActiveSlotHasThread`, `CreatedMeansMine`, `SlotNamesItsSession`, `EndedForGood` |
| `sheets` | 2 threads, 2 questions, 2 parameters; fields with spaces, separators and DATA, answers in every form | `TypeOK`, `FieldsArrive`, `ScoreIsRight` |
| `client` | 2 applications, 2 rooms, buffers of 3 lines, every command but the queries and LOGOUT; deadlock checked | `TypeOK`, `CreatorMenuIsCreators`, `NobodyWaitsInVain` |
| `client_live` | 2 applications, 1 room, buffers of 1 line, every command, either side may end at any time, fairness | `AppAnswered` |

Five runs check something that a comment of the repository says and the code does
not do; TLC finds each violated. `PROJECT.json` quotes the comments.

| Run | What happens |
| --- | --- |
| `late_join` | JOIN_ROOM reads NOT_STARTED, START_EXAM starts the room, JOIN_ROOM inserts |
| `early_finish` | of three participants one submits and leaves; the next submission makes it two results of two participants, and the room is finished while the third has not submitted |
| `second_start` | two connections of one login pass the status check of START_EXAM; one starts the exam and submits, which finishes it; the other sets the finished room back to IN_PROGRESS |
| `left_behind` | the row of a joiner is in, its `current_room` is not set yet, the broadcast passes it by; its application waits in the room for ever |
| `stale_row` | a client in slot 1 disconnects and its row stays active |

One comment inside the code is contradicted by a run that passes:
`database.c:1042` says that the creator is not in participants, `database.c:249`
puts it there, and `CreatorIsMember` holds. One more disagreement has no run: exam.h:67 says
"4. Validate answer count" and exam.c:377 "Check answer count matches", but the loop of
exam.c:361 stops at the last question, so a sheet with more answers than
questions is scored by its first answers. `AnswerSheets` has that behaviour
(`GradeRead`, `GradeEnd`), and `ScoreIsRight` speaks of sheets with as many answers or
fewer.

Why the bounds are enough. Every race named above is between two threads; the
third connection of `rooms` is a bystander whose join or result may come between
the two. Two places let a room be full with one joiner. `rooms_live` has more
users than the bound of `OverfullBounded` admits (2 places and 1 more; a
connection may log in again as somebody else), so that it could fail. No handler
touches two rooms, and what two rooms have in common (`current_room`) is written
and never read but by the broadcast, so one room shows what a room can do. In
`sessions` three connections on two slots are the fewest that let a slot be
reused while its old thread is in its cleanup and another slot is in
use; three seconds let a user have a session that has ended, one that an UPDATE
spared and one more, and let a LOGIN be refused by the UNIQUE key and another,
later, succeed. One user is enough: rows, accounts and passwords of two users have
nothing to do with each other, and slot 0, in which two threads could mix two
users, is the slot of which nothing is promised; in every other slot what one
thread writes is of the user its command names, and the theorems of section 4 have any number
of users. `early_finish` has one connection on which three users log in in turn, so
that nobody can join between a count and the finish; `second_start` has one user on
two connections. Users, and connections, are treated alike by every
definition, so the runs without liveness use symmetry. In `client` the second
room is what lets an application be out of step in one room and creator or
participant in another; somebody must start the first room while the other one's
JOIN_ROOM is under way, and two users can. Three lines of buffer hold more than
an application can be behind; the single line of `client_live` is full at once, so
every send of the broadcast may block. In `sheets` the second thread needs two
kinds of behaviour only: to take the place of `strtok` in `parse_message` and in
the grading loop, and to leave a buffer behind; with two parameters a third one
is already cut off, and two questions tell too few, too many and a wrong order of
answers apart. Deadlock is checked in `client`, where a state without a step would
be threads and applications that wait for each other, and in `sheets`. Elsewhere,
when no client sends a command and the clock has reached its bound, or every
program has ended, the system rests, and it may.

Fairness. In `ExamClient` it is weak fairness of each server thread and of each
application that is blocked in `recv`: both run when there is something to
receive. What people choose in the menus is not asked for. Two threads may wait
for `clients_mutex`; weak fairness is enough for both, because a connection ends
once and a thread that broadcasts goes back to its client, so nobody takes the
mutex again and again while another one waits. `AppAnswered` says that an
application that waits for a response gets one, or learns that the connection
has ended, or else one of two things has happened. Some application at a menu
has a full buffer: a broadcast is then stuck in `send` with the mutex locked. Or a
connection was accepted into a freed slot: if A has slot 0 and B hangs up, B's
cleanup marks slot 0 free, C gets it with its descriptor, and A's thread, which was
in `recv` on A's connection, replies to A's next command on C's; A's connection is
never closed, and A waits for ever. Both are hazards of the code, and the code has
nothing against either.

In `RoomService` `FairSpec` asks for weak fairness of `Continue(c)`, the steps of a
thread that is inside a handler: the threads are scheduled by the operating
system, a call that is enabled stays enabled until its thread makes it, and no
call waits for ever for `db->mutex`, which every call releases. Nothing is asked of a
client. Under it `AutoFinish` says that when everybody in a running exam has a
result and some SUBMIT_EXAM is between its INSERT and its count, the exam is
finished or deleted in the end, or somebody without a result is in it again.
LEAVE_ROOM is allowed. What the code does not do is notice that the last one
without a result leaves (there is nobody to send another SUBMIT_EXAM), nor that a
crash or a failed query fell between the last result and the count; those are
hazards of the code.

## 4. What is proved

Every theorem is about the whole specification of its module, for every value of
the constants that the module's assumptions admit: any finite set of connections
and users, any number of slots, rooms and buffer lines, any bound of the clock,
any commands, answers and key.
Of the 23 properties of the runs that pass, 21 are stated by a theorem; the other
two are liveness. The last column has what is assumed besides. Each such condition excludes something the
code can do, and section 3 and the text below say what goes wrong without it.

`RoomService` (`RoomServiceProofs`, `RoomLimitProofs`, `RoomRefinementProofs`):

| Theorem | Property | When |
| --- | --- | --- |
| `TypeCorrect` | `TypeOK` | always |
| `ScoresAreFinal` | `ResultsAreFinal` | always |
| `NoResultBeforeStart` | `ResultsOnlyAfterStart` | ids are not reused |
| `NoEarlyStart` | `ToldMeansStarted` | ids are not reused |
| `CreatorDecides` | `OnlyCreatorStartsOrDeletes` | ids are not reused |
| `CreatorStays` | `CreatorIsMember` | ids are not reused, statements do not fail |
| `LimitHolds` | `OverfullBounded` | statements do not fail |
| `OnlyMembersSubmit` | `SubmitterIsMember` | ids are not reused, statements do not fail, one connection per user |
| `Refinement` | `ImplementsExamRooms` | ids are not reused, statements do not fail, one connection per user |

`SessionService` (`SessionServiceProofs`):

| Theorem | Property | When |
| --- | --- | --- |
| `TypeCorrect` | `TypeOK` | always |
| `OneRegisterWins` | `CreatedMeansMine` | always |
| `SessionsEndForGood` | `EndedForGood` | always |
| `SlotsNameTheirSessions` | `SlotNamesItsSession` | always |
| `NoSlotIsLost` | `ActiveSlotHasThread` | always |
| `OneSessionPerUser` | `OneActiveRow` | always |

`ExamClient` (`ExamClientProofs`), whose `ClientAssumption` excludes failing
statements and reused ids from the module as a whole:

| Theorem | Property | When |
| --- | --- | --- |
| `TypeCorrect` | `TypeOK` | always |
| `MenuIsTheCreators` | `CreatorMenuIsCreators` | always |
| `EveryWaitIsAnswered` | `NobodyWaitsInVain` | always |

The last two properties are themselves about the time until a connection is
accepted into a slot that was marked free (`reused`).

`AnswerSheets` (`AnswerSheetsProofs`), whose `SheetAssumption` says what can be typed,
that the key has letters, and that no command has more fields than `MAX_PARAMS`:

| Theorem | Property | When |
| --- | --- | --- |
| `TypeCorrect` | `TypeOK` | always |
| `FieldsArriveAlways` | `FieldsArrive` | always |
| `ScoreIsRightAlways` | `ScoreIsRight` | always |

The last two properties are themselves about threads that nobody disturbed while
they used `strtok` (`mixed`), and `FieldsArrive` about fields that are neither empty
nor have a `|` in them; without these conditions they are false of the code.
`ScoreIsRight` says nothing about a sheet with more answers than questions.

### Rooms

`TypeInv` adds to the types that a busy thread is logged in and has a room in
`arg`, which the types themselves need. `StoreStep` reduces every step of the
system to an unchanged store or one of seven writes of one thread, so facts
about the tables need seven cases and not thirty. `ScoresAreFinal` follows from
this alone: `db_submit_exam` is an INSERT and `db_delete_room` the only other
write to results.

`IInv` says what a handler may still rely on of what it has read. A thread that
is about to insert a result has seen a room that started, and a room that has
started stays so, or is deleted. A thread that is about to start or delete a
room has seen its user to be the creator, and the creator of a room with a row
does not change. The invariant is needed because the properties speak of the
tables and the guards were evaluated calls earlier; that a fact survives the
steps of all other threads is the lemma `StillRemembers`, from the relation
`Evolves` between a room and the same room one step later. With ids reused the
relation is false: a SUBMIT_EXAM whose room is deleted, and whose id is taken by
a new room in the same second, stores its result in a room that has not started.
Without failures, the branch of LEAVE_ROOM that removes a participant is taken
only by users who are not the creator, which gives `CreatorStays`.

For the limit the inductive invariant counts the threads between the count and
the insert together with the participants (`RoomLimitProofs`): a thread is added
to them only when the room has a place.

`VInv` is what one connection per user adds. A user's rows in `participants` and
`exam_results`, and the status of an unstarted room he has made, are then written
by the thread of that connection only, so they are still as it has read them
when it acts: a creator who was told NOT_STARTED starts a room that is
NOT_STARTED, one who was told that he is a participant still is when his result
is inserted (`OnlyMembersSubmit`), and one whose result is in keeps it until his
thread has counted. The code does not guarantee one connection per user; what
two of them do is `second_start`, the hazards at exam.c:228 and exam.c:391, and
`rooms_faults`. `WriteKeepsOthers` is the step: a write
of one thread keeps what the threads of all other users have read. With
two connections of one user each of these is false.

`Refinement` proves the refinement step by step: the initial states are mapped
to an initial state; `WriteImplements` has one case for each write and the
operation of `ExamRooms` it is; the counts are `Knock` and `Judge`, the refusals
and the ends of handlers are withdrawals or stutters. The condition of an
operation of `ExamRooms` is what the code checked some calls before, which is
where `VInv` is used.

### Sessions

`TypeInv` has `FileOK`, no two connections have one open descriptor, and
`ThreadOK`, what each label of a thread implies about its slot, command and
session id. Types alone are not inductive: `accept` takes the least free
descriptor, and that there is one is the pigeonhole argument `FreeFd` over
`FileOK`. That the code's search for the first free slot finds the least one is
the lemma `LeastIn`, from `LeastNumber` in `DataLemmas`.

`SlotsNameTheirSessions` is about every slot but slot 0. Only slot 0 is marked
free by other threads, so of the other slots the invariant can say that at most
one thread at work has each (`OneThread`), that a slot which is not active has
none (`Busy`), and so that between the two writes of that thread's LOGIN or
LOGOUT nobody else writes it: what it holds then follows from the thread's label
(`Halfway`), and what it holds otherwise is `Strings`. That the id has its row
comes from the step which made it (`Entered`), and rows never go away (`RowsStep`). Of slot 0
the theorem says nothing, because two threads may leave one user's id beside
another's name there. `NoSlotIsLost` covers all slots, and is inductive with the
types: a slot is made active by the step that starts its thread, and every other
write to `active` clears it. `OneSessionPerUser` rests on the order in
`db_create_session`, first deactivate, then insert, under one mutex. If the UPDATE
fails the code goes on, and the rows it should have ended are in `spared`, whose
rows the property leaves out; without that the user has two.

### Client

`EveryWaitIsAnswered` is about a creator who has sent START_EXAM. The command has
no response of its own: the broadcast is, if the creator's slot has the room as
its `current_room`. A broadcast may also have been read as the response to an
earlier command, and then every response is a line late and what the menu shows
may be behind what the server knows. The inductive invariant accounts for the
lines:

- `LineComes`: a waiting application has a line on the wire, a reply among the
  chores of its thread, a command in the queue that will have one, or a broadcast
  of its own thread that has not passed its slot (`BroadcastComes`).
- `MenuMissed`: if the application shows the creator's menu of a room that its
  thread is not in, so that the broadcast would pass it by, then one line more is
  to come than the application waits for. The START_EXAM it may send is answered by
  this surplus.
- `CreatedMissed`: a ROOM_CREATED that is still on the wire and speaks of such a
  room is followed by another line; this is how the surplus comes about.
- `AskedLast`: the command waited for is the last in the queue, because the queue
  is first in, first out.
- In `TypeInv`: a menu, a ROOM_CREATED on the wire and one among the chores speak
  of a room the user made, or of one that is gone (`Mine`), which gives
  `MenuIsTheCreators`; who holds `clients_mutex` is broadcasting; a thread enters
  at most one room per command.

The proof has two relations for the steps: `Apart(v)`, what the step of another
may do to the user `v` (send him a line), and `Done(u)`, a chore that the thread
of `u` does. Each is shown once to keep the invariant, and each action to be one
of them or to have a lemma of its own.

The proof needs that there is at least one user (`ClientAssumption`): without
any, the slots of the table would have nobody to name.

### Answer sheets

The types depend on data: `strtok` stays inside a text only because the text has
the end of a string in it. `TypeInv` says so of every buffer in use (`Text`), also
of one that other threads write to, because all they write is more ends of
strings. That the text of a line ends so, and where in it each field begins
(`Layout`, `MessageLaid`), comes from what `FlattenSeq` computes. The library's
induction theorems cannot be instantiated here, so `DataLemmas` has the least
number of a set (`LeastNumber`, from the well-foundedness of the order of finite
sets) and an induction stated for sets (`UpFrom`), and from them what `FlattenSeq`
makes of any sequence of sequences (`Flattened`): each is found where the one
before it ends.

The lemmas about `strtok_r` (`StrtokIs`, `StrtokGives`, `StrtokToken`,
`StrtokAtEnd`) say what it returns from any place of any text, and `NextField` and
`NextAnswer` what that is in a line and in a list of answers: the field or answer
that comes next, with the place at the one after it or at the end.

`SheetInv` has what an undisturbed thread knows at each place of the code.

- `ParsingOK`: `msg->params` are the first fields of the line, the token is the next
  one, the place is behind it, and from there on the text is still the line.
- `DataOK`: in the branch for data messages the second token is never the word
  DATA (`SecondToken`), because the first occurrence of the word was made the end
  of the text and there is none before it. So nobody gets past that branch but
  with a token of another thread.
- `ParsedOK`: all fields are there. The loop ends when `strtok` returns nothing, which
  it does only behind the last field, or when the table is full, and then there is
  no other field.
- `GradingOK`: `score` counts the right ones of the first `idx` answers, and the place is
  at the next answer.
- `ScoredOK`: the reply. A loop that ends at the end of the answers has seen all of
  them, so fewer answers than questions are refused. Of longer sheets it says
  what the code does, and `ScoreIsRight`, which follows from it, says nothing.

The invariant survives the steps of other threads because of `mixed`: `OthersKeep`
shows that a step of another thread leaves the variables of this one alone, and
also `strtok`'s place and this one's buffers unless it is noted in `mixed`.

### What is only model-checked

- `AutoFinish` and `AppAnswered`: liveness, out of the prover's reach.
- That room ids may be used again within their second (`IdReuse`) is covered by
  the proofs only: `TypeCorrect`, `ScoresAreFinal` and `LimitHolds` do not exclude
  it, while every run has ids that are used once.

## 5. What is not modelled

- The reading of a line byte by byte and lines that are cut or mixed: `recv_line`
  returns a line or the end of the stream. The builders of responses and data
  messages, and the JSON of the lists, format and change no state; nor do they
  look at the end of their buffers.
- `validate_username`, `validate_password` and the hash itself: what is refused
  there is refused before anything happens.
- Lengths of fields and lines (see `AnswerSheets`).
- The client's copy of the protocol code and its output, but for
  `create_control_message`.
- The failures of `server_init`, of `accept` and of `pthread_create`, which end
  the server or lose one connection; `server->running`, which nothing clears;
  `find_session_by_*`, which nothing calls.
- The logs and the stored procedures and views of the schema, which the server
  does not call or read; the practice mode, whose files are empty.
- A connection to the database that is lost between a statement and its answer.
- User names are compared exactly, where the collation of the tables ignores case.

## 6. Plan

Done: `RoomStore`, `RoomService` with its theorems, `ExamRooms` and the
refinement, `SessionService`, `AnswerSheets`, `ExamClient` with bounded buffers
and clients that leave, the runs of them all, the proof of the refinement and the
theorems of section 4, one for every property but the two of liveness. Next, in
this order:

1. `ExamServer`, which composes `SessionService` and `RoomService`: the
   `ClientSession` of a room handler is then a slot that may be shared.
2. Two rooms in a run of `RoomService`, as far as the state space allows, for
   `current_room`.
