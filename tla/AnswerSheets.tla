----------------------------- MODULE AnswerSheets -----------------------------
(***************************************************************************)
(* From what is typed in the client to the score the server stores: the    *)
(* client makes a line of its fields, parse_message takes the line apart,  *)
(* and SUBMIT_EXAM takes the list of answers apart and compares it with    *)
(* the key of the room.                                                    *)
(*                                                                         *)
(* Both loops use strtok, which keeps its place in one variable of the C   *)
(* library for the whole process, and every connection has a thread.  A    *)
(* call that goes on, strtok(NULL, ...), reads the place and writes it     *)
(* back; other threads may do the same in between, and the place may be    *)
(* in a buffer that its thread has left.                                   *)
(*                                                                         *)
(* A text is a sequence of symbols, one for each character that matters    *)
(* and one for a whole command or the word DATA.                           *)
(***************************************************************************)
EXTENDS Integers, Sequences, SequencesExt

CONSTANTS
  Symbol,      \* the characters and words of what is typed in
  Thread,      \* the connections, each with its thread
  Command,     \* what each client sends: names and sequences of fields
  Typed,       \* what people type in for their answers, by client
  Key,         \* the right answers of the room, in the order of its questions
  RoomName,    \* the id of the room, as a field
  Leftover,    \* what a buffer that is not in use may look like to strtok
  MAX_PARAMS   \* 10 in the code

NUL == "NUL"
Space == "SPACE"
Comma == "COMMA"
Bar == "BAR"
Upper == [A |-> "A", B |-> "B", C |-> "C", D |-> "D",
          a |-> "A", b |-> "B", c |-> "C", d |-> "D"]

\* A token is never empty: the empty sequence is the null pointer.
Null == <<>>

Letter == Range(Upper)

\* Every command is parsed alike: one with parameters and one without stand for
\* those other than SUBMIT_EXAM.
Name == {"LOGIN", "LOGOUT", "SUBMIT_EXAM"}

\* No text that is typed in has the end of a string in it, a room id is a
\* number, and no command has more parameters than the table takes.
ASSUME SheetAssumption ==
  /\ Letter \cup {Comma} \subseteq Symbol /\ NUL \notin Symbol
  /\ MAX_PARAMS \in Nat \ {0, 1}
  /\ Command \in [Thread -> SUBSET [name : Name, fields : Seq(Seq(Symbol))]]
  /\ \A t \in Thread : \A c \in Command[t] : Len(c.fields) <= MAX_PARAMS
  /\ Typed \in [Thread -> SUBSET Seq(Symbol)]
  /\ Key \in Seq(Letter)
  /\ RoomName \in Seq(Symbol \ {Bar, "DATA"}) \ {Null}
  /\ Leftover \subseteq Seq(Symbol) \ {Null}

VARIABLES
  olds,    \* strtok's place: [own, buf, pos], a position in a thread's buffer
  mem,     \* the buffers of each thread: tmp of parse_message, answer_copy
  pc,      \* what each thread does next
  sent,    \* the command the client sent
  hand,    \* the place a strtok(NULL, ...) under way has read
  tok,     \* the token the last strtok returned
  params,  \* msg->params
  idx,     \* how many answers have been compared
  score,   \* how many of them were right
  reply,   \* the code that answers the command
  mixed    \* history: another thread called strtok between two calls of this one

work == <<hand, tok, params, idx, score>>
vars == <<olds, mem, pc, sent, hand, tok, params, idx, score, reply, mixed>>

Buffer == {"tmp", "copy"}
Busy == {"data", "data_next", "data_length", "data_length_next",
         "params", "params_next", "grade", "grade_next"}
Label == {"idle", "data_end", "parsed", "done"} \cup Busy
Reply == {"none", "SYNTAX_ERROR", "INVALID_PARAMS", "ROOM_NOT_FOUND",
          "SUBMIT_OK", "HANDLED"}

TypeOK ==
  /\ olds.own \in Thread /\ olds.buf \in Buffer /\ olds.pos \in Nat
  /\ \A t \in Thread :
       /\ pc[t] \in Label
       /\ reply[t] \in Reply
       /\ Len(params[t]) \in 0..MAX_PARAMS
       /\ idx[t] \in 0..Len(Key)
       /\ score[t] \in 0..idx[t]
       /\ mixed[t] \in BOOLEAN

NoPlace(t) == [own |-> t, buf |-> "tmp", pos |-> 0]
NoCommand == [name |-> "NONE", fields |-> <<>>]

Init ==
  /\ olds \in {NoPlace(t) : t \in Thread}
  /\ mem = [t \in Thread |-> [b \in Buffer |-> <<>>]]
  /\ pc = [t \in Thread |-> "idle"]
  /\ sent = [t \in Thread |-> NoCommand]
  /\ hand = [t \in Thread |-> NoPlace(t)]
  /\ tok = [t \in Thread |-> Null]
  /\ params = [t \in Thread |-> <<>>]
  /\ idx = [t \in Thread |-> 0]
  /\ score = [t \in Thread |-> 0]
  /\ reply = [t \in Thread |-> "none"]
  /\ mixed = [t \in Thread |-> FALSE]

----------------------------------------------------------------------------
(* The client.  It is a process of its own with one thread, so strtok does *)
(* there what it is meant to do.                                           *)

\* The maximal runs of s without a symbol of D.
Tokens(s, D) ==
  LET first == {i \in DOMAIN s : s[i] \notin D /\ (i = 1 \/ s[i - 1] \in D)}
      last(i) == CHOOSE j \in i..Len(s) :
                   /\ \A k \in i..j : s[k] \notin D
                   /\ j = Len(s) \/ s[j + 1] \in D
      start(n) == CHOOSE i \in first : Cardinality({j \in first : j <= i}) = n
  IN [n \in 1..Cardinality(first) |-> SubSeq(s, start(n), last(start(n)))]

\* Split at spaces and commas; each answer is one letter, of either case.
Acceptable(text) ==
  LET answers == Tokens(text, {Space, Comma})
  IN answers # <<>> /\ \A n \in DOMAIN answers :
                         Len(answers[n]) = 1 /\ answers[n][1] \in DOMAIN Upper

Answers(text) ==
  LET answers == Tokens(text, {Space, Comma})
  IN [n \in DOMAIN answers |-> Upper[answers[n][1]]]

\* Symbols with a separator between them.
Join(s, separator) == Tail(FlattenSeq([n \in DOMAIN s |-> <<separator, s[n]>>]))

handle_submit_exam(text) ==
  [name |-> "SUBMIT_EXAM", fields |-> <<RoomName, Join(Answers(text), Comma)>>]

\* "COMMAND field|field|...", and the end of the string.  (The newline becomes
\* the end of the string in parse_message.)
create_control_message(c) ==
  LET field(n) == <<IF n = 1 THEN Space ELSE Bar>> \o c.fields[n]
  IN <<c.name>> \o FlattenSeq([n \in DOMAIN c.fields |-> field(n)]) \o <<NUL>>

\* What is typed in and accepted, as the command it becomes.
Submission ==
  [text \in {x \in UNION Range(Typed) : Acceptable(x)} |-> handle_submit_exam(text)]
Line == [c \in (UNION Range(Command)) \cup Range(Submission) |->
           create_control_message(c)]

----------------------------------------------------------------------------
(* strtok *)

FirstFrom(s, p, D) ==
  CHOOSE i \in p..Len(s) : s[i] \in D /\ \A j \in p..(i - 1) : s[j] \notin D

\* From position p of s: the token, the text with its end marked, the place.
strtok_r(s, p, D) ==
  LET begin == CHOOSE i \in p..Len(s) : s[i] \notin D /\ \A j \in p..(i - 1) : s[j] \in D
      end == FirstFrom(s, begin, D \cup {NUL})
  IN IF s[begin] = NUL
       THEN [tok |-> Null, text |-> s, pos |-> begin]
       ELSE [tok |-> SubSeq(s, begin, end - 1),
             text |-> [s EXCEPT ![end] = NUL],
             pos |-> IF s[end] = NUL THEN end ELSE end + 1]

Disturb(t) == mixed' = [d \in Thread |-> mixed[d] \/ (d # t /\ pc[d] \in Busy)]

\* strtok(s, D): s is in the thread's own buffer.
StrtokFirst(t, buf, s, p, D) ==
  LET n == strtok_r(s, p, D)
  IN /\ mem' = [mem EXCEPT ![t][buf] = n.text]
     /\ tok' = [tok EXCEPT ![t] = n.tok]
     /\ olds' = [own |-> t, buf |-> buf, pos |-> n.pos]
     /\ Disturb(t)

\* strtok(NULL, D) reads the place ...
StrtokRead(t, label) ==
  /\ hand' = [hand EXCEPT ![t] = olds]
  /\ pc' = [pc EXCEPT ![t] = label]
  /\ UNCHANGED <<olds, mem, sent, tok, reply, mixed>>

\* ... and goes on from it, wherever it is.
StrtokWrite(t, D) ==
  LET h == hand[t]
      s == mem[h.own][h.buf]
  IN /\ hand' = [hand EXCEPT ![t] = NoPlace(t)]
     /\ \/ /\ h.pos \in DOMAIN s
           /\ LET n == strtok_r(s, h.pos, D)
              IN /\ mem' = [mem EXCEPT ![h.own][h.buf] = n.text]
                 /\ tok' = [tok EXCEPT ![t] = n.tok]
                 /\ olds' = [h EXCEPT !.pos = n.pos]
        \/ /\ h.pos \notin DOMAIN s
           /\ \E x \in {Null} \cup Leftover : tok' = [tok EXCEPT ![t] = x]
           /\ olds' = h
           /\ UNCHANGED mem
     /\ Disturb(t)

----------------------------------------------------------------------------
(* parse_message *)

HasData(line) ==
  \E i \in 1..(Len(line) - 2) : SubSeq(line, i, i + 2) = <<Space, "DATA", Space>>

\* *data_keyword = '\0'
CutAtData(line) ==
  LET i == CHOOSE i \in 1..(Len(line) - 2) :
             /\ SubSeq(line, i, i + 2) = <<Space, "DATA", Space>>
             /\ ~HasData(SubSeq(line, 1, i + 1))
  IN [line EXCEPT ![i] = NUL]

Goto(t, label) == pc' = [pc EXCEPT ![t] = label]

Respond(t, code) ==
  /\ reply' = [reply EXCEPT ![t] = code]
  /\ Goto(t, "done")

\* recv_line returns, the line is copied and its first token is looked for.
Receive(t, c) ==
  LET line == Line[c]
  IN /\ pc[t] = "idle"
     /\ sent' = [sent EXCEPT ![t] = c]
     /\ \/ /\ HasData(line)
           /\ StrtokFirst(t, "tmp", CutAtData(line), 1, {Space})
           /\ Goto(t, "data")
        \/ /\ ~HasData(line) /\ c.fields # <<>>
           /\ StrtokFirst(t, "tmp", [line EXCEPT ![2] = NUL], 3, {Bar})
           /\ Goto(t, "params")
        \/ /\ c.fields = <<>>
           /\ mem' = [mem EXCEPT ![t]["tmp"] = <<>>]
           /\ Goto(t, "parsed")
           /\ UNCHANGED <<olds, tok, mixed>>
     /\ UNCHANGED <<hand, params, idx, score, reply>>

\* parse_message returns: tmp is no longer in use.
FreeTmp(t) == mem' = [mem EXCEPT ![t]["tmp"] = <<>>]

DataRead(t) ==
  /\ pc[t] = "data"
  /\ StrtokRead(t, "data_next")
  /\ UNCHANGED <<params, idx, score>>

DataNext(t) ==
  /\ pc[t] = "data_next"
  /\ StrtokWrite(t, {Space})
  /\ Goto(t, "data_length")
  /\ UNCHANGED <<sent, params, idx, score, reply>>

\* Only the word DATA lets the branch go on, and the text ends before it.
DataRefuse(t) ==
  /\ pc[t] = "data_length"
  /\ tok[t] # <<"DATA">>
  /\ FreeTmp(t)
  /\ Respond(t, "SYNTAX_ERROR")
  /\ UNCHANGED <<olds, sent, work, mixed>>

DataLengthRead(t) ==
  /\ pc[t] = "data_length"
  /\ tok[t] = <<"DATA">>
  /\ StrtokRead(t, "data_length_next")
  /\ UNCHANGED <<params, idx, score>>

DataLengthNext(t) ==
  /\ pc[t] = "data_length_next"
  /\ StrtokWrite(t, {Space})
  /\ Goto(t, "data_end")
  /\ UNCHANGED <<sent, params, idx, score, reply>>

\* The length is atoll of whatever token there is; there are no parameters.
DataEnd(t) ==
  /\ pc[t] = "data_end"
  /\ FreeTmp(t)
  /\ IF tok[t] = Null THEN Respond(t, "SYNTAX_ERROR")
                      ELSE Goto(t, "parsed") /\ UNCHANGED reply
  /\ UNCHANGED <<olds, sent, work, mixed>>

\* Mutant: the table is one entry longer.
ParamsReadM(t) ==
  /\ pc[t] = "params"
  /\ tok[t] # Null
  /\ Len(params[t]) <= MAX_PARAMS
  /\ params' = [params EXCEPT ![t] = Append(@, tok[t])]
  /\ StrtokRead(t, "params_next")
  /\ UNCHANGED <<idx, score>>

ParamsRead(t) ==
  /\ pc[t] = "params"
  /\ tok[t] # Null
  /\ Len(params[t]) < MAX_PARAMS
  /\ params' = [params EXCEPT ![t] = Append(@, tok[t])]
  /\ StrtokRead(t, "params_next")
  /\ UNCHANGED <<idx, score>>

\* Mutant: a space ends a parameter.
ParamsNextM(t) ==
  /\ pc[t] = "params_next"
  /\ StrtokWrite(t, {Bar, Space})
  /\ Goto(t, "params")
  /\ UNCHANGED <<sent, params, idx, score, reply>>

ParamsNext(t) ==
  /\ pc[t] = "params_next"
  /\ StrtokWrite(t, {Bar})
  /\ Goto(t, "params")
  /\ UNCHANGED <<sent, params, idx, score, reply>>

ParamsEnd(t) ==
  /\ pc[t] = "params"
  /\ tok[t] = Null \/ Len(params[t]) = MAX_PARAMS
  /\ FreeTmp(t)
  /\ tok' = [tok EXCEPT ![t] = Null]
  /\ Goto(t, "parsed")
  /\ UNCHANGED <<olds, sent, hand, params, idx, score, reply, mixed>>

----------------------------------------------------------------------------
(* The handlers. *)

\* The parameters the other handlers want before they do anything (module
\* SessionService has what they do).
Wanted == [LOGIN |-> 2, LOGOUT |-> 0]

HandleOther(t) ==
  /\ pc[t] = "parsed"
  /\ sent[t].name \in DOMAIN Wanted
  /\ IF Len(params[t]) < Wanted[sent[t].name] THEN Respond(t, "SYNTAX_ERROR")
                                              ELSE Respond(t, "HANDLED")
  /\ UNCHANGED <<olds, mem, sent, work, mixed>>

\* Too few parameters, or no room of this id.
SubmitRefuse(t) ==
  /\ pc[t] = "parsed"
  /\ sent[t].name = "SUBMIT_EXAM"
  /\ \/ Len(params[t]) < 2 /\ Respond(t, "SYNTAX_ERROR")
     \/ /\ Len(params[t]) >= 2 /\ params[t][1] # RoomName
        /\ Respond(t, "ROOM_NOT_FOUND")
  /\ UNCHANGED <<olds, mem, sent, work, mixed>>

\* strdup(answers) and the first of them.
SubmitBegin(t) ==
  /\ pc[t] = "parsed"
  /\ sent[t].name = "SUBMIT_EXAM"
  /\ Len(params[t]) >= 2 /\ params[t][1] = RoomName
  /\ StrtokFirst(t, "copy", params[t][2] \o <<NUL>>, 1, {Comma})
  /\ Goto(t, "grade")
  /\ UNCHANGED <<sent, hand, params, idx, score, reply>>

\* The right answer of question n, counted from 0.
db_get_correct_answers(n) == Key[n + 1]

\* The token without its leading spaces begins with the right letter.
Right(answer, n) ==
  \E i \in DOMAIN answer : /\ answer[i] = db_get_correct_answers(n)
                           /\ \A j \in 1..(i - 1) : answer[j] = Space

GradeRead(t) ==
  /\ pc[t] = "grade"
  /\ tok[t] # Null
  /\ idx[t] < Len(Key)
  /\ score' = [score EXCEPT ![t] = IF Right(tok[t], idx[t]) THEN @ + 1 ELSE @]
  /\ idx' = [idx EXCEPT ![t] = @ + 1]
  /\ StrtokRead(t, "grade_next")
  /\ UNCHANGED params

GradeNext(t) ==
  /\ pc[t] = "grade_next"
  /\ StrtokWrite(t, {Comma})
  /\ Goto(t, "grade")
  /\ UNCHANGED <<sent, params, idx, score, reply>>

\* Mutant: the number of answers is not compared.
GradeEndM(t) ==
  /\ pc[t] = "grade"
  /\ tok[t] = Null \/ idx[t] = Len(Key)
  /\ mem' = [mem EXCEPT ![t]["copy"] = <<>>]
  /\ Respond(t, "SUBMIT_OK")
  /\ UNCHANGED <<olds, sent, work, mixed>>

\* answer_copy is freed.  Answers that were not looked at are not counted.
GradeEnd(t) ==
  /\ pc[t] = "grade"
  /\ tok[t] = Null \/ idx[t] = Len(Key)
  /\ mem' = [mem EXCEPT ![t]["copy"] = <<>>]
  /\ IF idx[t] = Len(Key) THEN Respond(t, "SUBMIT_OK") ELSE Respond(t, "INVALID_PARAMS")
  /\ UNCHANGED <<olds, sent, work, mixed>>

\* The next iteration of the command loop zeroes the Message.
Done(t) ==
  /\ pc[t] = "done"
  /\ Goto(t, "idle")
  /\ sent' = [sent EXCEPT ![t] = NoCommand]
  /\ hand' = [hand EXCEPT ![t] = NoPlace(t)]
  /\ tok' = [tok EXCEPT ![t] = Null]
  /\ params' = [params EXCEPT ![t] = <<>>]
  /\ idx' = [idx EXCEPT ![t] = 0]
  /\ score' = [score EXCEPT ![t] = 0]
  /\ reply' = [reply EXCEPT ![t] = "none"]
  /\ mixed' = [mixed EXCEPT ![t] = FALSE]
  /\ UNCHANGED <<olds, mem>>

----------------------------------------------------------------------------

\* A client sends a command, or its answers.
Send(t) ==
  \/ \E c \in Command[t] : Receive(t, c)
  \/ \E text \in Typed[t] \cap DOMAIN Submission : Receive(t, Submission[text])

Step(t) ==
  \/ DataRead(t) \/ DataNext(t) \/ DataRefuse(t)
  \/ DataLengthRead(t) \/ DataLengthNext(t) \/ DataEnd(t)
  \/ ParamsRead(t) \/ ParamsNext(t) \/ ParamsEnd(t)
  \/ HandleOther(t) \/ SubmitRefuse(t)
  \/ SubmitBegin(t) \/ GradeRead(t) \/ GradeNext(t) \/ GradeEnd(t)
  \/ Done(t)

Next == \E t \in Thread : Send(t) \/ Step(t)

Spec == Init /\ [][Next]_vars

----------------------------------------------------------------------------
(* Properties *)

\* Without a separator in it, and not empty.
Plain(field) == field # <<>> /\ \A i \in DOMAIN field : field[i] # Bar

\* What the client put into its fields is what the handler finds in
\* msg->params, unless another thread used strtok meanwhile
\* (protocol.c:135-141): whatever was sent before and whoever was disturbed.
FieldsArrive ==
  \A t \in Thread :
    /\ pc[t] = "parsed"
    /\ ~mixed[t]
    /\ \A n \in DOMAIN sent[t].fields : Plain(sent[t].fields[n])
    => params[t] = sent[t].fields

\* From the keyboard to the score: a sheet typed in, in either form, is refused
\* if it has fewer answers than there are questions, and if it has as many it
\* is accepted with one point for each question whose answer is right, unless
\* another thread used strtok meanwhile (handle.c:602-647, protocol.c:123-141,
\* exam.c:355-385). A sheet with more answers is not meant here: the loop of
\* exam.c:361 stops at the last question, so the count it compares "matches"
\* (exam.c:377), and the code scores a sheet that exam.h:67 wants refused.
ScoreIsRight ==
  \A t \in Thread : pc[t] = "done" /\ ~mixed[t] =>
    \A text \in DOMAIN Submission : sent[t] = Submission[text] =>
      LET answers == Answers(text)
      IN /\ Len(answers) < Len(Key) => reply[t] = "INVALID_PARAMS"
         /\ Len(answers) = Len(Key) =>
              /\ reply[t] = "SUBMIT_OK"
              /\ score[t] = Cardinality({n \in DOMAIN Key : answers[n] = Key[n]})
=============================================================================
