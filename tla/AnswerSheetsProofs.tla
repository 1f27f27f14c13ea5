-------------------------- MODULE AnswerSheetsProofs --------------------------
(***************************************************************************)
(* What holds of AnswerSheets for every set of threads, whatever is typed  *)
(* in, every key and every size of the table of parameters.                *)
(***************************************************************************)
EXTENDS AnswerSheets, DataLemmas

Char == Symbol \cup Name \cup {Space, Bar, NUL}
Record == [name : Name, fields : Seq(Seq(Symbol))]
Place == [own : Thread, buf : Buffer, pos : Nat]

\* A buffer in use has the end of a string behind everything else.
Text == {s \in Seq(Char) : s # <<>> => s[Len(s)] = NUL}

DataLabel == {"data", "data_next", "data_length", "data_length_next", "data_end"}
ParamsLabel == {"params", "params_next"}
GradeLabel == {"grade", "grade_next"}

LocalTypes ==
  /\ pc \in [Thread -> Label]
  /\ sent \in [Thread -> DOMAIN Line \cup {NoCommand}]
  /\ tok \in [Thread -> Seq(Char)]
  /\ params \in [Thread -> Seq(Seq(Char))]
  /\ idx \in [Thread -> 0..Len(Key)]
  /\ score \in [Thread -> Nat]
  /\ reply \in [Thread -> Reply]
  /\ mixed \in [Thread -> BOOLEAN]

StrtokTypes ==
  /\ olds \in Place
  /\ hand \in [Thread -> Place]
  /\ mem \in [Thread -> [Buffer -> Text]]

\* What has been done and what has not, by what t does next.
StageOK(t) ==
  /\ pc[t] # "idle" => sent[t] \in DOMAIN Line
  /\ pc[t] = "idle" => params[t] = <<>>
  /\ pc[t] \in DataLabel => params[t] = <<>> /\ HasData(Line[sent[t]])
  /\ pc[t] \notin GradeLabel \cup {"done"} => idx[t] = 0 /\ score[t] = 0
  /\ Len(params[t]) <= MAX_PARAMS
  /\ score[t] <= idx[t]

TypeInv == LocalTypes /\ StrtokTypes /\ \A t \in Thread : StageOK(t)
----------------------------------------------------------------------------
(* What a thread that nobody disturbs has of its text. *)

AllPlain(c) == \A n \in DOMAIN c.fields : Plain(c.fields[n])

\* at[n] is where the n-th of the fields f begins in the line.
Layout(at, line, f) ==
  /\ at \in [1..(Len(f) + 1) -> 1..(Len(line) + 1)]
  /\ at[1] = 3
  /\ at[Len(f) + 1] = Len(line) + 1
  /\ \A n \in 1..Len(f) :
       /\ at[n + 1] = at[n] + Len(f[n]) + 1
       /\ line[at[n] - 1] = IF n = 1 THEN Space ELSE Bar
       /\ \A j \in 1..Len(f[n]) : line[at[n] + j - 1] = f[n][j]

Starts(c) == CHOOSE at : Layout(at, Line[c], c.fields)

\* strtok's place is in this buffer of t.
In(t, buf) == olds.own = t /\ olds.buf = buf

\* From place p on, s is the line of c from its field n + 1 on, or at its end.
FieldNext(c, n, s, p) ==
  /\ Len(s) = Len(Line[c])
  /\ p = IF n < Len(c.fields) THEN Starts(c)[n + 1] ELSE Len(Line[c])
  /\ \A i \in p..Len(Line[c]) : s[i] = Line[c][i]

\* The same for the answers that are joined in line.
AnswerNext(answers, line, n, s, p) ==
  /\ Len(s) = Len(line)
  /\ p = IF n < Len(answers) THEN 2 * n + 1 ELSE Len(line)
  /\ \A i \in p..Len(line) : s[i] = line[i]

\* parse_message has n tokens of the line, and strtok is behind the last one.
ParsingOK(t) ==
  pc[t] \in ParamsLabel /\ ~mixed[t] /\ AllPlain(sent[t]) =>
    LET f == sent[t].fields
        n == IF pc[t] = "params" THEN Len(params[t]) + 1 ELSE Len(params[t])
    IN /\ Len(params[t]) <= Len(f)
       /\ \A k \in 1..Len(params[t]) : params[t][k] = f[k]
       /\ pc[t] = "params" => tok[t] = IF n <= Len(f) THEN f[n] ELSE Null
       /\ pc[t] = "params_next" => hand[t] = olds
       /\ In(t, "tmp") /\ FieldNext(sent[t], n, mem[t]["tmp"], olds.pos)

\* The branch for data messages does not find the word DATA.
DataOK(t) ==
  /\ pc[t] \in {"data", "data_next"} /\ ~mixed[t] =>
       /\ In(t, "tmp")
       /\ olds.pos \in DOMAIN mem[t]["tmp"]
       /\ strtok_r(mem[t]["tmp"], olds.pos, {Space}).tok # <<"DATA">>
       /\ pc[t] = "data_next" => hand[t] = olds
  /\ pc[t] = "data_length" /\ ~mixed[t] => tok[t] # <<"DATA">>
  /\ pc[t] \in {"data_length_next", "data_end"} => mixed[t]

\* The first n answers that are right.
RightOnes(answers, n) == {k \in 1..n : answers[k] = Key[k]}

\* SUBMIT_EXAM has compared the first idx[t] answers.
GradingOK(t) ==
  pc[t] \in GradeLabel /\ ~mixed[t] =>
    \A text \in DOMAIN Submission : sent[t] = Submission[text] =>
      LET answers == Answers(text)
          n == IF pc[t] = "grade" THEN idx[t] + 1 ELSE idx[t]
          line == Join(answers, Comma) \o <<NUL>>
      IN /\ idx[t] <= Len(answers)
         /\ score[t] = Cardinality(RightOnes(answers, idx[t]))
         /\ pc[t] = "grade" => tok[t] = IF n <= Len(answers) THEN <<answers[n]>> ELSE Null
         /\ pc[t] = "grade_next" => hand[t] = olds
         /\ In(t, "copy") /\ AnswerNext(answers, line, n, mem[t]["copy"], olds.pos)

ParsedOK(t) ==
  pc[t] = "parsed" /\ ~mixed[t] /\ AllPlain(sent[t]) => params[t] = sent[t].fields

ScoredOK(t) ==
  pc[t] = "done" /\ ~mixed[t] =>
    \A text \in DOMAIN Submission : sent[t] = Submission[text] =>
      LET answers == Answers(text)
      IN IF Len(answers) < Len(Key)
           THEN reply[t] = "INVALID_PARAMS"
           ELSE /\ reply[t] = "SUBMIT_OK"
                /\ score[t] = Cardinality({n \in DOMAIN Key : answers[n] = Key[n]})

SheetInv ==
  /\ TypeInv
  /\ \A t \in Thread :
       ParsingOK(t) /\ DataOK(t) /\ GradingOK(t) /\ ParsedOK(t) /\ ScoredOK(t)
----------------------------------------------------------------------------
(* The lines. *)

\* What a sequence and one symbol more look like, from either side.
LEMMA Between ==
  ASSUME NEW W, NEW s \in Seq(W), NEW x \in W, NEW y \in W
  PROVE  LET u == <<x>> \o s
             v == <<x>> \o s \o <<y>>
         IN /\ u \in Seq(W) /\ Len(u) = Len(s) + 1 /\ u[1] = x
            /\ \A i \in 1..Len(s) : u[i + 1] = s[i]
            /\ v \in Seq(W) /\ Len(v) = Len(s) + 2 /\ v[1] = x /\ v[Len(s) + 2] = y
            /\ \A i \in 1..Len(s) : v[i + 1] = s[i]
<1>1. PICK a, b : a = <<x>> /\ b = <<y>>
  OBVIOUS
<1>2. /\ a \in Seq(W) /\ Len(a) = 1 /\ a[1] = x
      /\ b \in Seq(W) /\ Len(b) = 1 /\ b[1] = y
      /\ Len(s) \in Nat
  BY <1>1, LenProperties
<1>3. PICK u : u = a \o s
  OBVIOUS
<1>4. /\ u \in Seq(W) /\ Len(u) = 1 + Len(s)
      /\ \A i \in 1..(1 + Len(s)) : u[i] = IF i <= 1 THEN a[i] ELSE s[i - 1]
  <2>1. /\ u \in Seq(W) /\ Len(u) = Len(a) + Len(s)
        /\ \A i \in 1..(Len(a) + Len(s)) : u[i] = IF i <= Len(a) THEN a[i] ELSE s[i - Len(a)]
    BY <1>2, <1>3, ConcatProperties
  <2> QED
    BY <1>2, <2>1
<1>5. u[1] = x /\ \A i \in 1..Len(s) : u[i + 1] = s[i]
  <2>1. \A i \in 1..Len(s) : i + 1 \in 1..(1 + Len(s)) /\ ~(i + 1 <= 1) /\ (i + 1) - 1 = i
    BY <1>2
  <2>2. 1 \in 1..(1 + Len(s))
    BY <1>2
  <2> QED
    BY <1>2, <1>4, <2>1, <2>2
<1>6. PICK v : v = u \o b
  OBVIOUS
<1>7. /\ v \in Seq(W) /\ Len(v) = Len(u) + 1
      /\ \A i \in 1..(Len(u) + 1) : v[i] = IF i <= Len(u) THEN u[i] ELSE b[i - Len(u)]
  <2>1. /\ v \in Seq(W) /\ Len(v) = Len(u) + Len(b)
        /\ \A i \in 1..(Len(u) + Len(b)) : v[i] = IF i <= Len(u) THEN u[i] ELSE b[i - Len(u)]
    BY <1>2, <1>4, <1>6, ConcatProperties
  <2> QED
    BY <1>2, <2>1
<1>8. v[Len(s) + 2] = y
  <2>1. Len(s) + 2 \in 1..(Len(u) + 1) /\ ~(Len(s) + 2 <= Len(u)) /\ (Len(s) + 2) - Len(u) = 1
    BY <1>2, <1>4
  <2> QED
    BY <1>2, <1>7, <2>1
<1>9. \A i \in 1..Len(u) : v[i] = u[i]
  BY <1>2, <1>4, <1>7
<1>10. 1 \in 1..Len(u) /\ \A i \in 1..Len(s) : i + 1 \in 1..Len(u)
  BY <1>2, <1>4
<1>11. Len(v) = Len(s) + 2 /\ Len(u) = Len(s) + 1
  BY <1>2, <1>4, <1>7
<1>12. u = <<x>> \o s /\ v = <<x>> \o s \o <<y>>
  BY <1>1, <1>3, <1>6
<1> QED
  BY <1>4, <1>5, <1>7, <1>8, <1>9, <1>10, <1>11, <1>12

\* A line has the name, each field behind its separator, and the end of the
\* string behind everything else and nowhere else.
LEMMA MessageLaid ==
  ASSUME NEW W, NEW c, c.name \in Name, c.fields \in Seq(Seq(W)),
         NEW line, line = create_control_message(c)
  PROVE  /\ line \in Seq(W \cup {c.name, Space, Bar, NUL})
         /\ Len(line) \in Nat /\ Len(line) >= 2
         /\ line[1] = c.name /\ line[Len(line)] = NUL
         /\ \A i \in 2..(Len(line) - 1) : line[i] \in W \cup {Space, Bar}
         /\ \E at : Layout(at, line, c.fields)
<1> DEFINE V == W \cup {Space, Bar}
           U == W \cup {c.name, Space, Bar, NUL}
<1>0. W \subseteq V /\ V \subseteq U
  OBVIOUS
<1>1. PICK n \in Nat, f \in Seq(Seq(W)) :
        f = c.fields /\ n = Len(f) /\ f \in [1..n -> Seq(W)] /\ DOMAIN f = 1..n
  BY LenProperties
<1>2. PICK sep : sep = [k \in 1..n |-> IF k = 1 THEN Space ELSE Bar]
  OBVIOUS
<1>3. PICK s : s = [k \in DOMAIN f |-> <<IF k = 1 THEN Space ELSE Bar>> \o f[k]]
  OBVIOUS
<1>4. ASSUME NEW k \in 1..n
      PROVE  /\ s[k] \in Seq(V) /\ Len(f[k]) \in Nat /\ Len(s[k]) = Len(f[k]) + 1
             /\ s[k][1] = sep[k]
             /\ \A j \in 1..Len(f[k]) : s[k][j + 1] = f[k][j]
  <2>1. PICK x : x = IF k = 1 THEN Space ELSE Bar
    OBVIOUS
  <2>2. sep[k] = x /\ s[k] = <<x>> \o f[k] /\ x \in V
    BY <1>1, <1>2, <1>3, <2>1
  <2>3. f[k] \in Seq(W) /\ f[k] \in Seq(V)
    <3>1. f[k] \in Seq(W)
      BY <1>1
    <3> QED
      BY <1>0, <3>1, SeqMonotonic
  <2>4. PICK g : g = f[k]
    OBVIOUS
  <2>5. PICK u : u = <<x>> \o g
    OBVIOUS
  <2>6. u \in Seq(V) /\ Len(u) = Len(g) + 1 /\ u[1] = x /\ \A i \in 1..Len(g) : u[i + 1] = g[i]
    <3>1. g \in Seq(V) /\ x \in V
      BY <2>2, <2>3, <2>4
    <3> HIDE DEF V
    <3> QED
      BY <2>5, <3>1, Between
  <2>7. Len(g) \in Nat
    BY <2>3, <2>4, LenProperties
  <2> QED
    BY <2>2, <2>4, <2>5, <2>6, <2>7
<1>5. s \in [1..n -> Seq(V)]
  <2>1. DOMAIN s = 1..n /\ s = [k \in 1..n |-> s[k]]
    BY <1>1, <1>3
  <2> QED
    BY <1>4, <2>1
<1>6. PICK F : F = FlattenSeq(s)
  OBVIOUS
<1> HIDE DEF V, U
<1>7. F \in Seq(V)
  BY <1>1, <1>5, <1>6, Flattened
<1>8. PICK at \in [1..(n + 1) -> Nat \ {0}] : Placed(at, F, s, n)
  BY <1>1, <1>5, <1>6, Flattened
<1>8a. /\ at[1] = 1
       /\ Len(F) = at[n + 1] - 1
       /\ \A k \in 1..(n + 1) : at[k] <= at[n + 1]
       /\ \A k \in 1..n :
            /\ at[k + 1] = at[k] + Len(s[k])
            /\ \A j \in 1..Len(s[k]) : F[at[k] + j - 1] = s[k][j]
  BY <1>8 DEF Placed
<1>9. line = <<c.name>> \o F \o <<NUL>>
  BY <1>1, <1>3, <1>6 DEF create_control_message
<1>10. F \in Seq(U) /\ c.name \in U /\ NUL \in U
  BY <1>0, <1>7, SeqMonotonic DEF U
<1>11. /\ line \in Seq(U) /\ Len(line) = Len(F) + 2 /\ line[1] = c.name /\ line[Len(F) + 2] = NUL
       /\ \A i \in 1..Len(F) : line[i + 1] = F[i]
  BY <1>9, <1>10, Between
<1>12. Len(F) \in Nat /\ \A i \in 1..Len(F) : F[i] \in V
  BY <1>7, LenProperties
<1>13. \A i \in 2..(Len(line) - 1) : line[i] \in V
  <2>1. \A i \in 2..(Len(line) - 1) : i - 1 \in 1..Len(F) /\ (i - 1) + 1 = i
    <3>1. Len(F) \in Nat /\ Len(line) = Len(F) + 2
      BY <1>11, <1>12
    <3> QED
      BY <3>1
  <2> QED
    BY <1>11, <1>12, <2>1
<1>14a. PICK begin : begin = [k \in 1..(n + 1) |-> at[k] + 2]
  OBVIOUS
<1>14. Layout(begin, line, f)
  <2>1. /\ DOMAIN begin = 1..(n + 1)
        /\ begin = [k \in 1..(n + 1) |-> begin[k]]
        /\ \A k \in 1..(n + 1) : begin[k] = at[k] + 2 /\ at[k] \in Nat \ {0}
    BY <1>8, <1>14a
  <2>2. n + 1 \in 1..(n + 1) /\ 1 \in 1..(n + 1)
    BY <1>1
  <2>3. begin[1] = 3 /\ begin[n + 1] = Len(line) + 1
    <3>1. PICK e : e = at[n + 1]
      OBVIOUS
    <3>2. begin[1] = at[1] + 2 /\ begin[n + 1] = e + 2 /\ e \in Nat
      BY <1>8, <2>1, <2>2, <3>1
    <3>3. Len(F) = e - 1 /\ Len(line) = Len(F) + 2
      BY <1>8a, <1>11, <3>1
    <3> QED
      BY <1>8a, <3>2, <3>3
  <2>4. begin \in [1..(n + 1) -> 1..(Len(line) + 1)]
    BY <1>8, <1>8a, <1>11, <2>1, <2>2
  <2>5. ASSUME NEW k \in 1..n
        PROVE  /\ begin[k + 1] = begin[k] + Len(f[k]) + 1
               /\ line[begin[k] - 1] = IF k = 1 THEN Space ELSE Bar
               /\ \A j \in 1..Len(f[k]) : line[begin[k] + j - 1] = f[k][j]
    <3>1. PICK q : q = k + 1
      OBVIOUS
    <3>2. q \in 1..(n + 1) /\ k \in 1..(n + 1) /\ k \in 1..n
      BY <3>1
    <3>3. PICK p \in Nat, l \in Nat : p = at[k] /\ l = Len(f[k])
      BY <1>4, <1>8, <3>2
    <3>3a. begin[k] = p + 2
      BY <2>1, <3>2, <3>3
    <3>3b. Len(s[k]) = l + 1
      BY <1>4, <3>3
    <3>3c. at[q] = p + l + 1
      <4>1. at[q] = p + Len(s[k])
        BY <1>8a, <3>1, <3>3
      <4> QED
        BY <3>3b, <4>1
    <3>3d. begin[q] = p + l + 3
      <4>1. begin[q] = at[q] + 2
        BY <2>1, <3>2
      <4> QED
        BY <3>3c, <4>1
    <3>3e. p # 0 /\ p + l <= Len(F)
      <4>1. p # 0
        BY <1>8, <3>2, <3>3
      <4>2. PICK e : e = at[n + 1]
        OBVIOUS
      <4>3. at[q] <= e /\ Len(F) = e - 1 /\ e \in Nat
        BY <1>8, <1>8a, <2>2, <3>2, <4>2
      <4> QED
        BY <3>3c, <4>1, <4>3
    <3>4. \A j \in 1..(l + 1) : /\ p + j - 1 \in 1..Len(F)
                               /\ (p + j - 1) + 1 = p + j
      BY <3>3e, <1>12
    <3>5. \A j \in 1..(l + 1) : line[p + j] = s[k][j]
      <4>1. \A j \in 1..(l + 1) : F[p + j - 1] = s[k][j]
        BY <1>8a, <3>3, <3>3b
      <4> QED
        BY <1>11, <3>4, <4>1
    <3>6. line[begin[k] - 1] = sep[k]
      <4>1. 1 \in 1..(l + 1) /\ begin[k] - 1 = p + 1
        BY <3>3a
      <4> QED
        BY <1>4, <3>5, <4>1
    <3>7. ASSUME NEW j \in 1..l PROVE line[begin[k] + j - 1] = f[k][j]
      <4>1. j + 1 \in 1..(l + 1) /\ begin[k] + j - 1 = p + (j + 1)
        BY <3>3a
      <4>2. s[k][j + 1] = f[k][j]
        BY <1>4, <3>3
      <4> QED
        BY <3>5, <4>1, <4>2
    <3>8. begin[q] = begin[k] + l + 1
      BY <3>3a, <3>3d
    <3> QED
      BY <1>2, <3>1, <3>3, <3>6, <3>7, <3>8
  <2> QED
    BY <1>1, <2>3, <2>4, <2>5 DEF Layout
<1>15. \E p : Layout(p, line, c.fields)
  BY <1>1, <1>14
<1> QED
  <2>1. Len(line) \in Nat /\ Len(line) >= 2 /\ line[Len(line)] = NUL
    BY <1>11, <1>12
  <2> QED
    BY <1>11, <1>13, <1>15, <2>1 DEF U, V

\* The letters, and what they are not.
LEMMA Letters ==
  /\ Letter = {"A", "B", "C", "D"}
  /\ Letter \cup {Comma} \subseteq Symbol /\ NUL \notin Symbol
  /\ Symbol \subseteq Char
<1>1. Letter = {"A", "B", "C", "D"}
  BY DEF Letter, Upper, Range
<1> QED
  BY <1>1, SheetAssumption DEF Char

\* No separator, nor the end of a string, is a letter, a name or the word DATA.
LEMMA Separators ==
  /\ Space \notin Name \cup Letter \cup {Bar, Comma, NUL, "DATA"}
  /\ Bar \notin Name \cup Letter \cup {Comma, NUL, "DATA"}
  /\ Comma \notin Name \cup Letter \cup {NUL, "DATA"}
  /\ NUL \notin Name \cup Letter \cup {"DATA"}
  /\ "DATA" \notin Name \cup Letter
BY Letters DEF Name, Space, Bar, Comma, NUL

\* The answers that are accepted are letters, one at least.
LEMMA AnswersAre ==
  ASSUME NEW text \in Seq(Symbol), Acceptable(text)
  PROVE  Answers(text) \in Seq(Letter) /\ Len(Answers(text)) \in Nat \ {0}
<1> DEFINE D == {Space, Comma}
           first == {i \in DOMAIN text : text[i] \notin D /\ (i = 1 \/ text[i - 1] \in D)}
<1>2. Cardinality(first) \in Nat
  <2>1. PICK l \in Nat : first \subseteq 1..l
    BY LenProperties
  <2>2. IsFiniteSet(1..l)
    BY FS_Interval
  <2> HIDE DEF first
  <2> QED
    BY <2>1, <2>2, FS_Subset, FS_CardinalityType
<1>3. PICK m \in Nat : m = Cardinality(first)
  BY <1>2
<1>4. PICK tokens : tokens = Tokens(text, D)
  OBVIOUS
<1>5. DOMAIN tokens = 1..m
  BY <1>3, <1>4 DEF Tokens
<1>6. tokens # <<>> /\ \A n \in DOMAIN tokens : tokens[n][1] \in DOMAIN Upper
  BY <1>4 DEF Acceptable
<1>7. m # 0
  <2> SUFFICES ASSUME m = 0 PROVE FALSE
    OBVIOUS
  <2>1. DOMAIN tokens = {}
    BY <1>5
  <2>2. tokens = [n \in DOMAIN tokens |-> tokens[n]]
    <3> DEFINE last(i) == CHOOSE j \in i..Len(text) :
                            /\ \A k \in i..j : text[k] \notin D
                            /\ j = Len(text) \/ text[j + 1] \in D
               start(n) == CHOOSE i \in first : Cardinality({j \in first : j <= i}) = n
    <3>1. tokens = [n \in 1..Cardinality(first) |-> SubSeq(text, start(n), last(start(n)))]
      BY <1>4 DEF Tokens
    <3> HIDE DEF last, start
    <3> QED
      BY <3>1
  <2>3. <<>> = [n \in {} |-> tokens[n]]
    OBVIOUS
  <2> QED
    BY <1>6, <2>1, <2>2, <2>3
<1>8. Answers(text) = [n \in 1..m |-> Upper[tokens[n][1]]]
  BY <1>4, <1>5 DEF Answers
<1>9. \A n \in 1..m : Upper[tokens[n][1]] \in Letter
  BY <1>5, <1>6 DEF Letter, Range
<1>10. Answers(text) \in [1..m -> Letter]
  BY <1>8, <1>9
<1>11. PICK a : a = Answers(text)
  OBVIOUS
<1>12. a \in Seq(Letter) /\ Len(a) = m
  BY <1>10, <1>11, SeqDef, LenProperties
<1> QED
  BY <1>7, <1>11, <1>12

\* The list of answers: every second symbol is one, with commas between them.
LEMMA Joined ==
  ASSUME NEW a \in Seq(Letter), Len(a) \in Nat \ {0}
  PROVE  /\ Join(a, Comma) \in Seq(Letter \cup {Comma})
         /\ Len(Join(a, Comma)) = 2 * Len(a) - 1
         /\ \A k \in 1..Len(a) : Join(a, Comma)[2 * k - 1] = a[k]
         /\ \A k \in 1..(Len(a) - 1) : Join(a, Comma)[2 * k] = Comma
<1> DEFINE V == Letter \cup {Comma}
<1>1. PICK n \in Nat \ {0} : n = Len(a) /\ DOMAIN a = 1..n /\ \A k \in 1..n : a[k] \in Letter
  BY LenProperties
<1>2. PICK s : s = [k \in DOMAIN a |-> <<Comma, a[k]>>]
  OBVIOUS
<1>3. ASSUME NEW k \in 1..n
      PROVE s[k] \in Seq(V) /\ Len(s[k]) = 2 /\ s[k][1] = Comma /\ s[k][2] = a[k]
  <2>1. s[k] = <<Comma, a[k]>> /\ a[k] \in V /\ Comma \in V
    BY <1>1, <1>2
  <2> QED
    <3>1. PICK x, y : x = a[k] /\ y = Comma
      OBVIOUS
    <3>2. s[k] = <<y, x>> /\ x \in V /\ y \in V
      BY <2>1, <3>1
    <3>3. PICK u : u = <<y, x>>
      OBVIOUS
    <3> HIDE DEF V
    <3>4. u \in Seq(V) /\ Len(u) = 2 /\ u[1] = y /\ u[2] = x
      BY <3>2, <3>3
    <3> QED
      BY <3>1, <3>2, <3>3, <3>4
<1> HIDE DEF V
<1>4. s \in [1..n -> Seq(V)]
  <2>1. s = [k \in 1..n |-> s[k]]
    BY <1>1, <1>2
  <2> QED
    BY <1>3, <2>1
<1>5. PICK F : F = FlattenSeq(s)
  OBVIOUS
<1>6. F \in Seq(V) /\ \E at \in [1..(n + 1) -> Nat \ {0}] : Placed(at, F, s, n)
  BY <1>4, <1>5, Flattened
<1>7. PICK at : Placed(at, F, s, n)
  BY <1>6
<1>8. /\ at[1] = 1 /\ Len(F) = at[n + 1] - 1
      /\ \A k \in 1..n : /\ at[k + 1] = at[k] + 2
                         /\ \A j \in 1..2 : F[at[k] + j - 1] = s[k][j]
  BY <1>3, <1>7 DEF Placed
<1> DEFINE G == {k \in 1..(n + 1) : at[k] = 2 * k - 1}
<1>9. 1 \in G
  BY <1>8
<1>10. ASSUME NEW k \in 1..n, k \in G PROVE k + 1 \in G
  <2>1. PICK q : q = k + 1
    OBVIOUS
  <2>2. at[q] = at[k] + 2 /\ at[k] = 2 * k - 1 /\ q \in 1..(n + 1)
    BY <1>8, <1>10, <2>1
  <2>3. at[q] = 2 * q - 1
    BY <2>1, <2>2
  <2> QED
    BY <2>1, <2>2, <2>3
<1>11. \A k \in 1..(n + 1) : at[k] = 2 * k - 1
  <2>1. 1..(n + 1) \subseteq G
    <3>1. n + 1 \in Nat /\ (n + 1) - 1 = n
      OBVIOUS
    <3> HIDE DEF G
    <3> QED
      BY <1>9, <1>10, <3>1, UpFrom
  <2> QED
    BY <2>1
<1>12. Len(F) = 2 * n
  <2>1. PICK q : q = n + 1
    OBVIOUS
  <2>2. at[q] = 2 * q - 1 /\ Len(F) = at[q] - 1
    BY <1>8, <1>11, <2>1
  <2> QED
    BY <2>1, <2>2
<1>13. ASSUME NEW k \in 1..n PROVE F[2 * k - 1] = Comma /\ F[2 * k] = a[k]
  <2>1. at[k] = 2 * k - 1
    BY <1>11
  <2>2. at[k] + 1 - 1 = 2 * k - 1 /\ at[k] + 2 - 1 = 2 * k /\ 1 \in 1..2 /\ 2 \in 1..2
    BY <2>1
  <2>3. F[at[k] + 1 - 1] = s[k][1] /\ F[at[k] + 2 - 1] = s[k][2]
    BY <1>8, <2>2
  <2> QED
    BY <1>3, <2>2, <2>3
<1>14. F # <<>>
  BY <1>12, EmptySeq
<1>15. PICK t : t = Tail(F)
  OBVIOUS
<1>16. /\ t \in Seq(V) /\ Len(t) = 2 * n - 1
       /\ \A i \in 1..(2 * n - 1) : t[i] = F[i + 1]
  <2>1. t \in Seq(V) /\ Len(t) = Len(F) - 1 /\ \A i \in 1..Len(t) : t[i] = F[i + 1]
    BY <1>6, <1>14, <1>15, HeadTailProperties
  <2> QED
    BY <1>12, <2>1
<1>17. ASSUME NEW k \in 1..n PROVE t[2 * k - 1] = a[k]
  <2>1. 2 * k - 1 \in 1..(2 * n - 1) /\ (2 * k - 1) + 1 = 2 * k
    OBVIOUS
  <2> QED
    BY <1>13, <1>16, <2>1
<1>18. ASSUME NEW k \in 1..(n - 1) PROVE t[2 * k] = Comma
  <2>1. PICK q \in 1..n : q = k + 1
    OBVIOUS
  <2>2. 2 * k \in 1..(2 * n - 1) /\ 2 * k + 1 = 2 * q - 1
    BY <2>1
  <2> QED
    BY <1>13, <1>16, <2>2
<1>19. t = Join(a, Comma)
  BY <1>2, <1>5, <1>15 DEF Join
<1> QED
  BY <1>1, <1>16, <1>17, <1>18, <1>19 DEF V

\* What strstr looks for is at i.
DataAt(s, i) == s[i] = Space /\ s[i + 1] = "DATA" /\ s[i + 2] = Space

\* The three symbols, one by one.
LEMMA Three ==
  ASSUME NEW W, NEW s \in Seq(W), NEW i \in 1..(Len(s) - 2)
  PROVE  SubSeq(s, i, i + 2) = <<Space, "DATA", Space>> <=> DataAt(s, i)
<1>0. PICK u, v : u = SubSeq(s, i, i + 2) /\ v = <<Space, "DATA", Space>>
  OBVIOUS
<1>1. PICK n \in Nat : n = Len(s) /\ i \in 1..n /\ i + 1 \in 1..n /\ i + 2 \in 1..n
  BY LenProperties
<1>2. PICK p, q : p = i + 1 /\ q = i + 2
  OBVIOUS
<1>3. \A j \in i..q : s[j] \in W
  BY <1>1, <1>2, ElementOfSeq
<1>4. u = SubSeq(s, i, q)
  BY <1>0, <1>2
<1>5. /\ u \in Seq(W) /\ Len(u) = IF i <= q THEN q - i + 1 ELSE 0
      /\ \A j \in 1..(q - i + 1) : u[j] = s[i + j - 1]
  BY <1>1, <1>2, <1>3, <1>4, SubSeqProperties
<1>6. Len(u) = 3 /\ \A j \in 1..3 : u[j] = s[i + j - 1]
  BY <1>1, <1>2, <1>5
<1>7. i + 1 - 1 = i /\ i + 2 - 1 = p /\ i + 3 - 1 = q
  BY <1>1, <1>2
<1>8. u[1] = s[i] /\ u[2] = s[p] /\ u[3] = s[q]
  BY <1>6, <1>7
<1>9. u = [j \in 1..3 |-> u[j]]
  BY <1>5, <1>6, LenProperties
<1>11. v = [j \in 1..3 |-> v[j]] /\ v[1] = Space /\ v[2] = "DATA" /\ v[3] = Space
  <2>1. PICK x, y : x = Space /\ y = "DATA"
    OBVIOUS
  <2>2. v = <<x, y, x>>
    BY <1>0, <2>1
  <2>3. v = [j \in 1..3 |-> v[j]] /\ v[1] = x /\ v[2] = y /\ v[3] = x
    BY <2>2
  <2> QED
    BY <2>1, <2>3
<1>12. u = v <=> u[1] = v[1] /\ u[2] = v[2] /\ u[3] = v[3]
  <2>1. ASSUME u[1] = v[1], u[2] = v[2], u[3] = v[3] PROVE u = v
    <3>1. \A j \in 1..3 : u[j] = v[j]
      BY <2>1
    <3> QED
      BY <3>1, <1>9, <1>11
  <2> QED
    BY <2>1
<1> QED
  BY <1>0, <1>2, <1>4, <1>8, <1>11, <1>12 DEF DataAt

\* The commands that have a line.
LEMMA LineDomain ==
  /\ DOMAIN Line = (UNION Range(Command)) \cup Range(Submission)
  /\ \A c \in DOMAIN Line : Line[c] = create_control_message(c)
<1> DEFINE S == (UNION Range(Command)) \cup Range(Submission)
<1>1. Line = [c \in S |-> create_control_message(c)]
  BY DEF Line
<1> HIDE DEF S
<1>2. DOMAIN Line = S /\ \A c \in S : Line[c] = create_control_message(c)
  BY <1>1
<1> QED
  BY <1>2 DEF S

\* What is typed in and accepted becomes a command with a room and a list of
\* answers, and there is neither a separator nor the word DATA in it.
LEMMA SubmissionsAre ==
  ASSUME NEW text \in DOMAIN Submission
  PROVE  /\ Answers(text) \in Seq(Letter) /\ Len(Answers(text)) \in Nat \ {0}
         /\ Submission[text] \in Record
         /\ Submission[text] \in DOMAIN Line
         /\ Submission[text].name = "SUBMIT_EXAM"
         /\ Submission[text].fields = <<RoomName, Join(Answers(text), Comma)>>
         /\ AllPlain(Submission[text])
         /\ ~HasData(Line[Submission[text]])
<1> DEFINE W == Symbol \ {Bar, "DATA"}
<1>1. text \in Seq(Symbol) /\ Acceptable(text) /\ Submission[text] = handle_submit_exam(text)
  <2>1. text \in UNION Range(Typed) /\ Acceptable(text)
        /\ Submission[text] = handle_submit_exam(text)
    BY DEF Submission
  <2>2. \A S \in Range(Typed) : S \subseteq Seq(Symbol)
    BY SheetAssumption DEF Range
  <2> QED
    BY <2>1, <2>2
<1>2. PICK a \in Seq(Letter) : a = Answers(text) /\ Len(a) \in Nat \ {0}
  BY <1>1, AnswersAre
<1>3. PICK j : j = Join(a, Comma)
  OBVIOUS
<1>4. j \in Seq(Letter \cup {Comma}) /\ Len(j) = 2 * Len(a) - 1
  BY <1>2, <1>3, Joined
<1>5. Letter \cup {Comma} \subseteq W /\ W \subseteq Symbol
  BY Letters, Separators
<1>6. j \in Seq(W) /\ RoomName \in Seq(W) /\ j # <<>> /\ RoomName # <<>>
  <2>1. j \in Seq(W)
    BY <1>4, <1>5, SeqMonotonic
  <2>2. j # <<>>
    <3>1. PICK m \in Nat \ {0} : m = Len(a)
      BY <1>2
    <3>2. Len(j) = 2 * m - 1
      BY <1>4, <3>1
    <3>3. Len(j) # 0
      BY <3>2
    <3> QED
      BY <3>3, EmptySeq
  <2> QED
    BY <2>1, <2>2, SheetAssumption DEF Null
<1>7. PICK c : c = Submission[text]
  OBVIOUS
<1>8. c = [name |-> "SUBMIT_EXAM", fields |-> <<RoomName, j>>]
  BY <1>1, <1>2, <1>3, <1>7 DEF handle_submit_exam
<1>9. PICK f : f = <<RoomName, j>>
  OBVIOUS
<1>10. c.name = "SUBMIT_EXAM" /\ c.fields = f /\ c = [name |-> c.name, fields |-> c.fields]
  BY <1>8, <1>9
<1> HIDE DEF W
<1>11. f \in Seq(Seq(W)) /\ DOMAIN f = 1..2 /\ f[1] = RoomName /\ f[2] = j
  BY <1>6, <1>9
<1>12. c \in Record
  <2>1. Seq(W) \subseteq Seq(Symbol)
    BY <1>5, SeqMonotonic
  <2>2. f \in Seq(Seq(Symbol))
    BY <2>1, <1>11, SeqMonotonic
  <2> QED
    BY <2>2, <1>10 DEF Record, Name
<1>13. AllPlain(c)
  <2>1. \A s \in Seq(W) : \A i \in DOMAIN s : s[i] # Bar
    <3>1. \A s \in Seq(W) : \A i \in DOMAIN s : s[i] \in W
      BY LenProperties
    <3> QED
      BY <3>1 DEF W
  <2>2. \A n \in DOMAIN f : f[n] \in Seq(W) /\ f[n] # <<>>
    <3>1. \A n \in 1..2 : n = 1 \/ n = 2
      OBVIOUS
    <3> QED
      BY <3>1, <1>6, <1>11
  <2> QED
    BY <2>1, <2>2, <1>10 DEF AllPlain, Plain
<1>14. c \in DOMAIN Line /\ Line[c] = create_control_message(c)
  <2>1. c \in Range(Submission)
    BY <1>7 DEF Range
  <2> QED
    <3>1. c \in DOMAIN Line
      BY <2>1, LineDomain
    <3> QED
      BY <3>1, LineDomain
<1>15. PICK line : line = create_control_message(c)
  OBVIOUS
<1>16. /\ line \in Seq(W \cup {c.name, Space, Bar, NUL})
       /\ Len(line) \in Nat /\ Len(line) >= 2
       /\ \A i \in 2..(Len(line) - 1) : line[i] \in W \cup {Space, Bar}
  <2>1. c.name \in Name /\ c.fields \in Seq(Seq(W))
    BY <1>10, <1>11 DEF Name
  <2> QED
    BY <2>1, <1>15, MessageLaid
<1>17. ~HasData(line)
  <2> SUFFICES ASSUME HasData(line) PROVE FALSE
    OBVIOUS
  <2>1. PICK i \in 1..(Len(line) - 2) : SubSeq(line, i, i + 2) = <<Space, "DATA", Space>>
    BY DEF HasData
  <2>2. line[i] = Space /\ line[i + 1] = "DATA" /\ line[i + 2] = Space
    <3>1. PICK V : line \in Seq(V)
      BY <1>16
    <3>2. DataAt(line, i)
      BY <2>1, <3>1, Three
    <3> QED
      BY <3>2 DEF DataAt
  <2>3. i + 1 \in 2..(Len(line) - 1)
    <3>1. Len(line) \in Nat
      BY <1>16
    <3> QED
      BY <3>1
  <2> QED
    BY <1>16, <2>2, <2>3, Separators DEF W
<1> QED
  BY <1>2, <1>3, <1>7, <1>9, <1>10, <1>12, <1>13, <1>14, <1>15, <1>17

\* The lines a client sends.
LEMMA LinesAre ==
  ASSUME NEW c \in DOMAIN Line
  PROVE  /\ c \in Record /\ Len(c.fields) \in 0..MAX_PARAMS
         /\ Line[c] \in Seq(Char)
         /\ Len(Line[c]) \in Nat /\ Len(Line[c]) >= 2
         /\ Line[c][1] = c.name /\ Line[c][Len(Line[c])] = NUL
         /\ \A i \in 1..(Len(Line[c]) - 1) : Line[c][i] # NUL
         /\ Layout(Starts(c), Line[c], c.fields)
<1>1. c \in Record /\ Len(c.fields) <= MAX_PARAMS /\ Line[c] = create_control_message(c)
  <2>1. /\ c \in UNION Range(Command) \/ c \in Range(Submission)
        /\ Line[c] = create_control_message(c)
    BY LineDomain
  <2>2. CASE c \in UNION Range(Command)
    <3>1. PICK t \in Thread : c \in Command[t]
      BY <2>2, SheetAssumption DEF Range
    <3> QED
      BY <2>1, <3>1, SheetAssumption DEF Record
  <2>3. CASE c \in Range(Submission)
    <3>1. PICK text \in DOMAIN Submission : c = Submission[text]
      BY <2>3 DEF Range
    <3>2. c \in Record /\ c.fields = <<RoomName, Join(Answers(text), Comma)>>
      BY <3>1, SubmissionsAre
    <3>3. \A x, y : Len(<<x, y>>) = 2
      OBVIOUS
    <3>4. Len(c.fields) = 2
      BY <3>2, <3>3
    <3>5. MAX_PARAMS \in Nat /\ 2 <= MAX_PARAMS
      <4>1. MAX_PARAMS \in Nat \ {0, 1}
        BY SheetAssumption
      <4> QED
        BY <4>1
    <3> QED
      BY <2>1, <3>2, <3>4, <3>5
  <2> QED
    BY <2>1, <2>2, <2>3
<1>2. c.name \in Name /\ c.fields \in Seq(Seq(Symbol))
  BY <1>1 DEF Record
<1>3. PICK line : line = Line[c]
  OBVIOUS
<1>4. /\ line \in Seq(Symbol \cup {c.name, Space, Bar, NUL})
      /\ Len(line) \in Nat /\ Len(line) >= 2
      /\ line[1] = c.name /\ line[Len(line)] = NUL
      /\ \A i \in 2..(Len(line) - 1) : line[i] \in Symbol \cup {Space, Bar}
      /\ \E at : Layout(at, line, c.fields)
  <2>1. line = create_control_message(c)
    BY <1>1, <1>3
  <2> QED
    BY <1>2, <2>1, MessageLaid
<1>5. Layout(Starts(c), line, c.fields)
  BY <1>3, <1>4 DEF Starts
<1>6. line \in Seq(Char)
  <2>1. Symbol \cup {c.name, Space, Bar, NUL} \subseteq Char
    BY <1>2 DEF Char
  <2> QED
    BY <1>4, <2>1, SeqMonotonic
<1>7. ASSUME NEW i \in 1..(Len(line) - 1) PROVE line[i] # NUL
  <2>1. CASE i = 1
    BY <1>2, <1>4, <2>1 DEF Name, NUL
  <2>2. CASE i # 1
    <3>1. line[i] \in Symbol \cup {Space, Bar}
      <4>1. Len(line) \in Nat
        BY <1>4
      <4>2. i \in 2..(Len(line) - 1)
        BY <4>1, <2>2
      <4> QED
        BY <1>4, <4>2
    <3> QED
      BY <3>1, Letters, Separators
  <2> QED
    BY <2>1, <2>2
<1>8. Len(c.fields) \in 0..MAX_PARAMS
  <2>1. Len(c.fields) \in Nat
    BY <1>2, LenProperties
  <2> QED
    <3>1. MAX_PARAMS \in Nat
      BY SheetAssumption
    <3> QED
      BY <2>1, <1>1, <3>1
<1> QED
  BY <1>1, <1>3, <1>4, <1>5, <1>6, <1>7, <1>8

----------------------------------------------------------------------------
(* strtok. *)

\* Of the positions from p to n, n one of S, there is a first one in S.
LEMMA FirstOf ==
  ASSUME NEW n \in Nat, NEW p \in Nat, p <= n, NEW S, n \in S
  PROVE  \E i \in p..n : i \in S /\ \A j \in p..(i - 1) : j \notin S
<1> DEFINE T == {i \in p..n : i \in S}
<1>1. T \in SUBSET Nat /\ T # {}
  OBVIOUS
<1>2. PICK i \in T : \A j \in T : i <= j
  <2> HIDE DEF T
  <2> QED
    BY <1>1, LeastNumber
<1>3. i \in p..n /\ i \in S
  BY <1>2
<1>4. ASSUME NEW j \in p..(i - 1) PROVE j \notin S
  BY <1>2, <1>3
<1> QED
  BY <1>3, <1>4

\* strtok goes over separators from p to b, and the token goes from b to e.
Skipped(s, p, D, b) == b \in p..Len(s) /\ s[b] \notin D /\ \A j \in p..(b - 1) : s[j] \in D
Ended(s, b, D, e) ==
  /\ e \in (b + 1)..Len(s) /\ s[e] \in D \cup {NUL}
  /\ \A j \in b..(e - 1) : s[j] \notin D \cup {NUL}

\* r is the result for a token from b to e of s, or for none.
ReturnsToken(r, s, b, e) ==
  /\ r.tok = SubSeq(s, b, e - 1)
  /\ r.text = [s EXCEPT ![e] = NUL]
  /\ r.pos = IF s[e] = NUL THEN e ELSE e + 1
ReturnsNull(r, s, b) == r.tok = Null /\ r.text = s /\ r.pos = b

\* What strtok returns and leaves behind.
LEMMA StrtokIs ==
  ASSUME NEW s \in Text, NEW p \in DOMAIN s, NEW D, NUL \notin D,
         NEW r, r = strtok_r(s, p, D)
  PROVE  \E b : /\ Skipped(s, p, D, b)
                /\ s[b] = NUL => ReturnsNull(r, s, b)
                /\ s[b] # NUL => \E e : Ended(s, b, D, e) /\ ReturnsToken(r, s, b, e)
<1>1. PICK n \in Nat : n = Len(s) /\ s \in Seq(Char) /\ DOMAIN s = 1..n /\ p \in 1..n /\ s[n] = NUL
  <2>1. s \in Seq(Char) /\ (s # <<>> => s[Len(s)] = NUL)
    BY DEF Text
  <2>2. Len(s) \in Nat /\ DOMAIN s = 1..Len(s)
    BY <2>1, LenProperties
  <2>3. s # <<>>
    OBVIOUS
  <2> QED
    BY <2>1, <2>2, <2>3
<1>2. PICK b : b = CHOOSE i \in p..Len(s) : s[i] \notin D /\ \A j \in p..(i - 1) : s[j] \in D
  OBVIOUS
<1>3. b \in p..n /\ s[b] \notin D /\ \A j \in p..(b - 1) : s[j] \in D
  <2> DEFINE S == {i \in 1..n : s[i] \notin D}
  <2>1. n \in S /\ p \in Nat /\ p <= n
    BY <1>1
  <2>2. PICK i \in p..n : i \in S /\ \A j \in p..(i - 1) : j \notin S
    <3> HIDE DEF S
    <3> QED
      BY <2>1, FirstOf
  <2>3. s[i] \notin D /\ \A j \in p..(i - 1) : s[j] \in D
    BY <1>1, <2>2
  <2> QED
    BY <1>1, <1>2, <2>3
<1>4. Skipped(s, p, D, b)
  BY <1>1, <1>3 DEF Skipped
<1>5. PICK e : e = FirstFrom(s, b, D \cup {NUL})
  OBVIOUS
<1>6. r = IF s[b] = NUL THEN [tok |-> Null, text |-> s, pos |-> b]
          ELSE [tok |-> SubSeq(s, b, e - 1), text |-> [s EXCEPT ![e] = NUL],
                pos |-> IF s[e] = NUL THEN e ELSE e + 1]
  BY <1>2, <1>5 DEF strtok_r
<1>7. s[b] = NUL => ReturnsNull(r, s, b)
  BY <1>6 DEF ReturnsNull
<1>8. ASSUME s[b] # NUL
      PROVE  Ended(s, b, D, e) /\ ReturnsToken(r, s, b, e)
  <2>1. b \in 1..n /\ b # n
    BY <1>1, <1>3, <1>8
  <2> DEFINE S == {i \in 1..n : s[i] \in D \cup {NUL}}
  <2>2. n \in S /\ b \in Nat /\ b <= n
    BY <1>1, <2>1
  <2>3. PICK i \in b..n : i \in S /\ \A j \in b..(i - 1) : j \notin S
    <3> HIDE DEF S
    <3> QED
      BY <2>2, FirstOf
  <2>4. s[i] \in D \cup {NUL} /\ \A j \in b..(i - 1) : s[j] \notin D \cup {NUL}
    BY <1>1, <2>1, <2>3
  <2>5. /\ e \in b..n /\ s[e] \in D \cup {NUL}
        /\ \A j \in b..(e - 1) : s[j] \notin D \cup {NUL}
    BY <1>1, <1>5, <2>4 DEF FirstFrom
  <2>6. e # b
    BY <2>5, <1>3, <1>8
  <2>7. e \in (b + 1)..n
    BY <2>1, <2>5, <2>6
  <2>8. Ended(s, b, D, e)
    BY <1>1, <2>5, <2>7 DEF Ended
  <2>9. r = [tok |-> SubSeq(s, b, e - 1), text |-> [s EXCEPT ![e] = NUL],
             pos |-> IF s[e] = NUL THEN e ELSE e + 1]
    BY <1>6, <1>8
  <2>10. PICK x, y, z : /\ x = SubSeq(s, b, e - 1) /\ y = [s EXCEPT ![e] = NUL]
                        /\ z = IF s[e] = NUL THEN e ELSE e + 1
    OBVIOUS
  <2>11. r = [tok |-> x, text |-> y, pos |-> z]
    BY <2>9, <2>10
  <2>12. r.tok = x /\ r.text = y /\ r.pos = z
    BY <2>11
  <2> QED
    BY <2>8, <2>10, <2>12 DEF ReturnsToken
<1> QED
  BY <1>4, <1>7, <1>8

\* A text and a position in it give a token, a text and a position in it.
LEMMA StrtokGives ==
  ASSUME NEW s \in Text, NEW p \in DOMAIN s, NEW D, NUL \notin D,
         NEW r, r = strtok_r(s, p, D)
  PROVE  /\ r.tok \in Seq(Char)
         /\ r.text \in Text /\ Len(r.text) = Len(s) /\ DOMAIN r.text = DOMAIN s
         /\ r.pos \in DOMAIN s /\ r.pos \in Nat
<1>1. PICK n \in Nat : n = Len(s) /\ s \in Seq(Char) /\ DOMAIN s = 1..n /\ p \in 1..n /\ s[n] = NUL
  <2>1. s \in Seq(Char) /\ (s # <<>> => s[Len(s)] = NUL)
    BY DEF Text
  <2>2. Len(s) \in Nat /\ DOMAIN s = 1..Len(s)
    BY <2>1, LenProperties
  <2>3. s # <<>>
    OBVIOUS
  <2> QED
    BY <2>1, <2>2, <2>3
<1>2. PICK b : /\ Skipped(s, p, D, b)
               /\ s[b] = NUL => ReturnsNull(r, s, b)
               /\ s[b] # NUL => \E e : Ended(s, b, D, e) /\ ReturnsToken(r, s, b, e)
  BY StrtokIs
<1>3. b \in 1..n
  BY <1>1, <1>2 DEF Skipped
<1>4. CASE s[b] = NUL
  <2>1. Null \in Seq(Char)
    BY EmptySeq DEF Null
  <2> QED
    BY <1>1, <1>2, <1>3, <1>4, <2>1 DEF ReturnsNull
<1>5. CASE s[b] # NUL
  <2>1. PICK e : /\ Ended(s, b, D, e)
                 /\ r.tok = SubSeq(s, b, e - 1)
                 /\ r.text = [s EXCEPT ![e] = NUL]
                 /\ r.pos = IF s[e] = NUL THEN e ELSE e + 1
    BY <1>2, <1>5 DEF ReturnsToken
  <2>2. e \in 1..n /\ e \in (b + 1)..n
    BY <1>1, <1>3, <2>1 DEF Ended
  <2>3. r.tok \in Seq(Char)
    <3>1. \A i \in b..(e - 1) : s[i] \in Char
      BY <1>1, <1>3, <2>2, ElementOfSeq
    <3>2. b \in Int /\ e - 1 \in Int
      BY <1>3, <2>2
    <3>3. SubSeq(s, b, e - 1) \in Seq(Char)
      BY <3>1, <3>2, SubSeqProperties
    <3> QED
      BY <2>1, <3>3
  <2>4. PICK t : t = [s EXCEPT ![e] = NUL]
    OBVIOUS
  <2>5. t \in Seq(Char) /\ Len(t) = n /\ \A j \in 1..n : t[j] = IF j = e THEN NUL ELSE s[j]
    <3>1. NUL \in Char /\ e \in 1..Len(s)
      BY <1>1, <2>2 DEF Char
    <3>2. /\ [s EXCEPT ![e] = NUL] \in Seq(Char)
          /\ Len([s EXCEPT ![e] = NUL]) = Len(s)
          /\ \A j \in 1..Len(s) : [s EXCEPT ![e] = NUL][j] = IF j = e THEN NUL ELSE s[j]
      BY <1>1, <3>1, ExceptSeq
    <3> QED
      BY <1>1, <2>4, <3>2
  <2>6. t \in Text /\ DOMAIN t = 1..n
    <3>1. DOMAIN t = 1..n
      BY <2>5, LenProperties
    <3>2. t[n] = NUL
      BY <1>1, <2>5
    <3> QED
      BY <2>5, <3>1, <3>2 DEF Text
  <2>7. r.pos \in 1..n
    <3>1. s[e] # NUL => e # n
      BY <1>1
    <3> QED
      BY <2>1, <2>2, <3>1
  <2> QED
    BY <1>1, <2>1, <2>3, <2>4, <2>5, <2>6, <2>7
<1> QED
  BY <1>4, <1>5

\* At a token of l symbols strtok returns it.
LEMMA StrtokToken ==
  ASSUME NEW s \in Text, NEW p \in DOMAIN s, NEW D, NUL \notin D,
         NEW r, r = strtok_r(s, p, D), NEW q \in DOMAIN s, p < q,
         \A j \in p..(q - 1) : s[j] \notin D \cup {NUL}, s[q] \in D \cup {NUL}
  PROVE  ReturnsToken(r, s, p, q)
<1>1. PICK n \in Nat : n = Len(s) /\ p \in 1..n /\ q \in 1..n
  <2>1. s \in Seq(Char)
    BY DEF Text
  <2> QED
    BY <2>1, LenProperties
<1>2. PICK b : /\ Skipped(s, p, D, b)
               /\ s[b] # NUL => \E e : Ended(s, b, D, e) /\ ReturnsToken(r, s, b, e)
  BY StrtokIs
<1>3. p \in p..(q - 1)
  BY <1>1
<1>4. b = p
  <2>1. b \in p..n /\ \A j \in p..(b - 1) : s[j] \in D
    BY <1>1, <1>2 DEF Skipped
  <2>2. b > p => p \in p..(b - 1)
    BY <1>1, <2>1
  <2> QED
    BY <1>1, <1>3, <2>1, <2>2
<1>5. PICK e : Ended(s, p, D, e) /\ ReturnsToken(r, s, p, e)
  BY <1>2, <1>3, <1>4
<1>6. /\ e \in (p + 1)..n /\ s[e] \in D \cup {NUL}
      /\ \A j \in p..(e - 1) : s[j] \notin D \cup {NUL}
  BY <1>1, <1>5 DEF Ended
<1>7. e = q
  <2>1. ~(e < q)
    BY <1>1, <1>6
  <2>2. ~(q < e)
    BY <1>1, <1>6
  <2> QED
    BY <1>1, <1>6, <2>1, <2>2
<1> QED
  BY <1>5, <1>7

\* At the end of the string it returns the null pointer, and stays there.
LEMMA StrtokAtEnd ==
  ASSUME NEW s \in Text, NEW p \in DOMAIN s, NEW D, NUL \notin D,
         NEW r, r = strtok_r(s, p, D), s[p] = NUL
  PROVE  ReturnsNull(r, s, p)
<1>1. PICK n \in Nat : n = Len(s) /\ p \in 1..n
  <2>1. s \in Seq(Char)
    BY DEF Text
  <2> QED
    BY <2>1, LenProperties
<1>2. PICK b : /\ Skipped(s, p, D, b)
               /\ s[b] = NUL => ReturnsNull(r, s, b)
  BY StrtokIs
<1>3. b = p
  <2>1. b \in p..n /\ \A j \in p..(b - 1) : s[j] \in D
    BY <1>1, <1>2 DEF Skipped
  <2>2. b > p => p \in p..(b - 1)
    BY <1>1, <2>1
  <2> QED
    BY <1>1, <2>1, <2>2
<1> QED
  BY <1>2, <1>3

----------------------------------------------------------------------------
(* Lines that look like data messages. *)

\* strstr finds what it looks for.
LEMMA HasDataIs ==
  ASSUME NEW W, NEW s \in Seq(W)
  PROVE  HasData(s) <=> \E i \in 1..(Len(s) - 2) : DataAt(s, i)
BY Three DEF HasData

\* In the beginning of a text it finds what is in this beginning.
LEMMA HasDataBefore ==
  ASSUME NEW W, NEW s \in Seq(W), NEW i \in 1..(Len(s) - 2)
  PROVE  HasData(SubSeq(s, 1, i + 1)) <=> \E k \in 1..(i - 1) : DataAt(s, k)
<1>1. PICK n \in Nat : n = Len(s) /\ i \in Nat /\ i + 1 <= n
  BY LenProperties
<1>2. PICK q \in Nat : q = i + 1
  BY <1>1
<1>3. PICK u : u = SubSeq(s, 1, q)
  OBVIOUS
<1>4. u \in Seq(W) /\ Len(u) = q /\ \A j \in 1..q : u[j] = s[j]
  <2>1. \A j \in 1..q : s[j] \in W
    BY <1>1, <1>2, ElementOfSeq
  <2>2. /\ u \in Seq(W) /\ Len(u) = IF 1 <= q THEN q - 1 + 1 ELSE 0
        /\ \A j \in 1..(q - 1 + 1) : u[j] = s[1 + j - 1]
    BY <1>3, <2>1, SubSeqProperties
  <2>3. q >= 1 /\ q - 1 + 1 = q /\ \A j \in 1..q : 1 + j - 1 = j
    BY <1>1, <1>2
  <2> QED
    BY <2>2, <2>3
<1>5. HasData(u) <=> \E k \in 1..(Len(u) - 2) : DataAt(u, k)
  BY <1>4, HasDataIs
<1>6. Len(u) - 2 = i - 1
  BY <1>1, <1>2, <1>4
<1>7. ASSUME NEW k \in 1..(i - 1) PROVE DataAt(u, k) <=> DataAt(s, k)
  <2>1. k \in 1..q /\ k + 1 \in 1..q /\ k + 2 \in 1..q
    BY <1>1, <1>2
  <2> QED
    BY <1>4, <2>1 DEF DataAt
<1> QED
  BY <1>2, <1>3, <1>5, <1>6, <1>7

\* The text is cut where the word is for the first time.
LEMMA CutIs ==
  ASSUME NEW c \in DOMAIN Line, HasData(Line[c]), NEW cut, cut = CutAtData(Line[c])
  PROVE  /\ cut \in Text /\ 1 \in DOMAIN cut /\ Len(cut) = Len(Line[c])
         /\ \E i \in 2..(Len(Line[c]) - 2) :
              /\ cut = [Line[c] EXCEPT ![i] = NUL]
              /\ DataAt(Line[c], i)
              /\ \A k \in 1..(i - 1) : ~DataAt(Line[c], k)
<1>0. PICK line : line = Line[c]
  OBVIOUS
<1>1. PICK n \in Nat :
        /\ line = Line[c] /\ line \in Seq(Char) /\ n = Len(line) /\ n >= 2
        /\ line[1] = c.name /\ c.name \in Name /\ line[n] = NUL
  BY <1>0, LinesAre DEF Record
<1> DEFINE S == {i \in 1..n : i <= n - 2 /\ DataAt(line, i)}
<1>2. PICK i \in S : \A k \in S : i <= k
  <2>1. \E i \in 1..(Len(line) - 2) : DataAt(line, i)
    BY <1>1, HasDataIs
  <2>2. S # {} /\ S \in SUBSET Nat
    BY <1>1, <2>1
  <2> HIDE DEF S
  <2> QED
    BY <2>2, LeastNumber
<1> DEFINE First(j) == DataAt(line, j) /\ \A k \in 1..(j - 1) : ~DataAt(line, k)
<1>3. i \in 1..(n - 2) /\ First(i)
  <2>1. ASSUME NEW k \in 1..(i - 1), DataAt(line, k) PROVE FALSE
    <3>1. k \in S /\ k < i
      BY <1>2, <2>1
    <3> HIDE DEF S
    <3> QED
      BY <1>2, <3>1
  <2> QED
    BY <1>2, <2>1
<1>4. ASSUME NEW j \in 1..(n - 2)
      PROVE  /\ SubSeq(line, j, j + 2) = <<Space, "DATA", Space>>
             /\ ~HasData(SubSeq(line, 1, j + 1))
             <=> First(j)
  <2>1. j \in 1..(Len(line) - 2)
    BY <1>1
  <2>2. SubSeq(line, j, j + 2) = <<Space, "DATA", Space>> <=> DataAt(line, j)
    BY <1>1, <2>1, Three
  <2>3. HasData(SubSeq(line, 1, j + 1)) <=> \E k \in 1..(j - 1) : DataAt(line, k)
    BY <1>1, <2>1, HasDataBefore
  <2> QED
    BY <2>2, <2>3
<1> DEFINE Found(j) == /\ SubSeq(line, j, j + 2) = <<Space, "DATA", Space>>
                       /\ ~HasData(SubSeq(line, 1, j + 1))
<1>5. PICK m : m = CHOOSE j \in 1..(Len(line) - 2) : Found(j)
  OBVIOUS
<1>6. m \in 1..(n - 2) /\ First(m)
  <2>1. \A j \in 1..(n - 2) : Found(j) <=> First(j)
    BY <1>4
  <2> HIDE DEF Found, First
  <2> QED
    BY <1>1, <1>3, <1>5, <2>1
<1>7. cut = [line EXCEPT ![m] = NUL]
  BY <1>1, <1>5 DEF CutAtData
<1>8. m # 1
  BY <1>1, <1>6, Separators DEF DataAt
<1>9. cut \in Seq(Char) /\ Len(cut) = n /\ DOMAIN cut = 1..n /\ cut[n] = NUL
  <2>1. NUL \in Char /\ m \in 1..Len(line)
    BY <1>1, <1>6 DEF Char
  <2>2. /\ [line EXCEPT ![m] = NUL] \in Seq(Char)
        /\ Len([line EXCEPT ![m] = NUL]) = Len(line)
        /\ \A j \in 1..Len(line) : [line EXCEPT ![m] = NUL][j] = IF j = m THEN NUL ELSE line[j]
    BY <1>1, <2>1, ExceptSeq
  <2>3. cut \in Seq(Char) /\ Len(cut) = n /\ cut[n] = IF n = m THEN NUL ELSE line[n]
    BY <1>1, <1>7, <2>2
  <2> QED
    BY <1>1, <2>3, LenProperties
<1>10. cut \in Text /\ 1 \in DOMAIN cut
  BY <1>1, <1>9 DEF Text
<1>11. m \in 2..(n - 2)
  BY <1>1, <1>6, <1>8
<1> QED
  BY <1>1, <1>6, <1>7, <1>9, <1>10, <1>11

\* The second token of such a line is not the word DATA: the word ended the
\* text, and there is none before it.
LEMMA SecondToken ==
  ASSUME NEW c \in DOMAIN Line, HasData(Line[c]),
         NEW r, r = strtok_r(CutAtData(Line[c]), 1, {Space}),
         NEW r2, r2 = strtok_r(r.text, r.pos, {Space})
  PROVE  r2.tok # <<"DATA">>
<1>0. PICK line : line = Line[c]
  OBVIOUS
<1>1. PICK n \in Nat :
        /\ line = Line[c] /\ line \in Seq(Char) /\ n = Len(line) /\ n >= 2
        /\ line[1] = c.name /\ c.name \in Name /\ line[n] = NUL
        /\ \A i \in 1..(n - 1) : line[i] # NUL
  BY <1>0, LinesAre DEF Record
<1>2. PICK cut \in Text, i \in 2..(n - 2) :
        /\ cut = CutAtData(line) /\ 1 \in DOMAIN cut /\ Len(cut) = n
        /\ cut = [line EXCEPT ![i] = NUL] /\ line[i] = Space
        /\ \A k \in 1..(i - 1) : ~DataAt(line, k)
  <2>1. PICK cut : cut = CutAtData(line)
    OBVIOUS
  <2>2. /\ cut \in Text /\ 1 \in DOMAIN cut /\ Len(cut) = Len(line)
        /\ \E i \in 2..(Len(line) - 2) :
              /\ cut = [line EXCEPT ![i] = NUL]
              /\ DataAt(line, i)
              /\ \A k \in 1..(i - 1) : ~DataAt(line, k)
    BY <1>0, <2>1, CutIs
  <2> QED
    BY <1>1, <2>1, <2>2 DEF DataAt
<1>3. DOMAIN cut = 1..n /\ \A j \in 1..n : cut[j] = IF j = i THEN NUL ELSE line[j]
  BY <1>1, <1>2, LenProperties
<1>4. cut[1] \notin {Space, NUL}
  BY <1>1, <1>2, <1>3, Separators
<1>5. PICK b : /\ Skipped(cut, 1, {Space}, b)
               /\ cut[b] # NUL => \E e : Ended(cut, b, {Space}, e) /\ ReturnsToken(r, cut, b, e)
  <2>1. NUL \notin {Space} /\ r = strtok_r(cut, 1, {Space}) /\ cut \in Text /\ 1 \in DOMAIN cut
    BY <1>1, <1>2, Separators
  <2> QED
    BY <2>1, StrtokIs
<1>6. b = 1
  <2>1. b \in 1..n /\ \A j \in 1..(b - 1) : cut[j] \in {Space}
    BY <1>2, <1>5 DEF Skipped
  <2>2. b > 1 => 1 \in 1..(b - 1)
    BY <2>1
  <2> QED
    BY <1>4, <2>1, <2>2
<1>7. PICK e : /\ Ended(cut, 1, {Space}, e)
               /\ r.text = [cut EXCEPT ![e] = NUL]
               /\ r.pos = IF cut[e] = NUL THEN e ELSE e + 1
  BY <1>4, <1>5, <1>6 DEF ReturnsToken
<1>8. /\ e \in 2..n /\ cut[e] \in {Space, NUL}
      /\ \A j \in 1..(e - 1) : cut[j] \notin {Space, NUL}
  BY <1>2, <1>7 DEF Ended
<1>9. PICK s : s = r.text
  OBVIOUS
<1>10. /\ s \in Text /\ DOMAIN s = 1..n /\ Len(s) = n /\ r.pos \in 1..n
       /\ \A j \in 1..n : s[j] = IF j = e THEN NUL ELSE cut[j]
  <2>1. r = strtok_r(cut, 1, {Space}) /\ NUL \notin {Space}
    BY <1>1, <1>2, Separators
  <2>2. s \in Text /\ DOMAIN s = 1..n /\ Len(s) = n /\ r.pos \in 1..n
    <3>1. cut \in Text /\ 1 \in DOMAIN cut /\ DOMAIN cut = 1..n /\ Len(cut) = n
      BY <1>2, <1>3
    <3>2. PICK p, D : p = 1 /\ D = {Space}
      OBVIOUS
    <3>2a. r = strtok_r(cut, p, D) /\ NUL \notin D /\ cut \in Text /\ p \in DOMAIN cut
      BY <2>1, <3>1, <3>2
    <3>3. /\ r.text \in Text /\ Len(r.text) = Len(cut) /\ DOMAIN r.text = DOMAIN cut
          /\ r.pos \in DOMAIN cut
      BY ONLY <3>2a, StrtokGives
    <3> QED
      BY <1>9, <3>1, <3>3
  <2> QED
    BY <1>3, <1>7, <1>8, <1>9, <2>2
<1>11. CASE cut[e] = NUL
  <2>1. r.pos = e /\ s[e] = NUL
    BY <1>7, <1>8, <1>10, <1>11
  <2>2. r2.tok = Null
    <3>1. NUL \notin {Space} /\ e \in DOMAIN s /\ r2 = strtok_r(s, e, {Space})
      BY <1>8, <1>9, <1>10, <2>1, Separators
    <3> QED
      BY <1>10, <2>1, <3>1, StrtokAtEnd DEF ReturnsNull
  <2>3. \A x : <<x>> # <<>>
    OBVIOUS
  <2> QED
    BY <2>2, <2>3 DEF Null
<1>12. CASE cut[e] # NUL
  <2>1. cut[e] = Space /\ r.pos = e + 1
    BY <1>7, <1>8, <1>12
  <2>2. e < i
    <3>1. ~(i < e)
      <4>1. i < e => i \in 1..(e - 1)
        BY <1>8, <1>2
      <4> QED
        BY <1>3, <1>2, <1>8, <4>1
    <3>2. e # i
      BY <1>2, <1>3, <1>12
    <3> QED
      BY <1>2, <1>8, <3>1, <3>2
  <2>3. PICK p \in 1..n : p = e + 1 /\ r2 = strtok_r(s, p, {Space})
    BY <1>9, <1>10, <2>1
  <2>4. PICK b2 : /\ Skipped(s, p, {Space}, b2)
                  /\ s[b2] = NUL => ReturnsNull(r2, s, b2)
                  /\ s[b2] # NUL => \E e2 : /\ Ended(s, b2, {Space}, e2)
                                            /\ ReturnsToken(r2, s, b2, e2)
    <3>1. NUL \notin {Space} /\ p \in DOMAIN s
      BY <1>10, <2>3, Separators
    <3> QED
      BY <1>10, <2>3, <3>1, StrtokIs
  <2> SUFFICES ASSUME r2.tok = <<"DATA">> PROVE FALSE
    OBVIOUS
  <2>5. s[b2] # NUL
    <3>1. \A x : <<x>> # <<>>
      OBVIOUS
    <3> QED
      BY <2>4, <3>1 DEF Null, ReturnsNull
  <2>6. PICK e2 : Ended(s, b2, {Space}, e2) /\ r2.tok = SubSeq(s, b2, e2 - 1)
    BY <2>4, <2>5 DEF ReturnsToken
  <2>7. b2 \in p..n /\ \A j \in p..(b2 - 1) : s[j] = Space
    BY <1>10, <2>4 DEF Skipped
  <2>8. e2 \in (b2 + 1)..n /\ s[e2] \in {Space, NUL}
    BY <1>10, <2>6 DEF Ended
  <2>9. e2 = b2 + 1 /\ s[b2] = "DATA"
    <3>1. PICK u : u = SubSeq(s, b2, e2 - 1)
      OBVIOUS
    <3>2. \A j \in b2..(e2 - 1) : s[j] \in Char
      <4>1. s \in Seq(Char)
        BY <1>10 DEF Text
      <4>2. \A j \in b2..(e2 - 1) : j \in 1..Len(s)
        BY <1>10, <2>7, <2>8
      <4> QED
        BY <4>1, <4>2, ElementOfSeq
    <3>3. b2 \in Int /\ e2 - 1 \in Int /\ b2 <= e2 - 1
      BY <2>7, <2>8
    <3>4. /\ Len(u) = IF b2 <= e2 - 1 THEN (e2 - 1) - b2 + 1 ELSE 0
          /\ \A j \in 1..((e2 - 1) - b2 + 1) : u[j] = s[b2 + j - 1]
      BY <3>1, <3>2, <3>3, SubSeqProperties
    <3>5. Len(u) = 1 /\ u[1] = "DATA"
      <4>1. \A x : Len(<<x>>) = 1 /\ <<x>>[1] = x
        OBVIOUS
      <4> QED
        BY <2>6, <3>1, <4>1
    <3>6. (e2 - 1) - b2 + 1 = 1
      BY <3>3, <3>4, <3>5
    <3>7. u[1] = s[b2 + 1 - 1] /\ b2 + 1 - 1 = b2
      BY <3>3, <3>4, <3>6
    <3> QED
      BY <2>7, <2>8, <3>5, <3>6, <3>7
  <2>10. b2 < i
    <3>1. ~(i < b2)
      <4>1. i < b2 => i \in p..(b2 - 1)
        <5>1. i \in Nat /\ e \in Nat /\ p = e + 1 /\ e < i /\ b2 \in Int
          BY <1>2, <1>8, <2>2, <2>3, <2>7
        <5> QED
          BY <5>1
      <4>2. s[i] = NUL
        BY <1>2, <1>3, <1>10
      <4> QED
        BY <2>7, <4>1, <4>2, Separators
    <3>2. s[i] = NUL
      BY <1>2, <1>3, <1>10
    <3> QED
      BY <1>2, <2>5, <2>7, <3>1, <3>2
  <2>11. \A j \in p..(i - 1) : s[j] = line[j] /\ j \in 1..(n - 1)
    BY <1>2, <1>3, <1>10, <2>2, <2>3, <1>8
  <2>12. line[b2] = "DATA"
    BY <2>7, <2>9, <2>10, <2>11
  <2>13. line[b2 - 1] = Space
    <3>1. CASE b2 = p
      <4>1. b2 - 1 = e /\ e \in 1..n /\ e # i
        BY <1>8, <2>2, <2>3, <2>7, <3>1
      <4> QED
        BY <1>3, <2>1, <4>1
    <3>2. CASE b2 # p
      <4>1. b2 - 1 \in p..(b2 - 1) /\ b2 - 1 \in p..(i - 1)
        BY <2>7, <2>10, <3>2, <1>2
      <4> QED
        BY <2>7, <2>11, <4>1
    <3> QED
      BY <3>1, <3>2
  <2>14. line[b2 + 1] = Space
    <3>1. CASE b2 + 1 = i
      BY <1>2, <3>1
    <3>2. CASE b2 + 1 # i
      <4>1. b2 + 1 \in p..(i - 1)
        BY <1>2, <2>3, <2>7, <2>10, <3>2
      <4> QED
        BY <1>1, <2>8, <2>9, <2>11, <4>1
    <3> QED
      BY <3>1, <3>2
  <2>15. PICK k : k = b2 - 1
    OBVIOUS
  <2>16. k \in 1..(i - 1) /\ k + 1 = b2 /\ k + 2 = b2 + 1
    BY <1>2, <1>8, <2>3, <2>7, <2>10, <2>15
  <2>17. DataAt(line, k)
    BY <2>12, <2>13, <2>14, <2>15, <2>16 DEF DataAt
  <2> QED
    BY <1>2, <2>16, <2>17
<1> QED
  BY <1>11, <1>12

----------------------------------------------------------------------------
(* Types. *)

\* Two threads that are not the same: what the one does leaves the variables of
\* the other alone, and either it has been noted that strtok was called or
\* strtok's place and the other's buffers are as they were.
LEMMA OthersKeep ==
  ASSUME TypeInv, NEW t \in Thread, NEW d \in Thread, d # t, Send(t) \/ Step(t)
  PROVE  /\ pc'[d] = pc[d] /\ sent'[d] = sent[d] /\ tok'[d] = tok[d]
         /\ params'[d] = params[d] /\ idx'[d] = idx[d] /\ score'[d] = score[d]
         /\ reply'[d] = reply[d] /\ hand'[d] = hand[d]
         /\ mixed[d] => mixed'[d]
         /\ pc[d] \in Busy /\ ~mixed'[d] => olds' = olds /\ mem'[d] = mem[d]
<1>1. /\ pc \in [Thread -> Label] /\ sent \in [Thread -> DOMAIN Line \cup {NoCommand}]
      /\ tok \in [Thread -> Seq(Char)] /\ params \in [Thread -> Seq(Seq(Char))]
      /\ idx \in [Thread -> 0..Len(Key)] /\ score \in [Thread -> Nat]
      /\ reply \in [Thread -> Reply] /\ mixed \in [Thread -> BOOLEAN]
      /\ hand \in [Thread -> Place] /\ mem \in [Thread -> [Buffer -> Text]]
  BY DEF TypeInv, LocalTypes, StrtokTypes
<1>2. ASSUME NEW c, Receive(t, c)
      PROVE  /\ pc'[d] = pc[d] /\ sent'[d] = sent[d] /\ tok'[d] = tok[d]
             /\ params'[d] = params[d] /\ idx'[d] = idx[d] /\ score'[d] = score[d]
             /\ reply'[d] = reply[d] /\ hand'[d] = hand[d]
             /\ mixed[d] => mixed'[d]
             /\ pc[d] \in Busy /\ ~mixed'[d] => olds' = olds /\ mem'[d] = mem[d]
  <2>1. pc'[d] = pc[d] /\ sent'[d] = sent[d]
    BY <1>1, <1>2 DEF Receive, Goto
  <2>2. /\ params'[d] = params[d] /\ idx'[d] = idx[d] /\ score'[d] = score[d]
        /\ reply'[d] = reply[d] /\ hand'[d] = hand[d]
    BY <1>2 DEF Receive
  <2>3. CASE \E s, p, D : StrtokFirst(t, "tmp", s, p, D)
    BY <1>1, <2>1, <2>2, <2>3 DEF StrtokFirst, Disturb
  <2>4. CASE mem' = [mem EXCEPT ![t]["tmp"] = <<>>] /\ UNCHANGED <<olds, tok, mixed>>
    BY <1>1, <2>1, <2>2, <2>4
  <2> QED
    BY <1>2, <2>3, <2>4 DEF Receive
<1>3. CASE Send(t)
  BY <1>2, <1>3 DEF Send
<1>4. CASE DataRead(t)
  BY <1>1, <1>4 DEF DataRead, StrtokRead
<1>5. CASE DataNext(t)
  BY <1>1, <1>5 DEF DataNext, StrtokWrite, Disturb, Goto
<1>6. CASE DataRefuse(t)
  BY <1>1, <1>6 DEF DataRefuse, FreeTmp, Respond, Goto, work
<1>7. CASE DataLengthRead(t)
  BY <1>1, <1>7 DEF DataLengthRead, StrtokRead
<1>8. CASE DataLengthNext(t)
  BY <1>1, <1>8 DEF DataLengthNext, StrtokWrite, Disturb, Goto
<1>9. CASE DataEnd(t)
  BY <1>1, <1>9 DEF DataEnd, FreeTmp, Respond, Goto, work
<1>10. CASE ParamsRead(t)
  BY <1>1, <1>10 DEF ParamsRead, StrtokRead
<1>11. CASE ParamsNext(t)
  BY <1>1, <1>11 DEF ParamsNext, StrtokWrite, Disturb, Goto
<1>12. CASE ParamsEnd(t)
  BY <1>1, <1>12 DEF ParamsEnd, FreeTmp, Goto
<1>13. CASE HandleOther(t)
  BY <1>1, <1>13 DEF HandleOther, Respond, Goto, work
<1>14. CASE SubmitRefuse(t)
  BY <1>1, <1>14 DEF SubmitRefuse, Respond, Goto, work
<1>15. CASE SubmitBegin(t)
  BY <1>1, <1>15 DEF SubmitBegin, StrtokFirst, Disturb, Goto
<1>16. CASE GradeRead(t)
  BY <1>1, <1>16 DEF GradeRead, StrtokRead
<1>17. CASE GradeNext(t)
  BY <1>1, <1>17 DEF GradeNext, StrtokWrite, Disturb, Goto
<1>18. CASE GradeEnd(t)
  BY <1>1, <1>18 DEF GradeEnd, Respond, Goto, work
<1>19. CASE Done(t)
  BY <1>1, <1>19 DEF Done, Goto
<1> QED
  BY <1>3, <1>4, <1>5, <1>6, <1>7, <1>8, <1>9, <1>10, <1>11, <1>12, <1>13, <1>14, <1>15,
     <1>16, <1>17, <1>18, <1>19 DEF Step

\* strtok(s, D) keeps the types.
LEMMA FirstTypes ==
  ASSUME TypeInv, NEW t \in Thread, NEW buf \in Buffer, NEW s \in Text,
         NEW p \in DOMAIN s, NEW D, NUL \notin D, StrtokFirst(t, buf, s, p, D)
  PROVE  /\ mem' \in [Thread -> [Buffer -> Text]]
         /\ tok' \in [Thread -> Seq(Char)]
         /\ olds' \in Place
         /\ mixed' \in [Thread -> BOOLEAN]
<1>1. /\ mem \in [Thread -> [Buffer -> Text]] /\ tok \in [Thread -> Seq(Char)]
  BY DEF TypeInv, LocalTypes, StrtokTypes
<1>2. PICK n : n = strtok_r(s, p, D)
  OBVIOUS
<1>3. n.tok \in Seq(Char) /\ n.text \in Text /\ n.pos \in Nat
  BY <1>2, StrtokGives
<1>4. /\ mem' = [mem EXCEPT ![t][buf] = n.text]
      /\ tok' = [tok EXCEPT ![t] = n.tok]
      /\ olds' = [own |-> t, buf |-> buf, pos |-> n.pos]
      /\ Disturb(t)
  BY <1>2 DEF StrtokFirst
<1>5. mixed' \in [Thread -> BOOLEAN]
  BY <1>4 DEF Disturb
<1> QED
  BY <1>1, <1>3, <1>4, <1>5 DEF Place

\* So does strtok(NULL, D), wherever it goes on.
LEMMA WriteTypes ==
  ASSUME TypeInv, NEW t \in Thread, NEW D, NUL \notin D, StrtokWrite(t, D)
  PROVE  /\ mem' \in [Thread -> [Buffer -> Text]]
         /\ tok' \in [Thread -> Seq(Char)]
         /\ olds' \in Place
         /\ hand' \in [Thread -> Place]
         /\ mixed' \in [Thread -> BOOLEAN]
<1>1. /\ mem \in [Thread -> [Buffer -> Text]] /\ tok \in [Thread -> Seq(Char)]
      /\ hand \in [Thread -> Place]
  BY DEF TypeInv, LocalTypes, StrtokTypes
<1>2. PICK h \in Place : h = hand[t]
  BY <1>1
<1>3. h.own \in Thread /\ h.buf \in Buffer /\ h.pos \in Nat
  BY DEF Place
<1>4. PICK s \in Text : s = mem[h.own][h.buf]
  BY <1>1, <1>3
<1>5. hand' \in [Thread -> Place]
  <2>1. NoPlace(t) \in Place
    BY DEF NoPlace, Place, Buffer
  <2> QED
    BY <1>1, <2>1 DEF StrtokWrite
<1>6. mixed' \in [Thread -> BOOLEAN]
  BY DEF StrtokWrite, Disturb
<1>7. CASE h.pos \in DOMAIN s
  <2>1. PICK n : n = strtok_r(s, h.pos, D)
    OBVIOUS
  <2>2. n.tok \in Seq(Char) /\ n.text \in Text /\ n.pos \in Nat
    BY <1>7, <2>1, StrtokGives
  <2>3. /\ mem' = [mem EXCEPT ![h.own][h.buf] = n.text]
        /\ tok' = [tok EXCEPT ![t] = n.tok]
        /\ olds' = [h EXCEPT !.pos = n.pos]
    BY <1>2, <1>4, <1>7, <2>1 DEF StrtokWrite
  <2>4. olds' \in Place
    BY <2>2, <2>3 DEF Place
  <2> QED
    BY <1>1, <1>3, <1>5, <1>6, <2>2, <2>3, <2>4
<1>8. CASE h.pos \notin DOMAIN s
  <2>1. PICK x \in {Null} \cup Leftover : tok' = [tok EXCEPT ![t] = x] /\ olds' = h /\ UNCHANGED mem
    BY <1>2, <1>4, <1>8 DEF StrtokWrite
  <2>2. x \in Seq(Char)
    <3>1. x \in Seq(Symbol)
      BY EmptySeq, SheetAssumption DEF Null
    <3> QED
      BY <3>1, Letters, SeqMonotonic
  <2> QED
    BY <1>1, <1>5, <1>6, <2>1, <2>2
<1> QED
  BY <1>7, <1>8

\* The text parse_message looks for parameters in.
LEMMA ParamsText ==
  ASSUME NEW c \in DOMAIN Line, c.fields # <<>>, NEW s, s = [Line[c] EXCEPT ![2] = NUL]
  PROVE  /\ s \in Text /\ 3 \in DOMAIN s /\ Len(s) = Len(Line[c])
         /\ \A i \in 3..Len(Line[c]) : s[i] = Line[c][i]
<1>1. PICK line : line = Line[c]
  OBVIOUS
<1>2. PICK n \in Nat :
        /\ line \in Seq(Char) /\ n = Len(line) /\ line[n] = NUL
        /\ Layout(Starts(c), line, c.fields)
  BY <1>1, LinesAre
<1>3. PICK m \in Nat \ {0} : m = Len(c.fields) /\ \A k \in 1..m : Len(c.fields[k]) \in Nat
  <2>1. c.fields \in Seq(Seq(Symbol))
    BY LinesAre DEF Record
  <2>2. Len(c.fields) \in Nat \ {0} /\ \A k \in 1..Len(c.fields) : c.fields[k] \in Seq(Symbol)
    BY <2>1, EmptySeq, ElementOfSeq
  <2> QED
    BY <2>2, LenProperties
<1>4. PICK at : at = Starts(c)
  OBVIOUS
<1>5. /\ at[1] = 3 /\ at \in [1..(m + 1) -> 1..(n + 1)]
      /\ \A k \in 1..m : at[k + 1] = at[k] + Len(c.fields[k]) + 1
  BY <1>2, <1>3, <1>4 DEF Layout
<1>6. n >= 3
  <2>1. 1 \in 1..m /\ 2 \in 1..(m + 1) /\ 1 + 1 = 2
    BY <1>3
  <2>2. at[2] = 3 + Len(c.fields[1]) + 1 /\ at[2] \in 1..(n + 1) /\ Len(c.fields[1]) \in Nat
    BY <1>3, <1>5, <2>1
  <2> QED
    BY <2>2
<1>7. /\ s \in Seq(Char) /\ Len(s) = n /\ DOMAIN s = 1..n
      /\ \A j \in 1..n : s[j] = IF j = 2 THEN NUL ELSE line[j]
  <2>1. NUL \in Char /\ 2 \in 1..Len(line)
    BY <1>2, <1>6 DEF Char
  <2>2. /\ [line EXCEPT ![2] = NUL] \in Seq(Char)
        /\ Len([line EXCEPT ![2] = NUL]) = Len(line)
        /\ \A j \in 1..Len(line) : [line EXCEPT ![2] = NUL][j] = IF j = 2 THEN NUL ELSE line[j]
    BY <1>2, <2>1, ExceptSeq
  <2>3. s = [line EXCEPT ![2] = NUL]
    BY <1>1
  <2> QED
    BY <1>2, <2>2, <2>3, LenProperties
<1>8. s[n] = NUL /\ 3 \in 1..n /\ \A i \in 3..n : s[i] = line[i]
  BY <1>2, <1>6, <1>7
<1> QED
  BY <1>1, <1>2, <1>7, <1>8 DEF Text

\* A string with its end.
LEMMA Terminated ==
  ASSUME NEW s \in Seq(Char), NEW u, u = s \o <<NUL>>
  PROVE  /\ u \in Text /\ Len(u) = Len(s) + 1 /\ DOMAIN u = 1..(Len(s) + 1) /\ 1 \in DOMAIN u
         /\ u[Len(s) + 1] = NUL /\ \A i \in 1..Len(s) : u[i] = s[i]
<1>1. PICK e : e = <<NUL>>
  OBVIOUS
<1>2. e \in Seq(Char) /\ Len(e) = 1 /\ e[1] = NUL
  <2>1. PICK x \in Char : x = NUL
    BY DEF Char
  <2>2. e = <<x>>
    BY <1>1, <2>1
  <2> QED
    BY <2>1, <2>2
<1>3. PICK n \in Nat : n = Len(s)
  BY LenProperties
<1>4. /\ u \in Seq(Char) /\ Len(u) = Len(s) + Len(e)
      /\ \A i \in 1..(Len(s) + Len(e)) : u[i] = IF i <= Len(s) THEN s[i] ELSE e[i - Len(s)]
  BY <1>1, <1>2, ConcatProperties
<1>5. /\ Len(u) = n + 1 /\ \A i \in 1..(n + 1) : u[i] = IF i <= n THEN s[i] ELSE e[i - n]
  BY <1>2, <1>3, <1>4
<1>6. u[n + 1] = NUL
  <2>1. n + 1 \in 1..(n + 1) /\ ~(n + 1 <= n) /\ (n + 1) - n = 1
    OBVIOUS
  <2> QED
    BY <1>2, <1>5, <2>1
<1>7. (\A i \in 1..n : u[i] = s[i]) /\ 1 \in 1..(n + 1)
  BY <1>5
<1>8. DOMAIN u = 1..(n + 1)
  BY <1>4, <1>5, LenProperties
<1> QED
  BY <1>3, <1>4, <1>5, <1>6, <1>7, <1>8 DEF Text

\* Each command a client sends has a line.
LEMMA Sends ==
  ASSUME NEW t \in Thread, Send(t)
  PROVE  \E c \in DOMAIN Line : Receive(t, c)
<1>1. CASE \E c \in Command[t] : Receive(t, c)
  <2>1. PICK c \in Command[t] : Receive(t, c)
    BY <1>1
  <2>2. Command[t] \in Range(Command)
    BY SheetAssumption DEF Range
  <2>3. c \in DOMAIN Line
    BY <2>2, LineDomain
  <2> QED
    BY <2>1, <2>3
<1>2. CASE \E text \in Typed[t] \cap DOMAIN Submission : Receive(t, Submission[text])
  BY <1>2, SubmissionsAre
<1> QED
  BY <1>1, <1>2 DEF Send

\* The stage of a thread that does nothing stays what it is.
LEMMA StageKept ==
  ASSUME NEW d, pc'[d] = pc[d], sent'[d] = sent[d], params'[d] = params[d],
         idx'[d] = idx[d], score'[d] = score[d], StageOK(d)
  PROVE  StageOK(d)'
BY DEF StageOK

\* A step of a thread keeps the types and its stage.
LEMMA ReceiveTypes ==
  ASSUME TypeInv, NEW t \in Thread, NEW c \in DOMAIN Line, Receive(t, c)
  PROVE  LocalTypes' /\ StrtokTypes' /\ StageOK(t)'
<1>1. /\ pc \in [Thread -> Label] /\ sent \in [Thread -> DOMAIN Line \cup {NoCommand}]
      /\ tok \in [Thread -> Seq(Char)] /\ params \in [Thread -> Seq(Seq(Char))]
      /\ idx \in [Thread -> 0..Len(Key)] /\ score \in [Thread -> Nat]
      /\ reply \in [Thread -> Reply] /\ mixed \in [Thread -> BOOLEAN]
      /\ olds \in Place /\ hand \in [Thread -> Place] /\ mem \in [Thread -> [Buffer -> Text]]
      /\ StageOK(t)
  BY DEF TypeInv, LocalTypes, StrtokTypes
<1>2. /\ pc[t] = "idle" /\ sent' = [sent EXCEPT ![t] = c]
      /\ UNCHANGED <<hand, params, idx, score, reply>>
  BY DEF Receive
<1>3. /\ params[t] = <<>> /\ idx[t] = 0 /\ score[t] = 0
      /\ Len(params[t]) <= MAX_PARAMS /\ score[t] <= idx[t]
  BY <1>1, <1>2 DEF StageOK, GradeLabel
<1>4. sent' \in [Thread -> DOMAIN Line \cup {NoCommand}] /\ sent'[t] = c
  BY <1>1, <1>2
<1>5. ASSUME NEW label \in Label, Goto(t, label),
             label \in {"data", "params", "parsed"},
             label = "data" => HasData(Line[c])
      PROVE  pc' \in [Thread -> Label] /\ StageOK(t)'
  <2>1. pc' \in [Thread -> Label] /\ pc'[t] = label
    BY <1>1, <1>5 DEF Goto
  <2> QED
    BY <1>2, <1>3, <1>4, <1>5, <2>1 DEF StageOK, GradeLabel, DataLabel
<1>6. CASE /\ HasData(Line[c])
           /\ StrtokFirst(t, "tmp", CutAtData(Line[c]), 1, {Space})
           /\ Goto(t, "data")
  <2>1. PICK s, p, D : s = CutAtData(Line[c]) /\ p = 1 /\ D = {Space}
    OBVIOUS
  <2>2. s \in Text /\ p \in DOMAIN s /\ NUL \notin D /\ "tmp" \in Buffer
    BY <1>6, <2>1, CutIs, Separators DEF Buffer
  <2>3. StrtokFirst(t, "tmp", s, p, D)
    BY <1>6, <2>1
  <2>4. /\ mem' \in [Thread -> [Buffer -> Text]] /\ tok' \in [Thread -> Seq(Char)]
        /\ olds' \in Place /\ mixed' \in [Thread -> BOOLEAN]
    BY <2>2, <2>3, FirstTypes
  <2>5. "data" \in Label
    BY DEF Label, Busy
  <2>6. pc' \in [Thread -> Label] /\ StageOK(t)'
    BY <1>5, <1>6, <2>5
  <2> QED
    BY <1>1, <1>2, <1>4, <2>4, <2>6 DEF LocalTypes, StrtokTypes
<1>7. CASE /\ ~HasData(Line[c]) /\ c.fields # <<>>
           /\ StrtokFirst(t, "tmp", [Line[c] EXCEPT ![2] = NUL], 3, {Bar})
           /\ Goto(t, "params")
  <2>1. PICK s, p, D : s = [Line[c] EXCEPT ![2] = NUL] /\ p = 3 /\ D = {Bar}
    OBVIOUS
  <2>2. s \in Text /\ p \in DOMAIN s /\ NUL \notin D /\ "tmp" \in Buffer
    BY <1>7, <2>1, ParamsText, Separators DEF Buffer
  <2>3. StrtokFirst(t, "tmp", s, p, D)
    BY <1>7, <2>1
  <2>4. /\ mem' \in [Thread -> [Buffer -> Text]] /\ tok' \in [Thread -> Seq(Char)]
        /\ olds' \in Place /\ mixed' \in [Thread -> BOOLEAN]
    BY <2>2, <2>3, FirstTypes
  <2>5. "params" \in Label
    BY DEF Label, Busy
  <2>6. pc' \in [Thread -> Label] /\ StageOK(t)'
    BY <1>5, <1>7, <2>5
  <2> QED
    BY <1>1, <1>2, <1>4, <2>4, <2>6 DEF LocalTypes, StrtokTypes
<1>8. CASE /\ mem' = [mem EXCEPT ![t]["tmp"] = <<>>]
           /\ Goto(t, "parsed")
           /\ UNCHANGED <<olds, tok, mixed>>
  <2>1. mem' \in [Thread -> [Buffer -> Text]]
    BY <1>1, <1>8, EmptySeq DEF Text
  <2>2. "parsed" \in Label
    BY DEF Label
  <2>3. pc' \in [Thread -> Label] /\ StageOK(t)'
    BY <1>5, <1>8, <2>2
  <2> QED
    BY <1>1, <1>2, <1>4, <1>8, <2>1, <2>3 DEF LocalTypes, StrtokTypes
<1> QED
  BY <1>6, <1>7, <1>8 DEF Receive

\* So does every step of the thread after the first.
LEMMA StepTypes ==
  ASSUME TypeInv, NEW t \in Thread, Step(t)
  PROVE  LocalTypes' /\ StrtokTypes' /\ StageOK(t)'
<1>1. /\ pc \in [Thread -> Label] /\ sent \in [Thread -> DOMAIN Line \cup {NoCommand}]
      /\ tok \in [Thread -> Seq(Char)] /\ params \in [Thread -> Seq(Seq(Char))]
      /\ idx \in [Thread -> 0..Len(Key)] /\ score \in [Thread -> Nat]
      /\ reply \in [Thread -> Reply] /\ mixed \in [Thread -> BOOLEAN]
      /\ olds \in Place /\ hand \in [Thread -> Place] /\ mem \in [Thread -> [Buffer -> Text]]
      /\ StageOK(t)
  BY DEF TypeInv, LocalTypes, StrtokTypes
<1>2. /\ {"idle", "data", "data_next", "data_length", "data_length_next", "data_end", "params",
          "params_next", "parsed", "grade", "grade_next", "done"} \subseteq Label
      /\ "tmp" \in Buffer /\ "copy" \in Buffer
      /\ {"none", "SYNTAX_ERROR", "INVALID_PARAMS", "ROOM_NOT_FOUND", "SUBMIT_OK", "HANDLED"}
           \subseteq Reply
      /\ <<>> \in Text
  BY EmptySeq DEF Label, Busy, Buffer, Reply, Text
<1>3. NUL \notin {Space} /\ NUL \notin {Bar} /\ NUL \notin {Comma}
  BY Separators
<1>4. MAX_PARAMS \in Nat /\ Len(Key) \in Nat /\ Len(params[t]) \in Nat
  <2>1. Key \in Seq(Letter) /\ params[t] \in Seq(Seq(Char)) /\ MAX_PARAMS \in Nat \ {0, 1}
    BY <1>1, SheetAssumption
  <2> QED
    BY <2>1, LenProperties
\* strtok(NULL, ...) reads the place.
<1>5. ASSUME NEW label \in Label, StrtokRead(t, label)
      PROVE  /\ pc' \in [Thread -> Label] /\ pc'[t] = label /\ hand' \in [Thread -> Place]
             /\ UNCHANGED <<olds, mem, sent, tok, reply, mixed>>
  BY <1>1, <1>5 DEF StrtokRead
<1>6. CASE DataRead(t)
  <2>1. StrtokRead(t, "data_next") /\ pc[t] = "data" /\ UNCHANGED <<params, idx, score>>
    BY <1>6 DEF DataRead
  <2>2. /\ pc' \in [Thread -> Label] /\ pc'[t] = "data_next" /\ hand' \in [Thread -> Place]
        /\ UNCHANGED <<olds, mem, sent, tok, reply, mixed>>
    BY <1>2, <1>5, <2>1
  <2> QED
    BY <1>1, <2>1, <2>2 DEF LocalTypes, StrtokTypes, StageOK, DataLabel, GradeLabel
<1>7. CASE DataNext(t)
  <2>1. /\ mem' \in [Thread -> [Buffer -> Text]] /\ tok' \in [Thread -> Seq(Char)]
        /\ olds' \in Place /\ hand' \in [Thread -> Place] /\ mixed' \in [Thread -> BOOLEAN]
    BY <1>3, <1>7, WriteTypes DEF DataNext
  <2>2. /\ pc[t] = "data_next" /\ pc' = [pc EXCEPT ![t] = "data_length"]
        /\ UNCHANGED <<sent, params, idx, score, reply>>
    BY <1>7 DEF DataNext, Goto
  <2>3. pc' \in [Thread -> Label] /\ pc'[t] = "data_length"
    BY <1>1, <1>2, <2>2
  <2> QED
    BY <1>1, <2>1, <2>2, <2>3 DEF LocalTypes, StrtokTypes, StageOK, DataLabel, GradeLabel
<1>8. CASE DataRefuse(t)
  <2>1. /\ mem' = [mem EXCEPT ![t]["tmp"] = <<>>] /\ pc' = [pc EXCEPT ![t] = "done"]
        /\ reply' = [reply EXCEPT ![t] = "SYNTAX_ERROR"] /\ pc[t] = "data_length"
        /\ UNCHANGED <<olds, sent, hand, tok, params, idx, score, mixed>>
    BY <1>8 DEF DataRefuse, FreeTmp, Respond, Goto, work
  <2>2. /\ mem' \in [Thread -> [Buffer -> Text]] /\ pc' \in [Thread -> Label] /\ pc'[t] = "done"
        /\ reply' \in [Thread -> Reply]
    BY <1>1, <1>2, <2>1
  <2> QED
    BY <1>1, <2>1, <2>2 DEF LocalTypes, StrtokTypes, StageOK, DataLabel, GradeLabel
<1>9. CASE DataLengthRead(t)
  <2>1. /\ StrtokRead(t, "data_length_next") /\ pc[t] = "data_length"
        /\ UNCHANGED <<params, idx, score>>
    BY <1>9 DEF DataLengthRead
  <2>2. /\ pc' \in [Thread -> Label] /\ pc'[t] = "data_length_next" /\ hand' \in [Thread -> Place]
        /\ UNCHANGED <<olds, mem, sent, tok, reply, mixed>>
    BY <1>2, <1>5, <2>1
  <2> QED
    BY <1>1, <2>1, <2>2 DEF LocalTypes, StrtokTypes, StageOK, DataLabel, GradeLabel
<1>10. CASE DataLengthNext(t)
  <2>1. /\ mem' \in [Thread -> [Buffer -> Text]] /\ tok' \in [Thread -> Seq(Char)]
        /\ olds' \in Place /\ hand' \in [Thread -> Place] /\ mixed' \in [Thread -> BOOLEAN]
    BY <1>3, <1>10, WriteTypes DEF DataLengthNext
  <2>2. /\ pc[t] = "data_length_next" /\ pc' = [pc EXCEPT ![t] = "data_end"]
        /\ UNCHANGED <<sent, params, idx, score, reply>>
    BY <1>10 DEF DataLengthNext, Goto
  <2>3. pc' \in [Thread -> Label] /\ pc'[t] = "data_end"
    BY <1>1, <1>2, <2>2
  <2> QED
    BY <1>1, <2>1, <2>2, <2>3 DEF LocalTypes, StrtokTypes, StageOK, DataLabel, GradeLabel
<1>11. CASE DataEnd(t)
  <2>1. /\ mem' = [mem EXCEPT ![t]["tmp"] = <<>>] /\ pc[t] = "data_end"
        /\ \/ reply' = [reply EXCEPT ![t] = "SYNTAX_ERROR"] /\ pc' = [pc EXCEPT ![t] = "done"]
           \/ reply' = reply /\ pc' = [pc EXCEPT ![t] = "parsed"]
        /\ UNCHANGED <<olds, sent, hand, tok, params, idx, score, mixed>>
    BY <1>11 DEF DataEnd, FreeTmp, Respond, Goto, work
  <2>2. /\ mem' \in [Thread -> [Buffer -> Text]] /\ pc' \in [Thread -> Label]
        /\ pc'[t] \in {"done", "parsed"} /\ reply' \in [Thread -> Reply]
    <3>1. mem' \in [Thread -> [Buffer -> Text]]
      BY <1>1, <1>2, <2>1
    <3>2. pc' \in [Thread -> Label] /\ pc'[t] \in {"done", "parsed"}
      BY <1>1, <1>2, <2>1
    <3>3. reply' \in [Thread -> Reply]
      BY <1>1, <1>2, <2>1
    <3> QED
      BY <3>1, <3>2, <3>3
  <2> QED
    BY <1>1, <2>1, <2>2 DEF LocalTypes, StrtokTypes, StageOK, DataLabel, GradeLabel
<1>12. CASE ParamsRead(t)
  <2>1. /\ StrtokRead(t, "params_next") /\ pc[t] = "params"
        /\ Len(params[t]) < MAX_PARAMS
        /\ params' = [params EXCEPT ![t] = Append(@, tok[t])]
        /\ UNCHANGED <<idx, score>>
    BY <1>12 DEF ParamsRead
  <2>2. /\ pc' \in [Thread -> Label] /\ pc'[t] = "params_next" /\ hand' \in [Thread -> Place]
        /\ UNCHANGED <<olds, mem, sent, tok, reply, mixed>>
    BY <1>2, <1>5, <2>1
  <2>3. PICK p : p = Append(params[t], tok[t])
    OBVIOUS
  <2>4. p \in Seq(Seq(Char)) /\ Len(p) = Len(params[t]) + 1
    BY <1>1, <2>3, AppendProperties
  <2>5. Len(p) <= MAX_PARAMS
    BY <1>4, <2>1, <2>4
  <2>6. params' \in [Thread -> Seq(Seq(Char))] /\ params'[t] = p
    BY <1>1, <2>1, <2>3, <2>4
  <2> QED
    BY <1>1, <2>1, <2>2, <2>5, <2>6 DEF LocalTypes, StrtokTypes, StageOK, DataLabel, GradeLabel
<1>13. CASE ParamsNext(t)
  <2>1. /\ mem' \in [Thread -> [Buffer -> Text]] /\ tok' \in [Thread -> Seq(Char)]
        /\ olds' \in Place /\ hand' \in [Thread -> Place] /\ mixed' \in [Thread -> BOOLEAN]
    BY <1>3, <1>13, WriteTypes DEF ParamsNext
  <2>2. /\ pc[t] = "params_next" /\ pc' = [pc EXCEPT ![t] = "params"]
        /\ UNCHANGED <<sent, params, idx, score, reply>>
    BY <1>13 DEF ParamsNext, Goto
  <2>3. pc' \in [Thread -> Label] /\ pc'[t] = "params"
    BY <1>1, <1>2, <2>2
  <2> QED
    BY <1>1, <2>1, <2>2, <2>3 DEF LocalTypes, StrtokTypes, StageOK, DataLabel, GradeLabel
<1>14. CASE ParamsEnd(t)
  <2>1. /\ mem' = [mem EXCEPT ![t]["tmp"] = <<>>] /\ pc' = [pc EXCEPT ![t] = "parsed"]
        /\ tok' = [tok EXCEPT ![t] = <<>>] /\ pc[t] = "params"
        /\ UNCHANGED <<olds, sent, hand, params, idx, score, reply, mixed>>
    BY <1>14 DEF ParamsEnd, FreeTmp, Goto, Null
  <2>2. /\ mem' \in [Thread -> [Buffer -> Text]] /\ pc' \in [Thread -> Label]
        /\ pc'[t] = "parsed" /\ tok' \in [Thread -> Seq(Char)]
    BY <1>1, <1>2, <2>1, EmptySeq
  <2> QED
    BY <1>1, <2>1, <2>2 DEF LocalTypes, StrtokTypes, StageOK, DataLabel, GradeLabel
<1>15. CASE HandleOther(t) \/ SubmitRefuse(t)
  <2>1. /\ pc' = [pc EXCEPT ![t] = "done"] /\ pc[t] = "parsed"
        /\ \E code \in Reply : reply' = [reply EXCEPT ![t] = code]
        /\ UNCHANGED <<olds, mem, sent, hand, tok, params, idx, score, mixed>>
    BY <1>2, <1>15 DEF HandleOther, SubmitRefuse, Respond, Goto, work
  <2>2. pc' \in [Thread -> Label] /\ pc'[t] = "done" /\ reply' \in [Thread -> Reply]
    BY <1>1, <1>2, <2>1
  <2> QED
    BY <1>1, <2>1, <2>2 DEF LocalTypes, StrtokTypes, StageOK, DataLabel, GradeLabel
<1>16. CASE SubmitBegin(t)
  <2>1. PICK s, p, D : s = params[t][2] \o <<NUL>> /\ p = 1 /\ D = {Comma}
    OBVIOUS
  <2>2. s \in Text /\ p \in DOMAIN s /\ NUL \notin D
    <3>1. Len(params[t]) >= 2
      BY <1>16 DEF SubmitBegin
    <3>2. params[t][2] \in Seq(Char)
      <4>1. 2 \in 1..Len(params[t]) /\ params[t] \in Seq(Seq(Char))
        BY <1>1, <1>4, <3>1
      <4> QED
        BY <4>1, ElementOfSeq
    <3> QED
      BY <1>3, <2>1, <3>2, Terminated
  <2>3. StrtokFirst(t, "copy", s, p, D)
    BY <1>16, <2>1 DEF SubmitBegin
  <2>4. /\ mem' \in [Thread -> [Buffer -> Text]] /\ tok' \in [Thread -> Seq(Char)]
        /\ olds' \in Place /\ mixed' \in [Thread -> BOOLEAN]
    BY <1>2, <2>2, <2>3, FirstTypes
  <2>5. /\ pc[t] = "parsed" /\ pc' = [pc EXCEPT ![t] = "grade"]
        /\ UNCHANGED <<sent, hand, params, idx, score, reply>>
    BY <1>16 DEF SubmitBegin, Goto
  <2>6. pc' \in [Thread -> Label] /\ pc'[t] = "grade"
    BY <1>1, <1>2, <2>5
  <2> QED
    BY <1>1, <2>4, <2>5, <2>6 DEF LocalTypes, StrtokTypes, StageOK, DataLabel, GradeLabel
<1>17. CASE GradeRead(t)
  <2>1. /\ StrtokRead(t, "grade_next") /\ pc[t] = "grade" /\ idx[t] < Len(Key)
        /\ idx' = [idx EXCEPT ![t] = @ + 1] /\ UNCHANGED params
        /\ score' = [score EXCEPT ![t] = IF Right(tok[t], idx[t]) THEN @ + 1 ELSE @]
    BY <1>17 DEF GradeRead
  <2>2. /\ pc' \in [Thread -> Label] /\ pc'[t] = "grade_next" /\ hand' \in [Thread -> Place]
        /\ UNCHANGED <<olds, mem, sent, tok, reply, mixed>>
    BY <1>2, <1>5, <2>1
  <2>3. idx[t] \in Nat /\ score[t] \in Nat /\ score[t] <= idx[t]
    BY <1>1 DEF StageOK
  <2>4. idx[t] + 1 \in 0..Len(Key)
    BY <1>4, <2>1, <2>3
  <2>5. idx' \in [Thread -> 0..Len(Key)] /\ idx'[t] = idx[t] + 1
    BY <1>1, <2>1, <2>4
  <2>6. PICK x : x = IF Right(tok[t], idx[t]) THEN score[t] + 1 ELSE score[t]
    OBVIOUS
  <2>7. x \in Nat /\ x <= idx[t] + 1
    BY <2>3, <2>6
  <2>8. score' \in [Thread -> Nat] /\ score'[t] = x
    BY <1>1, <2>1, <2>6, <2>7
  <2> QED
    BY <1>1, <2>1, <2>2, <2>5, <2>7, <2>8
       DEF LocalTypes, StrtokTypes, StageOK, DataLabel, GradeLabel
<1>18. CASE GradeNext(t)
  <2>1. /\ mem' \in [Thread -> [Buffer -> Text]] /\ tok' \in [Thread -> Seq(Char)]
        /\ olds' \in Place /\ hand' \in [Thread -> Place] /\ mixed' \in [Thread -> BOOLEAN]
    BY <1>3, <1>18, WriteTypes DEF GradeNext
  <2>2. /\ pc[t] = "grade_next" /\ pc' = [pc EXCEPT ![t] = "grade"]
        /\ UNCHANGED <<sent, params, idx, score, reply>>
    BY <1>18 DEF GradeNext, Goto
  <2>3. pc' \in [Thread -> Label] /\ pc'[t] = "grade"
    BY <1>1, <1>2, <2>2
  <2> QED
    BY <1>1, <2>1, <2>2, <2>3 DEF LocalTypes, StrtokTypes, StageOK, DataLabel, GradeLabel
<1>19. CASE GradeEnd(t)
  <2>1. /\ mem' = [mem EXCEPT ![t]["copy"] = <<>>] /\ pc' = [pc EXCEPT ![t] = "done"]
        /\ pc[t] = "grade"
        /\ \E code \in Reply : reply' = [reply EXCEPT ![t] = code]
        /\ UNCHANGED <<olds, sent, hand, tok, params, idx, score, mixed>>
    BY <1>2, <1>19 DEF GradeEnd, Respond, Goto, work
  <2>2. /\ mem' \in [Thread -> [Buffer -> Text]] /\ pc' \in [Thread -> Label] /\ pc'[t] = "done"
        /\ reply' \in [Thread -> Reply]
    BY <1>1, <1>2, <2>1
  <2> QED
    BY <1>1, <2>1, <2>2 DEF LocalTypes, StrtokTypes, StageOK, DataLabel, GradeLabel
<1>20. CASE Done(t)
  <2>1. /\ pc' = [pc EXCEPT ![t] = "idle"] /\ sent' = [sent EXCEPT ![t] = NoCommand]
        /\ hand' = [hand EXCEPT ![t] = NoPlace(t)] /\ tok' = [tok EXCEPT ![t] = <<>>]
        /\ params' = [params EXCEPT ![t] = <<>>] /\ idx' = [idx EXCEPT ![t] = 0]
        /\ score' = [score EXCEPT ![t] = 0] /\ reply' = [reply EXCEPT ![t] = "none"]
        /\ mixed' = [mixed EXCEPT ![t] = FALSE] /\ UNCHANGED <<olds, mem>>
    BY <1>20 DEF Done, Goto, Null
  <2>2. /\ pc' \in [Thread -> Label] /\ pc'[t] = "idle" /\ mixed' \in [Thread -> BOOLEAN]
        /\ reply' \in [Thread -> Reply]
    BY <1>1, <1>2, <2>1
  <2>3. /\ idx' \in [Thread -> 0..Len(Key)] /\ idx'[t] = 0
        /\ score' \in [Thread -> Nat] /\ score'[t] = 0
    BY <1>1, <1>4, <2>1
  <2>4. NoPlace(t) \in Place
    BY DEF NoPlace, Place, Buffer
  <2>5. hand' \in [Thread -> Place] /\ sent' \in [Thread -> DOMAIN Line \cup {NoCommand}]
    BY <1>1, <2>1, <2>4
  <2>6. <<>> \in Seq(Char) /\ <<>> \in Seq(Seq(Char)) /\ Len(<<>>) = 0
    BY EmptySeq
  <2>7. /\ tok' \in [Thread -> Seq(Char)] /\ params' \in [Thread -> Seq(Seq(Char))]
        /\ params'[t] = <<>>
    BY <1>1, <2>1, <2>6
  <2>8. StageOK(t)'
    BY <1>4, <2>2, <2>3, <2>6, <2>7 DEF StageOK, DataLabel, GradeLabel
  <2> QED
    BY <1>1, <2>1, <2>2, <2>3, <2>5, <2>7, <2>8 DEF LocalTypes, StrtokTypes
<1> QED
  BY <1>6, <1>7, <1>8, <1>9, <1>10, <1>11, <1>12, <1>13, <1>14, <1>15, <1>16, <1>17,
     <1>18, <1>19, <1>20 DEF Step

\* The types in the beginning.
LEMMA InitTypes ==
  ASSUME Init PROVE TypeInv
<1>1. /\ "idle" \in Label /\ "none" \in Reply /\ <<>> \in Text /\ Len(Key) \in Nat
      /\ <<>> \in Seq(Char) /\ <<>> \in Seq(Seq(Char)) /\ Len(<<>>) = 0 /\ MAX_PARAMS \in Nat
  <2>1. Key \in Seq(Letter) /\ MAX_PARAMS \in Nat \ {0, 1}
    BY SheetAssumption
  <2> QED
    BY <2>1, EmptySeq, LenProperties DEF Label, Reply, Text
<1>2. \A t \in Thread : NoPlace(t) \in Place
  BY DEF NoPlace, Place, Buffer
<1>3. LocalTypes
  BY <1>1 DEF Init, LocalTypes, Null
<1>4. StrtokTypes
  BY <1>1, <1>2 DEF Init, StrtokTypes
<1>5. ASSUME NEW t \in Thread PROVE StageOK(t)
  BY <1>1 DEF Init, StageOK, DataLabel, GradeLabel
<1> QED
  BY <1>3, <1>4, <1>5 DEF TypeInv

\* A step of one thread keeps the types: its own as above, and the stages of the
\* others because it leaves their variables alone.
LEMMA StepKeepsTypes ==
  ASSUME TypeInv, NEW t \in Thread, Send(t) \/ Step(t)
  PROVE  TypeInv'
<1>1. LocalTypes' /\ StrtokTypes' /\ StageOK(t)'
  BY Sends, ReceiveTypes, StepTypes
<1>2. ASSUME NEW d \in Thread, d # t PROVE StageOK(d)'
  <2>1. /\ pc'[d] = pc[d] /\ sent'[d] = sent[d] /\ params'[d] = params[d]
        /\ idx'[d] = idx[d] /\ score'[d] = score[d]
    BY <1>2, OthersKeep
  <2>2. StageOK(d)
    BY DEF TypeInv
  <2> QED
    BY <2>1, <2>2, StageKept
<1> QED
  BY <1>1, <1>2 DEF TypeInv

----------------------------------------------------------------------------
(* Threads that do nothing keep what they know. *)

\* ParsingOK and DataOK are about variables of the thread, and strtok's place
\* and the thread's buffers as long as nobody else calls strtok.
LEMMA ReadingKept ==
  ASSUME NEW d, pc'[d] = pc[d], sent'[d] = sent[d], tok'[d] = tok[d], params'[d] = params[d],
         hand'[d] = hand[d], mixed[d] => mixed'[d],
         pc[d] \in Busy /\ ~mixed'[d] => olds' = olds /\ mem'[d] = mem[d],
         ParsingOK(d), DataOK(d)
  PROVE  ParsingOK(d)' /\ DataOK(d)'
<1>1. ParsingOK(d)'
  <2>1. pc[d] \in ParamsLabel => pc[d] \in Busy
    BY DEF ParamsLabel, Busy
  <2> QED
    BY <2>1 DEF ParsingOK, In
<1>2. DataOK(d)'
  <2>1. pc[d] \in {"data", "data_next"} => pc[d] \in Busy
    BY DEF Busy
  <2> QED
    BY <2>1 DEF DataOK, In
<1> QED
  BY <1>1, <1>2

\* So is GradingOK, and the other two are about variables of the thread.
LEMMA ScoringKept ==
  ASSUME NEW d, pc'[d] = pc[d], sent'[d] = sent[d], tok'[d] = tok[d], params'[d] = params[d],
         idx'[d] = idx[d], score'[d] = score[d], reply'[d] = reply[d],
         hand'[d] = hand[d], mixed[d] => mixed'[d],
         pc[d] \in Busy /\ ~mixed'[d] => olds' = olds /\ mem'[d] = mem[d],
         GradingOK(d), ParsedOK(d), ScoredOK(d)
  PROVE  GradingOK(d)' /\ ParsedOK(d)' /\ ScoredOK(d)'
<1>1. GradingOK(d)'
  <2>1. pc[d] \in GradeLabel => pc[d] \in Busy
    BY DEF GradeLabel, Busy
  <2> QED
    BY <2>1 DEF GradingOK, In
<1>2. ParsedOK(d)'
  BY DEF ParsedOK
<1>3. ScoredOK(d)'
  BY DEF ScoredOK
<1> QED
  BY <1>1, <1>2, <1>3

----------------------------------------------------------------------------
(* strtok in the line and in the list of answers. *)

\* With the place at field n + 1 of the line strtok returns this field, and
\* goes to the next one or to the end.
LEMMA NextField ==
  ASSUME NEW c \in DOMAIN Line, AllPlain(c), NEW n \in 0..Len(c.fields), NEW s \in Text,
         NEW p, FieldNext(c, n, s, p), NEW r, r = strtok_r(s, p, {Bar})
  PROVE  /\ p \in DOMAIN s
         /\ r.tok = IF n < Len(c.fields) THEN c.fields[n + 1] ELSE Null
         /\ FieldNext(c, n + 1, r.text, r.pos)
<1>n. n \in Nat
  BY LinesAre
<1> SUFFICES /\ p \in DOMAIN s
             /\ r.tok = IF n < Len(c.fields) THEN c.fields[n + 1] ELSE Null
             /\ Len(r.text) = Len(Line[c])
             /\ r.pos = IF n + 1 < Len(c.fields) THEN Starts(c)[n + 2] ELSE Len(Line[c])
             /\ \A i \in r.pos..Len(Line[c]) : r.text[i] = Line[c][i]
  <2>1. n + 1 + 1 = n + 2
    BY ONLY <1>n
  <2> QED
    BY <2>1 DEF FieldNext
<1> /\ Len(s) = Len(Line[c])
    /\ p = IF n < Len(c.fields) THEN Starts(c)[n + 1] ELSE Len(Line[c])
    /\ \A i \in p..Len(Line[c]) : s[i] = Line[c][i]
  BY DEF FieldNext
<1>0. PICK line, f, at, D : line = Line[c] /\ f = c.fields /\ at = Starts(c) /\ D = {Bar}
  OBVIOUS
<1>1. PICK l \in Nat, m \in Nat :
        /\ l = Len(line) /\ l >= 2 /\ m = Len(f) /\ n \in 0..m
        /\ line[l] = NUL /\ f \in Seq(Seq(Symbol))
        /\ Layout(at, line, f)
  <2>1. c \in Record /\ Len(f) \in Nat
    BY <1>0, LinesAre
  <2> QED
    BY <1>0, <2>1, LinesAre DEF Record
<1>2. /\ at \in [1..(m + 1) -> 1..(l + 1)] /\ at[m + 1] = l + 1
      /\ \A k \in 1..m :
           /\ at[k + 1] = at[k] + Len(f[k]) + 1
           /\ line[at[k] - 1] = IF k = 1 THEN Space ELSE Bar
           /\ \A j \in 1..Len(f[k]) : line[at[k] + j - 1] = f[k][j]
  BY <1>1 DEF Layout
<1>3. DOMAIN s = 1..l /\ NUL \notin D /\ s \in Seq(Char)
  <2>1. s \in Seq(Char)
    BY DEF Text
  <2> QED
    BY <1>0, <1>1, <2>1, LenProperties, Separators
<1>4. CASE n < m
  <2>1. PICK k \in 1..m : k = n + 1
    BY <1>1, <1>4
  <2>2. PICK g : g = f[k]
    OBVIOUS
  <2>3. PICK w \in Nat :
          /\ w = Len(g) /\ w >= 1 /\ g \in Seq(Symbol) /\ DOMAIN g = 1..w
          /\ \A j \in 1..w : g[j] \in Symbol /\ g[j] # Bar
    <3>1. k \in 1..Len(f) /\ DOMAIN f = 1..Len(f)
      BY <1>1, LenProperties
    <3>2. g \in Seq(Symbol) /\ Plain(g)
      BY <1>0, <1>1, <2>2, <3>1, ElementOfSeq DEF AllPlain
    <3>3. Len(g) \in Nat /\ DOMAIN g = 1..Len(g) /\ Len(g) # 0
      BY <3>2, LenProperties, EmptySeq DEF Plain
    <3>4. \A j \in 1..Len(g) : g[j] \in Symbol /\ g[j] # Bar
      BY <3>2, <3>3, ElementOfSeq DEF Plain
    <3>5. PICK w : w = Len(g)
      OBVIOUS
    <3>6. w \in Nat /\ w >= 1
      BY <3>3, <3>5
    <3> QED
      BY <3>2, <3>3, <3>4, <3>5, <3>6
  <2>3a. w \in Nat /\ w >= 1 /\ l \in Nat
    BY <2>3
  <2>4. /\ p = at[k] /\ p \in 1..(l + 1) /\ at[k + 1] = p + w + 1
        /\ \A j \in 1..w : line[p + j - 1] = g[j]
    <3>1. p = at[k] /\ k \in 1..(m + 1)
      BY <1>0, <1>1, <1>4, <2>1
    <3>2. at[k] \in 1..(l + 1)
      BY <1>2, <3>1
    <3>3. at[k + 1] = at[k] + w + 1 /\ \A j \in 1..w : line[at[k] + j - 1] = g[j]
      BY <1>2, <2>2, <2>3
    <3> QED
      BY <3>1, <3>2, <3>3
  <2>4a. p \in Nat /\ p >= 1 /\ at[k + 1] = p + w + 1
    BY <2>4
  <2>5. PICK q \in Nat : q = p + w
    BY <2>3a, <2>4a
  <2>6. k + 1 \in 1..(m + 1) /\ at[k + 1] \in 1..(l + 1)
    BY <1>2
  <2>7. q <= l /\ p < q /\ p \in 1..l /\ q \in 1..l /\ at[k + 1] = q + 1
    BY ONLY <2>3a, <2>4a, <2>5, <2>6
  <2>8. \A i \in p..l : s[i] = line[i]
    BY <1>0, <1>1
  <2>9. \A j \in 1..w : s[p + j - 1] = g[j]
    <3>1. \A j \in 1..w : p + j - 1 \in p..l
      BY ONLY <2>3a, <2>4a, <2>5, <2>7
    <3> QED
      BY <2>4, <2>8, <3>1
  <2>10. ASSUME NEW j \in p..(q - 1) PROVE s[j] \notin D \cup {NUL} /\ s[j] \in Symbol
    <3>0. j \in p..(q - 1)
      OBVIOUS
    <3>1. PICK i \in 1..w : i = j - p + 1 /\ p + i - 1 = j
      BY ONLY <2>3a, <2>4a, <2>5, <3>0
    <3>2. s[j] = g[i]
      BY <2>9, <3>1
    <3> QED
      BY <1>0, <2>3, <3>2, SheetAssumption
  <2>11. IF k < m THEN s[q] = Bar ELSE s[q] = NUL /\ q = l
    <3>1. s[q] = line[q]
      BY <2>7, <2>8
    <3>2. CASE k < m
      <4>1. PICK k2 \in 1..m : k2 = k + 1 /\ k2 # 1
        BY <3>2
      <4>2. line[at[k2] - 1] = Bar
        BY <1>2, <4>1
      <4>3. at[k2] - 1 = q
        BY <2>7, <4>1, <2>5
      <4> QED
        BY <3>1, <3>2, <4>2, <4>3
    <3>3. CASE ~(k < m)
      <4>1. k = m
        BY <3>3
      <4>2. l + 1 = q + 1
        BY <1>2, <2>7, <4>1
      <4>3. q = l
        BY ONLY <4>2, <2>5, <1>1
      <4> QED
        BY <1>1, <3>1, <3>3, <4>3
    <3> QED
      BY <3>2, <3>3
  <2>12. s[q] \in D \cup {NUL}
    BY <1>0, <2>11
  <2>13. /\ r.tok = SubSeq(s, p, q - 1)
         /\ r.text = [s EXCEPT ![q] = NUL]
         /\ r.pos = IF s[q] = NUL THEN q ELSE q + 1
    <3>1. /\ s \in Text /\ p \in DOMAIN s /\ q \in DOMAIN s /\ p < q /\ NUL \notin D
          /\ r = strtok_r(s, p, D)
          /\ \A j \in p..(q - 1) : s[j] \notin D \cup {NUL}
      BY <1>0, <1>3, <2>7, <2>10
    <3>2. ReturnsToken(r, s, p, q)
      BY ONLY <3>1, <2>12, StrtokToken
    <3> QED
      BY <3>2 DEF ReturnsToken
  <2>14. r.tok = g
    <3>1. \A j \in p..(q - 1) : s[j] \in Symbol
      BY <2>10
    <3>2. PICK v : v = SubSeq(s, p, q - 1)
      OBVIOUS
    <3>3. PICK e \in Int : e = q - 1 /\ p <= e /\ e - p + 1 = w
      BY ONLY <2>3a, <2>4a, <2>5, <2>7
    <3>4. /\ v \in Seq(Symbol) /\ Len(v) = IF p <= e THEN e - p + 1 ELSE 0
          /\ \A j \in 1..(e - p + 1) : v[j] = s[p + j - 1]
      <4>1. v = SubSeq(s, p, e) /\ p \in Int /\ e \in Int /\ \A j \in p..e : s[j] \in Symbol
        BY <2>4a, <3>1, <3>2, <3>3
      <4> QED
        BY ONLY <4>1, SubSeqProperties
    <3>5. v \in Seq(Symbol) /\ Len(v) = w /\ \A j \in 1..w : v[j] = g[j]
      BY <2>9, <3>3, <3>4
    <3>6. v = g
      BY <2>3, <3>5, SeqEqual
    <3> QED
      BY <2>13, <3>2, <3>6
  <2>15. /\ Len(r.text) = l
         /\ \A j \in 1..l : r.text[j] = IF j = q THEN NUL ELSE s[j]
    <3>1. NUL \in Char /\ q \in 1..Len(s)
      BY <1>0, <1>1, <2>7 DEF Char
    <3>2. /\ Len([s EXCEPT ![q] = NUL]) = Len(s)
          /\ \A j \in 1..Len(s) : [s EXCEPT ![q] = NUL][j] = IF j = q THEN NUL ELSE s[j]
      BY <1>3, <3>1, ExceptSeq
    <3>3. PICK v : v = r.text
      OBVIOUS
    <3>4. v = [s EXCEPT ![q] = NUL] /\ Len(s) = l
      BY <1>0, <1>1, <2>13, <3>3
    <3>5. Len(v) = l /\ \A j \in 1..l : v[j] = IF j = q THEN NUL ELSE s[j]
      BY <3>2, <3>4
    <3> QED
      BY <3>3, <3>5
  <2>16. n + 1 = k /\ n + 2 = k + 1 /\ (n < m) /\ (n + 1 < m <=> k < m)
    BY <1>1, <1>4, <2>1
  <2>17. CASE k < m
    <3>1. s[q] # NUL
      BY <2>11, <2>17, Separators
    <3>2. r.pos = q + 1 /\ r.pos = at[k + 1]
      BY <2>7, <2>13, <3>1
    <3>3. \A i \in (q + 1)..l : r.text[i] = line[i]
      <4>1. \A i \in (q + 1)..l : i \in p..l /\ i # q /\ i \in 1..l
        BY ONLY <1>1, <2>3a, <2>4a, <2>5, <2>7
      <4> QED
        BY <2>8, <2>15, <4>1
    <3> QED
      BY <1>0, <1>1, <1>3, <2>2, <2>7, <2>14, <2>15, <2>16, <2>17, <3>2, <3>3
  <2>18. CASE ~(k < m)
    <3>1. r.pos = q /\ q = l
      BY <2>11, <2>13, <2>18
    <3>2. \A i \in q..l : r.text[i] = line[i]
      <4>1. \A i \in q..l : i = q /\ i \in 1..l
        BY <2>3a, <2>5, <2>7, <3>1
      <4>2. r.text[q] = NUL /\ line[q] = NUL
        BY <1>1, <2>7, <2>15, <3>1
      <4> QED
        BY ONLY <4>1, <4>2
    <3> QED
      BY <1>0, <1>1, <1>3, <2>2, <2>7, <2>14, <2>15, <2>16, <2>18, <3>1, <3>2
  <2> QED
    BY <2>17, <2>18
<1>5. CASE ~(n < m)
  <2>1. p = l /\ p \in 1..l
    BY <1>0, <1>1, <1>5
  <2>2. s[p] = NUL
    BY <1>0, <1>1, <2>1
  <2>3. /\ s \in Text /\ p \in DOMAIN s /\ NUL \notin D /\ r = strtok_r(s, p, D) /\ s[p] = NUL
    BY <1>0, <1>3, <2>1, <2>2
  <2>4. ReturnsNull(r, s, p)
    BY ONLY <2>3, StrtokAtEnd
  <2>5. ~(n < m) /\ ~(n + 1 < m)
    BY <1>1, <1>5
  <2>6. r.tok = Null /\ r.text = s /\ r.pos = l
    BY <2>1, <2>4 DEF ReturnsNull
  <2>7. /\ ~(n < Len(c.fields)) /\ ~(n + 1 < Len(c.fields))
        /\ Len(Line[c]) = l
    BY <1>0, <1>1, <2>5
  <2> QED
    BY <2>1, <2>3, <2>6, <2>7
<1> QED
  BY <1>4, <1>5

\* With the place at answer n + 1 of the list strtok returns this answer, and
\* goes to the next one or to the end.
LEMMA NextAnswer ==
  ASSUME NEW a \in Seq(Letter), Len(a) \in Nat \ {0}, NEW n \in 0..Len(a), NEW s \in Text,
         NEW line, line = Join(a, Comma) \o <<NUL>>,
         NEW p, AnswerNext(a, line, n, s, p),
         NEW r, r = strtok_r(s, p, {Comma})
  PROVE  /\ p \in DOMAIN s
         /\ r.tok = IF n < Len(a) THEN <<a[n + 1]>> ELSE Null
         /\ AnswerNext(a, line, n + 1, r.text, r.pos)
<1> SUFFICES /\ p \in DOMAIN s
             /\ r.tok = IF n < Len(a) THEN <<a[n + 1]>> ELSE Null
             /\ Len(r.text) = Len(line)
             /\ r.pos = IF n + 1 < Len(a) THEN 2 * (n + 1) + 1 ELSE Len(line)
             /\ \A i \in r.pos..Len(line) : r.text[i] = line[i]
  BY DEF AnswerNext
<1> /\ Len(s) = Len(line)
    /\ p = IF n < Len(a) THEN 2 * n + 1 ELSE Len(line)
    /\ \A i \in p..Len(line) : s[i] = line[i]
  BY DEF AnswerNext
<1>0. PICK join, D : join = Join(a, Comma) /\ D = {Comma}
  OBVIOUS
<1>1. PICK m \in Nat, l \in Nat : m = Len(a) /\ l = 2 * m /\ m >= 1 /\ n \in 0..m
  OBVIOUS
<1>2. /\ join \in Seq(Letter \cup {Comma}) /\ Len(join) = 2 * m - 1
      /\ \A k \in 1..m : join[2 * k - 1] = a[k]
      /\ \A k \in 1..(m - 1) : join[2 * k] = Comma
  BY <1>0, <1>1, Joined
<1>3. /\ Len(line) = l /\ line[l] = NUL
      /\ \A i \in 1..(l - 1) : line[i] = join[i]
  <2>1. Letter \cup {Comma} \subseteq Char
    BY Letters
  <2>2. join \in Seq(Char)
    BY <1>2, <2>1, SeqMonotonic
  <2>3. line = join \o <<NUL>>
    BY <1>0
  <2>4. /\ Len(line) = Len(join) + 1 /\ line[Len(join) + 1] = NUL
        /\ \A i \in 1..Len(join) : line[i] = join[i]
    BY <2>2, <2>3, Terminated
  <2>5. Len(join) + 1 = l /\ Len(join) = l - 1
    BY <1>1, <1>2
  <2> QED
    BY <2>4, <2>5
<1>4. DOMAIN s = 1..l /\ NUL \notin D /\ s \in Seq(Char)
  <2>1. s \in Seq(Char)
    BY DEF Text
  <2> QED
    BY <1>0, <1>3, <2>1, LenProperties, Separators
<1>5. \A k \in 1..m : a[k] \in Letter
  BY <1>1, ElementOfSeq
<1>6. CASE n < m
  <2>1. PICK k \in 1..m : k = n + 1
    BY <1>1, <1>6
  <2>2. PICK q \in Nat : q = 2 * k
    BY <2>1
  <2>3. p = q - 1 /\ p \in Nat
    BY <1>1, <1>6, <2>1, <2>2
  <2>4. /\ p < q /\ p \in 1..l /\ q \in 1..l /\ p <= q - 1 /\ p \in 1..(l - 1) /\ p = 2 * k - 1
        /\ k \in Nat /\ p \in p..l /\ q \in p..l
    BY ONLY <1>1, <2>1, <2>2, <2>3
  <2>5. \A i \in p..l : s[i] = line[i]
    BY <1>3
  <2>6. s[p] = a[k]
    BY <1>2, <1>3, <2>4, <2>5
  <2>7. IF k < m THEN s[q] = Comma ELSE s[q] = NUL /\ q = l
    <3>1. s[q] = line[q]
      BY <2>4, <2>5
    <3>2. CASE k < m
      <4>1. k \in 1..(m - 1) /\ q \in 1..(l - 1)
        BY ONLY <1>1, <2>2, <2>4, <3>2
      <4> QED
        BY <1>2, <1>3, <2>2, <3>1, <3>2, <4>1
    <3>3. CASE ~(k < m)
      <4>1. q = l
        BY ONLY <1>1, <2>1, <2>2, <2>4, <3>3
      <4> QED
        BY <1>3, <3>1, <3>3, <4>1
    <3> QED
      BY <3>2, <3>3
  <2>8. \A j \in p..(q - 1) : s[j] \notin D \cup {NUL} /\ s[j] \in Char
    <3>1. \A j \in p..(q - 1) : j = p
      BY ONLY <2>2, <2>3
    <3>2. s[p] \in Letter /\ s[p] \in Char
      BY <1>5, <2>6, Letters
    <3> QED
      BY <1>0, <3>1, <3>2, Separators
  <2>9. s[q] \in D \cup {NUL}
    BY <1>0, <2>7
  <2>10. /\ r.tok = SubSeq(s, p, q - 1)
         /\ r.text = [s EXCEPT ![q] = NUL]
         /\ r.pos = IF s[q] = NUL THEN q ELSE q + 1
    <3>1. /\ s \in Text /\ p \in DOMAIN s /\ q \in DOMAIN s /\ p < q /\ NUL \notin D
          /\ r = strtok_r(s, p, D)
          /\ \A j \in p..(q - 1) : s[j] \notin D \cup {NUL}
      BY <1>0, <1>4, <2>4, <2>8
    <3>2. ReturnsToken(r, s, p, q)
      BY ONLY <3>1, <2>9, StrtokToken
    <3> QED
      BY <3>2 DEF ReturnsToken
  <2>11. r.tok = <<a[k]>>
    <3>1. PICK v, x : v = SubSeq(s, p, p) /\ x = a[k]
      OBVIOUS
    <3>2. v = SubSeq(s, p, p) /\ p \in Int /\ \A j \in p..p : s[j] \in Char
      <4>1. \A j \in p..p : j \in p..(q - 1)
        BY ONLY <2>2, <2>3, <2>4
      <4>2. \A j \in p..p : s[j] \in Char
        BY ONLY <2>8, <4>1
      <4>3. p \in Int
        BY ONLY <2>3
      <4> QED
        BY <3>1, <4>2, <4>3
    <3>3. /\ v \in Seq(Char) /\ Len(v) = IF p <= p THEN p - p + 1 ELSE 0
          /\ \A j \in 1..(p - p + 1) : v[j] = s[p + j - 1]
      BY ONLY <3>2, SubSeqProperties
    <3>4. p - p + 1 = 1 /\ p + 1 - 1 = p
      BY <2>3
    <3>5. v \in Seq(Char) /\ Len(v) = 1 /\ v[1] = x
      BY <2>6, <3>1, <3>3, <3>4
    <3>6. v = <<x>>
      <4>1. x \in Char
        BY <1>5, <3>1, Letters
      <4>2. PICK y : y = <<x>>
        OBVIOUS
      <4>3. y \in Seq(Char) /\ Len(y) = 1 /\ y[1] = x
        BY <4>1, <4>2
      <4>4. \A i \in 1..1 : v[i] = y[i]
        BY <3>5, <4>3
      <4> QED
        BY <3>5, <4>2, <4>3, <4>4, SeqEqual
    <3>7. q - 1 = p
      BY <2>2, <2>3
    <3> QED
      BY <2>10, <3>1, <3>6, <3>7
  <2>12. /\ Len(r.text) = l
         /\ \A j \in 1..l : r.text[j] = IF j = q THEN NUL ELSE s[j]
    <3>1. NUL \in Char /\ q \in 1..Len(s)
      BY <1>3, <2>4 DEF Char
    <3>2. /\ Len([s EXCEPT ![q] = NUL]) = Len(s)
          /\ \A j \in 1..Len(s) : [s EXCEPT ![q] = NUL][j] = IF j = q THEN NUL ELSE s[j]
      BY <1>4, <3>1, ExceptSeq
    <3>3. PICK v : v = r.text
      OBVIOUS
    <3>4. v = [s EXCEPT ![q] = NUL] /\ Len(s) = l
      BY <1>3, <2>10, <3>3
    <3>5. Len(v) = l /\ \A j \in 1..l : v[j] = IF j = q THEN NUL ELSE s[j]
      BY <3>2, <3>4
    <3> QED
      BY <3>3, <3>5
  <2>13. n + 1 = k /\ n < m /\ 2 * (n + 1) + 1 = q + 1
    BY <1>1, <1>6, <2>1, <2>2
  <2>14. CASE k < m
    <3>1. s[q] # NUL
      BY <2>7, <2>14, Separators
    <3>2. r.pos = q + 1
      BY <2>10, <3>1
    <3>3. \A i \in (q + 1)..l : r.text[i] = line[i]
      <4>1. \A i \in (q + 1)..l : i \in p..l /\ i # q /\ i \in 1..l
        BY ONLY <1>1, <2>2, <2>3, <2>4
      <4> QED
        BY ONLY <2>5, <2>12, <4>1
    <3> QED
      BY <1>1, <1>3, <1>4, <2>4, <2>11, <2>12, <2>13, <2>14, <3>2, <3>3
  <2>15. CASE ~(k < m)
    <3>1. r.pos = q /\ q = l
      BY <2>7, <2>10, <2>15
    <3>2. \A i \in q..l : r.text[i] = line[i]
      <4>1. \A i \in q..l : i = q /\ i \in 1..l
        BY ONLY <1>1, <2>2, <2>4, <3>1
      <4> QED
        BY <1>3, <2>12, <3>1, <4>1
    <3> QED
      BY <1>1, <1>3, <1>4, <2>4, <2>11, <2>12, <2>13, <2>15, <3>1, <3>2
  <2> QED
    BY <2>14, <2>15
<1>7. CASE ~(n < m)
  <2>1. p = l /\ p \in 1..l
    BY <1>1, <1>3, <1>7
  <2>2. s[p] = NUL
    BY <1>3, <2>1
  <2>3. /\ s \in Text /\ p \in DOMAIN s /\ NUL \notin D /\ r = strtok_r(s, p, D) /\ s[p] = NUL
    BY <1>0, <1>4, <2>1, <2>2
  <2>4. ReturnsNull(r, s, p)
    BY ONLY <2>3, StrtokAtEnd
  <2>5. ~(n < m) /\ ~(n + 1 < m)
    BY <1>1, <1>7
  <2>6. r.tok = Null /\ r.text = s /\ r.pos = l
    BY <2>1, <2>4 DEF ReturnsNull
  <2>7. ~(n < Len(a)) /\ ~(n + 1 < Len(a)) /\ Len(line) = l
    BY <1>1, <1>3, <2>5
  <2> QED
    BY <2>1, <2>3, <2>6, <2>7
<1> QED
  BY <1>6, <1>7

\* What strtok(s, D) leaves, for the thread that calls it.
LEMMA FirstLeaves ==
  ASSUME TypeInv, NEW t \in Thread, NEW buf \in Buffer, NEW s, NEW p, NEW D,
         StrtokFirst(t, buf, s, p, D), NEW r, r = strtok_r(s, p, D)
  PROVE  /\ In(t, buf)' /\ olds'.pos = r.pos
         /\ mem'[t][buf] = r.text /\ tok'[t] = r.tok /\ mixed'[t] = mixed[t]
<1>1. /\ mem \in [Thread -> [Buffer -> Text]] /\ tok \in [Thread -> Seq(Char)]
      /\ mixed \in [Thread -> BOOLEAN]
  BY DEF TypeInv, LocalTypes, StrtokTypes
<1>2. /\ mem' = [mem EXCEPT ![t][buf] = r.text] /\ tok' = [tok EXCEPT ![t] = r.tok]
      /\ olds' = [own |-> t, buf |-> buf, pos |-> r.pos]
      /\ mixed' = [d \in Thread |-> mixed[d] \/ (d # t /\ pc[d] \in Busy)]
  BY DEF StrtokFirst, Disturb
<1>3. mixed'[t] = mixed[t]
  BY <1>1, <1>2
<1> QED
  BY <1>1, <1>2, <1>3 DEF In

\* What strtok(NULL, D) leaves, if the place it has read is in the thread's own
\* buffer.
LEMMA WriteLeaves ==
  ASSUME TypeInv, NEW t \in Thread, NEW buf \in Buffer, NEW D, StrtokWrite(t, D),
         hand[t] = olds, In(t, buf), olds.pos \in DOMAIN mem[t][buf],
         NEW r, r = strtok_r(mem[t][buf], olds.pos, D)
  PROVE  /\ In(t, buf)' /\ olds'.pos = r.pos
         /\ mem'[t][buf] = r.text /\ tok'[t] = r.tok /\ mixed'[t] = mixed[t]
<1>1. /\ mem \in [Thread -> [Buffer -> Text]] /\ tok \in [Thread -> Seq(Char)]
      /\ mixed \in [Thread -> BOOLEAN]
  BY DEF TypeInv, LocalTypes, StrtokTypes
<1>2. PICK h, s : h = hand[t] /\ s = mem[h.own][h.buf]
  OBVIOUS
<1>3. /\ h.own = t /\ h.buf = buf /\ h.pos = olds.pos /\ s = mem[t][buf] /\ olds.pos \in DOMAIN s
      /\ h \in Place
  BY <1>2 DEF In, TypeInv, StrtokTypes
<1>4. /\ mem' = [mem EXCEPT ![t][buf] = r.text] /\ tok' = [tok EXCEPT ![t] = r.tok]
      /\ olds' = [h EXCEPT !.pos = r.pos]
      /\ mixed' = [d \in Thread |-> mixed[d] \/ (d # t /\ pc[d] \in Busy)]
  BY <1>2, <1>3 DEF StrtokWrite, Disturb
<1>5. mixed'[t] = mixed[t]
  BY <1>1, <1>4
<1> QED
  BY <1>1, <1>2, <1>3, <1>4, <1>5 DEF In, Place

----------------------------------------------------------------------------
(* What the thread that goes on knows after its step. *)

\* Which step leads to which label.
LEMMA Leads ==
  ASSUME TypeInv, NEW t \in Thread, Step(t)
  PROVE  /\ pc'[t] # "data"
         /\ pc'[t] = "data_next" => DataRead(t)
         /\ pc'[t] = "data_length" => DataNext(t)
         /\ pc'[t] = "data_length_next" => DataLengthRead(t)
         /\ pc'[t] = "data_end" => DataLengthNext(t)
         /\ pc'[t] = "params" => ParamsNext(t)
         /\ pc'[t] = "params_next" => ParamsRead(t)
         /\ pc'[t] = "parsed" => DataEnd(t) \/ ParamsEnd(t)
         /\ pc'[t] = "grade" => SubmitBegin(t) \/ GradeNext(t)
         /\ pc'[t] = "grade_next" => GradeRead(t)
         /\ pc'[t] = "done" => \/ DataRefuse(t) \/ DataEnd(t) \/ HandleOther(t)
                               \/ SubmitRefuse(t) \/ GradeEnd(t)
<1>0. pc \in [Thread -> Label]
  BY DEF TypeInv, LocalTypes
<1>1. ASSUME NEW label, pc' = [pc EXCEPT ![t] = label] PROVE pc'[t] = label
  BY <1>0, <1>1
<1>2. DataRead(t) => pc'[t] = "data_next"
  BY <1>1 DEF DataRead, StrtokRead
<1>3. DataNext(t) => pc'[t] = "data_length"
  BY <1>1 DEF DataNext, Goto
<1>4. DataRefuse(t) => pc'[t] = "done"
  BY <1>1 DEF DataRefuse, Respond, Goto
<1>5. DataLengthRead(t) => pc'[t] = "data_length_next"
  BY <1>1 DEF DataLengthRead, StrtokRead
<1>6. DataLengthNext(t) => pc'[t] = "data_end"
  BY <1>1 DEF DataLengthNext, Goto
<1>7. DataEnd(t) => pc'[t] \in {"done", "parsed"}
  BY <1>1 DEF DataEnd, Respond, Goto
<1>8. ParamsRead(t) => pc'[t] = "params_next"
  BY <1>1 DEF ParamsRead, StrtokRead
<1>9. ParamsNext(t) => pc'[t] = "params"
  BY <1>1 DEF ParamsNext, Goto
<1>10. ParamsEnd(t) => pc'[t] = "parsed"
  BY <1>1 DEF ParamsEnd, Goto
<1>11. HandleOther(t) \/ SubmitRefuse(t) => pc'[t] = "done"
  BY <1>1 DEF HandleOther, SubmitRefuse, Respond, Goto
<1>12. SubmitBegin(t) \/ GradeNext(t) => pc'[t] = "grade"
  BY <1>1 DEF SubmitBegin, GradeNext, Goto
<1>13. GradeRead(t) => pc'[t] = "grade_next"
  BY <1>1 DEF GradeRead, StrtokRead
<1>14. GradeEnd(t) => pc'[t] = "done"
  BY <1>1 DEF GradeEnd, Respond, Goto
<1>15. Done(t) => pc'[t] = "idle"
  BY <1>1 DEF Done, Goto
<1> QED
  BY <1>2, <1>3, <1>4, <1>5, <1>6, <1>7, <1>8, <1>9, <1>10, <1>11, <1>12, <1>13, <1>14, <1>15
     DEF Step

\* When the line has come the thread knows its first field, or has nothing more
\* to do with it, or is on the way of the data messages.
LEMMA ReceiveKnows ==
  ASSUME TypeInv, NEW t \in Thread, NEW c \in DOMAIN Line, Receive(t, c)
  PROVE  ParsingOK(t)' /\ DataOK(t)' /\ GradingOK(t)' /\ ParsedOK(t)' /\ ScoredOK(t)'
<1>1. /\ pc \in [Thread -> Label] /\ sent \in [Thread -> DOMAIN Line \cup {NoCommand}]
      /\ mem \in [Thread -> [Buffer -> Text]]
      /\ params \in [Thread -> Seq(Seq(Char))] /\ params[t] = <<>>
  BY DEF TypeInv, LocalTypes, StrtokTypes, StageOK, Receive
<1>2. sent'[t] = c /\ params' = params
  BY <1>1 DEF Receive
<1>3. ASSUME NEW label, Goto(t, label) PROVE pc'[t] = label
  BY <1>1, <1>3 DEF Goto
<1>4. CASE /\ HasData(Line[c])
           /\ StrtokFirst(t, "tmp", CutAtData(Line[c]), 1, {Space})
           /\ Goto(t, "data")
  <2>1. PICK s, p, D, r : s = CutAtData(Line[c]) /\ p = 1 /\ D = {Space} /\ r = strtok_r(s, p, D)
    OBVIOUS
  <2>2. s \in Text /\ p \in DOMAIN s /\ NUL \notin D
    BY <1>4, <2>1, CutIs, Separators
  <2>3. r.pos \in DOMAIN r.text
    <3>1. DOMAIN r.text = DOMAIN s /\ r.pos \in DOMAIN s
      BY <2>1, <2>2, StrtokGives
    <3> QED
      BY <3>1
  <2>4. strtok_r(r.text, r.pos, {Space}).tok # <<"DATA">>
    BY <1>4, <2>1, SecondToken
  <2>5. In(t, "tmp")' /\ olds'.pos = r.pos /\ mem'[t]["tmp"] = r.text
    <3>1. StrtokFirst(t, "tmp", s, p, D) /\ "tmp" \in Buffer
      BY <1>4, <2>1 DEF Buffer
    <3> QED
      BY <2>1, <3>1, FirstLeaves
  <2>6. pc'[t] = "data"
    BY <1>3, <1>4
  <2>7. DataOK(t)'
    BY <2>3, <2>4, <2>5, <2>6 DEF DataOK
  <2> QED
    BY <2>6, <2>7 DEF ParsingOK, GradingOK, ParsedOK, ScoredOK, ParamsLabel, GradeLabel
<1>5. CASE /\ ~HasData(Line[c]) /\ c.fields # <<>>
           /\ StrtokFirst(t, "tmp", [Line[c] EXCEPT ![2] = NUL], 3, {Bar})
           /\ Goto(t, "params")
  <2>1. PICK s, p, D, r : s = [Line[c] EXCEPT ![2] = NUL] /\ p = 3 /\ D = {Bar}
                          /\ r = strtok_r(s, p, D)
    OBVIOUS
  <2>2. /\ s \in Text /\ Len(s) = Len(Line[c])
        /\ \A i \in p..Len(Line[c]) : s[i] = Line[c][i]
    BY <1>5, <2>1, ParamsText, Separators
  <2>3. /\ In(t, "tmp")' /\ olds'.pos = r.pos
        /\ mem'[t]["tmp"] = r.text /\ tok'[t] = r.tok
    <3>1. StrtokFirst(t, "tmp", s, p, D) /\ "tmp" \in Buffer
      BY <1>5, <2>1 DEF Buffer
    <3> QED
      BY <2>1, <3>1, FirstLeaves
  <2>4. pc'[t] = "params"
    BY <1>3, <1>5
  <2>5. PICK f, line : f = c.fields /\ line = Line[c]
    OBVIOUS
  <2>6. 0 < Len(f) /\ Len(f) \in Nat /\ Starts(c)[0 + 1] = 3
    <3>1. f \in Seq(Seq(Symbol)) /\ Len(f) \in Nat /\ Len(f) # 0
      BY <1>5, <2>5, LinesAre, LenProperties, EmptySeq DEF Record
    <3>2. Starts(c)[1] = 3
      BY LinesAre DEF Layout
    <3> QED
      BY <3>1, <3>2
  <2>7. ASSUME AllPlain(c)
        PROVE  r.tok = f[1] /\ FieldNext(c, 1, r.text, r.pos)
    <3>1. PICK n \in 0..Len(c.fields) : n = 0
      BY <2>5, <2>6
    <3>2. FieldNext(c, n, s, p)
      BY <2>1, <2>2, <2>5, <2>6, <3>1 DEF FieldNext
    <3>3. r = strtok_r(s, p, {Bar})
      BY <2>1
    <3>4. /\ r.tok = IF n < Len(c.fields) THEN c.fields[n + 1] ELSE Null
          /\ FieldNext(c, n + 1, r.text, r.pos)
      BY <2>2, <2>7, <3>2, <3>3, NextField
    <3>5. n + 1 = 1 /\ n < Len(c.fields)
      BY <2>5, <2>6, <3>1
    <3> QED
      BY <2>5, <3>4, <3>5
  <2>8. Len(params'[t]) = 0
    BY <1>1, <1>2, EmptySeq
  <2>9. ParsingOK(t)'
    BY <1>2, <2>3, <2>4, <2>5, <2>6, <2>7, <2>8 DEF ParsingOK
  <2> QED
    BY <2>4, <2>9 DEF DataOK, GradingOK, ParsedOK, ScoredOK, GradeLabel
<1>6. CASE c.fields = <<>> /\ Goto(t, "parsed")
  <2>1. pc'[t] = "parsed"
    BY <1>3, <1>6
  <2>2. ParsedOK(t)'
    BY <1>1, <1>2, <1>6 DEF ParsedOK
  <2> QED
    BY <2>1, <2>2 DEF ParsingOK, DataOK, GradingOK, ScoredOK, ParamsLabel, GradeLabel
<1> QED
  BY <1>4, <1>5, <1>6 DEF Receive

\* The loop of parse_message: one token after the other is the next field.
LEMMA ParsingKnows ==
  ASSUME TypeInv, NEW t \in Thread, Step(t), ParsingOK(t)
  PROVE  ParsingOK(t)'
<1>1. /\ sent \in [Thread -> DOMAIN Line \cup {NoCommand}] /\ tok \in [Thread -> Seq(Char)]
      /\ params \in [Thread -> Seq(Seq(Char))] /\ hand \in [Thread -> Place]
      /\ mem \in [Thread -> [Buffer -> Text]] /\ mixed \in [Thread -> BOOLEAN]
      /\ pc \in [Thread -> Label] /\ StageOK(t)
  BY DEF TypeInv, LocalTypes, StrtokTypes
<1>2. PICK f, c : f = sent[t].fields /\ c = sent[t]
  OBVIOUS
<1>3. pc[t] \in ParamsLabel => /\ c \in DOMAIN Line /\ f \in Seq(Seq(Symbol)) /\ Len(f) \in Nat
                               /\ Len(params[t]) \in Nat
  <2>1. pc[t] \in ParamsLabel => pc[t] # "idle"
    BY DEF ParamsLabel
  <2>2. pc[t] # "idle" => c \in DOMAIN Line
    BY <1>1, <1>2 DEF StageOK
  <2>3. Len(params[t]) \in Nat
    BY <1>1, LenProperties
  <2> QED
    BY <1>2, <2>1, <2>2, <2>3, LinesAre, LenProperties DEF Record
<1>4. CASE ParamsRead(t)
  <2>1. /\ pc[t] = "params" /\ tok[t] # Null
        /\ params' = [params EXCEPT ![t] = Append(@, tok[t])]
        /\ hand' = [hand EXCEPT ![t] = olds] /\ pc' = [pc EXCEPT ![t] = "params_next"]
        /\ UNCHANGED <<olds, mem, sent, tok, mixed>>
    BY <1>4 DEF ParamsRead, StrtokRead
  <2>2. pc'[t] = "params_next" /\ hand'[t] = olds' /\ pc[t] \in ParamsLabel
    BY <1>1, <2>1 DEF ParamsLabel
  <2>3. SUFFICES ASSUME ~mixed[t], AllPlain(c) PROVE ParsingOK(t)'
    BY <1>2, <2>1 DEF ParsingOK
  <2>4. PICK n \in Nat : n = Len(params[t])
    BY <1>3, <2>2
  <2>5. /\ n <= Len(f) /\ \A k \in 1..n : params[t][k] = f[k]
        /\ tok[t] = IF n + 1 <= Len(f) THEN f[n + 1] ELSE Null
        /\ In(t, "tmp") /\ FieldNext(c, n + 1, mem[t]["tmp"], olds.pos)
    BY <1>2, <2>1, <2>2, <2>3, <2>4 DEF ParsingOK
  <2>6. n + 1 <= Len(f) /\ tok[t] = f[n + 1]
    BY <2>1, <2>5
  <2>7. PICK q, p : q = params[t] /\ p = Append(q, tok[t])
    OBVIOUS
  <2>8. Len(p) = n + 1 /\ p[n + 1] = tok[t] /\ \A k \in 1..n : p[k] = params[t][k]
    <3>1. q \in Seq(Seq(Char)) /\ tok[t] \in Seq(Char)
      BY <1>1, <2>7
    <3> QED
      BY <2>4, <2>7, <3>1, AppendProperties
  <2>9. ASSUME NEW k \in 1..(n + 1) PROVE p[k] = f[k]
    <3>1. k \in 1..n \/ k = n + 1
      BY <2>4
    <3> QED
      BY <2>5, <2>6, <2>8, <3>1
  <2>10. params'[t] = p
    BY <1>1, <2>1, <2>7
  <2>11. FieldNext(sent'[t], n + 1, mem'[t]["tmp"], olds'.pos) /\ In(t, "tmp")'
    BY <1>2, <2>1, <2>5 DEF In
  <2> QED
    BY <1>2, <2>1, <2>2, <2>6, <2>8, <2>9, <2>10, <2>11 DEF ParsingOK
<1>5. CASE ParamsNext(t)
  <2>1. /\ pc[t] = "params_next" /\ StrtokWrite(t, {Bar})
        /\ pc' = [pc EXCEPT ![t] = "params"] /\ UNCHANGED <<sent, params>>
    BY <1>5 DEF ParamsNext, Goto
  <2>2. pc'[t] = "params" /\ pc[t] \in ParamsLabel
    BY <1>1, <2>1 DEF ParamsLabel
  <2>3. mixed[t] => mixed'[t]
    BY <1>1, <2>1 DEF StrtokWrite, Disturb
  <2>4. SUFFICES ASSUME ~mixed[t], AllPlain(c) PROVE ParsingOK(t)'
    BY <1>2, <2>1, <2>3 DEF ParsingOK
  <2>5. PICK n \in Nat : n = Len(params[t])
    BY <1>3, <2>2
  <2>6. /\ n <= Len(f) /\ \A k \in 1..n : params[t][k] = f[k]
        /\ hand[t] = olds /\ In(t, "tmp") /\ FieldNext(c, n, mem[t]["tmp"], olds.pos)
    BY <1>2, <2>1, <2>2, <2>4, <2>5 DEF ParsingOK
  <2>7. PICK s, p, r : s = mem[t]["tmp"] /\ p = olds.pos /\ r = strtok_r(s, p, {Bar})
    OBVIOUS
  <2>8. /\ p \in DOMAIN s
        /\ r.tok = IF n < Len(f) THEN f[n + 1] ELSE Null
        /\ FieldNext(c, n + 1, r.text, r.pos)
    <3>1. s \in Text
      BY <1>1, <2>7 DEF Buffer
    <3>2. c \in DOMAIN Line /\ n \in 0..Len(c.fields)
      BY <1>2, <1>3, <2>2, <2>6
    <3>3. FieldNext(c, n, s, p) /\ r = strtok_r(s, p, {Bar}) /\ AllPlain(c)
      BY <2>4, <2>6, <2>7
    <3>4. /\ p \in DOMAIN s
          /\ r.tok = IF n < Len(c.fields) THEN c.fields[n + 1] ELSE Null
          /\ FieldNext(c, n + 1, r.text, r.pos)
      BY ONLY <3>1, <3>2, <3>3, NextField
    <3> QED
      BY <1>2, <3>4
  <2>9. /\ In(t, "tmp")' /\ olds'.pos = r.pos
        /\ mem'[t]["tmp"] = r.text /\ tok'[t] = r.tok /\ mixed'[t] = mixed[t]
    <3>1. "tmp" \in Buffer
      BY DEF Buffer
    <3>2. PICK D, buf : D = {Bar} /\ buf = "tmp"
      OBVIOUS
    <3>3. /\ olds.pos \in DOMAIN mem[t][buf] /\ r = strtok_r(mem[t][buf], olds.pos, D)
          /\ buf \in Buffer /\ StrtokWrite(t, D) /\ hand[t] = olds /\ In(t, buf)
          /\ TypeInv /\ t \in Thread
      BY <2>1, <2>6, <2>7, <2>8, <3>1, <3>2
    <3>4. /\ In(t, buf)' /\ olds'.pos = r.pos
          /\ mem'[t][buf] = r.text /\ tok'[t] = r.tok /\ mixed'[t] = mixed[t]
      BY ONLY <3>3, WriteLeaves
    <3> QED
      BY <3>2, <3>4
  <2>10. n < Len(f) <=> n + 1 <= Len(f)
    BY <1>3, <2>2
  <2>11. /\ Len(params'[t]) = n /\ \A k \in 1..n : params'[t][k] = f[k]
         /\ tok'[t] = IF n + 1 <= Len(f) THEN f[n + 1] ELSE Null
         /\ FieldNext(sent'[t], n + 1, mem'[t]["tmp"], olds'.pos)
         /\ sent'[t].fields = f
    BY <1>2, <2>1, <2>5, <2>6, <2>8, <2>9, <2>10
  <2> QED
    BY <2>2, <2>6, <2>9, <2>11 DEF ParsingOK
<1>6. CASE pc'[t] \notin ParamsLabel
  BY <1>6 DEF ParsingOK
<1> QED
  BY <1>4, <1>5, <1>6, Leads DEF ParamsLabel

\* What parse_message has in the end is all the fields.
LEMMA ParsedKnows ==
  ASSUME TypeInv, NEW t \in Thread, Step(t), ParsingOK(t), DataOK(t)
  PROVE  ParsedOK(t)'
<1>1. /\ sent \in [Thread -> DOMAIN Line \cup {NoCommand}] /\ tok \in [Thread -> Seq(Char)]
      /\ params \in [Thread -> Seq(Seq(Char))] /\ StageOK(t)
  BY DEF TypeInv, LocalTypes
<1>2. SUFFICES ASSUME pc'[t] = "parsed", ~mixed'[t], AllPlain(sent'[t])
               PROVE  params'[t] = sent'[t].fields
  BY DEF ParsedOK
<1>3. CASE DataEnd(t)
  <2>1. pc[t] = "data_end" /\ UNCHANGED mixed
    BY <1>3 DEF DataEnd
  <2> QED
    BY <1>2, <2>1 DEF DataOK
<1>4. CASE ParamsEnd(t)
  <2>1. /\ tok[t] = Null \/ Len(params[t]) = MAX_PARAMS
        /\ UNCHANGED <<sent, params, mixed>>
    BY <1>4 DEF ParamsEnd
  <2>2. PICK f, q : f = sent[t].fields /\ q = params[t]
    OBVIOUS
  <2>3. sent[t] \in DOMAIN Line /\ sent[t] \in Record /\ f \in Seq(Seq(Symbol)) /\ Len(f) <= MAX_PARAMS
    <3>1. pc[t] = "params"
      BY <1>4 DEF ParamsEnd
    <3>2. sent[t] \in DOMAIN Line
      BY <1>1, <3>1 DEF StageOK
    <3> QED
      BY <2>2, <3>2, LinesAre, SheetAssumption DEF Record
  <2>4. PICK n \in Nat : n = Len(q)
    BY <1>1, <2>2, LenProperties
  <2>5. PICK m \in Nat : m = Len(f)
    BY <2>3, LenProperties
  <2>6. /\ n <= m /\ \A k \in 1..n : q[k] = f[k]
        /\ tok[t] = IF n + 1 <= m THEN f[n + 1] ELSE Null
    <3>1. pc[t] = "params"
      BY <1>4 DEF ParamsEnd
    <3>2. pc[t] \in ParamsLabel
      BY <3>1 DEF ParamsLabel
    <3>3. ~mixed[t] /\ AllPlain(sent[t])
      BY <1>2, <2>1
    <3> QED
      BY <2>2, <2>4, <2>5, <3>1, <3>2, <3>3 DEF ParsingOK
  <2>7. n = m
    <3>1. CASE tok[t] = Null
      <4>1. ASSUME n + 1 <= m PROVE FALSE
        <5>1. n + 1 \in DOMAIN f
          BY <2>3, <2>5, <4>1, LenProperties
        <5>2. AllPlain(sent[t])
          BY <1>2, <2>1
        <5> QED
          BY <2>2, <2>6, <3>1, <4>1, <5>1, <5>2 DEF AllPlain, Plain, Null
      <4> QED
        BY <2>4, <2>5, <2>6, <4>1
    <3>2. CASE Len(params[t]) = MAX_PARAMS
      BY <2>2, <2>3, <2>4, <2>5, <2>6, <3>2
    <3> QED
      BY <1>4, <3>1, <3>2 DEF ParamsEnd
  <2>8. q = f
    <3>1. q \in Seq(Seq(Char)) /\ f \in Seq(Seq(Char))
      <4>1. Seq(Symbol) \subseteq Seq(Char)
        BY Letters, SeqMonotonic
      <4>2. Seq(Seq(Symbol)) \subseteq Seq(Seq(Char))
        BY <4>1, SeqMonotonic
      <4> QED
        BY <1>1, <2>2, <2>3, <4>2
    <3> QED
      BY <2>4, <2>5, <2>6, <2>7, <3>1, SeqEqual
  <2> QED
    BY <2>1, <2>2, <2>8
<1> QED
  BY <1>2, <1>3, <1>4, Leads

\* The branch for data messages is refused, or goes on only because of somebody
\* else's call.
LEMMA DataKnows ==
  ASSUME TypeInv, NEW t \in Thread, Step(t), DataOK(t)
  PROVE  DataOK(t)'
<1>1. /\ tok \in [Thread -> Seq(Char)] /\ hand \in [Thread -> Place] /\ olds \in Place
      /\ mem \in [Thread -> [Buffer -> Text]] /\ mixed \in [Thread -> BOOLEAN]
      /\ pc \in [Thread -> Label]
  BY DEF TypeInv, LocalTypes, StrtokTypes
<1>2. CASE DataRead(t)
  <2>1. /\ pc[t] = "data" /\ hand' = [hand EXCEPT ![t] = olds]
        /\ pc' = [pc EXCEPT ![t] = "data_next"] /\ UNCHANGED <<olds, mem, tok, mixed>>
    BY <1>2 DEF DataRead, StrtokRead
  <2>2. pc'[t] = "data_next" /\ hand'[t] = olds'
    BY <1>1, <2>1
  <2> QED
    BY <2>1, <2>2 DEF DataOK, In
<1>3. CASE DataNext(t)
  <2>1. /\ pc[t] = "data_next" /\ StrtokWrite(t, {Space})
        /\ pc' = [pc EXCEPT ![t] = "data_length"]
    BY <1>3 DEF DataNext, Goto
  <2>2. pc'[t] = "data_length"
    BY <1>1, <2>1
  <2>3. mixed[t] => mixed'[t]
    BY <1>1, <2>1 DEF StrtokWrite, Disturb
  <2>4. ASSUME ~mixed[t] PROVE tok'[t] # <<"DATA">>
    <3>1. /\ hand[t] = olds /\ In(t, "tmp") /\ olds.pos \in DOMAIN mem[t]["tmp"]
          /\ strtok_r(mem[t]["tmp"], olds.pos, {Space}).tok # <<"DATA">>
      BY <2>1, <2>4 DEF DataOK
    <3>2. PICK r : r = strtok_r(mem[t]["tmp"], olds.pos, {Space})
      OBVIOUS
    <3>3. "tmp" \in Buffer
      BY DEF Buffer
    <3>4. tok'[t] = r.tok
      BY <2>1, <3>1, <3>2, <3>3, WriteLeaves
    <3> QED
      BY <3>1, <3>2, <3>4
  <2> QED
    BY <2>2, <2>3, <2>4 DEF DataOK
<1>4. CASE DataLengthRead(t)
  <2>1. /\ pc[t] = "data_length" /\ tok[t] = <<"DATA">> /\ UNCHANGED mixed
        /\ pc' = [pc EXCEPT ![t] = "data_length_next"]
    BY <1>4 DEF DataLengthRead, StrtokRead
  <2>2. pc'[t] = "data_length_next" /\ mixed'[t]
    BY <1>1, <2>1 DEF DataOK
  <2> QED
    BY <2>2 DEF DataOK
<1>5. CASE DataLengthNext(t)
  <2>1. /\ pc[t] = "data_length_next" /\ pc' = [pc EXCEPT ![t] = "data_end"]
        /\ StrtokWrite(t, {Space})
    BY <1>5 DEF DataLengthNext, Goto
  <2>2. pc'[t] = "data_end" /\ mixed'[t]
    BY <1>1, <2>1 DEF DataOK, StrtokWrite, Disturb
  <2> QED
    BY <2>2 DEF DataOK
<1>6. CASE pc'[t] \notin {"data", "data_next", "data_length", "data_length_next", "data_end"}
  BY <1>6 DEF DataOK
<1> QED
  BY <1>2, <1>3, <1>4, <1>5, <1>6, Leads

\* An answer of one letter is right if it is the letter of the key.
LEMMA RightIs ==
  ASSUME NEW x \in Letter, NEW n, NEW answer, answer = <<x>>
  PROVE  Right(answer, n) <=> x = Key[n + 1]
<1>1. DOMAIN answer = 1..1 /\ answer[1] = x
  OBVIOUS
<1>2. \A i \in 1..1 : i = 1 /\ 1..(i - 1) = {}
  OBVIOUS
<1>3. 1 \in 1..1
  OBVIOUS
<1> QED
  BY <1>1, <1>2, <1>3 DEF Right, db_get_correct_answers

\* One more answer is one more point or none.
LEMMA RightOnesGrow ==
  ASSUME NEW answers, NEW n \in Nat, NEW m, m = n + 1
  PROVE  /\ Cardinality(RightOnes(answers, n)) \in Nat
         /\ Cardinality(RightOnes(answers, m)) =
              IF answers[m] = Key[m] THEN Cardinality(RightOnes(answers, n)) + 1
                                     ELSE Cardinality(RightOnes(answers, n))
         /\ Cardinality(RightOnes(answers, 0)) = 0
<1>1. PICK S, T : S = RightOnes(answers, n) /\ T = RightOnes(answers, m)
  OBVIOUS
<1>2. S \subseteq 1..n /\ m \notin S
  BY <1>1 DEF RightOnes
<1>3. IsFiniteSet(S) /\ Cardinality(S) \in Nat
  <2>1. IsFiniteSet(1..n)
    BY FS_Interval
  <2> QED
    BY <1>2, <2>1, FS_Subset, FS_CardinalityType
<1>4. \A k : k \in 1..m <=> k \in 1..n \/ k = m
  OBVIOUS
<1>5. T = IF answers[m] = Key[m] THEN S \cup {m} ELSE S
  BY <1>1, <1>4 DEF RightOnes
<1>6. Cardinality(S \cup {m}) = Cardinality(S) + 1
  BY <1>2, <1>3, FS_AddElement
<1>7. RightOnes(answers, 0) = {}
  BY DEF RightOnes
<1> QED
  BY <1>1, <1>3, <1>5, <1>6, <1>7, FS_EmptySet

\* What the thread has of its answers while it compares them.
LEMMA GradingKnows ==
  ASSUME TypeInv, NEW t \in Thread, Step(t), GradingOK(t), ParsedOK(t)
  PROVE  GradingOK(t)'
<1>1. /\ tok \in [Thread -> Seq(Char)] /\ hand \in [Thread -> Place]
      /\ idx \in [Thread -> 0..Len(Key)] /\ score \in [Thread -> Nat]
      /\ mem \in [Thread -> [Buffer -> Text]] /\ mixed \in [Thread -> BOOLEAN]
      /\ pc \in [Thread -> Label] /\ StageOK(t) /\ "copy" \in Buffer
  BY DEF TypeInv, LocalTypes, StrtokTypes, Buffer
<1>2. SUFFICES ASSUME pc'[t] \in GradeLabel, ~mixed'[t], NEW text \in DOMAIN Submission,
                      sent'[t] = Submission[text],
                      NEW a, a = Answers(text), NEW line, line = Join(a, Comma) \o <<NUL>>
               PROVE  /\ idx'[t] <= Len(a)
                      /\ score'[t] = Cardinality(RightOnes(a, idx'[t]))
                      /\ pc'[t] = "grade" =>
                           /\ tok'[t] = IF idx'[t] + 1 <= Len(a) THEN <<a[idx'[t] + 1]>> ELSE Null
                           /\ AnswerNext(a, line, idx'[t] + 1, mem'[t]["copy"], olds'.pos)
                      /\ pc'[t] = "grade_next" =>
                           /\ hand'[t] = olds'
                           /\ AnswerNext(a, line, idx'[t], mem'[t]["copy"], olds'.pos)
                      /\ In(t, "copy")'
  BY DEF GradingOK, GradeLabel
<1>3. /\ a \in Seq(Letter) /\ Len(a) \in Nat \ {0}
      /\ Submission[text].fields = <<RoomName, Join(a, Comma)>> /\ AllPlain(Submission[text])
  BY <1>2, SubmissionsAre
<1>4. PICK m \in Nat : m = Len(a) /\ m >= 1
  BY <1>3
<1>5. Len(Key) \in Nat
  BY SheetAssumption, LenProperties
<1>6. CASE SubmitBegin(t)
  <2>1. /\ pc[t] = "parsed" /\ StrtokFirst(t, "copy", params[t][2] \o <<NUL>>, 1, {Comma})
        /\ pc' = [pc EXCEPT ![t] = "grade"] /\ UNCHANGED <<sent, idx, score>>
    BY <1>6 DEF SubmitBegin, Goto
  <2>2. pc'[t] = "grade" /\ idx'[t] = 0 /\ score'[t] = 0
    BY <1>1, <2>1 DEF StageOK, GradeLabel
  <2>3. PICK s, p, D, r : s = params[t][2] \o <<NUL>> /\ p = 1 /\ D = {Comma}
                          /\ r = strtok_r(s, p, D)
    OBVIOUS
  <2>4. /\ In(t, "copy")' /\ olds'.pos = r.pos
        /\ mem'[t]["copy"] = r.text /\ tok'[t] = r.tok /\ mixed'[t] = mixed[t]
    <3>1. StrtokFirst(t, "copy", s, p, D)
      BY <2>1, <2>3
    <3> QED
      BY <1>1, <2>3, <3>1, FirstLeaves
  <2>5. params[t] = Submission[text].fields
    BY <1>2, <1>3, <2>1, <2>4 DEF ParsedOK
  <2>6. s = line
    BY <1>2, <1>3, <2>3, <2>5
  <2>7. s \in Text
    <3>1. Join(a, Comma) \in Seq(Letter \cup {Comma}) /\ Letter \cup {Comma} \subseteq Char
      BY <1>3, Joined, Letters
    <3>2. Join(a, Comma) \in Seq(Char)
      BY <3>1, SeqMonotonic
    <3> QED
      BY <1>2, <2>6, <3>2, Terminated
  <2>8. PICK n \in 0..Len(a) : n = 0
    BY <1>4
  <2>9. AnswerNext(a, line, n, s, p)
    BY <1>4, <2>3, <2>6, <2>8 DEF AnswerNext
  <2>10. /\ r.tok = IF n < Len(a) THEN <<a[n + 1]>> ELSE Null
         /\ AnswerNext(a, line, n + 1, r.text, r.pos)
    <3>1. r = strtok_r(s, p, {Comma}) /\ line = Join(a, Comma) \o <<NUL>> /\ n \in 0..Len(a)
      BY <1>2, <2>3
    <3> QED
      BY ONLY <1>3, <2>7, <2>9, <3>1, NextAnswer
  <2>11. n + 1 = 1 /\ n < Len(a) /\ 0 + 1 <= Len(a) /\ 0 + 1 = 1 /\ 0 <= Len(a)
    BY <1>4, <2>8
  <2>12. Cardinality(RightOnes(a, 0)) = 0
    <3>1. PICK k, k1 \in Nat : k = 0 /\ k1 = k + 1
      OBVIOUS
    <3> QED
      BY <3>1, RightOnesGrow
  <2> QED
    BY <2>2, <2>4, <2>10, <2>11, <2>12
<1>7. CASE GradeRead(t)
  <2>1. /\ pc[t] = "grade" /\ tok[t] # Null
        /\ score' = [score EXCEPT ![t] = IF Right(tok[t], idx[t]) THEN @ + 1 ELSE @]
        /\ idx' = [idx EXCEPT ![t] = @ + 1]
        /\ hand' = [hand EXCEPT ![t] = olds] /\ pc' = [pc EXCEPT ![t] = "grade_next"]
        /\ UNCHANGED <<olds, mem, sent, tok, mixed>>
    BY <1>7 DEF GradeRead, StrtokRead
  <2>2. PICK n, k \in Nat : n = idx[t] /\ k = n + 1
    BY <1>1
  <2>3. /\ tok[t] = IF k <= Len(a) THEN <<a[k]>> ELSE Null
        /\ score[t] = Cardinality(RightOnes(a, n))
        /\ In(t, "copy") /\ AnswerNext(a, line, k, mem[t]["copy"], olds.pos)
    BY <1>2, <2>1, <2>2 DEF GradingOK, GradeLabel
  <2>4. k <= Len(a) /\ tok[t] = <<a[k]>>
    BY <2>1, <2>3
  <2>5. /\ pc'[t] = "grade_next" /\ hand'[t] = olds' /\ idx'[t] = k
        /\ score'[t] = IF Right(tok[t], n) THEN score[t] + 1 ELSE score[t]
    BY <1>1, <2>1, <2>2
  <2>6. a[k] \in Letter
    <3>1. k \in 1..Len(a)
      BY <1>4, <2>2, <2>4
    <3> QED
      BY <1>3, <3>1, ElementOfSeq
  <2>7. Right(tok[t], n) <=> a[k] = Key[k]
    <3>1. PICK x, answer : x = a[k] /\ answer = <<x>> /\ x \in Letter
      BY <2>6
    <3>2. Right(answer, n) <=> x = Key[n + 1]
      BY <3>1, RightIs
    <3> QED
      BY <2>2, <2>4, <3>1, <3>2
  <2>8. Cardinality(RightOnes(a, k)) =
          IF a[k] = Key[k] THEN Cardinality(RightOnes(a, n)) + 1
                           ELSE Cardinality(RightOnes(a, n))
    BY <2>2, RightOnesGrow
  <2>9. score'[t] = Cardinality(RightOnes(a, k))
    BY <2>3, <2>5, <2>7, <2>8
  <2>10. In(t, "copy")' /\ AnswerNext(a, line, k, mem'[t]["copy"], olds'.pos)
    BY <2>1, <2>3 DEF In
  <2> QED
    BY <2>4, <2>5, <2>9, <2>10
<1>8. CASE GradeNext(t)
  <2>1. /\ pc[t] = "grade_next" /\ StrtokWrite(t, {Comma})
        /\ pc' = [pc EXCEPT ![t] = "grade"] /\ UNCHANGED <<sent, idx, score>>
    BY <1>8 DEF GradeNext, Goto
  <2>2. pc'[t] = "grade" /\ ~mixed[t]
    BY <1>1, <1>2, <2>1 DEF StrtokWrite, Disturb
  <2>3. PICK n \in Nat : n = idx[t]
    BY <1>1
  <2>4. /\ n <= Len(a) /\ score[t] = Cardinality(RightOnes(a, n)) /\ hand[t] = olds
        /\ In(t, "copy") /\ AnswerNext(a, line, n, mem[t]["copy"], olds.pos)
    BY <1>2, <2>1, <2>2, <2>3 DEF GradingOK, GradeLabel
  <2>5. PICK s, p, D, r, buf : s = mem[t][buf] /\ p = olds.pos /\ D = {Comma}
                               /\ r = strtok_r(s, p, D) /\ buf = "copy"
    <3>1. PICK buf : buf = "copy"
      OBVIOUS
    <3> QED
      BY <3>1
  <2>6. /\ p \in DOMAIN s
        /\ r.tok = IF n < Len(a) THEN <<a[n + 1]>> ELSE Null
        /\ AnswerNext(a, line, n + 1, r.text, r.pos)
    <3>1. /\ s \in Text /\ n \in 0..Len(a) /\ AnswerNext(a, line, n, s, p)
          /\ r = strtok_r(s, p, {Comma}) /\ line = Join(a, Comma) \o <<NUL>>
      BY <1>1, <1>2, <1>4, <2>4, <2>5
    <3> QED
      BY ONLY <1>3, <3>1, NextAnswer
  <2>7. /\ In(t, buf)' /\ olds'.pos = r.pos
        /\ mem'[t][buf] = r.text /\ tok'[t] = r.tok /\ mixed'[t] = mixed[t]
    <3>1. /\ olds.pos \in DOMAIN mem[t][buf] /\ r = strtok_r(mem[t][buf], olds.pos, D)
          /\ buf \in Buffer /\ StrtokWrite(t, D) /\ hand[t] = olds /\ In(t, buf)
          /\ TypeInv /\ t \in Thread
      BY <1>1, <2>1, <2>4, <2>5, <2>6
    <3> QED
      BY ONLY <3>1, WriteLeaves
  <2>8. n < Len(a) <=> n + 1 <= Len(a)
    BY <1>4, <2>3
  <2>9. idx'[t] = n /\ score'[t] = score[t]
    BY <2>1, <2>3
  <2> QED
    BY <2>2, <2>4, <2>5, <2>6, <2>7, <2>8, <2>9
<1> QED
  BY <1>2, <1>6, <1>7, <1>8, Leads DEF GradeLabel

\* The answer to SUBMIT_EXAM.
LEMMA ScoredKnows ==
  ASSUME TypeInv, NEW t \in Thread, Step(t), GradingOK(t), ParsedOK(t)
  PROVE  ScoredOK(t)'
<1>1. /\ idx \in [Thread -> 0..Len(Key)] /\ reply \in [Thread -> Reply]
      /\ pc \in [Thread -> Label] /\ StageOK(t)
  BY DEF TypeInv, LocalTypes
<1>2. SUFFICES ASSUME pc'[t] = "done", ~mixed'[t], NEW text \in DOMAIN Submission,
                      sent'[t] = Submission[text], NEW a, a = Answers(text)
               PROVE  IF Len(a) < Len(Key)
                        THEN reply'[t] = "INVALID_PARAMS"
                        ELSE /\ reply'[t] = "SUBMIT_OK"
                             /\ score'[t] = Cardinality({n \in DOMAIN Key : a[n] = Key[n]})
  BY DEF ScoredOK
<1>3. /\ a \in Seq(Letter) /\ Len(a) \in Nat \ {0} /\ Submission[text].name = "SUBMIT_EXAM"
      /\ Submission[text].fields = <<RoomName, Join(a, Comma)>> /\ AllPlain(Submission[text])
      /\ ~HasData(Line[Submission[text]])
  BY <1>2, SubmissionsAre
<1>4. CASE DataRefuse(t) \/ DataEnd(t)
  <2>1. pc[t] \in DataLabel /\ UNCHANGED sent
    BY <1>4 DEF DataRefuse, DataEnd, DataLabel
  <2>2. HasData(Line[sent[t]])
    BY <1>1, <2>1 DEF StageOK
  <2> QED
    BY <1>2, <1>3, <2>1, <2>2
<1>5. CASE HandleOther(t)
  <2>1. sent[t].name \in DOMAIN Wanted /\ UNCHANGED sent
    BY <1>5 DEF HandleOther
  <2> QED
    BY <1>2, <1>3, <2>1 DEF Wanted
<1>6. CASE SubmitRefuse(t)
  <2>1. pc[t] = "parsed" /\ UNCHANGED <<sent, mixed>> /\ (Len(params[t]) < 2 \/ params[t][1] # RoomName)
    BY <1>6 DEF SubmitRefuse
  <2>2. params[t] = <<RoomName, Join(a, Comma)>>
    BY <1>2, <1>3, <2>1 DEF ParsedOK
  <2>3. Len(params[t]) = 2 /\ params[t][1] = RoomName
    BY <2>2
  <2> QED
    BY <2>1, <2>3
<1>7. CASE GradeEnd(t)
  <2>1. /\ pc[t] = "grade" /\ UNCHANGED <<sent, score, mixed>>
        /\ IF idx[t] = Len(Key) THEN reply'[t] = "SUBMIT_OK" ELSE reply'[t] = "INVALID_PARAMS"
    BY <1>1, <1>7 DEF GradeEnd, Respond, work
  <2>2. PICK n, k \in Nat : n = idx[t] /\ k = n + 1
    BY <1>1
  <2>3. /\ n <= Len(a) /\ score[t] = Cardinality(RightOnes(a, n))
        /\ tok[t] = IF k <= Len(a) THEN <<a[k]>> ELSE Null
    BY <1>2, <2>1, <2>2 DEF GradingOK, GradeLabel
  <2>4. PICK m \in Nat, l \in Nat : m = Len(a) /\ l = Len(Key) /\ DOMAIN Key = 1..l
    BY <1>3, SheetAssumption, LenProperties
  <2>5. n <= l
    BY <1>1, <2>2, <2>4
  <2>6. n = l \/ n = m
    <3>1. CASE tok[t] = Null
      <4>1. \A x : <<x>> # <<>>
        OBVIOUS
      <4>2. ~(k <= m)
        BY <2>3, <2>4, <3>1, <4>1 DEF Null
      <4> QED
        BY <2>2, <2>3, <2>4, <4>2
    <3>2. CASE idx[t] = Len(Key)
      BY <2>2, <2>4, <3>2
    <3> QED
      BY <1>7, <3>1, <3>2 DEF GradeEnd
  <2>7. CASE m < l
    <3>1. n # l
      BY <2>3, <2>4, <2>7
    <3> QED
      BY <2>1, <2>2, <2>4, <2>7, <3>1
  <2>8. CASE ~(m < l)
    <3>1. n = l
      BY <2>4, <2>5, <2>6, <2>8
    <3>2. RightOnes(a, n) = {i \in DOMAIN Key : a[i] = Key[i]}
      BY <2>4, <3>1 DEF RightOnes
    <3> QED
      BY <2>1, <2>2, <2>3, <2>4, <2>8, <3>1, <3>2
  <2> QED
    BY <2>7, <2>8
<1> QED
  BY <1>2, <1>4, <1>5, <1>6, <1>7, Leads

----------------------------------------------------------------------------
(* The theorems. *)

\* In the beginning nobody has sent anything.
LEMMA InitSheets ==
  ASSUME Init PROVE SheetInv
<1>1. TypeInv
  BY InitTypes
<1>2. ASSUME NEW t \in Thread
      PROVE  ParsingOK(t) /\ DataOK(t) /\ GradingOK(t) /\ ParsedOK(t) /\ ScoredOK(t)
  <2>1. pc[t] = "idle"
    BY DEF Init
  <2> QED
    BY <2>1 DEF ParsingOK, DataOK, GradingOK, ParsedOK, ScoredOK, ParamsLabel, GradeLabel
<1> QED
  BY <1>1, <1>2 DEF SheetInv

\* A step of one thread keeps what each thread knows.
LEMMA StepKeepsSheets ==
  ASSUME SheetInv, NEW t \in Thread, Send(t) \/ Step(t)
  PROVE  SheetInv'
<1>1. /\ TypeInv
      /\ \A d \in Thread : ParsingOK(d) /\ DataOK(d) /\ GradingOK(d) /\ ParsedOK(d) /\ ScoredOK(d)
  BY DEF SheetInv
<1>2. TypeInv'
  BY <1>1, StepKeepsTypes
<1>3. ParsingOK(t)' /\ DataOK(t)' /\ GradingOK(t)' /\ ParsedOK(t)' /\ ScoredOK(t)'
  <2>1. CASE Send(t)
    BY <1>1, <2>1, Sends, ReceiveKnows
  <2>2. CASE Step(t)
    BY <1>1, <2>2, ParsingKnows, DataKnows, GradingKnows, ParsedKnows, ScoredKnows
  <2> QED
    BY <2>1, <2>2
<1>4. ASSUME NEW d \in Thread, d # t
      PROVE  ParsingOK(d)' /\ DataOK(d)' /\ GradingOK(d)' /\ ParsedOK(d)' /\ ScoredOK(d)'
  <2>1. /\ pc'[d] = pc[d] /\ sent'[d] = sent[d] /\ tok'[d] = tok[d]
        /\ params'[d] = params[d] /\ idx'[d] = idx[d] /\ score'[d] = score[d]
        /\ reply'[d] = reply[d] /\ hand'[d] = hand[d]
        /\ mixed[d] => mixed'[d]
        /\ pc[d] \in Busy /\ ~mixed'[d] => olds' = olds /\ mem'[d] = mem[d]
    BY <1>1, <1>4, OthersKeep
  <2>2. ParsingOK(d)' /\ DataOK(d)'
    BY <1>1, <2>1, ReadingKept
  <2>3. GradingOK(d)' /\ ParsedOK(d)' /\ ScoredOK(d)'
    BY <1>1, <2>1, ScoringKept
  <2> QED
    BY <2>2, <2>3
<1> QED
  BY <1>2, <1>3, <1>4 DEF SheetInv

\* What holds before a step that changes nothing holds after it.
LEMMA StutterKeepsSheets ==
  ASSUME SheetInv, UNCHANGED vars PROVE SheetInv'
<1>1. UNCHANGED <<olds, mem, pc, sent, hand, tok, params, idx, score, reply, mixed>>
  BY DEF vars
<1>2. TypeInv'
  BY <1>1 DEF SheetInv, TypeInv, LocalTypes, StrtokTypes, StageOK
<1>3. ASSUME NEW d \in Thread
      PROVE  ParsingOK(d)' /\ DataOK(d)' /\ GradingOK(d)' /\ ParsedOK(d)' /\ ScoredOK(d)'
  <2>1. ParsingOK(d) /\ DataOK(d) /\ GradingOK(d) /\ ParsedOK(d) /\ ScoredOK(d)
    BY DEF SheetInv
  <2>2. ParsingOK(d)' /\ DataOK(d)'
    BY <1>1, <2>1, ReadingKept
  <2>3. GradingOK(d)' /\ ParsedOK(d)' /\ ScoredOK(d)'
    BY <1>1, <2>1, ScoringKept
  <2> QED
    BY <2>2, <2>3
<1> QED
  BY <1>2, <1>3 DEF SheetInv

\* Each thread knows at each place of the code what of its text it has taken,
\* where strtok is in it, and what the answer has to be, unless another thread
\* used strtok meanwhile (protocol.c:95-141, exam.c:355-385).
THEOREM SheetInvariant == Spec => []SheetInv
<1>1. Init => SheetInv
  BY InitSheets
<1>2. SheetInv /\ [Next]_vars => SheetInv'
  <2>1. SheetInv /\ Next => SheetInv'
    BY StepKeepsSheets DEF Next
  <2>2. SheetInv /\ UNCHANGED vars => SheetInv'
    BY StutterKeepsSheets
  <2> QED
    BY <2>1, <2>2
<1> QED
  BY <1>1, <1>2, PTL DEF Spec

\* msg->params is never fuller than its table, no more answers are compared than
\* there are questions, and no more of them are right, whatever the other threads
\* do to strtok (protocol.c:135, exam.c:363-375).
THEOREM TypeCorrect == Spec => []TypeOK
<1>1. SheetInv => TypeOK
  <2> SUFFICES ASSUME SheetInv PROVE TypeOK
    OBVIOUS
  <2>1. /\ pc \in [Thread -> Label] /\ reply \in [Thread -> Reply]
        /\ params \in [Thread -> Seq(Seq(Char))] /\ idx \in [Thread -> 0..Len(Key)]
        /\ score \in [Thread -> Nat] /\ mixed \in [Thread -> BOOLEAN] /\ olds \in Place
        /\ \A t \in Thread : StageOK(t)
    BY DEF SheetInv, TypeInv, LocalTypes, StrtokTypes
  <2>2. MAX_PARAMS \in Nat
    BY SheetAssumption
  <2>3. ASSUME NEW t \in Thread
        PROVE Len(params[t]) \in 0..MAX_PARAMS /\ score[t] \in 0..idx[t]
    <3>1. Len(params[t]) \in Nat
      BY <2>1, LenProperties
    <3>2. score[t] \in Nat /\ idx[t] \in Nat /\ score[t] <= idx[t] /\ Len(params[t]) <= MAX_PARAMS
      BY <2>1 DEF StageOK
    <3> QED
      BY <2>2, <3>1, <3>2
  <2>4. olds.own \in Thread /\ olds.buf \in Buffer /\ olds.pos \in Nat
    BY <2>1 DEF Place
  <2> QED
    BY <2>1, <2>3, <2>4 DEF TypeOK
<1> QED
  BY <1>1, SheetInvariant, PTL

\* Unless another thread used strtok meanwhile the handler finds in msg->params
\* what the client put into its fields, for all commands whose fields are neither
\* empty nor have a separator in them (client/protocol.c, protocol.c:95-141).
THEOREM FieldsArriveAlways == Spec => []FieldsArrive
<1>1. SheetInv => FieldsArrive
  BY DEF SheetInv, ParsedOK, AllPlain, FieldsArrive
<1> QED
  BY <1>1, SheetInvariant, PTL

\* A sheet with fewer answers than questions is refused and one with as many
\* is scored as it was meant, with one point for each right answer, for every
\* key (handle.c:602-647, exam.c:355-385). Of a sheet with more answers ScoredOK
\* tells what the code does, and the theorem says nothing: exam.h:67 wants it
\* refused.
THEOREM ScoreIsRightAlways == Spec => []ScoreIsRight
<1>1. SheetInv => ScoreIsRight
  <2> SUFFICES ASSUME SheetInv, NEW t \in Thread, pc[t] = "done", ~mixed[t],
                      NEW text \in DOMAIN Submission, sent[t] = Submission[text],
                      NEW a, a = Answers(text)
               PROVE  /\ Len(a) < Len(Key) => reply[t] = "INVALID_PARAMS"
                      /\ Len(a) = Len(Key) =>
                           /\ reply[t] = "SUBMIT_OK"
                           /\ score[t] = Cardinality({n \in DOMAIN Key : a[n] = Key[n]})
    BY DEF ScoreIsRight
  <2>1. IF Len(a) < Len(Key)
          THEN reply[t] = "INVALID_PARAMS"
          ELSE /\ reply[t] = "SUBMIT_OK"
               /\ score[t] = Cardinality({n \in DOMAIN Key : a[n] = Key[n]})
    BY DEF SheetInv, ScoredOK
  <2>2. Len(Key) \in Nat
    BY SheetAssumption, LenProperties
  <2> QED
    BY <2>1, <2>2
<1> QED
  BY <1>1, SheetInvariant, PTL
=============================================================================
