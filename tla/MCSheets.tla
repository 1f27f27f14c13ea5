------------------------------ MODULE MCSheets ------------------------------
(***************************************************************************)
(* A small instance of AnswerSheets.                                       *)
(***************************************************************************)
EXTENDS AnswerSheets, TLC

CONSTANTS t1, t2

SomeSymbols == {"A", "B", "C", "D", "a", "b", "p", "u", "r", Space, Comma, Bar, "DATA"}
TwoThreads == {t1, t2}
TwoQuestions == <<"A", "B">>
TheRoom == <<"r">>

\* In both forms and cases; too few, too many, and something else.
SomeAnswers ==
  {<<"A", Comma, "B">>, <<Space, "b", Space, "b">>, <<"a">>, <<"A", Comma, "B", Comma, "C">>,
   <<"A", "B">>}

Login(password) == [name |-> "LOGIN", fields |-> <<<<"u">>, password>>]
Data == Login(<<"p", Space, "DATA", Space, "p">>)

\* Passwords with a space, with a separator, with the word DATA, and none.
SomeCommands ==
  {Login(<<"p", Space, "p">>), Login(<<"p", Bar, "p">>), Login(<<>>), Data,
   [name |-> "LOGOUT", fields |-> <<>>]}

\* One client sends all of these, the other one two of them.
TwoCommands == (t1 :> SomeCommands) @@ (t2 :> {Data})
TwoTyped == (t1 :> SomeAnswers) @@ (t2 :> {<<"a">>, <<"A", Comma, "B">>})

Stray == {<<"B">>}
=============================================================================
