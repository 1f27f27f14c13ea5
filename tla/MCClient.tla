------------------------------ MODULE MCClient ------------------------------
(***************************************************************************)
(* Small instances of ExamClient.                                          *)
(***************************************************************************)
EXTENDS ExamClient, TLC

CONSTANTS u1, u2

TwoUsers == {u1, u2}
Interchangeable == Permutations(User)

TwoRoomInputs == (Commands \ {"QUERY", "LOGOUT"}) \cup {"EXIT_EXAM"}
AskAndEnd == Commands \cup Ends
StartOnly == {"LOGIN", "CREATE_ROOM", "JOIN_ROOM", "START_EXAM"}
=============================================================================
