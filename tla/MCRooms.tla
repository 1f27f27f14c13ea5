------------------------------ MODULE MCRooms ------------------------------
(***************************************************************************)
(* Small instances of RoomService.                                         *)
(***************************************************************************)
EXTENDS RoomRefinement, TLC

CONSTANTS c1, c2, c3, u1, u2, u3, u4

OneClient == {c1}
TwoClients == {c1, c2}
ThreeClients == {c1, c2, c3}
OneUser == {u1}
TwoUsers == {u1, u2}
ThreeUsers == {u1, u2, u3}
FourUsers == {u1, u2, u3, u4}

\* Connections, and accounts, are treated alike by every definition.
Interchangeable == Permutations(Client) \cup Permutations(User)

AllInputs == Inputs
NoCrash == Inputs \ {"CRASH"}
ExamInputs == {"CREATE_ROOM", "JOIN_ROOM", "LEAVE_ROOM", "START_EXAM", "SUBMIT_EXAM"}
=============================================================================
