----------------------------- MODULE MCSessions -----------------------------
(***************************************************************************)
(* Small instances of SessionService.                                      *)
(***************************************************************************)
EXTENDS SessionService, TLC

CONSTANTS c1, c2, c3, u1, u2, d1, d2

TwoConns == {c1, c2}
ThreeConns == {c1, c2, c3}
OneUser == {u1}
TwoUsers == {u1, u2}
OneDigest == {d1}
TwoDigests == {d1, d2}

\* Connections, users and digests are treated alike by every definition.
Interchangeable ==
  Permutations(Conn) \cup Permutations(User) \cup Permutations(Digest)

AllInputs == Inputs
NoCrash == Inputs \ {"CRASH"}
=============================================================================
