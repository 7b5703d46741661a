---------------------------- MODULE MCAwgServer ----------------------------
(* Finite values for the constants of AwgServer.                            *)
EXTENDS AwgServer, TLC

CONSTANTS c1, c2, r1, r2

TwoClients  == {c1, c2}
TwoRequests  == {r1, r2}

Symmetry == Permutations(Clients) \cup Permutations(Requests)
=============================================================================
