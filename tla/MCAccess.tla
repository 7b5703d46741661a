------------------------------ MODULE MCAccess ------------------------------
(* Finite values for the constants of Access.                               *)
EXTENDS Access, TLC

CONSTANTS u1, c1, c2, i1, i2, r1, r2, k1, k2, p1, p2

OneUser     == {u1}
OneVless    == {c1}
VlessAndAwg == {c1, c2}
OnlyAwg     == {c2}
Owner       == [c \in Configs |-> u1]
OneInstall  == {i1}
TwoInstalls == {i1, i2}
OneRow      == {r1}
TwoRows     == {r1, r2}
OneKey      == {k1}
TwoKeys     == {k1, k2}
OneRequest  == {p1}
TwoRequests == {p1, p2}

DeviceOps  == {"provision", "ensureConfig", "deleteVless", "blockDevice", "deleteDevice",
               "resetSessions", "purge"}
FaultOps   == {"provision", "visit", "createConfig", "deleteAwg", "blockDevice", "purge",
               "toggleBlock"}
AccountOps == {"provision", "ensureConfig", "deleteVless", "reset", "toggleBlock"}

Symmetry == Permutations(Rows) \cup Permutations(Keys) \cup Permutations(Requests)
=============================================================================
