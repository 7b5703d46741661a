---------------------------- MODULE MCAdminPanel ----------------------------
(* Finite values for the constants of AdminPanel.                           *)
EXTENDS AdminPanel

CONSTANTS p1, p2, d1, d2

TwoProfiles == {p1, p2}
TwoDevices  == {d1, d2}
OneDevice   == {d1}
OneEach     == [d \in TwoDevices |-> IF d = d1 THEN p1 ELSE p2]
OfFirst     == [d \in OneDevice |-> p1]
=============================================================================
