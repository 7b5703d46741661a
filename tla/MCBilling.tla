------------------------------ MODULE MCBilling ------------------------------
(* Finite values for the constants of Billing.                              *)
EXTENDS Billing, TLC

CONSTANTS u1, u2, gram, ton, tx1, w1, k1, k2, r1, r2, c1, g1

OneUser  == {u1}
OneAsset == {gram}
OneNet   == {ton}
OneNetOf == gram :> ton
OneTx    == {tx1}
Exact    == {0}
OneOffer == {[days |-> 2, base |-> 10]}
OneWorker == {w1}
OneKey   == {k1}
OneRequest == {r1}
BothPlans == {Null, 1}
OneCharge == {c1}
OneGrant  == {g1}
OneDay   == {1}
AllReceipts == OrderIds \cup {k1, k2, c1, g1}
=============================================================================
