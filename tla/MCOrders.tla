------------------------------ MODULE MCOrders ------------------------------
(* Finite values for the constants of Orders.                               *)
EXTENDS Orders, TLC

CONSTANTS u1, gram, trc, ton, tron, tx1, w1

OneUser   == {u1}
TwoAssets == {gram, trc}
TwoNets   == {ton, tron}
TwoNetOf  == gram :> ton @@ trc :> tron
OneTx     == {tx1}
OneWorker == {w1}

\* One plan; sums arrive a quarter of the step between two amounts too high.
OneOffer    == {[days |-> 2, base |-> 10]}
QuarterUnit == {1}
=============================================================================
