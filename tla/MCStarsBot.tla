----------------------------- MODULE MCStarsBot -----------------------------
(* Finite values for the constants of StarsBot.                             *)
EXTENDS StarsBot

CONSTANTS c1, c2

TwoCharges == {c1, c2}
=============================================================================
