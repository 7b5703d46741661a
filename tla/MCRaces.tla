------------------------------ MODULE MCRaces ------------------------------
(* Finite values for Orders and AccessKeys, whose tables meet only in the    *)
(* accounts.  Each has its own races: a behaviour is about overlapping runs  *)
(* of the payment job, about two accounts that redeem one key, or about one  *)
(* account that redeems two, and the other table stays as it was.            *)
EXTENDS Orders, AccessKeys, TLC

CONSTANTS u1, u2, trc, tron, tx1, w1, w2, k1, k2

VARIABLE focus

TwoUsers   == {u1, u2}
OneAsset   == {trc}
OneNet     == {tron}
OneNetOf   == trc :> tron
OneTx      == {tx1}
Exact      == {0}
OneOffer   == {[days |-> 2, base |-> 10]}
TwoWorkers == {w1, w2}
TwoKeys    == {k1, k2}

\* A lifetime key, and a timed one.
BothPlans  == {Null, 2}
AllReceipts == OrderIds \cup TwoKeys

\* Workers name the requests as well: what runs side by side is alike.
Symmetry == Permutations(Users) \cup Permutations(Workers)

OnlyOrders == focus = "orders" /\ UNCHANGED <<keyVars, focus>>
OnlyKeys(ks, us) ==
    /\ \A k \in TwoKeys \ ks : keys'[k] = NoKey
    /\ \A r \in Redeemers : redeem'[r].user \in us \cup {Null}
    /\ UNCHANGED <<orderVars, focus>>

RacesInit ==
    /\ Init /\ KeysInit
    /\ focus \in {"orders", "one key", "one account"}

RacesNext ==
    \/ \E u \in Users : RequestStep(u) /\ OnlyOrders
    \/ \E os \in SUBSET OrderIds, tx \in Tx : Pay(os, tx) /\ OnlyOrders
    \/ \E w \in Workers : JobStep(w) /\ OnlyOrders
    \/ \E u \in Users : DeleteAccount(u) /\ OnlyOrders
    \/ now = 0 /\ Advance /\ UNCHANGED orderVars /\ OnlyOrders
    \/ focus = "one key" /\ KeysNext /\ OnlyKeys({k1}, Users)
    \/ focus = "one key" /\ (\E u \in Users : RemoveAccount(u)) /\ OnlyKeys({k1}, Users)
    \/ focus = "one key" /\ Advance /\ UNCHANGED keyVars /\ OnlyKeys({k1}, Users)
    \/ \E u \in Users :
         /\ focus = "one account" /\ \A v \in Users \ {u} : users[v] = NoUser
         /\ KeysNext \/ RemoveAccount(u) \/ (Advance /\ UNCHANGED keyVars)
         /\ OnlyKeys(TwoKeys, {u})

RacesSpec == RacesInit /\ [][RacesNext]_<<vars, keyVars, focus>>

\* Transfers are alike but for the order their payer meant, of which nothing here
\* speaks: one asset, one amount.  What matters is how many there are.
Told ==
    <<subVars, orders, nextOrder, creating, credits, Cardinality(chain),
      [w \in Workers |-> [worker[w] EXCEPT !.feed = Cardinality(@), !.tr = @ # Null]],
      keyVars, focus>>
=============================================================================
