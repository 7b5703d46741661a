---------------------------- MODULE OrdersProofs ----------------------------
(***************************************************************************)
(* Proofs about Orders, for any number of users, orders, transactions and  *)
(* overlapping runs.                                                       *)
(***************************************************************************)
EXTENDS Orders, TLAPS

-----------------------------------------------------------------------------
(* Types.                                                                   *)

\* The UPSERT of extendSubscriptionTx keeps the types.
LEMMA ExtendType ==
    ASSUME SubTypeOK, NEW u \in Users, NEW r \in Receipts, NEW days \in Nat,
           Extend(u, r, days)
    PROVE  /\ users' \in [Users -> UserRow]
           /\ granted' \in [Users -> SUBSET (Receipts \X Nat)]
  <1>1. Extended(now, users[u].until, days) \in Nat
    BY NullIsNoTime DEF Extended, SubTypeOK, UserRow
  <1>2. [exists |-> TRUE, active |-> TRUE, until |-> Extended(now, users[u].until, days)]
          \in UserRow
    BY <1>1 DEF UserRow
  <1>3. users' \in [Users -> UserRow]
    BY <1>2 DEF Extend, CreditDays, SubTypeOK
  <1>4. granted' \in [Users -> SUBSET (Receipts \X Nat)]
    BY DEF Extend, CreditDays, SubTypeOK
  <1> QED  BY <1>3, <1>4

\* Ensuring the row of a buyer keeps the types.
LEMMA EnsureBuyerType ==
    ASSUME SubTypeOK, NEW u \in Users, EnsureBuyer(u)
    PROVE  /\ users' \in [Users -> UserRow]
           /\ granted' \in [Users -> SUBSET (Receipts \X Nat)]
  <1>1. InactiveRow \in UserRow
    BY DEF InactiveRow, UserRow
  <1> QED  BY <1>1 DEF EnsureBuyer, EnsureUser, SubTypeOK

\* Deleting an account keeps the types.
LEMMA DropUserType ==
    ASSUME SubTypeOK, NEW u \in Users, DropUser(u)
    PROVE  /\ users' \in [Users -> UserRow]
           /\ granted' \in [Users -> SUBSET (Receipts \X Nat)]
  <1>1. NoUser \in UserRow
    BY DEF NoUser, UserRow
  <1> QED  BY <1>1 DEF DropUser, SubTypeOK

\* An idle run is well typed.
LEMMA IdleType ==
    Idle \in WorkerState
  BY DEF Idle, WorkerState

\* The types hold at the start.
LEMMA InitType == Init => TypeOK
  <1> SUFFICES ASSUME Init PROVE TypeOK
    OBVIOUS
  <1>1. SubTypeOK
    <2>1. {NoUser, LifetimeRow} \subseteq UserRow
      BY DEF NoUser, LifetimeRow, UserRow
    <2> QED  BY <2>1 DEF Init, SubInit, SubTypeOK
  <1>2. OrdersTypeOK
    BY IdleType DEF Init, OrdersInit, OrdersTypeOK
  <1> QED  BY <1>1, <1>2 DEF TypeOK

-----------------------------------------------------------------------------
(* The steps of the handlers keep the types.                                *)

\* The handlers of orders keep the types.
LEMMA RequestType ==
    ASSUME TypeOK, NEW u \in Users, RequestStep(u)
    PROVE  TypeOK'
  <1> USE DEF TypeOK, OrdersTypeOK, SubTypeOK, subVars
  <1>1. CASE ReserveAmount(u)
    <2>1. PICK offer \in Offers, asset \in Assets :
             \E amount \in offer.base + 1 .. offer.base + MaxDelta :
                creating' = [creating EXCEPT ![u] =
                              [days |-> offer.days, asset |-> asset,
                               amount |-> amount, from |-> nextOrder]]
      BY <1>1 DEF ReserveAmount
    <2>2. PICK amount \in offer.base + 1 .. offer.base + MaxDelta :
             creating' = [creating EXCEPT ![u] =
                              [days |-> offer.days, asset |-> asset,
                               amount |-> amount, from |-> nextOrder]]
      BY <2>1
    <2>3. offer.days \in Nat /\ amount \in Nat
      BY OrderConstants
    <2>4. [days |-> offer.days, asset |-> asset, amount |-> amount, from |-> nextOrder]
             \in Reservation
      BY <2>3 DEF Reservation
    <2>5. creating' \in [Users -> Reservation \cup {Null}]
      BY <2>2, <2>4
    <2>6. users' \in [Users -> UserRow] /\ granted' \in [Users -> SUBSET (Receipts \X Nat)]
      BY <1>1, EnsureBuyerType DEF ReserveAmount
    <2> QED  BY <1>1, <2>5, <2>6 DEF ReserveAmount
  <1>2. CASE ReserveBlind(u)
    <2>1. PICK offer \in Offers, asset \in Assets :
             creating' = [creating EXCEPT ![u] =
                            [days |-> offer.days, asset |-> asset,
                             amount |-> offer.base + 1, from |-> 1]]
      BY <1>2 DEF ReserveBlind
    <2>2. offer.days \in Nat /\ offer.base + 1 \in Nat
      BY OrderConstants
    <2>3. [days |-> offer.days, asset |-> asset, amount |-> offer.base + 1, from |-> 1]
             \in Reservation
      BY <2>2 DEF Reservation
    <2>4. creating' \in [Users -> Reservation \cup {Null}]
      BY <2>1, <2>3
    <2>5. users' \in [Users -> UserRow] /\ granted' \in [Users -> SUBSET (Receipts \X Nat)]
      BY <1>2, EnsureBuyerType DEF ReserveBlind
    <2> QED  BY <1>2, <2>4, <2>5 DEF ReserveBlind
  <1>3. CASE ReserveBusy(u)
    <2>1. users' \in [Users -> UserRow] /\ granted' \in [Users -> SUBSET (Receipts \X Nat)]
      BY <1>3, EnsureBuyerType DEF ReserveBusy
    <2> QED  BY <1>3, <2>1 DEF ReserveBusy
  <1>4. CASE InsertOrder(u)
    <2>1. creating[u] \in Reservation
      BY <1>4 DEF InsertOrder
    <2>2. now + Window \in Nat
      BY OrderConstants
    <2>3. [status |-> "pending", user |-> u, days |-> creating[u].days,
           asset |-> creating[u].asset, amount |-> creating[u].amount,
           expires |-> now + Window, tx |-> Null, from |-> creating[u].from] \in OrderRow
      BY <2>1, <2>2 DEF Reservation, OrderRow
    <2>4. orders' \in [OrderIds -> OrderRow \cup {NoOrder}]
      BY <1>4, <2>3 DEF InsertOrder
    <2>5. creating' \in [Users -> Reservation \cup {Null}]
      BY <1>4 DEF InsertOrder
    <2> QED  BY <1>4, <2>4, <2>5 DEF InsertOrder
  <1>5. CASE InsertFails(u)
    BY <1>5 DEF InsertFails
  <1>6. CASE \E o \in OrderIds : CancelOrder(u, o)
    <2>1. PICK o \in OrderIds : CancelOrder(u, o)
      BY <1>6
    <2>2. orders[o] \in OrderRow
      BY <2>1 DEF CancelOrder, Pending, NoOrder
    <2>4. [orders[o] EXCEPT !.status = "expired"] \in OrderRow
      BY <2>2 DEF OrderRow
    <2>3. orders' \in [OrderIds -> OrderRow \cup {NoOrder}]
      BY <2>1, <2>4 DEF CancelOrder
    <2> QED  BY <2>1, <2>3 DEF CancelOrder
  <1> QED  BY <1>1, <1>2, <1>3, <1>4, <1>5, <1>6 DEF RequestStep

\* A payment keeps the types.
LEMMA PayType ==
    ASSUME TypeOK, NEW os \in SUBSET OrderIds, NEW tx \in Tx, Pay(os, tx)
    PROVE  TypeOK'
  <1> USE DEF TypeOK, OrdersTypeOK, SubTypeOK, subVars
  <1>0. \A o \in os : o \in OrderIds /\ orders[o] \in OrderRow
    BY DEF Pay, NoOrder
  <1>1. PICK d \in [os -> Drift] :
          chain' = chain \cup {[tx |-> tx, asset |-> orders[o].asset,
                                sum |-> Grain * orders[o].amount + d[o], intent |-> o] :
                                   o \in os}
    BY DEF Pay
  <1>2. ASSUME NEW o \in os
        PROVE  [tx |-> tx, asset |-> orders[o].asset,
                sum |-> Grain * orders[o].amount + d[o], intent |-> o] \in Transfer
    <2>1. o \in OrderIds /\ orders[o] \in OrderRow
      BY <1>0
    <2>3. orders[o].amount \in Nat /\ d[o] \in Int
      BY <2>1, OrderConstants DEF OrderRow
    <2>2. Grain * orders[o].amount + d[o] \in Int
      BY <2>3 DEF Grain
    <2> QED  BY <2>1, <2>2 DEF Transfer, OrderRow
  <1>3. chain' \subseteq Transfer
    BY <1>1, <1>2
  <1> QED  BY <1>3 DEF Pay

-----------------------------------------------------------------------------
(* The steps of the job keep the types.                                     *)

\* The rows of the sweep are well typed.
LEMMA StuckOrdersType == TypeOK => StuckOrders \subseteq Stuck
  <1> SUFFICES ASSUME TypeOK, NEW o \in OrderIds, orders[o].status = "paid"
               PROVE  [order |-> o, user |-> orders[o].user, days |-> orders[o].days] \in Stuck
    BY DEF StuckOrders
  <1>1. orders[o] \in OrderRow
    BY DEF TypeOK, OrdersTypeOK, NoOrder
  <1> QED  BY <1>1 DEF OrderRow, Stuck

\* Starting a run keeps the types.
LEMMA StartRunType ==
    ASSUME TypeOK, NEW w \in Workers, StartRun(w)
    PROVE  TypeOK'
  <1> USE DEF TypeOK, OrdersTypeOK, SubTypeOK, subVars
  <1>1. \A o \in OrderIds : Pending(o) => [orders[o] EXCEPT !.status = "expired"] \in OrderRow
    <2> SUFFICES ASSUME NEW o \in OrderIds, Pending(o)
                 PROVE  [orders[o] EXCEPT !.status = "expired"] \in OrderRow
      OBVIOUS
    <2>1. orders[o] \in OrderRow
      BY DEF Pending, NoOrder
    <2> QED  BY <2>1 DEF OrderRow
  <1>2. orders' \in [OrderIds -> OrderRow \cup {NoOrder}]
    BY <1>1 DEF StartRun, ExpireStale
  <1>3. PICK rows \in {StuckOrders} \cup (IF IgnoredErrors THEN {{}} ELSE {}) :
           worker' = [worker EXCEPT ![w] = [Idle EXCEPT !.pc = "sweep", !.stuck = rows]]
    BY DEF StartRun
  <1>5. rows \subseteq Stuck
    BY StuckOrdersType
  <1>6. [Idle EXCEPT !.pc = "sweep", !.stuck = rows] \in WorkerState
    BY <1>5 DEF Idle, WorkerState
  <1>4. worker' \in [Workers -> WorkerState]
    BY <1>3, <1>6
  <1> QED  BY <1>2, <1>4 DEF StartRun

\* The sweep keeps the types.
LEMMA RecoverType ==
    ASSUME TypeOK, NEW w \in Workers, RecoverOrder(w)
    PROVE  TypeOK'
  <1>1. PICK s \in worker[w].stuck :
          /\ Extend(s.user, s.order, s.days) \/ UNCHANGED <<users, granted>>
          /\ worker' = [worker EXCEPT ![w].stuck = @ \ {s}]
    BY DEF RecoverOrder
  <1>2. s.user \in Users /\ s.days \in Nat /\ s.order \in Receipts
    BY OrderConstants DEF TypeOK, OrdersTypeOK, WorkerState, Stuck
  <1>3. users' \in [Users -> UserRow] /\ granted' \in [Users -> SUBSET (Receipts \X Nat)]
    BY <1>1, <1>2, ExtendType DEF TypeOK, SubTypeOK
  <1>4. worker' \in [Workers -> WorkerState]
    BY <1>1 DEF TypeOK, OrdersTypeOK, WorkerState
  <1> QED
    BY <1>3, <1>4 DEF RecoverOrder, TypeOK, OrdersTypeOK, SubTypeOK

\* The steps that move a run from one history to the next keep the types.
LEMMA FetchType ==
    ASSUME TypeOK, NEW w \in Workers,
           \/ CountPending(w)
           \/ \E net \in Networks : FetchTransfers(w, net) \/ FetchFails(w, net)
           \/ EndRun(w) \/ FeedDone(w) \/ Interrupt(w) \/ ClaimRollback(w)
    PROVE  TypeOK'
  <1> USE DEF TypeOK, OrdersTypeOK, SubTypeOK, subVars
  <1>1. CASE CountPending(w)
    <2> DEFINE nets == NetsToRead
    <2>1. nets \subseteq Networks
      <3> SUFFICES ASSUME NEW o \in OrderIds, Live(o)
                   PROVE  NetOf[orders[o].asset] \in Networks
        BY DEF NetsToRead
      <3>1. orders[o] \in OrderRow
        BY DEF Live, Pending, NoOrder
      <3> QED  BY <3>1, OrderConstants DEF OrderRow
    <2>2. worker' = [worker EXCEPT ![w] = [worker[w] EXCEPT !.pc = "fetch", !.nets = nets]]
      BY <1>1 DEF CountPending
    <2> HIDE DEF nets
    <2>3. [worker[w] EXCEPT !.pc = "fetch", !.nets = nets] \in WorkerState
      BY <2>1 DEF WorkerState
    <2>4. worker' \in [Workers -> WorkerState]
      BY <2>2, <2>3
    <2> QED  BY <1>1, <2>4 DEF CountPending
  <1>2. CASE \E net \in Networks : FetchTransfers(w, net) \/ FetchFails(w, net)
    <2>1. PICK net \in Networks : FetchTransfers(w, net) \/ FetchFails(w, net)
      BY <1>2
    <2> DEFINE feed == {t \in chain : NetOf[t.asset] = net}
               left == worker[w].nets \ {net}
               read == [worker[w] EXCEPT !.pc = "match", !.nets = left, !.feed = feed]
               skip == [worker[w] EXCEPT !.nets = left]
    <2>2. feed \in SUBSET Transfer /\ left \in SUBSET Networks
      BY DEF WorkerState
    <2>3. worker' = [worker EXCEPT ![w] = read] \/ worker' = [worker EXCEPT ![w] = skip]
      BY <2>1 DEF FetchTransfers, FetchFails
    <2>4. read \in WorkerState /\ skip \in WorkerState
      <3> HIDE DEF feed, left
      <3> QED  BY <2>2 DEF WorkerState
    <2>5. worker' \in [Workers -> WorkerState]
      BY <2>3, <2>4
    <2> QED  BY <2>1, <2>5 DEF FetchTransfers, FetchFails
  <1>3. CASE EndRun(w) \/ FeedDone(w) \/ Interrupt(w) \/ ClaimRollback(w)
    <2>1. worker' \in [Workers -> WorkerState]
      BY <1>3, IdleType DEF EndRun, FeedDone, Interrupt, ClaimRollback, WorkerState
    <2> QED  BY <1>3, <2>1 DEF EndRun, FeedDone, Interrupt, ClaimRollback
  <1> QED  BY <1>1, <1>2, <1>3

\* Selecting an order keeps the types.
LEMMA SelectType ==
    ASSUME TypeOK, NEW w \in Workers, NEW t \in chain, SelectOrder(w, t)
    PROVE  TypeOK'
  <1> USE DEF TypeOK, OrdersTypeOK, SubTypeOK, subVars
  <1> DEFINE left == worker[w].feed \ {t}
             skip == [worker[w] EXCEPT !.feed = left]
             take(o) == [worker[w] EXCEPT !.pc = "claim", !.feed = left, !.tr = t, !.order = o]
  <1>1. worker' = [worker EXCEPT ![w] = skip]
        \/ \E o \in OrderIds : worker' = [worker EXCEPT ![w] = take(o)]
    BY DEF SelectOrder
  <1>2. left \in SUBSET Transfer /\ t \in Transfer
    BY DEF WorkerState
  <1>3. skip \in WorkerState /\ \A o \in OrderIds : take(o) \in WorkerState
    <2> HIDE DEF left
    <2> QED  BY <1>2 DEF WorkerState
  <1>4. worker' \in [Workers -> WorkerState]
    BY <1>1, <1>3
  <1> QED  BY <1>4 DEF SelectOrder

\* The claim keeps the types.
LEMMA ClaimType ==
    ASSUME TypeOK, NEW w \in Workers, worker[w].order \in OrderIds,
           worker[w].tr \in Transfer, ClaimOrder(w)
    PROVE  TypeOK'
  <1> USE DEF TypeOK, OrdersTypeOK, SubTypeOK, subVars
  <1> DEFINE o == worker[w].order
             t == worker[w].tr
  <1>1. orders[o] \in OrderRow /\ t.tx \in Tx
    BY DEF ClaimOrder, Claimable, Pending, NoOrder, Transfer
  <1>2. orders' \in [OrderIds -> OrderRow \cup {NoOrder}]
    <2>1. [orders[o] EXCEPT !.status = "paid", !.tx = t.tx] \in OrderRow
      BY <1>1 DEF OrderRow
    <2>2. orders' = [orders EXCEPT ![o] = [orders[o] EXCEPT !.status = "paid", !.tx = t.tx]]
      BY DEF ClaimOrder
    <2> QED  BY <2>1, <2>2
  <1>3. users' \in [Users -> UserRow] /\ granted' \in [Users -> SUBSET (Receipts \X Nat)]
    BY <1>1, ExtendType, OrderConstants DEF ClaimOrder, OrderRow
  <1>4. worker' \in [Workers -> WorkerState]
    <2>1. [worker[w] EXCEPT !.pc = "match", !.tr = Null, !.order = Null] \in WorkerState
      BY DEF WorkerState
    <2>2. worker' = [worker EXCEPT ![w] =
                       [worker[w] EXCEPT !.pc = "match", !.tr = Null, !.order = Null]]
      BY DEF ClaimOrder
    <2> QED  BY <2>1, <2>2
  <1>5. credits' \subseteq OrderIds \X Tx
    BY <1>1 DEF ClaimOrder
  <1> QED  BY <1>2, <1>3, <1>4, <1>5 DEF ClaimOrder

\* Deleting an account with its orders keeps the types.
LEMMA DeleteType ==
    ASSUME TypeOK, NEW u \in Users, DeleteAccount(u)
    PROVE  TypeOK'
  <1>1. users' \in [Users -> UserRow] /\ granted' \in [Users -> SUBSET (Receipts \X Nat)]
    BY DropUserType DEF DeleteAccount, TypeOK
  <1>2. orders' \in [OrderIds -> OrderRow \cup {NoOrder}]
    BY DEF DeleteAccount, CascadeOrders, TypeOK, OrdersTypeOK
  <1> QED  BY <1>1, <1>2 DEF DeleteAccount, TypeOK, OrdersTypeOK, SubTypeOK

\* Lifting a limit keeps the types.
LEMMA LiftLimitType ==
    ASSUME TypeOK, NEW u \in Users, LiftLimit(u)
    PROVE  TypeOK'
  <1>1. LifetimeRow \in UserRow
    BY DEF LifetimeRow, UserRow
  <1> QED  BY <1>1 DEF LiftLimit, ClearExpiry, TypeOK, OrdersTypeOK, SubTypeOK, orderVars

\* The clock keeps the types.
LEMMA AdvanceType ==
    TypeOK /\ Advance /\ UNCHANGED orderVars => TypeOK'
  BY DEF Advance, TypeOK, OrdersTypeOK, SubTypeOK, orderVars

\* Every step of handlers, payers and job keeps the types.
LEMMA OrdersNextType ==
    ASSUME TypeOK, RunsFollowChain, OrdersNext
    PROVE  TypeOK'
  <1>1. CASE \E u \in Users : RequestStep(u)
    BY <1>1, RequestType
  <1>2. CASE \E os \in SUBSET OrderIds, tx \in Tx : Pay(os, tx)
    BY <1>2, PayType
  <1>3. CASE \E w \in Workers : JobStep(w)
    <2>1. PICK w \in Workers : JobStep(w)
      BY <1>3
    <2>2. CASE StartRun(w)
      BY <2>2, StartRunType
    <2>3. CASE RecoverOrder(w)
      BY <2>3, RecoverType
    <2>4. CASE \E t \in chain : SelectOrder(w, t)
      BY <2>4, SelectType
    <2>5. CASE ClaimOrder(w)
      <3>1. worker[w].order \in OrderIds /\ worker[w].tr \in Transfer
        BY <2>5 DEF ClaimOrder, Claimable, RunsFollowChain, RunFollowsChain, TypeOK, OrdersTypeOK
      <3> QED  BY <2>5, <3>1, ClaimType
    <2> QED  BY <2>1, <2>2, <2>3, <2>4, <2>5, FetchType DEF JobStep
  <1> QED  BY <1>1, <1>2, <1>3 DEF OrdersNext

-----------------------------------------------------------------------------
(* A transaction pays one order.                                            *)

\* Only a claim writes a transaction id; every other step keeps or drops it.
LEMMA OthersKeepTx ==
    ASSUME TypeOK, NEW o \in OrderIds,
           \/ \E u \in Users : RequestStep(u) \/ DeleteAccount(u) \/ LiftLimit(u)
           \/ \E os \in SUBSET OrderIds, tx \in Tx : Pay(os, tx)
           \/ \E w \in Workers : JobStep(w) /\ ~ClaimOrder(w)
           \/ Advance /\ UNCHANGED orderVars
           \/ UNCHANGED vars
    PROVE  orders'[o].tx \in {orders[o].tx, Null}
  <1> USE DEF TypeOK, OrdersTypeOK
  <1>1. CASE \E u \in Users : RequestStep(u)
    <2>1. CASE \E u \in Users : InsertOrder(u)
      BY <2>1 DEF InsertOrder
    <2>2. CASE \E u \in Users, p \in OrderIds : CancelOrder(u, p)
      <3>1. PICK p \in OrderIds : Pending(p) /\ orders' = [orders EXCEPT ![p].status = "expired"]
        BY <2>2 DEF CancelOrder
      <3>2. orders[p] \in OrderRow
        BY <3>1 DEF Pending, NoOrder
      <3> QED  BY <3>1, <3>2 DEF OrderRow
    <2> QED
      BY <1>1, <2>1, <2>2
         DEF RequestStep, ReserveAmount, ReserveBlind, ReserveBusy, InsertFails
  <1>2. CASE \E u \in Users : DeleteAccount(u)
    BY <1>2 DEF DeleteAccount, CascadeOrders, NoOrder
  <1>3. CASE \E os \in SUBSET OrderIds, tx \in Tx : Pay(os, tx)
    BY <1>3 DEF Pay
  <1>4. CASE \E w \in Workers : JobStep(w) /\ ~ClaimOrder(w)
    <2>1. CASE \E w \in Workers : StartRun(w)
      <3>1. CASE ExpireStale
        <4>1. CASE Pending(o)
          BY <3>1, <4>1 DEF ExpireStale, Pending, NoOrder, OrderRow
        <4>2. CASE ~Pending(o)
          BY <3>1, <4>2 DEF ExpireStale
        <4> QED  BY <4>1, <4>2
      <3>2. CASE UNCHANGED orders
        BY <3>2
      <3> QED  BY <2>1, <3>1, <3>2 DEF StartRun
    <2> QED  BY <1>4, <2>1 DEF JobStep, RecoverOrder, CountPending, FetchTransfers,
                FetchFails, EndRun, FeedDone, SelectOrder, ClaimRollback, Interrupt
  <1> QED
    BY <1>1, <1>2, <1>3, <1>4 DEF LiftLimit, orderVars, vars

\* A step that is not a job step of w leaves its run alone.
LEMMA OthersKeepRun ==
    ASSUME TypeOK, NEW w \in Workers,
           \/ \E u \in Users : RequestStep(u) \/ DeleteAccount(u) \/ LiftLimit(u)
           \/ \E os \in SUBSET OrderIds, tx \in Tx : Pay(os, tx)
           \/ \E v \in Workers \ {w} : JobStep(v)
           \/ Advance /\ UNCHANGED orderVars
           \/ UNCHANGED vars
    PROVE  worker'[w] = worker[w]
  <1>1. CASE \E v \in Workers \ {w} : JobStep(v)
    <2>1. PICK v \in Workers \ {w} : JobStep(v)
      BY <1>1
    <2>2. worker \in [Workers -> WorkerState]
      BY DEF TypeOK, OrdersTypeOK
    <2>3. CASE StartRun(v) \/ RecoverOrder(v)
      BY <2>2, <2>3 DEF StartRun, RecoverOrder
    <2>4. CASE CountPending(v)
      BY <2>2, <2>4 DEF CountPending
    <2>5. CASE \E net \in Networks : FetchTransfers(v, net) \/ FetchFails(v, net)
      BY <2>2, <2>5 DEF FetchTransfers, FetchFails
    <2>6. CASE EndRun(v) \/ FeedDone(v) \/ Interrupt(v)
      BY <2>2, <2>6 DEF EndRun, FeedDone, Interrupt
    <2>7. CASE \E t \in chain : SelectOrder(v, t)
      BY <2>2, <2>7 DEF SelectOrder
    <2>8. CASE ClaimOrder(v) \/ ClaimRollback(v)
      BY <2>2, <2>8 DEF ClaimOrder, ClaimRollback
    <2> QED  BY <2>1, <2>3, <2>4, <2>5, <2>6, <2>7, <2>8 DEF JobStep
  <1> QED
    BY <1>1 DEF RequestStep, ReserveAmount, ReserveBlind, ReserveBusy, InsertOrder,
                InsertFails, CancelOrder, DeleteAccount, LiftLimit, Pay, orderVars, vars

\* Transfers are final: the chain only grows.
LEMMA ChainGrows ==
    ASSUME [Next]_vars
    PROVE  chain \subseteq chain'
  BY DEF Next, OrdersNext, RequestStep, ReserveAmount, ReserveBlind, ReserveBusy,
         InsertOrder, InsertFails, CancelOrder, DeleteAccount, LiftLimit, Pay, JobStep, StartRun,
         RecoverOrder, CountPending, FetchTransfers, FetchFails, EndRun, FeedDone,
         SelectOrder, ClaimOrder, ClaimRollback, Interrupt, orderVars, vars

\* A run's own steps select only unrecorded transfers of the chain.
LEMMA JobKeepsRun ==
    ASSUME TypeOK, NEW w \in Workers, RunFollowsChain(w), JobStep(w)
    PROVE  /\ worker'[w].feed \subseteq chain
           /\ worker'[w].pc = "claim" =>
                 /\ worker'[w].order \in OrderIds
                 /\ worker'[w].tr \in chain
                 /\ UNCHANGED orders
                 /\ TxIndex \/ ~Recorded(worker'[w].tr.tx)
  <1> USE DEF TypeOK, OrdersTypeOK, WorkerState, RunFollowsChain
  <1>1. CASE StartRun(w) \/ EndRun(w) \/ Interrupt(w)
    <2>1. \E r : /\ worker' = [worker EXCEPT ![w] = r]
                 /\ r.feed = {} /\ r.pc \in {"idle", "sweep"}
      <3>1. CASE StartRun(w)
        <4>1. PICK rows : worker' = [worker EXCEPT ![w] =
                                       [Idle EXCEPT !.pc = "sweep", !.stuck = rows]]
          BY <3>1 DEF StartRun
        <4> DEFINE r == [Idle EXCEPT !.pc = "sweep", !.stuck = rows]
        <4>2. r.feed = {} /\ r.pc = "sweep"
          BY DEF Idle
        <4> QED  BY <4>1, <4>2
      <3>2. CASE EndRun(w) \/ Interrupt(w)
        BY <3>2 DEF EndRun, Interrupt, Idle
      <3> QED  BY <1>1, <3>1, <3>2
    <2>2. worker'[w].feed = {} /\ worker'[w].pc # "claim"
      BY <2>1
    <2> QED  BY <2>2
  <1>2. CASE RecoverOrder(w) \/ CountPending(w) \/ FeedDone(w) \/ ClaimRollback(w) \/ ClaimOrder(w)
    BY <1>2 DEF RecoverOrder, CountPending, FeedDone, ClaimRollback, ClaimOrder
  <1>3. CASE \E net \in Networks : FetchTransfers(w, net) \/ FetchFails(w, net)
    BY <1>3 DEF FetchTransfers, FetchFails
  <1>4. CASE \E t \in chain : SelectOrder(w, t)
    BY <1>4 DEF SelectOrder
  <1> QED  BY <1>1, <1>2, <1>3, <1>4 DEF JobStep

\* Every step keeps the types.
LEMMA NextType ==
    ASSUME TypeOK, RunsFollowChain, [Next]_vars
    PROVE  TypeOK'
  <1>1. CASE UNCHANGED vars
    BY <1>1 DEF vars, subVars, orderVars, TypeOK, OrdersTypeOK, SubTypeOK
  <1> QED
    BY <1>1, OrdersNextType, DeleteType, LiftLimitType, AdvanceType DEF Next

\* A claim writes a transaction id that no row has.
LEMMA ClaimIsFresh ==
    ASSUME TypeOK, RunsFollowChain, NEW w \in Workers, ClaimOrder(w)
    PROVE  /\ worker[w].order \in OrderIds
           /\ worker[w].tr.tx \in Tx
           /\ ~Recorded(worker[w].tr.tx)
           /\ \A o \in OrderIds :
                 orders'[o].tx = IF o = worker[w].order THEN worker[w].tr.tx ELSE orders[o].tx
  <1>1. worker[w].order \in OrderIds /\ worker[w].tr.tx \in Tx /\ ~Recorded(worker[w].tr.tx)
    BY DEF ClaimOrder, Claimable, RunsFollowChain, RunFollowsChain, TypeOK, OrdersTypeOK, Transfer
  <1>2. orders[worker[w].order] \in OrderRow
    BY <1>1 DEF ClaimOrder, Claimable, Pending, NoOrder, TypeOK, OrdersTypeOK
  <1>3. orders' = [orders EXCEPT ![worker[w].order] =
                     [orders[worker[w].order] EXCEPT !.status = "paid", !.tx = worker[w].tr.tx]]
    BY DEF ClaimOrder
  <1>4. [orders[worker[w].order] EXCEPT !.status = "paid", !.tx = worker[w].tr.tx].tx
           = worker[w].tr.tx
    BY <1>2 DEF OrderRow
  <1>5. orders \in [OrderIds -> OrderRow \cup {NoOrder}]
    BY DEF TypeOK, OrdersTypeOK
  <1> QED  BY <1>1, <1>3, <1>4, <1>5

\* Every step keeps the runs on the chain and on unrecorded transfers.
LEMMA NextRuns ==
    ASSUME TypeOK, RunsFollowChain, [Next]_vars
    PROVE  RunsFollowChain'
  <1> SUFFICES ASSUME NEW w \in Workers PROVE RunFollowsChain(w)'
    BY DEF RunsFollowChain
  <1>1. chain \subseteq chain'
    BY ChainGrows
  <1>2. CASE JobStep(w)
    <2>1. RunFollowsChain(w)
      BY DEF RunsFollowChain
    <2>2. ~Recorded(worker'[w].tr.tx) /\ UNCHANGED orders
             => ~Recorded(worker[w].tr.tx)'
      BY DEF Recorded
    <2> QED  BY <1>1, <1>2, <2>1, <2>2, JobKeepsRun DEF RunFollowsChain
  <1>3. CASE ~JobStep(w)
    <2>1. worker'[w] = worker[w]
      BY <1>3, OthersKeepRun DEF Next, OrdersNext
    <2>2. worker[w].pc = "claim" => worker[w].tr.tx \in Tx
      BY DEF RunsFollowChain, RunFollowsChain, TypeOK, OrdersTypeOK, Transfer
    <2>3. CASE TxIndex
      BY <1>1, <2>1, <2>3 DEF RunsFollowChain, RunFollowsChain
    <2>4. CASE ~TxIndex
      <3>1. ~\E v \in Workers : JobStep(v)
        BY <1>3, <2>4, RunsOrIndex
      <3>2. \A tx \in Tx : ~Recorded(tx) => ~Recorded(tx)'
        BY <3>1, OthersKeepTx, OrderConstants DEF Recorded, Next, OrdersNext
      <3> QED  BY <1>1, <2>1, <2>2, <3>2 DEF RunsFollowChain, RunFollowsChain
    <2> QED  BY <2>3, <2>4
  <1> QED  BY <1>2, <1>3

\* No step makes two rows carry one transaction.
LEMMA NextTxOnce ==
    ASSUME TypeOK, RunsFollowChain, TxPaysOneOrder, [Next]_vars
    PROVE  TxPaysOneOrder'
  <1>1. CASE \E w \in Workers : ClaimOrder(w)
    BY <1>1, ClaimIsFresh DEF TxPaysOneOrder, Recorded
  <1>2. CASE ~\E w \in Workers : ClaimOrder(w)
    <2>1. \A o \in OrderIds : orders'[o].tx \in {orders[o].tx, Null}
      BY <1>2, OthersKeepTx DEF Next, OrdersNext
    <2> QED  BY <2>1 DEF TxPaysOneOrder
  <1> QED  BY <1>1, <1>2

(***************************************************************************)
(* Type correctness, and: a transaction pays one order, for any number of  *)
(* orders and runs, provided runs do not overlap or the index exists.      *)
(***************************************************************************)
LEMMA LedgerInvInvariant == Spec => [](TypeOK /\ RunsFollowChain /\ TxPaysOneOrder)
  <1>1. Init => TypeOK /\ RunsFollowChain /\ TxPaysOneOrder
    <2> SUFFICES ASSUME Init PROVE TypeOK /\ RunsFollowChain /\ TxPaysOneOrder
      OBVIOUS
    <2>1. RunsFollowChain
      BY DEF Init, OrdersInit, RunsFollowChain, RunFollowsChain, Idle
    <2>2. TxPaysOneOrder
      BY DEF Init, OrdersInit, TxPaysOneOrder, NoOrder
    <2> QED  BY <2>1, <2>2, InitType
  <1>2. TypeOK /\ RunsFollowChain /\ TxPaysOneOrder /\ [Next]_vars
          => (TypeOK /\ RunsFollowChain /\ TxPaysOneOrder)'
    BY NextType, NextRuns, NextTxOnce
  <1> QED  BY <1>1, <1>2, PTL DEF Spec

\* Types of the tables, the runs and the chain (orders.go, payments_verify.go).
THEOREM TypeCorrect == Spec => []TypeOK
  BY LedgerInvInvariant, PTL

\* No two rows carry one tx_hash (payments_verify.go:92-134, config.go:142-155).
THEOREM TransactionPaysOneOrder == Spec => []TxPaysOneOrder
  BY LedgerInvInvariant, PTL

-----------------------------------------------------------------------------
(* What a step may do to a row.                                             *)

\* The columns that no statement changes.
SameOrder(o) ==
    /\ orders[o] \in OrderRow /\ orders'[o] \in OrderRow
    /\ orders'[o].user = orders[o].user
    /\ orders'[o].days = orders[o].days
    /\ orders'[o].asset = orders[o].asset
    /\ orders'[o].amount = orders[o].amount
    /\ orders'[o].expires = orders[o].expires
    /\ orders'[o].from = orders[o].from

\* A row stays, is settled once, or is deleted.
RowKept(o) ==
    \/ orders'[o] = orders[o]
    \/ orders'[o] = NoOrder
    \/ /\ SameOrder(o)
       /\ orders[o].status = "pending"
       /\ orders'[o].status \in {"paid", "expired"}

\* Settling a pending row leaves its other columns.
LEMMA SettleRow ==
    ASSUME TypeOK, NEW o \in OrderIds, Pending(o),
           NEW st \in {"paid", "expired"}, NEW tx \in Tx \cup {Null},
           orders'[o] = [orders[o] EXCEPT !.status = st, !.tx = tx]
    PROVE  RowKept(o)
  <1>1. orders[o] \in OrderRow
    BY DEF Pending, NoOrder, TypeOK, OrdersTypeOK
  <1> QED  BY <1>1 DEF RowKept, SameOrder, OrderRow, Pending

\* Expiring a pending row leaves its other columns.
LEMMA ExpireRow ==
    ASSUME TypeOK, NEW o \in OrderIds, Pending(o),
           orders'[o] = [orders[o] EXCEPT !.status = "expired"]
    PROVE  RowKept(o)
  <1>1. orders[o] \in OrderRow
    BY DEF Pending, NoOrder, TypeOK, OrdersTypeOK
  <1> QED  BY <1>1 DEF RowKept, SameOrder, OrderRow, Pending

\* Every step keeps, settles or deletes a row that is not new.
LEMMA RowStep ==
    ASSUME TypeOK, RunsFollowChain, [Next]_vars, NEW o \in OrderIds,
           ~ (o = nextOrder /\ \E u \in Users : InsertOrder(u))
    PROVE  RowKept(o)
  <1>0. orders \in [OrderIds -> OrderRow \cup {NoOrder}]
    BY DEF TypeOK, OrdersTypeOK
  <1>1. CASE \E u \in Users : InsertOrder(u)
    BY <1>0, <1>1 DEF InsertOrder, RowKept
  <1>2. CASE \E u \in Users, p \in OrderIds : CancelOrder(u, p)
    <2>1. PICK p \in OrderIds : Pending(p) /\ orders' = [orders EXCEPT ![p].status = "expired"]
      BY <1>2 DEF CancelOrder
    <2>2. CASE o = p
      BY <1>0, <2>1, <2>2, ExpireRow
    <2>3. CASE o # p
      BY <1>0, <2>1, <2>3 DEF RowKept
    <2> QED  BY <2>2, <2>3
  <1>3. CASE \E u \in Users : DeleteAccount(u)
    BY <1>3 DEF DeleteAccount, CascadeOrders, RowKept
  <1>4. CASE \E w \in Workers : StartRun(w)
    <2>1. CASE Pending(o) /\ orders[o].expires < now
      <3>1. \/ orders'[o] = [orders[o] EXCEPT !.status = "expired"]
            \/ orders'[o] = orders[o]
        BY <1>4, <2>1 DEF StartRun, ExpireStale
      <3> QED  BY <2>1, <3>1, ExpireRow DEF RowKept
    <2>2. CASE ~(Pending(o) /\ orders[o].expires < now)
      BY <1>4, <2>2 DEF StartRun, ExpireStale, RowKept
    <2> QED  BY <2>1, <2>2
  <1>5. CASE \E w \in Workers : ClaimOrder(w)
    <2>1. PICK w \in Workers : ClaimOrder(w)
      BY <1>5
    <2>2. Pending(worker[w].order) /\ worker[w].tr.tx \in Tx
      BY <2>1, ClaimIsFresh DEF ClaimOrder, Claimable
    <2>3. orders' = [orders EXCEPT ![worker[w].order] =
                       [orders[worker[w].order] EXCEPT !.status = "paid", !.tx = worker[w].tr.tx]]
      BY <2>1 DEF ClaimOrder
    <2>4. CASE o = worker[w].order
      <3>1. orders'[o] = [orders[o] EXCEPT !.status = "paid", !.tx = worker[w].tr.tx]
        BY <1>0, <2>3, <2>4
      <3> QED  BY <2>2, <2>4, <3>1, SettleRow
    <2>5. CASE o # worker[w].order
      BY <1>0, <2>3, <2>5 DEF RowKept
    <2> QED  BY <2>4, <2>5
  <1>6. CASE UNCHANGED orders
    BY <1>6 DEF RowKept
  <1>7. \/ \E u \in Users : InsertOrder(u) \/ DeleteAccount(u)
        \/ \E u \in Users, p \in OrderIds : CancelOrder(u, p)
        \/ \E w \in Workers : StartRun(w) \/ ClaimOrder(w)
        \/ UNCHANGED orders
    BY DEF Next, OrdersNext, RequestStep, ReserveAmount, ReserveBlind, ReserveBusy,
           InsertFails, LiftLimit, Pay, JobStep, RecoverOrder, CountPending, FetchTransfers, FetchFails,
           EndRun, FeedDone, SelectOrder, ClaimRollback, Interrupt, orderVars, vars
  <1> QED  BY <1>1, <1>2, <1>3, <1>4, <1>5, <1>6, <1>7

\* Ids and time only grow, and only an insert hands out an id.
LEMMA CountersStep ==
    ASSUME TypeOK, [Next]_vars
    PROVE  /\ now' \in Nat /\ now' >= now
           /\ nextOrder' = IF \E u \in Users : InsertOrder(u) THEN nextOrder + 1 ELSE nextOrder
  <1>1. nextOrder \in Nat \ {0} /\ now \in Nat
    BY DEF TypeOK, OrdersTypeOK, SubTypeOK
  <1>2. now' \in Nat /\ now' >= now
    <2>1. CASE Advance
      BY <1>1, <2>1 DEF Advance
    <2>2. CASE ~Advance
      <3>1. UNCHANGED now
        BY <2>2
           DEF Next, OrdersNext, RequestStep, ReserveAmount, ReserveBlind, ReserveBusy,
               InsertOrder, InsertFails, CancelOrder, DeleteAccount, LiftLimit, Pay, JobStep, StartRun,
               RecoverOrder, CountPending, FetchTransfers, FetchFails, EndRun, FeedDone,
               SelectOrder, ClaimOrder, ClaimRollback, Interrupt, vars, subVars
      <3> QED  BY <1>1, <3>1
    <2> QED  BY <2>1, <2>2
  <1>3. CASE \E u \in Users : InsertOrder(u)
    BY <1>2, <1>3 DEF InsertOrder
  <1>4. CASE ~\E u \in Users : InsertOrder(u)
    <2>1. UNCHANGED nextOrder
      BY <1>4
         DEF Next, OrdersNext, RequestStep, ReserveAmount, ReserveBlind, ReserveBusy,
             InsertFails, CancelOrder, DeleteAccount, LiftLimit, Pay, JobStep, StartRun, RecoverOrder,
             CountPending, FetchTransfers, FetchFails, EndRun, FeedDone, SelectOrder,
             ClaimOrder, ClaimRollback, Interrupt, Advance, orderVars, vars
    <2> QED  BY <1>2, <1>4, <2>1
  <1> QED  BY <1>3, <1>4

\* Ids that were not handed out have no row.
LEMMA NextFresh ==
    ASSUME TypeOK, RunsFollowChain, FreshIds, [Next]_vars
    PROVE  FreshIds'
  <1> SUFFICES ASSUME NEW o \in OrderIds, o >= nextOrder' PROVE orders'[o] = NoOrder
    BY DEF FreshIds
  <1>1. nextOrder \in Nat /\ o \in Nat
    BY OrderConstants DEF TypeOK, OrdersTypeOK, OrderIds
  <1>2. o >= nextOrder /\ ~ (o = nextOrder /\ \E u \in Users : InsertOrder(u))
    BY <1>1, CountersStep
  <1>3. RowKept(o) /\ orders[o] = NoOrder
    BY <1>2, RowStep DEF FreshIds
  <1> QED  BY <1>3 DEF RowKept, NoOrder

\* A settled row stays as it is or is deleted.
LEMMA NextSettled ==
    ASSUME TypeOK, RunsFollowChain, FreshIds, [Next]_vars,
           NEW o \in OrderIds, orders[o].status \in {"paid", "expired"}
    PROVE  orders'[o].status \in {orders[o].status, "none"}
  <1>1. nextOrder \in Nat /\ o \in Nat
    BY OrderConstants DEF TypeOK, OrdersTypeOK, OrderIds
  <1>2. o # nextOrder
    BY <1>1 DEF FreshIds, NoOrder
  <1>3. RowKept(o)
    BY <1>2, RowStep
  <1> QED  BY <1>3 DEF RowKept, NoOrder

-----------------------------------------------------------------------------
(* Reserved amounts.                                                        *)

\* A kept row that is live after the step was the same live row before.
LEMMA LiveBack ==
    ASSUME TypeOK, [Next]_vars, NEW o \in OrderIds, RowKept(o), Live(o)'
    PROVE  orders'[o] = orders[o] /\ Live(o)
  <1>1. now \in Nat /\ now' \in Nat /\ now' >= now
    BY CountersStep DEF TypeOK, SubTypeOK
  <1>2. orders'[o].status = "pending" /\ orders'[o].expires > now'
    BY DEF Live, Pending
  <1>3. orders'[o] = orders[o]
    BY <1>2 DEF RowKept, NoOrder
  <1>4. orders[o] \in OrderRow
    BY <1>2, <1>3 DEF TypeOK, OrdersTypeOK, NoOrder
  <1>5. orders[o].expires \in Nat
    BY <1>4 DEF OrderRow
  <1> QED  BY <1>1, <1>2, <1>3, <1>5 DEF Live, Pending

\* What a step does to a reservation: kept, dropped, or made by a SELECT.
LEMMA CreatingStep ==
    ASSUME TypeOK, [Next]_vars, NEW u \in Users, creating'[u] # Null
    PROVE  \/ creating'[u] = creating[u]
           \/ ReserveAmount(u)
           \/ ReserveBlind(u)
  <1>1. creating \in [Users -> Reservation \cup {Null}]
    BY DEF TypeOK, OrdersTypeOK
  <1>2. CASE \E v \in Users : ReserveAmount(v) \/ ReserveBlind(v)
    <2>1. PICK v \in Users : ReserveAmount(v) \/ ReserveBlind(v)
      BY <1>2
    <2>2. CASE v = u
      BY <2>1, <2>2
    <2>3. CASE v # u
      BY <1>1, <2>1, <2>3 DEF ReserveAmount, ReserveBlind
    <2> QED  BY <2>2, <2>3
  <1>3. CASE \E v \in Users : InsertOrder(v) \/ InsertFails(v)
    <2>1. PICK v \in Users : creating' = [creating EXCEPT ![v] = Null]
      BY <1>3 DEF InsertOrder, InsertFails
    <2> QED  BY <1>1, <2>1
  <1>4. CASE UNCHANGED creating
    BY <1>4
  <1>5. \/ \E v \in Users : ReserveAmount(v) \/ ReserveBlind(v)
        \/ \E v \in Users : InsertOrder(v) \/ InsertFails(v)
        \/ UNCHANGED creating
    BY DEF Next, OrdersNext, RequestStep, ReserveBusy, CancelOrder, DeleteAccount, LiftLimit, Pay, JobStep,
           StartRun, RecoverOrder, CountPending, FetchTransfers, FetchFails, EndRun, FeedDone,
           SelectOrder, ClaimOrder, ClaimRollback, Interrupt, orderVars, vars
  <1> QED  BY <1>2, <1>3, <1>4, <1>5

\* A reserved amount goes on differing from those its SELECT saw.
LEMMA NextReservations ==
    ASSUME TypeOK, RunsFollowChain, ReservationsSawOthers, [Next]_vars
    PROVE  ReservationsSawOthers'
  <1> SUFFICES ASSUME NEW u \in Users, creating'[u] # Null
               PROVE  /\ creating'[u].from <= nextOrder'
                      /\ \A o \in OrderIds :
                            o < creating'[u].from /\ Live(o)'
                                /\ orders'[o].asset = creating'[u].asset
                            => orders'[o].amount # creating'[u].amount
    BY DEF ReservationsSawOthers
  <1>1. nextOrder \in Nat \ {0} /\ nextOrder' \in Nat /\ nextOrder' >= nextOrder
    BY CountersStep DEF TypeOK, OrdersTypeOK
  <1>2. CASE creating'[u] = creating[u]
    <2>1. creating[u] \in Reservation
      BY <1>2 DEF TypeOK, OrdersTypeOK
    <2>2. creating[u].from \in Nat /\ creating[u].from <= nextOrder
      BY <1>2, <2>1 DEF ReservationsSawOthers, Reservation
    <2>3. ASSUME NEW o \in OrderIds, o < creating[u].from, Live(o)',
                 orders'[o].asset = creating[u].asset
          PROVE  orders'[o].amount # creating[u].amount
      <3>1. o # nextOrder
        BY <1>1, <2>2, <2>3, OrderConstants DEF OrderIds
      <3>2. orders'[o] = orders[o] /\ Live(o)
        BY <2>3, <3>1, RowStep, LiveBack
      <3> QED  BY <1>2, <2>3, <3>2 DEF ReservationsSawOthers
    <2> QED  BY <1>1, <1>2, <2>2, <2>3
  <1>3. CASE ReserveAmount(u)
    <2>1. PICK offer \in Offers, asset \in Assets :
            \E amount \in offer.base + 1 .. offer.base + MaxDelta :
              /\ amount \notin Taken(asset)
              /\ creating' = [creating EXCEPT ![u] = [days |-> offer.days, asset |-> asset,
                                amount |-> amount, from |-> nextOrder]]
      BY <1>3 DEF ReserveAmount, FreeAmount
    <2>2. PICK amount \in offer.base + 1 .. offer.base + MaxDelta :
              /\ amount \notin Taken(asset)
              /\ creating' = [creating EXCEPT ![u] = [days |-> offer.days, asset |-> asset,
                                amount |-> amount, from |-> nextOrder]]
      BY <2>1
    <2>3. creating'[u] = [days |-> offer.days, asset |-> asset, amount |-> amount,
                          from |-> nextOrder]
      BY <2>2 DEF TypeOK, OrdersTypeOK
    <2>4. UNCHANGED <<now, orders, nextOrder>>
      BY <1>3 DEF ReserveAmount
    <2>5. ASSUME NEW o \in OrderIds, Live(o)', orders'[o].asset = asset
          PROVE  orders'[o].amount # amount
      <3>1. Live(o) /\ orders[o].asset = asset
        BY <2>4, <2>5 DEF Live, Pending
      <3>2. orders[o].amount \in Taken(asset)
        BY <3>1 DEF Taken
      <3> QED  BY <2>2, <2>4, <3>2
    <2> QED  BY <1>1, <2>3, <2>5
  <1>4. CASE ReserveBlind(u)
    <2>1. PICK offer \in Offers, asset \in Assets :
            creating' = [creating EXCEPT ![u] = [days |-> offer.days, asset |-> asset,
                            amount |-> offer.base + 1, from |-> 1]]
      BY <1>4 DEF ReserveBlind
    <2>2. creating'[u].from = 1
      BY <2>1 DEF TypeOK, OrdersTypeOK
    <2> QED  BY <1>1, <2>2, OrderConstants DEF OrderIds
  <1> QED  BY <1>2, <1>3, <1>4, CreatingStep

\* The row an insert writes carries the amount reserved for it.
LEMMA NextShared ==
    ASSUME TypeOK, RunsFollowChain, FreshIds, ReservationsSawOthers, SharedAmountOnlyUnseen,
           [Next]_vars
    PROVE  SharedAmountOnlyUnseen'
  <1> SUFFICES ASSUME NEW o \in OrderIds, NEW p \in OrderIds, o < p, Live(o)', Live(p)',
                      orders'[o].asset = orders'[p].asset, orders'[o].amount = orders'[p].amount
               PROVE  o >= orders'[p].from
    BY OrderConstants DEF SharedAmountOnlyUnseen, SharedAmount, Unseen, OrderIds
  <1>1. nextOrder \in Nat \ {0} /\ o \in Nat /\ p \in Nat
    BY OrderConstants DEF TypeOK, OrdersTypeOK, OrderIds
  <1>2. CASE p = nextOrder /\ \E u \in Users : InsertOrder(u)
    <2>1. PICK u \in Users : InsertOrder(u)
      BY <1>2
    <2>2. /\ creating[u] \in Reservation
          /\ orders'[p].from = creating[u].from
          /\ orders'[p].asset = creating[u].asset
          /\ orders'[p].amount = creating[u].amount
      BY <1>2, <2>1 DEF InsertOrder, TypeOK, OrdersTypeOK
    <2>3. orders'[o] = orders[o] /\ Live(o)
      BY <1>1, <1>2, RowStep, LiveBack
    <2>4. ~ (o < creating[u].from)
      BY <2>1, <2>2, <2>3 DEF ReservationsSawOthers, InsertOrder
    <2>5. creating[u].from \in Nat
      BY <2>2 DEF Reservation
    <2> QED  BY <1>1, <2>2, <2>4, <2>5
  <1>3. CASE ~ (p = nextOrder /\ \E u \in Users : InsertOrder(u))
    <2>1. orders'[p] = orders[p] /\ Live(p)
      BY <1>3, RowStep, LiveBack
    <2>2. p < nextOrder
      BY <1>1, <2>1 DEF FreshIds, NoOrder, Live, Pending
    <2>3. orders'[o] = orders[o] /\ Live(o)
      BY <1>1, <2>2, RowStep, LiveBack
    <2> QED  BY <2>1, <2>3 DEF SharedAmountOnlyUnseen, SharedAmount, Unseen
  <1> QED  BY <1>2, <1>3

-----------------------------------------------------------------------------
(* Transfers and the orders they were meant for.                            *)

\* Transfers that are new were paid for an order that exists.
LEMMA ChainStep ==
    ASSUME [Next]_vars, NEW t \in chain', t \notin chain
    PROVE  \E o \in OrderIds :
              /\ UNCHANGED <<orders, nextOrder, now>>
              /\ orders[o].status # "none"
              /\ t.intent = o /\ t.asset = orders[o].asset
  <1>1. \E os \in SUBSET OrderIds, tx \in Tx : Pay(os, tx)
    BY DEF Next, OrdersNext, RequestStep, ReserveAmount, ReserveBlind, ReserveBusy,
           InsertOrder, InsertFails, CancelOrder, DeleteAccount, LiftLimit, JobStep, StartRun,
           RecoverOrder, CountPending, FetchTransfers, FetchFails, EndRun, FeedDone,
           SelectOrder, ClaimOrder, ClaimRollback, Interrupt, orderVars, vars
  <1> QED  BY <1>1 DEF Pay, subVars

\* The chain stays well formed.
LEMMA NextChain ==
    ASSUME TypeOK, RunsFollowChain, FreshIds, ChainWellFormed, [Next]_vars
    PROVE  ChainWellFormed'
  <1>1. nextOrder \in Nat \ {0} /\ nextOrder' \in Nat /\ nextOrder' >= nextOrder
    BY CountersStep DEF TypeOK, OrdersTypeOK
  <1>2. chain \subseteq chain'
    BY DEF Next, OrdersNext, RequestStep, ReserveAmount, ReserveBlind, ReserveBusy,
           InsertOrder, InsertFails, CancelOrder, DeleteAccount, LiftLimit, Pay, JobStep, StartRun,
           RecoverOrder, CountPending, FetchTransfers, FetchFails, EndRun, FeedDone,
           SelectOrder, ClaimOrder, ClaimRollback, Interrupt, orderVars, vars
  <1>3. ASSUME NEW t \in chain'
        PROVE  /\ t.intent < nextOrder'
               /\ orders'[t.intent] # NoOrder => orders'[t.intent].asset = t.asset
    <2>1. CASE t \in chain
      <3>1. t.intent \in OrderIds /\ t.intent < nextOrder
        BY <2>1 DEF ChainWellFormed, TypeOK, OrdersTypeOK, Transfer
      <3>2. RowKept(t.intent)
        BY <1>1, <3>1, RowStep, OrderConstants DEF OrderIds
      <3>3. orders'[t.intent] # NoOrder => orders'[t.intent].asset = t.asset
        BY <2>1, <3>1, <3>2 DEF RowKept, SameOrder, ChainWellFormed, OrderRow, NoOrder
      <3> QED  BY <1>1, <3>1, <3>3, OrderConstants DEF OrderIds
    <2>2. CASE t \notin chain
      <3>1. PICK o \in OrderIds : /\ UNCHANGED <<orders, nextOrder>>
                                  /\ orders[o].status # "none"
                                  /\ t.intent = o /\ t.asset = orders[o].asset
        BY <2>2, ChainStep
      <3>2. o < nextOrder
        BY <1>1, <3>1, OrderConstants DEF FreshIds, NoOrder, OrderIds
      <3> QED  BY <3>1, <3>2
    <2> QED  BY <2>1, <2>2
  <1> QED  BY <1>3 DEF ChainWellFormed

-----------------------------------------------------------------------------
(* What a run has selected.                                                 *)

\* A run comes to hold an order only by selecting it.
LEMMA ClaimStep ==
    ASSUME TypeOK, [Next]_vars, NEW w \in Workers, worker'[w].pc = "claim"
    PROVE  \/ worker'[w] = worker[w]
           \/ /\ UNCHANGED <<now, orders, nextOrder, chain>>
              /\ Live(worker'[w].order) /\ worker'[w].order \in OrderIds
              /\ Matches(worker'[w].order, worker'[w].tr) /\ worker'[w].tr \in chain
  <1>1. worker \in [Workers -> WorkerState]
    BY DEF TypeOK, OrdersTypeOK
  <1>2. CASE \E v \in Workers : JobStep(v)
    <2>1. PICK v \in Workers : JobStep(v)
      BY <1>2
    <2>2. CASE v # w
      <3>1. worker'[w] = worker[w]
        BY <1>1, <2>1, <2>2
           DEF JobStep, StartRun, RecoverOrder, CountPending, FetchTransfers, FetchFails,
               EndRun, FeedDone, SelectOrder, ClaimOrder, ClaimRollback, Interrupt
      <3> QED  BY <3>1
    <2>3. CASE v = w /\ \E t \in chain : SelectOrder(w, t)
      <3>1. PICK t \in chain : SelectOrder(w, t)
        BY <2>3
      <3>2. CASE worker' = [worker EXCEPT ![w].feed = @ \ {t}]
        <4>1. worker'[w].pc = worker[w].pc
          BY <1>1, <3>2 DEF WorkerState
        <4> QED  BY <3>1, <4>1 DEF SelectOrder
      <3>3. CASE worker' # [worker EXCEPT ![w].feed = @ \ {t}]
        <4>1. PICK o \in OrderIds :
                /\ Live(o) /\ Matches(o, t)
                /\ worker' = [worker EXCEPT ![w].pc = "claim", ![w].feed = @ \ {t},
                                            ![w].tr = t, ![w].order = o]
          BY <3>1, <3>3 DEF SelectOrder
        <4>2. worker'[w].order = o /\ worker'[w].tr = t
          BY <1>1, <4>1 DEF WorkerState
        <4>3. UNCHANGED <<now, orders, nextOrder, chain>>
          BY <3>1 DEF SelectOrder, subVars
        <4> QED  BY <4>1, <4>2, <4>3
      <3> QED  BY <3>2, <3>3
    <2>4. CASE v = w /\ ~\E t \in chain : SelectOrder(w, t)
      <3>1. CASE RecoverOrder(w)
        <4>1. worker[w].pc = "sweep" /\ \E s : worker' = [worker EXCEPT ![w].stuck = @ \ {s}]
          BY <3>1 DEF RecoverOrder
        <4> QED  BY <1>1, <4>1 DEF WorkerState
      <3>2. CASE \E net \in Networks : FetchTransfers(w, net) \/ FetchFails(w, net)
        <4>1. PICK net \in Networks : FetchTransfers(w, net) \/ FetchFails(w, net)
          BY <3>2
        <4>2. CASE FetchTransfers(w, net)
          BY <1>1, <4>2 DEF FetchTransfers, WorkerState
        <4>3. CASE FetchFails(w, net)
          BY <1>1, <4>3 DEF FetchFails, WorkerState
        <4> QED  BY <4>1, <4>2, <4>3
      <3>3. CASE CountPending(w)
        <4>1. \E N : worker' = [worker EXCEPT ![w].pc = "fetch", ![w].nets = N]
          BY <3>3 DEF CountPending
        <4> QED  BY <1>1, <4>1 DEF WorkerState
      <3>4. CASE FeedDone(w)
        BY <1>1, <3>4 DEF FeedDone, WorkerState
      <3>5. CASE StartRun(w)
        <4>1. \E S : worker' = [worker EXCEPT ![w] = [Idle EXCEPT !.pc = "sweep", !.stuck = S]]
          BY <3>5 DEF StartRun
        <4> QED  BY <1>1, <4>1 DEF Idle
      <3>6. CASE EndRun(w) \/ Interrupt(w)
        BY <1>1, <3>6 DEF EndRun, Interrupt, Idle
      <3>7. CASE ClaimOrder(w) \/ ClaimRollback(w)
        BY <1>1, <3>7 DEF ClaimOrder, ClaimRollback, WorkerState
      <3> QED  BY <2>1, <2>4, <3>1, <3>2, <3>3, <3>4, <3>5, <3>6, <3>7 DEF JobStep
    <2> QED  BY <2>2, <2>3, <2>4
  <1>3. CASE ~\E v \in Workers : JobStep(v)
    BY <1>3 DEF Next, OrdersNext, RequestStep, ReserveAmount, ReserveBlind, ReserveBusy,
                InsertOrder, InsertFails, CancelOrder, DeleteAccount, LiftLimit, Pay, orderVars, vars
  <1> QED  BY <1>2, <1>3

\* Two amounts within half a unit of the same sum are equal.
LEMMA SameSum ==
    ASSUME NEW o, NEW p, NEW t, orders[o].amount \in Nat, orders[p].amount \in Nat,
           t.sum \in Int, SumOf(o, t), SumOf(p, t)
    PROVE  orders[o].amount = orders[p].amount
  BY DEF SumOf, Grain

\* The order selected for a payment in time is the intended one, or unseen by it.
LEMMA SelectedOnTime ==
    ASSUME TypeOK, FreshIds, ChainWellFormed, SharedAmountOnlyUnseen,
           NEW o \in OrderIds, NEW t \in chain, Live(o), Matches(o, t)
    PROVE  SelectionOnTime(o, t)
  <1>1. /\ nextOrder \in Nat /\ o \in Nat /\ t.intent \in Nat /\ t.intent \in OrderIds
        /\ t.sum \in Int
    BY OrderConstants DEF TypeOK, OrdersTypeOK, OrderIds, Transfer
  <1>2. o < nextOrder
    BY <1>1 DEF FreshIds, NoOrder, Live, Pending
  <1>3. ASSUME Live(t.intent), SumOf(t.intent, t), t.intent # o
        PROVE  Unseen(t.intent, o)
    <2>1. orders[o] \in OrderRow /\ orders[t.intent] \in OrderRow
      BY <1>1, <1>3 DEF TypeOK, OrdersTypeOK, NoOrder, Live, Pending
    <2>2. orders[o].amount \in Nat /\ orders[t.intent].amount \in Nat
      BY <2>1 DEF OrderRow
    <2>3. SumOf(o, t)
      BY DEF Matches
    <2>4. orders[o].amount = orders[t.intent].amount
      BY <1>1, <1>3, <2>2, <2>3, SameSum
    <2>5. orders[o].asset = orders[t.intent].asset
      BY <1>1, <1>3 DEF Matches, ChainWellFormed, NoOrder, Live, Pending
    <2> QED  BY <1>1, <1>3, <2>4, <2>5 DEF SharedAmountOnlyUnseen, SharedAmount
  <1> QED  BY <1>2, <1>3 DEF SelectionOnTime

\* A selection stays good: rows keep their amounts, and deletion only frees them.
LEMMA SelectionKept ==
    ASSUME TypeOK, RunsFollowChain, FreshIds, ChainWellFormed, [Next]_vars,
           NEW o \in OrderIds, NEW t \in chain, SelectionOnTime(o, t)
    PROVE  SelectionOnTime(o, t)'
  <1>1. /\ nextOrder \in Nat \ {0} /\ nextOrder' \in Nat /\ nextOrder' >= nextOrder
        /\ o \in Nat /\ o < nextOrder
    BY CountersStep, OrderConstants DEF TypeOK, OrdersTypeOK, OrderIds, SelectionOnTime
  <1>2. t.intent \in OrderIds /\ t.intent \in Nat /\ t.intent < nextOrder
    BY OrderConstants DEF ChainWellFormed, TypeOK, OrdersTypeOK, Transfer, OrderIds
  <1>3. ASSUME Live(t.intent)', SumOf(t.intent, t)', t.intent # o
        PROVE  Unseen(t.intent, o)'
    <2>1. orders'[t.intent] = orders[t.intent] /\ Live(t.intent)
      BY <1>1, <1>2, <1>3, RowStep, LiveBack
    <2>2. SumOf(t.intent, t)
      BY <1>3, <2>1 DEF SumOf
    <2>3. Unseen(t.intent, o)
      BY <1>3, <2>1, <2>2 DEF SelectionOnTime
    <2>4. RowKept(o)
      BY <1>1, RowStep
    <2>5. orders'[o].from \in {orders[o].from, 0}
      BY <2>4 DEF RowKept, SameOrder, NoOrder
    <2> QED  BY <1>1, <1>2, <2>1, <2>3, <2>5 DEF Unseen
  <1>4. o < nextOrder'
    BY <1>1
  <1> QED  BY <1>3, <1>4 DEF SelectionOnTime

\* A selection stays right until its claim.
LEMMA NextSelections ==
    ASSUME TypeOK, RunsFollowChain, FreshIds, ChainWellFormed, SharedAmountOnlyUnseen,
           SelectionsOnTime, [Next]_vars
    PROVE  SelectionsOnTime'
  <1> SUFFICES ASSUME NEW w \in Workers, worker'[w].pc = "claim"
               PROVE  SelectionOnTime(worker[w].order, worker[w].tr)'
    BY DEF SelectionsOnTime
  <1>1. CASE worker'[w] = worker[w]
    <2>1. worker[w].order \in OrderIds /\ worker[w].tr \in chain
      BY <1>1 DEF RunsFollowChain, RunFollowsChain
    <2>2. SelectionOnTime(worker[w].order, worker[w].tr)
      BY <1>1 DEF SelectionsOnTime
    <2>3. PICK o \in OrderIds, t \in chain : o = worker[w].order /\ t = worker[w].tr
      BY <2>1
    <2>4. SelectionOnTime(o, t)'
      BY <2>2, <2>3, SelectionKept
    <2> QED  BY <1>1, <2>3, <2>4
  <1>2. CASE worker'[w] # worker[w]
    BY <1>2, ClaimStep, SelectedOnTime
       DEF SelectionOnTime, Live, Pending, SumOf, Unseen
  <1> QED  BY <1>1, <1>2

-----------------------------------------------------------------------------
(* The inductive invariant, and what follows from it.                       *)

\* The invariant holds at the start.
LEMMA OrdersStart == Init => OrdersInv
  <1> SUFFICES ASSUME Init PROVE OrdersInv
    OBVIOUS
  <1>1. RunsFollowChain /\ SelectionsOnTime
    BY DEF Init, OrdersInit, RunsFollowChain, RunFollowsChain, SelectionsOnTime, Idle
  <1>2. TxPaysOneOrder /\ FreshIds /\ SharedAmountOnlyUnseen
    BY DEF Init, OrdersInit, TxPaysOneOrder, FreshIds, SharedAmountOnlyUnseen, Live, Pending,
           NoOrder
  <1>3. ReservationsSawOthers /\ ChainWellFormed
    BY DEF Init, OrdersInit, ReservationsSawOthers, ChainWellFormed
  <1> QED  BY <1>1, <1>2, <1>3, InitType DEF OrdersInv

\* Every step keeps the invariant.
LEMMA OrdersStep == OrdersInv /\ [Next]_vars => OrdersInv'
  <1> SUFFICES ASSUME OrdersInv, [Next]_vars PROVE OrdersInv'
    OBVIOUS
  <1> USE DEF OrdersInv
  <1>1. TypeOK' /\ RunsFollowChain' /\ TxPaysOneOrder'
    BY NextType, NextRuns, NextTxOnce
  <1>2. FreshIds' /\ ReservationsSawOthers'
    BY NextFresh, NextReservations
  <1>3. SharedAmountOnlyUnseen' /\ ChainWellFormed'
    BY NextShared, NextChain
  <1>4. SelectionsOnTime'
    BY NextSelections
  <1> QED  BY <1>1, <1>2, <1>3, <1>4

\* The inductive invariant of Orders.
LEMMA OrdersInvariant == Spec => []OrdersInv
  BY OrdersStart, OrdersStep, PTL DEF Spec

\* An amount is shared by live orders only if the later one did not see the
\* earlier one (CreateOrder, orders.go:72-99).
THEOREM AmountsSharedOnlyUnseen == Spec => []SharedAmountOnlyUnseen
  <1>1. OrdersInv => SharedAmountOnlyUnseen
    BY DEF OrdersInv
  <1> QED  BY <1>1, OrdersInvariant, PTL

\* A settled order stays settled, whatever cancels, expiries, claims and
\* deletions interleave (orders.go:171-173, payments_verify.go:127-134).
THEOREM SettledForGood == Spec => SettledStaysSettled
  <1>1. OrdersInv /\ [Next]_vars
          => [\A o \in OrderIds :
                orders[o].status \in {"paid", "expired"} =>
                   orders'[o].status \in {orders[o].status, "none"}]_orders
    BY NextSettled DEF OrdersInv
  <1> QED  BY <1>1, OrdersInvariant, PTL DEF Spec, SettledStaysSettled

\* A transfer credited to another order than the payer meant, while that one was
\* live, found an order that did not see it.
LEMMA CreditedUnseen ==
    ASSUME OrdersInv, [Next]_vars,
           NEW c \in credits' \ credits, NEW w \in Workers, worker'[w] # worker[w],
           worker[w].tr.intent # c[1], Live(worker[w].tr.intent),
           SumOf(worker[w].tr.intent, worker[w].tr)
    PROVE  Unseen(worker[w].tr.intent, c[1])
  <1>1. ClaimOrder(w)
    <2>1. PICK v \in Workers : ClaimOrder(v)
      BY DEF Next, OrdersNext, RequestStep, ReserveAmount, ReserveBlind, ReserveBusy,
             InsertOrder, InsertFails, CancelOrder, DeleteAccount, LiftLimit, Pay, JobStep, StartRun,
             RecoverOrder, CountPending, FetchTransfers, FetchFails, EndRun, FeedDone,
             SelectOrder, ClaimRollback, Interrupt, orderVars, vars
    <2>2. worker \in [Workers -> WorkerState]
      BY DEF OrdersInv, TypeOK, OrdersTypeOK
    <2> QED  BY <2>1, <2>2 DEF ClaimOrder
  <1>2. c = <<worker[w].order, worker[w].tr.tx>> /\ worker[w].pc = "claim"
    BY <1>1 DEF ClaimOrder
  <1>3. SelectionOnTime(worker[w].order, worker[w].tr)
    BY <1>2 DEF OrdersInv, SelectionsOnTime
  <1> QED  BY <1>2, <1>3 DEF SelectionOnTime

\* A payment for a live order is credited to that order, for any number of
\* orders, amounts, payers' drifts and overlapping runs, unless it shares its
\* amount with an order it did not see (payments_verify.go:109-142).
THEOREM OnTimePayments == Spec => OnTimePaymentReachesItsOrder
  <1>1. OrdersInv /\ [Next]_vars
          => [\A c \in credits' \ credits, w \in Workers :
                LET t == worker[w].tr
                IN  /\ worker'[w] # worker[w] /\ t.intent # c[1]
                    /\ Live(t.intent) /\ SumOf(t.intent, t)
                    => Unseen(t.intent, c[1])]_credits
    BY CreditedUnseen
  <1> QED  BY <1>1, OrdersInvariant, PTL DEF Spec, OnTimePaymentReachesItsOrder

-----------------------------------------------------------------------------
(* Paid rows and credits.                                                   *)

\* Only ids that were handed out are credited.
CreditsOfOrders ==
    PaidIffCredited /\ \A c \in credits : c[1] < nextOrder

\* No order is credited before it exists.
LEMMA CreditsStart == Init => CreditsOfOrders
  BY DEF Init, OrdersInit, CreditsOfOrders, PaidIffCredited, NoOrder

\* Only a claim credits an order.
LEMMA OnlyClaimsCredit ==
    ASSUME [Next]_vars, ~\E w \in Workers : ClaimOrder(w)
    PROVE  credits' = credits
  BY DEF Next, OrdersNext, RequestStep, ReserveAmount, ReserveBlind, ReserveBusy, InsertOrder,
         InsertFails, CancelOrder, DeleteAccount, LiftLimit, Pay, JobStep, StartRun,
         RecoverOrder, CountPending, FetchTransfers, FetchFails, EndRun, FeedDone,
         SelectOrder, ClaimRollback, Interrupt, orderVars, vars

\* A step that claims nothing pays no row.
LEMMA UnpaidStep ==
    ASSUME TypeOK, [Next]_vars, ~\E w \in Workers : ClaimOrder(w), NEW o \in OrderIds
    PROVE  \/ orders'[o] = orders[o]
           \/ orders'[o].status = "none"
           \/ orders[o].status = "pending" /\ orders'[o].status = "expired"
           \/ o = nextOrder /\ orders'[o].status = "pending"
  <1>0. orders \in [OrderIds -> OrderRow \cup {NoOrder}]
    BY DEF TypeOK, OrdersTypeOK
  <1>9. ASSUME orders[o].status = "pending"
        PROVE  [orders[o] EXCEPT !.status = "expired"].status = "expired"
    <2>1. orders[o] \in OrderRow
      BY <1>0, <1>9 DEF NoOrder
    <2> QED  BY <2>1 DEF OrderRow
  <1>1. CASE \E u \in Users : InsertOrder(u)
    BY <1>0, <1>1 DEF InsertOrder
  <1>2. CASE \E u \in Users, p \in OrderIds : CancelOrder(u, p)
    <2>1. PICK p \in OrderIds : Pending(p) /\ orders' = [orders EXCEPT ![p].status = "expired"]
      BY <1>2 DEF CancelOrder
    <2>2. CASE o = p
      <3>1. orders[o].status = "pending"
        BY <2>1, <2>2 DEF Pending
      <3>2. orders'[o] = [orders[o] EXCEPT !.status = "expired"]
        BY <1>0, <2>1, <2>2
      <3> QED  BY <1>9, <3>1, <3>2
    <2>3. CASE o # p
      BY <1>0, <2>1, <2>3
    <2> QED  BY <2>2, <2>3
  <1>3. CASE \E u \in Users : DeleteAccount(u)
    BY <1>3 DEF DeleteAccount, CascadeOrders, NoOrder
  <1>4. CASE \E w \in Workers : StartRun(w)
    <2>1. \/ orders'[o] = orders[o]
          \/ /\ orders[o].status = "pending"
             /\ orders'[o] = [orders[o] EXCEPT !.status = "expired"]
      BY <1>4 DEF StartRun, ExpireStale, Pending
    <2> QED  BY <1>9, <2>1
  <1>5. CASE UNCHANGED orders
    BY <1>5
  <1>6. \/ \E u \in Users : InsertOrder(u) \/ DeleteAccount(u)
        \/ \E u \in Users, p \in OrderIds : CancelOrder(u, p)
        \/ \E w \in Workers : StartRun(w)
        \/ UNCHANGED orders
    BY DEF Next, OrdersNext, RequestStep, ReserveAmount, ReserveBlind, ReserveBusy,
           InsertFails, LiftLimit, Pay, JobStep, RecoverOrder, CountPending, FetchTransfers,
           FetchFails, EndRun, FeedDone, SelectOrder, ClaimRollback, Interrupt, orderVars, vars
  <1> QED  BY <1>1, <1>2, <1>3, <1>4, <1>5, <1>6

\* A step pays a row and credits it together, or neither.
LEMMA NextCredits ==
    ASSUME TypeOK, FreshIds, RunsFollowChain, CreditsOfOrders, [Next]_vars
    PROVE  CreditsOfOrders'
  <1>1. /\ orders \in [OrderIds -> OrderRow \cup {NoOrder}] /\ credits \subseteq OrderIds \X Tx
        /\ nextOrder \in Nat /\ nextOrder' \in Nat /\ nextOrder' >= nextOrder
        /\ OrderIds \subseteq Nat
    BY CountersStep DEF TypeOK, OrdersTypeOK, OrderIds
  <1>2. CASE \E w \in Workers : ClaimOrder(w)
    <2>1. PICK w \in Workers : ClaimOrder(w)
      BY <1>2
    <2>2. PICK o \in OrderIds, tx \in Tx :
             /\ orders' = [orders EXCEPT ![o] = [orders[o] EXCEPT !.status = "paid", !.tx = tx]]
             /\ credits' = credits \cup {<<o, tx>>}
             /\ Pending(o)
      BY <2>1, ClaimIsFresh DEF ClaimOrder, Claimable
    <2>3. o \in OrderIds
      BY <2>2
    <2>4. orders[o] \in OrderRow /\ o < nextOrder
      BY <1>1, <2>2, <2>3 DEF Pending, NoOrder, FreshIds
    <2>5. /\ orders'[o].status = "paid" /\ orders'[o].tx = tx
          /\ \A p \in OrderIds \ {o} : orders'[p] = orders[p]
      BY <1>1, <2>2, <2>3, <2>4 DEF OrderRow
    <2>6. \A c \in credits : c[1] # o
      BY <2>2, <2>3 DEF CreditsOfOrders, PaidIffCredited, Pending
    <2>7. PaidIffCredited'
      <3> SUFFICES ASSUME NEW p \in OrderIds
                   PROVE  /\ orders'[p].status = "paid" => <<p, orders'[p].tx>> \in credits'
                          /\ \A c \in credits' : c[1] = p =>
                               \/ orders'[p].status = "none"
                               \/ (orders'[p].status = "paid" /\ orders'[p].tx = c[2])
        BY DEF PaidIffCredited
      <3>1. CASE p = o
        BY <2>2, <2>5, <2>6, <3>1
      <3>2. CASE p # o
        <4>1. orders'[p] = orders[p]
          BY <2>5, <3>2
        <4>2. \A c \in credits' : c[1] = p => c \in credits
          BY <2>2, <3>2
        <4>3. orders[p].status = "paid" => <<p, orders[p].tx>> \in credits
          BY DEF CreditsOfOrders, PaidIffCredited
        <4>4. \A c \in credits : c[1] = p =>
                 orders[p].status = "none" \/ (orders[p].status = "paid" /\ orders[p].tx = c[2])
          BY DEF CreditsOfOrders, PaidIffCredited
        <4>5. credits \subseteq credits'
          BY <2>2
        <4> QED  BY <4>1, <4>2, <4>3, <4>4, <4>5
      <3> QED  BY <3>1, <3>2
    <2>8. \A c \in credits' : c[1] < nextOrder'
      <3> SUFFICES ASSUME NEW c \in credits' PROVE c[1] < nextOrder'
        OBVIOUS
      <3>1. CASE c = <<o, tx>>
        BY <1>1, <2>3, <2>4, <3>1
      <3>2. CASE c \in credits
        <4>1. c[1] < nextOrder /\ c[1] \in Nat
          BY <1>1, <3>2 DEF CreditsOfOrders
        <4> QED  BY <1>1, <4>1
      <3> QED  BY <2>2, <3>1, <3>2
    <2> QED  BY <2>7, <2>8 DEF CreditsOfOrders
  <1>3. CASE ~\E w \in Workers : ClaimOrder(w)
    <2>1. \A o \in OrderIds :
            \/ orders'[o] = orders[o]
            \/ orders'[o].status = "none"
            \/ orders[o].status = "pending" /\ orders'[o].status = "expired"
            \/ o = nextOrder /\ orders'[o].status = "pending"
      BY <1>3, UnpaidStep
    <2>3. credits' = credits
      BY <1>3, OnlyClaimsCredit
    <2>4. PaidIffCredited'
      <3> SUFFICES ASSUME NEW o \in OrderIds
                   PROVE  /\ orders'[o].status = "paid" => <<o, orders'[o].tx>> \in credits
                          /\ \A c \in credits : c[1] = o =>
                               \/ orders'[o].status = "none"
                               \/ (orders'[o].status = "paid" /\ orders'[o].tx = c[2])
        BY <2>3 DEF PaidIffCredited
      <3>1. \A c \in credits : c[1] = o => o # nextOrder /\ orders[o].status # "pending"
        <4> SUFFICES ASSUME NEW c \in credits, c[1] = o
                     PROVE  o # nextOrder /\ orders[o].status # "pending"
          OBVIOUS
        <4>1. o \in Nat /\ o < nextOrder
          BY <1>1 DEF CreditsOfOrders
        <4>2. orders[o].status \in {"none", "paid"}
          BY DEF CreditsOfOrders, PaidIffCredited
        <4> QED  BY <1>1, <4>1, <4>2
      <3>2. CASE orders'[o] = orders[o]
        BY <3>2 DEF CreditsOfOrders, PaidIffCredited
      <3>3. CASE orders'[o].status = "none"
        BY <3>3
      <3>4. ASSUME orders[o].status = "pending" \/ o = nextOrder
            PROVE  \A c \in credits : c[1] # o
        BY <3>1, <3>4
      <3>5. ASSUME \/ orders[o].status = "pending" /\ orders'[o].status = "expired"
                   \/ o = nextOrder /\ orders'[o].status = "pending"
            PROVE  orders'[o].status # "paid" /\ \A c \in credits : c[1] # o
        BY <3>4, <3>5
      <3> QED  BY <2>1, <3>2, <3>3, <3>5
    <2>5. \A c \in credits' : c[1] < nextOrder'
      <3> SUFFICES ASSUME NEW c \in credits PROVE c[1] < nextOrder'
        BY <2>3
      <3>1. c[1] < nextOrder /\ c[1] \in Nat
        BY <1>1 DEF CreditsOfOrders
      <3> QED  BY <1>1, <3>1
    <2> QED  BY <2>4, <2>5 DEF CreditsOfOrders
  <1> QED  BY <1>2, <1>3

\* The step that makes an order paid activates its buyer's account and adds the
\* days of the order to what the account has left.
PayingLandsDays ==
    [][\A o \in OrderIds : LET u == orders[o].user
                           IN  orders[o].status # "paid" /\ orders'[o].status = "paid" =>
                                 users'[u] = [exists |-> TRUE, active |-> TRUE,
                                              until  |-> Extended(now, users[u].until,
                                                                  orders[o].days)]]_orders

\* Either an order becomes paid and its days land, or neither.
LEMMA PaidStep ==
    ASSUME TypeOK, RunsFollowChain, [Next]_vars, NEW o \in OrderIds,
           orders[o].status # "paid", orders'[o].status = "paid"
    PROVE  users'[orders[o].user] =
             [exists |-> TRUE, active |-> TRUE,
              until |-> Extended(now, users[orders[o].user].until, orders[o].days)]
  <1>1. PICK w \in Workers : ClaimOrder(w)
    BY UnpaidStep
  <1>2. worker[w].order = o
    BY <1>1 DEF ClaimOrder, TypeOK, OrdersTypeOK
  <1>3. Pending(o)
    BY <1>1, <1>2 DEF ClaimOrder, Claimable
  <1>4. orders[o].user \in Users
    BY <1>3 DEF Pending, NoOrder, OrderRow, TypeOK, OrdersTypeOK
  <1> QED
    BY <1>1, <1>2, <1>4 DEF ClaimOrder, Extend, CreditDays, TypeOK, SubTypeOK

\* An order is paid exactly when a claim has credited it from the transaction it
\* records, until its account is deleted, and the step that makes it paid adds its
\* days to the account's expiry: a claim lands as a whole or not at all, whatever
\* is interrupted or rolled back (payments_verify.go:116-142).
THEOREM PaidMeansCredited == Spec => []PaidIffCredited /\ PayingLandsDays
  <1>1. Init => CreditsOfOrders
    BY CreditsStart
  <1>2. OrdersInv /\ CreditsOfOrders /\ [Next]_vars => CreditsOfOrders'
    BY NextCredits DEF OrdersInv
  <1>3. CreditsOfOrders => PaidIffCredited
    BY DEF CreditsOfOrders
  <1>4. OrdersInv /\ [Next]_vars =>
          [\A o \in OrderIds : LET u == orders[o].user
                              IN  orders[o].status # "paid" /\ orders'[o].status = "paid" =>
                                    users'[u] = [exists |-> TRUE, active |-> TRUE,
                                                 until  |-> Extended(now, users[u].until,
                                                                     orders[o].days)]]_orders
    BY PaidStep DEF OrdersInv
  <1>5. Spec => []PaidIffCredited
    BY <1>1, <1>2, <1>3, OrdersInvariant, PTL DEF Spec
  <1>6. Spec => PayingLandsDays
    BY <1>4, OrdersInvariant, PTL DEF Spec, PayingLandsDays
  <1> QED  BY <1>5, <1>6
=============================================================================
