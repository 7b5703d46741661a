------------------------------- MODULE Orders -------------------------------
(***************************************************************************)
(* Crypto payments: handlers/orders.go and handlers/payments_verify.go.    *)
(*                                                                         *)
(* CreateOrder reads the amounts that are taken and inserts its order in   *)
(* two statements without a transaction.  The verifyPayments cron job      *)
(* expires stale orders, sweeps paid orders of users without an expiry,    *)
(* then reads the wallets' histories and matches each transfer to a live   *)
(* order by asset and amount.  Every database statement or transaction is  *)
(* one action, so handlers and the job interleave between them.            *)
(***************************************************************************)
EXTENDS Subscription, FiniteSets

CONSTANTS
    Assets,     \* TON, USDT_TON, USDT_TRC20
    Networks,   \* the histories the job reads: TON and TRON
    NetOf,      \* the network that carries an asset
    Bundling,   \* networks that list each transfer of a transaction under its id
    Offers,     \* what may be quoted: [days, base price in units of 0.0001]
    MaxDelta,   \* largest increment tried over the base price (9000)
    Window,     \* orderWindow
    Tx,         \* transaction ids
    Drift,      \* what a payer may add to the amount shown, in quarter units
    Workers,    \* runs of VerifyPayments that may overlap
    TxIndex,    \* orders_tx_hash_uniq was built
    IgnoredErrors, \* statements whose errors the code ignores may fail
    MaxOrders   \* bound on the orders created (model checking only)

OrderIds == 1 .. MaxOrders

ASSUME OrderConstants ==
    /\ NetOf \in [Assets -> Networks]
    /\ Bundling \subseteq Networks
    /\ Offers \subseteq [days: Nat \ {0}, base: Nat]
    /\ MaxDelta \in Nat
    /\ Window \in Nat
    /\ Drift \subseteq Int
    /\ TxIndex \in BOOLEAN /\ IgnoredErrors \in BOOLEAN
    /\ MaxOrders \in Nat
    /\ Null \notin Tx \cup Users \cup Assets
    /\ OrderIds \subseteq Receipts

\* SkipIfStillRunning keeps one run at a time, and each run looks for the
\* transaction id first; the unique index protects the ledger should runs
\* overlap or that read fail.
ASSUME RunsOrIndex == TxIndex \/ (~IgnoredErrors /\ \A v, w \in Workers : v = w)

VARIABLES
    orders,     \* the orders table
    nextOrder,  \* the id of the next order; ids follow created_at
    creating,   \* per user, the CreateOrder call between its two statements
    chain,      \* finalized transfers to the wallets
    worker,     \* per worker, the VerifyPayments run
    credits     \* history: the <<order, tx>> pairs credited by matchAndPay

orderVars == <<orders, nextOrder, creating, chain, worker, credits>>

OrderRow ==
    [status: {"pending", "paid", "expired"}, user: Users, days: Nat,
     asset: Assets, amount: Nat, expires: Nat, tx: Tx \cup {Null}, from: Nat]

\* No such row.
NoOrder == [status |-> "none", user |-> Null, days |-> 0, asset |-> Null,
            amount |-> 0, expires |-> 0, tx |-> Null, from |-> 0]

\* A transfer, and (history) the order whose amount the payer meant to send.
Transfer == [tx: Tx, asset: Assets, sum: Int, intent: OrderIds]

\* What CreateOrder carries from its SELECT to its INSERT; from is history:
\* orders numbered below it were seen by the SELECT.
Reservation == [days: Nat, asset: Assets, amount: Nat, from: Nat]

Stuck == [order: OrderIds, user: Users, days: Nat]

WorkerState ==
    [pc: {"idle", "sweep", "fetch", "match", "claim"},
     stuck: SUBSET Stuck,               \* rows the sweep still has to extend
     nets: SUBSET Networks,             \* histories still to read
     feed: SUBSET Transfer,             \* transfers still to match
     tr: Transfer \cup {Null},          \* the transfer being credited
     order: OrderIds \cup {Null}]       \* and the order selected for it

Idle == [pc |-> "idle", stuck |-> {}, nets |-> {}, feed |-> {},
         tr |-> Null, order |-> Null]

Pending(o) == orders[o].status = "pending"
Live(o)    == Pending(o) /\ orders[o].expires > now

-----------------------------------------------------------------------------
(* CreateOrder, CancelOrder and account deletion.                           *)

\* Mutation: expires_at < NOW(), the comparison the wrong way round.
TakenLapsed(asset) ==
    {orders[o].amount : o \in {p \in OrderIds : /\ Pending(p) /\ orders[p].expires < now
                                                /\ orders[p].asset = asset}}

\* Amounts held by live orders for an asset.
Taken(asset) == {orders[o].amount : o \in {p \in OrderIds : Live(p) /\ orders[p].asset = asset}}

\* base + the smallest increment that is free.
FreeAmount(base, asset, amount) ==
    \E k \in 1 .. MaxDelta :
        /\ amount = base + k
        /\ amount \notin Taken(asset)
        /\ \A j \in 1 .. k - 1 : base + j \in Taken(asset)

\* The user row is ensured; an error goes unnoticed.
EnsureBuyer(u) == EnsureUser(u) \/ (IgnoredErrors /\ UNCHANGED <<users, granted>>)

\* Then the taken amounts are read and one chosen.
ReserveAmount(u) ==
    /\ creating[u] = Null
    /\ EnsureBuyer(u)
    /\ \E offer \in Offers, asset \in Assets :
         \E amount \in offer.base + 1 .. offer.base + MaxDelta :
            /\ FreeAmount(offer.base, asset, amount)
            /\ creating' = [creating EXCEPT ![u] =
                              [days |-> offer.days, asset |-> asset,
                               amount |-> amount, from |-> nextOrder]]
    /\ UNCHANGED <<now, orders, nextOrder, chain, worker, credits>>

\* The SELECT failed: its error is ignored and no amount counts as taken.
ReserveBlind(u) ==
    /\ IgnoredErrors
    /\ creating[u] = Null
    /\ MaxDelta >= 1
    /\ EnsureBuyer(u)
    /\ \E offer \in Offers, asset \in Assets :
         creating' = [creating EXCEPT ![u] =
                        [days |-> offer.days, asset |-> asset,
                         amount |-> offer.base + 1, from |-> 1]]
    /\ UNCHANGED <<now, orders, nextOrder, chain, worker, credits>>

\* No increment is free: 503 BUSY.
ReserveBusy(u) ==
    /\ creating[u] = Null
    /\ EnsureBuyer(u)
    /\ \E offer \in Offers, asset \in Assets :
         \A amount \in offer.base + 1 .. offer.base + MaxDelta :
            ~FreeAmount(offer.base, asset, amount)
    /\ UNCHANGED <<now, orders, nextOrder, creating, chain, worker, credits>>

InsertOrder(u) ==
    /\ creating[u] # Null
    /\ users[u].exists
    /\ nextOrder <= MaxOrders
    /\ orders' = [orders EXCEPT ![nextOrder] =
                    [status |-> "pending", user |-> u, days |-> creating[u].days,
                     asset |-> creating[u].asset, amount |-> creating[u].amount,
                     expires |-> now + Window, tx |-> Null,
                     from |-> creating[u].from]]
    /\ nextOrder' = nextOrder + 1
    /\ creating' = [creating EXCEPT ![u] = Null]
    /\ UNCHANGED <<subVars, chain, worker, credits>>

\* The account is gone (the foreign key rejects the row) or the request died.
InsertFails(u) ==
    /\ creating[u] # Null
    /\ creating' = [creating EXCEPT ![u] = Null]
    /\ UNCHANGED <<subVars, orders, nextOrder, chain, worker, credits>>

\* Mutation: no status = 'pending' in the UPDATE.
CancelAnyOrder(u, o) ==
    /\ orders[o].status # "none" /\ orders[o].user = u
    /\ orders' = [orders EXCEPT ![o].status = "expired"]
    /\ UNCHANGED <<subVars, nextOrder, creating, chain, worker, credits>>

CancelOrder(u, o) ==
    /\ Pending(o) /\ orders[o].user = u
    /\ orders' = [orders EXCEPT ![o].status = "expired"]
    /\ UNCHANGED <<subVars, nextOrder, creating, chain, worker, credits>>

\* orders.user_id REFERENCES users(id) ON DELETE CASCADE.
CascadeOrders(u) ==
    orders' = [o \in OrderIds |-> IF orders[o].user = u THEN NoOrder ELSE orders[o]]

DeleteAccount(u) ==
    /\ users[u].exists
    /\ DropUser(u)
    /\ CascadeOrders(u)
    /\ UNCHANGED <<now, nextOrder, creating, chain, worker, credits>>

\* A lifetime key is redeemed (AccessKeys has the redemption itself): the paid
\* orders of the account now look uncredited to the sweep.
LiftLimit(u) == ClearExpiry(u) /\ UNCHANGED <<now, orderVars>>

-----------------------------------------------------------------------------
(* The chain: a payer sends the amounts shown for some orders, give or take  *)
(* a drift, at any time after they were shown, also when an order is no      *)
(* longer open; the transfers appear in the history once they are final.     *)
(* TRON lists every transfer of a transaction under the id of the            *)
(* transaction; the TON history has an id for each.                          *)

Grain == 4      \* quarter units in one unit of 0.0001

\* One transaction may carry several transfers only where they share its id.
Pay(os, tx) ==
    /\ os # {} /\ \A o \in os : orders[o].status # "none"
    /\ \A o, p \in os : o # p => /\ NetOf[orders[o].asset] \in Bundling
                                /\ NetOf[orders[o].asset] = NetOf[orders[p].asset]
    /\ \A t \in chain : t.tx # tx
    /\ \E d \in [os -> Drift] :
         chain' = chain \cup {[tx |-> tx, asset |-> orders[o].asset,
                               sum |-> Grain * orders[o].amount + d[o], intent |-> o] :
                                  o \in os}
    /\ UNCHANGED <<subVars, orders, nextOrder, creating, worker, credits>>

-----------------------------------------------------------------------------
(* VerifyPayments.                                                          *)

\* UPDATE orders SET status='expired' WHERE pending AND expires_at < NOW(),
\* then the sweep's SELECT.
ExpireStale ==
    orders' = [o \in OrderIds |->
                 IF Pending(o) /\ orders[o].expires < now
                 THEN [orders[o] EXCEPT !.status = "expired"] ELSE orders[o]]

\* Mutation: every paid order is recovered, every time.
EveryPaidOrder ==
    {[order |-> o, user |-> orders[o].user, days |-> orders[o].days] :
        o \in {p \in OrderIds : orders[p].status = "paid"}}

\* Paid orders whose user has no expiry.
StuckOrders ==
    {[order |-> o, user |-> orders[o].user, days |-> orders[o].days] :
        o \in {p \in OrderIds : orders[p].status = "paid"
                                /\ users[orders[p].user].until = Null}}

StartRun(w) ==
    /\ worker[w].pc = "idle"
    /\ ExpireStale \/ (IgnoredErrors /\ UNCHANGED orders)
    /\ \E rows \in {StuckOrders} \cup (IF IgnoredErrors THEN {{}} ELSE {}) :
         worker' = [worker EXCEPT ![w] = [Idle EXCEPT !.pc = "sweep", !.stuck = rows]]
    /\ UNCHANGED <<subVars, nextOrder, creating, chain, credits>>

\* extendSubscription for one row of the sweep, in a statement of its own; an
\* error skips the row.
RecoverOrder(w) ==
    /\ worker[w].pc = "sweep"
    /\ \E s \in worker[w].stuck :
         /\ Extend(s.user, s.order, s.days) \/ UNCHANGED <<users, granted>>
         /\ worker' = [worker EXCEPT ![w].stuck = @ \ {s}]
    /\ UNCHANGED <<now, orders, nextOrder, creating, chain, credits>>

\* Mutation: only the newest order is looked at.
NetOfNewest ==
    {NetOf[orders[o].asset] : o \in {p \in OrderIds :
        Live(p) /\ \A q \in OrderIds : Live(q) => q <= p}}

\* A history without a live order is not read.
NetsToRead == {NetOf[orders[o].asset] : o \in {p \in OrderIds : Live(p)}}

CountPending(w) ==
    /\ worker[w].pc = "sweep" /\ worker[w].stuck = {}
    /\ worker' = [worker EXCEPT ![w].pc = "fetch", ![w].nets = NetsToRead]
    /\ UNCHANGED <<subVars, orders, nextOrder, creating, chain, credits>>

\* Read one history; an error of the explorer yields no transfers.  The code
\* reads TON before TRON; here the order is free.
FetchTransfers(w, net) ==
    /\ worker[w].pc = "fetch" /\ net \in worker[w].nets
    /\ worker' = [worker EXCEPT
         ![w].pc = "match",
         ![w].nets = @ \ {net},
         ![w].feed = {t \in chain : NetOf[t.asset] = net}]
    /\ UNCHANGED <<subVars, orders, nextOrder, creating, chain, credits>>

FetchFails(w, net) ==
    /\ worker[w].pc = "fetch" /\ net \in worker[w].nets
    /\ worker' = [worker EXCEPT ![w].nets = @ \ {net}]
    /\ UNCHANGED <<subVars, orders, nextOrder, creating, chain, credits>>

EndRun(w) ==
    /\ worker[w].pc = "fetch" /\ worker[w].nets = {}
    /\ worker' = [worker EXCEPT ![w] = Idle]
    /\ UNCHANGED <<subVars, orders, nextOrder, creating, chain, credits>>

FeedDone(w) ==
    /\ worker[w].pc = "match" /\ worker[w].feed = {}
    /\ worker' = [worker EXCEPT ![w].pc = "fetch"]
    /\ UNCHANGED <<subVars, orders, nextOrder, creating, chain, credits>>

\* Mutation: only open orders are looked at.
RecordedOpen(tx) == \E o \in OrderIds : Pending(o) /\ orders[o].tx = tx

Recorded(tx) == \E o \in OrderIds : orders[o].tx = tx

\* ABS(amount - $2) < amountEpsilon, half a unit.
SumOf(o, t) == Grain * orders[o].amount - t.sum \in -1 .. 1

\* Mutation: the asset is not compared.
MatchesAnyAsset(o, t) == SumOf(o, t)

Matches(o, t) == orders[o].asset = t.asset /\ SumOf(o, t)

\* The two SELECTs of matchAndPay: skip a recorded transaction (an error of this
\* read goes unnoticed), else take the oldest live order of that asset and amount,
\* or skip if there is none.
SelectOrder(w, t) ==
    LET open == {o \in OrderIds : Live(o) /\ Matches(o, t)}
    IN  /\ worker[w].pc = "match" /\ t \in worker[w].feed
        /\ \/ /\ Recorded(t.tx) \/ open = {}
              /\ worker' = [worker EXCEPT ![w].feed = @ \ {t}]
           \/ /\ ~Recorded(t.tx) \/ IgnoredErrors
              /\ \E o \in open :
                    /\ \A p \in open : o <= p
                    /\ worker' = [worker EXCEPT ![w].pc = "claim", ![w].feed = @ \ {t},
                                                ![w].tr = t, ![w].order = o]
        /\ UNCHANGED <<subVars, orders, nextOrder, creating, chain, credits>>

\* Mutation: no status = 'pending' in the UPDATE.
ClaimableAnyStatus(o, t) ==
    orders[o].status # "none" /\ (TxIndex => ~Recorded(t.tx))

\* The order is still pending, and the index does not refuse the id.
Claimable(o, t) == Pending(o) /\ (TxIndex => ~Recorded(t.tx))

\* The claim transaction: flip the order to paid if it is still pending, write
\* the transaction id (refused by the unique index if recorded), extend, commit.
ClaimOrder(w) ==
    LET o == worker[w].order
        t == worker[w].tr
    IN  /\ worker[w].pc = "claim"
        /\ Claimable(o, t)
        /\ orders' = [orders EXCEPT ![o].status = "paid", ![o].tx = t.tx]
        /\ Extend(orders[o].user, o, orders[o].days)
        /\ credits' = credits \cup {<<o, t.tx>>}
        /\ worker' = [worker EXCEPT ![w].pc = "match", ![w].tr = Null, ![w].order = Null]
        /\ UNCHANGED <<now, nextOrder, creating, chain>>

\* The order was settled or deleted meanwhile, the index refused the id, or a
\* statement failed: the transaction rolls back and the next transfer follows.
ClaimRollback(w) ==
    /\ worker[w].pc = "claim"
    /\ worker' = [worker EXCEPT ![w].pc = "match", ![w].tr = Null, ![w].order = Null]
    /\ UNCHANGED <<subVars, orders, nextOrder, creating, chain, credits>>

\* The job's two-minute timeout, or a restart of the api, ends the run.
Interrupt(w) ==
    /\ worker[w].pc # "idle"
    /\ worker' = [worker EXCEPT ![w] = Idle]
    /\ UNCHANGED <<subVars, orders, nextOrder, creating, chain, credits>>

-----------------------------------------------------------------------------
OrdersInit ==
    /\ orders = [o \in OrderIds |-> NoOrder]
    /\ nextOrder = 1
    /\ creating = [u \in Users |-> Null]
    /\ chain = {}
    /\ worker = [w \in Workers |-> Idle]
    /\ credits = {}

RequestStep(u) ==
    \/ ReserveAmount(u) \/ ReserveBlind(u) \/ ReserveBusy(u)
    \/ InsertOrder(u) \/ InsertFails(u)
    \/ \E o \in OrderIds : CancelOrder(u, o)

JobStep(w) ==
    \/ StartRun(w) \/ RecoverOrder(w) \/ CountPending(w)
    \/ \E net \in Networks : FetchTransfers(w, net) \/ FetchFails(w, net)
    \/ EndRun(w) \/ FeedDone(w)
    \/ \E t \in chain : SelectOrder(w, t)
    \/ ClaimOrder(w) \/ ClaimRollback(w) \/ Interrupt(w)

OrdersNext ==
    \/ \E u \in Users : RequestStep(u)
    \/ \E os \in SUBSET OrderIds, tx \in Tx : Pay(os, tx)
    \/ \E w \in Workers : JobStep(w)

vars == <<subVars, orderVars>>

Init == SubInit /\ OrdersInit

Next ==
    \/ OrdersNext
    \/ \E u \in Users : DeleteAccount(u) \/ LiftLimit(u)
    \/ Advance /\ UNCHANGED orderVars

Spec == Init /\ [][Next]_vars

\* The cron fires every minute, so an idle job starts.  A step that runs reach
\* again and again is eventually not cut short: explorers recover, transactions
\* commit, runs do not all time out at the same place.
JobFairness ==
    \A w \in Workers :
        /\ WF_vars(StartRun(w))
        /\ SF_vars(RecoverOrder(w)) /\ SF_vars(CountPending(w))
        /\ \A net \in Networks : SF_vars(FetchTransfers(w, net))
        /\ SF_vars(FeedDone(w)) /\ WF_vars(EndRun(w))
        /\ \A tx \in Tx, o \in OrderIds :
              SF_vars(\E t \in chain : t.tx = tx /\ t.intent = o /\ SelectOrder(w, t))
        /\ SF_vars(ClaimOrder(w)) /\ WF_vars(ClaimRollback(w))

FairSpec == Spec /\ JobFairness

-----------------------------------------------------------------------------
(* Properties.                                                              *)

OrdersTypeOK ==
    /\ orders \in [OrderIds -> OrderRow \cup {NoOrder}]
    /\ nextOrder \in Nat \ {0}
    /\ creating \in [Users -> Reservation \cup {Null}]
    /\ chain \subseteq Transfer
    /\ worker \in [Workers -> WorkerState]
    /\ credits \subseteq OrderIds \X Tx

TypeOK == SubTypeOK /\ OrdersTypeOK

(***************************************************************************)
(* A transaction pays one order: no two rows carry the same tx_hash, even  *)
(* when two runs match the same transfer at once (matchAndPay,             *)
(* payments_verify.go:92-134; the index of config.go:142-155).             *)
(***************************************************************************)
TxPaysOneOrder ==
    \A o, p \in OrderIds :
        orders[o].tx # Null /\ orders[o].tx = orders[p].tx => o = p

(***************************************************************************)
(* A paid row and its credit go together: each paid order was credited     *)
(* from the transaction it records, and each credited order is still paid  *)
(* by that transaction unless its account was deleted (the claim           *)
(* transaction, payments_verify.go:116-142).                               *)
(***************************************************************************)
PaidIffCredited ==
    \A o \in OrderIds :
        /\ orders[o].status = "paid" => <<o, orders[o].tx>> \in credits
        /\ \A c \in credits :
              c[1] = o => \/ orders[o].status = "none"
                          \/ (orders[o].status = "paid" /\ orders[o].tx = c[2])

(***************************************************************************)
(* CreateOrder gives a live order's amount to another order only when its  *)
(* SELECT did not see the first one: the two calls overlapped, or the      *)
(* SELECT failed (orders.go:72-99).                                        *)
(***************************************************************************)
SharedAmount(o, p) ==
    orders[o].asset = orders[p].asset /\ orders[o].amount = orders[p].amount

\* The later of two orders did not see the earlier one.
Unseen(o, p) ==
    /\ o < p => o >= orders[p].from
    /\ p < o => p >= orders[o].from

SharedAmountOnlyUnseen ==
    \A o, p \in OrderIds :
        Live(o) /\ Live(p) /\ SharedAmount(o, p) => Unseen(o, p)

(***************************************************************************)
(* A cancelled or expired order is never paid, and a paid one is never     *)
(* reopened: a cancel between the SELECT and the claim of matchAndPay wins *)
(* (orders.go:171-173 against payments_verify.go:127-134).                 *)
(***************************************************************************)
SettledStaysSettled ==
    [][\A o \in OrderIds :
         orders[o].status \in {"paid", "expired"} =>
            orders'[o].status \in {orders[o].status, "none"}]_orders

(***************************************************************************)
(* A payment for an order that is still live reaches that order: the       *)
(* matching by amount (payments_verify.go:109-115) credits another one     *)
(* only if the two reserved their amounts unseen by each other.  The       *)
(* transfer is the one the crediting run has at hand.                      *)
(***************************************************************************)
OnTimePaymentReachesItsOrder ==
    [][\A c \in credits' \ credits, w \in Workers :
         LET t == worker[w].tr
         IN  /\ worker'[w] # worker[w] /\ t.intent # c[1]
             /\ Live(t.intent) /\ SumOf(t.intent, t)
             => Unseen(t.intent, c[1])]_credits

(***************************************************************************)
(* A transfer that matches a live order and is not recorded yet is         *)
(* eventually recorded, or the order stops being live: runs that time out, *)
(* explorer errors and rolled-back claims are retried by later runs        *)
(* (payments_verify.go:79-88, 116-142).  Time need not pass.               *)
(***************************************************************************)
MatchedOrderSettles ==
    \A o \in OrderIds, tx \in Tx :
        (Live(o) /\ ~Recorded(tx) /\ \E t \in chain : t.tx = tx /\ Matches(o, t))
            ~> (~Live(o) \/ Recorded(tx))

-----------------------------------------------------------------------------
(* The inductive invariants behind these properties (see OrdersProofs).     *)

\* Ids are handed out once.
FreshIds == \A o \in OrderIds : o >= nextOrder => orders[o] = NoOrder

\* A run works on transfers of the chain; without the index nothing but its
\* own claim records the transaction it selected.
RunFollowsChain(w) ==
    /\ worker[w].feed \subseteq chain
    /\ worker[w].pc = "claim" =>
          /\ worker[w].order \in OrderIds
          /\ worker[w].tr \in chain
          /\ TxIndex \/ ~Recorded(worker[w].tr.tx)

RunsFollowChain == \A w \in Workers : RunFollowsChain(w)

\* A reserved amount differs from those of the live orders its SELECT saw.
ReservationsSawOthers ==
    \A u \in Users : creating[u] # Null =>
        /\ creating[u].from <= nextOrder
        /\ \A o \in OrderIds :
              /\ o < creating[u].from
              /\ Live(o)
              /\ orders[o].asset = creating[u].asset
              => orders[o].amount # creating[u].amount

\* A transfer is in the asset of its order.
ChainWellFormed ==
    \A t \in chain :
        /\ t.intent < nextOrder
        /\ orders[t.intent] # NoOrder => orders[t.intent].asset = t.asset

\* What a run selected for an exact payment of a live order.
SelectionOnTime(o, t) ==
    /\ o < nextOrder
    /\ Live(t.intent) /\ SumOf(t.intent, t) => t.intent = o \/ Unseen(t.intent, o)

SelectionsOnTime ==
    \A w \in Workers :
        worker[w].pc = "claim" => SelectionOnTime(worker[w].order, worker[w].tr)

OrdersInv ==
    /\ TypeOK
    /\ FreshIds
    /\ RunsFollowChain
    /\ TxPaysOneOrder
    /\ ReservationsSawOthers
    /\ SharedAmountOnlyUnseen
    /\ ChainWellFormed
    /\ SelectionsOnTime

-----------------------------------------------------------------------------
(* What documents and comments say of the program and its steps refute.     *)

(***************************************************************************)
(* "A pending order reserves a UNIQUE amount" (config.go:346): no two live *)
(* orders for an asset have the same amount.                               *)
(***************************************************************************)
UniqueLiveAmounts ==
    \A o, p \in OrderIds :
        Live(o) /\ Live(p) /\ SharedAmount(o, p) => o = p

(***************************************************************************)
(* "Idempotent: a tx is credited once" (payments_verify.go:93).            *)
(***************************************************************************)
TxCreditedOnce == \A c, d \in credits : c[2] = d[2] => c = d
=============================================================================
