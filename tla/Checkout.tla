------------------------------ MODULE Checkout ------------------------------
(***************************************************************************)
(* The payment screen of the Mini App (SubscribeSheet.tsx inside           *)
(* SubscriptionScreen.tsx, and WalletPay.tsx): choosing a plan and a       *)
(* method, creating an order, paying it by QR, by the connected wallet or  *)
(* by Stars, and polling for the credit.                                   *)
(*                                                                         *)
(* Every request is asynchronous and nothing ties an answer to the screen  *)
(* it was asked from: a request under way is its answer, delivered at any  *)
(* later moment.  The backend side of an order is here only its status;    *)
(* Orders is about how it gets paid.                                       *)
(***************************************************************************)
EXTENDS Naturals, FiniteSets

CONSTANTS
    OrderIds,   \* ids the backend may give to new orders
    Assets,     \* methods on offer
    PlanDays,   \* plans on offer
    FirstPlan,  \* the preselected one
    HadSub,     \* the buyer has a paid_until already
    Taps,       \* bound: taps on the wallet button under way
    MaxTicks,   \* bound on the answers to polls under way
    MaxCredits, \* bound: Stars are bought while credits are below
    None

TonNet == {"TON", "USDT_TON"}           \* payable from a TON Connect wallet

ASSUME CheckoutConstants ==
    /\ Assets \subseteq TonNet \cup {"USDT_TRC20", "STARS"}
    /\ FirstPlan \in PlanDays
    /\ HadSub \in BOOLEAN
    /\ None \notin OrderIds \cup Assets \cup Taps \cup Nat

VARIABLES
    shown,      \* the Subscription tab is selected
    plans,      \* "loading", "failed" or "ready"
    choice,     \* [asset, days]; asset = None: no method picked
    step,       \* "select", "pay" or "done"
    order,      \* the order on the pay screen; survives going back
    poll,       \* the order the 4 s interval asks about
    ticks,      \* its answers under way: [order, seen]
    busy,       \* Buy shows a spinner
    creating,   \* the Buy button's createOrder
    wallet,     \* per tap on the wallet button: its order and transfer
    tapped,     \* the tap the wallet button on screen waits for
    stars,      \* the Stars purchase
    orders,     \* the backend's orders
    credits     \* payments that have extended paid_until

screenVars   == <<shown, plans, choice, step, order, poll>>
walletVars   == <<wallet, tapped>>
payVars      == <<busy, creating, walletVars, stars>>
backendVars  == <<orders, credits>>
checkoutVars == <<screenVars, ticks, payVars, backendVars>>

Order   == [status: {"absent", "pending", "paid", "expired"},
            asset: Assets \cup {None}, days: PlanDays \cup {0}]
NoOrder == [status |-> "absent", asset |-> None, days |-> 0]

\* A request that creates an order, and the order once it exists.
Request == [pc: {"idle", "sent", "made", "signing"}, order: OrderIds \cup {None},
            asset: Assets \cup {None}, days: PlanDays \cup {0}]
NoRequest == [pc |-> "idle", order |-> None, asset |-> None, days |-> 0]

Pending == {o \in OrderIds : orders[o].status = "pending"}

\* paid_until: null until something is credited to a new buyer.
PaidUntil == IF credits = 0 /\ ~HadSub THEN None ELSE credits

\* Mutation: keyed on the step alone.
PollOfStep(s, o) ==
    IF s = step THEN poll ELSE IF s = "pay" /\ o # None THEN o ELSE None

\* The polling effect, keyed on [step, order]: a change of either restarts it.
PollOf(s, o) ==
    IF s = step /\ o = order THEN poll
    ELSE IF s = "pay" /\ o # None THEN o ELSE None

\* The QR view of an order, and the view that says it is paid.
PayView  == step = "pay" /\ order # None
DoneView == step = "done"

\* setStep and setOrder, and the effects that follow.
GoTo(s, o) ==
    /\ step' = s /\ order' = o
    /\ poll' = PollOf(s, o)
    /\ UNCHANGED <<shown, plans, choice>>

-----------------------------------------------------------------------------
(* The screen.                                                              *)

\* The wallet button is there while the chosen method is one of TonNet; what it
\* waits for goes with it, the request itself does not.
WalletButton == tapped' = IF choice'.asset \in TonNet THEN tapped ELSE None

\* Selecting the tab resets it to the plan list.
Show ==
    /\ ~shown /\ shown' = TRUE
    /\ step' = "select" /\ order' = None /\ poll' = PollOf("select", None)
    /\ choice' = [asset |-> None, days |-> FirstPlan]
    /\ plans' = IF plans = "failed" THEN "loading" ELSE plans
    /\ WalletButton
    /\ UNCHANGED <<ticks, busy, creating, wallet, stars, backendVars>>

\* Another tab: the screen stays mounted and keeps polling.
Hide ==
    /\ shown /\ shown' = FALSE
    /\ UNCHANGED <<plans, choice, step, order, poll, ticks, payVars, backendVars>>

\* Plans are loaded on showing, on Retry and on the return to the foreground;
\* a failure keeps what was loaded before.
PlansAnswer ==
    /\ plans # "ready"
    /\ plans' \in {"ready", IF plans = "failed" THEN "loading" ELSE "failed"}
    /\ UNCHANGED <<shown, choice, step, order, poll, ticks, payVars, backendVars>>

\* The plan list can be tapped: nothing covers it and there are plans.
Choosing == shown /\ step = "select" /\ plans = "ready"

\* The button below it pays by the chosen method, if there is one.
BuyOn(methods) == Choosing /\ choice.asset \in methods

\* Taps on a plan and on a method.
Choose ==
    /\ Choosing
    /\ \E a \in Assets, d \in PlanDays : choice' = [asset |-> a, days |-> d]
    /\ WalletButton
    /\ UNCHANGED <<shown, plans, step, order, poll, ticks, busy, creating, wallet,
                   stars, backendVars>>

\* ✕, back, or "Close" on the done view.
BackToPlans ==
    /\ shown /\ step # "select"
    /\ GoTo("select", order)
    /\ UNCHANGED <<ticks, payVars, backendVars>>

-----------------------------------------------------------------------------
(* Unfinished payments.                                                     *)

\* The list of unfinished payments is loaded whenever the plan list comes up.
\* Answers are not ordered and a cancelled order is only taken off the screen
\* until the next one: what is offered may be of any earlier moment.
ResumeOrder(o) ==
    /\ shown /\ step = "select" /\ orders[o].status # "absent"
    /\ GoTo("pay", o)
    /\ UNCHANGED <<ticks, payVars, backendVars>>

-----------------------------------------------------------------------------
(* Buy: a new order, paid by QR.                                            *)

StartPay ==
    /\ BuyOn(Assets \ {"STARS"}) /\ ~busy
    /\ busy' = TRUE
    /\ creating' = [pc |-> "sent", order |-> None, asset |-> choice.asset,
                    days |-> choice.days]
    /\ UNCHANGED <<screenVars, ticks, walletVars, stars, backendVars>>

\* POST /orders.
InsertOrder(o, a, d) ==
    /\ orders[o].status = "absent"
    /\ orders' = [orders EXCEPT ![o] = [status |-> "pending", asset |-> a, days |-> d]]
    /\ UNCHANGED credits

OrderMade(o) ==
    /\ creating.pc = "sent"
    /\ InsertOrder(o, creating.asset, creating.days)
    /\ creating' = [creating EXCEPT !.pc = "made", !.order = o]
    /\ UNCHANGED <<screenVars, ticks, busy, walletVars, stars>>

\* Whatever the screen shows by now, the new order takes it over.
StartPayDone ==
    /\ creating.pc = "made"
    /\ creating' = NoRequest /\ busy' = FALSE
    /\ GoTo("pay", creating.order)
    /\ UNCHANGED <<ticks, walletVars, stars, backendVars>>

StartPayFails ==
    /\ creating.pc \in {"sent", "made"}
    /\ creating' = NoRequest /\ busy' = FALSE
    /\ UNCHANGED <<screenVars, ticks, walletVars, stars, backendVars>>

-----------------------------------------------------------------------------
(* The connected wallet.                                                    *)

\* pay() asks for an order: the one in `order` if there is one, else a new one.
WalletOrder ==
    IF order # None
    THEN [pc |-> "signing", order |-> order, asset |-> choice.asset, days |-> choice.days]
    ELSE [pc |-> "sent", order |-> None, asset |-> choice.asset, days |-> choice.days]

WalletPay(r) ==
    /\ BuyOn(TonNet) /\ tapped = None /\ wallet[r].pc = "idle"
    /\ wallet' = [wallet EXCEPT ![r] = WalletOrder] /\ tapped' = r
    /\ UNCHANGED <<screenVars, ticks, busy, creating, stars, backendVars>>

WalletOrderMade(r, o) ==
    /\ wallet[r].pc = "sent"
    /\ InsertOrder(o, wallet[r].asset, wallet[r].days)
    /\ wallet' = [wallet EXCEPT ![r].pc = "made", ![r].order = o]
    /\ UNCHANGED <<screenVars, ticks, busy, creating, tapped, stars>>

WalletOrderArrives(r) ==
    /\ wallet[r].pc = "made"
    /\ wallet' = [wallet EXCEPT ![r].pc = "signing"]
    /\ GoTo(step, wallet[r].order)
    /\ UNCHANGED <<ticks, busy, creating, tapped, stars, backendVars>>

\* setBusy(false) of the button that was tapped, if it is still there.
WalletDone(r) ==
    /\ wallet' = [wallet EXCEPT ![r] = NoRequest]
    /\ tapped' = IF tapped = r THEN None ELSE tapped

\* The user approves: the transfer is sent, in the asset of the button, with
\* the order's amount and address.
WalletSigned(r) ==
    /\ wallet[r].pc = "signing"
    /\ WalletDone(r)
    /\ GoTo("pay", order)
    /\ UNCHANGED <<ticks, busy, creating, stars, orders, credits>>

\* Declined, no jetton wallet, or no order.
WalletFails(r) ==
    /\ wallet[r].pc # "idle"
    /\ WalletDone(r)
    /\ UNCHANGED <<screenVars, ticks, busy, creating, stars, backendVars>>

-----------------------------------------------------------------------------
(* Telegram Stars.                                                          *)

\* The baseline is null when the profile could not be read.
PayStars ==
    /\ BuyOn({"STARS"}) /\ ~busy /\ credits < MaxCredits
    /\ busy' = TRUE
    /\ \E read \in BOOLEAN :
         stars' = [stars EXCEPT !.pc = "invoice",
                                !.base = IF read THEN PaidUntil ELSE None]
    /\ UNCHANGED <<screenVars, ticks, creating, walletVars, backendVars>>

\* The bot credits a paid invoice, before or after the app hears of it.
StarsPaid ==
    /\ stars.pc = "invoice"
    /\ stars' = [stars EXCEPT !.pc = "paid", !.owed = TRUE]
    /\ UNCHANGED <<screenVars, ticks, busy, creating, walletVars, backendVars>>

StarsCredited ==
    /\ stars.owed
    /\ stars' = [stars EXCEPT !.owed = FALSE]
    /\ credits' = credits + 1
    /\ UNCHANGED <<screenVars, ticks, busy, creating, walletVars, orders>>

\* pollPaidUntilChanged sees paid_until differ from the baseline.
StarsConfirmed ==
    /\ stars.pc = "paid" /\ PaidUntil # stars.base
    /\ stars' = [stars EXCEPT !.pc = "idle"] /\ busy' = FALSE
    /\ GoTo("done", order)
    /\ UNCHANGED <<ticks, creating, walletVars, backendVars>>

\* No invoice, a payment refused or cancelled, or no credit within the budget.
StarsEnd ==
    /\ stars.pc # "idle"
    /\ stars' = [stars EXCEPT !.pc = "idle"] /\ busy' = FALSE
    /\ UNCHANGED <<screenVars, ticks, creating, walletVars, backendVars>>

-----------------------------------------------------------------------------
(* Polling, and what becomes of an order meanwhile.                         *)

\* "lost" is the eighth failure in a row; an earlier one, and the answer that
\* the order is pending, change nothing.
TickAnswered ==
    /\ poll # None /\ Cardinality(ticks) < MaxTicks
    /\ \E seen \in {orders[poll].status, "lost"} \ {"pending"} :
         ticks' = ticks \cup {[order |-> poll, seen |-> seen]}
    /\ UNCHANGED <<screenVars, payVars, backendVars>>

\* Mutation: a lost order counts as paid.
LostIsPaid == [expired |-> "select", lost |-> "done", paid |-> "done"]

Outcome == [expired |-> "select", lost |-> "select", paid |-> "done"]

TickArrives(t) ==
    /\ ticks' = ticks \ {t}
    /\ GoTo(Outcome[t.seen], order)
    /\ UNCHANGED <<payVars, backendVars>>

\* Paid by any means: QR, wallet, or a transfer begun elsewhere.
OrderPaid(o) ==
    /\ orders[o].status = "pending"
    /\ orders' = [orders EXCEPT ![o].status = "paid"]
    /\ credits' = credits + 1
    /\ UNCHANGED <<screenVars, ticks, payVars>>

\* Its time is up, or it is cancelled.
OrderExpires(o) ==
    /\ orders[o].status = "pending"
    /\ orders' = [orders EXCEPT ![o].status = "expired"]
    /\ UNCHANGED <<screenVars, ticks, payVars, credits>>

-----------------------------------------------------------------------------
CheckoutInit ==
    /\ shown = FALSE /\ plans = "loading"
    /\ choice = [asset |-> None, days |-> FirstPlan]
    /\ step = "select" /\ order = None /\ poll = None
    /\ ticks = {}
    /\ busy = FALSE /\ creating = NoRequest
    /\ wallet = [r \in Taps |-> NoRequest] /\ tapped = None
    /\ stars = [pc |-> "idle", base |-> None, owed |-> FALSE]
    /\ orders = [o \in OrderIds |-> NoOrder]
    /\ credits = 0

CheckoutNext ==
    \/ Show \/ Hide \/ PlansAnswer \/ Choose \/ BackToPlans
    \/ \E o \in OrderIds : ResumeOrder(o)
    \/ StartPay \/ StartPayDone \/ StartPayFails
    \/ \E o \in OrderIds : OrderMade(o)
    \/ \E r \in Taps : \/ WalletPay(r) \/ WalletOrderArrives(r)
                       \/ WalletSigned(r) \/ WalletFails(r)
                       \/ \E o \in OrderIds : WalletOrderMade(r, o)
    \/ PayStars \/ StarsPaid \/ StarsCredited \/ StarsConfirmed \/ StarsEnd
    \/ TickAnswered
    \/ \E t \in ticks : TickArrives(t)
    \/ \E o \in OrderIds : OrderPaid(o) \/ OrderExpires(o)

CheckoutSpec == CheckoutInit /\ [][CheckoutNext]_checkoutVars

-----------------------------------------------------------------------------
(* Types; Buy is busy exactly while a request of its own is under way        *)
(* (SubscribeSheet.tsx:68, 602), and the wallet button waits only for a      *)
(* request that is (WalletPay.tsx:55, 63-103).                               *)
CheckoutTypeOK ==
    /\ shown \in BOOLEAN /\ plans \in {"loading", "failed", "ready"}
    /\ choice \in [asset: Assets \cup {None}, days: PlanDays]
    /\ step \in {"select", "pay", "done"}
    /\ order \in OrderIds \cup {None} /\ poll \in OrderIds \cup {None}
    /\ ticks \subseteq [order: OrderIds, seen: {"paid", "expired", "lost"}]
    /\ busy \in BOOLEAN /\ creating \in Request
    /\ wallet \in [Taps -> Request] /\ tapped \in Taps \cup {None}
    /\ orders \in [OrderIds -> Order] /\ credits \in Nat
    /\ busy <=> creating.pc # "idle" \/ stars.pc # "idle"
    /\ tapped # None => wallet[tapped].pc # "idle"

(* While the pay screen shows an order, the interval asks about that order:  *)
(* an answer for an earlier one, which clears whatever interval is current,  *)
(* never leaves the buyer waiting at a QR code nobody watches                *)
(* (SubscribeSheet.tsx:140).                                                 *)
ScreenWatched == PayView => poll = order

(* The done view is shown only after some payment has been credited, unless  *)
(* a Stars purchase began without the baseline it compares with              *)
(* (SubscribeSheet.tsx:249).                                                 *)
DoneIsTrue == DoneView => credits > 0 \/ (stars.base = None /\ HadSub)
=============================================================================
