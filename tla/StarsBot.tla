------------------------------ MODULE StarsBot ------------------------------
(***************************************************************************)
(* Delivery of Telegram Stars payments: the bot (bot/src/index.ts) between *)
(* Telegram, which keeps an update until the bot asks for later ones, and  *)
(* the api's CreditStars, which records each charge once.                  *)
(*                                                                         *)
(* The bot handles updates one after another.  A payment is posted up to   *)
(* three times; then it waits in pendingCredits, in memory, for a loop     *)
(* that tries again.  A post that timed out may still be carried out.      *)
(***************************************************************************)
EXTENDS Naturals, Sequences

CONSTANTS
    Charges,        \* invoices, and the charge each one leads to
    Null,
    Attempts,       \* posts of one deliverCredit (3)
    MaxRestarts     \* bound on the restarts of the bot (model checking only)

ASSUME StarsConstants ==
    /\ Null \notin Charges
    /\ Attempts \in Nat \ {0} /\ MaxRestarts \in Nat

VARIABLES
    priced,         \* invoices whose payload and amount agree with STARS_BY_DAYS
    bill,           \* per invoice, where Telegram is with it
    updates,        \* Telegram: updates the bot has not confirmed
    handled,        \* bot: how many of them it has handled
    handling,       \* bot: the charge whose handler awaits deliverCredit
    delivery,       \* bot: per charge, the deliverCredit in creditInFlight
    pending,        \* bot: pendingCredits
    phase,          \* bot: polling, or stopped and about to exit
    restarts,
    late,           \* posts given up by the bot that the api may still serve
    starPayments,   \* api: the star_payments table
    extensions,     \* api: how often the days of a charge were added
    lost            \* history: charges that died with the bot

telegram == <<bill, updates, priced>>
bot      == <<handled, handling, delivery, pending, phase, restarts>>
api      == <<starPayments, extensions>>
vars     == <<telegram, bot, late, api, lost>>

Update == [kind: {"checkout", "paid"}, charge: Charges]

\* attempt 0: no deliverCredit for the charge.
Delivery == [attempt: 0 .. Attempts, posted: BOOLEAN]
NoDelivery == [attempt |-> 0, posted |-> FALSE]
Started    == [attempt |-> 1, posted |-> FALSE]

Updates == {updates[i] : i \in 1 .. Len(updates)}
Queued(c) == [kind |-> "paid", charge |-> c] \in Updates

-----------------------------------------------------------------------------
(* Telegram.                                                                *)

\* The buyer opens the invoice and confirms; a pre_checkout_query is sent.
AskCheckout(c) ==
    /\ bill[c] = "none"
    /\ bill' = [bill EXCEPT ![c] = "asked"]
    /\ updates' = Append(updates, [kind |-> "checkout", charge |-> c])
    /\ UNCHANGED <<priced, bot, late, api, lost>>

\* Ten seconds without an answer.
CheckoutLapses(c) ==
    /\ bill[c] = "asked"
    /\ bill' = [bill EXCEPT ![c] = "cancelled"]
    /\ UNCHANGED <<priced, updates, bot, late, api, lost>>

Charge(c) ==
    /\ bill[c] = "approved"
    /\ bill' = [bill EXCEPT ![c] = "charged"]
    /\ updates' = Append(updates, [kind |-> "paid", charge |-> c])
    /\ UNCHANGED <<priced, bot, late, api, lost>>

-----------------------------------------------------------------------------
(* The bot's handlers.                                                      *)

\* The update to handle next.
IsNext(kind, c) ==
    /\ phase = "polling" /\ handling = Null
    /\ handled < Len(updates)
    /\ updates[handled + 1] = [kind |-> kind, charge |-> c]

Accepts(c) == c \in priced

\* The answer may come too late or fail to be sent; then it has no effect.
AnswerCheckout(c) ==
    /\ IsNext("checkout", c)
    /\ \/ /\ bill[c] = "asked"
          /\ bill' = [bill EXCEPT ![c] = IF Accepts(c) THEN "approved" ELSE "cancelled"]
       \/ UNCHANGED bill
    /\ handled' = handled + 1
    /\ UNCHANGED <<priced, updates, handling, delivery, pending, phase, restarts, late, api, lost>>

\* A charge that disagrees with the table is dropped, one that is already being
\* delivered is left alone, any other one is delivered while the handler waits.
HandlePaid(c) ==
    /\ IsNext("paid", c)
    /\ \/ /\ c \notin priced \/ delivery[c] # NoDelivery
          /\ handled' = handled + 1
          /\ UNCHANGED <<handling, delivery>>
       \/ /\ c \in priced /\ delivery[c] = NoDelivery
          /\ delivery' = [delivery EXCEPT ![c] = Started]
          /\ handling' = c
          /\ UNCHANGED handled
    /\ UNCHANGED <<telegram, pending, phase, restarts, late, api, lost>>

\* The loop of every 30 seconds.
RetryPending(c) ==
    /\ c \in pending /\ delivery[c] = NoDelivery
    /\ delivery' = [delivery EXCEPT ![c] = Started]
    /\ UNCHANGED <<telegram, handled, handling, pending, phase, restarts, late, api, lost>>

\* Handled, or being handled: what bot.stop() confirms.
Fetched == IF handling = Null THEN handled ELSE handled + 1

\* Updates that the next getUpdates confirms.
Confirmed == handled

\* grammY asks for more once the handlers of a batch have returned.
Poll ==
    /\ phase = "polling" /\ Confirmed > 0
    /\ updates' = SubSeq(updates, Confirmed + 1, Len(updates))
    /\ handled' = 0
    /\ UNCHANGED <<priced, bill, handling, delivery, pending, phase, restarts, late, api, lost>>

-----------------------------------------------------------------------------
(* deliverCredit and postCredit.                                            *)

Post(c) ==
    /\ delivery[c].attempt > 0 /\ ~delivery[c].posted
    /\ delivery' = [delivery EXCEPT ![c].posted = TRUE]
    /\ UNCHANGED <<telegram, handled, handling, pending, phase, restarts, late, api, lost>>

\* Mutation: no ON CONFLICT DO NOTHING.
NewEachTime(c) == TRUE

NewPayment(c) == c \notin starPayments

\* CreditStars: record the charge and extend if it is new, in one transaction.
CreditStars(c) ==
    /\ starPayments' = starPayments \cup {c}
    /\ extensions' = [extensions EXCEPT ![c] = IF NewPayment(c) THEN @ + 1 ELSE @]

\* deliverCredit returns, and with it the handler that awaits it.
Return(c) ==
    /\ handled' = IF handling = c /\ phase = "polling" THEN handled + 1 ELSE handled
    /\ handling' = IF handling = c THEN Null ELSE handling

\* The api answers 2xx, for a new charge or a known one.
Credited(c) ==
    /\ delivery[c].posted
    /\ CreditStars(c)
    /\ pending' = pending \ {c}
    /\ delivery' = [delivery EXCEPT ![c] = NoDelivery]
    /\ Return(c)
    /\ UNCHANGED <<telegram, phase, restarts, late, lost>>

\* Mutation: a charge that failed three times is given up.
DropFailed(c) == pending

\* A charge that failed three times waits for the loop.
KeepFailed(c) == pending \cup {c}

\* The api is unreachable, refuses or fails, its answer is lost after it has
\* committed, or eight seconds pass and it may still commit.
PostFails(c) ==
    /\ delivery[c].posted
    /\ \/ UNCHANGED <<api, late>>
       \/ CreditStars(c) /\ UNCHANGED late
       \/ late' = late \cup {c} /\ UNCHANGED api
    /\ \/ /\ delivery[c].attempt < Attempts
          /\ delivery' = [delivery EXCEPT ![c] = [attempt |-> @.attempt + 1, posted |-> FALSE]]
          /\ UNCHANGED <<pending, handled, handling>>
       \/ /\ delivery[c].attempt = Attempts
          /\ delivery' = [delivery EXCEPT ![c] = NoDelivery]
          /\ pending' = KeepFailed(c)
          /\ Return(c)
    /\ UNCHANGED <<telegram, phase, restarts, lost>>

LateCredit(c) ==
    /\ c \in late
    /\ CreditStars(c)
    /\ late' = late \ {c}
    /\ UNCHANGED <<telegram, bot, lost>>

-----------------------------------------------------------------------------
(* Shutdown and restart.                                                    *)

\* Somebody will still credit the charge: Telegram, which will deliver its
\* update, or the bot, which is delivering it or keeps it for the loop.
Held(c) == Queued(c) \/ delivery[c] # NoDelivery \/ c \in pending

\* A post given up dies with its transaction.
LateDies(c) ==
    /\ c \in late
    /\ late' = late \ {c}
    /\ lost' = IF Held(c) \/ c \in starPayments THEN lost ELSE lost \cup {c}
    /\ UNCHANGED <<telegram, bot, api>>

\* SIGTERM: bot.stop() confirms up to the update being handled and polls no
\* more; deliveries and the loop go on until the process is killed.
Stop ==
    /\ phase = "polling" /\ restarts < MaxRestarts
    /\ updates' = SubSeq(updates, Fetched + 1, Len(updates))
    /\ handled' = 0
    /\ phase' = "stopped"
    /\ UNCHANGED <<priced, bill, handling, delivery, pending, restarts, late, api, lost>>

\* Mutation: drop_pending_updates: true.
NothingKept == <<>>

\* drop_pending_updates: false.
KeptUpdates == updates

\* The process ends and a new one starts; posts under way may reach the api.
Restart ==
    /\ restarts < MaxRestarts
    /\ restarts' = restarts + 1
    /\ \E S \in SUBSET {c \in Charges : delivery[c].posted} :
         /\ late' = late \cup S
         /\ lost' = lost \cup {c \in Charges : /\ delivery[c] # NoDelivery \/ c \in pending
                                               /\ ~Queued(c)
                                               /\ c \notin starPayments \cup late'}
    /\ updates' = KeptUpdates
    /\ handled' = 0
    /\ handling' = Null
    /\ delivery' = [c \in Charges |-> NoDelivery]
    /\ pending' = {}
    /\ phase' = "polling"
    /\ UNCHANGED <<priced, bill, api>>

-----------------------------------------------------------------------------
Init ==
    /\ priced \in SUBSET Charges
    /\ bill = [c \in Charges |-> "none"]
    /\ updates = <<>>
    /\ handled = 0 /\ handling = Null
    /\ delivery = [c \in Charges |-> NoDelivery]
    /\ pending = {}
    /\ phase = "polling" /\ restarts = 0
    /\ late = {}
    /\ starPayments = {}
    /\ extensions = [c \in Charges |-> 0]
    /\ lost = {}

Next ==
    \/ \E c \in Charges :
         \/ AskCheckout(c) \/ CheckoutLapses(c) \/ Charge(c)
         \/ AnswerCheckout(c) \/ HandlePaid(c) \/ RetryPending(c)
         \/ Post(c) \/ Credited(c) \/ PostFails(c) \/ LateCredit(c) \/ LateDies(c)
    \/ Poll \/ Stop \/ Restart

Spec == Init /\ [][Next]_vars

\* The bot works off its updates, its timers fire, a bot that was stopped is
\* started again, and the api does not fail forever.
Fairness ==
    /\ \A c \in Charges :
         /\ WF_vars(AnswerCheckout(c)) /\ WF_vars(HandlePaid(c))
         /\ WF_vars(RetryPending(c)) /\ WF_vars(Post(c))
         /\ SF_vars(Credited(c)) /\ WF_vars(PostFails(c))
         /\ WF_vars(LateCredit(c) \/ LateDies(c))
    /\ WF_vars(Poll) /\ WF_vars(phase = "stopped" /\ Restart)

FairSpec == Spec /\ Fairness

-----------------------------------------------------------------------------
(* Properties.                                                              *)

TypeOK ==
    /\ priced \subseteq Charges
    /\ bill \in [Charges -> {"none", "asked", "approved", "charged", "cancelled"}]
    /\ updates \in Seq(Update)
    /\ handled \in 0 .. Len(updates)
    /\ handling \in Charges \cup {Null}
    /\ delivery \in [Charges -> Delivery]
    /\ pending \subseteq Charges
    /\ phase \in {"polling", "stopped"}
    /\ restarts \in 0 .. MaxRestarts
    /\ late \subseteq Charges
    /\ starPayments \subseteq Charges
    /\ extensions \in [Charges -> Nat]
    /\ lost \subseteq Charges

(***************************************************************************)
(* A charged payment that was not credited yet is held by Telegram, by the *)
(* bot or by a post under way, unless it died with the bot: no step        *)
(* between the charge and the credit drops it (index.ts:157-209, 246-250). *)
(***************************************************************************)
PaymentHeld ==
    \A c \in Charges :
        bill[c] = "charged" =>
            Held(c) \/ c \in starPayments \cup late \cup lost

(***************************************************************************)
(* Posts repeated by timeouts, by the loop and by updates that come again  *)
(* after a restart add the days of a charge once, and nothing is credited  *)
(* that was not charged (stars.go:128-158).                                *)
(***************************************************************************)
CreditedOnce ==
    \A c \in Charges :
        /\ extensions[c] = IF c \in starPayments THEN 1 ELSE 0
        /\ c \in starPayments => bill[c] = "charged"

(***************************************************************************)
(* The delivery keeps the promise of StarsDelivery, fairness included:     *)
(* api failures, timeouts and restarts between any two steps end in a      *)
(* credit, or the charge died with the bot (index.ts:109-189).             *)
(***************************************************************************)
Promise == INSTANCE StarsDelivery WITH
    charged  <- {c \in Charges : bill[c] = "charged"},
    credited <- starPayments,
    lost     <- lost

DeliveryKept == Promise!Spec
=============================================================================
