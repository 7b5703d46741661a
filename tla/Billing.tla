------------------------------ MODULE Billing ------------------------------
(***************************************************************************)
(* Everything that changes who has access and until when, over one users   *)
(* table: crypto orders and access keys as their own modules have them,    *)
(* and here Telegram Stars (handlers/stars.go), an admin's grants          *)
(* (handlers/subscription.go) and the deletion of an account, whose        *)
(* cascades reach the tables of both.                                      *)
(***************************************************************************)
EXTENDS Orders, AccessKeys

CONSTANTS
    Charges,    \* Telegram payment charge ids
    StarPlans,  \* numbers of days sold for Stars
    Grants,     \* grants an admin makes (bounds them)
    GrantDays   \* numbers of days an admin may grant

ASSUME BillingConstants ==
    /\ StarPlans \cup GrantDays \subseteq Nat
    /\ Charges \cup Grants \subseteq Receipts
    /\ Charges \cap Grants = {}
    /\ OrderIds \cup Keys \subseteq Receipts \ (Charges \cup Grants)
    /\ OrderIds \cap Keys = {}

VARIABLES
    starPayments,   \* the charge ids in the star_payments table
    grants          \* history: the grants made

billingVars == <<starPayments, grants>>

-----------------------------------------------------------------------------
NewCharge(c) == c \notin starPayments

\* INSERT ... ON CONFLICT DO NOTHING, and extend if the row is new, in one
\* transaction.  A redelivered charge changes nothing.
CreditStars(c, u) ==
    /\ NewCharge(c)
    /\ \E days \in StarPlans : Extend(u, c, days)
    /\ starPayments' = starPayments \cup {c}
    /\ UNCHANGED <<now, orderVars, keyVars, grants>>

AdminGrantSubscription(g, u) ==
    /\ g \notin grants
    /\ \E days \in GrantDays : Extend(u, g, days)
    /\ grants' = grants \cup {g}
    /\ UNCHANGED <<now, orderVars, keyVars, starPayments>>

\* purgeUser's DELETE cascades to orders and clears used_by of keys;
\* star_payments has no foreign key.
PurgeUser(u) == DeleteAccount(u) /\ ForgetUser(u) /\ UNCHANGED billingVars

BillingInit ==
    /\ Init
    /\ KeysInit
    /\ starPayments = {}
    /\ grants = {}

BillingNext ==
    \/ OrdersNext /\ UNCHANGED <<keyVars, billingVars>>
    \/ KeysNext /\ UNCHANGED <<orderVars, billingVars>>
    \/ \E c \in Charges, u \in Users : CreditStars(c, u)
    \/ \E g \in Grants, u \in Users : AdminGrantSubscription(g, u)
    \/ \E u \in Users : PurgeUser(u)
    \/ Advance /\ UNCHANGED <<orderVars, keyVars, billingVars>>

BillingSpec == BillingInit /\ [][BillingNext]_<<vars, keyVars, billingVars>>

-----------------------------------------------------------------------------
(* Properties.                                                              *)

(***************************************************************************)
(* Renewing early stacks, and no credit is lost, doubled or invented: an   *)
(* account with an expiry ends no earlier than the days of its receipts    *)
(* counted from the start, and has at most those days left.  Every writer  *)
(* of paid_until is bound by it (subscription.go:30-47 and 157-184,        *)
(* stars.go:128-158, auth.go:205-229, payments_verify.go:48-71, 116-142).  *)
(***************************************************************************)
\* The days of some receipts, each day on its own.
DaysOf(receipts) == UNION {{g} \X (1 .. g[2]) : g \in receipts}

PaidDays(u) == Cardinality(DaysOf(granted[u]))

PaidDaysConserved ==
    \A u \in Users :
        users[u].until # Null =>
            /\ users[u].until >= PaidDays(u)
            /\ users[u].until - now <= PaidDays(u)

(***************************************************************************)
(* Whatever order the writers of paid_until take, together they keep one   *)
(* ledger: a charge, a grant or a key is used once for all accounts and    *)
(* all time, an order's days are with nobody else while somebody has them, *)
(* and what is credited is a term on sale, on top of what was left         *)
(* (subscription.go:30-47, stars.go:128-158, auth.go:147-239,              *)
(* payments_verify.go:48-71, 116-142).                                     *)
(***************************************************************************)
\* Receipts that some table or the history says were used.
SpentReceipts ==
    starPayments \cup grants \cup {p[1] : p \in redeemed} \cup {c[1] : c \in credits}

TermsOnSale == {f.days : f \in Offers} \cup StarPlans \cup GrantDays \cup (KeyPlans \ {Null})

Promise == INSTANCE Ledger WITH
    Accounts <- Users, Recoverable <- OrderIds, Terms <- TermsOnSale, Never <- Null,
    time <- now, end <- [u \in Users |-> users[u].until], held <- granted,
    spent <- SpentReceipts

LedgerKept == Promise!LedgerSpec

-----------------------------------------------------------------------------
(* What comments say of the program and its steps refute.                   *)

(***************************************************************************)
(* "Recover orders marked paid but never credited"                         *)
(* (payments_verify.go:48-49): the sweep extends only for an order that    *)
(* matchAndPay did not credit.                                             *)
(***************************************************************************)
SweepOnlyUncredited ==
    [][\A w \in Workers : \A s \in worker[w].stuck :
         s \notin worker'[w].stuck /\ granted' # granted
           => \A c \in credits : c[1] # s.order]_<<worker, granted>>
=============================================================================
