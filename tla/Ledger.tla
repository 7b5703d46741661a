------------------------------- MODULE Ledger -------------------------------
(***************************************************************************)
(* What the holders of accounts are promised, whatever sells, grants or    *)
(* redeems days: a receipt is good for its days once, with one account,    *)
(* and its days come on top of what the account has left.                  *)
(***************************************************************************)
EXTENDS Integers

CONSTANTS
    Accounts,
    Receipts,       \* what days are credited for
    Recoverable,    \* receipts that are made good when no account holds them
    Terms,          \* numbers of days on offer
    Never           \* the end of an account that has none

VARIABLES
    time,
    end,            \* end[a]: when the access of a ends, or Never
    held,           \* held[a]: the <<receipt, days>> behind that end
    spent           \* receipts that were ever used

ledgerVars == <<time, end, held, spent>>

Holds(a, r) == \E p \in held[a] : p[1] = r

\* Nobody was credited for r, or everybody who was lost the days again.
Good(r) == r \notin spent \/ (r \in Recoverable /\ \A a \in Accounts : ~Holds(a, r))

\* Days on top of what is left, reckoned from when the request began.
Credit(a, r, days) ==
    /\ Good(r)
    /\ \E from \in 0 .. time :
         end' = [end EXCEPT ![a] = (IF @ = Never \/ @ < from THEN from ELSE @) + days]
    /\ held' = [held EXCEPT ![a] = @ \cup {<<r, days>>}]
    /\ spent' = spent \cup {r}
    /\ UNCHANGED time

Spend(r) == r \notin spent /\ spent' = spent \cup {r}

\* The account goes, or its limit does, perhaps for a receipt.
Lift(a) ==
    /\ end' = [end EXCEPT ![a] = Never]
    /\ held' = [held EXCEPT ![a] = {}]
    /\ UNCHANGED spent \/ \E r \in Receipts : Spend(r)
    /\ UNCHANGED time

\* A receipt with no days for the account that uses it.
Void(r) == Spend(r) /\ UNCHANGED <<time, end, held>>

Tick == time' = time + 1 /\ UNCHANGED <<end, held, spent>>

LedgerInit ==
    /\ time = 0
    /\ end = [a \in Accounts |-> Never]
    /\ held = [a \in Accounts |-> {}]
    /\ spent = {}

LedgerNext ==
    \/ \E a \in Accounts, r \in Receipts, days \in Terms : Credit(a, r, days)
    \/ \E a \in Accounts : Lift(a)
    \/ \E r \in Receipts : Void(r)
    \/ Tick

LedgerSpec == LedgerInit /\ [][LedgerNext]_ledgerVars

(* No receipt is with two accounts.                                          *)
OneHolder ==
    \A a, b \in Accounts, r \in Receipts : Holds(a, r) /\ Holds(b, r) => a = b
=============================================================================
