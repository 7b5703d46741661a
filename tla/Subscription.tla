---------------------------- MODULE Subscription ----------------------------
(***************************************************************************)
(* The subscription columns of the users table and the statements that     *)
(* change them.  Crypto orders, access keys, Telegram Stars and admin      *)
(* grants all write these columns, so the modules of those components      *)
(* extend this one and share its variables.                                *)
(*                                                                         *)
(* Time is the database clock NOW() in abstract ticks; a plan of d days    *)
(* extends access by d ticks.                                              *)
(***************************************************************************)
EXTENDS Integers

CONSTANTS
    Users,      \* Telegram ids
    Null,       \* SQL NULL
    Receipts,   \* what days are credited for: orders, keys, charges, grants
    MaxTime     \* bound of the clock (model checking only)

ASSUME NullIsNoTime == Null \notin Int
ASSUME MaxTimeIsNat == MaxTime \in Nat

VARIABLES
    now,        \* the database clock
    users,      \* the row of each user: see UserRow
    granted     \* history: <<receipt, days>> credited since the account was
                \* created or its expiry cleared

subVars == <<now, users, granted>>

UserRow == [exists: BOOLEAN, active: BOOLEAN, until: Nat \cup {Null}]

NoUser      == [exists |-> FALSE, active |-> FALSE, until |-> Null]
InactiveRow == [exists |-> TRUE,  active |-> FALSE, until |-> Null]
LifetimeRow == [exists |-> TRUE,  active |-> TRUE,  until |-> Null]

\* paid_until NULL on an active account: access without a time limit.
Unlimited(row) == row.exists /\ row.active /\ row.until = Null

\* Mutation: NOW() + days.
RestartedToday(at, until, days) == at + days

\* GREATEST(COALESCE(paid_until, NOW()), NOW()) + days; NOW() is the time at
\* which the transaction began.
Extended(at, until, days) ==
    (IF until = Null \/ until < at THEN at ELSE until) + days

-----------------------------------------------------------------------------
(* Statements.  Each one changes users and granted and nothing else.        *)

\* Activate the account, created if need be, and add days.
CreditDays(u, receipt, days, at) ==
    /\ users' = [users EXCEPT ![u] =
                   [exists |-> TRUE, active |-> TRUE,
                    until  |-> Extended(at, users[u].until, days)]]
    /\ granted' = [granted EXCEPT ![u] = @ \cup {<<receipt, days>>}]

\* The UPSERT of extendSubscriptionTx, a statement or the first use of NOW().
Extend(u, receipt, days) == CreditDays(u, receipt, days, now)

\* A lifetime key clears the expiry; the account is created if need be.
ClearExpiry(u) ==
    /\ users' = [users EXCEPT ![u] = LifetimeRow]
    /\ granted' = [granted EXCEPT ![u] = {}]

\* INSERT INTO users (id, is_active) VALUES ($1, false) ON CONFLICT DO NOTHING.
EnsureUser(u) ==
    /\ users' = IF users[u].exists THEN users
                ELSE [users EXCEPT ![u] = InactiveRow]
    /\ UNCHANGED granted

\* DELETE FROM users WHERE id = $1.
DropUser(u) ==
    /\ users'   = [users EXCEPT ![u] = NoUser]
    /\ granted' = [granted EXCEPT ![u] = {}]

\* The clock, bounded for model checking.
Advance ==
    /\ now < MaxTime
    /\ now' = now + 1
    /\ UNCHANGED <<users, granted>>

-----------------------------------------------------------------------------
(* Types and initial states.                                                *)

SubTypeOK ==
    /\ now \in Nat
    /\ users \in [Users -> UserRow]
    /\ granted \in [Users -> SUBSET (Receipts \X Nat)]

\* Accounts seen at start-up: none, or a key-activated (or admin) account
\* with unlimited access.
SubInit ==
    /\ now = 0
    /\ users \in [Users -> {NoUser, LifetimeRow}]
    /\ granted = [u \in Users |-> {}]
=============================================================================
