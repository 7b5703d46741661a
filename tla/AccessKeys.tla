----------------------------- MODULE AccessKeys -----------------------------
(***************************************************************************)
(* Access keys: created, revoked and cleaned up by handlers/admin.go and   *)
(* cron/cron.go, redeemed by ActivateKey (handlers/auth.go) and by         *)
(* AdminApplyKey (handlers/subscription.go).                               *)
(*                                                                         *)
(* A redemption is a READ COMMITTED transaction.  It locks the key's row   *)
(* and reads the account; later it writes the account and burns the key.   *)
(* The account is not locked in between, so other transactions may change  *)
(* it: locking and committing are separate actions.                        *)
(***************************************************************************)
EXTENDS Subscription, FiniteSets

CONSTANTS
    Keys,       \* keys that may be generated; each row is created once
    KeyPlans,   \* plan_days an admin may choose: numbers of days, or Null
    KeyTTL,     \* ttl_hours
    Redeemers   \* requests that may be in flight at once

ASSUME KeyConstants ==
    /\ KeyPlans \subseteq Nat \cup {Null}
    /\ KeyTTL \in Nat
    /\ Keys \subseteq Receipts
    /\ Null \notin Keys \cup Users

VARIABLES
    keys,       \* the access_keys table
    redeem,     \* per request, the redemption in progress
    redeemed    \* history: <<key, user>> of the committed redemptions

keyVars == <<keys, redeem, redeemed>>

KeyRow ==
    [state: {"absent", "unused", "used", "deleted"},
     days: Nat \cup {Null},             \* plan_days; Null = lifetime
     expires: Nat, usedBy: Users \cup {Null}]

NoKey == [state |-> "absent", days |-> Null, expires |-> 0, usedBy |-> Null]

RedeemState ==
    [pc: {"idle", "begun", "locked"}, by: {"user", "admin"},
     key: Keys \cup {Null}, user: Users \cup {Null},
     at: Nat,                           \* NOW() of the transaction
     unlimited: BOOLEAN]                \* wasLifetime, as read

NoRedeem == [pc |-> "idle", by |-> "user", key |-> Null, user |-> Null,
             at |-> 0, unlimited |-> FALSE]

\* Mutation: no FOR UPDATE.
HeldByNone(k) == FALSE

\* An open transaction holds the lock of the key's row.
Held(k) == \E r \in Redeemers : redeem[r].pc = "locked" /\ redeem[r].key = k

-----------------------------------------------------------------------------
(* The admin's operations and the cleanupKeys job.                          *)

AdminCreateKey(k) ==
    /\ keys[k].state = "absent"
    /\ \E days \in KeyPlans :
         keys' = [keys EXCEPT ![k] = [state |-> "unused", days |-> days,
                                      expires |-> now + KeyTTL, usedBy |-> Null]]
    /\ UNCHANGED <<subVars, redeem, redeemed>>

\* DELETE by id, used or not; it waits for the row's lock.
AdminRevokeKey(k) ==
    /\ keys[k].state \in {"unused", "used"} /\ ~Held(k)
    /\ keys' = [keys EXCEPT ![k] = [NoKey EXCEPT !.state = "deleted"]]
    /\ UNCHANGED <<subVars, redeem, redeemed>>

\* One DELETE of every unused key past its expiry; it waits for their locks.
CleanupKeys ==
    LET stale == {k \in Keys : keys[k].state = "unused" /\ keys[k].expires < now}
    IN  /\ stale # {}
        /\ \A k \in stale : ~Held(k)
        /\ keys' = [k \in Keys |-> IF k \in stale THEN [NoKey EXCEPT !.state = "deleted"]
                                   ELSE keys[k]]
        /\ UNCHANGED <<subVars, redeem, redeemed>>

-----------------------------------------------------------------------------
(* Redemption.                                                              *)

BeginRedeem(r, k, u, by) ==
    /\ redeem[r].pc = "idle"
    /\ redeem' = [redeem EXCEPT ![r] = [pc |-> "begun", by |-> by, key |-> k, user |-> u,
                                        at |-> now, unlimited |-> FALSE]]
    /\ UNCHANGED <<subVars, keys, redeemed>>

\* SELECT ... FOR UPDATE on the key, then read the account.  AdminApplyKey
\* refuses an unknown profile, and a timed key for an unlimited one.
LockKey(r) ==
    LET k == redeem[r].key
        u == redeem[r].user
    IN  /\ redeem[r].pc = "begun"
        /\ ~Held(k)
        /\ keys[k].state = "unused" /\ keys[k].expires > redeem[r].at
        /\ redeem[r].by = "admin" =>
              /\ users[u].exists
              /\ keys[k].days = Null \/ ~Unlimited(users[u])
        /\ redeem' = [redeem EXCEPT ![r].pc = "locked",
                                    ![r].unlimited = Unlimited(users[u])]
        /\ UNCHANGED <<subVars, keys, redeemed>>

\* A timed key on an account read as unlimited: ActivateKey's UPSERT alone.
KeepExpiry(u) ==
    /\ users' = [users EXCEPT ![u].exists = TRUE, ![u].active = TRUE]
    /\ UNCHANGED granted

\* Write the account, burn the key, commit.  AdminApplyKey only updates: it
\* fails if the profile is gone.
CommitRedeem(r) ==
    LET k    == redeem[r].key
        u    == redeem[r].user
        days == keys[k].days
    IN  /\ redeem[r].pc = "locked"
        /\ redeem[r].by = "admin" => users[u].exists
        /\ \/ /\ days = Null
              /\ ClearExpiry(u)
           \/ /\ days # Null /\ redeem[r].unlimited
              /\ KeepExpiry(u)
           \/ /\ days # Null /\ ~redeem[r].unlimited
              /\ CreditDays(u, k, days, redeem[r].at)
        /\ keys' = [keys EXCEPT ![k].state = "used", ![k].usedBy = u]
        /\ redeemed' = redeemed \cup {<<k, u>>}
        /\ redeem' = [redeem EXCEPT ![r] = NoRedeem]
        /\ UNCHANGED now

\* Refused, failed or cut off: the transaction rolls back and the key is intact.
AbandonRedeem(r) ==
    /\ redeem[r].pc # "idle"
    /\ redeem' = [redeem EXCEPT ![r] = NoRedeem]
    /\ UNCHANGED <<subVars, keys, redeemed>>

\* Mutation: a key counts as unused while no account holds it.
FreeKeys(u) ==
    /\ keys' = [k \in Keys |-> IF keys[k].usedBy = u
                               THEN [keys[k] EXCEPT !.state = "unused", !.usedBy = Null]
                               ELSE keys[k]]
    /\ UNCHANGED <<redeem, redeemed>>

\* access_keys.used_by REFERENCES users(id) ON DELETE SET NULL.
ForgetUser(u) ==
    /\ keys' = [k \in Keys |-> IF keys[k].usedBy = u THEN [keys[k] EXCEPT !.usedBy = Null]
                               ELSE keys[k]]
    /\ UNCHANGED <<redeem, redeemed>>

-----------------------------------------------------------------------------
KeysInit ==
    /\ keys = [k \in Keys |-> NoKey]
    /\ redeem = [r \in Redeemers |-> NoRedeem]
    /\ redeemed = {}

RedeemStep(r) ==
    \/ \E k \in Keys, u \in Users, by \in {"user", "admin"} : BeginRedeem(r, k, u, by)
    \/ LockKey(r) \/ CommitRedeem(r) \/ AbandonRedeem(r)

KeysNext ==
    \/ \E k \in Keys : AdminCreateKey(k) \/ AdminRevokeKey(k)
    \/ CleanupKeys
    \/ \E r \in Redeemers : RedeemStep(r)

\* The component on its own, with the accounts coming and going.
KeysSystemVars == <<subVars, keyVars>>

KeysSystemInit == SubInit /\ KeysInit

RemoveAccount(u) == users[u].exists /\ DropUser(u) /\ ForgetUser(u) /\ UNCHANGED now

KeysSystemNext ==
    \/ KeysNext
    \/ \E u \in Users : RemoveAccount(u)
    \/ Advance /\ UNCHANGED keyVars

KeysSpec == KeysSystemInit /\ [][KeysSystemNext]_KeysSystemVars

-----------------------------------------------------------------------------
(* Properties.                                                              *)

KeysTypeOK ==
    /\ SubTypeOK
    /\ keys \in [Keys -> KeyRow]
    /\ redeem \in [Redeemers -> RedeemState]
    /\ redeemed \subseteq Keys \X Users

(***************************************************************************)
(* A key is redeemed once and for one account, and its row names no other, *)
(* however many requests race for it while the admin revokes it and the    *)
(* job cleans up (auth.go:147-175, 231-239; subscription.go:111-136).      *)
(***************************************************************************)
KeySingleUse ==
    /\ \A p, q \in redeemed : p[1] = q[1] => p = q
    /\ \A k \in Keys : keys[k].usedBy # Null => <<k, keys[k].usedBy>> \in redeemed

(***************************************************************************)
(* A redemption that finds the account as it read it gives what the key    *)
(* grants: unlimited access stays or comes, and otherwise the days stack   *)
(* on the access there was (auth.go:176-229, subscription.go:138-184).     *)
(***************************************************************************)
Redeeming(r) == redeem[r].pc = "locked" /\ redeemed' # redeemed /\ redeem'[r].pc = "idle"

RedeemGrantsPlan ==
    [][\A r \in Redeemers :
         LET u    == redeem[r].user
             days == keys[redeem[r].key].days
         IN  Redeeming(r) /\ redeem[r].unlimited = Unlimited(users[u]) =>
               \/ /\ days = Null \/ Unlimited(users[u])
                  /\ Unlimited(users'[u])
               \/ /\ days # Null /\ ~Unlimited(users[u])
                  /\ users'[u].active
                  /\ users'[u].until >= redeem[r].at + days
                  /\ users[u].until # Null => users'[u].until >= users[u].until + days]_redeemed

\* A locked key has one holder and is unused: revocation and cleanup wait.
HeldKeys ==
    \A r \in Redeemers :
        /\ redeem[r].pc # "idle" => redeem[r].key \in Keys /\ redeem[r].user \in Users
        /\ redeem[r].pc = "locked" =>
              /\ keys[redeem[r].key].state = "unused"
              /\ \A s \in Redeemers :
                    redeem[s].pc = "locked" /\ redeem[s].key = redeem[r].key => s = r

\* A key that is absent or unused was never redeemed.
RedeemedKeys ==
    \A k \in Keys : keys[k].state \in {"absent", "unused"} =>
        /\ keys[k].usedBy = Null
        /\ \A p \in redeemed : p[1] # k

KeysInv == KeysTypeOK /\ HeldKeys /\ RedeemedKeys /\ KeySingleUse

(***************************************************************************)
(* "a promo key must never shorten unlimited access" (auth.go:215).        *)
(***************************************************************************)
KeyNeverShortensUnlimited ==
    [][redeemed' # redeemed =>
         \A u \in Users : Unlimited(users[u]) => Unlimited(users'[u])]_redeemed
=============================================================================
