-------------------------- MODULE AccessKeysProofs --------------------------
(***************************************************************************)
(* Proofs about AccessKeys, for any number of keys, accounts and requests. *)
(***************************************************************************)
EXTENDS AccessKeys, TLAPS

-----------------------------------------------------------------------------
(* What each action does to a key, a request and an account.                *)

\* Crediting days keeps the account types.
LEMMA CreditType ==
    ASSUME SubTypeOK, NEW u \in Users, NEW k \in Receipts, NEW days \in Nat, NEW at \in Nat,
           CreditDays(u, k, days, at)
    PROVE  /\ users' \in [Users -> UserRow]
           /\ granted' \in [Users -> SUBSET (Receipts \X Nat)]
  <1>1. Extended(at, users[u].until, days) \in Nat
    BY NullIsNoTime DEF Extended, SubTypeOK, UserRow
  <1>2. [exists |-> TRUE, active |-> TRUE, until |-> Extended(at, users[u].until, days)]
          \in UserRow
    BY <1>1 DEF UserRow
  <1>3. users' \in [Users -> UserRow]
    BY <1>2 DEF CreditDays, SubTypeOK
  <1>4. granted' \in [Users -> SUBSET (Receipts \X Nat)]
    BY DEF CreditDays, SubTypeOK
  <1> QED  BY <1>3, <1>4

\* Lifting, keeping and deleting keep the account types.
LEMMA ClearType ==
    ASSUME SubTypeOK, NEW u \in Users, ClearExpiry(u) \/ KeepExpiry(u) \/ DropUser(u)
    PROVE  /\ users' \in [Users -> UserRow]
           /\ granted' \in [Users -> SUBSET (Receipts \X Nat)]
  <1>1. LifetimeRow \in UserRow /\ NoUser \in UserRow
    BY DEF LifetimeRow, NoUser, UserRow
  <1>2. [users[u] EXCEPT !.exists = TRUE, !.active = TRUE] \in UserRow
    BY DEF SubTypeOK, UserRow
  <1>3. CASE ClearExpiry(u)
    BY <1>1, <1>3 DEF ClearExpiry, SubTypeOK
  <1>4. CASE KeepExpiry(u)
    <2>1. users' = [users EXCEPT ![u] = [users[u] EXCEPT !.exists = TRUE, !.active = TRUE]]
      BY <1>4 DEF KeepExpiry
    <2> QED  BY <1>2, <1>4, <2>1 DEF KeepExpiry, SubTypeOK
  <1>5. CASE DropUser(u)
    BY <1>1, <1>5 DEF DropUser, SubTypeOK
  <1> QED  BY <1>3, <1>4, <1>5

\* A commit burns the unused key it holds and keeps the account types.
LEMMA CommitRows ==
    ASSUME KeysTypeOK, HeldKeys, NEW r \in Redeemers, CommitRedeem(r)
    PROVE  LET k == redeem[r].key
               u == redeem[r].user
           IN  /\ k \in Keys /\ u \in Users /\ keys[k].state = "unused"
               /\ keys' = [keys EXCEPT ![k] = [keys[k] EXCEPT !.state = "used", !.usedBy = u]]
               /\ [keys[k] EXCEPT !.state = "used", !.usedBy = u] \in KeyRow
               /\ users' \in [Users -> UserRow]
               /\ granted' \in [Users -> SUBSET (Receipts \X Nat)]
  <1> DEFINE k == redeem[r].key
             u == redeem[r].user
  <1>1. k \in Keys /\ u \in Users /\ keys[k].state = "unused"
    BY DEF CommitRedeem, HeldKeys
  <1>2. keys[k] \in KeyRow /\ redeem[r].at \in Nat
    BY <1>1 DEF KeysTypeOK, RedeemState
  <1>3. keys' = [keys EXCEPT ![k] = [keys[k] EXCEPT !.state = "used", !.usedBy = u]]
    BY DEF CommitRedeem
  <1>4. [keys[k] EXCEPT !.state = "used", !.usedBy = u] \in KeyRow
    BY <1>1, <1>2 DEF KeyRow
  <1>5. users' \in [Users -> UserRow] /\ granted' \in [Users -> SUBSET (Receipts \X Nat)]
    <2>1. CASE ClearExpiry(u) \/ KeepExpiry(u)
      BY <1>1, <2>1, ClearType DEF KeysTypeOK
    <2>2. CASE keys[k].days # Null /\ CreditDays(u, k, keys[k].days, redeem[r].at)
      <3>1. keys[k].days \in Nat /\ k \in Receipts
        BY <1>1, <1>2, <2>2, KeyConstants DEF KeyRow
      <3> QED  BY <1>1, <1>2, <2>2, <3>1, CreditType DEF KeysTypeOK
    <2> QED  BY <2>1, <2>2 DEF CommitRedeem
  <1> QED  BY <1>1, <1>3, <1>4, <1>5

-----------------------------------------------------------------------------
\* Every step keeps the types.
LEMMA KeysNextType ==
    ASSUME KeysTypeOK, HeldKeys, [KeysSystemNext]_KeysSystemVars
    PROVE  KeysTypeOK'
  <1> USE DEF KeysTypeOK, subVars
  <1>0. NoKey \in KeyRow /\ [NoKey EXCEPT !.state = "deleted"] \in KeyRow /\ NoRedeem \in RedeemState
    BY DEF NoKey, KeyRow, NoRedeem, RedeemState
  <1>1. ASSUME NEW k \in Keys, AdminCreateKey(k) PROVE KeysTypeOK'
    <2>1. PICK days \in KeyPlans :
            keys' = [keys EXCEPT ![k] = [state |-> "unused", days |-> days,
                                         expires |-> now + KeyTTL, usedBy |-> Null]]
      BY <1>1 DEF AdminCreateKey
    <2>2. [state |-> "unused", days |-> days, expires |-> now + KeyTTL, usedBy |-> Null] \in KeyRow
      BY KeyConstants DEF KeyRow, SubTypeOK
    <2> QED  BY <1>1, <2>1, <2>2 DEF AdminCreateKey, SubTypeOK
  <1>2. ASSUME NEW k \in Keys, AdminRevokeKey(k) PROVE KeysTypeOK'
    BY <1>0, <1>2 DEF AdminRevokeKey, SubTypeOK
  <1>3. CASE CleanupKeys
    BY <1>0, <1>3 DEF CleanupKeys, SubTypeOK
  <1>4. ASSUME NEW r \in Redeemers, NEW k \in Keys, NEW u \in Users, NEW by \in {"user", "admin"},
               BeginRedeem(r, k, u, by)
        PROVE  KeysTypeOK'
    <2>1. [pc |-> "begun", by |-> by, key |-> k, user |-> u, at |-> now, unlimited |-> FALSE]
            \in RedeemState
      BY DEF RedeemState, SubTypeOK
    <2> QED  BY <1>4, <2>1 DEF BeginRedeem, SubTypeOK
  <1>5. ASSUME NEW r \in Redeemers, LockKey(r) PROVE KeysTypeOK'
    <2> DEFINE b == Unlimited(users[redeem[r].user])
    <2>1. redeem' = [redeem EXCEPT ![r] = [redeem[r] EXCEPT !.pc = "locked", !.unlimited = b]]
      BY <1>5 DEF LockKey
    <2>2. b \in BOOLEAN
      BY DEF Unlimited
    <2>3. [redeem[r] EXCEPT !.pc = "locked", !.unlimited = b] \in RedeemState
      BY <2>2 DEF RedeemState
    <2> QED  BY <1>5, <2>1, <2>3 DEF LockKey, SubTypeOK
  <1>6. ASSUME NEW r \in Redeemers, CommitRedeem(r) PROVE KeysTypeOK'
    <2>1. /\ redeem[r].key \in Keys /\ redeem[r].user \in Users
          /\ keys' \in [Keys -> KeyRow]
          /\ users' \in [Users -> UserRow]
          /\ granted' \in [Users -> SUBSET (Receipts \X Nat)]
      BY <1>6, CommitRows
    <2>2. redeem' \in [Redeemers -> RedeemState] /\ redeemed' \subseteq Keys \X Users
      BY <1>0, <1>6, <2>1 DEF CommitRedeem
    <2>3. now' = now
      BY <1>6 DEF CommitRedeem
    <2> QED  BY <2>1, <2>2, <2>3 DEF SubTypeOK
  <1>7. ASSUME NEW r \in Redeemers, AbandonRedeem(r) PROVE KeysTypeOK'
    BY <1>0, <1>7 DEF AbandonRedeem, SubTypeOK
  <1>8. ASSUME NEW u \in Users, RemoveAccount(u) PROVE KeysTypeOK'
    <2>1. \A k \in Keys : [keys[k] EXCEPT !.usedBy = Null] \in KeyRow
      BY DEF KeyRow
    <2>2. keys' \in [Keys -> KeyRow]
      BY <1>8, <2>1 DEF RemoveAccount, ForgetUser
    <2> QED  BY <1>8, <2>2, ClearType DEF RemoveAccount, ForgetUser, SubTypeOK
  <1>9. CASE Advance /\ UNCHANGED keyVars
    BY <1>9 DEF Advance, keyVars, SubTypeOK
  <1>10. CASE UNCHANGED KeysSystemVars
    BY <1>10 DEF KeysSystemVars, keyVars, SubTypeOK
  <1> QED
    BY <1>1, <1>2, <1>3, <1>4, <1>5, <1>6, <1>7, <1>8, <1>9, <1>10
       DEF KeysSystemNext, KeysNext, RedeemStep

-----------------------------------------------------------------------------
(* Locks.                                                                   *)

\* A request holds a key only by locking it, and lets go when it ends.
LEMMA LockedStep ==
    ASSUME KeysTypeOK, HeldKeys, [KeysSystemNext]_KeysSystemVars,
           NEW r \in Redeemers, redeem'[r].pc = "locked"
    PROVE  \/ /\ redeem[r].pc = "locked" /\ redeem'[r] = redeem[r]
              /\ ~CommitRedeem(r)
           \/ /\ LockKey(r)
              /\ redeem'[r].key = redeem[r].key /\ redeem'[r].user = redeem[r].user
  <1>1. redeem \in [Redeemers -> RedeemState]
    BY DEF KeysTypeOK
  <1>2. ASSUME NEW s \in Redeemers, RedeemStep(s), s # r
        PROVE  redeem'[r] = redeem[r] /\ ~CommitRedeem(r)
    <2>1. redeem'[r] = redeem[r]
      BY <1>1, <1>2 DEF RedeemStep, BeginRedeem, LockKey, CommitRedeem, AbandonRedeem
    <2> QED  BY <1>1, <2>1 DEF CommitRedeem, NoRedeem
  <1>3. CASE RedeemStep(r)
    <2>1. CASE LockKey(r)
      BY <1>1, <2>1 DEF LockKey, RedeemState
    <2>2. CASE ~LockKey(r)
      BY <1>1, <1>3, <2>2 DEF RedeemStep, BeginRedeem, CommitRedeem, AbandonRedeem, NoRedeem
    <2> QED  BY <2>1, <2>2
  <1>4. CASE UNCHANGED redeem
    BY <1>1, <1>4 DEF CommitRedeem, NoRedeem
  <1> QED
    BY <1>2, <1>3, <1>4
       DEF KeysSystemNext, KeysNext, AdminCreateKey, AdminRevokeKey, CleanupKeys,
           RemoveAccount, ForgetUser, keyVars, KeysSystemVars

\* No step but its holder's commit changes the state of a held key.
LEMMA HeldKeyKept ==
    ASSUME KeysTypeOK, HeldKeys, [KeysSystemNext]_KeysSystemVars,
           NEW k \in Keys, keys[k].state = "unused",
           NEW r \in Redeemers, redeem[r].pc = "locked", redeem[r].key = k, ~CommitRedeem(r)
    PROVE  keys'[k].state = "unused"
  <1>1. Held(k) /\ keys \in [Keys -> KeyRow]
    BY DEF Held, KeysTypeOK
  <1>2. ASSUME NEW c \in Keys, AdminCreateKey(c) \/ AdminRevokeKey(c)
        PROVE  keys'[k].state = "unused"
    BY <1>1, <1>2 DEF AdminCreateKey, AdminRevokeKey
  <1>3. CASE CleanupKeys
    BY <1>1, <1>3 DEF CleanupKeys
  <1>4. ASSUME NEW s \in Redeemers, CommitRedeem(s)
        PROVE  keys'[k].state = "unused"
    <2>1. redeem[s].key # k
      BY <1>4 DEF HeldKeys, CommitRedeem
    <2> QED  BY <1>1, <1>4, <2>1, CommitRows
  <1>5. ASSUME NEW u \in Users, RemoveAccount(u)
        PROVE  keys'[k].state = "unused"
    BY <1>1, <1>5 DEF RemoveAccount, ForgetUser, KeyRow
  <1>6. CASE UNCHANGED keys
    BY <1>6
  <1> QED
    BY <1>2, <1>3, <1>4, <1>5, <1>6
       DEF KeysSystemNext, KeysNext, RedeemStep, BeginRedeem, LockKey, AbandonRedeem, keyVars,
           KeysSystemVars

\* A request in progress names a key and an account.
LEMMA NextNamed ==
    ASSUME KeysTypeOK, HeldKeys, [KeysSystemNext]_KeysSystemVars,
           NEW r \in Redeemers, redeem'[r].pc # "idle"
    PROVE  redeem'[r].key \in Keys /\ redeem'[r].user \in Users
  <1>1. redeem \in [Redeemers -> RedeemState]
    BY DEF KeysTypeOK
  <1>2. ASSUME NEW s \in Redeemers, RedeemStep(s), s # r
        PROVE  redeem'[r] = redeem[r]
    BY <1>1, <1>2 DEF RedeemStep, BeginRedeem, LockKey, CommitRedeem, AbandonRedeem
  <1>3. CASE RedeemStep(r)
    <2>1. CASE LockKey(r)
      BY <1>1, <2>1 DEF LockKey, RedeemState, HeldKeys
    <2>2. CASE ~LockKey(r)
      BY <1>1, <1>3, <2>2 DEF RedeemStep, BeginRedeem, CommitRedeem, AbandonRedeem, NoRedeem
    <2> QED  BY <2>1, <2>2
  <1>4. CASE UNCHANGED redeem
    BY <1>4 DEF HeldKeys
  <1> QED
    BY <1>2, <1>3, <1>4
       DEF HeldKeys, KeysSystemNext, KeysNext, AdminCreateKey, AdminRevokeKey, CleanupKeys,
           RemoveAccount, ForgetUser, keyVars, KeysSystemVars

\* Every step keeps a locked key unused and with one holder.
LEMMA NextHeld ==
    ASSUME KeysTypeOK, HeldKeys, [KeysSystemNext]_KeysSystemVars
    PROVE  HeldKeys'
  <1> SUFFICES ASSUME NEW r \in Redeemers, redeem'[r].pc = "locked"
               PROVE  /\ keys'[redeem'[r].key].state = "unused"
                      /\ \A s \in Redeemers :
                            redeem'[s].pc = "locked" /\ redeem'[s].key = redeem'[r].key => s = r
    BY NextNamed DEF HeldKeys
  <1>1. redeem \in [Redeemers -> RedeemState]
    BY DEF KeysTypeOK
  <1>2. ASSUME NEW s \in Redeemers, LockKey(s), NEW q \in Redeemers, q # s,
               redeem'[q].pc = "locked"
        PROVE  redeem'[q].key # redeem'[s].key
    <2>1. ~Held(redeem[s].key) /\ redeem'[s].key = redeem[s].key /\ redeem'[q] = redeem[q]
      BY <1>1, <1>2 DEF LockKey, RedeemState
    <2> QED  BY <1>2, <2>1 DEF Held
  <1>3. CASE LockKey(r)
    <2>1. keys'[redeem'[r].key].state = "unused"
      BY <1>1, <1>3 DEF LockKey, RedeemState
    <2> QED  BY <1>2, <1>3, <2>1
  <1>4. CASE ~LockKey(r)
    <2>1. redeem[r].pc = "locked" /\ redeem'[r] = redeem[r] /\ ~CommitRedeem(r)
      BY <1>4, LockedStep
    <2>2. keys'[redeem'[r].key].state = "unused"
      BY <2>1, HeldKeyKept DEF HeldKeys
    <2>3. ASSUME NEW s \in Redeemers, redeem'[s].pc = "locked", redeem'[s].key = redeem'[r].key
          PROVE  s = r
      <3>1. CASE LockKey(s)
        BY <1>2, <2>3, <3>1
      <3>2. CASE ~LockKey(s)
        BY <2>1, <2>3, <3>2, LockedStep DEF HeldKeys
      <3> QED  BY <3>1, <3>2
    <2> QED  BY <2>2, <2>3
  <1> QED  BY <1>3, <1>4

-----------------------------------------------------------------------------
(* Single use.                                                              *)

\* Only a commit records a redemption, of a key that was unused.
LEMMA NextRedeemed ==
    ASSUME KeysTypeOK, HeldKeys, RedeemedKeys, KeySingleUse, [KeysSystemNext]_KeysSystemVars
    PROVE  RedeemedKeys' /\ KeySingleUse'
  <1>1. keys \in [Keys -> KeyRow] /\ redeemed \subseteq Keys \X Users
    BY DEF KeysTypeOK
  <1>2. CASE \E r \in Redeemers : CommitRedeem(r)
    <2>1. PICK r \in Redeemers : CommitRedeem(r)
      BY <1>2
    <2> DEFINE k == redeem[r].key
               u == redeem[r].user
    <2>2. /\ k \in Keys /\ u \in Users /\ keys[k].state = "unused"
          /\ keys' = [keys EXCEPT ![k] = [keys[k] EXCEPT !.state = "used", !.usedBy = u]]
      BY <2>1, CommitRows
    <2>3. PICK key \in Keys, user \in Users :
            /\ keys[key].state = "unused"
            /\ keys' = [keys EXCEPT ![key] = [keys[key] EXCEPT !.state = "used", !.usedBy = user]]
            /\ redeemed' = redeemed \cup {<<key, user>>}
      BY <2>1, <2>2 DEF CommitRedeem
    <2>4. keys'[key].state = "used" /\ keys'[key].usedBy = user
      BY <1>1, <2>3 DEF KeyRow
    <2>5. \A c \in Keys : c # key => keys'[c] = keys[c]
      BY <1>1, <2>3
    <2>6. \A p \in redeemed : p[1] # key
      BY <2>3 DEF RedeemedKeys
    <2>7. RedeemedKeys'
      BY <2>3, <2>4, <2>5 DEF RedeemedKeys
    <2>8. KeySingleUse'
      BY <1>1, <2>3, <2>4, <2>5, <2>6 DEF KeySingleUse
    <2> QED  BY <2>7, <2>8
  <1>3. CASE ~\E r \in Redeemers : CommitRedeem(r)
    <2>1. UNCHANGED redeemed
      BY <1>3 DEF KeysSystemNext, KeysNext, RedeemStep, AdminCreateKey, AdminRevokeKey,
                  CleanupKeys, BeginRedeem, LockKey, AbandonRedeem, RemoveAccount, ForgetUser,
                  keyVars, KeysSystemVars
    <2>2. \A k \in Keys :
            /\ keys'[k].usedBy \in {keys[k].usedBy, Null}
            /\ keys'[k].state \in {"absent", "unused"} =>
                  keys[k].state \in {"absent", "unused"}
      <3>1. ASSUME NEW c \in Keys, AdminCreateKey(c) \/ AdminRevokeKey(c), NEW k \in Keys
            PROVE  /\ keys'[k].usedBy \in {keys[k].usedBy, Null}
                   /\ keys'[k].state \in {"absent", "unused"} =>
                         keys[k].state \in {"absent", "unused"}
        BY <1>1, <3>1 DEF AdminCreateKey, AdminRevokeKey, NoKey
      <3>2. CASE CleanupKeys
        BY <3>2 DEF CleanupKeys, NoKey
      <3>3. ASSUME NEW u \in Users, RemoveAccount(u), NEW k \in Keys
            PROVE  /\ keys'[k].usedBy \in {keys[k].usedBy, Null}
                   /\ keys'[k].state = keys[k].state
        BY <1>1, <3>3 DEF RemoveAccount, ForgetUser, KeyRow
      <3>4. CASE UNCHANGED keys
        BY <3>4
      <3> QED
        BY <1>3, <3>1, <3>2, <3>3, <3>4
           DEF KeysSystemNext, KeysNext, RedeemStep, BeginRedeem, LockKey, AbandonRedeem,
               keyVars, KeysSystemVars
    <2> QED  BY <2>1, <2>2 DEF RedeemedKeys, KeySingleUse
  <1> QED  BY <1>2, <1>3

-----------------------------------------------------------------------------
\* The invariant holds at the start.
LEMMA KeysStart == KeysSystemInit => KeysInv
  <1> SUFFICES ASSUME KeysSystemInit PROVE KeysInv
    OBVIOUS
  <1> USE DEF KeysSystemInit, KeysInit
  <1>1. NoKey \in KeyRow /\ NoRedeem \in RedeemState /\ {NoUser, LifetimeRow} \subseteq UserRow
    BY DEF NoKey, NoRedeem, KeyRow, RedeemState, UserRow, NoUser, LifetimeRow
  <1>2. KeysTypeOK
    BY <1>1 DEF KeysTypeOK, SubTypeOK, SubInit
  <1>3. HeldKeys
    BY DEF HeldKeys, NoRedeem
  <1>4. RedeemedKeys /\ KeySingleUse
    BY DEF RedeemedKeys, KeySingleUse, NoKey
  <1> QED  BY <1>2, <1>3, <1>4 DEF KeysInv

(* The inductive invariant: types, one holder for each locked key, which is  *)
(* unused, and no redemption of a key before it is burnt (auth.go:147-239,   *)
(* subscription.go:111-193).                                                 *)
THEOREM KeysInvariant == KeysSpec => []KeysInv
  <1>1. KeysSystemInit => KeysInv
    BY KeysStart
  <1>2. KeysInv /\ [KeysSystemNext]_KeysSystemVars => KeysInv'
    BY KeysNextType, NextHeld, NextRedeemed DEF KeysInv
  <1> QED  BY <1>1, <1>2, PTL DEF KeysSpec

\* A key is redeemed once, for one account (the row lock and the burn of
\* auth.go:147-239 and subscription.go:111-193), whatever else runs.
THEOREM KeyUsedOnce == KeysSpec => []KeySingleUse
  <1>1. KeysInv => KeySingleUse
    BY DEF KeysInv
  <1> QED  BY <1>1, KeysInvariant, PTL

-----------------------------------------------------------------------------
(* What a redemption gives.                                                 *)

\* redeemed grows by the commit of the request that becomes idle.
LEMMA RedeemingCommits ==
    ASSUME KeysTypeOK, [KeysSystemNext]_KeysSystemVars, NEW r \in Redeemers, Redeeming(r)
    PROVE  CommitRedeem(r)
  <1>1. redeemed' # redeemed /\ redeem[r].pc = "locked" /\ redeem'[r].pc = "idle"
    BY DEF Redeeming
  <1>2. PICK s \in Redeemers : CommitRedeem(s)
    BY <1>1 DEF KeysSystemNext, KeysNext, RedeemStep, AdminCreateKey, AdminRevokeKey, CleanupKeys,
                BeginRedeem, LockKey, AbandonRedeem, RemoveAccount, ForgetUser, keyVars,
                KeysSystemVars
  <1>3. redeem' = [redeem EXCEPT ![s] = NoRedeem]
    BY <1>2 DEF CommitRedeem
  <1>4. r # s => redeem'[r] = redeem[r]
    BY <1>3 DEF KeysTypeOK
  <1> QED  BY <1>1, <1>2, <1>4

\* A commit on an account that is as it was read.
LEMMA CommitGrants ==
    ASSUME KeysTypeOK, HeldKeys, NEW r \in Redeemers, CommitRedeem(r),
           redeem[r].unlimited = Unlimited(users[redeem[r].user])
    PROVE  LET u    == redeem[r].user
               days == keys[redeem[r].key].days
           IN  \/ /\ days = Null \/ Unlimited(users[u])
                  /\ Unlimited(users'[u])
               \/ /\ days # Null /\ ~Unlimited(users[u])
                  /\ users'[u].active
                  /\ users'[u].until >= redeem[r].at + days
                  /\ users[u].until # Null => users'[u].until >= users[u].until + days
  <1> DEFINE k    == redeem[r].key
             u    == redeem[r].user
             days == keys[k].days
             at   == redeem[r].at
  <1>1. /\ k \in Keys /\ u \in Users /\ keys[k] \in KeyRow /\ at \in Nat
        /\ users \in [Users -> UserRow] /\ users[u] \in UserRow
    BY CommitRows DEF KeysTypeOK, SubTypeOK, RedeemState
  <1>2. CASE days = Null /\ ClearExpiry(u)
    <2>1. users'[u] = LifetimeRow
      BY <1>1, <1>2 DEF ClearExpiry
    <2>2. Unlimited(LifetimeRow)
      BY DEF Unlimited, LifetimeRow
    <2> QED  BY <1>2, <2>1, <2>2
  <1>3. CASE redeem[r].unlimited /\ KeepExpiry(u)
    <2>1. Unlimited(users[u])
      BY <1>3
    <2>2. users'[u] = [users[u] EXCEPT !.exists = TRUE, !.active = TRUE]
      BY <1>1, <1>3 DEF KeepExpiry
    <2>3. Unlimited(users'[u])
      BY <1>1, <2>1, <2>2 DEF Unlimited, UserRow
    <2> QED  BY <2>1, <2>3
  <1>4. CASE days # Null /\ ~redeem[r].unlimited /\ CreditDays(u, k, days, at)
    <2>1. days \in Nat
      BY <1>1, <1>4 DEF KeyRow
    <2>2. users'[u] = [exists |-> TRUE, active |-> TRUE, until |-> Extended(at, users[u].until, days)]
      BY <1>1, <1>4 DEF CreditDays
    <2>3. users[u].until \in Nat \cup {Null}
      BY <1>1 DEF UserRow
    <2>4. /\ Extended(at, users[u].until, days) >= at + days
          /\ users[u].until # Null => Extended(at, users[u].until, days) >= users[u].until + days
      BY <1>1, <2>1, <2>3 DEF Extended
    <2>5. ~Unlimited(users[u])
      BY <1>4
    <2> QED  BY <1>4, <2>2, <2>4, <2>5
  <1> QED  BY <1>2, <1>3, <1>4 DEF CommitRedeem

(* A redemption that finds the account as it read it gives what the key      *)
(* grants (auth.go:176-229, subscription.go:138-184).                        *)
THEOREM RedemptionGrants == KeysSpec => RedeemGrantsPlan
  <1>1. KeysInv /\ [KeysSystemNext]_KeysSystemVars =>
          [\A r \in Redeemers :
             LET u    == redeem[r].user
                 days == keys[redeem[r].key].days
             IN  Redeeming(r) /\ redeem[r].unlimited = Unlimited(users[u]) =>
                   \/ /\ days = Null \/ Unlimited(users[u])
                      /\ Unlimited(users'[u])
                   \/ /\ days # Null /\ ~Unlimited(users[u])
                      /\ users'[u].active
                      /\ users'[u].until >= redeem[r].at + days
                      /\ users[u].until # Null => users'[u].until >= users[u].until + days]_redeemed
    BY RedeemingCommits, CommitGrants DEF KeysInv
  <1> QED  BY <1>1, KeysInvariant, PTL DEF KeysSpec, RedeemGrantsPlan
=============================================================================
