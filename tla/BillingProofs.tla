---------------------------- MODULE BillingProofs ----------------------------
(***************************************************************************)
(* Proofs about Billing, for any number of accounts, orders, keys, charges *)
(* and grants: what one component's proofs show of its own tables carries  *)
(* over, and no writer of paid_until credits a receipt that was credited   *)
(* to the account before.                                                  *)
(***************************************************************************)
EXTENDS Billing, OrdersProofs, AccessKeysProofs, FiniteSetTheorems

-----------------------------------------------------------------------------
(* The invariant.                                                           *)

\* SkipIfStillRunning: a run of VerifyPayments does not overlap another.
OneRun == \A v, w \in Workers : v = w

OrdersPart == TypeOK /\ RunsFollowChain /\ FreshIds

\* An account without an expiry has no receipts; one with an expiry has what
\* its receipts come to.
Sound(u) ==
    /\ ~users[u].exists => users[u].until = Null
    /\ users[u].until = Null => granted[u] = {}
    /\ IsFiniteSet(DaysOf(granted[u]))
    /\ users[u].until # Null =>
          /\ users[u].until >= PaidDays(u)
          /\ users[u].until - now <= PaidDays(u)

CreditedFor(r) == \E u \in Users : \E g \in granted[u] : g[1] = r

\* Whatever is still to be credited has not been: open and future orders, keys
\* that nobody redeemed, charges not in the table, grants not made.
ReceiptsUsed ==
    /\ \A o \in OrderIds : o >= nextOrder \/ Pending(o) => ~CreditedFor(o)
    /\ \A k \in Keys : CreditedFor(k) => \E p \in redeemed : p[1] = k
    /\ \A c \in Charges : CreditedFor(c) => c \in starPayments
    /\ \A g \in Grants : CreditedFor(g) => g \in grants

\* The rows of the sweep are settled orders, one each, that their account has no
\* receipt of: it had no expiry when they were selected.
StuckUncredited ==
    \A w \in Workers : \A s \in worker[w].stuck :
        /\ s.order < nextOrder /\ ~Pending(s.order)
        /\ \A g \in granted[s.user] : g[1] # s.order
        /\ \A t \in worker[w].stuck : t.order = s.order => t = s

\* A redemption began at a time that has come.
BegunBefore == \A r \in Redeemers : redeem[r].at <= now

BillInv ==
    /\ OrdersPart
    /\ KeysInv
    /\ \A u \in Users : Sound(u)
    /\ ReceiptsUsed
    /\ StuckUncredited
    /\ BegunBefore

-----------------------------------------------------------------------------
(* The days of receipts.                                                    *)

\* A receipt that is not among them adds its days.
LEMMA DaysAdded ==
    ASSUME NEW S, IsFiniteSet(DaysOf(S)), NEW r, NEW n \in Nat, \A g \in S : g[1] # r
    PROVE  /\ IsFiniteSet(DaysOf(S \cup {<<r, n>>}))
           /\ Cardinality(DaysOf(S \cup {<<r, n>>})) = Cardinality(DaysOf(S)) + n
           /\ Cardinality(DaysOf(S)) \in Nat
  <1> DEFINE p == <<r, n>>
             fresh == {p} \X (1 .. n)
  <1>1. DaysOf(S \cup {p}) = DaysOf(S) \cup fresh
    BY DEF DaysOf
  <1>2. DaysOf(S) \cap fresh = {}
    <2> SUFFICES ASSUME NEW x \in DaysOf(S), x \in fresh PROVE FALSE
      OBVIOUS
    <2>1. x[1] \in S /\ x[1] = p
      BY DEF DaysOf
    <2> QED  BY <2>1
  <1>3. IsFiniteSet({p}) /\ Cardinality({p}) = 1
    BY FS_Singleton
  <1>4. IsFiniteSet(1 .. n) /\ Cardinality(1 .. n) = n
    BY FS_Interval
  <1>5. IsFiniteSet(fresh) /\ Cardinality(fresh) = n
    <2>1. /\ IsFiniteSet({p} \X (1 .. n))
          /\ Cardinality({p} \X (1 .. n)) = Cardinality({p}) * Cardinality(1 .. n)
      BY <1>3, <1>4, FS_Product
    <2>2. Cardinality({p}) * Cardinality(1 .. n) = n
      BY <1>3, <1>4
    <2> QED  BY <2>1, <2>2
  <1>6. Cardinality(DaysOf(S)) \in Nat
    BY FS_CardinalityType
  <1>7. Cardinality(DaysOf(S) \cap fresh) = 0
    BY <1>2, FS_EmptySet
  <1> HIDE DEF fresh
  <1>8. /\ IsFiniteSet(DaysOf(S) \cup fresh)
        /\ Cardinality(DaysOf(S) \cup fresh) =
              Cardinality(DaysOf(S)) + Cardinality(fresh) - Cardinality(DaysOf(S) \cap fresh)
    BY <1>5, FS_Union
  <1>9. Cardinality(DaysOf(S) \cup fresh) = Cardinality(DaysOf(S)) + n
    BY <1>5, <1>6, <1>7, <1>8
  <1> QED  BY <1>1, <1>6, <1>8, <1>9

\* No receipts, no days.
LEMMA NoDays == IsFiniteSet(DaysOf({})) /\ Cardinality(DaysOf({})) = 0
  <1>1. DaysOf({}) = {}
    BY DEF DaysOf
  <1> QED  BY <1>1, FS_EmptySet

-----------------------------------------------------------------------------
(* What a step may do to an account.                                        *)

\* No receipt comes or goes, and the expiry stays.
Kept(v) ==
    /\ users'[v].until = users[v].until
    /\ granted'[v] = granted[v]
    /\ users[v].exists => users'[v].exists

\* The account is deleted, or its limit lifted.
Reset(v) == users'[v].until = Null /\ granted'[v] = {}

\* What days are credited for.
Purpose(v, r) ==
    \/ \E w \in Workers : ClaimOrder(w) /\ r = worker[w].order /\ v = orders[r].user
    \/ \E w \in Workers : \E s \in worker[w].stuck :
          /\ r = s.order /\ v = s.user
          /\ worker' = [worker EXCEPT ![w].stuck = @ \ {s}]
          /\ UNCHANGED <<orders, nextOrder>>
    \/ \E q \in Redeemers : CommitRedeem(q) /\ r = redeem[q].key
    \/ r \in Charges /\ r \notin starPayments /\ r \in starPayments'
    \/ r \in Grants /\ r \notin grants /\ r \in grants'

\* Days are credited, as of now or of when the transaction began.
Paid(v) ==
    \E r \in Receipts, days \in Nat, at \in Nat :
        CreditDays(v, r, days, at) /\ at <= now /\ now' = now /\ Purpose(v, r)

\* Days that are credited for something new keep an account sound.
LEMMA CreditSound ==
    ASSUME SubTypeOK, NEW v \in Users, Sound(v), NEW r, NEW days \in Nat, NEW at \in Nat,
           at <= now, now' = now, \A g \in granted[v] : g[1] # r, CreditDays(v, r, days, at)
    PROVE  Sound(v)'
  <1> DEFINE u0 == users[v].until
             u1 == Extended(at, u0, days)
             paid == Cardinality(DaysOf(granted[v]))
  <1>1. u0 \in Nat \cup {Null} /\ now \in Nat
    BY DEF SubTypeOK, UserRow
  <1>2. /\ IsFiniteSet(DaysOf(granted[v] \cup {<<r, days>>}))
        /\ Cardinality(DaysOf(granted[v] \cup {<<r, days>>})) = paid + days
        /\ paid \in Nat
    BY DaysAdded DEF Sound
  <1>3. users'[v].exists /\ users'[v].until = u1 /\ granted'[v] = granted[v] \cup {<<r, days>>}
    BY DEF CreditDays, SubTypeOK
  <1>4. u0 = Null => paid = 0
    BY NoDays DEF Sound
  <1>5. u0 # Null => u0 >= paid /\ u0 - now <= paid
    BY DEF Sound, PaidDays
  <1> HIDE DEF paid, u0
  <1>6. u1 \in Nat /\ u1 >= paid + days /\ u1 - now <= paid + days
    <2>1. CASE u0 = Null
      BY <1>1, <1>4, <2>1 DEF Extended
    <2>2. CASE u0 # Null
      BY <1>1, <1>2, <1>5, <2>2 DEF Extended
    <2> QED  BY <2>1, <2>2
  <1>7. u1 # Null
    BY <1>6, NullIsNoTime
  <1> QED  BY <1>2, <1>3, <1>6, <1>7 DEF Sound, PaidDays

\* Time only runs down what is left.
LEMMA KeptSound ==
    ASSUME SubTypeOK, NEW v \in Users, Sound(v), Kept(v), now' \in Nat, now' >= now
    PROVE  Sound(v)'
  <1>1. users[v].until \in Nat \cup {Null} /\ now \in Nat
    BY DEF SubTypeOK, UserRow
  <1>2. Cardinality(DaysOf(granted[v])) \in Nat
    BY FS_CardinalityType DEF Sound
  <1> QED  BY <1>1, <1>2 DEF Sound, Kept, PaidDays

\* An account that lost its expiry and its receipts is sound.
LEMMA ResetSound ==
    ASSUME NEW v \in Users, Reset(v)
    PROVE  Sound(v)'
  BY NoDays DEF Reset, Sound, PaidDays

-----------------------------------------------------------------------------
(* The tables of orders and keys, with every other writer of users.         *)

\* The UPSERT keeps the account types for charges and grants.
LEMMA ExtendSound ==
    ASSUME SubTypeOK, NEW v \in Users, NEW r \in Charges \cup Grants, NEW days \in Nat,
           Extend(v, r, days)
    PROVE  /\ users' \in [Users -> UserRow]
           /\ granted' \in [Users -> SUBSET (Receipts \X Nat)]
  BY ExtendType, BillingConstants

\* Stars and grants change nothing but accounts and their own tables.
LEMMA OwnStepType ==
    ASSUME SubTypeOK, NEW v \in Users,
           \/ \E c \in Charges : CreditStars(c, v)
           \/ \E g \in Grants : AdminGrantSubscription(g, v)
    PROVE  SubTypeOK' /\ UNCHANGED <<now, orderVars, keyVars>>
  <1>1. \E r \in Charges \cup Grants, days \in StarPlans \cup GrantDays : Extend(v, r, days)
    BY DEF CreditStars, AdminGrantSubscription
  <1>2. PICK r \in Charges \cup Grants, days \in StarPlans \cup GrantDays : Extend(v, r, days)
    BY <1>1
  <1>3. days \in Nat
    BY BillingConstants
  <1>4. UNCHANGED <<now, orderVars, keyVars>>
    BY DEF CreditStars, AdminGrantSubscription
  <1> QED  BY <1>2, <1>3, <1>4, ExtendSound DEF SubTypeOK

\* Who leaves the tables of Orders alone keeps their invariant.
LEMMA OrdersKept ==
    ASSUME OrdersPart, SubTypeOK', UNCHANGED orderVars
    PROVE  OrdersPart'
  BY DEF OrdersPart, TypeOK, OrdersTypeOK, RunsFollowChain, RunFollowsChain, Recorded,
         FreshIds, orderVars

\* Who leaves the tables of AccessKeys alone keeps their invariant.
LEMMA KeysKept ==
    ASSUME KeysInv, SubTypeOK', UNCHANGED keyVars
    PROVE  KeysInv'
  BY DEF KeysInv, KeysTypeOK, HeldKeys, RedeemedKeys, KeySingleUse, keyVars

\* Every step is one of Orders, one of AccessKeys or neither, as their tables see it.
LEMMA StepOfOrders ==
    ASSUME BillingNext
    PROVE  Next \/ UNCHANGED orderVars
  BY DEF BillingNext, Next, PurgeUser, CreditStars, AdminGrantSubscription

\* A purge is, for the keys, the deletion of an account.
LEMMA StepOfKeys ==
    ASSUME BillingNext
    PROVE  KeysSystemNext \/ UNCHANGED keyVars
  <1>1. ASSUME NEW u \in Users, PurgeUser(u) PROVE RemoveAccount(u)
    BY <1>1 DEF PurgeUser, DeleteAccount, RemoveAccount
  <1> QED  BY <1>1 DEF BillingNext, KeysSystemNext, CreditStars, AdminGrantSubscription

\* Every writer of users keeps its type.
LEMMA SubTypeStep ==
    ASSUME OrdersPart, KeysInv, BillingNext
    PROVE  SubTypeOK'
  <1> USE DEF OrdersPart, KeysInv
  <1>1. CASE Next
    BY <1>1, NextType DEF TypeOK
  <1>2. CASE KeysSystemNext
    BY <1>2, KeysNextType DEF KeysTypeOK
  <1>3. CASE ~Next /\ ~KeysSystemNext
    <2>1. \E v \in Users : \/ \E c \in Charges : CreditStars(c, v)
                         \/ \E g \in Grants : AdminGrantSubscription(g, v)
      BY <1>3 DEF BillingNext, Next, KeysSystemNext, PurgeUser
    <2> QED  BY <2>1, OwnStepType DEF TypeOK
  <1> QED  BY <1>1, <1>2, <1>3

\* What holds of orders and of keys on their own holds next to the other writers.
LEMMA PartsStep ==
    ASSUME OrdersPart, KeysInv, BillingNext
    PROVE  OrdersPart' /\ KeysInv'
  <1>1. SubTypeOK'
    BY SubTypeStep
  <1>2. OrdersPart'
    <2>1. CASE Next
      BY <2>1, NextType, NextRuns, NextFresh DEF OrdersPart
    <2> QED  BY <1>1, <2>1, StepOfOrders, OrdersKept
  <1>3. KeysInv'
    <2>1. CASE KeysSystemNext
      BY <2>1, KeysNextType, NextHeld, NextRedeemed DEF KeysInv
    <2> QED  BY <1>1, <2>1, StepOfKeys, KeysKept
  <1> QED  BY <1>2, <1>3

-----------------------------------------------------------------------------
(* What a step of each component does to an account.                        *)

\* Creating and cancelling orders credits nobody.
LEMMA RequestAccount ==
    ASSUME SubTypeOK, NEW v \in Users, Sound(v), NEW u \in Users, RequestStep(u)
    PROVE  Kept(v)
  <1>1. EnsureBuyer(u) => Kept(v)
    BY DEF EnsureBuyer, EnsureUser, InactiveRow, Kept, Sound, SubTypeOK
  <1>2. UNCHANGED subVars => Kept(v)
    BY DEF subVars, Kept
  <1> QED
    BY <1>1, <1>2 DEF RequestStep, ReserveAmount, ReserveBlind, ReserveBusy, InsertOrder,
                      InsertFails, CancelOrder

\* A credit leaves the other accounts alone.
LEMMA OtherAccount ==
    ASSUME SubTypeOK, NEW v \in Users, NEW u \in Users, u # v, NEW r, NEW days, NEW at,
           CreditDays(u, r, days, at)
    PROVE  Kept(v)
  BY DEF CreditDays, Kept, SubTypeOK

\* The sweep and the claim credit the buyer of an order, for that order.
LEMMA JobAccount ==
    ASSUME OrdersPart, NEW v \in Users, NEW w \in Workers, JobStep(w)
    PROVE  Kept(v) \/ Paid(v)
  <1>0. SubTypeOK /\ now \in Nat
    BY DEF OrdersPart, TypeOK, SubTypeOK
  <1>1. CASE RecoverOrder(w)
    <2>1. PICK s \in worker[w].stuck :
            /\ Extend(s.user, s.order, s.days) \/ UNCHANGED <<users, granted>>
            /\ worker' = [worker EXCEPT ![w].stuck = @ \ {s}]
      BY <1>1 DEF RecoverOrder
    <2>2. s \in Stuck
      BY DEF OrdersPart, TypeOK, OrdersTypeOK, WorkerState
    <2>3. s.user \in Users /\ s.days \in Nat /\ s.order \in Receipts
      BY <2>2, OrderConstants DEF Stuck
    <2>4. now' = now /\ UNCHANGED <<orders, nextOrder>>
      BY <1>1 DEF RecoverOrder
    <2>5. CASE UNCHANGED <<users, granted>>
      BY <2>5 DEF Kept
    <2>6. CASE Extend(s.user, s.order, s.days) /\ s.user = v
      <3>1. CreditDays(v, s.order, s.days, now)
        BY <2>6 DEF Extend
      <3>2. Purpose(v, s.order)
        BY <2>1, <2>4, <2>6 DEF Purpose
      <3> QED  BY <1>0, <2>3, <2>4, <3>1, <3>2 DEF Paid
    <2>7. CASE Extend(s.user, s.order, s.days) /\ s.user # v
      BY <1>0, <2>3, <2>7, OtherAccount DEF Extend
    <2> QED  BY <2>1, <2>5, <2>6, <2>7
  <1>2. CASE ClaimOrder(w)
    <2> DEFINE o == worker[w].order
    <2>1. o \in OrderIds /\ Pending(o)
      BY <1>2, ClaimIsFresh DEF OrdersPart, ClaimOrder, Claimable
    <2>2. orders[o].user \in Users /\ orders[o].days \in Nat /\ o \in Receipts
      BY <2>1, OrderConstants DEF OrdersPart, TypeOK, OrdersTypeOK, OrderRow, NoOrder, Pending
    <2>3. CreditDays(orders[o].user, o, orders[o].days, now) /\ now' = now
      BY <1>2 DEF ClaimOrder, Extend
    <2>4. orders[o].user = v => Purpose(v, o)
      BY <1>2 DEF Purpose
    <2> HIDE DEF o
    <2>5. CASE orders[o].user = v
      BY <1>0, <2>2, <2>3, <2>4, <2>5 DEF Paid
    <2>6. CASE orders[o].user # v
      BY <1>0, <2>2, <2>3, <2>6, OtherAccount
    <2> QED  BY <2>5, <2>6
  <1>3. CASE ~RecoverOrder(w) /\ ~ClaimOrder(w)
    <2>1. UNCHANGED <<users, granted>>
      BY <1>3 DEF JobStep, StartRun, CountPending, FetchTransfers, FetchFails, EndRun, FeedDone,
                  SelectOrder, ClaimRollback, Interrupt, subVars
    <2> QED  BY <2>1 DEF Kept
  <1> QED  BY <1>1, <1>2, <1>3

\* A redemption lifts the limit, keeps the account or credits it for its key.
LEMMA RedeemAccount ==
    ASSUME KeysInv, BegunBefore, NEW v \in Users, NEW q \in Redeemers, CommitRedeem(q)
    PROVE  Kept(v) \/ Reset(v) \/ Paid(v)
  <1> DEFINE k == redeem[q].key
             u == redeem[q].user
             days == keys[k].days
             at == redeem[q].at
  <1>0. SubTypeOK
    BY DEF KeysInv, KeysTypeOK
  <1>1. k \in Keys /\ u \in Users
    BY CommitRows DEF KeysInv
  <1>2. k \in Receipts /\ days \in Nat \cup {Null} /\ at \in Nat /\ at <= now
    BY <1>1, KeyConstants DEF KeysInv, KeysTypeOK, KeyRow, RedeemState, BegunBefore
  <1>3. now' = now /\ Purpose(v, k)
    BY DEF CommitRedeem, Purpose
  <1>4. CASE ClearExpiry(u)
    BY <1>0, <1>4 DEF ClearExpiry, LifetimeRow, Kept, Reset, SubTypeOK
  <1>5. CASE KeepExpiry(u)
    BY <1>0, <1>1, <1>5 DEF KeepExpiry, Kept, SubTypeOK, UserRow
  <1>6. CASE days # Null /\ CreditDays(u, k, days, at)
    <2> HIDE DEF k, u, days, at
    <2>1. CASE u = v
      BY <1>2, <1>3, <1>6, <2>1 DEF Paid
    <2>2. CASE u # v
      BY <1>0, <1>1, <1>6, <2>2, OtherAccount
    <2> QED  BY <2>1, <2>2
  <1> QED  BY <1>4, <1>5, <1>6 DEF CommitRedeem

\* Stars and grants credit an account for a new charge or grant.
LEMMA OwnAccount ==
    ASSUME SubTypeOK, NEW v \in Users, NEW u \in Users,
           \/ \E c \in Charges : CreditStars(c, u)
           \/ \E g \in Grants : AdminGrantSubscription(g, u)
    PROVE  Kept(v) \/ Paid(v)
  <1>1. PICK r \in Charges \cup Grants, days \in StarPlans \cup GrantDays :
          /\ Extend(u, r, days)
          /\ \/ r \in Charges /\ r \notin starPayments /\ r \in starPayments'
             \/ r \in Grants /\ r \notin grants /\ r \in grants'
    BY DEF CreditStars, AdminGrantSubscription, NewCharge
  <1>2. days \in Nat /\ r \in Receipts /\ now \in Nat
    BY BillingConstants DEF SubTypeOK
  <1>3. now' = now
    BY OwnStepType
  <1>4. Purpose(v, r)
    BY <1>1 DEF Purpose
  <1>5. CASE u = v
    BY <1>1, <1>2, <1>3, <1>4, <1>5 DEF Extend, Paid
  <1>6. CASE u # v
    BY <1>1, <1>6, OtherAccount DEF Extend
  <1> QED  BY <1>5, <1>6

\* Any step keeps an account's days, drops them all, or credits something new.
LEMMA AccountStep ==
    ASSUME BillInv, BillingNext, NEW v \in Users
    PROVE  Kept(v) \/ Reset(v) \/ Paid(v)
  <1>0. SubTypeOK /\ Sound(v)
    BY DEF BillInv, OrdersPart, TypeOK
  <1>1. CASE OrdersNext
    <2>1. CASE \E os \in SUBSET OrderIds, tx \in Tx : Pay(os, tx)
      BY <2>1 DEF Pay, Kept, subVars
    <2> QED  BY <1>0, <1>1, <2>1, RequestAccount, JobAccount DEF OrdersNext, BillInv
  <1>2. CASE KeysNext
    <2>1. CASE ~\E q \in Redeemers : CommitRedeem(q)
      <3>1. UNCHANGED subVars
        BY <1>2, <2>1 DEF KeysNext, AdminCreateKey, AdminRevokeKey, CleanupKeys, RedeemStep,
                          BeginRedeem, LockKey, AbandonRedeem
      <3> QED  BY <3>1 DEF subVars, Kept
    <2> QED  BY <2>1, RedeemAccount DEF BillInv
  <1>3. CASE \E u \in Users : PurgeUser(u)
    BY <1>0, <1>3 DEF PurgeUser, DeleteAccount, DropUser, NoUser, Kept, Reset, SubTypeOK
  <1>4. CASE Advance
    BY <1>4 DEF Advance, Kept
  <1> QED  BY <1>0, <1>1, <1>2, <1>3, <1>4, OwnAccount DEF BillingNext

-----------------------------------------------------------------------------
(* Receipts.                                                                *)

\* A receipt is an order, a key, a charge or a grant, and never two of them.
LEMMA Disjoint ==
    /\ \A o \in OrderIds : o \notin Keys /\ o \notin Charges /\ o \notin Grants
    /\ \A k \in Keys : k \notin OrderIds /\ k \notin Charges /\ k \notin Grants
    /\ \A c \in Charges : c \notin OrderIds /\ c \notin Keys /\ c \notin Grants
    /\ \A g \in Grants : g \notin OrderIds /\ g \notin Keys /\ g \notin Charges
  BY BillingConstants

\* What a step credits days for, by kind, and what becomes of it.
LEMMA PurposeOf ==
    ASSUME BillInv, BillingNext, NEW v, NEW r, Purpose(v, r)
    PROVE  \/ /\ r \in OrderIds /\ r < nextOrder /\ nextOrder' = nextOrder
              /\ ~(r >= nextOrder') /\ orders'[r].status # "pending"
              /\ \/ Pending(r) /\ v = orders[r].user
                 \/ \E w \in Workers : \E s \in worker[w].stuck :
                       /\ r = s.order /\ v = s.user
                       /\ worker' = [worker EXCEPT ![w].stuck = @ \ {s}]
           \/ r \in Keys /\ (\A p \in redeemed : p[1] # r) /\ (\E p \in redeemed' : p[1] = r)
           \/ r \in Charges /\ r \notin starPayments /\ r \in starPayments'
           \/ r \in Grants /\ r \notin grants /\ r \in grants'
  <1>0. nextOrder \in Nat /\ \A o \in OrderIds : o \in Nat
    BY OrderConstants DEF BillInv, OrdersPart, TypeOK, OrdersTypeOK, OrderIds
  <1>1. ASSUME NEW w \in Workers, ClaimOrder(w), r = worker[w].order
        PROVE  /\ r \in OrderIds /\ r < nextOrder /\ nextOrder' = nextOrder
               /\ orders'[r].status # "pending" /\ Pending(r)
    <2>1. r \in OrderIds /\ Pending(r)
      BY <1>1, ClaimIsFresh DEF BillInv, OrdersPart, ClaimOrder, Claimable
    <2>2. orders[r] # NoOrder
      BY <2>1 DEF Pending, NoOrder
    <2>3. r < nextOrder
      BY <1>0, <2>1, <2>2 DEF BillInv, OrdersPart, FreshIds
    <2>4. orders[r] \in OrderRow
      BY <2>1, <2>2 DEF BillInv, OrdersPart, TypeOK, OrdersTypeOK
    <2>5. orders' = [orders EXCEPT ![r] =
                       [orders[r] EXCEPT !.status = "paid", !.tx = worker[w].tr.tx]]
      BY <1>1 DEF ClaimOrder
    <2>6. orders'[r].status = "paid"
      BY <2>1, <2>4, <2>5 DEF OrderRow, BillInv, OrdersPart, TypeOK, OrdersTypeOK
    <2> QED  BY <1>1, <2>1, <2>3, <2>6 DEF ClaimOrder
  <1>2. ASSUME NEW w \in Workers, NEW s \in worker[w].stuck, r = s.order,
               UNCHANGED <<orders, nextOrder>>
        PROVE  /\ r \in OrderIds /\ r < nextOrder /\ nextOrder' = nextOrder
               /\ orders'[r].status # "pending"
    BY <1>2 DEF BillInv, StuckUncredited, OrdersPart, TypeOK, OrdersTypeOK, WorkerState, Stuck,
                Pending
  <1>3. ASSUME NEW q \in Redeemers, CommitRedeem(q), r = redeem[q].key
        PROVE  /\ r \in Keys /\ \A p \in redeemed : p[1] # r
               /\ \E p \in redeemed' : p[1] = r
    <2>1. r \in Keys /\ keys[r].state = "unused"
      BY <1>3, CommitRows DEF BillInv, KeysInv
    <2>2. redeemed' = redeemed \cup {<<r, redeem[q].user>>}
      BY <1>3 DEF CommitRedeem
    <2>3. \A p \in redeemed : p[1] # r
      BY <2>1 DEF BillInv, KeysInv, RedeemedKeys
    <2>4. <<r, redeem[q].user>> \in redeemed' /\ <<r, redeem[q].user>>[1] = r
      BY <2>2
    <2> QED  BY <2>1, <2>3, <2>4
  <1> QED  BY <1>0, <1>1, <1>2, <1>3 DEF Purpose

\* What is credited is new to the account.
LEMMA CreditIsNew ==
    ASSUME BillInv, BillingNext, NEW v \in Users, NEW r, Purpose(v, r)
    PROVE  \A g \in granted[v] : g[1] # r
  <1> SUFFICES ASSUME NEW g \in granted[v], g[1] = r PROVE FALSE
    OBVIOUS
  <1>1. CreditedFor(r)
    BY DEF CreditedFor
  <1>2. ~(r \in OrderIds /\ Pending(r))
    BY <1>1 DEF BillInv, ReceiptsUsed
  <1>3. ~\E w \in Workers : \E s \in worker[w].stuck : r = s.order /\ v = s.user
    BY DEF BillInv, StuckUncredited
  <1>4. /\ r \in Keys => \E p \in redeemed : p[1] = r
        /\ r \in Charges => r \in starPayments
        /\ r \in Grants => r \in grants
    BY <1>1 DEF BillInv, ReceiptsUsed
  <1> QED  BY <1>2, <1>3, <1>4, PurposeOf

\* Nothing but what a step credits becomes credited.
LEMMA CreditedStep ==
    ASSUME BillInv, BillingNext, NEW r, CreditedFor(r)'
    PROVE  CreditedFor(r) \/ \E v \in Users : Purpose(v, r)
  <1>1. PICK v \in Users : \E g \in granted'[v] : g[1] = r
    BY DEF CreditedFor
  <1>2. CASE Kept(v) \/ Reset(v)
    BY <1>1, <1>2 DEF Kept, Reset, CreditedFor
  <1>3. CASE Paid(v)
    <2>1. PICK s \in Receipts, days \in Nat, at \in Nat :
            CreditDays(v, s, days, at) /\ Purpose(v, s)
      BY <1>3 DEF Paid
    <2>2. granted'[v] = granted[v] \cup {<<s, days>>}
      BY <2>1 DEF CreditDays, BillInv, OrdersPart, TypeOK, SubTypeOK
    <2> QED  BY <1>1, <2>1, <2>2 DEF CreditedFor
  <1> QED  BY <1>2, <1>3, AccountStep

\* Orders that are open or to come were so before.
LEMMA OpenBefore ==
    ASSUME BillInv, BillingNext, NEW o \in OrderIds, o >= nextOrder' \/ orders'[o].status = "pending"
    PROVE  o >= nextOrder \/ Pending(o)
  <1>1. CASE Next
    <2>0. nextOrder \in Nat /\ o \in Nat
      BY OrderConstants DEF BillInv, OrdersPart, TypeOK, OrdersTypeOK, OrderIds
    <2>1. nextOrder' >= nextOrder /\ nextOrder' \in Nat
      BY <1>1, <2>0, CountersStep DEF BillInv, OrdersPart
    <2>2. CASE o = nextOrder
      BY <2>0, <2>2
    <2>3. CASE o # nextOrder
      <3>1. RowKept(o)
        BY <1>1, <2>3, RowStep DEF BillInv, OrdersPart
      <3> QED  BY <2>0, <2>1, <3>1 DEF RowKept, NoOrder, Pending
    <2> QED  BY <2>2, <2>3
  <1>2. CASE UNCHANGED orderVars
    BY <1>2 DEF orderVars, Pending
  <1> QED  BY <1>1, <1>2, StepOfOrders

\* Redemptions, charges and grants are recorded for good.
LEMMA HistoryStep ==
    ASSUME BillInv, BillingNext
    PROVE  redeemed \subseteq redeemed' /\ starPayments \subseteq starPayments' /\ grants \subseteq grants'
  BY DEF BillingNext, KeysNext, AdminCreateKey, AdminRevokeKey, CleanupKeys, RedeemStep, BeginRedeem,
         LockKey, CommitRedeem, AbandonRedeem, CreditStars, AdminGrantSubscription, PurgeUser,
         ForgetUser, keyVars, billingVars

\* Every step keeps what is still to be credited uncredited.
LEMMA ReceiptsStep ==
    ASSUME BillInv, BillingNext
    PROVE  ReceiptsUsed'
  <1>1. ASSUME NEW o \in OrderIds, o >= nextOrder' \/ orders'[o].status = "pending", CreditedFor(o)'
        PROVE  FALSE
    <2>1. ~CreditedFor(o)
      BY <1>1, OpenBefore DEF BillInv, ReceiptsUsed
    <2>2. PICK v \in Users : Purpose(v, o)
      BY <1>1, <2>1, CreditedStep
    <2> QED  BY <1>1, <2>2, PurposeOf, Disjoint
  <1>2. ASSUME NEW k \in Keys, CreditedFor(k)' PROVE \E p \in redeemed' : p[1] = k
    BY <1>2, CreditedStep, PurposeOf, HistoryStep, Disjoint DEF BillInv, ReceiptsUsed
  <1>3. ASSUME NEW c \in Charges, CreditedFor(c)' PROVE c \in starPayments'
    BY <1>3, CreditedStep, PurposeOf, HistoryStep, Disjoint DEF BillInv, ReceiptsUsed
  <1>4. ASSUME NEW g \in Grants, CreditedFor(g)' PROVE g \in grants'
    BY <1>4, CreditedStep, PurposeOf, HistoryStep, Disjoint DEF BillInv, ReceiptsUsed
  <1> QED  BY <1>1, <1>2, <1>3, <1>4 DEF ReceiptsUsed, Pending

-----------------------------------------------------------------------------
(* The sweep.                                                               *)

\* A run's rows are selected when it starts, and afterwards only become fewer.
LEMMA StuckStep ==
    ASSUME BillInv, BillingNext, NEW w \in Workers
    PROVE  \/ worker'[w].stuck \subseteq worker[w].stuck
           \/ StartRun(w) /\ worker'[w].stuck = StuckOrders
  <1>0. worker \in [Workers -> WorkerState]
    BY DEF BillInv, OrdersPart, TypeOK, OrdersTypeOK
  <1>1. CASE JobStep(w)
    <2>1. CASE StartRun(w)
      <3>1. PICK rows \in {StuckOrders} \cup (IF IgnoredErrors THEN {{}} ELSE {}) :
              worker' = [worker EXCEPT ![w] = [Idle EXCEPT !.pc = "sweep", !.stuck = rows]]
        BY <2>1 DEF StartRun
      <3>2. worker'[w].stuck = rows
        BY <1>0, <3>1 DEF Idle
      <3> QED  BY <2>1, <3>1, <3>2
    <2>2. CASE EndRun(w) \/ Interrupt(w)
      BY <1>0, <2>2 DEF EndRun, Interrupt, Idle
    <2>3. CASE \E s \in worker[w].stuck : worker' = [worker EXCEPT ![w].stuck = @ \ {s}]
      BY <1>0, <2>3 DEF WorkerState
    <2>4. CASE CountPending(w) \/ FeedDone(w) \/ ClaimOrder(w) \/ ClaimRollback(w)
      BY <1>0, <2>4 DEF CountPending, FeedDone, ClaimOrder, ClaimRollback, WorkerState
    <2>5. CASE \E net \in Networks : FetchTransfers(w, net) \/ FetchFails(w, net)
      BY <1>0, <2>5 DEF FetchTransfers, FetchFails, WorkerState
    <2>6. CASE \E t \in chain : SelectOrder(w, t)
      BY <1>0, <2>6 DEF SelectOrder, WorkerState
    <2> QED  BY <1>1, <2>1, <2>2, <2>3, <2>4, <2>5, <2>6 DEF JobStep, RecoverOrder
  <1>2. CASE ~JobStep(w)
    <2>1. worker'[w] = worker[w]
      <3>1. CASE UNCHANGED orderVars
        BY <3>1 DEF orderVars
      <3>2. CASE Next
        BY <1>2, <3>2, OthersKeepRun DEF BillInv, OrdersPart, Next, OrdersNext
      <3> QED  BY <3>1, <3>2, StepOfOrders
    <2> QED  BY <2>1
  <1> QED  BY <1>1, <1>2

\* A row that stays selected was not the one to recover.
LEMMA RecoveredOnce ==
    ASSUME OneRun, BillInv, BillingNext, NEW w \in Workers,
           NEW s \in worker[w].stuck, s \in worker'[w].stuck, NEW v
    PROVE  ~Purpose(v, s.order)
  <1> SUFFICES ASSUME Purpose(v, s.order) PROVE FALSE
    OBVIOUS
  <1>1. s.order \in OrderIds /\ ~Pending(s.order)
    BY DEF BillInv, StuckUncredited, OrdersPart, TypeOK, OrdersTypeOK, WorkerState, Stuck
  <1>2. PICK x \in Workers : \E t \in worker[x].stuck :
          t.order = s.order /\ worker' = [worker EXCEPT ![x].stuck = @ \ {t}]
    BY <1>1, PurposeOf, Disjoint
  <1>3. x = w
    BY DEF OneRun
  <1>4. PICK t \in worker[w].stuck :
          t.order = s.order /\ worker' = [worker EXCEPT ![w].stuck = @ \ {t}]
    BY <1>2, <1>3
  <1>5. t = s
    BY <1>4 DEF BillInv, StuckUncredited
  <1>6. worker \in [Workers -> WorkerState]
    BY DEF BillInv, OrdersPart, TypeOK, OrdersTypeOK
  <1>7. worker'[w].stuck = worker[w].stuck \ {s}
    BY <1>4, <1>5, <1>6 DEF WorkerState
  <1> QED  BY <1>7

\* A selected row stays without a receipt of its account until it is recovered.
LEMMA RowUncredited ==
    ASSUME OneRun, BillInv, BillingNext, NEW w \in Workers,
           NEW s \in worker[w].stuck, s \in worker'[w].stuck
    PROVE  \A g \in granted'[s.user] : g[1] # s.order
  <1>0. s \in Stuck /\ s.user \in Users
    BY DEF BillInv, OrdersPart, TypeOK, OrdersTypeOK, WorkerState, Stuck
  <1>1. \A g \in granted[s.user] : g[1] # s.order
    BY DEF BillInv, StuckUncredited
  <1>2. CASE Kept(s.user) \/ Reset(s.user)
    BY <1>1, <1>2 DEF Kept, Reset
  <1>3. CASE Paid(s.user)
    <2>1. PICK r \in Receipts, days \in Nat, at \in Nat :
            CreditDays(s.user, r, days, at) /\ Purpose(s.user, r)
      BY <1>3 DEF Paid
    <2>2. granted'[s.user] = granted[s.user] \cup {<<r, days>>}
      BY <1>0, <2>1 DEF CreditDays, BillInv, OrdersPart, TypeOK, SubTypeOK
    <2>3. r # s.order
      BY <2>1, RecoveredOnce
    <2> QED  BY <1>1, <2>2, <2>3
  <1> QED  BY <1>0, <1>2, <1>3, AccountStep

\* An order that was settled and numbered stays so.
LEMMA SettledRow ==
    ASSUME BillInv, BillingNext, NEW o \in OrderIds, o < nextOrder, ~Pending(o)
    PROVE  o < nextOrder' /\ orders'[o].status # "pending"
  <1>1. nextOrder \in Nat /\ nextOrder' \in Nat /\ o \in Nat
    BY PartsStep, OrderConstants DEF BillInv, OrdersPart, TypeOK, OrdersTypeOK, OrderIds
  <1> QED  BY <1>1, OpenBefore

\* Every step keeps the rows of the sweep without receipts.
LEMMA SweepStep ==
    ASSUME OneRun, BillInv, BillingNext
    PROVE  StuckUncredited'
  <1> SUFFICES ASSUME NEW w \in Workers, NEW s \in worker'[w].stuck
               PROVE  /\ s.order < nextOrder' /\ orders'[s.order].status # "pending"
                      /\ \A g \in granted'[s.user] : g[1] # s.order
                      /\ \A t \in worker'[w].stuck : t.order = s.order => t = s
    BY DEF StuckUncredited, Pending
  <1>0. OrdersPart'
    BY PartsStep DEF BillInv
  <1>1. s \in Stuck /\ s.order \in OrderIds /\ s.user \in Users
    BY <1>0 DEF OrdersPart, TypeOK, OrdersTypeOK, WorkerState, Stuck
  <1>2. CASE worker'[w].stuck \subseteq worker[w].stuck
    <2>1. /\ s.order < nextOrder /\ ~Pending(s.order)
          /\ \A t \in worker[w].stuck : t.order = s.order => t = s
      BY <1>2 DEF BillInv, StuckUncredited
    <2> QED  BY <1>1, <1>2, <2>1, RowUncredited, SettledRow
  <1>3. CASE StartRun(w) /\ worker'[w].stuck = StuckOrders
    <2>1. PICK o \in OrderIds :
            /\ s = [order |-> o, user |-> orders[o].user, days |-> orders[o].days]
            /\ orders[o].status = "paid" /\ users[orders[o].user].until = Null
      BY <1>3 DEF StuckOrders
    <2>2. o < nextOrder /\ ~Pending(o)
      BY <2>1, OrderConstants
         DEF BillInv, OrdersPart, TypeOK, OrdersTypeOK, OrderIds, FreshIds, NoOrder, Pending
    <2>3. granted'[s.user] = {}
      BY <1>1, <1>3, <2>1 DEF StartRun, subVars, BillInv, Sound
    <2>4. \A t \in StuckOrders : t.order = s.order => t = s
      BY <2>1 DEF StuckOrders
    <2> QED  BY <1>3, <2>1, <2>2, <2>3, <2>4, SettledRow
  <1> QED  BY <1>2, <1>3, StuckStep

-----------------------------------------------------------------------------
\* Time does not go back.
LEMMA TimeStep ==
    ASSUME BillInv, BillingNext
    PROVE  now' \in Nat /\ now' >= now
  <1>1. CASE Next
    BY <1>1, CountersStep DEF BillInv, OrdersPart
  <1>2. CASE ~Next
    <2>1. UNCHANGED now
      BY <1>2 DEF BillingNext, Next, KeysNext, AdminCreateKey, AdminRevokeKey, CleanupKeys,
             RedeemStep, BeginRedeem, LockKey, CommitRedeem, AbandonRedeem, CreditStars,
             AdminGrantSubscription, PurgeUser, subVars
    <2> QED  BY <2>1 DEF BillInv, OrdersPart, TypeOK, SubTypeOK
  <1> QED  BY <1>1, <1>2

\* A redemption began at some time in the past.
LEMMA BegunStep ==
    ASSUME BillInv, BillingNext
    PROVE  BegunBefore'
  <1> SUFFICES ASSUME NEW r \in Redeemers PROVE redeem'[r].at <= now'
    BY DEF BegunBefore
  <1>0. /\ redeem \in [Redeemers -> RedeemState] /\ redeem[r].at \in Nat
        /\ redeem[r].at <= now /\ now \in Nat /\ now' \in Nat /\ now' >= now
    BY TimeStep DEF BillInv, BegunBefore, KeysInv, KeysTypeOK, RedeemState, SubTypeOK
  <1>1. CASE \E q \in Redeemers : RedeemStep(q)
    <2>1. redeem'[r].at \in {redeem[r].at, now, 0}
      BY <1>0, <1>1 DEF RedeemStep, BeginRedeem, LockKey, CommitRedeem, AbandonRedeem, NoRedeem,
                        RedeemState
    <2> QED  BY <1>0, <2>1
  <1>2. CASE UNCHANGED redeem
    BY <1>0, <1>2
  <1> QED
    BY <1>1, <1>2 DEF BillingNext, KeysNext, AdminCreateKey, AdminRevokeKey, CleanupKeys,
           CreditStars, AdminGrantSubscription, PurgeUser, ForgetUser, keyVars

\* Every step keeps every account sound.
LEMMA SoundStep ==
    ASSUME BillInv, BillingNext, NEW v \in Users
    PROVE  Sound(v)'
  <1>0. SubTypeOK /\ Sound(v)
    BY DEF BillInv, OrdersPart, TypeOK
  <1>1. CASE Paid(v)
    BY <1>0, <1>1, CreditSound, CreditIsNew DEF Paid
  <1> QED  BY <1>0, <1>1, AccountStep, KeptSound, ResetSound, TimeStep

\* A stutter changes nothing of it.
LEMMA BillingUnchanged ==
    ASSUME BillInv, UNCHANGED <<vars, keyVars, billingVars>>
    PROVE  BillInv'
  <1>1. UNCHANGED <<now, users, granted, orderVars, keyVars, starPayments, grants>>
    BY DEF vars, subVars, billingVars
  <1>2. SubTypeOK'
    BY <1>1 DEF BillInv, OrdersPart, TypeOK, SubTypeOK
  <1>3. OrdersPart' /\ KeysInv'
    BY <1>1, <1>2, OrdersKept, KeysKept DEF BillInv
  <1>4. \A u \in Users : Sound(u)'
    BY <1>1 DEF BillInv, Sound, PaidDays
  <1>5. ReceiptsUsed'
    BY <1>1 DEF BillInv, ReceiptsUsed, CreditedFor, Pending, orderVars, keyVars
  <1>6. StuckUncredited' /\ BegunBefore'
    BY <1>1 DEF BillInv, StuckUncredited, Pending, BegunBefore, orderVars, keyVars
  <1> QED  BY <1>3, <1>4, <1>5, <1>6 DEF BillInv

\* The invariant holds at the start.
LEMMA BillingStart == BillingInit => BillInv
  <1> SUFFICES ASSUME BillingInit PROVE BillInv
    OBVIOUS
  <1>1. OrdersPart
    BY InitType DEF BillingInit, Init, OrdersInit, OrdersPart, RunsFollowChain, RunFollowsChain,
                    Idle, FreshIds
  <1>2. KeysInv
    BY KeysStart DEF BillingInit, Init, KeysSystemInit
  <1>3. ASSUME NEW u \in Users PROVE Sound(u)
    <2>1. granted[u] = {} /\ users[u].until = Null
      BY DEF BillingInit, Init, SubInit, NoUser, LifetimeRow
    <2> QED  BY <2>1, NoDays DEF Sound, PaidDays
  <1>4. ReceiptsUsed
    BY DEF BillingInit, Init, SubInit, ReceiptsUsed, CreditedFor
  <1>5. StuckUncredited /\ BegunBefore
    BY DEF BillingInit, Init, OrdersInit, SubInit, KeysInit, StuckUncredited, Idle, BegunBefore,
           NoRedeem
  <1> QED  BY <1>1, <1>2, <1>3, <1>4, <1>5 DEF BillInv

\* The invariant, when runs of VerifyPayments do not overlap.
LEMMA BillingInvariant ==
    ASSUME OneRun
    PROVE  BillingSpec => []BillInv
  <1>1. BillInv /\ [BillingNext]_<<vars, keyVars, billingVars>> => BillInv'
    <2>1. BillInv /\ BillingNext => BillInv'
      BY PartsStep, SoundStep, ReceiptsStep, SweepStep, BegunStep DEF BillInv
    <2> QED  BY <2>1, BillingUnchanged
  <1> QED  BY BillingStart, <1>1, PTL DEF BillingSpec

(***************************************************************************)
(* No credit is lost, doubled or invented, whichever way the days were     *)
(* bought, granted or redeemed, in any order and with any overlap of       *)
(* requests, deletions and one run of the job (subscription.go:30-47,      *)
(* stars.go:128-158, auth.go:205-229, payments_verify.go:48-71, 116-142).  *)
(***************************************************************************)
THEOREM DaysConserved ==
    ASSUME OneRun
    PROVE  BillingSpec => []PaidDaysConserved
  <1>1. BillInv => PaidDaysConserved
    BY DEF BillInv, Sound, PaidDaysConserved
  <1> QED  BY <1>1, BillingInvariant, PTL

-----------------------------------------------------------------------------
(* The tables of orders and keys keep what they promise.                    *)

\* A step that is not one of Orders leaves its tables and the clock alone.
LEMMA OrdersSame ==
    ASSUME OrdersInv, SubTypeOK', UNCHANGED <<now, orderVars>>
    PROVE  OrdersInv'
  <1>1. UNCHANGED <<now, orders, nextOrder, creating, chain, worker, credits>>
    BY DEF orderVars
  <1>2. TypeOK' /\ FreshIds' /\ RunsFollowChain' /\ TxPaysOneOrder'
    BY <1>1 DEF OrdersInv, TypeOK, OrdersTypeOK, FreshIds, RunsFollowChain, RunFollowsChain,
                Recorded, TxPaysOneOrder
  <1>3. ReservationsSawOthers' /\ ChainWellFormed'
    BY <1>1 DEF OrdersInv, ReservationsSawOthers, ChainWellFormed, Live, Pending
  <1>4. SharedAmountOnlyUnseen' /\ SelectionsOnTime'
    BY <1>1 DEF OrdersInv, SharedAmountOnlyUnseen, SelectionsOnTime, SelectionOnTime, Live,
                Pending, SharedAmount, Unseen, SumOf
  <1> QED  BY <1>2, <1>3, <1>4 DEF OrdersInv

\* Orders' invariants and those of AccessKeys, as they prove them.
PartsInv == OrdersInv /\ CreditsOfOrders /\ KeysInv

\* A step of the whole is one of Orders or leaves its tables and the clock alone.
LEMMA OrdersOrNot ==
    ASSUME [BillingNext]_<<vars, keyVars, billingVars>>
    PROVE  Next \/ UNCHANGED <<now, orderVars>>
  BY DEF BillingNext, Next, KeysNext, AdminCreateKey, AdminRevokeKey, CleanupKeys, RedeemStep,
         BeginRedeem, LockKey, CommitRedeem, AbandonRedeem, CreditStars, AdminGrantSubscription,
         PurgeUser, vars, subVars

\* Every step keeps what the tables of orders and keys promise.
LEMMA PartsInvStep ==
    PartsInv /\ [BillingNext]_<<vars, keyVars, billingVars>> => PartsInv'
  <1> SUFFICES ASSUME PartsInv, [BillingNext]_<<vars, keyVars, billingVars>> PROVE PartsInv'
    OBVIOUS
  <1>0. OrdersPart /\ KeysInv
    BY DEF PartsInv, OrdersInv, OrdersPart
  <1>1. SubTypeOK' /\ KeysInv'
    <2>1. CASE BillingNext
      BY <1>0, <2>1, SubTypeStep, PartsStep
    <2>2. CASE UNCHANGED <<vars, keyVars, billingVars>>
      <3>1. SubTypeOK'
        BY <1>0, <2>2 DEF OrdersPart, TypeOK, SubTypeOK, vars, subVars
      <3> QED  BY <1>0, <2>2, <3>1, KeysKept
    <2> QED  BY <2>1, <2>2
  <1>2. Next \/ UNCHANGED <<now, orderVars>>
    BY OrdersOrNot
  <1>3. OrdersInv' /\ CreditsOfOrders'
    <2>1. CASE Next
      BY <2>1, OrdersStep, NextCredits DEF PartsInv, OrdersInv
    <2>2. CASE UNCHANGED <<now, orderVars>>
      BY <1>1, <2>2, OrdersSame DEF PartsInv, CreditsOfOrders, PaidIffCredited, orderVars
    <2> QED  BY <1>2, <2>1, <2>2
  <1> QED  BY <1>1, <1>3 DEF PartsInv

(***************************************************************************)
(* Orders and keys keep what they promise on their own next to all other   *)
(* writers of the users table: redemptions, Stars credits and grants that  *)
(* land between the job's statements, and deletions that reach both.       *)
(***************************************************************************)
THEOREM PartsKeepTheirWord ==
    BillingSpec => [](TxPaysOneOrder /\ PaidIffCredited /\ SharedAmountOnlyUnseen /\ KeySingleUse)
  <1>1. BillingInit => PartsInv
    BY OrdersStart, CreditsStart, KeysStart DEF BillingInit, Init, KeysSystemInit, PartsInv
  <1>2. PartsInv => TxPaysOneOrder /\ PaidIffCredited /\ SharedAmountOnlyUnseen /\ KeySingleUse
    BY DEF PartsInv, OrdersInv, CreditsOfOrders, KeysInv
  <1> QED  BY <1>1, <1>2, PartsInvStep, PTL DEF BillingSpec

(***************************************************************************)
(* What a single step may do to an order, a payment or a redemption it may *)
(* not do either while keys, charges, grants and deletions interleave: a   *)
(* settled order is not reopened, a payment goes to the order it was meant *)
(* for, and a redemption gives what its key grants                         *)
(* (orders.go:171-173, payments_verify.go:109-142, auth.go:176-229).       *)
(***************************************************************************)
THEOREM PartsStepByStep ==
    BillingSpec => /\ SettledStaysSettled
                   /\ OnTimePaymentReachesItsOrder
                   /\ RedeemGrantsPlan
  <1> DEFINE Step == [BillingNext]_<<vars, keyVars, billingVars>>
  <1>1. BillingInit => PartsInv
    BY OrdersStart, CreditsStart, KeysStart DEF BillingInit, Init, KeysSystemInit, PartsInv
  <1>2. PartsInv /\ Step
          => [\A o \in OrderIds :
                orders[o].status \in {"paid", "expired"} =>
                   orders'[o].status \in {orders[o].status, "none"}]_orders
    BY OrdersOrNot, NextSettled DEF PartsInv, OrdersInv, orderVars
  <1>3. PartsInv /\ Step
          => [\A c \in credits' \ credits, w \in Workers :
                LET t == worker[w].tr
                IN  /\ worker'[w] # worker[w] /\ t.intent # c[1]
                    /\ Live(t.intent) /\ SumOf(t.intent, t)
                    => Unseen(t.intent, c[1])]_credits
    BY OrdersOrNot, CreditedUnseen DEF PartsInv, orderVars
  <1>4. PartsInv /\ Step =>
          [\A r \in Redeemers :
             LET u    == redeem[r].user
                 days == keys[redeem[r].key].days
             IN  Redeeming(r) /\ redeem[r].unlimited = Unlimited(users[u]) =>
                   \/ /\ days = Null \/ Unlimited(users[u])
                      /\ Unlimited(users'[u])
                   \/ /\ days # Null /\ ~Unlimited(users[u])
                      /\ users'[u].active
                      /\ users'[u].until >= redeem[r].at + days
                      /\ users[u].until # Null => users'[u].until >= users[u].until + days]_redeemed
    <2>1. Step => KeysSystemNext \/ UNCHANGED redeemed
      BY StepOfKeys DEF keyVars
    <2> HIDE DEF Step
    <2> QED  BY <2>1, RedeemingCommits, CommitGrants DEF PartsInv, KeysInv
  <1>5. BillingSpec => SettledStaysSettled /\ OnTimePaymentReachesItsOrder
    BY <1>1, <1>2, <1>3, PartsInvStep, PTL
       DEF BillingSpec, SettledStaysSettled, OnTimePaymentReachesItsOrder
  <1>6. BillingSpec => RedeemGrantsPlan
    BY <1>1, <1>4, PartsInvStep, PTL DEF BillingSpec, RedeemGrantsPlan
  <1> QED  BY <1>5, <1>6

-----------------------------------------------------------------------------
(* The ledger (see Billing's Promise).                                      *)

OfferDays == {f.days : f \in Offers}

\* The histories hold what their tables can hold.
OwnTables == starPayments \subseteq Charges /\ grants \subseteq Grants

\* The days of an order are with its buyer.
Owners ==
    \A u \in Users : \A g \in granted[u] :
        g[1] \in OrderIds => orders[g[1]].status = "none" \/ orders[g[1]].user = u

\* The rows of the sweep were credited once, and nobody holds them now.
RowsLost ==
    \A w \in Workers : \A s \in worker[w].stuck :
        /\ ~CreditedFor(s.order)
        /\ \E c \in credits : c[1] = s.order
        /\ orders[s.order].status = "none" \/ orders[s.order].user = s.user

\* What orders and keys carry is on sale.
OnSale ==
    /\ \A u \in Users : creating[u] # Null => creating[u].days \in OfferDays
    /\ \A o \in OrderIds : orders[o].status # "none" => orders[o].days \in OfferDays
    /\ \A w \in Workers : \A s \in worker[w].stuck : s.days \in OfferDays
    /\ \A k \in Keys : keys[k].state = "unused" => keys[k].days \in KeyPlans

LedgerInv == BillInv /\ PartsInv /\ OwnTables /\ Owners /\ RowsLost /\ OnSale

\* A row of orders stays, is settled or deleted, or is new.
LEMMA RowOf ==
    ASSUME BillInv, BillingNext, NEW o \in OrderIds
    PROVE  RowKept(o) \/ (o = nextOrder /\ \E u \in Users : InsertOrder(u))
  <1>1. CASE Next
    BY <1>1, RowStep DEF BillInv, OrdersPart
  <1>2. CASE UNCHANGED orderVars
    BY <1>2 DEF orderVars, RowKept
  <1> QED  BY <1>1, <1>2, StepOfOrders

\* An order that was settled keeps its buyer while it is there.
LEMMA SettledKeeps ==
    ASSUME BillInv, BillingNext, NEW o \in OrderIds, o < nextOrder, ~Pending(o)
    PROVE  orders'[o] = orders[o] \/ orders'[o].status = "none"
  <1>1. o # nextOrder
    BY OrderConstants DEF BillInv, OrdersPart, TypeOK, OrdersTypeOK, OrderIds
  <1> QED  BY <1>1, RowOf DEF RowKept, NoOrder, Pending

\* Credits are recorded for good.
LEMMA CreditsGrow ==
    ASSUME BillInv, BillingNext
    PROVE  credits \subseteq credits'
  <1>1. CASE Next
    BY <1>1, OnlyClaimsCredit DEF ClaimOrder
  <1>2. CASE UNCHANGED orderVars
    BY <1>2 DEF orderVars
  <1> QED  BY <1>1, <1>2, StepOfOrders

\* A step records charges and grants that there are.
LEMMA OwnTablesStep ==
    ASSUME OwnTables, BillingNext
    PROVE  OwnTables'
  <1>1. CASE UNCHANGED billingVars
    BY <1>1 DEF OwnTables, billingVars
  <1>2. CASE \E u \in Users : \/ \E c \in Charges : CreditStars(c, u)
                              \/ \E g \in Grants : AdminGrantSubscription(g, u)
    BY <1>2 DEF OwnTables, CreditStars, AdminGrantSubscription
  <1> QED  BY <1>1, <1>2 DEF BillingNext, PurgeUser

\* Whoever is credited for an order is its buyer.
LEMMA OwnersStep ==
    ASSUME LedgerInv, BillingNext
    PROVE  Owners'
  <1> SUFFICES ASSUME NEW v \in Users, NEW g \in granted'[v], g[1] \in OrderIds
               PROVE  orders'[g[1]].status = "none" \/ orders'[g[1]].user = v
    BY DEF Owners
  <1> DEFINE o == g[1]
  <1>0. BillInv /\ nextOrder \in Nat /\ o \in Nat
    BY OrderConstants DEF LedgerInv, BillInv, OrdersPart, TypeOK, OrdersTypeOK, OrderIds
  <1>1. CASE g \in granted[v]
    <2>1. CreditedFor(o)
      BY <1>1 DEF CreditedFor
    <2>2. o < nextOrder /\ ~Pending(o)
      BY <1>0, <2>1 DEF BillInv, ReceiptsUsed
    <2>3. orders[o].status = "none" \/ orders[o].user = v
      BY <1>1 DEF LedgerInv, Owners
    <2> QED  BY <1>0, <2>2, <2>3, SettledKeeps
  <1>2. CASE g \notin granted[v]
    <2>1. Paid(v)
      BY <1>0, <1>2, AccountStep DEF Kept, Reset
    <2>2. PICK r \in Receipts, days \in Nat, at \in Nat :
            CreditDays(v, r, days, at) /\ Purpose(v, r)
      BY <2>1 DEF Paid
    <2>3. granted'[v] = granted[v] \cup {<<r, days>>}
      BY <1>0, <2>2 DEF CreditDays, BillInv, OrdersPart, TypeOK, SubTypeOK
    <2>4. r = o
      BY <1>2, <2>3
    <2>5. /\ o < nextOrder
          /\ \/ Pending(o) /\ v = orders[o].user
             \/ \E w \in Workers : \E s \in worker[w].stuck : o = s.order /\ v = s.user
      BY <1>0, <2>2, <2>4, PurposeOf, Disjoint
    <2>6. CASE Pending(o) /\ v = orders[o].user
      <3>1. RowKept(o)
        BY <1>0, <2>5, RowOf
      <3> QED  BY <2>6, <3>1 DEF RowKept, SameOrder, NoOrder
    <2>7. CASE \E w \in Workers : \E s \in worker[w].stuck : o = s.order /\ v = s.user
      <3>1. ~Pending(o) /\ (orders[o].status = "none" \/ orders[o].user = v)
        BY <2>7 DEF LedgerInv, BillInv, StuckUncredited, RowsLost
      <3> QED  BY <1>0, <2>5, <3>1, SettledKeeps
    <2> QED  BY <2>5, <2>6, <2>7
  <1> QED  BY <1>1, <1>2

\* A paid order of an account without an expiry is with nobody.
LEMMA StuckIsLost ==
    ASSUME LedgerInv, NEW s \in StuckOrders
    PROVE  /\ s.order \in OrderIds /\ s.order < nextOrder /\ ~Pending(s.order)
           /\ ~CreditedFor(s.order)
           /\ \E c \in credits : c[1] = s.order
           /\ orders[s.order].user = s.user
           /\ s.days \in OfferDays
  <1>1. PICK o \in OrderIds :
          /\ s = [order |-> o, user |-> orders[o].user, days |-> orders[o].days]
          /\ orders[o].status = "paid" /\ users[orders[o].user].until = Null
    BY DEF StuckOrders
  <1>2. o < nextOrder /\ ~Pending(o)
    BY <1>1, OrderConstants
       DEF LedgerInv, BillInv, OrdersPart, TypeOK, OrdersTypeOK, OrderIds, FreshIds, NoOrder, Pending
  <1>3. ASSUME CreditedFor(o) PROVE FALSE
    <2>1. PICK u \in Users : \E g \in granted[u] : g[1] = o
      BY <1>3 DEF CreditedFor
    <2>2. orders[o].user = u
      BY <1>1, <2>1 DEF LedgerInv, Owners
    <2> QED  BY <1>1, <2>1, <2>2 DEF LedgerInv, BillInv, Sound
  <1>4. <<o, orders[o].tx>> \in credits
    BY <1>1 DEF LedgerInv, PartsInv, CreditsOfOrders, PaidIffCredited
  <1> QED  BY <1>1, <1>2, <1>3, <1>4 DEF LedgerInv, OnSale

\* Every step keeps the rows of the sweep with nobody.
LEMMA RowsLostStep ==
    ASSUME OneRun, LedgerInv, BillingNext
    PROVE  RowsLost'
  <1> SUFFICES ASSUME NEW w \in Workers, NEW s \in worker'[w].stuck
               PROVE  /\ ~CreditedFor(s.order)'
                      /\ \E c \in credits' : c[1] = s.order
                      /\ orders'[s.order].status = "none" \/ orders'[s.order].user = s.user
    BY DEF RowsLost, CreditedFor
  <1>0. BillInv
    BY DEF LedgerInv
  <1>1. CASE worker'[w].stuck \subseteq worker[w].stuck
    <2>1. /\ s \in worker[w].stuck
          /\ s.order < nextOrder /\ ~Pending(s.order) /\ ~CreditedFor(s.order)
          /\ \E c \in credits : c[1] = s.order
          /\ orders[s.order].status = "none" \/ orders[s.order].user = s.user
      BY <1>1 DEF LedgerInv, BillInv, StuckUncredited, RowsLost
    <2>2. s.order \in OrderIds
      BY <2>1 DEF LedgerInv, BillInv, OrdersPart, TypeOK, OrdersTypeOK, WorkerState, Stuck
    <2>3. ~CreditedFor(s.order)'
      BY <1>0, <2>1, RecoveredOnce, CreditedStep
    <2> QED  BY <1>0, <2>1, <2>2, <2>3, SettledKeeps, CreditsGrow
  <1>2. CASE StartRun(w) /\ worker'[w].stuck = StuckOrders
    <2>1. UNCHANGED <<granted, credits>>
      BY <1>2 DEF StartRun, subVars
    <2> QED  BY <1>0, <1>2, <2>1, StuckIsLost, SettledKeeps DEF CreditedFor
  <1> QED  BY <1>0, <1>1, <1>2, StuckStep

\* Every step keeps to what is on sale.
LEMMA OnSaleStep ==
    ASSUME LedgerInv, BillingNext
    PROVE  OnSale'
  <1>0. BillInv
    BY DEF LedgerInv
  <1>1. ASSUME NEW u \in Users, creating'[u] # Null PROVE creating'[u].days \in OfferDays
    <2>0. creating \in [Users -> Reservation \cup {Null}]
      BY <1>0 DEF BillInv, OrdersPart, TypeOK, OrdersTypeOK
    <2>1. CASE \E x \in Users : ReserveAmount(x) \/ ReserveBlind(x)
      <3>1. PICK x \in Users, offer \in Offers, asset \in Assets :
              \E amount, from :
                creating' = [creating EXCEPT ![x] = [days |-> offer.days, asset |-> asset,
                                                     amount |-> amount, from |-> from]]
        BY <2>1 DEF ReserveAmount, ReserveBlind
      <3> QED  BY <1>1, <2>0, <3>1 DEF LedgerInv, OnSale, OfferDays
    <2>2. CASE \E x \in Users : creating' = [creating EXCEPT ![x] = Null]
      BY <1>1, <2>0, <2>2 DEF LedgerInv, OnSale
    <2>3. CASE UNCHANGED creating
      BY <1>1, <2>3 DEF LedgerInv, OnSale
    <2> QED
      BY <2>1, <2>2, <2>3, StepOfOrders
         DEF Next, OrdersNext, RequestStep, ReserveBusy, InsertOrder, InsertFails, CancelOrder,
             DeleteAccount, LiftLimit, Pay, JobStep, StartRun, RecoverOrder, CountPending,
             FetchTransfers, FetchFails, EndRun, FeedDone, SelectOrder, ClaimOrder,
             ClaimRollback, Interrupt, orderVars
  <1>2. ASSUME NEW o \in OrderIds, orders'[o].status # "none" PROVE orders'[o].days \in OfferDays
    <2>1. CASE RowKept(o)
      BY <1>2, <2>1 DEF RowKept, SameOrder, NoOrder, LedgerInv, OnSale
    <2>2. CASE o = nextOrder /\ \E u \in Users : InsertOrder(u)
      <3>1. PICK u \in Users : InsertOrder(u)
        BY <2>2
      <3>2. orders'[o].days = creating[u].days /\ creating[u] # Null
        BY <1>0, <2>2, <3>1 DEF InsertOrder, BillInv, OrdersPart, TypeOK, OrdersTypeOK
      <3> QED  BY <3>2 DEF LedgerInv, OnSale
    <2> QED  BY <1>0, <2>1, <2>2, RowOf
  <1>3. ASSUME NEW w \in Workers, NEW s \in worker'[w].stuck PROVE s.days \in OfferDays
    BY <1>0, <1>3, StuckStep, StuckIsLost DEF LedgerInv, OnSale
  <1>4. ASSUME NEW k \in Keys, keys'[k].state = "unused" PROVE keys'[k].days \in KeyPlans
    <2>0. keys \in [Keys -> KeyRow]
      BY <1>0 DEF BillInv, KeysInv, KeysTypeOK
    <2>1. CASE \E x \in Keys : AdminCreateKey(x)
      BY <1>4, <2>0, <2>1 DEF AdminCreateKey, LedgerInv, OnSale
    <2>2. CASE keys'[k] = keys[k]
      BY <1>4, <2>2 DEF LedgerInv, OnSale
    <2>3. CASE \E u \in Users : RemoveAccount(u)
      <3>1. PICK u \in Users :
              keys' = [x \in Keys |-> IF keys[x].usedBy = u THEN [keys[x] EXCEPT !.usedBy = Null]
                                     ELSE keys[x]]
        BY <2>3 DEF RemoveAccount, ForgetUser
      <3>2. keys'[k].days = keys[k].days /\ keys'[k].state = keys[k].state
        BY <2>0, <3>1 DEF KeyRow
      <3> QED  BY <1>4, <3>2 DEF LedgerInv, OnSale
    <2>4. CASE \E x \in Keys : AdminRevokeKey(x)
      BY <1>4, <2>0, <2>4 DEF AdminRevokeKey, NoKey, LedgerInv, OnSale
    <2>5. CASE CleanupKeys
      BY <1>4, <2>0, <2>5 DEF CleanupKeys, NoKey, LedgerInv, OnSale
    <2>6. CASE \E r \in Redeemers : CommitRedeem(r)
      <3>1. PICK r \in Redeemers : CommitRedeem(r)
        BY <2>6
      <3>2. keys[redeem[r].key] \in KeyRow
        BY <1>0, <2>0, <3>1, CommitRows DEF BillInv, KeysInv
      <3>3. k # redeem[r].key
        BY <1>4, <2>0, <3>1, <3>2 DEF CommitRedeem, KeyRow
      <3> QED  BY <2>0, <2>2, <3>1, <3>3 DEF CommitRedeem
    <2>7. CASE UNCHANGED keys
      BY <2>2, <2>7
    <2> QED
      BY <2>1, <2>3, <2>4, <2>5, <2>6, <2>7, StepOfKeys
         DEF KeysSystemNext, KeysNext, RedeemStep, BeginRedeem, LockKey, AbandonRedeem, keyVars
  <1> QED  BY <1>1, <1>2, <1>3, <1>4 DEF OnSale, OfferDays

-----------------------------------------------------------------------------
(* Every step is one of the ledger's, or none.                              *)

\* Whoever leaves accounts, histories and the clock alone leaves the ledger so.
LEMMA LedgerSame ==
    ASSUME SubTypeOK, SubTypeOK', \A v \in Users : Kept(v), now' = now,
           SpentReceipts' = SpentReceipts
    PROVE  UNCHANGED Promise!ledgerVars
  <1>1. granted' = granted
    BY DEF SubTypeOK, Kept
  <1>2. \A v \in Users : users'[v].until = users[v].until
    BY DEF Kept
  <1> QED  BY <1>1, <1>2 DEF Promise!ledgerVars

\* What a history that grows by a pair is about.
LEMMA FirstsAdded ==
    ASSUME NEW S, NEW r, NEW x
    PROVE  {p[1] : p \in S \cup {<<r, x>>}} = {p[1] : p \in S} \cup {r}
  <1>1. <<r, x>>[1] = r
    OBVIOUS
  <1>2. {p[1] : p \in S \cup {<<r, x>>}} = {p[1] : p \in S} \cup {<<r, x>>[1]}
    OBVIOUS
  <1> QED  BY <1>1, <1>2

\* The UPSERT is the ledger's credit, if its receipt is good.
LEMMA CreditMaps ==
    ASSUME SubTypeOK, NEW v \in Users, NEW r \in Receipts, NEW days \in TermsOnSale,
           NEW at \in Nat, at <= now, now' = now, CreditDays(v, r, days, at),
           Promise!Good(r), SpentReceipts' = SpentReceipts \cup {r}
    PROVE  Promise!LedgerNext
  <1> DEFINE ends == [u \in Users |-> users[u].until]
  <1>1. at \in 0 .. now
    BY DEF SubTypeOK
  <1>2. \A u \in Users :
          users'[u].until = IF u = v THEN Extended(at, users[v].until, days) ELSE users[u].until
    BY DEF CreditDays, SubTypeOK
  <1>3. [u \in Users |-> users'[u].until] =
          [ends EXCEPT ![v] = (IF @ = Null \/ @ < at THEN at ELSE @) + days]
    BY <1>2 DEF Extended
  <1>4. granted' = [granted EXCEPT ![v] = @ \cup {<<r, days>>}]
    BY DEF CreditDays
  <1>5. Promise!Credit(v, r, days)
    BY <1>1, <1>3, <1>4 DEF Promise!Credit
  <1> QED  BY <1>5 DEF Promise!LedgerNext

\* An account that is dropped or has its limit lifted is the ledger's Lift.
LEMMA LiftMaps ==
    ASSUME SubTypeOK, SubTypeOK', NEW u \in Users, Reset(u),
           \A v \in Users \ {u} : Kept(v), now' = now,
           \/ SpentReceipts' = SpentReceipts
           \/ \E r \in Receipts : r \notin SpentReceipts /\ SpentReceipts' = SpentReceipts \cup {r}
    PROVE  Promise!LedgerNext
  <1> DEFINE ends == [x \in Users |-> users[x].until]
  <1>1. [x \in Users |-> users'[x].until] = [ends EXCEPT ![u] = Null]
    BY DEF Reset, Kept
  <1>2. granted' = [granted EXCEPT ![u] = {}]
    BY DEF SubTypeOK, Reset, Kept
  <1>3. Promise!Lift(u)
    BY <1>1, <1>2 DEF Promise!Lift, Promise!Spend
  <1> QED  BY <1>3 DEF Promise!LedgerNext

\* A request of the buyer says nothing about the ledger.
LEMMA RequestMaps ==
    ASSUME LedgerInv, BillingNext, NEW u \in Users, RequestStep(u),
           UNCHANGED <<keyVars, billingVars>>
    PROVE  UNCHANGED Promise!ledgerVars
  <1>0. SubTypeOK /\ SubTypeOK' /\ \A v \in Users : Sound(v)
    BY SubTypeStep DEF LedgerInv, BillInv, OrdersPart, TypeOK
  <1>1. \A v \in Users : Kept(v)
    BY <1>0, RequestAccount
  <1>2. UNCHANGED <<now, credits>>
    BY DEF RequestStep, ReserveAmount, ReserveBlind, ReserveBusy, InsertOrder, InsertFails,
           CancelOrder, subVars
  <1>3. SpentReceipts' = SpentReceipts
    BY <1>2 DEF SpentReceipts, keyVars, billingVars
  <1> QED  BY <1>0, <1>1, <1>2, <1>3, LedgerSame

\* An order that nobody holds is good for its days.
LEMMA OrderGood ==
    ASSUME NEW o \in OrderIds, ~CreditedFor(o)
    PROVE  Promise!Good(o)
  BY DEF CreditedFor, Promise!Good, Promise!Holds

\* The job credits an order that nobody holds, or does nothing to the ledger.
LEMMA JobMaps ==
    ASSUME LedgerInv, BillingNext, NEW w \in Workers, JobStep(w),
           UNCHANGED <<keyVars, billingVars>>
    PROVE  Promise!LedgerNext \/ UNCHANGED Promise!ledgerVars
  <1>0. /\ BillInv /\ SubTypeOK /\ SubTypeOK' /\ now \in Nat
        /\ UNCHANGED <<starPayments, grants, redeemed>>
    BY SubTypeStep DEF LedgerInv, BillInv, OrdersPart, TypeOK, SubTypeOK, keyVars, billingVars
  <1>1. CASE ClaimOrder(w)
    <2> DEFINE o == worker[w].order
               tx == worker[w].tr.tx
    <2>1. o \in OrderIds /\ Pending(o)
      BY <1>0, <1>1, ClaimIsFresh DEF BillInv, OrdersPart, ClaimOrder, Claimable
    <2>2. orders[o].user \in Users /\ o \in Receipts
      BY <1>0, <2>1, OrderConstants
         DEF BillInv, OrdersPart, TypeOK, OrdersTypeOK, OrderRow, NoOrder, Pending
    <2>3. orders[o].days \in TermsOnSale
      BY <2>1 DEF LedgerInv, OnSale, OfferDays, TermsOnSale, Pending
    <2>4. CreditDays(orders[o].user, o, orders[o].days, now) /\ now' = now
      BY <1>1 DEF ClaimOrder, Extend
    <2>5. Promise!Good(o)
      BY <1>0, <2>1, OrderGood DEF BillInv, ReceiptsUsed
    <2>6. credits' = credits \cup {<<o, tx>>}
      BY <1>1 DEF ClaimOrder
    <2>7. SpentReceipts' = SpentReceipts \cup {o}
      <3>1. {c[1] : c \in credits'} = {c[1] : c \in credits} \cup {o}
        BY <2>6, FirstsAdded
      <3> QED  BY <1>0, <3>1 DEF SpentReceipts
    <2> QED  BY <1>0, <2>2, <2>3, <2>4, <2>5, <2>7, CreditMaps
  <1>2. CASE RecoverOrder(w)
    <2>1. PICK s \in worker[w].stuck : Extend(s.user, s.order, s.days) \/ UNCHANGED <<users, granted>>
      BY <1>2 DEF RecoverOrder
    <2>2. s.order \in OrderIds /\ s.user \in Users /\ s.order \in Receipts
      BY <1>0, OrderConstants DEF BillInv, OrdersPart, TypeOK, OrdersTypeOK, WorkerState, Stuck
    <2>3. /\ ~CreditedFor(s.order)
          /\ \E c \in credits : c[1] = s.order
          /\ s.days \in TermsOnSale
      BY DEF LedgerInv, RowsLost, OnSale, OfferDays, TermsOnSale
    <2>4. UNCHANGED <<now, credits>>
      BY <1>2 DEF RecoverOrder
    <2>5. SpentReceipts' = SpentReceipts /\ s.order \in SpentReceipts
      BY <1>0, <2>3, <2>4 DEF SpentReceipts
    <2>6. CASE UNCHANGED <<users, granted>>
      BY <1>0, <2>4, <2>5, <2>6, LedgerSame DEF Kept
    <2>7. CASE Extend(s.user, s.order, s.days)
      <3>1. CreditDays(s.user, s.order, s.days, now)
        BY <2>7 DEF Extend
      <3>2. SpentReceipts' = SpentReceipts \cup {s.order}
        BY <2>5
      <3> QED  BY <1>0, <2>2, <2>3, <2>4, <3>1, <3>2, OrderGood, CreditMaps
    <2> QED  BY <2>1, <2>6, <2>7
  <1>3. CASE ~ClaimOrder(w) /\ ~RecoverOrder(w)
    <2>1. UNCHANGED <<now, users, granted, credits>>
      BY <1>3 DEF JobStep, StartRun, CountPending, FetchTransfers, FetchFails, EndRun, FeedDone,
                  SelectOrder, ClaimRollback, Interrupt, subVars
    <2>2. SpentReceipts' = SpentReceipts
      BY <1>0, <2>1 DEF SpentReceipts
    <2> QED  BY <1>0, <2>1, <2>2, LedgerSame DEF Kept
  <1> QED  BY <1>1, <1>2, <1>3

\* A receipt that no table knows is good, and was never spent.
LEMMA FreshReceipt ==
    ASSUME LedgerInv, NEW r,
           \/ r \in Keys /\ \A p \in redeemed : p[1] # r
           \/ r \in Charges /\ r \notin starPayments
           \/ r \in Grants /\ r \notin grants
    PROVE  r \notin SpentReceipts /\ Promise!Good(r)
  <1>1. /\ starPayments \subseteq Charges /\ grants \subseteq Grants
        /\ redeemed \subseteq Keys \X Users /\ credits \subseteq OrderIds \X Tx
    BY DEF LedgerInv, OwnTables, BillInv, KeysInv, KeysTypeOK, OrdersPart, TypeOK, OrdersTypeOK
  <1>2. (\A p \in redeemed : p[1] \in Keys) /\ \A c \in credits : c[1] \in OrderIds
    BY <1>1
  <1>3. r \notin SpentReceipts
    BY <1>1, <1>2, Disjoint DEF SpentReceipts
  <1> QED  BY <1>3 DEF Promise!Good

\* A redemption spends its key: on days, on the end of a limit or on nothing.
LEMMA RedeemMaps ==
    ASSUME LedgerInv, BillingNext, NEW q \in Redeemers, CommitRedeem(q),
           UNCHANGED <<orderVars, billingVars>>
    PROVE  Promise!LedgerNext
  <1> DEFINE k == redeem[q].key
             u == redeem[q].user
             days == keys[k].days
             at == redeem[q].at
  <1>0. /\ BillInv /\ KeysInv /\ SubTypeOK /\ SubTypeOK' /\ now' = now
        /\ UNCHANGED <<starPayments, grants, credits>>
    BY SubTypeStep DEF LedgerInv, BillInv, OrdersPart, TypeOK, orderVars, billingVars, CommitRedeem
  <1>1. k \in Keys /\ u \in Users /\ keys[k].state = "unused"
    BY <1>0, CommitRows DEF KeysInv
  <1>2. k \in Receipts /\ days \in Nat \cup {Null} /\ at \in Nat /\ at <= now
    BY <1>0, <1>1, KeyConstants DEF BillInv, KeysInv, KeysTypeOK, KeyRow, RedeemState, BegunBefore
  <1>3. days \in KeyPlans
    BY <1>1 DEF LedgerInv, OnSale
  <1>4. k \notin SpentReceipts /\ Promise!Good(k)
    <2>1. \A p \in redeemed : p[1] # k
      BY <1>0, <1>1 DEF KeysInv, RedeemedKeys
    <2> QED  BY <1>1, <2>1, FreshReceipt
  <1>5. SpentReceipts' = SpentReceipts \cup {k}
    <2>1. redeemed' = redeemed \cup {<<k, u>>}
      BY DEF CommitRedeem
    <2>2. {p[1] : p \in redeemed'} = {p[1] : p \in redeemed} \cup {k}
      BY <2>1, FirstsAdded
    <2> QED  BY <1>0, <2>2 DEF SpentReceipts
  <1>6. CASE ClearExpiry(u)
    <2>1. Reset(u) /\ \A v \in Users \ {u} : Kept(v)
      BY <1>0, <1>1, <1>6 DEF ClearExpiry, LifetimeRow, Kept, Reset, SubTypeOK
    <2> HIDE DEF k, u
    <2> QED  BY <1>0, <1>1, <1>2, <1>4, <1>5, <2>1, LiftMaps
  <1>7. CASE KeepExpiry(u)
    <2>1. granted' = granted /\ \A v \in Users : users'[v].until = users[v].until
      BY <1>0, <1>1, <1>7 DEF KeepExpiry, SubTypeOK, UserRow
    <2> HIDE DEF k, u
    <2>2. Promise!Void(k)
      BY <1>0, <1>4, <1>5, <2>1 DEF Promise!Void, Promise!Spend
    <2> QED  BY <1>2, <2>2 DEF Promise!LedgerNext
  <1>8. CASE days # Null /\ CreditDays(u, k, days, at)
    <2>1. days \in TermsOnSale
      BY <1>3, <1>8 DEF TermsOnSale
    <2> HIDE DEF k, u, days, at
    <2> QED  BY <1>0, <1>1, <1>2, <1>4, <1>5, <1>8, <2>1, CreditMaps
  <1> QED  BY <1>6, <1>7, <1>8 DEF CommitRedeem

\* Stars and grants spend a new charge or grant.
LEMMA OwnMaps ==
    ASSUME LedgerInv, BillingNext, NEW u \in Users,
           \/ \E c \in Charges : CreditStars(c, u)
           \/ \E g \in Grants : AdminGrantSubscription(g, u)
    PROVE  Promise!LedgerNext
  <1>0. SubTypeOK /\ now \in Nat /\ now' = now /\ UNCHANGED <<credits, redeemed>>
    BY OwnStepType DEF LedgerInv, BillInv, OrdersPart, TypeOK, SubTypeOK, orderVars, keyVars
  <1>1. CASE \E c \in Charges : CreditStars(c, u)
    <2>1. PICK c \in Charges, days \in StarPlans :
            /\ c \notin starPayments /\ Extend(u, c, days)
            /\ starPayments' = starPayments \cup {c} /\ grants' = grants
      BY <1>1 DEF CreditStars, NewCharge
    <2>2. Promise!Good(c)
      BY <2>1, FreshReceipt
    <2>3. SpentReceipts' = SpentReceipts \cup {c}
      BY <1>0, <2>1 DEF SpentReceipts
    <2>4. c \in Receipts /\ days \in TermsOnSale /\ CreditDays(u, c, days, now)
      BY <2>1, BillingConstants DEF TermsOnSale, Extend
    <2> QED  BY <1>0, <2>2, <2>3, <2>4, CreditMaps
  <1>2. CASE \E g \in Grants : AdminGrantSubscription(g, u)
    <2>1. PICK g \in Grants, days \in GrantDays :
            /\ g \notin grants /\ Extend(u, g, days)
            /\ grants' = grants \cup {g} /\ starPayments' = starPayments
      BY <1>2 DEF AdminGrantSubscription
    <2>2. Promise!Good(g)
      BY <2>1, FreshReceipt
    <2>3. SpentReceipts' = SpentReceipts \cup {g}
      BY <1>0, <2>1 DEF SpentReceipts
    <2>4. g \in Receipts /\ days \in TermsOnSale /\ CreditDays(u, g, days, now)
      BY <2>1, BillingConstants DEF TermsOnSale, Extend
    <2> QED  BY <1>0, <2>2, <2>3, <2>4, CreditMaps
  <1> QED  BY <1>1, <1>2

\* A purge lifts an account and leaves every history.
LEMMA PurgeMaps ==
    ASSUME LedgerInv, BillingNext, NEW u \in Users, PurgeUser(u)
    PROVE  Promise!LedgerNext
  <1>0. SubTypeOK /\ SubTypeOK' /\ now' = now
    BY SubTypeStep DEF LedgerInv, BillInv, OrdersPart, TypeOK, PurgeUser, DeleteAccount
  <1>1. Reset(u) /\ \A v \in Users \ {u} : Kept(v)
    BY <1>0 DEF PurgeUser, DeleteAccount, DropUser, NoUser, Kept, Reset, SubTypeOK
  <1>2. SpentReceipts' = SpentReceipts
    BY DEF PurgeUser, DeleteAccount, ForgetUser, billingVars, SpentReceipts
  <1> QED  BY <1>0, <1>1, <1>2, LiftMaps

\* Every step of the code is one of the ledger's, or leaves it as it is.
LEMMA LedgerStep ==
    ASSUME LedgerInv, BillingNext
    PROVE  Promise!LedgerNext \/ UNCHANGED Promise!ledgerVars
  <1>0. SubTypeOK /\ SubTypeOK' /\ now \in Nat
    BY SubTypeStep DEF LedgerInv, BillInv, OrdersPart, TypeOK, SubTypeOK
  <1>1. CASE OrdersNext /\ UNCHANGED <<keyVars, billingVars>>
    <2>1. CASE \E os \in SUBSET OrderIds, tx \in Tx : Pay(os, tx)
      <3>1. /\ UNCHANGED <<now, users, granted>>
            /\ UNCHANGED <<starPayments, grants, redeemed, credits>>
        BY <1>1, <2>1 DEF Pay, subVars, keyVars, billingVars
      <3>2. SpentReceipts' = SpentReceipts
        BY <3>1 DEF SpentReceipts
      <3> QED  BY <1>0, <3>1, <3>2, LedgerSame DEF Kept
    <2> QED  BY <1>1, <2>1, RequestMaps, JobMaps DEF OrdersNext
  <1>2. CASE KeysNext /\ UNCHANGED <<orderVars, billingVars>>
    <2>1. CASE \E q \in Redeemers : CommitRedeem(q)
      BY <1>2, <2>1, RedeemMaps
    <2>2. CASE ~\E q \in Redeemers : CommitRedeem(q)
      <3>1. UNCHANGED <<now, users, granted, redeemed>>
        BY <1>2, <2>2 DEF KeysNext, AdminCreateKey, AdminRevokeKey, CleanupKeys, RedeemStep,
                          BeginRedeem, LockKey, AbandonRedeem, subVars
      <3>2. SpentReceipts' = SpentReceipts
        BY <1>2, <3>1 DEF SpentReceipts, orderVars, billingVars
      <3> QED  BY <1>0, <3>1, <3>2, LedgerSame DEF Kept
    <2> QED  BY <2>1, <2>2
  <1>3. CASE Advance /\ UNCHANGED <<orderVars, keyVars, billingVars>>
    <2>1. UNCHANGED <<users, granted, starPayments, grants, redeemed, credits>> /\ now' = now + 1
      BY <1>3 DEF Advance, orderVars, keyVars, billingVars
    <2>2. SpentReceipts' = SpentReceipts
      BY <2>1 DEF SpentReceipts
    <2>3. Promise!Tick
      BY <2>1, <2>2 DEF Promise!Tick
    <2> QED  BY <2>3 DEF Promise!LedgerNext
  <1> QED  BY <1>1, <1>2, <1>3, OwnMaps, PurgeMaps DEF BillingNext

\* A stutter keeps what the ledger needs.
LEMMA LedgerUnchanged ==
    ASSUME LedgerInv, UNCHANGED <<vars, keyVars, billingVars>>
    PROVE  LedgerInv' /\ UNCHANGED Promise!ledgerVars
  <1>1. UNCHANGED <<now, users, granted, orders, creating, worker, credits, keys, redeemed,
                    starPayments, grants>>
    BY DEF vars, subVars, orderVars, keyVars, billingVars
  <1>2. BillInv' /\ PartsInv'
    BY BillingUnchanged, PartsInvStep DEF LedgerInv
  <1>3. OwnTables' /\ Owners'
    BY <1>1 DEF LedgerInv, OwnTables, Owners
  <1>4. RowsLost' /\ OnSale'
    BY <1>1 DEF LedgerInv, RowsLost, OnSale, CreditedFor
  <1> QED  BY <1>1, <1>2, <1>3, <1>4 DEF LedgerInv, SpentReceipts, Promise!ledgerVars

\* What the ledger needs holds at the start.
LEMMA LedgerStart == BillingInit => LedgerInv /\ Promise!LedgerInit
  <1> SUFFICES ASSUME BillingInit PROVE LedgerInv /\ Promise!LedgerInit
    OBVIOUS
  <1>1. BillInv /\ PartsInv
    BY BillingStart, OrdersStart, CreditsStart, KeysStart
       DEF BillingInit, Init, KeysSystemInit, PartsInv
  <1>2. OwnTables /\ Owners /\ RowsLost
    BY DEF BillingInit, Init, SubInit, OrdersInit, OwnTables, Owners, RowsLost, Idle
  <1>3. OnSale
    BY DEF BillingInit, Init, OrdersInit, KeysInit, OnSale, NoOrder, Idle, NoKey
  <1>4. Promise!LedgerInit
    <2>1. /\ now = 0 /\ granted = [u \in Users |-> {}]
          /\ starPayments = {} /\ grants = {} /\ redeemed = {} /\ credits = {}
      BY DEF BillingInit, Init, SubInit, OrdersInit, KeysInit
    <2>2. \A u \in Users : users[u].until = Null
      <3>1. \A u \in Users : users[u] \in {NoUser, LifetimeRow}
        BY DEF BillingInit, Init, SubInit
      <3>2. NoUser.until = Null /\ LifetimeRow.until = Null
        BY DEF NoUser, LifetimeRow
      <3> QED  BY <3>1, <3>2
    <2>3. SpentReceipts = {}
      BY <2>1 DEF SpentReceipts
    <2> QED  BY <2>1, <2>2, <2>3 DEF Promise!LedgerInit
  <1> QED  BY <1>1, <1>2, <1>3, <1>4 DEF LedgerInv

(***************************************************************************)
(* Purchases, keys, charges, grants, the sweep and deletions implement one *)
(* ledger, in any order and with any overlap of requests and one run of    *)
(* the job: every step of theirs is a credit of a receipt that is good, an *)
(* account lifted, a key used up, the clock or nothing                     *)
(* (subscription.go:30-47, stars.go:128-158, auth.go:147-239,              *)
(* payments_verify.go:48-71, 116-142).                                     *)
(***************************************************************************)
THEOREM LedgerImplemented ==
    ASSUME OneRun
    PROVE  BillingSpec => LedgerKept
  <1>1. LedgerInv /\ [BillingNext]_<<vars, keyVars, billingVars>> => LedgerInv'
    <2>1. ASSUME LedgerInv, BillingNext PROVE LedgerInv'
      <3>1. BillInv'
        BY <2>1, PartsStep, SoundStep, ReceiptsStep, SweepStep, BegunStep DEF LedgerInv, BillInv
      <3>2. PartsInv'
        BY <2>1, PartsInvStep DEF LedgerInv
      <3>3. OwnTables'
        BY <2>1, OwnTablesStep DEF LedgerInv
      <3>4. Owners' /\ RowsLost' /\ OnSale'
        BY <2>1, OwnersStep, RowsLostStep, OnSaleStep
      <3> QED  BY <3>1, <3>2, <3>3, <3>4 DEF LedgerInv
    <2> QED  BY <2>1, LedgerUnchanged
  <1>2. LedgerInv /\ [BillingNext]_<<vars, keyVars, billingVars>>
          => [Promise!LedgerNext]_(Promise!ledgerVars)
    BY LedgerStep, LedgerUnchanged
  <1> QED  BY LedgerStart, <1>1, <1>2, PTL DEF BillingSpec, LedgerKept, Promise!LedgerSpec

\* What an account holds was spent.
HeldIsSpent ==
    \A u \in Users, r \in Receipts : Promise!Holds(u, r) => r \in SpentReceipts

\* The ledger's own steps give no receipt to a second account.
LEMMA HolderStep ==
    ASSUME SubTypeOK, HeldIsSpent, Promise!OneHolder,
           [Promise!LedgerNext]_(Promise!ledgerVars)
    PROVE  HeldIsSpent' /\ Promise!OneHolder'
  <1> USE DEF HeldIsSpent, Promise!OneHolder, Promise!Holds
  <1>0. granted \in [Users -> SUBSET (Receipts \X Nat)]
    BY DEF SubTypeOK
  <1>1. ASSUME NEW a \in Users, NEW r \in Receipts, NEW days \in TermsOnSale,
               Promise!Credit(a, r, days)
        PROVE  HeldIsSpent' /\ Promise!OneHolder'
    <2>1. /\ \A u \in Users : granted'[u] = IF u = a THEN granted[u] \cup {<<r, days>>} ELSE granted[u]
          /\ SpentReceipts' = SpentReceipts \cup {r}
          /\ \A u \in Users : ~\E p \in granted[u] : p[1] = r
      BY <1>0, <1>1 DEF Promise!Credit, Promise!Good
    <2>2. \A u \in Users, q \in Receipts :
            (\E p \in granted'[u] : p[1] = q) <=> (\E p \in granted[u] : p[1] = q) \/ (u = a /\ q = r)
      <3> SUFFICES ASSUME NEW u \in Users, NEW q \in Receipts
                   PROVE  (\E p \in granted'[u] : p[1] = q)
                             <=> (\E p \in granted[u] : p[1] = q) \/ (u = a /\ q = r)
        OBVIOUS
      <3>1. <<r, days>>[1] = r
        OBVIOUS
      <3>2. CASE u = a
        <4>1. granted'[u] = granted[u] \cup {<<r, days>>}
          BY <2>1, <3>2
        <4> QED  BY <3>1, <3>2, <4>1
      <3>3. CASE u # a
        BY <2>1, <3>3
      <3> QED  BY <3>2, <3>3
    <2> QED  BY <2>1, <2>2
  <1>2. ASSUME NEW a \in Users, Promise!Lift(a) PROVE HeldIsSpent' /\ Promise!OneHolder'
    <2>1. \A u \in Users : granted'[u] \subseteq granted[u]
      BY <1>0, <1>2 DEF Promise!Lift
    <2>2. SpentReceipts \subseteq SpentReceipts'
      BY <1>2 DEF Promise!Lift, Promise!Spend
    <2> QED  BY <2>1, <2>2
  <1>3. ASSUME NEW r \in Receipts, Promise!Void(r) PROVE HeldIsSpent' /\ Promise!OneHolder'
    BY <1>3 DEF Promise!Void, Promise!Spend
  <1>4. CASE Promise!Tick \/ UNCHANGED Promise!ledgerVars
    BY <1>4 DEF Promise!Tick, Promise!ledgerVars
  <1> QED  BY <1>1, <1>2, <1>3, <1>4 DEF Promise!LedgerNext

(***************************************************************************)
(* The days of a receipt are with one account at most: the sweep, which    *)
(* credits an order again, does so when nobody has its days, and a key, a  *)
(* charge or a grant is not used for a second account after the first one  *)
(* was deleted (payments_verify.go:48-71, auth.go:147-239,                 *)
(* stars.go:128-158).                                                      *)
(***************************************************************************)
THEOREM ReceiptsHaveOneHolder ==
    ASSUME OneRun
    PROVE  BillingSpec => []Promise!OneHolder
  <1>1. BillingInit => HeldIsSpent /\ Promise!OneHolder
    BY DEF BillingInit, Init, SubInit, HeldIsSpent, Promise!OneHolder, Promise!Holds
  <1>2. BillInv => SubTypeOK
    BY DEF BillInv, OrdersPart, TypeOK
  <1>3. BillInv /\ HeldIsSpent /\ Promise!OneHolder /\ [Promise!LedgerNext]_(Promise!ledgerVars)
          => HeldIsSpent' /\ Promise!OneHolder'
    BY <1>2, HolderStep
  <1> QED
    BY <1>1, <1>3, BillingInvariant, LedgerImplemented, PTL
       DEF BillingSpec, LedgerKept, Promise!LedgerSpec
=============================================================================
