# TLA+ models and proofs of mvp-n

mvp-n sells VPN access through Telegram. People activate an account with a key
or buy days with crypto or Telegram Stars; an active account gets VLESS keys
(xray) and AmneziaWG peers, and is managed from a Mini App. This directory models
the parts of it in which several actors, or several requests of one actor, change
the same state, model-checks them with TLC and proves the central results with
TLAPS. Every definition is translated from the code; `PROJECT.json` lists the
lines behind each.

## 1. The system

| Component | Code | State | Operations | Talks to |
|---|---|---|---|---|
| Subscription state | `handlers/subscription.go`, `config.go` | `users.is_active`, `users.paid_until` (NULL = no limit) | extend, grant, clear, delete the row | written by every payment path |
| Crypto orders | `handlers/orders.go` | `orders` | create, cancel, list | cron, explorers |
| Payment verification | `handlers/payments_verify.go`, `cron/cron.go` | `orders`, `users` | expire, sweep, match and pay | tonapi.io, trongrid.io |
| Access keys | `handlers/admin.go`, `auth.go`, `subscription.go` | `access_keys` | create, revoke, clean up, redeem | `users` |
| Telegram Stars | `handlers/stars.go`, `bot/src/index.ts` | `star_payments`; in the bot `pendingCredits`, `creditInFlight` | invoice, checkout, credit, retry | Telegram, api |
| Provisioning | `handlers/provision.go`, `connect/main.go` | `devices`, xray's user list | give a device its key, under the device limit | xray |
| Access control | `handlers/profile.go`, `admin_profiles.go`, `configs.go` | `users.is_blocked`, `devices`, `vpn_configs`, xray, awg-server | block, unblock, suspend, reset, delete | xray, awg-server |
| Scheduler | `cron/cron.go` | — | reconcileXray, revokeExpiredSubs, collectTraffic, clean-ups | all of the above |
| Traffic accounting | `cron/cron.go` | `devices.traffic_seen`, `users.traffic_used` | sample counters | xray, awg-server |
| awg-server | `awg-server/main.go` | map of clients, `clients.json`, peers of awg0 | create, enable, disable, delete, load, save | `awg` command |
| Authentication, rate limits | `handlers/auth.go`, `middleware/` | JWTs, token buckets | issue, check, throttle | all requests |
| GRAM rate | `handlers/plans.go` | a cached rate | refresh, read | an exchange API |
| Mini App: shared cache, sign-in | `frontend/src/lib/cache.ts`, `useForeground.ts`, `App.tsx`, `DevicesSheet.tsx` | store, `localStorage`, token, epochs | load, revalidate, mutate, invalidate, clear; sign in and out | api |
| Mini App: payment screen | `SubscribeSheet.tsx`, `SubscriptionScreen.tsx`, `WalletPay.tsx` | step, order, interval, requests under way | choose, order, pay, poll, cancel | api, Telegram, wallet |
| Mini App: windows | `App.tsx`, `Sheet.tsx`, `BottomSheet.tsx`, `lib/telegram.ts`, `lib/scrollLock.ts`, `main.tsx` | open windows, back handlers, lock counter, `sessionStorage` | open, close, go back, go home, reload | Telegram's BackButton |
| Mini App: home screen | `ConfigsScreen.tsx` | what is shown of access and open orders | read, poll, redeem a key | cache, api |
| Mini App: admin panel | `AdminSheet.tsx` | the open profile, its devices, the question asked | block, delete, remove devices, apply a key | api |
| Mini App: API client | `api/client.ts` | token, attempts | send, retry, sign in again | api |
| Mini App: demo backend | `api/mock.ts` | an account in memory | what the api does | — |
| Mini App: charts, guide | `ui/`, `ConfigDetailSheet.tsx` | the drawn series, the chosen launcher | scale, scrub; choose | — |
| Metrics, nginx, scripts | `metrics/`, `nginx/`, `scripts/` | — | report, route, deploy | |

What is hard here: the api is a set of concurrent handlers and cron jobs over
PostgreSQL, many of them several statements without a transaction or with an
unlocked read; three systems (the database, xray's memory, the awg0 interface)
must agree without a common transaction; money comes in through feeds that
repeat, delay and fail; processes restart between any two steps; and the Mini App
is a single thread in which every answer of every request arrives at a screen
that may have moved on since. The list of hazards, each at its line and with the
properties that cover it, is in `PROJECT.json`.

What makes each part correct:

* **Orders and verification** — a transaction pays one order; an order is paid
  exactly when its days were credited; a payment sent in time reaches the order
  it was meant for; it is credited eventually; settled orders stay settled.
* **Keys** — one redemption per key, which gives what the key says.
* **Subscription state** — no path loses, doubles or invents days; access
  without a limit is not shortened by accident.
* **Stars** — every charge is credited, once, or was in the memory of a bot
  that died.
* **awg-server** — records, peers and file agree; addresses are distinct.
* **Access control and provisioning** — who is blocked, expired or deleted has
  no working key once the system is quiet; who may have access gets it; the
  device limit holds.
* **Traffic** — a byte is counted at most once; counters never go back.
* **Shared cache** — one user never sees another's data; a confirmed change is
  not undone by an older answer; a view that waits for a list ends with it or
  with a retry.
* **Payment screen** — the order shown is the order watched; "done" means that
  something was credited.
* **Windows** — locks and back handlers match the windows in the document; going
  home uncovers home; a stale build does not reload for ever.
* **Home screen** — who has access is not locked out, nor told that it has ended.
* **Admin panel** — nothing is deleted, and nobody is blocked, without a yes.
* **API client** — a change is repeated only when it may not have arrived; a call
  ends.
* **Demo backend, charts, guide** — what was told to be paid is not offered
  again; bars fit their axis, a finger picks what is under it; the guide shown
  can be followed.

## 2. Modules

| Module | Models | Composes |
|---|---|---|
| `Subscription` | the clock, the users rows, the statements on them | — |
| `Orders` | CreateOrder, CancelOrder, VerifyPayments, account deletion, the chain | extends `Subscription` |
| `AccessKeys` | key administration and redemption | extends `Subscription` |
| `Billing` | Stars credit, grants, purge, with orders and keys over one users table | extends `Orders`, `AccessKeys`; implements `Ledger` |
| `Ledger` | abstract: what holders of accounts are promised, whoever writes `paid_until` | — |
| `StarsDelivery` | abstract: what a Stars buyer is promised | — |
| `StarsBot` | Telegram, the bot, CreditStars | implements `StarsDelivery` |
| `AwgServer` | handlers, map, file and interface of awg-server | — |
| `Access` | provisioning, configs, devices, blocks, suspension, deletion and the cron jobs that touch keys | — |
| `ClientCache` | the store, its fetches and writes, sign-in and sign-out | — |
| `Checkout` | the payment screen with its orders, polls, wallet and Stars | — |
| `Navigation` | tabs, sheets, back button, scroll lock, reloads | — |
| `HomeScreen` | what the home screen shows while its requests are late or lost | — |
| `AdminPanel` | the profile sheet and the handlers behind it | — |
| `ApiClient` | attempts, retries, renewal of the token | — |
| `MockBackend`, `Charts`, `InstallGuide` | the demo backend; axes and scrubbing; the page of a config | — |
| `OrdersProofs`, `AccessKeysProofs`, `StarsBotProofs`, `AwgServerProofs`, `AccessProofs` | theorems | extend what they are about |
| `BillingProofs` | theorems | extends `Billing`, `OrdersProofs` and `AccessKeysProofs` |
| `MiniAppProofs` | theorems | extends the modules of the Mini App that talk to the backend |
| `ScreenProofs` | theorems | extends `MCMiniApp` and `MiniAppProofs`: windows, guide, demo backend, charts, and the parts taken together |
| `MC...` | finite values for TLC | extend the module they run; `MCRaces` runs `Orders` and `AccessKeys`, `MCMiniApp` the modules of the Mini App |

Operators marked "Mutation" are faulty variants of the definition that follows
them. No specification uses them: each one is put in the place of its original
to see that a property notices (`mutants` in `PROJECT.json`).

### Subscription

`users[u]` has the columns that matter here. `Extended` is the expression of
`extendSubscriptionTx`; `CreditDays` is its UPSERT. `NOW()` is the time at which
a transaction began, so a redemption passes the time it began. A tick is a day
of access and of the clock at once. `granted` is history: the receipts credited
since the account was created or its limit was removed.

### Orders

One action is one statement, or one transaction where the code has one.
`ReserveAmount`/`ReserveBlind`/`ReserveBusy` are CreateOrder up to the choice of
the amount, `InsertOrder`/`InsertFails` the rest; `creating` holds what the
handler carries over. A user has one CreateOrder in flight; two tabs of one user
behave like two users. A run of `VerifyPayments` is a program counter and the
rows it read: `StartRun` (expire, select for the sweep), `RecoverOrder`,
`CountPending`, `FetchTransfers`/`FetchFails` per network, `SelectOrder` (the two
SELECTs of `matchAndPay`), `ClaimOrder` or `ClaimRollback`, `Interrupt` for the
two-minute timeout and for a restart. `LiftLimit` is a lifetime key or a grant
that clears `paid_until`, which makes paid orders look uncredited to the sweep.

`chain` holds finalized transfers, each with the order its payer meant
(`intent`, history). `Pay` is the payers' doing: one transaction for one order or, on
the networks in `Bundling`, for several. TRON lists every transfer of a transaction under
the transaction's id (payments_verify.go:307), so that a contract that pays twice gives two
transfers with one id; TON has an id for each action (payments_verify.go:207). Amounts are integers of 0.0001; sums are in quarter units so
that the tolerance of half a unit can be met exactly. Where the code drops the
error of a statement, the statement may fail if `IgnoredErrors` holds. `TxIndex`
says whether the unique index on `tx_hash` exists; `Migrate` only logs when it
cannot be built. `RunsOrIndex` is the assumption under which one of the two
protections is there: the index, or runs that do not overlap
(`SkipIfStillRunning`) and a duplicate check that does not fail. Claiming waits
for row locks; PostgreSQL resolves a deadlock with a deletion by aborting one
side, which is `ClaimRollback` or a deletion that did not happen.

### AccessKeys

A redemption locks the key (`LockKey`, `FOR UPDATE`) and reads the account
without locking it, then writes the account, burns the key and commits
(`CommitRedeem`). From its first write to its commit the transaction holds the
account's row, so these are one action. `Redeemers` are requests in flight.
`AdminApplyKey` is `by = "admin"`. Revocation and cleanup wait for the lock.

### Billing

All writers of `paid_until` together, and `purgeUser` with its cascades:
orders go with the account, keys forget it, `star_payments` keeps its rows.

### Ledger

The promise behind all of them, without orders, keys or tables: an account has an end
(or none) and the receipts behind it, and a receipt is good for its days if it was never
spent. An order is also good again once nobody holds its days (`Recoverable`), since the
sweep makes it good for whoever lost them. `Credit` puts days on top of what is left, reckoned
from a time that has come; `Lift` takes the end away (a lifetime key, a deletion), `Void` uses
a receipt up without days (a timed key on an account without limit). `Billing` maps
the clock, `paid_until`, `granted` and what its tables and histories say was used
(`SpentReceipts`) to it.

### StarsDelivery, StarsBot

Telegram keeps an update until the bot asks for later ones (`Poll` confirms what
was handled); grammY runs handlers one after another. `delivery[c]` is a
`deliverCredit` in `creditInFlight`. A failed post may have been refused, have
committed with its answer lost, or still commit later (`late`). `Stop` is SIGTERM:
grammY's `stop()` confirms the update being handled, and the process goes on until
it is killed. `Restart` may also come without it. `lost` records the payments
that only the process' memory held. The mapping to `StarsDelivery` takes charged
invoices, rows of `star_payments` and `lost`.

### AwgServer

A request goes through its `awg` command, the `Enabled` field, the map and the
save, each an action of its own. The map's lock matters in one way: `UpdateStore`
waits while a save reads. The lists on disk are the sets of records written; `Torn` is
a file that a writer has truncated and not filled. Files are inodes: `OpenTmp` creates or truncates
`clients.json.tmp`, `Rename` moves what has that name by then. `raced`, `together`,
`crowded` and `upset` are history and name the clients whose requests raced,
whose creations overlapped, that found no free address, or that a failure hit.

### Access

A request is a record in `procs`: the kind (`op`), the account, the statement of
its script that is next (`step`, see `Script`) and the keys it read and still has
to hand to xray or awg-server one by one (`todo`). A statement that reads keys
(`ReadDevices`, `ReadConfigs`, `ReadRow`, ...) and each `Call` are steps of their
own, so that any other request can come in between, as in the code, which has no
transactions there. Two kinds have one: `provision` and `ensureConfig` lock the
account's row (`FOR UPDATE`). While they hold it (`Locked`), statements wait that
update the row or insert rows that refer to it. The registration in xray happens
inside the transaction of `provision` and is not undone by a rollback.

`rows` is the devices table (`inst`: the install id or the name and launcher that
identify a device), `configs` the active configs, `served` what xray and enabled
peers accept, `peers` what awg-server keeps. A row whose key is a config id is one
whose registration failed and which got the config's key. `Refuse` stands for the
403 and 404 answers. With `Faults`, calls fail (`CallFails`), a failing read or
delete whose error the code drops is skipped (`SkipStatement`), a request is cut
off (`CutOff`), xray restarts, connect records a visit without the api (`Visit`).
`disturbed`, `minted`, `made` and `counted` are history. `disturbed` names the
accounts on which a request that adds keys overlapped another one, or on which
something failed: there a key may be left behind, and what the properties say is
that nothing else leaves one.

Left out: the adoption of a device row without install id, the change of a
config's settings (its device wipe is `resetSessions`), a deleted account that
signs up again, and `cleanupDeletedUsers` (nothing sets `deleted_at`).

### ClientCache

A value in the store is the set of writes it reflects, so that an answer from
before a write can be told from one after it. A fetch carries whether its epoch is
still the entry's (`current`), reads the server at one step (`ReadServer`) and
commits at another (`FetchDone`). `Revalidated`, `Forced`, `Mutated` and
`Invalidated` are the functions of `cache.ts`; `Change` applies them. A write
(`StartWrite`, `ApplyWrite`, `WriteDone`, `WriteFails`) is one of six controls of
the screens: what it shows at once, what it puts into the store when it succeeds and what
it invalidates are in `Optimistic`, `Confirming`, `AfterSuccess`, `AfterFailure`. `Launch`,
`Login`, `Logout` and `CloseApp` decide whose data it is; `disk` is `localStorage`, one
set of keys per user. `floor` is history: what the last refresh must reflect.

Screens unmount at a sign-out and subscribe anew at the next sign-in. `App` does
not: it subscribes to the entry of the profile once (useForeground.ts:28), and a sign-out,
which empties the store with the listeners in it (cache.ts:187), leaves it on an entry that is
gone. `appListens` says whether it hears of the entry in the store, and `appProfile` is
the profile it last rendered with, which names the account and opens the admin pane.
Afterwards it follows the entry only when something else makes it render: a step of its own
(`AppRenders`), or a fetch of before the sign-out that ends (`OldFetchEnds`). `Waiting` names the
views that show a skeleton until their list is there and a retry when it fails; views of
the profile and of the access keys have neither.

### Checkout

`GoTo` is a change of step or order with the effect that follows it: the interval
is started anew when one of the two changes. Its answers (`ticks`), the request
of Buy (`creating`), of the wallet button (`wallet`) and the Stars purchase
(`stars`) are under way at once and arrive in any order. What the wallet button waits for is
its own state and goes with the button when another kind of method is chosen
(`WalletButton`), while the request goes on: `wallet` therefore holds one request per tap
(`Taps`), and `tapped` the one that the button on screen waits for. The eighth failed poll in a row
is "lost". `credits` stands for `paid_until`, which Stars compare with a baseline.

### Navigation

`wanted` are the modals whose `open` is true, `mounted` those in the document: a
bottom sheet leaves a little later than it closes (`ExitEnds`). A sheet's back handler
keeps its place in `backStack`; a bottom sheet's goes on top with each render of
its parent (`Render`). `Inside` says what a bottom sheet is part of; what opens from the
page, the sheets over any other among it, is inside `"page"`. `PressBack` runs the handler on top, `GoHome` all of them.
`Reload` keeps nothing but `sessionStorage` (`reloaded`, `updated`).

### HomeScreen, AdminPanel, ApiClient

`HomeView` is what `ConfigsScreen` renders, a function of three requests with answers
of their own (configs, profile, open orders). `Denying` are the views that deny access. The
empty list (`"nothing"`, ConfigsScreen.tsx:222-229) is not one of them, although its button
says "Buy subscription" to accounts with access too: it takes nothing away. In `AdminPanel` the sheet works on the row it
was opened from (`profile`), while the backend has its own state (`accounts`, `kept`);
`loads` and `sends` are requests under way, `agreed` the deletions the admin said
yes to. In `ApiClient` a connection that fails may have carried the request
(`stray`, `cut`), a refused token is renewed once (`Refused`, `Reauthed`).

### MockBackend, Charts, InstallGuide

The demo backend's orders get paid by age. Charts are computed in whole pixels, with both
sides of a division multiplied out and the tops of axes in tenths; the powers of ten among
which `niceCeil` finds its magnitude are a constant (`Powers`), of which the module assumes
that 1 is one, that every other one is ten times one of them, and that no amount is
above them all. The guide is the choice of
a system and a launcher (`ChooseSystem` picks another launcher when the chosen
one does not exist for the system).

## 3. Runs

All runs use `CHECK_DEADLOCK FALSE`: clock, orders, keys, charges, requests and failures
are bounded, so a behaviour really may end.

| Run | Instance | Question |
|---|---|---|
| `Races` | 2 users, 2 orders, 2 overlapping runs, TRON with 1 transaction that pays one order or both, index, errors ignored; 2 accounts and 2 requests for 1 key, or 1 account for 2 keys (lifetime or timed) | Do overlapping runs, cancels, deletions and crashes ever pay twice, leave a paid order uncredited, reopen a settled one? Who can share an amount? Is a key used once, and does it grant what it says? |
| `OrdersLive` | 1 user, 2 orders, 2 assets on 2 networks, 2 neighbouring amounts of each, sums a quarter unit off, fair runs | Is an asset or an amount ever mistaken; is a payment that matches found eventually? |
| `BillingCredits` | 1 account, an order, a key, a charge, a grant | Are days conserved over all payment paths; does every step keep the `Ledger`? |
| `StarsBot` | 2 invoices, 2 posts per delivery, 1 restart | Is a payment ever dropped or credited twice; does the bot keep `StarsDelivery`? |
| `AwgServer` | 2 clients, 2 requests, 1 failure | Do peers, map and file agree? |
| `AccessRaces` | 1 account, 2 installs, 2 rows, 2 keys, limits 1 and 2, 2 requests, no faults | Does the device limit hold at every commit; does any mix of revocations leave a key behind? |
| `AccessFaults` | a VLESS and an AmneziaWG config, 1 request, reconcileXray, cleanupDevices, faults | Does anything give a blocked account a VLESS key back? |
| `AccessJobs` | 1 VLESS config, 1 device, 1 request, reconcileXray, revokeExpiredSubs, faults, fairness | Are entitled keys restored and lapsed ones revoked in the end? |
| `MiniApp` | each module of the Mini App on an instance of its own | Can a late answer, a lost one, a second user or a window that goes show what is not so, ask for what is not agreed, or leave the user stuck? |
| `AccessPurge`, `BillingSweep`, `AdminBlocks` | | a statement of the code's comments that the code does not keep (section 5) |

Where several modules share a run (`Races`, `MiniApp`), the variable `focus` picks the one a
behaviour is about when it begins, and the others stay as they are. They
share no state in the code either, or none that the properties speak of, so
that nothing is lost by not interleaving them.

Bounds. Two users, orders, keys or requests are what the races need: each
property speaks of two rows and one transaction (with two transfers, in `Races`), and a third party adds no new
order of steps; the theorems of section 4 hold for any number. `BillingCredits` has one account,
which may come back after its deletion; that no receipt reaches a second one is a theorem
(`ReceiptsHaveOneHolder`). The clock goes past one
order window or key lifetime. Two posts per delivery stand for three: a first one, and the last
one. One failure at every possible point is enough for `AwgServer`, whose
properties exempt what a failure hit; its two addresses suffice for two clients,
so `crowded` stays empty there. Two saves can overlap with two requests; a third request
matters for `TornOnlyAtWork`, which is therefore proved for any number.
In `Races` no limit is lifted, so that no row gets stuck: the sweep only moves days, which
`BillingCredits` is about. Its transfers are counted, not told apart (`Told`): there is one asset with one
amount, and no property of the run speaks of what a payer meant. `Access` handles one account because no statement
but the reads of the jobs looks at two; the kinds of requests (`Ops`) are spread
over its runs, and each kind meets the others, faults or the jobs in one of them.

`MiniApp`: two users, the configs and the profile, and one switch (an instance with a
change of the device limit besides, 1.4 million states, was checked too), two taps on the
wallet button of which one at most is under way while Buy is busy (`FewRequests`), two orders and two methods (one of them Stars), one answer
of a poll under way (`MaxTicks`; a second one does not find the screen in another
state), three sheets of which one opens over any other, three
bottom sheets (over the page and inside a sheet), two windows that open late, one
open order of the home screen, two
accounts (only the first is ever blocked), one device, one read and one write of the API, three bars or
points at two widths. `MaxLoads` (2) and `MaxCredits` (1) bound answers under way and
purchases with Stars. States are told apart by the module in `focus` alone (`VIEW`), since
the others never change.

Fairness. `JobFairness` (orders): the cron starts an idle run every minute, and
a step that runs reach again and again is eventually not cut short (SF), since
explorers recover and time-outs do not always fall on the same step. Users owe
nothing. `Fairness` (bot): handlers and timers run (WF), a stopped bot is started
again (the container restarts), and a post that is made again and again is
eventually answered (SF), since the api comes back. `JobFairness` (access): the
cron starts an idle job again and a started one goes on (WF), and failures stop at
some point (`<>[][~Fault]`): xray, awg-server and the database stay up long enough
for a pass. Requests owe nothing and may always be made. The Mini App is checked
without fairness: a user may close it at any time, and `NeverStuck` and
`ScreenWatched` say, as invariants, that something is under way which ends the wait.

## 4. Proofs

All theorems hold for every value of the constants that satisfies the named
assumptions of the modules, and for any number of users, orders, keys, requests
and so on. Each rests on an inductive invariant.

| Module | Invariant | Theorems |
|---|---|---|
| `OrdersProofs` | `OrdersInv`, `CreditsOfOrders` | `TypeCorrect`, `TransactionPaysOneOrder`, `PaidMeansCredited`, `AmountsSharedOnlyUnseen`, `SettledForGood`, `OnTimePayments` |
| `AccessKeysProofs` | `KeysInv` | `KeysInvariant`, `KeyUsedOnce`, `RedemptionGrants` |
| `StarsBotProofs` | `BotInv` | `NoPaymentDropped`, `NeverCreditedTwice`, `DeliverySafe` |
| `AwgServerProofs` | `AwgInv` | `AwgInvariant`, `InterfaceAgrees`, `FinishedIsOnDisk`, `WholeWhenIdle`, `AddressesApart` |
| `AccessProofs` | `TypeInv`, `AccessInv`, `LimitInv` | `TypeCorrect`, `NoKeyIsStray`, `BlockedStaysOut`, `LimitIsKept` |
| `BillingProofs` | `BillInv`, `PartsInv`, `LedgerInv` | `DaysConserved`, `PartsKeepTheirWord`, `PartsStepByStep`, `LedgerImplemented`, `ReceiptsHaveOneHolder` |
| `MiniAppProofs` | `HomeInv`, `PanelInv`, `PanelShape`, `ApiInv`, `CheckoutInv`, `ReloadsInv`, `CacheInv`, `FreshInv` | `NeverLockedOut`, `NothingDeletedUnasked`, `WritesRepeatedOnlyByLoss`, `CallsEnd`, `OrderOnScreenWatched`, `DoneAfterCredit`, `BusyMeansUnderWay`, `PanelInOrder`, `NoReloadLoop`, `OwnDataShown`, `NoBareSkeleton`, `StaleNeverKept`, `ConfirmedStays`, `CallsInOrder`, `CacheInOrder` |
| `ScreenProofs` | `NavInv`, `GuideTypeOK`, `MockInv`, `ChartTypeOK` | `HandlersMatch`, `BackMeansTop`, `HomeIsHome`, `GuideEnds`, `SettledStays`, `FingerPicks`, `AxisFits`, `WindowsInOrder`, `DemoInOrder`, `ChartInOrder`, `PartsAlone`, `MiniInOrder` |

**Orders.** A transaction pays one order because
a run in `claim` has either the index behind it or, as the only run, an
unrecorded transaction (`RunsFollowChain`). A shared amount needs a reservation
that did not see the other order: `ReservationsSawOthers` carries what the SELECT
established to the INSERT. It survives because an amount is only ever added to
the orders by an insertion with a higher id (`FreshIds`), and live orders only
become fewer. For payments in time, `SelectionsOnTime` carries the same fact from
the SELECT of `matchAndPay` to its claim; `ChainWellFormed` ties a transfer to the
asset of its order; that ids are unique is not assumed. That a paid row has its credit needs one
more fact: only ids that were handed out are credited, so that a new row starts without one.
`PaidIffCredited` speaks of the history of claims (`credits`), which a lifted limit leaves alone;
`PayingLandsDays`, the other half of `PaidMeansCredited`, of the account: the step that makes an
order paid puts its days on what the account has left.

**Keys.** A locked key has one holder and is unused (`HeldKeys`), and an unused key was
never redeemed (`RedeemedKeys`).

**Stars.** `BotInv` says which updates the bot has handled and not confirmed
(`HandledTaken`, `HandlingNext`), that a payment is only charged or credited after its checkout
was approved (`Agreed`, `OnlyCharged`), and that a lost one is nowhere else
(`LostForGood`). From it every step is a step or a stutter of `StarsDelivery`: `DeliverySafe`
is the safety half of `DeliveryKept`.

**awg-server.** Three arguments. A client that no two requests race for has at
most one request (`OneAtATime`), and where that request is in its handler tells whether the
peer is there (`Phases`). Saves that overlap while nobody changes the map write
the same list (`SameList`), so a file two of them wrote is whole when the last
is done; otherwise a request that has still to save will do it (`TornTmp`, `TornFile`), which
takes that requests are finitely many. And what is in a list about to be written,
in the temporary file or in clients.json agrees with the map for every client whose own
request has come past its save (`FreshLists`, `FreshDisk`), since that save came
after all the others had taken an equally recent list. For addresses,
`AddressesChosen` carries what `nextIP` found from the choice to the store.

**Access.** The argument is made for one account at a time, as long as it is not
`disturbed`. Every key that is accepted for it is in a row, among its configs or fresh
in the request that is about to store it (`Accounted`). For that to survive a statement
that deletes rows or configs, a request must have called for all their keys before:
`Swept` says, for each place a request can be in its script, which keys are gone or
still in its calls. It holds because nothing adds a key meanwhile: a request that adds
is alone (`Alone`), or else the account is disturbed. `Provisioned` and `AddsKept` say
that what an adding request found is still so. The keys of a blocked account are about
to be removed by the request that blocked it (`Carried`). `Foreign` shows that a request
about one account leaves the others alone, and `Owns` that keys, rows and calls are of
the account they are said to be. The device limit has an invariant of its own
(`LimitInv`): one transaction has an account locked, and between its check and its
insert the rows that count do not become more.

**Billing.** Each step leaves the days of an account as they are, drops them
all with its receipts, or credits something of which it has no receipt
yet. `BillInv` says why nothing is there yet: an order still open or to be numbered, a
key unredeemed, a charge or grant still to come (`ReceiptsUsed`). The rows that the
sweep selected had no expiry then, so that a row which is still stuck
has no receipt (`StuckUncredited`). A redemption extends from the time it began,
which is never ahead of the clock (`BegunBefore`). One assumption is made: there
is one run (`OneRun`), as `SkipIfStillRunning` has it within one process. It is needed: two overlapping
sweeps credit the same stuck row twice, index or not, and TLC finds that with two workers.
`PartsKeepTheirWord` needs no such assumption: the invariants of orders and
of keys survive each other's steps, Stars, grants and the purge. `PartsStepByStep` says the
same of their action properties: every step of the composition is, for orders and for keys, one of
their own or none.

**Ledger.** `LedgerImplemented` goes through the steps of `Billing` one by one
(`RequestMaps`, `JobMaps`, `RedeemMaps`, `OwnMaps`, `PurgeMaps`) and names the step of the ledger
that each one is. What has to be shown is that whatever is credited is good. `LedgerInv` adds
to `BillInv` that the days of an order are with its buyer (`Owners`): when the sweep
selects an order because its buyer has no expiry, and therefore no receipts, nobody else
holds it either. It stays with nobody until it is recovered (`RowsLost`), since only
the one run that selected it could credit it. A key, charge or grant is good because its
table says so, and no table forgets: a deletion clears `used_by`, not the redemption.
From the ledger alone it follows that a receipt is with one account at most
(`ReceiptsHaveOneHolder`). The assumption is `OneRun` again.

**Mini App.** `CacheInv` says whose data every entry, fetch and stored value is, and that an
entry without data and error that a view waits for has a fetch that counts; the profile `App`
rendered with is of the user it runs for as well (`AppOwn`). `FreshInv` says that a
current fetch will read, or has read, all that the entry must reflect: what a refresh owes
is only raised by steps that make the fetches under way stale.
`CheckoutInv` says that
only one of Buy's two ways is under way and that whoever knows of a paid order
knows of a credit. `ApiInv` counts attempts and deliveries of a call at each point of
it. `PanelInv` says that a deletion under way was agreed to, `PanelShape` that nothing is
open over the sheet while a request of the sheet itself is under way.

**Screens.** `NavInv` says that each modal in the document has one lock and each that is
wanted one handler, that the sheets keep their order among the handlers, and that the handler
of the page is below those of the sheets. `FingerPicks` is arithmetic: the
point picked is the nearest one, for any number of points and any width. `AxisFits` says how
far `niceCeil` may round up: the top is the least nice number that is not below (`MinIsLeast`),
and no nice number is more than twice the one before it (`NiceTop`).
`MiniInOrder` puts the type invariants of the nine parts
together: `PartsAlone` shows that a behaviour of the run `MiniApp` is, for each part, a behaviour of
that part alone.

Only model-checked: what needs fairness (`MatchedOrderSettles`, `HeldKeyServed`,
`LapsedConfigRevoked`, the liveness half of `DeliveryKept`), since liveness under
fairness is out of the prover's reach. Every other property of a passing run is stated
by a theorem.

## 5. Where comments and code disagree

Three runs find a violation:

* `AccessPurge`: "purgeUser removes all VLESS clients from xray" — it removes the
  keys of the configs; those of the devices go on working until xray restarts.
* `BillingSweep`: the sweep "recovers" orders "never credited" — it credits a
  second time the orders of an account that later became unlimited, and thereby
  puts a limit on it. `PaidIffCredited` shows that no other order is there to recover.
* `AdminBlocks`: "Blocking cuts the user off entirely — confirm. Unblocking is
  restorative, no prompt." — the sheet asks by the flag of the row it was opened
  with, the server toggles the flag it has.

Six more definitions state what a comment says and do not hold. No run of its own
repeats them; put in place of the properties of the run named here, TLC refutes each:

| Definition | Run | What happens |
|---|---|---|
| `UniqueLiveAmounts` | `Races` | "A pending order reserves a UNIQUE amount" (config.go:346): two overlapping CreateOrder calls choose the same one; `SharedAmountOnlyUnseen` says that only such calls do. |
| `TxCreditedOnce` | `Races` | "a tx is credited once" (payments_verify.go:93): deleting the account deletes the only record of the transaction, which the explorer still lists. |
| `KeyNeverShortensUnlimited` | `Races` | "a promo key must never shorten unlimited access" (auth.go:215): it does when a lifetime key is redeemed for the account between its read and its write. |
| `BlockedLosesAccess` | `AccessFaults` | "A blocked account loses VPN access entirely" (provision.go:71): its AmneziaWG peers stay enabled. |
| `ProfileAgrees` | `MiniApp` | "the home banner, the Subscription tab and the avatar can never disagree" (App.tsx:42-44): after a sign-out and a sign-in `App` listens to an entry that is no longer in the store. |
| `RenewedConfigServed` | `AccessJobs`, with `Configs <- VlessAndAwg`, `Awg <- OnlyAwg`, `Ops <- FaultOps` | "renewing brings the SAME link back to life" (cron.go:210): the peer of an AmneziaWG config was deleted and is not created again. |

Further behaviour that follows from the models without a property of its own:

* Of two transfers under one TRON transaction only one is ever credited: the other is taken
  for recorded (payments_verify.go:99-103; `TxPaysOneOrder` says that they never settle two orders).
* "confirms the backend actually credited the Stars payment" (SubscribeSheet.tsx:249-251): any
  credit moves `paid_until`, and so does, without one, a baseline that could not be
  read; both show success (`DoneIsTrue` asks for some credit, and exempts that baseline).
* An empty list offers "Buy subscription" to an account that has access
  (ConfigsScreen.tsx:222-229).
* A transfer that comes after its order was cancelled or expired pays whoever has
  the amount by then (`OnTimePaymentReachesItsOrder` shows that only late ones go astray).
* `bot.stop()` confirms a payment that is still being delivered (`lost` in `StarsBot`).
* A device unblocked while its account is at the device limit cannot be
  provisioned again, since it is counted against itself (`AtLimit`).
* Two saves of awg-server that overlap and write different lists leave clients.json incomplete
  until a third request has saved; a restart in between finds an empty list
  (`TornOnlyAtWork` says that it cannot stay so).
* "the server didn't receive it and a replay can't double-apply" (client.ts:104-105):
  a connection may fail after the request is out, and then the change is made twice
  (`RepeatedOnlyByLoss` says that only this repeats one).
* "access flips on automatically" (ConfigsScreen.tsx:80-82): the last answer of
  the open orders, which stops the polling, may overtake that of the profile, which
  was read before the credit; the screen then stays locked until it is shown again.
* The back button belongs to "the top-most open sheet" (telegram.ts:291-292): the handlers of a bottom
  sheet are pushed again with each render of its parent (`Render`), above those of a sheet
  that opened over it.
* An order that was left with Back is reused by the wallet button, which pays it in the
  asset chosen by then (SubscribeSheet.tsx:173, WalletPay.tsx:70); the pay view names the
  chosen asset, not the order's (SubscribeSheet.tsx:320).
* A request that renews its token while the user signs out stores a token after
  the sign-out (App.tsx:130): the next launch signs in by itself (`Logout`).

## 6. Not modelled, and the plan

Reads that change nothing, formatting, and the wording of messages are left out
everywhere; so are animation, drag, theme and layout of the Mini App, and its screens that show
one list (traffic, usage, history, statistics, about). nginx, metrics and
the deployment scripts keep no shared state of the kind TLC helps with. Translations
and the changelog are text.

Exposed, and covered by no property: explorer paging (a payment pushed off the page of the
newest 100 events between two runs is missed; the model's history is
complete); the traffic baseline that is stored before the usage, in two statements whose errors
are dropped (cron.go:291-293); token buckets that are evicted and start full (ratelimit.go:48);
Stars updates that the bot sees in another order (index.ts:95). An
account that signs up again after its deletion, the adoption of a device row without
install id (provision.go:109-124) and the change of a config's settings are
not in `Access`.

Next, in this order:

1. `Access`, further — the sign-up after a deletion, the settings of a config, an
   abstract specification (who is entitled has a key, and nobody else, once the
   system is quiet).
2. `Traffic` — counters, baselines, restarts of xray.
3. `RateLimit` — token buckets and their eviction; the cached rate of `plans.go`.
4. Proofs — the safety half of the abstract specification of `Access` (what a quiet
   account has and has not).
