----------------------------- MODULE HomeScreen -----------------------------
(***************************************************************************)
(* The home screen (ConfigsScreen.tsx): what it shows of the buyer's       *)
(* access, and how it learns that a payment has been credited.             *)
(*                                                                         *)
(* Access is decided by the backend and read with the profile; the orders  *)
(* still open are read apart from it, by requests whose answers arrive in  *)
(* any order.  Both are polled while some order is open.                   *)
(***************************************************************************)
EXTENDS Naturals, FiniteSets

CONSTANTS
    HomeOrders, \* the buyer's orders
    MaxLoads    \* bound on the answers of GET /orders/pending under way

Unread == "unread"                      \* a profile nobody has read yet
Access == {"none", "active", "expired"} \* is_active and is_expired of a profile

VARIABLES
    running,    \* the app is open and signed in
    onHome,     \* the Configs tab is the active one
    access,     \* the backend: what the account may do
    bought,     \* the backend: per order, "absent", "open", "paid" or "over"
    configsIn,  \* the configs list: "loading", "failed", "empty" or "some"
    homeProfile, \* the cached profile
    reading,    \* its fetch: "no", "sent", or the access it has read
    pending,    \* React state: orders the last answer named
    answers,    \* answers of GET /orders/pending under way
    keySheet,   \* KeyEntrySheet: "closed", "open" or "busy"
    lapsed      \* history: at some time since the launch there was no access

homeVars == <<running, onHome, access, bought, configsIn, homeProfile, reading,
              pending, answers, keySheet, lapsed>>
account  == <<access, bought, lapsed>>
shownNow == <<configsIn, homeProfile, pending>>

OpenOrders == {o \in HomeOrders : bought[o] = "open"}

-----------------------------------------------------------------------------
(* What the screen shows.                                                   *)

\* Mutation: no profile, no access.
LockedUnread(p) == p # "active"

\* Locked only by a profile that says so.
LockedBy(p) == p \in {"none", "expired"}

\* "renewal" is the strip of an expired account above the list, which may be
\* empty; "nothing" is the empty list of any other account.
HomeView ==
    IF configsIn = "loading" THEN "skeleton"
    ELSE IF configsIn = "failed" THEN "retry"
    ELSE IF LockedBy(homeProfile) /\ pending # {} THEN "processing"
    ELSE IF LockedBy(homeProfile) /\ homeProfile # "expired" THEN "paywall"
    ELSE IF homeProfile = "expired" THEN "renewal"
    ELSE IF configsIn = "empty" THEN "nothing"
    ELSE "configs"

\* Views that deny the buyer access.  "nothing" has a button to buy as well, with
\* access or without, but takes nothing away.
Denying == {"processing", "paywall", "renewal"}

-----------------------------------------------------------------------------
(* Requests.                                                                *)

\* loadPending(): one more answer on its way.
LoadPending == answers' = IF Cardinality(answers) < MaxLoads THEN answers \cup {OpenOrders} ELSE answers

\* cache.invalidate('configs', 'profile') while the screen shows them.
Reread == reading' = "sent"

ReadProfile ==
    /\ reading = "sent"
    /\ reading' = access
    /\ UNCHANGED <<running, onHome, account, shownNow, answers, keySheet>>

ProfileArrives ==
    /\ reading \in Access
    /\ homeProfile' = reading /\ reading' = "no"
    /\ UNCHANGED <<running, onHome, account, configsIn, pending, answers, keySheet>>

\* What was shown stays.
ProfileLost ==
    /\ reading # "no" /\ reading' = "no"
    /\ UNCHANGED <<running, onHome, account, shownNow, answers, keySheet>>

\* An error shows only while there is nothing else; Retry asks again.
ConfigsArrive ==
    /\ running
    /\ \/ configsIn' \in {"empty", "some"}
       \/ configsIn = "loading" /\ configsIn' = "failed"
       \/ configsIn = "failed" /\ configsIn' = "loading"
    /\ configsIn' # configsIn
    /\ UNCHANGED <<running, onHome, account, homeProfile, reading, pending, answers, keySheet>>

\* Answers to loadPending are not ordered; one that fails is dropped.
PendingArrives(answer) ==
    /\ answers' = answers \ {answer}
    /\ pending' \in {answer, pending}
    /\ UNCHANGED <<running, onHome, account, configsIn, homeProfile, reading, keySheet>>

\* The backend answers later, or a retry is answered again.
PendingReread(answer) ==
    /\ answer # OpenOrders
    /\ answers' = (answers \ {answer}) \cup {OpenOrders}
    /\ UNCHANGED <<running, onHome, account, shownNow, reading, keySheet>>

\* The 8 s interval.
PollPending ==
    /\ running /\ onHome /\ pending # {}
    /\ LoadPending /\ Reread
    /\ UNCHANGED <<running, onHome, account, shownNow, keySheet>>

-----------------------------------------------------------------------------
(* The user.                                                                *)

\* Nothing of this screen is persisted but the configs.
LaunchApp ==
    /\ ~running /\ running' = TRUE /\ onHome' = TRUE
    /\ configsIn' \in {"loading", "some"} /\ homeProfile' = Unread /\ pending' = {}
    /\ lapsed' = (access # "active")
    /\ LoadPending /\ Reread
    /\ UNCHANGED <<access, bought, keySheet>>

QuitApp ==
    /\ running /\ running' = FALSE /\ onHome' = FALSE
    /\ configsIn' = "loading" /\ homeProfile' = Unread /\ pending' = {}
    /\ reading' = "no" /\ answers' = {} /\ keySheet' = "closed"
    /\ UNCHANGED account

\* To another tab and back; the return asks for the open orders again.
LeaveHome ==
    /\ running /\ onHome /\ keySheet = "closed"
    /\ onHome' = FALSE
    /\ UNCHANGED <<running, account, shownNow, reading, answers, keySheet>>

ReturnHome ==
    /\ running /\ ~onHome /\ onHome' = TRUE
    /\ LoadPending
    /\ reading' \in {reading, "sent"}
    /\ UNCHANGED <<running, account, shownNow, keySheet>>

\* "I have a key": redeemed, refused, or given up.
EnterKey ==
    /\ running /\ onHome /\ HomeView = "paywall"
    /\ keySheet = "closed" /\ keySheet' = "open"
    /\ UNCHANGED <<running, onHome, account, shownNow, reading, answers>>

SubmitKey ==
    /\ keySheet = "open" /\ keySheet' = "busy"
    /\ access' \in {access, "active"}
    /\ UNCHANGED <<running, onHome, bought, lapsed, shownNow, reading, answers>>

KeyAnswered ==
    /\ keySheet = "busy"
    /\ \/ keySheet' = "open" /\ UNCHANGED reading
       \/ keySheet' = "closed" /\ access = "active" /\ Reread
    /\ UNCHANGED <<running, onHome, account, shownNow, answers>>

CloseKeySheet ==
    /\ keySheet = "open" /\ keySheet' = "closed"
    /\ UNCHANGED <<running, onHome, account, shownNow, reading, answers>>

-----------------------------------------------------------------------------
(* The backend.                                                             *)

\* An order is made on the Subscription tab, credited, or runs out.
OrderOpened(o) ==
    /\ bought[o] = "absent" /\ running /\ ~onHome
    /\ bought' = [bought EXCEPT ![o] = "open"]
    /\ UNCHANGED <<running, onHome, access, lapsed, shownNow, reading, answers, keySheet>>

OrderCredited(o) ==
    /\ bought[o] = "open"
    /\ bought' = [bought EXCEPT ![o] = "paid"] /\ access' = "active"
    /\ UNCHANGED <<running, onHome, lapsed, shownNow, reading, answers, keySheet>>

OrderOver(o) ==
    /\ bought[o] = "open"
    /\ bought' = [bought EXCEPT ![o] = "over"]
    /\ UNCHANGED <<running, onHome, access, lapsed, shownNow, reading, answers, keySheet>>

AccessEnds ==
    /\ access = "active" /\ access' = "expired" /\ lapsed' = TRUE
    /\ UNCHANGED <<running, onHome, bought, shownNow, reading, answers, keySheet>>

-----------------------------------------------------------------------------
HomeInit ==
    /\ running = FALSE /\ onHome = FALSE
    /\ access \in Access /\ bought = [o \in HomeOrders |-> "absent"]
    /\ configsIn = "loading" /\ homeProfile = Unread /\ reading = "no"
    /\ pending = {} /\ answers = {} /\ keySheet = "closed" /\ lapsed = FALSE

HomeNext ==
    \/ ReadProfile \/ ProfileArrives \/ ProfileLost \/ ConfigsArrive
    \/ \E answer \in answers : PendingArrives(answer) \/ PendingReread(answer)
    \/ PollPending \/ LaunchApp \/ QuitApp \/ LeaveHome \/ ReturnHome
    \/ EnterKey \/ SubmitKey \/ KeyAnswered \/ CloseKeySheet
    \/ \E o \in HomeOrders : OrderOpened(o) \/ OrderCredited(o) \/ OrderOver(o)
    \/ AccessEnds

HomeSpec == HomeInit /\ [][HomeNext]_homeVars

-----------------------------------------------------------------------------
(* A buyer whose access has not lapsed since the launch is never locked out, *)
(* nor told that access has ended, whatever request fails, is late or        *)
(* overtakes another: a profile that could not be read is not a profile      *)
(* without access (ConfigsScreen.tsx:103-106).  An empty list still offers   *)
(* to buy (ConfigsScreen.tsx:222-229).                                       *)
PaidNeverLockedOut == running /\ ~lapsed => HomeView \notin Denying
=============================================================================
