---------------------------- MODULE ClientCache ----------------------------
(***************************************************************************)
(* The Mini App's shared data: the stale-while-revalidate store            *)
(* (lib/cache.ts), the hook every screen reads it through                  *)
(* (lib/useForeground.ts), the sign-in that decides whose data it is       *)
(* (App.tsx) and the writes that update it by hand (ConfigsScreen,         *)
(* DevicesSheet, AdminSheet).                                              *)
(*                                                                         *)
(* A value is the set of writes it reflects: what the server holds for a   *)
(* key is the set of writes it has applied there.  A fetch reads the       *)
(* server at one moment and commits at a later one.                        *)
(*                                                                         *)
(* The epoch of an entry is only ever compared with the one a fetch began  *)
(* under, so a fetch carries the outcome of that comparison.  A fetch that *)
(* is neither current nor the entry's promise can only re-render: the      *)
(* model keeps the promise.                                                *)
(*                                                                         *)
(* A component renders again when the entry it subscribed to changes.  The *)
(* screens are mounted while signed in and subscribe anew at each sign-in; *)
(* App is mounted once and stays with the entry it found at the launch,    *)
(* which a sign-out takes out of the store.  What App shows is modelled    *)
(* apart from the entry for that reason.                                   *)
(***************************************************************************)
EXTENDS Naturals, FiniteSets

CONSTANTS
    Users,      \* Telegram users who open the app on this device
    Keys,       \* cache keys in use
    Writes,     \* changes, to rows of their own, each made at most once
    Kind,       \* Kind[w]: which control makes write w
    Owner,      \* Owner[w]: whose row it changes
    Nothing

AllKeys  == {"configs", "devices", "profile", "adminKeys"}
AllKinds == {"toggle", "limit", "edit", "reset", "generate", "revoke"}

VARIABLES
    phase,      \* App's phase; "closed" = the Mini App is not running
    user,       \* whose Telegram it runs in (initData, mvpn_uid)
    token,      \* localStorage: whose JWT is stored
    open,       \* views with active = TRUE
    entry,      \* the store
    disk,       \* localStorage: each user's persisted entries
    appListens, \* App's listener is on the profile entry of the store
    appProfile, \* the profile App last rendered with
    server,     \* per user and key, the writes the backend has applied
    write,      \* per write, the progress of its request
    floor       \* history: what a fetch that may still commit must reflect

signIn    == <<phase, user, token, disk, appListens>>
session   == <<signIn, appProfile>>
cacheVars == <<session, open, entry, server, write, floor>>

Persisted == {"configs", "devices"}

\* The key a control's optimistic or confirmed value goes to.
Target == [toggle |-> "configs", limit |-> "profile", edit |-> "devices",
           reset |-> "devices", generate |-> "adminKeys", revoke |-> "adminKeys"]

Key(w) == Target[Kind[w]]

ASSUME CacheConstants ==
    /\ Keys \subseteq AllKeys
    /\ Kind \in [Writes -> AllKinds]
    /\ Owner \in [Writes -> Users]
    /\ \A w \in Writes : Key(w) \in Keys
    /\ Nothing \notin Users \cup [of: Users, has: SUBSET Writes]

Optimistic == {"toggle", "limit"}               \* shown before the request
Confirming == {"toggle", "edit", "revoke"}      \* put into the cache on success

\* Keys invalidated when the request succeeds, and when it fails.
AfterSuccess == [toggle |-> {}, limit |-> {"configs", "profile"},
                 edit |-> {"configs", "devices", "profile"},
                 reset |-> {"configs", "devices", "profile"},
                 generate |-> {"adminKeys"}, revoke |-> {}]
AfterFailure == [toggle |-> {"configs"}, limit |-> {"profile"}, edit |-> {},
                 reset |-> {}, generate |-> {}, revoke |-> {}]

\* What each view reads.  Sheets open over the home pane.
ViewKeys == [app |-> {"profile"}, home |-> {"configs", "profile", "devices"},
             admin |-> {"adminKeys"}, deviceSheet |-> {"devices", "profile"},
             account |-> {"profile"}]
OverSheets == {"deviceSheet", "account"}

\* The list whose first load a view stands or falls with: a skeleton until it
\* is there, an error with a retry button when it fails.  The views of the
\* profile and of the access keys have neither.
Awaited == [app |-> {}, home |-> {"configs"}, admin |-> {},
            deviceSheet |-> {"devices"}, account |-> {}]
CacheTabs   == {"home", "admin"}

\* Which view offers a control.
Place == [toggle |-> "home", limit |-> "deviceSheet", edit |-> "deviceSheet",
          reset |-> "deviceSheet", generate |-> "admin", revoke |-> "admin"]

Active(views, k) == \E v \in views : k \in ViewKeys[v]
Waiting(views, k) == \E v \in views : k \in Awaited[v]

-----------------------------------------------------------------------------
(* Entries.                                                                 *)

Values == [of: Users, has: SUBSET Writes]

NoFetch == [pending |-> FALSE, current |-> FALSE, got |-> Nothing]
Fetch   == [pending: BOOLEAN, current: BOOLEAN, got: Values \cup {Nothing}]
Started == [pending |-> TRUE, current |-> TRUE, got |-> Nothing]

Entry == [data: Values \cup {Nothing}, error: BOOLEAN,
          recent: BOOLEAN,              \* fetched within THROTTLE_MS
          fetch: Fetch]

NoEntry == [data |-> Nothing, error |-> FALSE, recent |-> FALSE, fetch |-> NoFetch]

\* revalidate(): joins a fetch under way, and skips fresh data.
Revalidated(e) ==
    IF e.fetch.pending \/ (e.data # Nothing /\ ~e.error /\ e.recent) THEN e
    ELSE [e EXCEPT !.fetch = Started]

\* Mutation: a forced revalidation joins a fetch under way.
Joined(e) == IF e.fetch.pending THEN e ELSE [e EXCEPT !.fetch = Started]

\* revalidate({force: true}): the fetch under way becomes stale.
Forced(e) == [e EXCEPT !.fetch = Started]

\* invalidate(): stale now, fetched again now if some view shows it.
Invalidated(e, active) ==
    LET stale == [e EXCEPT !.recent = FALSE]
    IN  IF active THEN Forced(stale) ELSE stale

\* Mutation: mutate() leaves the fetch under way current.
MutatedOnly(e, w) == IF e.data = Nothing THEN e ELSE [e EXCEPT !.data.has = @ \cup {w}]

\* mutate(): adds a write to the cached value; without one it does nothing.
Mutated(e, w) ==
    IF e.data = Nothing THEN e
    ELSE [e EXCEPT !.data.has = @ \cup {w}, !.fetch.current = FALSE]

\* A fetch that ends: its value is kept if nothing overtook it.
Committed(e) ==
    IF e.fetch.current
    THEN [data |-> e.fetch.got, error |-> FALSE, recent |-> TRUE, fetch |-> NoFetch]
    ELSE [e EXCEPT !.fetch = NoFetch]

\* Mutation: a failed first load is swallowed.
FailedSilently(e) == [e EXCEPT !.fetch = NoFetch]

\* A failure shows only when there is nothing else to show.
Failed(e) ==
    [e EXCEPT !.error = @ \/ (e.fetch.current /\ e.data = Nothing), !.fetch = NoFetch]

\* Mutation: one set of localStorage keys for every user.
SeededAny(u, k) ==
    LET stored == {disk[v][k] : v \in Users} \ {Nothing}
    IN  [NoEntry EXCEPT !.data = IF k \in Persisted /\ stored # {}
                                 THEN CHOOSE d \in stored : TRUE ELSE Nothing]

\* ent(): a new entry starts from the value the user's last launch stored.
Seeded(u, k) == [NoEntry EXCEPT !.data = IF k \in Persisted THEN disk[u][k] ELSE Nothing]

\* The entries of ks become new; the fetches of those in raised start from now.
Change(ks, new, raised) ==
    /\ entry' = [k \in Keys |-> IF k \in ks THEN new[k] ELSE entry[k]]
    /\ floor' = [k \in Keys |-> IF k \in raised THEN server[user][k] ELSE floor[k]]

InvalidateAll(ks, views) ==
    Change(ks, [k \in Keys |-> Invalidated(entry[k], Active(views, k))],
           {k \in ks : Active(views, k)})

\* App renders with what the entry of the profile holds by then.
AppRenders == appProfile' = IF "profile" \in Keys THEN entry'["profile"].data ELSE Nothing

\* notify(): App hears of its entry only.
AppHears == IF appListens THEN AppRenders ELSE UNCHANGED appProfile

-----------------------------------------------------------------------------
(* Signing in and out (App.tsx).                                            *)

\* A saved token signs in by itself; otherwise the welcome screen waits.
Launch(u) ==
    /\ phase = "closed"
    /\ phase' = IF token = Nothing THEN "auth" ELSE "loading"
    /\ user' = u /\ appListens' = TRUE
    /\ UNCHANGED <<token, open, entry, disk, appProfile, server, write, floor>>

\* handleLogin: the panes mount and the active ones fetch.
Login ==
    LET views == {"app", "home"}
    IN  /\ phase \in {"auth", "loading"}
        /\ phase' = "main" /\ token' = user /\ open' = views
        /\ entry' = [k \in Keys |-> IF Active(views, k) THEN Revalidated(Seeded(user, k))
                                     ELSE Seeded(user, k)]
        /\ floor' = [k \in Keys |-> {}]
        /\ AppRenders
        /\ UNCHANGED <<user, disk, appListens, server, write>>

LoginFails ==
    /\ phase = "loading"
    /\ phase' = "auth"
    /\ UNCHANGED <<user, token, open, entry, disk, appListens, appProfile, server, write,
                   floor>>

\* handleLogout: requests under way go on, against a store that is empty; one
\* that is signing in again stores a token after the sign-out took it away.
\* App's listener goes with the entry it was on.
Logout ==
    /\ phase = "main" /\ "account" \in open
    /\ phase' = "auth" /\ open' = {}
    /\ \/ token' = Nothing
       \/ token' = user /\ \E k \in Keys : entry[k].fetch.pending
    /\ entry' = [k \in Keys |-> NoEntry]
    /\ disk' = [u \in Users |-> [k \in Keys |-> Nothing]]
    /\ write' = [w \in Writes |-> [write[w] EXCEPT !.sameStore = FALSE]]
    /\ appListens' = FALSE /\ AppRenders
    /\ UNCHANGED <<user, server, floor>>

\* A fetch of before the sign-out ends.  All it does is to render App again,
\* which still listens to its entry.
OldFetchEnds ==
    /\ phase # "closed" /\ ~appListens
    /\ UNCHANGED <<signIn, open, entry, server, write, floor>>
    /\ AppRenders

\* The web view goes away; every change of a persisted entry was stored.
CloseApp ==
    /\ phase # "closed"
    /\ phase' = "closed" /\ open' = {}
    /\ entry' = [k \in Keys |-> NoEntry]
    /\ disk' = [disk EXCEPT ![user] =
                    [k \in Keys |-> IF phase = "main" /\ k \in Persisted
                                    THEN entry[k].data ELSE disk[user][k]]]
    /\ write' = [w \in Writes |-> IF write[w].pc = "open"
                                  THEN [write[w] EXCEPT !.pc = "failed"] ELSE write[w]]
    /\ appProfile' = Nothing
    /\ UNCHANGED <<user, token, appListens, server, floor>>

-----------------------------------------------------------------------------
(* Views and refreshes.                                                     *)

OpenDevices ==
    /\ "home" \in open /\ "deviceSheet" \notin open /\ "account" \notin open
    /\ open' = open \cup {"deviceSheet"}
    /\ Change(ViewKeys["deviceSheet"], [k \in Keys |-> Revalidated(entry[k])], {})
    /\ UNCHANGED <<session, server, write>>

OpenAccount ==
    /\ phase = "main" /\ "account" \notin open
    /\ open' = open \cup {"account"}
    /\ Change(ViewKeys["account"], [k \in Keys |-> Revalidated(entry[k])], {})
    /\ AppRenders
    /\ UNCHANGED <<signIn, server, write>>

CloseDevices ==
    /\ "deviceSheet" \in open /\ "account" \notin open
    /\ open' = open \ {"deviceSheet"}
    /\ UNCHANGED <<session, entry, server, write, floor>>

\* Leaving Settings goes to the Configs tab and fetches what it shows.  The
\* avatar (goHome) closes the sheets below as well.
CloseAccount ==
    /\ "account" \in open
    /\ \/ open' = (open \ {"account", "admin"}) \cup {"home"}
       \/ open' = {"app", "home"}
    /\ InvalidateAll(ViewKeys["app"] \cup ViewKeys["home"], open')
    /\ AppRenders
    /\ UNCHANGED <<signIn, server, write>>

\* BottomTabs; "subscription" reads no key of the cache.
ShowTab ==
    /\ phase = "main" /\ open \cap OverSheets = {}
    /\ \E t \in CacheTabs \cup {"subscription"} :
         /\ t \notin open
         /\ open' = {"app"} \cup (CacheTabs \cap {t})
         /\ Change(UNION {ViewKeys[v] : v \in CacheTabs \cap {t}},
                   [k \in Keys |-> Revalidated(entry[k])], {})
    /\ AppRenders
    /\ UNCHANGED <<signIn, server, write>>

\* The app returns to the foreground, or the network does.
Resume ==
    /\ phase = "main"
    /\ InvalidateAll(Keys, open)
    /\ UNCHANGED <<session, open, server, write>>

\* A pending order is polled: its credit would unlock the configs.
PollOrder ==
    /\ "home" \in open
    /\ InvalidateAll({"configs", "profile"}, open)
    /\ UNCHANGED <<session, open, server, write>>

Retry(k) ==
    /\ Waiting(open, k) /\ entry[k].error
    /\ Change({k}, [j \in Keys |-> Forced(entry[j])], {k})
    /\ UNCHANGED <<session, open, server, write>>

\* THROTTLE_MS pass.
ThrottleEnds(k) ==
    /\ entry[k].recent
    /\ entry' = [entry EXCEPT ![k].recent = FALSE]
    /\ UNCHANGED <<session, open, server, write, floor>>

-----------------------------------------------------------------------------
(* The requests.                                                            *)

\* The backend answers a fetch; a retried GET may be answered again.
ReadServer(k) ==
    /\ entry[k].fetch.pending
    /\ entry' = [entry EXCEPT ![k].fetch.got = [of |-> token, has |-> server[token][k]]]
    /\ UNCHANGED <<session, open, server, write, floor>>

FetchDone(k) ==
    /\ entry[k].fetch.got # Nothing
    /\ entry' = [entry EXCEPT ![k] = Committed(entry[k])]
    /\ AppHears
    /\ UNCHANGED <<signIn, open, server, write, floor>>

FetchFails(k) ==
    /\ entry[k].fetch.pending
    /\ entry' = [entry EXCEPT ![k] = Failed(entry[k])]
    /\ AppHears
    /\ UNCHANGED <<signIn, open, server, write, floor>>

\* The view with the control is on the screen; rows to change are picked from
\* the list it shows.
Tappable(w) ==
    /\ Place[Kind[w]] \in open /\ "account" \notin open
    /\ Kind[w] \in Confirming => entry[Key(w)].data # Nothing

StartWrite(w) ==
    /\ write[w].pc = "idle" /\ Owner[w] = user /\ Tappable(w)
    /\ write' = [write EXCEPT ![w] = [pc |-> "open", sameStore |-> TRUE]]
    /\ \/ /\ Kind[w] \in Optimistic
          /\ Change({Key(w)}, [k \in Keys |-> Mutated(entry[k], w)], {})
       \/ /\ Kind[w] \notin Optimistic
          /\ UNCHANGED <<entry, floor>>
    /\ AppHears
    /\ UNCHANGED <<signIn, open, server>>

\* The backend applies it: perhaps after the app has given up waiting.
ApplyWrite(w) ==
    /\ write[w].pc \in {"open", "failed"}
    /\ w \notin server[Owner[w]][Key(w)]
    /\ server' = [server EXCEPT ![Owner[w]][Key(w)] = @ \cup {w}]
    /\ UNCHANGED <<session, open, entry, write, floor>>

\* Put the confirmed value into the cache, then refetch what it may affect.
WriteDone(w) ==
    LET kind == Kind[w]
        confirmed == IF kind \in Confirming THEN {Key(w)} ELSE {}
        refetched == AfterSuccess[kind]
        updated(k) == IF k \in confirmed THEN Mutated(entry[k], w) ELSE entry[k]
    IN  /\ phase # "closed"
        /\ write[w].pc = "open" /\ w \in server[Owner[w]][Key(w)]
        /\ write' = [write EXCEPT ![w].pc = "done"]
        /\ Change(confirmed \cup refetched,
                  [k \in Keys |-> IF k \in refetched THEN Invalidated(updated(k), Active(open, k))
                                  ELSE updated(k)],
                  {k \in refetched : Active(open, k)}
                     \cup {k \in confirmed : entry[k].data # Nothing})
        /\ AppHears
        /\ UNCHANGED <<signIn, open, server>>

\* A refusal, or a timeout: it may have been applied, or may be later.
WriteFails(w) ==
    /\ phase # "closed"
    /\ write[w].pc = "open"
    /\ write' = [write EXCEPT ![w].pc = "failed"]
    /\ InvalidateAll(AfterFailure[Kind[w]], open)
    /\ UNCHANGED <<session, open, server>>

-----------------------------------------------------------------------------
CacheInit ==
    /\ phase = "closed" /\ user \in Users /\ token = Nothing
    /\ open = {} /\ appListens = TRUE /\ appProfile = Nothing
    /\ entry = [k \in Keys |-> NoEntry]
    /\ disk = [u \in Users |-> [k \in Keys |-> Nothing]]
    /\ server = [u \in Users |-> [k \in Keys |-> {}]]
    /\ write = [w \in Writes |-> [pc |-> "idle", sameStore |-> FALSE]]
    /\ floor = [k \in Keys |-> {}]

CacheNext ==
    \/ \E u \in Users : Launch(u)
    \/ Login \/ LoginFails \/ Logout \/ OldFetchEnds \/ CloseApp
    \/ OpenDevices \/ OpenAccount \/ CloseDevices \/ CloseAccount \/ ShowTab
    \/ Resume \/ PollOrder
    \/ \E k \in Keys : Retry(k) \/ ThrottleEnds(k)
                       \/ ReadServer(k) \/ FetchDone(k) \/ FetchFails(k)
    \/ \E w \in Writes : StartWrite(w) \/ ApplyWrite(w) \/ WriteDone(w) \/ WriteFails(w)

CacheSpec == CacheInit /\ [][CacheNext]_cacheVars

-----------------------------------------------------------------------------
\* The store, its persisted part, the backend and the requests.
StoreTypeOK ==
    /\ phase \in {"closed", "auth", "loading", "main"}
    /\ user \in Users /\ token \in Users \cup {Nothing}
    /\ open \subseteq {"app"} \cup CacheTabs \cup OverSheets
    /\ entry \in [Keys -> Entry]
    /\ disk \in [Users -> [Keys -> Values \cup {Nothing}]]
    /\ server \in [Users -> [Keys -> SUBSET Writes]]
    /\ write \in [Writes -> [pc: {"idle", "open", "done", "failed"},
                             sameStore: BOOLEAN]]
    /\ floor \in [Keys -> SUBSET Writes]
    /\ \A k \in Keys :
          /\ entry[k].error => entry[k].data = Nothing
          /\ entry[k].fetch.current \/ entry[k].fetch.got # Nothing => entry[k].fetch.pending

AppTypeOK == appListens \in BOOLEAN /\ appProfile \in Values \cup {Nothing}

(* Types: a current fetch is the entry's promise, an entry with an error has *)
(* no data, and only a fetch that is under way holds a value.                *)
CacheTypeOK == StoreTypeOK /\ AppTypeOK

(* The data on screen, and the data a fetch is about to put there, are those *)
(* of the Telegram user the app runs for, whoever used the device before     *)
(* (cache.ts:16, :43, :178); so is the profile App was last rendered with,   *)
(* which names the account and opens the admin pane.                         *)
OwnDataOnly ==
    /\ appProfile # Nothing => phase = "main" /\ appProfile.of = user
    /\ \A k \in Keys :
          /\ entry[k].data # Nothing => phase = "main" /\ entry[k].data.of = user
          /\ entry[k].fetch.got # Nothing => entry[k].fetch.got.of = user

(* A fetch that may still be kept was answered after the last forced refresh *)
(* and the last confirmed change of its key: a refresh never rides a slower  *)
(* request that read the backend earlier (cache.ts:116, :165).               *)
NoStaleCommit ==
    \A k \in Keys :
       entry[k].fetch.current /\ entry[k].fetch.got # Nothing
          => floor[k] \subseteq entry[k].fetch.got.has

(* A change the backend confirmed stays on screen: no fetch that overlapped  *)
(* it brings the old value back, in this launch or from the disk in a later  *)
(* one.                                                                      *)
ConfirmedStaysShown ==
    \A w \in Writes :
       /\ write[w].pc = "done" /\ write[w].sameStore /\ Kind[w] \in Confirming
       /\ entry[Key(w)].data # Nothing /\ Owner[w] = user
       => w \in entry[Key(w)].data.has

(* A view that waits for its list has it, or a fetch of it under way whose   *)
(* answer it will show, or an error with its retry button: no interleaving   *)
(* of opening, resuming, signing out and failing leaves a bare skeleton      *)
(* (ConfigsScreen.tsx:139-142, DevicesSheet.tsx:177, 218).                   *)
NeverStuck ==
    \A k \in Keys :
       Waiting(open, k) /\ entry[k].data = Nothing /\ ~entry[k].error => entry[k].fetch.current

-----------------------------------------------------------------------------
(* "the home banner, the Subscription tab and the avatar can never disagree" *)
(* (App.tsx:42-44): the profile App rendered with is the one the screens     *)
(* read.  It does not hold after a sign-out.                                 *)
ProfileAgrees ==
    phase = "main" /\ "profile" \in Keys => appProfile = entry["profile"].data
=============================================================================
