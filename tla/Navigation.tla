----------------------------- MODULE Navigation -----------------------------
(***************************************************************************)
(* The windows of the Mini App: tabs and phases (App.tsx), full-screen     *)
(* sheets (Sheet.tsx) and bottom sheets (BottomSheet.tsx) over them, the   *)
(* stack of handlers behind Telegram's BackButton (lib/telegram.ts), the   *)
(* lock on the page's scrolling (lib/scrollLock.ts), and the reload of a   *)
(* stale build (main.tsx).                                                 *)
(*                                                                         *)
(* A bottom sheet stays mounted for a short exit after it closes, and its  *)
(* handler is pushed anew whenever its parent renders again; a sheet's     *)
(* handler keeps its place.  A sheet in the content of the account sheet   *)
(* covers it, and never outlives it: it counts as opened from it, and only *)
(* a bottom sheet as part of a content.                                    *)
(***************************************************************************)
EXTENDS Naturals, FiniteSets, SequencesExt

CONSTANTS
    Sheets,     \* full-screen sheets
    Bottoms,    \* bottom sheets
    Parents,    \* the windows a modal is opened from; "page" = a tab
    Inside,     \* the sheet whose content a bottom sheet is part of, or "page"
    Late        \* modals that open or close when a request is answered

Modals == Sheets \cup Bottoms
Tabs   == {"configs", "subscription", "admin"}

ASSUME NavigationConstants ==
    /\ Sheets \cap Bottoms = {} /\ "page" \notin Modals
    /\ Parents \in [Modals -> SUBSET (Sheets \cup {"page"})]
    /\ Inside \in [Modals -> Sheets \cup {"page"}]
    /\ \A m \in Sheets : Inside[m] = "page"
    /\ Late \subseteq Modals

VARIABLES
    main,       \* phase = "main": tabs and sheets exist
    tab,        \* the selected tab
    subBack,    \* the Subscription tab has a way back to Configs
    wanted,     \* modals whose `open` is true
    mounted,    \* modals in the document, in the order they entered it
    backStack,  \* back handlers; "page" is the Subscription tab's
    lockCount,  \* lib/scrollLock.ts
    ready,      \* signalReady: Telegram's splash is gone
    visible,    \* document.visibilityState
    reloaded,   \* sessionStorage: mvpn_chunk_reloaded
    updated,    \* sessionStorage: mvpn_updated
    reloads     \* history: documents loaded after the first

windowVars == <<tab, subBack, wanted, mounted, backStack, lockCount>>
bootVars   == <<ready, visible, reloaded, updated, reloads>>
navVars    == <<main, windowVars, bootVars>>

In(seq) == {seq[i] : i \in 1 .. Len(seq)}

\* seq without its members in ms, the others in their order.
Without(seq, ms) ==
    LET kept    == {i \in 1 .. Len(seq) : seq[i] \notin ms}
        rank(i) == Cardinality({j \in kept : j <= i})
    IN  [k \in 1 .. Cardinality(kept) |-> seq[CHOOSE i \in kept : rank(i) = k]]

\* popBackHandler then pushBackHandler, when the effect runs again.
Repushed(seq, m) == Append(Without(seq, {m}), m)

\* z-60 over z-50; then the later one in the document.
Above(m, n) ==
    \/ m \in Bottoms /\ n \in Sheets
    \/ /\ m \in Bottoms <=> n \in Bottoms
       /\ \E i, j \in 1 .. Len(mounted) : mounted[i] = m /\ mounted[j] = n /\ i > j

\* The window taps go to: an open modal, or the page.
Top(m) ==
    IF m = "page" THEN mounted = << >>
    ELSE m \in In(mounted) /\ \A n \in In(mounted) \ {m} : Above(m, n)

\* What was open inside a sheet when it went, and opens with it again.
Left(m) == SetToSeq({n \in wanted : Inside[n] = m})

\* Mutation: the new handler goes below the others.
MountBelow(m) ==
    /\ mounted' = mounted \o <<m>> \o Left(m)
    /\ backStack' = Left(m) \o <<m>> \o backStack
    /\ lockCount' = lockCount + 1 + Len(Left(m))

\* A modal enters the document: page locked, handlers pushed, those of its
\* content first.
Mount(m) ==
    /\ mounted' = mounted \o <<m>> \o Left(m)
    /\ backStack' = backStack \o Left(m) \o <<m>>
    /\ lockCount' = lockCount + 1 + Len(Left(m))

\* Mutation: one unlock for all that go.
UnlockedOnce(n) == IF n = 0 THEN lockCount ELSE lockCount - 1

Unlocked(n) == lockCount - n

\* Modals leave it, with what is inside them: the effects' cleanups.
Unmount(ms, handlers) ==
    LET gone == {m \in In(mounted) : m \in ms \/ Inside[m] \in ms}
    IN  /\ mounted' = Without(mounted, gone)
        /\ backStack' = Without(backStack, gone \cup handlers)
        /\ lockCount' = Unlocked(Cardinality(gone))

\* The handlers of ms run.  Sheets go at once, bottom sheets stay for their
\* exit.  The account sheet's, and the page's, lead to the Configs tab.
Leave(ms) ==
    LET toHome == {"account", "page"} \cap ms # {}
    IN  /\ wanted' = wanted \ ms
        /\ tab' = IF toHome THEN "configs" ELSE tab
        /\ subBack' = (subBack /\ ~toHome)
        /\ Unmount(ms \cap Sheets, IF toHome THEN {"page"} ELSE {})

-----------------------------------------------------------------------------
(* Boot and phases.                                                         *)

\* Sign-in ends one way or the other; the splash is dismissed.
SignIn ==
    /\ ~main
    /\ main' \in BOOLEAN
    /\ ready' = TRUE
    /\ main' # main \/ ready' # ready
    /\ UNCHANGED <<windowVars, visible, reloaded, updated, reloads>>

\* handleLogout, from the account sheet: every pane and sheet unmounts.
SignOut ==
    /\ main /\ Top("account")
    /\ main' = FALSE /\ tab' = "configs"
    /\ wanted' = {} /\ mounted' = << >> /\ backStack' = << >>
    /\ lockCount' = Unlocked(Len(mounted))
    /\ UNCHANGED <<subBack, bootVars>>

Background ==
    /\ visible' = ~visible
    /\ UNCHANGED <<main, windowVars, ready, reloaded, updated, reloads>>

\* A new document: nothing of the page survives but sessionStorage.
Reload ==
    /\ main' = FALSE /\ ready' = FALSE /\ reloads' = reloads + 1
    /\ tab' = "configs" /\ subBack' = FALSE
    /\ wanted' = {} /\ mounted' = << >> /\ backStack' = << >> /\ lockCount' = 0
    /\ UNCHANGED visible

\* A chunk of a replaced build is missing.
ChunkMissing ==
    /\ ~(ready /\ visible) /\ ~reloaded
    /\ reloaded' = TRUE
    /\ Reload
    /\ UNCHANGED updated

\* checkForUpdate finds another build than the running one.
UpdateFound ==
    /\ ~updated /\ ~(ready /\ visible)
    /\ updated' = TRUE
    /\ Reload
    /\ UNCHANGED reloaded

-----------------------------------------------------------------------------
(* Tabs.                                                                    *)

\* The Subscription pane's effect: a handler while it is active with a way
\* back.
PageBack(t, back) ==
    backStack' = IF t = "subscription" /\ back
                 THEN IF "page" \in In(backStack) THEN backStack ELSE Append(backStack, "page")
                 ELSE Without(backStack, {"page"})

SelectTab(t) ==
    /\ main /\ Top("page") /\ t # tab
    /\ tab' = t /\ subBack' = FALSE
    /\ PageBack(t, FALSE)
    /\ UNCHANGED <<main, wanted, mounted, lockCount, bootVars>>

\* Renew or Buy on the home screen.
GoSubscription ==
    /\ main /\ Top("page") /\ tab = "configs"
    /\ tab' = "subscription" /\ subBack' = TRUE
    /\ PageBack("subscription", TRUE)
    /\ UNCHANGED <<main, wanted, mounted, lockCount, bootVars>>

-----------------------------------------------------------------------------
(* Modals.                                                                  *)

\* A tap in the window on top opens the next; a late one opens by itself.
Open(m) ==
    /\ main /\ m \notin wanted /\ m \notin In(mounted)
    /\ \E p \in Parents[m] : Top(p) \/ (m \in Late /\ p \in In(mounted) \cup {"page"})
    /\ Inside[m] \in In(mounted) \cup {"page"}
    /\ wanted' = wanted \cup {m}
    /\ Mount(m)
    /\ UNCHANGED <<main, tab, subBack, bootVars>>

\* A bottom sheet opened again during its exit: mounted as it is.
ReopenClosing(m) ==
    /\ main /\ m \in Bottoms /\ m \in In(mounted) \ wanted /\ m \in Late
    /\ wanted' = wanted \cup {m}
    /\ UNCHANGED <<main, tab, subBack, mounted, backStack, lockCount, bootVars>>

\* The ✕ button, the dimmed area, or the in-app back button.
Close(m) ==
    /\ m \in wanted \cap In(mounted)
    /\ Top(m) \/ m \in Late
    /\ Leave({m})
    /\ UNCHANGED <<main, bootVars>>

\* The exit of a bottom sheet ends.
ExitEnds(m) ==
    /\ m \in Bottoms /\ m \in In(mounted) \ wanted
    /\ Unmount({m}, {})
    /\ UNCHANGED <<main, tab, subBack, wanted, bootVars>>

\* The parent renders again: onClose is a new function, the effect runs again.
Render(m) ==
    /\ m \in Bottoms /\ m \in In(mounted)
    /\ backStack' = Repushed(backStack, m)
    /\ backStack' # backStack
    /\ UNCHANGED <<main, tab, subBack, wanted, mounted, lockCount, bootVars>>

\* Telegram's back button runs the last handler.
PressBack ==
    /\ main /\ backStack # << >>
    /\ Leave({Last(backStack)})
    /\ UNCHANGED <<main, bootVars>>

\* Escape reaches every mounted modal.
PressEscape ==
    /\ main /\ mounted # << >>
    /\ Leave(In(mounted))
    /\ UNCHANGED <<main, bootVars>>

\* Mutation: only the sheet on top is closed.
CloseLastOnly == Leave({"account", Last(backStack)})

\* Every handler is run.
CloseAllSheets == Leave({"account"} \cup In(backStack))

\* The avatar of a sheet while the account sheet is open.
GoHome ==
    /\ main /\ "account" \in wanted
    /\ \E m \in Sheets : Top(m)
    /\ CloseAllSheets
    /\ UNCHANGED <<main, bootVars>>

-----------------------------------------------------------------------------
NavInit ==
    /\ main = FALSE /\ tab = "configs" /\ subBack = FALSE
    /\ wanted = {} /\ mounted = << >> /\ backStack = << >> /\ lockCount = 0
    /\ ready = FALSE /\ visible = TRUE /\ reloaded = FALSE /\ updated = FALSE
    /\ reloads = 0

NavNext ==
    \/ SignIn \/ SignOut \/ Background \/ ChunkMissing \/ UpdateFound
    \/ \E t \in Tabs : SelectTab(t)
    \/ GoSubscription
    \/ \E m \in Modals : \/ Open(m) \/ ReopenClosing(m) \/ Close(m)
                         \/ ExitEnds(m) \/ Render(m)
    \/ PressBack \/ PressEscape \/ GoHome

NavSpec == NavInit /\ [][NavNext]_navVars

-----------------------------------------------------------------------------
NavTypeOK ==
    /\ main \in BOOLEAN /\ tab \in Tabs /\ subBack \in BOOLEAN
    /\ wanted \subseteq Modals
    /\ In(mounted) \subseteq Modals /\ IsInjective(mounted)
    /\ In(backStack) \subseteq Modals \cup {"page"}
    /\ lockCount \in Nat /\ reloads \in Nat
    /\ ready \in BOOLEAN /\ visible \in BOOLEAN
    /\ reloaded \in BOOLEAN /\ updated \in BOOLEAN

(* Whatever closes, re-renders or signs out in between, each modal in the    *)
(* document holds exactly one lock and one back handler: the page scrolls    *)
(* again when the last one goes, and the back button never runs the handler  *)
(* of a window that is gone (scrollLock.ts:4, telegram.ts:290-294).              *)
ModalsAccounted ==
    /\ lockCount = Len(mounted)
    /\ IsInjective(backStack)
    /\ In(backStack) \ {"page"} = In(mounted)
    /\ "page" \in In(backStack) <=> main /\ tab = "subscription" /\ subBack

(* With only full-screen sheets in the document, the back button closes the  *)
(* one on top.                                                               *)
BackClosesTopSheet ==
    mounted # << >> /\ In(mounted) \cap Bottoms = {} => Top(Last(backStack))

(* "Go home" from any sheet leaves no sheet open above the home screen.      *)
HomeIsUncovered ==
    [][GoHome => tab' = "configs" /\ wanted' \cap In(mounted') = {}]_navVars

(* A stale build is replaced at most once per guard: no loop of reloads, and *)
(* no reload under the eyes of the user.                                     *)
ReloadsEnd ==
    [][reloads' # reloads => reloads < 2 /\ ~(ready /\ visible)]_navVars
=============================================================================
