---------------------------- MODULE InstallGuide ----------------------------
(***************************************************************************)
(* The page of one config (ConfigDetailSheet.tsx): how to install a        *)
(* launcher for the chosen system and import the subscription, and the     *)
(* config's mode.  Its menu of systems is ui/Dropdown.tsx.                  *)
(***************************************************************************)
EXTENDS Naturals

CONSTANTS
    Platforms,      \* devices the app may be opened on
    Detected        \* Detected[p]: the system detectOs() takes p for

Systems == {"ios", "android", "windows", "macos", "linux", "appletv", "androidtv"}

\* Where each launcher is to be had.
Stores == [happ |-> Systems, v2raytun |-> Systems \ {"appletv"}, v2rayng |-> {"android"}]

\* APPS, in order.
AppOrder == <<"happ", "v2raytun", "v2rayng">>

ASSUME GuideConstants == Detected \in [Platforms -> Systems \ {"appletv", "androidtv"}]

VARIABLES
    detail,     \* the sheet is open
    awg,        \* its config is an AmneziaWG one
    enhanced,   \* its mode, and the legacy game mode
    gameMode,
    os,         \* the chosen system
    launcher,   \* the chosen launcher
    menu,       \* the menu of systems is open
    advanced,   \* the advanced settings are unfolded
    qr          \* the QR sheet is open

guideVars == <<detail, awg, enhanced, gameMode, os, launcher, menu, advanced, qr>>

Television == {"appletv", "androidtv"}

LaunchersFor(system) == {a \in DOMAIN Stores : system \in Stores[a]}

\* launchersFor(os)[0]
FirstFor(system) ==
    AppOrder[CHOOSE i \in 1 .. 3 : /\ AppOrder[i] \in LaunchersFor(system)
                                   /\ \A j \in 1 .. i - 1 : AppOrder[j] \notin LaunchersFor(system)]

\* What the guide below the tabs is about: a launcher, its store's link if it
\* has one there, and a link to import the subscription (on a TV, its QR).
Guide == [app |-> launcher, store |-> os \in Stores[launcher],
          import |-> os \notin Television]

-----------------------------------------------------------------------------
OpenDetail(platform) ==
    /\ ~detail /\ detail' = TRUE
    /\ awg' \in BOOLEAN /\ enhanced' \in BOOLEAN /\ gameMode' \in BOOLEAN
    /\ os' = Detected[platform] /\ launcher' = FirstFor(os')
    /\ UNCHANGED <<menu, advanced, qr>>

CloseDetail ==
    /\ detail /\ ~qr /\ detail' = FALSE /\ menu' = FALSE
    /\ UNCHANGED <<awg, enhanced, gameMode, os, launcher, advanced, qr>>

\* The menu opens and closes with its row, and closes on a tap outside or any
\* scroll.
ToggleMenu ==
    /\ detail /\ ~awg /\ ~qr /\ menu' = ~menu
    /\ UNCHANGED <<detail, awg, enhanced, gameMode, os, launcher, advanced, qr>>

\* Mutation: the launcher stays.
ChooseOnly(system) ==
    /\ menu /\ menu' = FALSE
    /\ os' = system
    /\ UNCHANGED <<detail, awg, enhanced, gameMode, launcher, advanced, qr>>

\* A system is chosen, and the first launcher it has.
ChooseSystem(system) ==
    /\ menu /\ menu' = FALSE
    /\ os' = system /\ launcher' = FirstFor(system)
    /\ UNCHANGED <<detail, awg, enhanced, gameMode, advanced, qr>>

\* Tabs: a tap on one closes the menu.
ChooseLauncher(app) ==
    /\ detail /\ ~awg /\ ~qr /\ app \in LaunchersFor(os)
    /\ launcher' = app /\ menu' = FALSE
    /\ UNCHANGED <<detail, awg, enhanced, gameMode, os, advanced, qr>>

ToggleQr ==
    /\ detail /\ qr' = ~qr /\ menu' = FALSE
    /\ UNCHANGED <<detail, awg, enhanced, gameMode, os, launcher, advanced>>

ToggleAdvanced ==
    /\ detail /\ ~awg /\ ~qr /\ advanced' = ~advanced /\ menu' = FALSE
    /\ UNCHANGED <<detail, awg, enhanced, gameMode, os, launcher, qr>>

\* Only the enhanced mode can be chosen; a refusal takes it back.
ChooseEnhanced ==
    /\ detail /\ advanced /\ ~awg /\ ~qr
    /\ enhanced' \in BOOLEAN /\ menu' = FALSE
    /\ UNCHANGED <<detail, awg, gameMode, os, launcher, advanced, qr>>

-----------------------------------------------------------------------------
GuideInit ==
    /\ detail = FALSE /\ awg = FALSE /\ enhanced = TRUE /\ gameMode = FALSE
    /\ os \in {Detected[p] : p \in Platforms} /\ launcher = FirstFor(os)
    /\ menu = FALSE /\ advanced = FALSE /\ qr = FALSE

GuideNext ==
    \/ \E p \in Platforms : OpenDetail(p)
    \/ CloseDetail \/ ToggleMenu \/ ToggleQr \/ ToggleAdvanced \/ ChooseEnhanced
    \/ \E s \in Systems : ChooseSystem(s)
    \/ \E a \in DOMAIN Stores : ChooseLauncher(a)

GuideSpec == GuideInit /\ [][GuideNext]_guideVars

-----------------------------------------------------------------------------
(* The guide can be followed to its end, whatever was tapped: the launcher it *)
(* is about exists for the chosen system and is one of the tabs, with a link *)
(* to get it (ConfigDetailSheet.tsx:86, 129-138, 234, 258).                  *)
GuideTypeOK ==
    /\ detail \in BOOLEAN /\ awg \in BOOLEAN /\ menu \in BOOLEAN
    /\ advanced \in BOOLEAN /\ qr \in BOOLEAN
    /\ os \in Systems /\ Guide.app \in LaunchersFor(os) /\ Guide.store
=============================================================================
