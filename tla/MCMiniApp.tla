----------------------------- MODULE MCMiniApp -----------------------------
(* Finite values for the modules of the Mini App.  They meet in nothing that *)
(* they model: a behaviour is about one of them, and the others stay as they *)
(* were.                                                                     *)
EXTENDS ClientCache, Checkout, Navigation, HomeScreen, AdminPanel, ApiClient,
        MockBackend, Charts, InstallGuide, TLC

CONSTANTS ann, bob, t1, o1, o2, b1, b2, p1, p2, d1

VARIABLE focus

\* Two users of one device, a list with a switch, and the profile that App and
\* the screens read.
TwoUsers   == {ann, bob}
TwoKeys    == {"configs", "profile"}
OneWrite   == {t1}
Toggle     == [w \in OneWrite |-> "toggle"]
OfAnn      == [w \in OneWrite |-> ann]

\* Two orders, one method paid by a wallet and one by Stars.
TwoOrders  == {o1, o2}
TwoMethods == {"TON", "STARS"}
TwoTaps    == {b1, b2}

\* Orders and taps are told apart by nothing but their names.
Alike == Permutations(TwoOrders) \cup Permutations(TwoTaps)

\* A sheet over a sheet, the account sheet that opens over any of them, and
\* bottom sheets over the page and over a sheet.
SheetSet  == {"account", "devices", "rename"}
BottomSet == {"wallet", "pill", "pay"}
ParentsOf == [account |-> {"page", "devices", "rename"}, devices |-> {"page"},
              rename |-> {"devices"}, wallet |-> {"page"}, pill |-> {"rename"},
              pay |-> {"page"}]
InsideOf  == [account |-> "page", devices |-> "page", rename |-> "page",
              wallet |-> "page", pill |-> "rename", pay |-> "page"]

\* A bound: Buy waits for one tap on the wallet button at most.
FewRequests == busy => \E r \in TwoTaps : wallet[r].pc = "idle"

TwoProfiles == {p1, p2}
OneDevice   == {d1}
OfFirst     == d1 :> p1

SystemOf == [phone |-> "ios", tablet |-> "android", desktop |-> "linux"]

miniVars == <<cacheVars, checkoutVars, navVars, homeVars, panelVars, apiVars,
              mockVars, chartVars, guideVars, focus>>

MiniInit ==
    /\ CacheInit /\ CheckoutInit /\ NavInit /\ HomeInit /\ PanelInit
    /\ ApiInit /\ MockInit /\ ChartInit /\ GuideInit
    /\ focus \in {"cache", "checkout", "windows", "home", "panel", "api",
                  "mock", "charts", "guide"}
    \* The others are where they are.
    /\ focus # "cache" => user = ann
    /\ focus # "home" => access = "none"
    /\ focus # "mock" => paidFor = 7 /\ client = "paid"
    /\ focus # "charts" => drawing = "bars" /\ width = 50
    /\ focus # "guide" => os = "ios"

MiniNext ==
    \/ focus = "cache" /\ CacheNext
       /\ UNCHANGED <<checkoutVars, navVars, homeVars, panelVars, apiVars,
                      mockVars, chartVars, guideVars, focus>>
    \/ focus = "checkout" /\ CheckoutNext /\ FewRequests'
       /\ UNCHANGED <<cacheVars, navVars, homeVars, panelVars, apiVars,
                      mockVars, chartVars, guideVars, focus>>
    \/ focus = "windows" /\ NavNext
       /\ UNCHANGED <<cacheVars, checkoutVars, homeVars, panelVars, apiVars,
                      mockVars, chartVars, guideVars, focus>>
    \/ focus = "home" /\ HomeNext
       /\ UNCHANGED <<cacheVars, checkoutVars, navVars, panelVars, apiVars,
                      mockVars, chartVars, guideVars, focus>>
    \/ focus = "panel" /\ PanelNext /\ accounts'[p2] # "blocked"
       /\ UNCHANGED <<cacheVars, checkoutVars, navVars, homeVars, apiVars,
                      mockVars, chartVars, guideVars, focus>>
    \/ focus = "api" /\ ApiNext
       /\ UNCHANGED <<cacheVars, checkoutVars, navVars, homeVars, panelVars,
                      mockVars, chartVars, guideVars, focus>>
    \/ focus = "mock" /\ MockNext
       /\ UNCHANGED <<cacheVars, checkoutVars, navVars, homeVars, panelVars,
                      apiVars, chartVars, guideVars, focus>>
    \/ focus = "charts" /\ ChartNext
       /\ UNCHANGED <<cacheVars, checkoutVars, navVars, homeVars, panelVars,
                      apiVars, mockVars, guideVars, focus>>
    \/ focus = "guide" /\ GuideNext
       /\ UNCHANGED <<cacheVars, checkoutVars, navVars, homeVars, panelVars,
                      apiVars, mockVars, chartVars, focus>>

\* What a state is told apart by: the others never change.
Part == CASE focus = "cache" -> <<focus, cacheVars>>
          [] focus = "checkout" -> <<focus, checkoutVars>>
          [] focus = "windows" -> <<focus, navVars>>
          [] focus = "home" -> <<focus, homeVars>>
          [] focus = "panel" -> <<focus, panelVars>>
          [] focus = "api" -> <<focus, apiVars>>
          [] focus = "mock" -> <<focus, mockVars>>
          [] focus = "charts" -> <<focus, chartVars>>
          [] focus = "guide" -> <<focus, guideVars>>

MiniSpec == MiniInit /\ [][MiniNext]_miniVars

(* The type invariants of the modules: among them that a current fetch is    *)
(* the entry's promise and an error never stands beside data (ClientCache),  *)
(* and that Buy is busy exactly while a request of its own is under way      *)
(* (Checkout).                                                               *)
MiniTypeOK ==
    /\ CacheTypeOK /\ CheckoutTypeOK /\ NavTypeOK /\ PanelTypeOK
    /\ ApiTypeOK /\ MockTypeOK /\ ChartTypeOK /\ GuideTypeOK
=============================================================================
