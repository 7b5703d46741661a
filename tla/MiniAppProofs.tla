---------------------------- MODULE MiniAppProofs ----------------------------
(***************************************************************************)
(* Proofs about the modules of the Mini App, for any number of orders,     *)
(* users, calls and cached lists.                                          *)
(***************************************************************************)
EXTENDS ClientCache, Checkout, Navigation, HomeScreen, AdminPanel, ApiClient, TLAPS

-----------------------------------------------------------------------------
(* The home screen.                                                         *)

\* Without a lapse, no profile without access is shown or on its way.
HomeInv ==
    running /\ ~lapsed =>
        /\ access = "active"
        /\ reading \notin {"none", "expired"}
        /\ homeProfile \notin {"none", "expired"}

\* Every step of the home screen keeps its invariant.
LEMMA HomeStep == HomeInv /\ [HomeNext]_homeVars => HomeInv'
  <1> SUFFICES ASSUME HomeInv, [HomeNext]_homeVars PROVE HomeInv'
    OBVIOUS
  <1> USE DEF HomeInv, account, shownNow
  <1>1. CASE ReadProfile
    BY <1>1 DEF ReadProfile
  <1>2. CASE ProfileArrives \/ ProfileLost
    BY <1>2 DEF ProfileArrives, ProfileLost
  <1>3. CASE ConfigsArrive
    BY <1>3 DEF ConfigsArrive
  <1>4. CASE \E answer \in answers : PendingArrives(answer) \/ PendingReread(answer)
    <2>1. UNCHANGED <<running, lapsed, access, reading, homeProfile>>
      BY <1>4 DEF PendingArrives, PendingReread
    <2> QED  BY <2>1
  <1>5. CASE PollPending
    BY <1>5 DEF PollPending, Reread
  <1>6. CASE LaunchApp
    BY <1>6 DEF LaunchApp, Reread, Unread
  <1>7. CASE QuitApp
    BY <1>7 DEF QuitApp
  <1>8. CASE LeaveHome \/ ReturnHome
    <2>1. /\ running /\ running' /\ UNCHANGED <<lapsed, access, homeProfile>>
          /\ reading' \in {reading, "sent"}
      BY <1>8 DEF LeaveHome, ReturnHome
    <2> QED  BY <2>1
  <1>9. CASE EnterKey \/ SubmitKey \/ KeyAnswered \/ CloseKeySheet
    <2>1. /\ UNCHANGED <<running, lapsed, homeProfile>> /\ access' \in {access, "active"}
          /\ reading' \in {reading, "sent"}
      BY <1>9 DEF EnterKey, SubmitKey, KeyAnswered, CloseKeySheet, Reread
    <2> QED  BY <2>1
  <1>10. CASE \E o \in HomeOrders : OrderOpened(o) \/ OrderCredited(o) \/ OrderOver(o)
    <2>1. UNCHANGED <<running, lapsed, reading, homeProfile>> /\ access' \in {access, "active"}
      BY <1>10 DEF OrderOpened, OrderCredited, OrderOver
    <2> QED  BY <2>1
  <1>11. CASE AccessEnds
    BY <1>11 DEF AccessEnds
  <1>12. CASE UNCHANGED homeVars
    BY <1>12 DEF homeVars
  <1> QED
    BY <1>1, <1>2, <1>3, <1>4, <1>5, <1>6, <1>7, <1>8, <1>9, <1>10, <1>11, <1>12 DEF HomeNext

(* A buyer whose access has not lapsed since the launch is never locked out  *)
(* of the configs nor told that access has ended (ConfigsScreen.tsx:103-106), *)
(* for any number of orders.                                                 *)
THEOREM NeverLockedOut == HomeSpec => []PaidNeverLockedOut
  <1>1. HomeInit => HomeInv
    BY DEF HomeInit, HomeInv
  <1>2. HomeInv => PaidNeverLockedOut
    BY DEF HomeInv, PaidNeverLockedOut, HomeView, LockedBy, Denying
  <1> QED  BY <1>1, <1>2, HomeStep, PTL DEF HomeSpec

-----------------------------------------------------------------------------
(* The admin's profile sheet.                                               *)

\* A deletion under way was agreed to.
PanelInv ==
    /\ accounts \in [Profiles -> {"active", "blocked", "gone"}]
    /\ kept \subseteq ProfileDevices
    /\ \A s \in sends : s.what \in {"delete", "device"} =>
          s = [what |-> s.what, on |-> s.on] /\ s \in agreed
    /\ asking.what \in {"delete", "device"} => asking = [what |-> asking.what, on |-> asking.on]
    /\ NothingGoesUnasked

\* What the server carries out was agreed to.
LEMMA ServedAgreed ==
    ASSUME PanelInv, NEW s \in sends, Served(s)
    PROVE  PanelInv'
  <1> USE DEF PanelInv
  <1>1. agreed' = agreed /\ asking' = asking /\ sends' \subseteq sends
    BY DEF Served
  <1>2. CASE s.what \in {"block", "unblock"}
    <2>1. accounts' = [accounts EXCEPT ![s.on] = Toggled(@)] /\ kept' = kept
      BY <1>2 DEF Served
    <2>2. \A p \in Profiles : /\ Toggled(accounts[p]) \in {"active", "blocked", "gone"}
                              /\ Toggled(accounts[p]) = "gone" => accounts[p] = "gone"
      BY DEF Toggled
    <2> QED  BY <1>1, <2>1, <2>2 DEF NothingGoesUnasked
  <1>3. CASE s.what = "delete"
    <2>1. accounts' = [accounts EXCEPT ![s.on] = "gone"] /\ kept' = kept \ DevicesOf(s.on)
      BY <1>3 DEF Served
    <2>2. [what |-> "delete", on |-> s.on] \in agreed
      BY <1>3
    <2> QED  BY <1>1, <2>1, <2>2 DEF NothingGoesUnasked, DevicesOf
  <1>4. CASE s.what = "device"
    <2>1. accounts' = accounts /\ kept' = kept \ {s.on}
      BY <1>4 DEF Served, Deleted
    <2>2. [what |-> "device", on |-> s.on] \in agreed
      BY <1>4
    <2> QED  BY <1>1, <2>1, <2>2 DEF NothingGoesUnasked
  <1>5. CASE s.what \notin {"block", "unblock", "delete", "device"}
    <2>1. accounts' = accounts /\ kept' = kept
      BY <1>5 DEF Served
    <2> QED  BY <1>1, <2>1 DEF NothingGoesUnasked
  <1> QED  BY <1>2, <1>3, <1>4, <1>5

\* Every step of the panel keeps its invariant.
LEMMA PanelStep == PanelInv /\ [PanelNext]_panelVars => PanelInv'
  <1> SUFFICES ASSUME PanelInv, [PanelNext]_panelVars PROVE PanelInv'
    OBVIOUS
  <1> USE DEF PanelInv, NothingGoesUnasked, dataVars, viewVars
  <1>1. CASE RowsArrive \/ \E p \in Profiles : LoadAnswered(p) \/ OpenProfile(p)
    BY <1>1 DEF RowsArrive, LoadAnswered, OpenProfile
  <1>2. CASE \E l \in loads : LoadArrives(l)
    BY <1>2 DEF LoadArrives
  <1>3. CASE CloseProfile \/ OpenInner \/ CloseInner
    BY <1>3 DEF CloseProfile, OpenInner, CloseInner
  <1>4. CASE TapBlock
    <2>1. BlockAct.what \in {"block", "unblock"}
      BY DEF BlockAct
    <2> HIDE DEF NothingGoesUnasked
    <2>2. CASE Ask(BlockAct)
      BY <2>1, <2>2 DEF Ask, NothingGoesUnasked
    <2>3. CASE Send(BlockAct) /\ UNCHANGED <<asking, agreed>>
      BY <2>1, <2>3 DEF Send, NothingGoesUnasked
    <2> QED  BY <1>4, <2>2, <2>3 DEF TapBlock
  <1>5. CASE TapDelete \/ TapDevice
    BY <1>5 DEF TapDelete, TapDevice, Ask
  <1>6. CASE TapKey
    BY <1>6 DEF TapKey, Send
  <1>7. CASE Answered
    BY <1>7 DEF Answered, Send, NoAct
  <1>8. CASE \E s \in sends : Served(s) \/ SendFails(s)
    BY <1>8, ServedAgreed DEF SendFails
  <1>9. CASE UNCHANGED panelVars
    BY <1>9 DEF panelVars
  <1> QED
    BY <1>1, <1>2, <1>3, <1>4, <1>5, <1>6, <1>7, <1>8, <1>9 DEF PanelNext

(* Nothing is deleted that the admin was not asked about                     *)
(* (AdminSheet.tsx:476, 503), for any number of accounts and devices.        *)
THEOREM NothingDeletedUnasked == PanelSpec => []NothingGoesUnasked
  <1>1. PanelInit => PanelInv
    BY DEF PanelInit, PanelInv, NothingGoesUnasked, NoAct
  <1>2. PanelInv => NothingGoesUnasked
    BY DEF PanelInv
  <1> QED  BY <1>1, <1>2, PanelStep, PTL DEF PanelSpec

\* The dialogs and requests of the profile sheet itself stand alone: nothing is open
\* over it while the admin is asked, or while they are under way.
PanelShape ==
    /\ PanelTypeOK
    /\ Overlaid => inner = "none"
    /\ asking.what \in {"block", "unblock", "delete"} => inner = "none"

\* What the handlers and the refetches do to the sheets.
LEMMA PanelSheets ==
    ASSUME PanelShape,
           \/ RowsArrive
           \/ \E p \in Profiles : LoadAnswered(p) \/ OpenProfile(p)
           \/ \E l \in loads : LoadArrives(l)
           \/ CloseProfile \/ OpenInner \/ CloseInner
    PROVE  PanelShape'
  <1> USE DEF PanelShape, PanelTypeOK, dataVars, viewVars
  <1>1. UNCHANGED <<accounts, kept, agreed, asking, sends>> /\ (Overlaid' <=> Overlaid)
    BY DEF RowsArrive, LoadAnswered, OpenProfile, LoadArrives, CloseProfile, OpenInner,
           CloseInner, Overlaid
  <1>2. CASE RowsArrive
    BY <1>1, <1>2 DEF RowsArrive
  <1>3. ASSUME NEW p \in Profiles
        PROVE  [of |-> p, seen |-> DevicesOf(p)] \in Answer
    BY DEF Answer, DevicesOf
  <1>4. CASE \E p \in Profiles : LoadAnswered(p)
    BY <1>1, <1>3, <1>4 DEF LoadAnswered
  <1>5. CASE \E p \in Profiles : OpenProfile(p)
    <2>1. PICK p \in Profiles : OpenProfile(p)
      BY <1>5
    <2>2. profile' \in Row /\ profile'.of = p
      BY <2>1 DEF OpenProfile, Row
    <2>3. loads' \subseteq Answer
      BY <1>3, <2>1 DEF OpenProfile
    <2> QED  BY <1>1, <2>1, <2>2, <2>3 DEF OpenProfile
  <1>6. CASE \E l \in loads : LoadArrives(l)
    <2>1. PICK l \in loads : LoadArrives(l)
      BY <1>6
    <2>2. l.seen \in SUBSET ProfileDevices
      BY DEF Answer
    <2> QED  BY <1>1, <2>1, <2>2 DEF LoadArrives
  <1>7. CASE CloseProfile \/ OpenInner \/ CloseInner
    BY <1>1, <1>7 DEF CloseProfile, OpenInner, CloseInner, Free, NoAct
  <1> QED  BY <1>2, <1>4, <1>5, <1>6, <1>7

\* A request that is made is of the open sheet.
LEMMA PanelAsks ==
    ASSUME PanelShape, TapBlock \/ TapDelete \/ TapDevice \/ TapKey \/ Answered
    PROVE  PanelShape'
  <1> USE DEF PanelShape, PanelTypeOK, dataVars, viewVars
  <1>1. UNCHANGED <<accounts, kept, rows, sheet, profile, inner, devices, loads>>
    BY DEF TapBlock, TapDelete, TapDevice, TapKey, Answered, Ask, Send
  <1>2. ASSUME sheet # Nobody, NEW w \in {"block", "unblock", "delete", "key"}
        PROVE  [what |-> w, on |-> profile.of] \in Act
    BY <1>2 DEF Act, Row
  <1>3. CASE TapBlock
    <2>1. BlockAct \in Act /\ BlockAct.what \in {"block", "unblock"}
      <3>1. BlockAct.what \in {"block", "unblock"} /\ sheet # Nobody
        BY <1>3 DEF BlockAct, TapBlock
      <3> QED  BY <1>2, <3>1 DEF BlockAct
    <2> QED  BY <1>1, <1>3, <2>1 DEF TapBlock, Ask, Send, Overlaid
  <1>4. CASE TapDelete
    BY <1>1, <1>2, <1>4 DEF TapDelete, Ask, Overlaid
  <1>5. CASE TapDevice
    <2>1. PICK d \in devices : Ask([what |-> "device", on |-> d])
      BY <1>5 DEF TapDevice
    <2>2. d \in ProfileDevices
      BY <1>5 DEF TapDevice
    <2>3. [what |-> "device", on |-> d] \in Act
      BY <2>2 DEF Act
    <2> QED  BY <1>1, <2>1, <2>3 DEF Ask, Overlaid
  <1>6. CASE TapKey
    BY <1>1, <1>2, <1>6 DEF TapKey, Send, Overlaid
  <1>7. CASE Answered
    <2>1. asking \in Act /\ asking' = NoAct /\ sends' \subseteq sends \cup {asking}
          /\ agreed' \subseteq agreed \cup {asking}
      BY <1>7 DEF Answered, Send
    <2> QED  BY <1>1, <2>1 DEF Overlaid, NoAct
  <1> QED  BY <1>3, <1>4, <1>5, <1>6, <1>7

\* A sheet that goes with the request it made has nothing over it.
LEMMA PanelServed ==
    ASSUME PanelShape, NEW s \in sends, Served(s) \/ SendFails(s)
    PROVE  PanelShape'
  <1> USE DEF PanelShape, PanelTypeOK, dataVars, viewVars
  <1>1. sends' \subseteq sends /\ UNCHANGED <<rows, profile, loads, asking, agreed>>
    BY DEF Served, SendFails
  <1>2. CASE SendFails(s)
    BY <1>1, <1>2 DEF SendFails, Overlaid
  <1>3. CASE Served(s)
    <2>1. accounts' \in [Profiles -> {"active", "blocked", "gone"}]
      <3>1. \A p \in Profiles : Toggled(accounts[p]) \in {"active", "blocked", "gone"}
        BY DEF Toggled
      <3>2. \/ accounts' = [accounts EXCEPT ![s.on] = Toggled(@)]
            \/ accounts' = [accounts EXCEPT ![s.on] = "gone"]
            \/ accounts' = accounts
        BY <1>3 DEF Served
      <3> QED  BY <3>1, <3>2
    <2>2. kept' \subseteq ProfileDevices
      <3>1. \/ kept' = kept \ {s.on}
            \/ kept' = kept \ DevicesOf(s.on)
            \/ kept' = kept
        BY <1>3 DEF Served, Deleted
      <3> QED  BY <3>1
    <2>3. devices' \in (SUBSET ProfileDevices) \cup {Nobody}
      BY <1>3 DEF Served
    <2>4. inner' \in {inner, "none"}
      BY <1>3 DEF Served
    <2>5. /\ sheet' \in {sheet, Nobody}
          /\ sheet' # sheet => s.what \notin {"device", "key"}
      BY <1>3 DEF Served
    <2>6. inner' # "none" => sheet' # Nobody
      <3>1. sheet' # sheet => inner = "none"
        BY <2>5 DEF Overlaid, Act
      <3> QED  BY <2>4, <3>1
    <2>7. Overlaid' => inner' = "none"
      BY <1>1, <2>4 DEF Overlaid
    <2> QED  BY <1>1, <2>1, <2>2, <2>3, <2>4, <2>5, <2>6, <2>7
  <1> QED  BY <1>2, <1>3

(* The sheets of the panel stay in order, however late its requests come     *)
(* back: a sheet is never left open over a profile that has gone             *)
(* (AdminSheet.tsx:278, 576, 632).                                           *)
THEOREM PanelInOrder == PanelSpec => []PanelTypeOK
  <1>1. PanelInit => PanelShape
    BY DEF PanelInit, PanelShape, PanelTypeOK, Overlaid, NoAct
  <1>2. PanelShape /\ [PanelNext]_panelVars => PanelShape'
    <2> SUFFICES ASSUME PanelShape, [PanelNext]_panelVars PROVE PanelShape'
      OBVIOUS
    <2>1. CASE UNCHANGED panelVars
      BY <2>1 DEF panelVars, PanelShape, PanelTypeOK, Overlaid
    <2> QED  BY <2>1, PanelSheets, PanelAsks, PanelServed DEF PanelNext
  <1>3. PanelShape => PanelTypeOK
    BY DEF PanelShape
  <1> QED  BY <1>1, <1>2, <1>3, PTL DEF PanelSpec

-----------------------------------------------------------------------------
(* The API client.                                                          *)

\* A write that may still be carried out for the first time, or again.
Ahead(c) ==
    \/ call[c].pc \in {"idle", "sent", "reauth"}
    \/ call[c].pc = "reply" /\ ~call[c].auth

\* What was carried out and what may be, against the connections that failed.
WriteInv(c) ==
    served[c] + stray[c] + (IF Ahead(c) THEN 1 ELSE 0) <= 1 + cut[c]

MaxAttempts(c) == IF c \in Reads THEN 3 ELSE 2

\* Attempts so far, by the sign-ins and the retries they belong to.
AttemptInv(c) ==
    /\ call[c].netTries < MaxAttempts(c)
    /\ call[c].pc = "idle" => sent[c] = 0
    /\ call[c].pc = "reauth" => ~call[c].retried
    /\ call[c].pc # "idle" =>
          sent[c] <= (IF call[c].retried THEN MaxAttempts(c) ELSE 0) + call[c].netTries + 1

ApiInv ==
    /\ ApiTypeOK
    /\ \A c \in Updates : WriteInv(c)
    /\ \A c \in Calls : AttemptInv(c)

\* An attempt touches its own call only.
LEMMA AttemptType ==
    ASSUME ApiTypeOK, jwt' \in {"none", "valid", "refused"}, NEW c \in Calls,
           NEW retried \in BOOLEAN, NEW tries \in 0 .. 2, Attempt(c, retried, tries)
    PROVE  /\ call' \in [Calls -> CallState] /\ sent' \in [Calls -> Nat]
           /\ call'[c] = [pc |-> "sent", auth |-> jwt' = "valid",
                          retried |-> retried, netTries |-> tries]
           /\ sent'[c] = sent[c] + 1
           /\ \A d \in Calls \ {c} : call'[d] = call[d] /\ sent'[d] = sent[d]
  <1>1. [pc |-> "sent", auth |-> jwt' = "valid", retried |-> retried, netTries |-> tries]
          \in CallState
    BY DEF CallState
  <1> QED  BY <1>1 DEF Attempt, ApiTypeOK

\* A first attempt sends its call once more and leaves the others alone.
LEMMA FirstAttempt ==
    ASSUME ApiTypeOK, jwt' \in {"none", "valid", "refused"}, NEW c \in Calls,
           Attempt(c, FALSE, 0)
    PROVE  /\ call' \in [Calls -> CallState] /\ sent' \in [Calls -> Nat]
           /\ call'[c] = [pc |-> "sent", auth |-> jwt' = "valid",
                          retried |-> FALSE, netTries |-> 0]
           /\ sent'[c] = sent[c] + 1
           /\ \A d \in Calls \ {c} : call'[d] = call[d] /\ sent'[d] = sent[d]
  <1>1. [pc |-> "sent", auth |-> jwt' = "valid", retried |-> FALSE, netTries |-> 0] \in CallState
    BY DEF CallState
  <1> QED  BY <1>1 DEF Attempt, ApiTypeOK

\* So does the replay after a new sign-in.
LEMMA ReplayAttempt ==
    ASSUME ApiTypeOK, jwt' \in {"none", "valid", "refused"}, NEW c \in Calls,
           Attempt(c, TRUE, 0)
    PROVE  /\ call' \in [Calls -> CallState] /\ sent' \in [Calls -> Nat]
           /\ call'[c] = [pc |-> "sent", auth |-> jwt' = "valid",
                          retried |-> TRUE, netTries |-> 0]
           /\ sent'[c] = sent[c] + 1
           /\ \A d \in Calls \ {c} : call'[d] = call[d] /\ sent'[d] = sent[d]
  <1>1. [pc |-> "sent", auth |-> jwt' = "valid", retried |-> TRUE, netTries |-> 0] \in CallState
    BY DEF CallState
  <1> QED  BY <1>1 DEF Attempt, ApiTypeOK

\* What a step does to one call decides about the invariant of that call alone.
LEMMA OthersKept ==
    ASSUME ApiInv, NEW c \in Calls, ApiTypeOK',
           \A d \in Calls \ {c} : call'[d] = call[d] /\ sent'[d] = sent[d],
           \A d \in Updates \ {c} : /\ served'[d] = served[d] /\ stray'[d] = stray[d]
                                    /\ cut'[d] = cut[d],
           AttemptInv(c)', c \in Updates => WriteInv(c)'
    PROVE  ApiInv'
  BY DEF ApiInv, AttemptInv, WriteInv, Ahead, MaxAttempts, Calls

\* Beginning a call keeps the count of attempts.
LEMMA BeginStep ==
    ASSUME ApiInv, NEW c \in Calls, Begin(c)
    PROVE  ApiInv'
  <1>0. ApiTypeOK /\ jwt' \in {"none", "valid", "refused"} /\ Attempt(c, FALSE, 0)
    BY DEF Begin, ApiInv, ApiTypeOK
  <1>1. /\ call' \in [Calls -> CallState] /\ sent' \in [Calls -> Nat]
        /\ call'[c] = [pc |-> "sent", auth |-> jwt' = "valid",
                       retried |-> FALSE, netTries |-> 0]
        /\ sent'[c] = sent[c] + 1
        /\ \A d \in Calls \ {c} : call'[d] = call[d] /\ sent'[d] = sent[d]
    BY <1>0, FirstAttempt
  <1>2. ApiTypeOK'
    BY <1>1 DEF Begin, ApiInv, ApiTypeOK
  <1>3. AttemptInv(c)'
    BY <1>1 DEF Begin, ApiInv, AttemptInv, MaxAttempts
  <1>4. c \in Updates => WriteInv(c)'
    BY <1>1 DEF Begin, ApiInv, WriteInv, Ahead
  <1> QED  BY <1>1, <1>2, <1>3, <1>4, OthersKept DEF Begin

\* The server may carry out what arrives.
LEMMA ServeStep ==
    ASSUME ApiInv, NEW c \in Calls, Serve(c)
    PROVE  ApiInv'
  <1> USE DEF ApiInv, ApiTypeOK
  <1>1. [call[c] EXCEPT !.pc = "reply"] \in CallState
    BY DEF CallState
  <1>2. call' = [call EXCEPT ![c] = [call[c] EXCEPT !.pc = "reply"]]
    BY DEF Serve
  <1>3. ApiTypeOK'
    BY <1>1, <1>2 DEF Serve
  <1>4. /\ call'[c].pc = "reply" /\ call'[c].auth = call[c].auth
        /\ call'[c].retried = call[c].retried /\ call'[c].netTries = call[c].netTries
        /\ call[c].pc = "sent"
    BY <1>2 DEF Serve, CallState
  <1>5. AttemptInv(c)'
    BY <1>4 DEF Serve, AttemptInv, MaxAttempts
  <1>6. c \in Updates => WriteInv(c)'
    BY <1>4 DEF Serve, WriteInv, Ahead
  <1>7. \A d \in Calls \ {c} : call'[d] = call[d]
    BY <1>2
  <1> QED  BY <1>3, <1>5, <1>6, <1>7, OthersKept DEF Serve

\* A failed connection is retried as often as the code allows.
LEMMA RejectedStep ==
    ASSUME ApiInv, NEW c \in Calls, NEW code \in {"NETWORK", "TIMEOUT"}, Rejected(c, code)
    PROVE  ApiInv'
  <1> USE DEF ApiInv, ApiTypeOK
  <1>1. PICK out \in (IF c \in Updates THEN BOOLEAN ELSE {FALSE}) :
          /\ stray' = IF out /\ call[c].pc = "sent" /\ call[c].auth
                      THEN [stray EXCEPT ![c] = @ + 1] ELSE stray
          /\ cut' = IF c \in Updates /\ code = "NETWORK" /\ (out \/ call[c].pc = "reply")
                    THEN [cut EXCEPT ![c] = @ + 1] ELSE cut
    BY DEF Rejected
  <1>2. stray' \in [Updates -> Nat] /\ cut' \in [Updates -> Nat]
    <2>1. stray \in [Updates -> Nat] /\ cut \in [Updates -> Nat]
      OBVIOUS
    <2>2. CASE c \in Updates
      BY <1>1, <2>1, <2>2
    <2>3. CASE c \notin Updates
      BY <1>1, <2>1, <2>3
    <2> QED  BY <2>2, <2>3
  <1>3. jwt' = jwt /\ served' = served /\ call[c].pc \in {"sent", "reply"}
    BY DEF Rejected
  <1>4. \A d \in Updates \ {c} : stray'[d] = stray[d] /\ cut'[d] = cut[d]
    BY <1>1
  <1>5. CASE MayResend(c, code) /\ Attempt(c, call[c].retried, call[c].netTries + 1)
    <2>1. call[c].retried \in BOOLEAN /\ call[c].netTries + 1 \in 0 .. 2
             /\ call[c].netTries + 1 < MaxAttempts(c)
             /\ (c \in Updates => code = "NETWORK")
      BY <1>5, ApiConstants DEF MayResend, MaxAttempts, CallState
    <2>2. /\ call' \in [Calls -> CallState] /\ sent' \in [Calls -> Nat]
          /\ call'[c] = [pc |-> "sent", auth |-> jwt' = "valid",
                         retried |-> call[c].retried, netTries |-> call[c].netTries + 1]
          /\ sent'[c] = sent[c] + 1
          /\ \A d \in Calls \ {c} : call'[d] = call[d] /\ sent'[d] = sent[d]
      BY <1>3, <1>5, <2>1, AttemptType
    <2>3. ApiTypeOK'
      BY <1>2, <1>3, <2>2
    <2>4. AttemptInv(c)'
      BY <1>3, <2>1, <2>2 DEF AttemptInv, MaxAttempts, CallState
    <2>5. c \in Updates => WriteInv(c)'
      BY <1>1, <1>3, <2>1, <2>2 DEF WriteInv, Ahead
    <2> QED  BY <1>3, <1>4, <2>2, <2>3, <2>4, <2>5, OthersKept
  <1>6. CASE ~MayResend(c, code) /\ call' = [call EXCEPT ![c].pc = "failed"] /\ sent' = sent
    <2>1. [call[c] EXCEPT !.pc = "failed"] \in CallState
      BY DEF CallState
    <2>2. call' = [call EXCEPT ![c] = [call[c] EXCEPT !.pc = "failed"]]
      BY <1>6
    <2>3. ApiTypeOK'
      BY <1>2, <1>3, <1>6, <2>1, <2>2
    <2>4. /\ call'[c].pc = "failed" /\ call'[c].retried = call[c].retried
          /\ call'[c].netTries = call[c].netTries
      BY <2>2 DEF CallState
    <2>5. AttemptInv(c)'
      BY <1>3, <1>6, <2>4 DEF AttemptInv, MaxAttempts
    <2>6. c \in Updates => WriteInv(c)'
      BY <1>1, <1>3, <2>4 DEF WriteInv, Ahead
    <2>7. \A d \in Calls \ {c} : call'[d] = call[d]
      BY <2>2
    <2> QED  BY <1>3, <1>4, <1>6, <2>3, <2>5, <2>6, <2>7, OthersKept
  <1> QED  BY <1>5, <1>6 DEF Rejected

\* An answer, a refused token or a failed sign-in.
LEMMA ReplyStep ==
    ASSUME ApiInv, NEW c \in Calls, Replied(c) \/ Refused(c) \/ ReauthFails(c)
    PROVE  ApiInv'
  <1> USE DEF ApiInv, ApiTypeOK
  <1>1. PICK pc \in {"done", "failed", "reauth"} :
          /\ call' = [call EXCEPT ![c] = [call[c] EXCEPT !.pc = pc]]
          /\ pc = "reauth" => call[c].pc = "reply" /\ ~call[c].auth /\ ~call[c].retried
          /\ call[c].pc \in {"reply", "reauth"}
    BY DEF Replied, Refused, ReauthFails
  <1>2. [call[c] EXCEPT !.pc = pc] \in CallState
    BY DEF CallState
  <1>3. UNCHANGED <<jwt, sent, stray, served, cut>>
    BY DEF Replied, Refused, ReauthFails
  <1>4. ApiTypeOK'
    BY <1>1, <1>2, <1>3
  <1>5. /\ call'[c].pc = pc /\ call'[c].retried = call[c].retried
        /\ call'[c].netTries = call[c].netTries /\ call'[c].auth = call[c].auth
    BY <1>1 DEF CallState
  <1>6. AttemptInv(c)'
    BY <1>1, <1>3, <1>5 DEF AttemptInv, MaxAttempts
  <1>7. c \in Updates => WriteInv(c)'
    BY <1>1, <1>3, <1>5 DEF WriteInv, Ahead
  <1>8. \A d \in Calls \ {c} : call'[d] = call[d]
    BY <1>1
  <1> QED  BY <1>3, <1>4, <1>6, <1>7, <1>8, OthersKept

\* A renewed token lets a call be made once more.
LEMMA ReauthedStep ==
    ASSUME ApiInv, NEW c \in Calls, Reauthed(c)
    PROVE  ApiInv'
  <1>0. ApiTypeOK /\ jwt' \in {"none", "valid", "refused"} /\ Attempt(c, TRUE, 0)
    BY DEF Reauthed, ReplayOnce, ApiInv
  <1>1. /\ call' \in [Calls -> CallState] /\ sent' \in [Calls -> Nat]
        /\ call'[c] = [pc |-> "sent", auth |-> jwt' = "valid",
                       retried |-> TRUE, netTries |-> 0]
        /\ sent'[c] = sent[c] + 1
        /\ \A d \in Calls \ {c} : call'[d] = call[d] /\ sent'[d] = sent[d]
    BY <1>0, ReplayAttempt
  <1> USE DEF ApiInv, ApiTypeOK
  <1>2. ApiTypeOK'
    BY <1>1 DEF Reauthed
  <1>3. AttemptInv(c)'
    BY <1>1 DEF Reauthed, AttemptInv, MaxAttempts, CallState
  <1>4. c \in Updates => WriteInv(c)'
    BY <1>1 DEF Reauthed, WriteInv, Ahead
  <1> QED  BY <1>1, <1>2, <1>3, <1>4, OthersKept DEF Reauthed

\* A request whose connection failed may still be carried out.
LEMMA StrayStep ==
    ASSUME ApiInv, NEW c \in Updates, ServeStray(c)
    PROVE  ApiInv'
  <1> USE DEF ApiInv, ApiTypeOK
  <1>1. c \in Calls
    BY DEF Calls
  <1>2. ApiTypeOK'
    BY DEF ServeStray
  <1>3. AttemptInv(c)' /\ WriteInv(c)'
    BY <1>1 DEF ServeStray, AttemptInv, WriteInv, Ahead, MaxAttempts
  <1> QED  BY <1>1, <1>2, <1>3, OthersKept DEF ServeStray

\* The inductive invariant of the API client.
LEMMA ApiInvariant == ApiSpec => []ApiInv
  <1>1. ApiInit => ApiInv
    <2>1. NoCall \in CallState
      BY DEF NoCall, CallState
    <2> QED
      BY <2>1 DEF ApiInit, ApiInv, ApiTypeOK, WriteInv, Ahead, AttemptInv, MaxAttempts,
                  NoCall, Calls
  <1>2. ApiInv /\ [ApiNext]_apiVars => ApiInv'
    <2> SUFFICES ASSUME ApiInv, [ApiNext]_apiVars PROVE ApiInv'
      OBVIOUS
    <2>1. CASE SessionChanges
      BY <2>1 DEF SessionChanges, ApiInv, ApiTypeOK, WriteInv, Ahead, AttemptInv, MaxAttempts
    <2>2. CASE UNCHANGED apiVars
      BY <2>2 DEF apiVars, ApiInv, ApiTypeOK, WriteInv, Ahead, AttemptInv, MaxAttempts
    <2> QED
      BY <2>1, <2>2, BeginStep, ServeStep, RejectedStep, ReplyStep, ReauthedStep, StrayStep
         DEF ApiNext
  <1> QED  BY <1>1, <1>2, PTL DEF ApiSpec

(* A call holds its progress and nobody else's, and the counts of what was   *)
(* sent, carried out and cut off stay numbers (client.ts:86-117).            *)
THEOREM CallsInOrder == ApiSpec => []ApiTypeOK
  <1>1. ApiInv => ApiTypeOK
    BY DEF ApiInv
  <1> QED  BY <1>1, ApiInvariant, PTL

(* A write is carried out more often than asked only after a connection that *)
(* failed once the request was out (client.ts:107-117), for any number of    *)
(* calls and of token changes.                                               *)
THEOREM WritesRepeatedOnlyByLoss == ApiSpec => []RepeatedOnlyByLoss
  <1>1. ApiInv => RepeatedOnlyByLoss
    BY DEF ApiInv, ApiTypeOK, WriteInv, RepeatedOnlyByLoss
  <1> QED  BY <1>1, ApiInvariant, PTL

(* A call makes at most two attempts of a write and three of a GET, and as   *)
(* many again after its one silent sign-in (client.ts:44-49, 80-117).         *)
THEOREM CallsEnd == ApiSpec => []AttemptsBounded
  <1>1. ApiInv => AttemptsBounded
    BY DEF ApiInv, ApiTypeOK, AttemptInv, MaxAttempts, AttemptsBounded, CallState
  <1> QED  BY <1>1, ApiInvariant, PTL
-----------------------------------------------------------------------------
(* The payment screen.                                                      *)

\* What a purchase with Stars compares with was true of an earlier moment, and
\* whoever knows of a paid order knows of a credit.
CreditKnown ==
    /\ stars \in [pc: {"idle", "invoice", "paid"}, base: Nat \cup {None}, owed: BOOLEAN]
    /\ stars.base # None => stars.base <= credits /\ (HadSub \/ stars.base > 0)
    /\ \A o \in OrderIds : orders[o].status = "paid" => credits > 0
    /\ \A t \in ticks : t.seen = "paid" => credits > 0

\* Buy pays one way at a time.
OneWay == creating.pc = "idle" \/ stars.pc = "idle"

CheckoutInv == CheckoutTypeOK /\ OneWay /\ CreditKnown /\ ScreenWatched /\ DoneIsTrue

\* What is polled is an order or nothing.
LEMMA PollOfType ==
    ASSUME CheckoutTypeOK, NEW s, NEW o \in OrderIds \cup {None}
    PROVE  PollOf(s, o) \in OrderIds \cup {None}
  BY DEF PollOf, CheckoutTypeOK

\* A change of the step or the order restarts the interval.
LEMMA GoToStep ==
    ASSUME CheckoutTypeOK, ScreenWatched, NEW s \in {"select", "pay", "done"},
           NEW o \in OrderIds \cup {None}, GoTo(s, o)
    PROVE  /\ ScreenWatched'
           /\ step' = s /\ order' = o /\ poll' \in OrderIds \cup {None}
           /\ UNCHANGED <<shown, plans, choice>>
  <1>1. poll' \in OrderIds \cup {None}
    BY PollOfType DEF GoTo
  <1>2. ScreenWatched'
    BY DEF GoTo, PollOf, ScreenWatched, PayView
  <1> QED  BY <1>1, <1>2 DEF GoTo

\* Taps that choose what to buy, and what they show.
LEMMA ScreenStep ==
    ASSUME CheckoutInv, Show \/ Hide \/ PlansAnswer \/ Choose
    PROVE  CheckoutInv'
  <1> USE DEF CheckoutInv, payVars, walletVars, backendVars
  <1>1. UNCHANGED <<ticks, busy, creating, wallet, stars, backendVars>>
        /\ tapped' \in {tapped, None}
    BY DEF Show, Hide, PlansAnswer, Choose, WalletButton, walletVars
  <1>2. CreditKnown' /\ OneWay'
    BY <1>1 DEF CreditKnown, OneWay
  <1>3. CASE Show
    <2>1. PollOf("select", None) \in OrderIds \cup {None}
      BY PollOfType
    <2>2. CheckoutTypeOK'
      BY <1>1, <1>3, <2>1, CheckoutConstants DEF Show, CheckoutTypeOK
    <2>3. ScreenWatched' /\ DoneIsTrue'
      BY <1>3 DEF Show, ScreenWatched, PayView, DoneIsTrue, DoneView
    <2> QED  BY <1>2, <2>2, <2>3
  <1>4. CASE Hide \/ PlansAnswer \/ Choose
    <2>1. UNCHANGED <<step, order, poll>>
      BY <1>4 DEF Hide, PlansAnswer, Choose
    <2>2. /\ choice' \in [asset: Assets \cup {None}, days: PlanDays]
          /\ shown' \in BOOLEAN /\ plans' \in {"loading", "failed", "ready"}
      <3>1. CASE Hide
        BY <3>1 DEF Hide, CheckoutTypeOK
      <3>2. CASE PlansAnswer
        BY <3>2 DEF PlansAnswer, CheckoutTypeOK
      <3>3. CASE Choose
        BY <3>3 DEF Choose, CheckoutTypeOK
      <3> QED  BY <1>4, <3>1, <3>2, <3>3
    <2>3. CheckoutTypeOK'
      BY <1>1, <2>1, <2>2 DEF CheckoutTypeOK
    <2>4. ScreenWatched' /\ DoneIsTrue'
      BY <1>1, <2>1 DEF ScreenWatched, PayView, DoneIsTrue, DoneView
    <2> QED  BY <1>2, <2>3, <2>4
  <1> QED  BY <1>3, <1>4

\* The screen moves to another step or order; requests and data stay.
LEMMA MoveStep ==
    ASSUME CheckoutInv, BackToPlans \/ \E o \in OrderIds : ResumeOrder(o)
    PROVE  CheckoutInv'
  <1> USE DEF CheckoutInv, payVars, walletVars, backendVars
  <1>1. UNCHANGED <<ticks, payVars, backendVars>>
    BY DEF BackToPlans, ResumeOrder
  <1>2. PICK s \in {"select", "pay"}, o \in OrderIds \cup {None} : GoTo(s, o)
    BY DEF BackToPlans, ResumeOrder, CheckoutTypeOK
  <1>3. /\ ScreenWatched'
        /\ step' = s /\ order' = o /\ poll' \in OrderIds \cup {None}
        /\ UNCHANGED <<shown, plans, choice>>
    BY <1>2, GoToStep
  <1>4. CheckoutTypeOK'
    BY <1>1, <1>3 DEF CheckoutTypeOK
  <1>5. CreditKnown' /\ OneWay' /\ DoneIsTrue'
    BY <1>1, <1>3 DEF CreditKnown, OneWay, DoneIsTrue, DoneView
  <1> QED  BY <1>3, <1>4, <1>5

\* The Buy button and its order.
LEMMA BuyStep ==
    ASSUME CheckoutInv, StartPay \/ StartPayFails
    PROVE  CheckoutInv'
  <1> USE DEF CheckoutInv, screenVars, walletVars, backendVars
  <1>1. UNCHANGED <<screenVars, ticks, walletVars, stars, backendVars>>
    BY DEF StartPay, StartPayFails
  <1>2. creating' \in Request /\ (busy' <=> creating'.pc # "idle" \/ stars'.pc # "idle")
        /\ busy' \in BOOLEAN /\ OneWay'
    <2>1. CASE StartPay
      BY <2>1 DEF StartPay, CheckoutTypeOK, Request, OneWay
    <2>2. CASE StartPayFails
      BY <2>2 DEF StartPayFails, CheckoutTypeOK, Request, NoRequest, OneWay
    <2> QED  BY <2>1, <2>2
  <1>3. CheckoutTypeOK'
    BY <1>1, <1>2 DEF CheckoutTypeOK
  <1>4. CreditKnown' /\ ScreenWatched' /\ DoneIsTrue'
    BY <1>1 DEF CreditKnown, ScreenWatched, PayView, DoneIsTrue, DoneView
  <1> QED  BY <1>2, <1>3, <1>4

\* A request creates its order: only a new order is pending.
LEMMA InsertOrderStep ==
    ASSUME CheckoutTypeOK, CreditKnown, NEW o \in OrderIds, NEW a \in Assets \cup {None},
           NEW d \in PlanDays \cup {0}, InsertOrder(o, a, d)
    PROVE  /\ orders' \in [OrderIds -> Order] /\ credits' = credits
           /\ \A p \in OrderIds : orders'[p].status = "paid" => credits > 0
  <1>1. [status |-> "pending", asset |-> a, days |-> d] \in Order
    BY DEF Order
  <1> QED  BY <1>1 DEF InsertOrder, CheckoutTypeOK, CreditKnown

\* An order is made for the Buy button.
LEMMA MadeStep ==
    ASSUME CheckoutInv, NEW o \in OrderIds, OrderMade(o)
    PROVE  CheckoutInv'
  <1> USE DEF CheckoutInv, screenVars, walletVars
  <1>1. creating \in Request /\ creating.pc = "sent" /\ InsertOrder(o, creating.asset, creating.days)
    BY DEF OrderMade, CheckoutTypeOK
  <1>2. /\ orders' \in [OrderIds -> Order] /\ credits' = credits
        /\ \A p \in OrderIds : orders'[p].status = "paid" => credits > 0
    BY <1>1, InsertOrderStep DEF Request
  <1>3. creating' \in Request /\ creating'.pc = "made"
    BY <1>1 DEF OrderMade, Request
  <1>4. UNCHANGED <<screenVars, ticks, busy, walletVars, stars>>
    BY DEF OrderMade
  <1>5. CheckoutTypeOK'
    BY <1>1, <1>2, <1>3, <1>4 DEF CheckoutTypeOK
  <1>6. CreditKnown' /\ OneWay'
    BY <1>1, <1>2, <1>3, <1>4 DEF CreditKnown, OneWay
  <1>7. ScreenWatched' /\ DoneIsTrue'
    BY <1>2, <1>4 DEF ScreenWatched, PayView, DoneIsTrue, DoneView
  <1> QED  BY <1>5, <1>6, <1>7

\* What a step may do to the requests of the wallet button: they stay requests,
\* and the button on screen waits for one that is under way.
WalletKept ==
    /\ wallet' \in [Taps -> Request] /\ tapped' \in Taps \cup {None}
    /\ tapped' # None => wallet'[tapped'].pc # "idle"

\* An order is made for the wallet button.
LEMMA WalletMadeStep ==
    ASSUME CheckoutInv, NEW r \in Taps, NEW o \in OrderIds, WalletOrderMade(r, o)
    PROVE  CheckoutInv'
  <1> USE DEF CheckoutInv, screenVars
  <1>1. wallet[r] \in Request /\ wallet[r].pc = "sent"
        /\ InsertOrder(o, wallet[r].asset, wallet[r].days)
    BY DEF WalletOrderMade, CheckoutTypeOK
  <1>2. /\ orders' \in [OrderIds -> Order] /\ credits' = credits
        /\ \A p \in OrderIds : orders'[p].status = "paid" => credits > 0
    BY <1>1, InsertOrderStep DEF Request
  <1>3. WalletKept
    BY <1>1 DEF WalletOrderMade, Request, WalletKept, CheckoutTypeOK
  <1>4. UNCHANGED <<screenVars, ticks, busy, creating, stars>>
    BY DEF WalletOrderMade
  <1>5. CheckoutTypeOK'
    BY <1>2, <1>3, <1>4 DEF CheckoutTypeOK, WalletKept
  <1>6. CreditKnown' /\ OneWay'
    BY <1>2, <1>4 DEF CreditKnown, OneWay
  <1>7. ScreenWatched' /\ DoneIsTrue'
    BY <1>2, <1>4 DEF ScreenWatched, PayView, DoneIsTrue, DoneView
  <1> QED  BY <1>5, <1>6, <1>7

\* An answer brings its order to the pay screen.
LEMMA ArriveStep ==
    ASSUME CheckoutInv,
           StartPayDone \/ \E r \in Taps : WalletOrderArrives(r) \/ WalletSigned(r)
    PROVE  CheckoutInv'
  <1> USE DEF CheckoutInv, backendVars, walletVars
  <1>1. UNCHANGED <<ticks, stars, backendVars>>
    BY DEF StartPayDone, WalletOrderArrives, WalletSigned
  <1>2. PICK s \in {step, "pay"}, o \in OrderIds \cup {None} : GoTo(s, o)
    BY DEF StartPayDone, WalletOrderArrives, WalletSigned, CheckoutTypeOK, Request
  <1>3. s \in {"select", "pay", "done"}
    BY <1>2 DEF CheckoutTypeOK
  <1>4. /\ ScreenWatched'
        /\ step' = s /\ order' = o /\ poll' \in OrderIds \cup {None}
        /\ UNCHANGED <<shown, plans, choice>>
    BY <1>2, <1>3, GoToStep
  <1>5. /\ creating' \in Request /\ WalletKept /\ busy' \in BOOLEAN /\ OneWay'
        /\ busy' <=> creating'.pc # "idle" \/ stars'.pc # "idle"
    <2>1. CASE StartPayDone
      BY <2>1, <1>1 DEF StartPayDone, NoRequest, Request, CheckoutTypeOK, OneWay, WalletKept
    <2>2. CASE \E r \in Taps : WalletOrderArrives(r) \/ WalletSigned(r)
      <3>1. UNCHANGED <<busy, creating, stars>>
        BY <2>2 DEF WalletOrderArrives, WalletSigned
      <3>2. WalletKept
        BY <2>2, CheckoutConstants
           DEF WalletOrderArrives, WalletSigned, WalletDone, NoRequest, Request,
               CheckoutTypeOK, WalletKept
      <3> QED  BY <3>1, <3>2 DEF CheckoutTypeOK, OneWay
    <2> QED  BY <2>1, <2>2
  <1>6. CheckoutTypeOK'
    BY <1>1, <1>3, <1>4, <1>5 DEF CheckoutTypeOK, WalletKept
  <1>7. CreditKnown' /\ DoneIsTrue'
    BY <1>1, <1>2, <1>4 DEF CreditKnown, DoneIsTrue, DoneView
  <1> QED  BY <1>4, <1>5, <1>6, <1>7

\* The wallet button is tapped, or its request fails.
LEMMA WalletStep ==
    ASSUME CheckoutInv, NEW r \in Taps, WalletPay(r) \/ WalletFails(r)
    PROVE  CheckoutInv'
  <1> USE DEF CheckoutInv, screenVars, backendVars
  <1>1. UNCHANGED <<screenVars, ticks, busy, creating, stars, backendVars>>
    BY DEF WalletPay, WalletFails
  <1>2. WalletKept
    BY CheckoutConstants
       DEF WalletPay, WalletFails, WalletDone, WalletOrder, NoRequest, Request,
           CheckoutTypeOK, WalletKept
  <1>3. CheckoutTypeOK'
    BY <1>1, <1>2 DEF CheckoutTypeOK, WalletKept
  <1> QED
    BY <1>1, <1>3 DEF OneWay, CreditKnown, ScreenWatched, PayView, DoneIsTrue, DoneView

\* Telegram Stars: the baseline is a paid_until, and paid_until only moves on.
LEMMA PayStarsStep ==
    ASSUME CheckoutInv, PayStars
    PROVE  CheckoutInv'
  <1> USE DEF CheckoutInv, screenVars, walletVars, backendVars
  <1>1. UNCHANGED <<screenVars, ticks, creating, walletVars, backendVars>> /\ busy' = TRUE
        /\ ~busy /\ step = "select"
    BY DEF PayStars, BuyOn, Choosing
  <1>2. PICK base \in {PaidUntil, None} :
          stars' = [stars EXCEPT !.pc = "invoice", !.base = base]
    BY DEF PayStars
  <1>3. PaidUntil # None => PaidUntil = credits /\ (HadSub \/ credits > 0)
    BY DEF PaidUntil, CheckoutTypeOK
  <1>4. base \in Nat \cup {None} /\ (base # None => base <= credits /\ (HadSub \/ base > 0))
    BY <1>2, <1>3 DEF CheckoutTypeOK
  <1>5. /\ stars' \in [pc: {"idle", "invoice", "paid"}, base: Nat \cup {None}, owed: BOOLEAN]
        /\ stars'.pc = "invoice" /\ stars'.base = base
    BY <1>2, <1>4 DEF CreditKnown
  <1>6. CheckoutTypeOK' /\ OneWay'
    BY <1>1, <1>5 DEF CheckoutTypeOK, OneWay
  <1>7. CreditKnown'
    BY <1>1, <1>4, <1>5 DEF CreditKnown
  <1>8. ScreenWatched' /\ DoneIsTrue'
    BY <1>1 DEF ScreenWatched, PayView, DoneIsTrue, DoneView
  <1> QED  BY <1>6, <1>7, <1>8

\* A purchase with Stars succeeds only by a credit.
LEMMA StarsStep ==
    ASSUME CheckoutInv, StarsPaid \/ StarsCredited \/ StarsEnd
    PROVE  CheckoutInv'
  <1> USE DEF CheckoutInv, screenVars, walletVars, backendVars
  <1>1. UNCHANGED <<screenVars, ticks, creating, walletVars, orders>>
    BY DEF StarsPaid, StarsCredited, StarsEnd
  <1>2. credits' \in Nat /\ credits' >= credits
    BY DEF StarsPaid, StarsCredited, StarsEnd, CheckoutTypeOK
  <1>3. /\ stars' \in [pc: {"idle", "invoice", "paid"}, base: Nat \cup {None}, owed: BOOLEAN]
        /\ stars'.base = stars.base
        /\ stars'.pc # "idle" => stars.pc # "idle"
    BY DEF StarsPaid, StarsCredited, StarsEnd, CreditKnown
  <1>4. busy' \in BOOLEAN /\ (busy' <=> creating'.pc # "idle" \/ stars'.pc # "idle")
    <2>1. CASE StarsEnd
      BY <1>1, <2>1 DEF StarsEnd, OneWay, CreditKnown
    <2>2. CASE StarsPaid \/ StarsCredited
      <3>1. busy' = busy /\ creating' = creating /\ (stars'.pc = "idle" <=> stars.pc = "idle")
        BY <1>1, <2>2 DEF StarsPaid, StarsCredited, CreditKnown
      <3> QED  BY <3>1 DEF CheckoutTypeOK
    <2> QED  BY <2>1, <2>2
  <1>5. CheckoutTypeOK' /\ OneWay'
    BY <1>1, <1>2, <1>3, <1>4 DEF CheckoutTypeOK, OneWay
  <1>6. CreditKnown'
    BY <1>1, <1>2, <1>3 DEF CreditKnown, CheckoutTypeOK
  <1>7. ScreenWatched' /\ DoneIsTrue'
    BY <1>1, <1>2, <1>3 DEF ScreenWatched, PayView, DoneIsTrue, DoneView, CheckoutTypeOK
  <1> QED  BY <1>5, <1>6, <1>7

\* paid_until differs from what it was: it moved, or nobody knew what it was.
LEMMA ConfirmedStep ==
    ASSUME CheckoutInv, StarsConfirmed
    PROVE  CheckoutInv'
  <1> USE DEF CheckoutInv, walletVars, backendVars
  <1>1. UNCHANGED <<ticks, creating, walletVars, backendVars>> /\ busy' = FALSE
        /\ stars.pc = "paid" /\ PaidUntil # stars.base /\ GoTo("done", order)
    BY DEF StarsConfirmed
  <1>2. /\ ScreenWatched'
        /\ step' = "done" /\ order' = order /\ poll' \in OrderIds \cup {None}
        /\ UNCHANGED <<shown, plans, choice>>
    BY <1>1, GoToStep DEF CheckoutTypeOK
  <1>3. /\ stars' \in [pc: {"idle", "invoice", "paid"}, base: Nat \cup {None}, owed: BOOLEAN]
        /\ stars'.base = stars.base /\ stars'.pc = "idle"
    BY DEF StarsConfirmed, CreditKnown
  <1>4. creating.pc = "idle"
    BY <1>1 DEF OneWay
  <1>5. CheckoutTypeOK' /\ OneWay'
    BY <1>1, <1>2, <1>3, <1>4 DEF CheckoutTypeOK, OneWay
  <1>6. CreditKnown'
    BY <1>1, <1>3 DEF CreditKnown
  <1>7. credits > 0 \/ (stars.base = None /\ HadSub)
    <2>1. CASE stars.base = None
      BY <1>1, <2>1 DEF PaidUntil, CheckoutTypeOK
    <2>2. CASE stars.base # None
      BY <1>1, <2>2 DEF PaidUntil, CheckoutTypeOK, CreditKnown
    <2> QED  BY <2>1, <2>2
  <1>8. DoneIsTrue'
    BY <1>1, <1>3, <1>7 DEF DoneIsTrue
  <1> QED  BY <1>2, <1>5, <1>6, <1>8

\* The orders the screen and its requests name are there.
Exists(o) == o # None => orders[o].status # "absent"

OrdersExist ==
    /\ Exists(order) /\ Exists(poll)
    /\ creating.pc = "made" => Exists(creating.order)
    /\ \A r \in Taps : wallet[r].pc = "made" => Exists(wallet[r].order)

\* No order goes away.
LEMMA OrdersStay ==
    ASSUME CheckoutTypeOK, CheckoutNext, NEW o \in OrderIds, orders[o].status # "absent"
    PROVE  orders'[o].status # "absent"
  <1> USE DEF CheckoutTypeOK
  <1>1. CASE \E p \in OrderIds : OrderMade(p) \/ \E r \in Taps : WalletOrderMade(r, p)
    BY <1>1 DEF OrderMade, WalletOrderMade, InsertOrder
  <1>2. CASE \E p \in OrderIds : OrderPaid(p) \/ OrderExpires(p)
    <2>1. PICK p \in OrderIds, st \in {"paid", "expired"} :
            orders' = [orders EXCEPT ![p] = [orders[p] EXCEPT !.status = st]]
      BY <1>2 DEF OrderPaid, OrderExpires
    <2> QED  BY <2>1 DEF Order
  <1>3. CASE UNCHANGED orders
    BY <1>3
  <1>4. CASE \/ Show \/ Hide \/ PlansAnswer \/ Choose \/ BackToPlans
             \/ \E p \in OrderIds : ResumeOrder(p)
    BY <1>3, <1>4 DEF Show, Hide, PlansAnswer, Choose, BackToPlans, ResumeOrder, backendVars
  <1>5. CASE \/ StartPay \/ StartPayDone \/ StartPayFails
             \/ \E r \in Taps : \/ WalletPay(r) \/ WalletOrderArrives(r)
                                \/ WalletSigned(r) \/ WalletFails(r)
    BY <1>3, <1>5
       DEF StartPay, StartPayDone, StartPayFails, WalletPay, WalletOrderArrives,
           WalletSigned, WalletFails, backendVars
  <1>6. CASE PayStars \/ StarsPaid \/ StarsCredited \/ StarsConfirmed \/ StarsEnd
    <2>1. UNCHANGED backendVars \/ UNCHANGED orders
      BY <1>6, Zenon DEF PayStars, StarsPaid, StarsCredited, StarsConfirmed, StarsEnd
    <2> QED  BY <1>3, <2>1 DEF backendVars
  <1>7. CASE TickAnswered \/ \E t \in ticks : TickArrives(t)
    BY <1>3, <1>7 DEF TickAnswered, TickArrives, backendVars
  <1> QED  BY <1>1, <1>2, <1>4, <1>5, <1>6, <1>7 DEF CheckoutNext

\* What the screen knows of orders, they exist.
LEMMA ExistStep ==
    ASSUME CheckoutTypeOK, OrdersExist, CheckoutNext
    PROVE  OrdersExist'
  <1> DEFINE Later(o) == o # None => orders'[o].status # "absent"
             Fewer    == \A r \in Taps : wallet'[r] = wallet[r] \/ wallet'[r].pc # "made"
  <1>1. \A o \in OrderIds \cup {None} : Exists(o) => Later(o)
    BY OrdersStay DEF Exists
  <1>2. order \in OrderIds \cup {None} /\ poll \in OrderIds \cup {None}
        /\ creating \in Request /\ wallet \in [Taps -> Request]
    BY DEF CheckoutTypeOK
  <1>3. \A r \in Taps : wallet[r].order \in OrderIds \cup {None}
    BY <1>2 DEF Request
  <1>4. Fewer => \A r \in Taps : wallet'[r].pc = "made" => Later(wallet'[r].order)
    BY <1>1, <1>3 DEF OrdersExist
  <1>5. wallet' = wallet => Fewer
    OBVIOUS
  <1>41. /\ Later(order') /\ Later(poll') /\ Fewer
         /\ creating'.pc = "made" => Later(creating'.order)
         => OrdersExist'
    BY <1>4 DEF OrdersExist, Exists
  <1> USE DEF OrdersExist
  <1> HIDE DEF Fewer
  <1>6. CASE UNCHANGED <<order, poll, creating, wallet>>
    BY <1>1, <1>2, <1>41, <1>5, <1>6 DEF Request
  <1>7. ASSUME NEW s, NEW o \in OrderIds \cup {None}, GoTo(s, o), Exists(o),
               creating' \in {creating, NoRequest}, Fewer
        PROVE  OrdersExist'
    <2>1. order' = o /\ poll' \in {poll, None, o}
      BY <1>7 DEF GoTo, PollOf
    <2>2. Later(order') /\ Later(poll')
      BY <1>1, <1>2, <1>7, <2>1 DEF Exists
    <2>3. creating'.pc = "made" => Later(creating'.order)
      BY <1>1, <1>2, <1>7 DEF NoRequest, Request
    <2> QED  BY <1>41, <1>7, <2>2, <2>3
  <1>8. CASE Show
    <2>1. order' = None /\ poll' \in {poll, None}
      BY <1>8 DEF Show, PollOf
    <2>2. creating' = creating /\ wallet' = wallet
      BY <1>8 DEF Show
    <2> QED  BY <1>1, <1>2, <1>41, <1>5, <2>1, <2>2 DEF Exists, Request
  <1>9. CASE BackToPlans \/ \E o \in OrderIds : ResumeOrder(o)
    <2>1. PICK s \in {"select", "pay"}, o \in OrderIds \cup {None} : GoTo(s, o) /\ Exists(o)
      BY <1>2, <1>9 DEF BackToPlans, ResumeOrder, Exists
    <2>2. creating' = creating /\ wallet' = wallet
      BY <1>9 DEF BackToPlans, ResumeOrder, payVars, walletVars
    <2> QED  BY <1>5, <1>7, <2>1, <2>2
  <1>10. CASE StartPay \/ StartPayFails
    <2>1. /\ order' = order /\ poll' = poll /\ wallet' = wallet /\ creating'.pc # "made"
      BY <1>10 DEF StartPay, StartPayFails, NoRequest, screenVars, walletVars
    <2> QED  BY <1>1, <1>2, <1>41, <1>5, <2>1
  <1>11. CASE \E r \in Taps : WalletPay(r) \/ WalletFails(r)
    <2>1. order' = order /\ poll' = poll /\ creating' = creating /\ Fewer
      BY <1>2, <1>11
         DEF WalletPay, WalletFails, WalletDone, WalletOrder, NoRequest, screenVars, Fewer
    <2> QED  BY <1>1, <1>2, <1>41, <2>1 DEF Request
  <1>12. CASE \E o \in OrderIds : OrderMade(o)
    <2>1. PICK o \in OrderIds : OrderMade(o)
      BY <1>12
    <2>2. orders'[o].status # "absent"
      BY <2>1 DEF OrderMade, InsertOrder, CheckoutTypeOK
    <2>3. creating'.order = o
      BY <1>2, <2>1 DEF OrderMade, Request
    <2>4. UNCHANGED <<order, poll, wallet>>
      BY <2>1 DEF OrderMade, screenVars, walletVars
    <2> QED  BY <1>1, <1>2, <1>41, <1>5, <2>2, <2>3, <2>4 DEF Exists, Request
  <1>13. CASE \E r \in Taps, o \in OrderIds : WalletOrderMade(r, o)
    <2>1. PICK r \in Taps, o \in OrderIds : WalletOrderMade(r, o)
      BY <1>13
    <2>2. orders'[o].status # "absent"
      BY <2>1 DEF WalletOrderMade, InsertOrder, CheckoutTypeOK
    <2>3. \A q \in Taps : wallet'[q].order = o \/ wallet'[q] = wallet[q]
      BY <1>2, <2>1 DEF WalletOrderMade, Request
    <2>4. UNCHANGED <<order, poll, creating>>
      BY <2>1 DEF WalletOrderMade, screenVars
    <2>5. \A q \in Taps : wallet'[q].pc = "made" => Later(wallet'[q].order)
      BY <1>1, <1>3, <2>2, <2>3 DEF Exists
    <2> QED  BY <1>1, <1>2, <2>4, <2>5 DEF Exists, Request
  <1>14. CASE StartPayDone
    BY <1>2, <1>5, <1>7, <1>14 DEF StartPayDone, Request, walletVars
  <1>15. CASE \E r \in Taps : WalletOrderArrives(r)
    <2>1. PICK r \in Taps : WalletOrderArrives(r)
      BY <1>15
    <2>2. Exists(wallet[r].order) /\ GoTo(step, wallet[r].order) /\ creating' = creating
      BY <2>1 DEF WalletOrderArrives
    <2>3. Fewer
      BY <1>2, <2>1 DEF WalletOrderArrives, Request, Fewer
    <2> QED  BY <1>3, <1>7, <2>2, <2>3
  <1>16. CASE StarsConfirmed \/ (\E t \in ticks : TickArrives(t)) \/ \E r \in Taps : WalletSigned(r)
    <2>1. PICK s : GoTo(s, order)
      BY <1>16 DEF WalletSigned, StarsConfirmed, TickArrives
    <2>2. creating' = creating /\ Fewer
      BY <1>2, <1>16
         DEF WalletSigned, WalletDone, NoRequest, StarsConfirmed, TickArrives, payVars,
             walletVars, Fewer
    <2> QED  BY <1>2, <1>7, <2>1, <2>2
  <1>17. CASE \/ Hide \/ PlansAnswer \/ Choose \/ PayStars \/ StarsPaid \/ StarsCredited
              \/ StarsEnd \/ TickAnswered \/ \E o \in OrderIds : OrderPaid(o) \/ OrderExpires(o)
    <2> USE DEF screenVars, payVars, walletVars
    <2>1. CASE Hide \/ PlansAnswer \/ Choose
      BY <1>6, <2>1 DEF Hide, PlansAnswer, Choose
    <2>2. CASE PayStars \/ StarsPaid \/ StarsCredited \/ StarsEnd
      <3>1. UNCHANGED screenVars /\ UNCHANGED creating /\ UNCHANGED walletVars
        BY <2>2, Zenon DEF PayStars, StarsPaid, StarsCredited, StarsEnd
      <3> QED  BY <1>6, <3>1
    <2>3. CASE TickAnswered \/ \E o \in OrderIds : OrderPaid(o) \/ OrderExpires(o)
      BY <1>6, <2>3 DEF TickAnswered, OrderPaid, OrderExpires
    <2> QED  BY <1>17, <2>1, <2>2, <2>3
  <1> QED
    BY <1>8, <1>9, <1>10, <1>11, <1>12, <1>13, <1>14, <1>15, <1>16, <1>17 DEF CheckoutNext

\* Polling.
LEMMA TickStep ==
    ASSUME CheckoutInv, OrdersExist, TickAnswered \/ \E t \in ticks : TickArrives(t)
    PROVE  CheckoutInv'
  <1> USE DEF CheckoutInv, payVars, walletVars, backendVars
  <1>1. CASE TickAnswered
    <2>1. UNCHANGED <<screenVars, payVars, backendVars>> /\ poll \in OrderIds
      BY <1>1 DEF TickAnswered, CheckoutTypeOK
    <2>2. PICK seen \in {orders[poll].status, "lost"} \ {"pending"} :
            ticks' = ticks \cup {[order |-> poll, seen |-> seen]}
      BY <1>1 DEF TickAnswered
    <2>3. seen \in {"paid", "expired", "lost"} /\ (seen = "paid" => credits > 0)
      BY <2>1, <2>2, CheckoutConstants DEF OrdersExist, Exists, CheckoutTypeOK, Order, CreditKnown
    <2>4. CheckoutTypeOK' /\ OneWay'
      BY <2>1, <2>2, <2>3 DEF CheckoutTypeOK, OneWay, screenVars
    <2>5. CreditKnown'
      BY <2>1, <2>2, <2>3 DEF CreditKnown
    <2>6. ScreenWatched' /\ DoneIsTrue'
      BY <2>1 DEF ScreenWatched, PayView, DoneIsTrue, DoneView, screenVars
    <2> QED  BY <2>4, <2>5, <2>6
  <1>2. CASE \E t \in ticks : TickArrives(t)
    <2>1. PICK t \in ticks : TickArrives(t)
      BY <1>2
    <2>2. t.seen \in {"paid", "expired", "lost"} /\ (t.seen = "paid" => credits > 0)
      BY DEF CheckoutTypeOK, CreditKnown
    <2>3. Outcome[t.seen] \in {"select", "done"} /\ (Outcome[t.seen] = "done" => credits > 0)
      BY <2>2 DEF Outcome
    <2>4. UNCHANGED <<payVars, backendVars>> /\ ticks' \subseteq ticks /\ GoTo(Outcome[t.seen], order)
      BY <2>1 DEF TickArrives
    <2>5. /\ ScreenWatched'
          /\ step' = Outcome[t.seen] /\ order' = order /\ poll' \in OrderIds \cup {None}
          /\ UNCHANGED <<shown, plans, choice>>
      BY <2>3, <2>4, GoToStep DEF CheckoutTypeOK
    <2>6. CheckoutTypeOK' /\ OneWay'
      BY <2>3, <2>4, <2>5 DEF CheckoutTypeOK, OneWay
    <2>7. CreditKnown' /\ DoneIsTrue'
      BY <2>3, <2>4, <2>5 DEF CreditKnown, DoneIsTrue, DoneView
    <2> QED  BY <2>5, <2>6, <2>7
  <1> QED  BY <1>1, <1>2

\* The backend settles an order.
LEMMA SettleStep ==
    ASSUME CheckoutInv, NEW o \in OrderIds, OrderPaid(o) \/ OrderExpires(o)
    PROVE  CheckoutInv'
  <1> USE DEF CheckoutInv, screenVars, payVars, walletVars
  <1>1. UNCHANGED <<screenVars, ticks, payVars>>
    BY DEF OrderPaid, OrderExpires
  <1>2. PICK st \in {"paid", "expired"} :
          /\ orders' = [orders EXCEPT ![o] = [orders[o] EXCEPT !.status = st]]
          /\ st = "paid" => credits' = credits + 1
          /\ credits' \in {credits, credits + 1}
    BY DEF OrderPaid, OrderExpires
  <1>3. [orders[o] EXCEPT !.status = st] \in Order
    BY DEF CheckoutTypeOK, Order
  <1>4. credits' \in Nat /\ credits' >= credits
    BY <1>2 DEF CheckoutTypeOK
  <1>5. CheckoutTypeOK' /\ OneWay'
    BY <1>1, <1>2, <1>3, <1>4 DEF CheckoutTypeOK, OneWay
  <1>6. \A p \in OrderIds : orders'[p].status = "paid" => credits' > 0
    BY <1>2, <1>4 DEF CheckoutTypeOK, CreditKnown, Order
  <1>7. CreditKnown'
    BY <1>1, <1>4, <1>6 DEF CreditKnown, CheckoutTypeOK
  <1>8. ScreenWatched' /\ DoneIsTrue'
    BY <1>1, <1>4 DEF ScreenWatched, PayView, DoneIsTrue, DoneView, CheckoutTypeOK
  <1> QED  BY <1>5, <1>7, <1>8

\* The inductive invariant of the payment screen.
LEMMA CheckoutInvariant == CheckoutSpec => [](CheckoutInv /\ OrdersExist)
  <1>1. CheckoutInit => CheckoutInv /\ OrdersExist
    <2> SUFFICES ASSUME CheckoutInit PROVE CheckoutInv /\ OrdersExist
      OBVIOUS
    <2>1. CheckoutTypeOK
      BY CheckoutConstants
         DEF CheckoutInit, CheckoutTypeOK, NoRequest, Request, NoOrder, Order
    <2>2. CreditKnown
      BY DEF CheckoutInit, CreditKnown, NoOrder
    <2>3. OneWay /\ ScreenWatched /\ DoneIsTrue
      BY DEF CheckoutInit, OneWay, NoRequest, ScreenWatched, PayView, DoneIsTrue, DoneView
    <2>4. OrdersExist
      BY DEF CheckoutInit, OrdersExist, Exists, NoRequest
    <2> QED  BY <2>1, <2>2, <2>3, <2>4 DEF CheckoutInv
  <1>2. CheckoutInv /\ OrdersExist /\ [CheckoutNext]_checkoutVars => (CheckoutInv /\ OrdersExist)'
    <2> SUFFICES ASSUME CheckoutInv, OrdersExist, [CheckoutNext]_checkoutVars
                 PROVE  (CheckoutInv /\ OrdersExist)'
      OBVIOUS
    <2>1. CASE UNCHANGED checkoutVars
      BY <2>1 DEF checkoutVars, screenVars, payVars, walletVars, backendVars, CheckoutInv, CheckoutTypeOK,
                  OneWay, CreditKnown, ScreenWatched, PayView, DoneIsTrue, DoneView,
                  OrdersExist, Exists
    <2>2. CASE CheckoutNext
      <3>1. CheckoutInv'
        BY <2>2, ScreenStep, MoveStep, BuyStep, MadeStep, WalletMadeStep, ArriveStep, WalletStep, PayStarsStep,
           StarsStep, ConfirmedStep, TickStep, SettleStep DEF CheckoutNext
      <3>2. OrdersExist'
        BY <2>2, ExistStep DEF CheckoutInv
      <3> QED  BY <3>1, <3>2
    <2> QED  BY <2>1, <2>2
  <1> QED  BY <1>1, <1>2, PTL DEF CheckoutSpec

(* Buy is busy exactly while a request of its own is under way, whichever of *)
(* them comes back first (SubscribeSheet.tsx:68, 602).                       *)
THEOREM BusyMeansUnderWay == CheckoutSpec => []CheckoutTypeOK
  <1>1. CheckoutInv => CheckoutTypeOK
    BY DEF CheckoutInv
  <1> QED  BY <1>1, CheckoutInvariant, PTL

(* While the pay screen shows an order, that order is the one asked about    *)
(* (SubscribeSheet.tsx:140), whatever answers arrive late.                   *)
THEOREM OrderOnScreenWatched == CheckoutSpec => []ScreenWatched
  <1>1. CheckoutInv => ScreenWatched
    BY DEF CheckoutInv
  <1> QED  BY <1>1, CheckoutInvariant, PTL

(* "Done" is shown only after a credit, or after a Stars purchase that began *)
(* without a baseline (SubscribeSheet.tsx:249).                              *)
THEOREM DoneAfterCredit == CheckoutSpec => []DoneIsTrue
  <1>1. CheckoutInv => DoneIsTrue
    BY DEF CheckoutInv
  <1> QED  BY <1>1, CheckoutInvariant, PTL

-----------------------------------------------------------------------------
(* Reloads.                                                                 *)

\* Each guard in sessionStorage has let one reload through at most.
Once(guard) == IF guard THEN 1 ELSE 0

ReloadsInv ==
    /\ reloaded \in BOOLEAN /\ updated \in BOOLEAN
    /\ reloads \in Nat /\ reloads <= Once(reloaded) + Once(updated)

\* A reload uses up one of the two guards.
LEMMA ReloadsStep ==
    ASSUME ReloadsInv, [NavNext]_navVars
    PROVE  /\ ReloadsInv'
           /\ reloads' # reloads => reloads < 2 /\ ~(ready /\ visible)
  <1> USE DEF ReloadsInv, Once
  <1>1. CASE ChunkMissing
    BY <1>1 DEF ChunkMissing, Reload
  <1>2. CASE UpdateFound
    BY <1>2 DEF UpdateFound, Reload
  <1>3. CASE UNCHANGED <<reloaded, updated, reloads>>
    BY <1>3
  <1>4. ASSUME NEW m \in Modals,
               Open(m) \/ ReopenClosing(m) \/ Close(m) \/ ExitEnds(m) \/ Render(m)
        PROVE  UNCHANGED <<reloaded, updated, reloads>>
    BY <1>4 DEF Open, ReopenClosing, Close, ExitEnds, Render, bootVars
  <1> QED
    BY <1>1, <1>2, <1>3, <1>4
       DEF NavNext, SignIn, SignOut, Background, SelectTab, GoSubscription, PressBack,
           PressEscape, GoHome, navVars, bootVars

(* A stale build is replaced at most twice in a session, and never under the *)
(* eyes of the user (main.tsx:18-52).                                        *)
THEOREM NoReloadLoop == NavSpec => ReloadsEnd
  <1>1. NavInit => ReloadsInv
    <2>1. Once(FALSE) + Once(FALSE) = 0
      BY DEF Once
    <2> SUFFICES ASSUME NavInit PROVE ReloadsInv
      OBVIOUS
    <2>2. reloaded = FALSE /\ updated = FALSE /\ reloads = 0
      BY DEF NavInit
    <2>3. Once(reloaded) + Once(updated) = 0
      BY <2>1, <2>2, Zenon
    <2>4. reloads \in Nat /\ reloads <= Once(reloaded) + Once(updated)
      BY <2>2, <2>3
    <2> QED  BY <2>2, <2>4, Zenon DEF ReloadsInv
  <1>2. ReloadsInv /\ [NavNext]_navVars =>
          ReloadsInv' /\ [reloads' # reloads => reloads < 2 /\ ~(ready /\ visible)]_navVars
    <2> SUFFICES ASSUME ReloadsInv, [NavNext]_navVars
                 PROVE  ReloadsInv' /\ (reloads' # reloads => reloads < 2 /\ ~(ready /\ visible))
      OBVIOUS
    <2> QED  BY ReloadsStep
  <1> QED  BY <1>1, <1>2, PTL DEF NavSpec, ReloadsEnd

-----------------------------------------------------------------------------
(* The shared data.                                                         *)

\* An entry of user u: its own data, and a fetch that ends in data or an error
\* when there is nothing to show.
Mine(e, u) ==
    /\ e \in Entry
    /\ e.data # Nothing => e.data.of = u
    /\ e.fetch.got # Nothing => e.fetch.got.of = u
    /\ e.error => e.data = Nothing
    /\ e.fetch.current \/ e.fetch.got # Nothing => e.fetch.pending
    /\ e.fetch.pending /\ ~e.fetch.current => e.data # Nothing

\* A view of the entry has something to show, or will have.
Fed(e) == e.data = Nothing /\ ~e.error => e.fetch.current

\* So it is for every view that reads the entry, with a skeleton or without.
AllFed == \A k \in Keys : Active(open, k) => Fed(entry[k])

OwnDisk == \A u \in Users, k \in Keys : disk[u][k] # Nothing => disk[u][k].of = u

Signed ==
    /\ phase = "main" => token = user /\ "app" \in open
    /\ phase # "main" => open = {} /\ \A k \in Keys : entry[k] = NoEntry

CacheInv ==
    /\ StoreTypeOK /\ OwnDisk /\ Signed
    /\ \A k \in Keys : Mine(entry[k], user)
    /\ AllFed

\* Values and fetches as records.
LEMMA NothingNoValue == Nothing \notin Values
  BY CacheConstants DEF Values

\* An empty entry is anybody's.
LEMMA MineNew == ASSUME NEW u \in Users PROVE Mine(NoEntry, u)
  BY DEF Mine, NoEntry, NoFetch, Entry, Fetch

\* An entry from the disk is of the user whose disk it is.
LEMMA MineSeeded ==
    ASSUME StoreTypeOK, OwnDisk, NEW u \in Users, NEW k \in Keys
    PROVE  Mine(Seeded(u, k), u)
  <1> DEFINE d == IF k \in Persisted THEN disk[u][k] ELSE Nothing
  <1>1. d \in Values \cup {Nothing} /\ (d # Nothing => d.of = u)
    <2>1. disk[u][k] \in Values \cup {Nothing}
      BY DEF StoreTypeOK
    <2>2. disk[u][k] # Nothing => disk[u][k].of = u
      BY DEF OwnDisk
    <2>3. CASE k \in Persisted
      <3>1. d = disk[u][k]
        BY <2>3
      <3> HIDE DEF d
      <3> QED  BY <2>1, <2>2, <3>1
    <2>4. CASE k \notin Persisted
      BY <2>4
    <2> QED  BY <2>3, <2>4
  <1>2. Seeded(u, k) = [NoEntry EXCEPT !.data = d]
    BY DEF Seeded
  <1> HIDE DEF d
  <1>3. Seeded(u, k) = [data |-> d, error |-> FALSE, recent |-> FALSE, fetch |-> NoFetch]
    BY <1>2 DEF NoEntry
  <1> QED  BY <1>1, <1>3 DEF Mine, NoFetch, Entry, Fetch

\* A forced refresh keeps an entry its user's, with a fetch.
LEMMA MineForced ==
    ASSUME NEW u \in Users, NEW e, Mine(e, u)
    PROVE  Mine(Forced(e), u) /\ Fed(Forced(e))
  BY DEF Mine, Forced, Fed, Started, Entry, Fetch

\* So does a revalidation.
LEMMA MineRevalidated ==
    ASSUME NEW u \in Users, NEW e, Mine(e, u)
    PROVE  Mine(Revalidated(e), u) /\ Fed(Revalidated(e))
  BY DEF Mine, Revalidated, Fed, Started, Entry, Fetch

\* An invalidation keeps it its user's, and fetches when it is shown.
LEMMA MineInvalidated ==
    ASSUME NEW u \in Users, NEW e, Mine(e, u), NEW active \in BOOLEAN
    PROVE  /\ Mine(Invalidated(e, active), u)
           /\ Fed(e) \/ active => Fed(Invalidated(e, active))
  <1> DEFINE stale == [e EXCEPT !.recent = FALSE]
  <1>1. Mine(stale, u) /\ (Fed(e) => Fed(stale))
    BY DEF Mine, Fed, Entry
  <1> QED  BY <1>1, MineForced DEF Invalidated

\* An optimistic change keeps it its user's.
LEMMA MineMutated ==
    ASSUME NEW u \in Users, NEW e, Mine(e, u), NEW w \in Writes
    PROVE  Mine(Mutated(e, w), u) /\ (Fed(e) => Fed(Mutated(e, w)))
  <1>1. CASE e.data = Nothing
    BY <1>1 DEF Mutated
  <1>2. CASE e.data # Nothing
    <2>1. e.data \in Values /\ e \in Entry
      BY <1>2 DEF Mine, Entry
    <2> DEFINE d == [e.data EXCEPT !.has = @ \cup {w}]
               f == [e.fetch EXCEPT !.current = FALSE]
               m == Mutated(e, w)
    <2>2. d \in Values /\ d.of = e.data.of
      BY <2>1 DEF Values
    <2>3. f \in Fetch /\ f.current = FALSE /\ f.got = e.fetch.got /\ f.pending = e.fetch.pending
      BY <2>1 DEF Entry, Fetch
    <2>4. m = [data |-> d, error |-> e.error, recent |-> e.recent, fetch |-> f]
      BY <1>2, <2>1 DEF Mutated, Entry
    <2>5. d # Nothing
      BY <2>2, NothingNoValue
    <2> HIDE DEF d, f, m
    <2>6. m \in Entry
      BY <2>1, <2>2, <2>3, <2>4 DEF Entry
    <2>7. Mine(m, u) /\ Fed(m)
      BY <1>2, <2>1, <2>2, <2>3, <2>4, <2>5, <2>6 DEF Mine, Fed
    <2> QED  BY <2>7 DEF m
  <1> QED  BY <1>1, <1>2

\* An answer is of the user who asked.
LEMMA MineCommitted ==
    ASSUME NEW u \in Users, NEW e, Mine(e, u), e.fetch.got # Nothing
    PROVE  Mine(Committed(e), u) /\ Fed(Committed(e))
  BY DEF Mine, Committed, Fed, NoFetch, Entry, Fetch

\* A failed fetch leaves an error.
LEMMA MineFailed ==
    ASSUME NEW u \in Users, NEW e, Mine(e, u), e.fetch.pending
    PROVE  Mine(Failed(e), u) /\ Fed(Failed(e))
  BY DEF Mine, Failed, Fed, NoFetch, Entry, Fetch

\* Changing entries one by one, the session as it is.
LEMMA ChangeStep ==
    ASSUME CacheInv, NEW ks, NEW new, NEW raised, Change(ks, new, raised),
           UNCHANGED <<signIn, server>>,
           open' \subseteq {"app"} \cup CacheTabs \cup OverSheets,
           phase = "main" => "app" \in open',
           phase # "main" => open' = {} /\ \A k \in Keys : k \in ks => new[k] = NoEntry,
           \A k \in Keys : k \in ks => Mine(new[k], user),
           \A k \in Keys : Active(open', k) => IF k \in ks THEN Fed(new[k]) ELSE Active(open, k),
           write' \in [Writes -> [pc: {"idle", "open", "done", "failed"}, sameStore: BOOLEAN]]
    PROVE  CacheInv'
  <1> USE DEF CacheInv
  <1>1. \A k \in Keys : entry'[k] = IF k \in ks THEN new[k] ELSE entry[k]
    BY DEF Change
  <1>2. \A k \in Keys : Mine(entry'[k], user)
    BY <1>1
  <1>3. entry' \in [Keys -> Entry]
    BY <1>2 DEF Change, Mine
  <1>4. UNCHANGED <<phase, user, token, disk, server>>
    BY DEF signIn
  <1>5. floor' \in [Keys -> SUBSET Writes]
    BY DEF Change, StoreTypeOK
  <1>6. StoreTypeOK'
    BY <1>2, <1>3, <1>4, <1>5 DEF StoreTypeOK, Mine
  <1>7. OwnDisk' /\ Signed'
    BY <1>1, <1>4 DEF OwnDisk, Signed
  <1>8. AllFed'
    <2> SUFFICES ASSUME NEW k \in Keys, Active(open', k) PROVE Fed(entry'[k])
      BY DEF AllFed, Fed
    <2> QED  BY <1>1 DEF AllFed, Fed
  <1>9. \A k \in Keys : Mine(entry[k], user)'
    BY <1>2, <1>4 DEF Mine
  <1> QED  BY <1>6, <1>7, <1>8, <1>9

\* Signing in and out, launching and closing: a store that is new or empty.
LEMMA SessionStep ==
    ASSUME CacheInv, \/ \E u \in Users : Launch(u)
                     \/ Login \/ LoginFails \/ Logout \/ OldFetchEnds \/ CloseApp
    PROVE  CacheInv'
  <1> USE DEF CacheInv
  <1>1. CASE \E u \in Users : Launch(u)
    <2>1. PICK u \in Users : Launch(u)
      BY <1>1
    <2>2. /\ phase # "main" /\ phase' \in {"auth", "loading"} /\ user' = u
          /\ UNCHANGED <<token, open, entry, disk, server, write, floor>>
      BY <2>1 DEF Launch
    <2>3. Mine(NoEntry, u)
      BY MineNew
    <2>4. Signed' /\ \A k \in Keys : Mine(entry[k], user)'
      BY <2>2, <2>3 DEF Signed, Mine
    <2>5. StoreTypeOK' /\ OwnDisk' /\ AllFed'
      BY <2>2 DEF StoreTypeOK, OwnDisk, AllFed
    <2> QED  BY <2>4, <2>5
  <1>2. CASE Login
    <2>1. /\ phase' = "main" /\ token' = user /\ open' = {"app", "home"}
          /\ floor' = [k \in Keys |-> {}]
          /\ UNCHANGED <<user, disk, server, write>>
      BY <1>2 DEF Login
    <2>2. \A k \in Keys : /\ Mine(entry'[k], user)
                          /\ Active(open', k) => Fed(entry'[k])
      <3> TAKE k \in Keys
      <3>1. Mine(Seeded(user, k), user)
        BY MineSeeded DEF StoreTypeOK
      <3>2. Mine(Revalidated(Seeded(user, k)), user) /\ Fed(Revalidated(Seeded(user, k)))
        BY <3>1, MineRevalidated DEF StoreTypeOK
      <3>3. entry'[k] = IF Active(open', k) THEN Revalidated(Seeded(user, k)) ELSE Seeded(user, k)
        BY <1>2, <2>1 DEF Login
      <3> QED  BY <3>1, <3>2, <3>3
    <2>3. entry' \in [Keys -> Entry]
      <3>1. entry' = [k \in Keys |-> entry'[k]]
        BY <1>2 DEF Login
      <3> QED  BY <2>2, <3>1 DEF Mine
    <2>4. StoreTypeOK'
      <3>1. floor' \in [Keys -> SUBSET Writes]
        BY <2>1
      <3>2. open' \subseteq {"app"} \cup CacheTabs \cup OverSheets
        BY <2>1 DEF CacheTabs
      <3> QED  BY <2>1, <2>2, <2>3, <3>1, <3>2 DEF StoreTypeOK, Mine
    <2>5. OwnDisk' /\ Signed'
      BY <2>1 DEF OwnDisk, Signed
    <2>6. AllFed' /\ \A k \in Keys : Mine(entry[k], user)'
      BY <2>1, <2>2 DEF AllFed, Fed, Mine
    <2> QED  BY <2>4, <2>5, <2>6
  <1>3. CASE LoginFails
    <2>1. /\ phase # "main" /\ phase' = "auth"
          /\ UNCHANGED <<user, token, open, entry, disk, server, write, floor>>
      BY <1>3 DEF LoginFails
    <2> QED  BY <2>1 DEF StoreTypeOK, OwnDisk, Signed, AllFed, Mine
  <1>4. CASE Logout \/ CloseApp
    <2>1. /\ phase' \in {"auth", "closed"} /\ open' = {} /\ entry' = [k \in Keys |-> NoEntry]
          /\ token' \in {token, user, Nothing}
          /\ UNCHANGED <<user, server, floor>>
      BY <1>4 DEF Logout, CloseApp
    <2>2. /\ disk' \in [Users -> [Keys -> Values \cup {Nothing}]]
          /\ \A u \in Users, k \in Keys : disk'[u][k] # Nothing => disk'[u][k].of = u
      <3>1. CASE Logout
        <4>1. disk' = [u \in Users |-> [k \in Keys |-> Nothing]]
          BY <3>1 DEF Logout
        <4> QED  BY <4>1
      <3>2. CASE CloseApp
        <4> DEFINE storedNow == [k \in Keys |-> IF phase = "main" /\ k \in Persisted
                                                THEN entry[k].data ELSE disk[user][k]]
        <4>1. \A k \in Keys : /\ storedNow[k] \in Values \cup {Nothing}
                              /\ storedNow[k] # Nothing => storedNow[k].of = user
          BY DEF StoreTypeOK, OwnDisk, Mine, Entry
        <4>2. /\ disk' = [disk EXCEPT ![user] = storedNow]
              /\ storedNow \in [Keys -> Values \cup {Nothing}]
          BY <3>2, <4>1 DEF CloseApp
        <4> HIDE DEF storedNow
        <4> QED  BY <4>1, <4>2 DEF StoreTypeOK, OwnDisk
      <3> QED  BY <1>4, <3>1, <3>2
    <2>3. write' \in [Writes -> [pc: {"idle", "open", "done", "failed"}, sameStore: BOOLEAN]]
      <3> DEFINE Progress == [pc: {"idle", "open", "done", "failed"}, sameStore: BOOLEAN]
      <3>1. \A w \in Writes : write'[w] \in Progress
        <4> TAKE w \in Writes
        <4>1. write[w] \in Progress
          BY DEF StoreTypeOK
        <4>2. CASE Logout
          BY <4>1, <4>2 DEF Logout
        <4>3. CASE CloseApp
          BY <4>1, <4>3 DEF CloseApp
        <4> QED  BY <1>4, <4>2, <4>3
      <3>2. write' = [w \in Writes |-> write'[w]]
        BY <1>4 DEF Logout, CloseApp
      <3> HIDE DEF Progress
      <3>3. write' \in [Writes -> Progress]
        BY <3>1, <3>2
      <3> QED  BY <3>3 DEF Progress
    <2>4. Mine(NoEntry, user) /\ NoEntry \in Entry
      BY MineNew DEF StoreTypeOK, Mine
    <2>5. StoreTypeOK'
      BY <2>1, <2>2, <2>3, <2>4 DEF StoreTypeOK, Mine
    <2>6. OwnDisk' /\ Signed' /\ AllFed' /\ \A k \in Keys : Mine(entry[k], user)'
      BY <2>1, <2>2, <2>4 DEF OwnDisk, Signed, AllFed, Active, Mine
    <2> QED  BY <2>5, <2>6
  <1>5. CASE OldFetchEnds
    BY <1>5 DEF OldFetchEnds, signIn, StoreTypeOK, OwnDisk, Signed, AllFed, Mine
  <1> QED  BY <1>1, <1>2, <1>3, <1>4, <1>5

\* Opening, closing and refreshing views.
LEMMA RevalidateStep ==
    ASSUME CacheInv, OpenDevices \/ OpenAccount \/ ShowTab
    PROVE  CacheInv'
  <1> USE DEF session
  <1> DEFINE new == [k \in Keys |-> Revalidated(entry[k])]
  <1>1. \A k \in Keys : Mine(new[k], user) /\ Fed(new[k])
    BY MineRevalidated DEF CacheInv, StoreTypeOK
  <1>2. PICK ks : /\ Change(ks, new, {})
                  /\ \A k \in Keys : Active(open', k) => k \in ks \/ Active(open, k)
    <2>1. CASE OpenDevices
      <3>1. Change(ViewKeys["deviceSheet"], new, {}) /\ open' = open \cup {"deviceSheet"}
        BY <2>1 DEF OpenDevices
      <3> HIDE DEF new
      <3> QED  BY <3>1 DEF Active
    <2>2. CASE OpenAccount
      <3>1. Change(ViewKeys["account"], new, {}) /\ open' = open \cup {"account"}
        BY <2>2 DEF OpenAccount
      <3> HIDE DEF new
      <3> QED  BY <3>1 DEF Active
    <2>3. CASE ShowTab
      <3>1. PICK t : /\ open' = {"app"} \cup (CacheTabs \cap {t})
                     /\ Change(UNION {ViewKeys[v] : v \in CacheTabs \cap {t}}, new, {})
        BY <2>3 DEF ShowTab
      <3>2. "app" \in open
        BY <2>3 DEF ShowTab, CacheInv, Signed
      <3> HIDE DEF new
      <3> QED  BY <3>1, <3>2 DEF Active
    <2> QED  BY <2>1, <2>2, <2>3
  <1>3. /\ phase = "main" /\ UNCHANGED <<signIn, server, write>>
        /\ open' \subseteq {"app"} \cup CacheTabs \cup OverSheets /\ "app" \in open'
    BY DEF OpenDevices, OpenAccount, ShowTab, CacheInv, StoreTypeOK, Signed, CacheTabs, OverSheets
  <1>4. write' \in [Writes -> [pc: {"idle", "open", "done", "failed"}, sameStore: BOOLEAN]]
    BY <1>3 DEF CacheInv, StoreTypeOK
  <1> HIDE DEF new
  <1> QED  BY <1>1, <1>2, <1>3, <1>4, ChangeStep

\* Invalidating keys, with the views of afterwards.
LEMMA InvalidateStep ==
    ASSUME CacheInv, NEW ks, InvalidateAll(ks, open'),
           UNCHANGED <<signIn, server>>,
           open' \subseteq {"app"} \cup CacheTabs \cup OverSheets,
           phase = "main" => "app" \in open',
           phase # "main" => open' = {},
           \A k \in Keys : Active(open', k) => k \in ks \/ Active(open, k),
           write' \in [Writes -> [pc: {"idle", "open", "done", "failed"}, sameStore: BOOLEAN]]
    PROVE  CacheInv'
  <1> DEFINE new == [k \in Keys |-> Invalidated(entry[k], Active(open', k))]
             raised == {k \in ks : Active(open', k)}
  <1>1. Change(ks, new, raised)
    BY DEF InvalidateAll
  <1>2. \A k \in Keys : Mine(new[k], user) /\ (Active(open', k) => Fed(new[k]))
    <2> TAKE k \in Keys
    <2>1. Mine(entry[k], user) /\ Active(open', k) \in BOOLEAN /\ user \in Users
      BY DEF CacheInv, StoreTypeOK, Active
    <2> QED  BY <2>1, MineInvalidated
  <1>3. phase # "main" => \A k \in Keys : new[k] = NoEntry
    <2> SUFFICES ASSUME phase # "main", NEW k \in Keys
                 PROVE  Invalidated(entry[k], Active(open', k)) = NoEntry
      OBVIOUS
    <2>1. entry[k] = NoEntry /\ Active(open', k) = FALSE
      BY DEF CacheInv, Signed, Active
    <2>2. Invalidated(NoEntry, FALSE) = NoEntry
      BY DEF Invalidated, NoEntry
    <2> QED  BY <2>1, <2>2
  <1> HIDE DEF new, raised
  <1> QED  BY <1>1, <1>2, <1>3, ChangeStep

\* Refreshes keep every entry its user's and fed.
LEMMA RefreshStep ==
    ASSUME CacheInv, CloseDevices \/ CloseAccount \/ Resume \/ PollOrder
    PROVE  CacheInv'
  <1> USE DEF session
  <1>1. /\ phase = "main" /\ UNCHANGED <<signIn, server, write>>
        /\ open' \subseteq {"app"} \cup CacheTabs \cup OverSheets /\ "app" \in open'
    BY DEF CloseDevices, CloseAccount, Resume, PollOrder, CacheInv, StoreTypeOK, Signed,
           CacheTabs, OverSheets
  <1>2. write' \in [Writes -> [pc: {"idle", "open", "done", "failed"}, sameStore: BOOLEAN]]
    BY <1>1 DEF CacheInv, StoreTypeOK
  <1>3. CASE CloseDevices
    <2>1. UNCHANGED <<signIn, entry, server, write, floor>> /\ open' \subseteq open
      BY <1>3 DEF CloseDevices
    <2> QED  BY <1>1, <2>1 DEF CacheInv, StoreTypeOK, OwnDisk, Signed, AllFed, Active, Mine,
                               signIn
  <1>4. CASE CloseAccount
    <2>1. InvalidateAll(ViewKeys["app"] \cup ViewKeys["home"], open')
      BY <1>4 DEF CloseAccount
    <2>2. open' \subseteq open \cup {"app", "home"}
      BY <1>4 DEF CloseAccount
    <2>3. \A k \in Keys :
            Active(open', k) => k \in ViewKeys["app"] \cup ViewKeys["home"] \/ Active(open, k)
      BY <2>2 DEF Active
    <2> QED  BY <1>1, <1>2, <2>1, <2>3, InvalidateStep
  <1>5. CASE Resume \/ PollOrder
    <2>1. open' = open
      BY <1>5 DEF Resume, PollOrder
    <2>2. PICK ks : InvalidateAll(ks, open')
      <3>1. InvalidateAll(Keys, open') \/ InvalidateAll({"configs", "profile"}, open')
        BY <1>5, <2>1 DEF Resume, PollOrder
      <3> QED  BY <3>1
    <2> QED  BY <1>1, <1>2, <2>1, <2>2, InvalidateStep
  <1> QED  BY <1>3, <1>4, <1>5

\* Requests: one entry changes, the views stay.
LEMMA OneEntryStep ==
    ASSUME CacheInv, NEW k \in Keys, NEW e, entry' = [entry EXCEPT ![k] = e],
           phase = "main", Mine(e, user), Active(open, k) => Fed(e),
           floor' \in [Keys -> SUBSET Writes], UNCHANGED <<signIn, open, server, write>>
    PROVE  CacheInv'
  <1> USE DEF CacheInv
  <1>1. \A j \in Keys : entry'[j] = IF j = k THEN e ELSE entry[j]
    BY DEF StoreTypeOK
  <1>2. \A j \in Keys : Mine(entry'[j], user)
    BY <1>1
  <1>3. entry' \in [Keys -> Entry]
    BY DEF StoreTypeOK, Mine
  <1>4. UNCHANGED <<phase, user, token, disk, open, server, write>>
    BY DEF signIn
  <1>5. StoreTypeOK'
    BY <1>2, <1>3, <1>4 DEF StoreTypeOK, Mine
  <1>6. OwnDisk' /\ Signed'
    BY <1>4 DEF OwnDisk, Signed
  <1>7. AllFed' /\ \A j \in Keys : Mine(entry[j], user)'
    BY <1>1, <1>2, <1>4 DEF AllFed, Fed, Mine
  <1> QED  BY <1>5, <1>6, <1>7

\* Fetches keep every entry its user's and fed.
LEMMA FetchStep ==
    ASSUME CacheInv, NEW k \in Keys,
           Retry(k) \/ ThrottleEnds(k) \/ ReadServer(k) \/ FetchDone(k) \/ FetchFails(k)
    PROVE  CacheInv'
  <1> USE DEF session
  <1> DEFINE e0 == entry[k]
  <1>1. /\ Mine(e0, user) /\ e0 \in Entry /\ user \in Users
        /\ (Active(open, k) => Fed(e0))
        /\ floor \in [Keys -> SUBSET Writes]
    BY DEF CacheInv, StoreTypeOK, AllFed, Fed
  <1>2. e0 # NoEntry => phase = "main"
    BY DEF CacheInv, Signed
  <1>3. CASE Retry(k)
    <2>1. phase = "main"
      BY <1>3 DEF Retry, CacheInv, Signed, Waiting, Awaited
    <2>2. entry' = [entry EXCEPT ![k] = Forced(e0)]
      BY <1>3 DEF Retry, Change, CacheInv, StoreTypeOK
    <2>3. floor' \in [Keys -> SUBSET Writes] /\ UNCHANGED <<signIn, open, server, write>>
      BY <1>3, <1>1 DEF Retry, Change, CacheInv, StoreTypeOK
    <2> QED  BY <1>1, <2>1, <2>2, <2>3, MineForced, OneEntryStep
  <1>4. CASE ThrottleEnds(k)
    <2> DEFINE e == [e0 EXCEPT !.recent = FALSE]
    <2>1. phase = "main"
      BY <1>2, <1>4 DEF ThrottleEnds, NoEntry
    <2>2. entry' = [entry EXCEPT ![k] = e] /\ UNCHANGED <<signIn, open, server, write, floor>>
      BY <1>4 DEF ThrottleEnds
    <2>3. Mine(e, user) /\ (Fed(e0) => Fed(e))
      BY <1>1 DEF Mine, Fed, Entry
    <2> HIDE DEF e
    <2> QED  BY <1>1, <2>1, <2>2, <2>3, OneEntryStep
  <1>5. CASE ReadServer(k)
    <2> DEFINE v == [of |-> token, has |-> server[token][k]]
               f == [e0.fetch EXCEPT !.got = v]
               e == [e0 EXCEPT !.fetch = f]
    <2>1. phase = "main" /\ token = user
      BY <1>2, <1>5 DEF ReadServer, NoEntry, NoFetch, CacheInv, Signed
    <2>2. entry' = [entry EXCEPT ![k] = e] /\ UNCHANGED <<signIn, open, server, write, floor>>
      BY <1>5 DEF ReadServer
    <2>3. v \in Values /\ v.of = user
      <3>1. server[user][k] \in SUBSET Writes
        BY <1>1 DEF CacheInv, StoreTypeOK
      <3> QED  BY <1>1, <2>1, <3>1 DEF Values
    <2> HIDE DEF v
    <2>4. f \in Fetch /\ f.pending /\ f.got = v /\ f.current = e0.fetch.current
      BY <1>1, <1>5, <2>3 DEF ReadServer, Entry, Fetch
    <2> HIDE DEF f
    <2>5. Mine(e, user) /\ (Fed(e0) => Fed(e))
      BY <1>1, <1>5, <2>3, <2>4 DEF Mine, Fed, Entry, ReadServer
    <2> HIDE DEF e
    <2> QED  BY <1>1, <2>1, <2>2, <2>5, OneEntryStep
  <1>6. CASE FetchDone(k)
    <2>1. phase = "main"
      BY <1>2, <1>6 DEF FetchDone, NoEntry, NoFetch
    <2>2. entry' = [entry EXCEPT ![k] = Committed(e0)] /\ e0.fetch.got # Nothing
          /\ UNCHANGED <<signIn, open, server, write, floor>>
      BY <1>6 DEF FetchDone
    <2> QED  BY <1>1, <2>1, <2>2, MineCommitted, OneEntryStep
  <1>7. CASE FetchFails(k)
    <2>1. phase = "main"
      BY <1>2, <1>7 DEF FetchFails, NoEntry, NoFetch
    <2>2. entry' = [entry EXCEPT ![k] = Failed(e0)] /\ e0.fetch.pending
          /\ UNCHANGED <<signIn, open, server, write, floor>>
      BY <1>7 DEF FetchFails
    <2> QED  BY <1>1, <2>1, <2>2, MineFailed, OneEntryStep
  <1> QED  BY <1>3, <1>4, <1>5, <1>6, <1>7

\* Writes keep every entry its user's and fed.
LEMMA WriteStep ==
    ASSUME CacheInv, NEW w \in Writes,
           StartWrite(w) \/ ApplyWrite(w) \/ WriteDone(w) \/ WriteFails(w)
    PROVE  CacheInv'
  <1> USE DEF session
  <1> DEFINE Progress == [pc: {"idle", "open", "done", "failed"}, sameStore: BOOLEAN]
             mutated  == [k \in Keys |-> Mutated(entry[k], w)]
  <1>1. /\ open \subseteq {"app"} \cup CacheTabs \cup OverSheets
        /\ phase = "main" => "app" \in open
        /\ phase # "main" => open = {} /\ \A k \in Keys : entry[k] = NoEntry
        /\ write \in [Writes -> Progress] /\ user \in Users
    BY DEF CacheInv, StoreTypeOK, Signed
  <1>2. \A k \in Keys : Mine(entry[k], user) /\ (Active(open, k) => Fed(entry[k]))
    BY DEF CacheInv, AllFed, Fed
  <1>3. \A k \in Keys : /\ Mine(mutated[k], user)
                        /\ Active(open, k) => Fed(mutated[k])
                        /\ phase # "main" => mutated[k] = NoEntry
    <2> TAKE k \in Keys
    <2>1. Mutated(NoEntry, w) = NoEntry
      BY DEF Mutated, NoEntry
    <2> QED  BY <1>1, <1>2, <2>1, MineMutated
  <1>4. ApplyWrite(w) \/ write' \in [Writes -> Progress]
    <2>1. write[w] \in Progress
      BY <1>1
    <2>2. CASE StartWrite(w)
      BY <1>1, <2>2 DEF StartWrite
    <2>3. CASE WriteDone(w)
      BY <1>1, <2>1, <2>3 DEF WriteDone
    <2>4. CASE WriteFails(w)
      BY <1>1, <2>1, <2>4 DEF WriteFails
    <2> QED  BY <2>2, <2>3, <2>4
  <1>5. CASE StartWrite(w)
    <2>1. UNCHANGED <<signIn, open, server>>
      BY <1>5 DEF StartWrite
    <2>2. CASE Change({Key(w)}, mutated, {})
      <3> HIDE DEF mutated
      <3> QED  BY <1>1, <1>3, <1>4, <1>5, <2>1, <2>2, ChangeStep DEF StartWrite
    <2>3. CASE UNCHANGED <<entry, floor>>
      BY <1>1, <1>4, <1>5, <2>1, <2>3
         DEF StartWrite, CacheInv, StoreTypeOK, OwnDisk, Signed, AllFed, Mine, signIn
    <2> QED  BY <1>5, <2>2, <2>3 DEF StartWrite
  <1>6. CASE ApplyWrite(w)
    <2>1. UNCHANGED <<signIn, open, entry, write, floor>>
      BY <1>6 DEF ApplyWrite
    <2>2. server' \in [Users -> [Keys -> SUBSET Writes]]
      <3>1. server \in [Users -> [Keys -> SUBSET Writes]] /\ Owner[w] \in Users /\ Key(w) \in Keys
        BY CacheConstants DEF CacheInv, StoreTypeOK
      <3> DEFINE applied == [server[Owner[w]] EXCEPT ![Key(w)] = @ \cup {w}]
      <3>2. applied \in [Keys -> SUBSET Writes]
        BY <3>1
      <3>3. server' = [server EXCEPT ![Owner[w]] = applied]
        BY <1>6 DEF ApplyWrite
      <3> HIDE DEF applied
      <3> QED  BY <3>1, <3>2, <3>3
    <2> QED  BY <2>1, <2>2
                DEF CacheInv, StoreTypeOK, OwnDisk, Signed, AllFed, Mine, signIn
  <1>7. CASE WriteDone(w)
    <2> DEFINE confirmed == IF Kind[w] \in Confirming THEN {Key(w)} ELSE {}
               refetched == AfterSuccess[Kind[w]]
               later(k) == IF k \in confirmed THEN Mutated(entry[k], w) ELSE entry[k]
               new == [k \in Keys |-> IF k \in refetched
                                      THEN Invalidated(later(k), Active(open, k))
                                      ELSE later(k)]
               raised == {k \in refetched : Active(open, k)}
                            \cup {k \in confirmed : entry[k].data # Nothing}
    <2>1. Change(confirmed \cup refetched, new, raised) /\ UNCHANGED <<signIn, open, server>>
      BY <1>7 DEF WriteDone
    <2>2. \A k \in Keys : /\ Mine(later(k), user)
                          /\ Active(open, k) => Fed(later(k))
                          /\ phase # "main" => later(k) = NoEntry
      BY <1>1, <1>2, <1>3
    <2>3. \A k \in Keys : /\ Mine(new[k], user)
                          /\ Active(open, k) => Fed(new[k])
                          /\ phase # "main" => new[k] = NoEntry
      <3> TAKE k \in Keys
      <3> DEFINE u == later(k)
      <3>1. /\ Mine(u, user) /\ (Active(open, k) => Fed(u))
            /\ phase # "main" => u = NoEntry
        BY <2>2
      <3>2. new[k] = u \/ new[k] = Invalidated(u, Active(open, k))
        OBVIOUS
      <3> HIDE DEF u, new, later
      <3>3. Active(open, k) \in BOOLEAN /\ (phase # "main" => ~Active(open, k))
        BY <1>1 DEF Active
      <3>4. Invalidated(NoEntry, FALSE) = NoEntry
        BY DEF Invalidated, NoEntry
      <3>5. /\ Mine(Invalidated(u, Active(open, k)), user)
            /\ Active(open, k) => Fed(Invalidated(u, Active(open, k)))
            /\ phase # "main" => Invalidated(u, Active(open, k)) = NoEntry
        BY <1>1, <3>1, <3>3, <3>4, MineInvalidated
      <3> QED  BY <3>1, <3>2, <3>5
    <2> HIDE DEF confirmed, refetched, later, new, raised
    <2> QED  BY <1>1, <1>4, <1>7, <2>1, <2>3, ChangeStep DEF WriteDone
  <1>8. CASE WriteFails(w)
    <2>1. InvalidateAll(AfterFailure[Kind[w]], open') /\ UNCHANGED <<signIn, open, server>>
      BY <1>8 DEF WriteFails
    <2> QED  BY <1>1, <1>4, <1>8, <2>1, InvalidateStep DEF WriteFails
  <1> QED  BY <1>5, <1>6, <1>7, <1>8

\* The inductive invariant of the shared data.
LEMMA CacheInvariant == CacheSpec => []CacheInv
  <1>1. CacheInit => CacheInv
    <2> SUFFICES ASSUME CacheInit PROVE CacheInv
      OBVIOUS
    <2>1. \A k \in Keys : Mine(entry[k], user)
      BY MineNew DEF CacheInit
    <2>2. StoreTypeOK
      BY <2>1 DEF CacheInit, StoreTypeOK, Mine
    <2>3. OwnDisk /\ Signed /\ AllFed
      BY DEF CacheInit, OwnDisk, Signed, AllFed, Active
    <2> QED  BY <2>1, <2>2, <2>3 DEF CacheInv
  <1>2. CacheInv /\ [CacheNext]_cacheVars => CacheInv'
    <2> SUFFICES ASSUME CacheInv, [CacheNext]_cacheVars PROVE CacheInv'
      OBVIOUS
    <2>1. CASE CacheNext
      BY <2>1, SessionStep, RevalidateStep, RefreshStep, FetchStep, WriteStep DEF CacheNext
    <2>2. CASE UNCHANGED cacheVars
      BY <2>2 DEF cacheVars, session, signIn, CacheInv, StoreTypeOK, OwnDisk, Signed, AllFed, Mine
    <2> QED  BY <2>1, <2>2
  <1> QED  BY <1>1, <1>2, PTL DEF CacheSpec

\* What App shows is this user's.
AppOwn == AppTypeOK /\ (appProfile # Nothing => phase = "main" /\ appProfile.of = user)

\* Rendering takes the profile from an entry of the store.
LEMMA RenderStep ==
    ASSUME CacheInv', AppRenders, appListens' \in BOOLEAN
    PROVE  AppOwn'
  <1>1. CASE "profile" \notin Keys
    BY <1>1 DEF AppRenders, AppOwn, AppTypeOK
  <1>2. CASE "profile" \in Keys
    <2>1. appProfile' = entry'["profile"].data /\ Mine(entry'["profile"], user')
      BY <1>2 DEF AppRenders, CacheInv
    <2>2. appProfile' \in Values \cup {Nothing} /\ (appProfile' # Nothing => appProfile'.of = user')
      BY <2>1 DEF Mine, Entry
    <2>3. appProfile' # Nothing => phase' = "main"
      BY <1>2, <2>1 DEF CacheInv, Signed, NoEntry
    <2> QED  BY <2>2, <2>3 DEF AppOwn, AppTypeOK
  <1> QED  BY <1>1, <1>2

\* Every step renders App anew, leaves it as it is, or ends it.
LEMMA AppStep ==
    ASSUME AppOwn, CacheInv', [CacheNext]_cacheVars
    PROVE  AppOwn'
  <1>1. CASE AppRenders /\ appListens' \in {appListens, FALSE}
    BY <1>1, RenderStep DEF AppOwn, AppTypeOK
  <1>2. CASE UNCHANGED session
    BY <1>2 DEF session, signIn, AppOwn, AppTypeOK
  <1>3. CASE \E u \in Users : Launch(u)
    BY <1>3 DEF Launch, AppOwn, AppTypeOK
  <1>4. CASE CloseApp
    BY <1>4 DEF CloseApp, AppOwn, AppTypeOK
  <1>5. CASE LoginFails
    BY <1>5 DEF LoginFails, AppOwn, AppTypeOK
  <1>6. CASE Login \/ Logout \/ OldFetchEnds \/ OpenAccount \/ CloseAccount \/ ShowTab
    BY <1>1, <1>6 DEF Login, Logout, OldFetchEnds, OpenAccount, CloseAccount, ShowTab, signIn
  <1>7. CASE AppHears /\ UNCHANGED signIn
    BY <1>1, <1>2, <1>7 DEF AppHears, session, signIn
  <1>8. CASE \E k \in Keys : FetchDone(k) \/ FetchFails(k)
    BY <1>7, <1>8 DEF FetchDone, FetchFails, signIn
  <1>9. CASE \E w \in Writes : StartWrite(w) \/ WriteDone(w)
    BY <1>7, <1>9 DEF StartWrite, WriteDone, signIn
  <1>10. CASE \/ OpenDevices \/ CloseDevices \/ Resume \/ PollOrder
              \/ \E k \in Keys : Retry(k) \/ ThrottleEnds(k) \/ ReadServer(k)
              \/ \E w \in Writes : ApplyWrite(w) \/ WriteFails(w)
    <2>1. UNCHANGED session
      BY <1>10 DEF OpenDevices, CloseDevices, Resume, PollOrder, Retry, ThrottleEnds, ReadServer,
                   ApplyWrite, WriteFails
    <2> QED  BY <1>2, <2>1
  <1>11. CASE UNCHANGED cacheVars
    BY <1>2, <1>11 DEF cacheVars
  <1> QED
    BY <1>3, <1>4, <1>5, <1>6, <1>8, <1>9, <1>10, <1>11 DEF CacheNext

\* What App shows, on top of the store.
LEMMA AppInvariant == CacheSpec => []AppOwn
  <1>1. CacheInit => AppOwn
    BY DEF CacheInit, AppOwn, AppTypeOK
  <1>2. AppOwn /\ CacheInv' /\ [CacheNext]_cacheVars => AppOwn'
    BY AppStep
  <1> QED  BY <1>1, <1>2, CacheInvariant, PTL DEF CacheSpec

(* A fetch that may be kept is the entry's promise, and an error never       *)
(* stands beside data, through sign-ins, sign-outs and launches              *)
(* (cache.ts:108-145).                                                       *)
THEOREM CacheInOrder == CacheSpec => []CacheTypeOK
  <1>1. CacheInv /\ AppOwn => CacheTypeOK
    BY DEF CacheInv, AppOwn, CacheTypeOK
  <1> QED  BY <1>1, CacheInvariant, AppInvariant, PTL

(* Nobody sees another user's data, whoever used the device before           *)
(* (cache.ts:16, :43, :178), App's own profile included.                     *)
THEOREM OwnDataShown == CacheSpec => []OwnDataOnly
  <1>1. CacheInv /\ AppOwn => OwnDataOnly
    BY DEF CacheInv, Signed, NoEntry, NoFetch, Mine, AppOwn, OwnDataOnly
  <1> QED  BY <1>1, CacheInvariant, AppInvariant, PTL

\* A view waits only for what it reads.
LEMMA WaitingActive ==
    ASSUME StoreTypeOK, NEW k, Waiting(open, k)
    PROVE  Active(open, k)
  <1>1. PICK v \in open : k \in Awaited[v]
    BY DEF Waiting
  <1>2. v \in {"app", "home", "admin", "deviceSheet", "account"}
    BY DEF StoreTypeOK, CacheTabs, OverSheets
  <1>3. k \in ViewKeys[v]
    BY <1>1, <1>2 DEF Awaited, ViewKeys
  <1> QED  BY <1>3 DEF Active

(* A view with a skeleton has its list, a request for it that ends in data   *)
(* or an error, or the error and its retry button (ConfigsScreen.tsx:139-142, *)
(* DevicesSheet.tsx:177, 218).                                               *)
THEOREM NoBareSkeleton == CacheSpec => []NeverStuck
  <1>1. CacheInv => NeverStuck
    BY WaitingActive DEF CacheInv, AllFed, Fed, NeverStuck
  <1> QED  BY <1>1, CacheInvariant, PTL

-----------------------------------------------------------------------------
(* No stale answer is kept and a confirmed change stays on screen: the       *)
(* invariant, on top of CacheInv.                                           *)

\* What the fetch of e may still commit reflects f.
Recent(e, f) == e.fetch.current /\ e.fetch.got # Nothing => f \subseteq e.fetch.got.has

\* Write w is in what e shows, and in what its fetch may still commit.
Reflects(e, w) == (e.data # Nothing => w \in e.data.has) /\ Recent(e, {w})

\* The app knows that w succeeded, and put it into the store itself.
Settled(w) == write[w].pc = "done" /\ write[w].sameStore /\ Kind[w] \in Confirming

\* The store is that of the user who made w.
OwnStore(w) == phase = "main" /\ Owner[w] = user

FloorsServed == phase = "main" => \A k \in Keys : floor[k] \subseteq server[user][k]

FetchesRecent == \A k \in Keys : Recent(entry[k], floor[k])

DoneApplied == \A w \in Writes : write[w].pc = "done" => w \in server[Owner[w]][Key(w)]

\* A write under way in this store has a value to go to.
OpenHere(w) ==
    write[w].pc = "open" /\ write[w].sameStore =>
      /\ OwnStore(w)
      /\ Kind[w] \in Confirming => entry[Key(w)].data # Nothing

\* A change that was put into the store is there, or on the disk for the next launch.
SettledHere(w) == Settled(w) /\ OwnStore(w) => Reflects(entry[Key(w)], w)

SettledStored(w) ==
    Settled(w) /\ ~OwnStore(w) /\ Key(w) \in Persisted /\ disk[Owner[w]][Key(w)] # Nothing
      => w \in disk[Owner[w]][Key(w)].has

WritesShown == \A w \in Writes : OpenHere(w) /\ SettledHere(w) /\ SettledStored(w)

FreshInv == CacheInv /\ FloorsServed /\ FetchesRecent /\ DoneApplied /\ WritesShown

-----------------------------------------------------------------------------
(* What the functions of cache.ts do to an entry.                           *)

\* new shows what old shows, and what its fetch may commit is not older.
Follows(old, new) ==
    /\ old.data # Nothing => new.data # Nothing /\ old.data.has \subseteq new.data.has
    /\ new.data # Nothing => old.data # Nothing
    /\ new.fetch.current /\ new.fetch.got # Nothing =>
         old.fetch.current /\ new.fetch.got = old.fetch.got

\* What holds of an entry holds of one that follows it.
LEMMA FollowsKeeps ==
    ASSUME NEW old, NEW new, Follows(old, new), NEW f, NEW w
    PROVE  /\ Recent(old, f) => Recent(new, f)
           /\ Reflects(old, w) => Reflects(new, w)
           /\ old.data # Nothing => new.data # Nothing
  BY DEF Follows, Recent, Reflects

\* No answer the entry waits for may be committed as it is.
Overtaken(e) == ~(e.fetch.current /\ e.fetch.got # Nothing)

\* A fetch that starts now, and one that a write overtook, may commit nothing old.
LEMMA OvertakenRecent ==
    ASSUME NEW e, Overtaken(e), NEW f
    PROVE  Recent(e, f)
  BY DEF Overtaken, Recent

\* An entry that does not change follows itself.
LEMMA FollowsSelf == ASSUME NEW e PROVE Follows(e, e)
  BY DEF Follows

\* What follows in two steps follows.
LEMMA FollowsTwice ==
    ASSUME NEW e, NEW f, NEW g, Follows(e, f), Follows(f, g)
    PROVE  Follows(e, g)
  BY DEF Follows

\* A forced refresh keeps the data and starts a fetch from now.
LEMMA ForcedFollows ==
    ASSUME NEW e \in Entry
    PROVE  Follows(e, Forced(e)) /\ Overtaken(Forced(e))
  BY DEF Forced, Started, Follows, Overtaken, Entry

\* A revalidation keeps the data and joins or starts a fetch.
LEMMA RevalidatedFollows ==
    ASSUME NEW e \in Entry
    PROVE  Follows(e, Revalidated(e))
  BY DEF Revalidated, Started, Follows, Entry

\* An invalidation keeps the data; where a view is active, the fetch starts from now.
LEMMA InvalidatedFollows ==
    ASSUME NEW e \in Entry, NEW active \in BOOLEAN
    PROVE  /\ Follows(e, Invalidated(e, active))
           /\ active \/ Overtaken(e) => Overtaken(Invalidated(e, active))
  <1> DEFINE stale == [e EXCEPT !.recent = FALSE]
  <1>1. stale \in Entry /\ stale.data = e.data /\ stale.fetch = e.fetch
    BY DEF Entry
  <1>2. Invalidated(e, active) = IF active THEN Forced(stale) ELSE stale
    BY DEF Invalidated
  <1> HIDE DEF stale
  <1> QED  BY <1>1, <1>2, ForcedFollows DEF Follows, Overtaken

\* A change put into the store is in the data, and no fetch under way may undo it.
LEMMA MutatedFollows ==
    ASSUME NEW e \in Entry, NEW w \in Writes
    PROVE  /\ Follows(e, Mutated(e, w))
           /\ e.data # Nothing => Overtaken(Mutated(e, w)) /\ w \in Mutated(e, w).data.has
  <1>1. CASE e.data = Nothing
    BY <1>1 DEF Mutated, Follows
  <1>2. CASE e.data # Nothing
    <2>1. e.data \in Values
      BY <1>2 DEF Entry
    <2> DEFINE d == [e.data EXCEPT !.has = @ \cup {w}]
               f == [e.fetch EXCEPT !.current = FALSE]
               m == Mutated(e, w)
    <2>2. d \in Values /\ d.has = e.data.has \cup {w}
      BY <2>1 DEF Values
    <2>3. f.current = FALSE
      BY DEF Entry, Fetch
    <2>4. m.data = d /\ m.fetch = f
      BY <1>2, <2>1 DEF Mutated, Entry
    <2>5. d # Nothing
      BY <2>2, NothingNoValue
    <2> HIDE DEF d, f, m
    <2>6. Follows(e, m) /\ Overtaken(m) /\ w \in m.data.has
      BY <1>2, <2>2, <2>3, <2>4, <2>5 DEF Follows, Overtaken
    <2> QED  BY <2>6 DEF m
  <1> QED  BY <1>1, <1>2

-----------------------------------------------------------------------------
(* Steps.                                                                   *)

\* Entries that change one by one in the same session; raised are those whose floor
\* is set to what the server holds now.
LEMMA FreshChange ==
    ASSUME FreshInv, CacheInv', NEW ks, NEW new, NEW raised, Change(ks, new, raised),
           UNCHANGED <<signIn, server>>,
           \A k \in Keys : k \in ks => Follows(entry[k], new[k]),
           \A k \in Keys : k \in raised => k \in ks /\ Overtaken(new[k]),
           \A w \in Writes : \/ write'[w] = write[w]
                             \/ write'[w].pc = "open" /\ OpenHere(w)'
                             \/ write'[w].pc = "failed"
                             \/ /\ OwnStore(w) \/ ~write'[w].sameStore
                                /\ w \in server[Owner[w]][Key(w)] /\ write'[w].pc = "done"
                                /\ Settled(w)' => Reflects(entry[Key(w)], w)'
    PROVE  FreshInv'
  <1>1. UNCHANGED <<phase, user, token, disk, server>>
    BY DEF signIn
  <1>2. \A k \in Keys : Follows(entry[k], entry'[k])
    BY FollowsSelf DEF Change
  <1>3. \A k \in Keys : floor'[k] = IF k \in raised THEN server[user][k] ELSE floor[k]
    BY DEF Change
  <1>4. FloorsServed'
    BY <1>1, <1>3 DEF FreshInv, FloorsServed
  <1>5. FetchesRecent'
    <2> SUFFICES ASSUME NEW k \in Keys PROVE Recent(entry'[k], floor'[k])
      BY DEF FetchesRecent
    <2>1. CASE k \in raised
      <3>1. entry'[k] = new[k] /\ Overtaken(new[k])
        BY <2>1 DEF Change
      <3> QED  BY <3>1, OvertakenRecent
    <2>2. CASE k \notin raised
      BY <1>2, <1>3, <2>2, FollowsKeeps DEF FreshInv, FetchesRecent
    <2> QED  BY <2>1, <2>2
  <1>6. DoneApplied'
    BY <1>1 DEF FreshInv, DoneApplied, Settled
  <1>7. WritesShown'
    <2> SUFFICES ASSUME NEW w \in Writes PROVE OpenHere(w)' /\ SettledHere(w)' /\ SettledStored(w)'
      BY DEF WritesShown
    <2>1. Key(w) \in Keys /\ Follows(entry[Key(w)], entry'[Key(w)])
      BY <1>2, CacheConstants
    <2>2. OpenHere(w) /\ SettledHere(w) /\ SettledStored(w)
      BY DEF FreshInv, WritesShown
    <2>3. CASE write'[w] = write[w]
      BY <1>1, <2>1, <2>2, <2>3, FollowsKeeps
         DEF OpenHere, SettledHere, SettledStored, Settled, OwnStore
    <2>4. CASE write'[w].pc = "failed"
      BY <2>4 DEF OpenHere, SettledHere, SettledStored, Settled
    <2>5. CASE write'[w].pc = "open" /\ OpenHere(w)'
      BY <2>5 DEF SettledHere, SettledStored, Settled
    <2>6. CASE /\ OwnStore(w) \/ ~write'[w].sameStore
               /\ write'[w].pc = "done"
               /\ Settled(w)' => Reflects(entry[Key(w)], w)'
      BY <1>1, <2>6 DEF OpenHere, SettledHere, SettledStored, Settled, OwnStore
    <2> QED  BY <2>3, <2>4, <2>5, <2>6
  <1> QED  BY <1>4, <1>5, <1>6, <1>7 DEF FreshInv

\* Signing in and out, launching and closing.
LEMMA FreshSession ==
    ASSUME FreshInv, CacheInv', \/ \E u \in Users : Launch(u)
                                \/ Login \/ LoginFails \/ Logout \/ CloseApp
                                \/ OldFetchEnds
    PROVE  FreshInv'
  <1>0. /\ CacheInv /\ FloorsServed /\ FetchesRecent /\ DoneApplied /\ WritesShown
        /\ write \in [Writes -> [pc: {"idle", "open", "done", "failed"}, sameStore: BOOLEAN]]
    BY DEF FreshInv, CacheInv, StoreTypeOK
  <1>1. CASE (\E u \in Users : Launch(u)) \/ LoginFails
    <2>1. /\ phase # "main" /\ phase' # "main"
          /\ UNCHANGED <<entry, disk, server, write, floor>>
      BY <1>1 DEF Launch, LoginFails
    <2>2. FloorsServed' /\ FetchesRecent' /\ DoneApplied'
      BY <1>0, <2>1 DEF FloorsServed, FetchesRecent, DoneApplied
    <2>3. WritesShown'
      BY <1>0, <2>1 DEF WritesShown, OpenHere, SettledHere, SettledStored, Settled, OwnStore
    <2> QED  BY <2>2, <2>3 DEF FreshInv
  <1>2. CASE Login
    <2>1. /\ phase # "main" /\ phase' = "main" /\ floor' = [k \in Keys |-> {}]
          /\ UNCHANGED <<user, disk, server, write>>
      BY <1>2 DEF Login
    <2>2. \A k \in Keys : Overtaken(entry'[k])
                          /\ entry'[k].data = Seeded(user, k).data
      <3> TAKE k \in Keys
      <3>1. Mine(Seeded(user, k), user)
        BY <1>0, MineSeeded DEF CacheInv, StoreTypeOK
      <3>2. Overtaken(Seeded(user, k)) /\ Seeded(user, k) \in Entry
        BY <3>1 DEF Seeded, NoEntry, NoFetch, Overtaken, Mine, Entry
      <3>3. Overtaken(Revalidated(Seeded(user, k)))
            /\ Revalidated(Seeded(user, k)).data = Seeded(user, k).data
        BY <3>2 DEF Revalidated, Started, Overtaken, Entry
      <3>4. entry'[k] \in {Seeded(user, k), Revalidated(Seeded(user, k))}
        BY <1>2 DEF Login
      <3> QED  BY <3>2, <3>3, <3>4
    <2>3. FloorsServed' /\ FetchesRecent' /\ DoneApplied'
      <3>1. FetchesRecent'
        BY <2>2, OvertakenRecent DEF FetchesRecent
      <3> QED  BY <1>0, <2>1, <3>1 DEF FloorsServed, DoneApplied
    <2>4. WritesShown'
      <3> SUFFICES ASSUME NEW w \in Writes
                   PROVE  OpenHere(w)' /\ SettledHere(w)' /\ SettledStored(w)'
        BY DEF WritesShown
      <3>1. OpenHere(w) /\ SettledStored(w) /\ ~OwnStore(w) /\ Key(w) \in Keys
        BY <1>0, <2>1, CacheConstants DEF WritesShown, OwnStore
      <3>2. OpenHere(w)' /\ SettledStored(w)'
        BY <2>1, <3>1 DEF OpenHere, SettledStored, Settled, OwnStore
      <3>3. SettledHere(w)'
        <4> SUFFICES ASSUME Settled(w), Owner[w] = user
                     PROVE  Reflects(entry'[Key(w)], w)
          BY <2>1 DEF SettledHere, Settled, OwnStore
        <4>1. Seeded(user, Key(w)).data # Nothing =>
                Key(w) \in Persisted /\ Seeded(user, Key(w)).data = disk[user][Key(w)]
          BY DEF Seeded, NoEntry
        <4> QED  BY <2>2, <3>1, <4>1, OvertakenRecent DEF SettledStored, Reflects
      <3> QED  BY <3>2, <3>3
    <2> QED  BY <2>3, <2>4 DEF FreshInv
  <1>3. CASE Logout \/ CloseApp
    <2>1. /\ phase' \in {"auth", "closed"} /\ entry' = [k \in Keys |-> NoEntry]
          /\ UNCHANGED <<user, server, floor>>
      BY <1>3 DEF Logout, CloseApp
    <2>2. FloorsServed' /\ FetchesRecent'
      BY <2>1 DEF FloorsServed, FetchesRecent, Recent, NoEntry, NoFetch
    <2>3. \A w \in Writes : /\ write'[w].pc = "done" => write[w].pc = "done"
                            /\ Logout => ~write'[w].sameStore
                            /\ CloseApp => write'[w].pc # "open"
                            /\ write'[w].sameStore => write[w].sameStore
      BY <1>0, <1>3 DEF Logout, CloseApp
    <2>4. DoneApplied'
      BY <1>0, <2>1, <2>3 DEF DoneApplied
    <2>5. WritesShown'
      <3> SUFFICES ASSUME NEW w \in Writes
                   PROVE  OpenHere(w)' /\ SettledHere(w)' /\ SettledStored(w)'
        BY DEF WritesShown
      <3>1. OpenHere(w)' /\ SettledHere(w)'
        BY <1>3, <2>1, <2>3 DEF OpenHere, SettledHere, OwnStore
      <3>2. CASE Logout
        BY <2>3, <3>1, <3>2 DEF SettledStored, Settled
      <3>3. CASE CloseApp
        <4> SUFFICES ASSUME Settled(w)', Key(w) \in Persisted, disk'[Owner[w]][Key(w)] # Nothing
                     PROVE  w \in disk'[Owner[w]][Key(w)].has
          BY <3>1 DEF SettledStored
        <4>1. Settled(w) /\ SettledHere(w) /\ SettledStored(w) /\ Key(w) \in Keys
              /\ Owner[w] \in Users
          BY <1>0, <2>3, CacheConstants DEF WritesShown, Settled
        <4>2. disk'[Owner[w]][Key(w)] = IF OwnStore(w) THEN entry[Key(w)].data
                                        ELSE disk[Owner[w]][Key(w)]
          BY <1>0, <3>3, <4>1 DEF CloseApp, OwnStore, CacheInv, StoreTypeOK
        <4> QED  BY <4>1, <4>2 DEF SettledHere, SettledStored, Reflects
      <3> QED  BY <1>3, <3>1, <3>2, <3>3
    <2> QED  BY <2>2, <2>4, <2>5 DEF FreshInv
  <1>4. CASE OldFetchEnds
    BY <1>0, <1>4 DEF OldFetchEnds, signIn, FreshInv, FloorsServed, FetchesRecent, DoneApplied,
                      WritesShown, OpenHere, SettledHere, SettledStored, Settled, OwnStore
  <1> QED  BY <1>1, <1>2, <1>3, <1>4

\* Opening, closing and refreshing views.
LEMMA FreshViews ==
    ASSUME FreshInv, CacheInv',
           \/ OpenDevices \/ OpenAccount \/ ShowTab
           \/ CloseDevices \/ CloseAccount \/ Resume \/ PollOrder
    PROVE  FreshInv'
  <1> USE DEF session
  <1>0. /\ \A k \in Keys : entry[k] \in Entry
        /\ \A views, k : Active(views, k) \in BOOLEAN
    BY DEF FreshInv, CacheInv, StoreTypeOK, Active
  <1>1. CASE OpenDevices \/ OpenAccount \/ ShowTab
    <2> DEFINE new == [k \in Keys |-> Revalidated(entry[k])]
    <2>1. PICK ks : Change(ks, new, {})
      BY <1>1 DEF OpenDevices, OpenAccount, ShowTab
    <2>2. \A k \in Keys : Follows(entry[k], new[k])
      BY <1>0, RevalidatedFollows
    <2>3. UNCHANGED <<signIn, server, write>>
      BY <1>1 DEF OpenDevices, OpenAccount, ShowTab
    <2> HIDE DEF new
    <2> QED  BY <2>1, <2>2, <2>3, FreshChange
  <1>2. CASE CloseDevices
    <2>1. UNCHANGED <<signIn, entry, server, write, floor>>
      BY <1>2 DEF CloseDevices
    <2> QED  BY <2>1 DEF FreshInv, signIn, FloorsServed, FetchesRecent, DoneApplied, WritesShown,
                         OpenHere, SettledHere, SettledStored, Settled, OwnStore
  <1>3. CASE CloseAccount \/ Resume \/ PollOrder
    <2>1. PICK ks, views : InvalidateAll(ks, views)
      BY <1>3 DEF CloseAccount, Resume, PollOrder
    <2> DEFINE new == [k \in Keys |-> Invalidated(entry[k], Active(views, k))]
               raised == {k \in ks : Active(views, k)}
    <2>2. Change(ks, new, raised)
      BY <2>1 DEF InvalidateAll
    <2>3. \A k \in Keys : /\ Follows(entry[k], new[k])
                          /\ k \in raised => k \in ks /\ Overtaken(new[k])
      BY <1>0, InvalidatedFollows
    <2>4. UNCHANGED <<signIn, server, write>>
      BY <1>3 DEF CloseAccount, Resume, PollOrder
    <2> HIDE DEF new, raised
    <2> QED  BY <2>2, <2>3, <2>4, FreshChange
  <1> QED  BY <1>1, <1>2, <1>3

\* Requests.
LEMMA FreshFetch ==
    ASSUME FreshInv, CacheInv', NEW k \in Keys,
           Retry(k) \/ ThrottleEnds(k) \/ ReadServer(k) \/ FetchDone(k) \/ FetchFails(k)
    PROVE  FreshInv'
  <1> USE DEF session
  <1> DEFINE e == entry[k]
  <1>0. /\ e \in Entry /\ Mine(e, user) /\ entry \in [Keys -> Entry]
        /\ phase # "main" => e = NoEntry
        /\ Recent(e, floor[k])
        /\ CacheInv
    BY DEF FreshInv, CacheInv, StoreTypeOK, Signed, FetchesRecent
  <1>1. CASE Retry(k)
    <2> DEFINE new == [j \in Keys |-> Forced(entry[j])]
    <2>1. Change({k}, new, {k}) /\ UNCHANGED <<signIn, server, write>>
      BY <1>1 DEF Retry
    <2>2. Follows(entry[k], new[k]) /\ Overtaken(new[k])
      BY <1>0, ForcedFollows
    <2> HIDE DEF new
    <2> QED  BY <2>1, <2>2, FreshChange
  <1>2. CASE ThrottleEnds(k) \/ ReadServer(k) \/ FetchDone(k) \/ FetchFails(k)
    <2>1. /\ UNCHANGED <<signIn, server, write, floor>>
          /\ \A j \in Keys : j # k => entry'[j] = entry[j]
      BY <1>0, <1>2 DEF ThrottleEnds, ReadServer, FetchDone, FetchFails
    <2>2. UNCHANGED <<phase, user, token, disk>>
      BY <2>1 DEF signIn
    <2>3. phase = "main" /\ token = user
      <3>1. e # NoEntry
        BY <1>2 DEF ThrottleEnds, ReadServer, FetchDone, FetchFails, NoEntry, NoFetch
      <3> QED  BY <1>0, <3>1 DEF CacheInv, Signed
    \* What the entry has, and what it may still get, is what it had or what the
    \* server has now.
    <2>4. /\ entry'[k].data # Nothing =>
               \/ e.data # Nothing /\ entry'[k].data = e.data
               \/ /\ e.fetch.current /\ e.fetch.got # Nothing /\ entry'[k].data = e.fetch.got
          /\ e.data # Nothing => entry'[k].data # Nothing
          /\ entry'[k].fetch.current /\ entry'[k].fetch.got # Nothing =>
               \/ e.fetch.current /\ e.fetch.got # Nothing /\ entry'[k].fetch.got = e.fetch.got
               \/ entry'[k].fetch.got.has = server[user][k]
      <3>1. CASE ThrottleEnds(k)
        <4>1. entry'[k] = [e EXCEPT !.recent = FALSE]
          BY <1>0, <3>1 DEF ThrottleEnds
        <4>2. entry'[k].data = e.data /\ entry'[k].fetch = e.fetch
          BY <1>0, <4>1 DEF Entry
        <4> QED  BY <4>2
      <3>2. CASE ReadServer(k)
        <4> DEFINE v == [of |-> token, has |-> server[token][k]]
                   f == [e.fetch EXCEPT !.got = v]
        <4>1. v.has = server[user][k]
          BY <2>3
        <4>2. entry'[k] = [e EXCEPT !.fetch = f]
          BY <1>0, <3>2 DEF ReadServer
        <4> HIDE DEF v
        <4>3. f.got = v
          BY <1>0 DEF Entry, Fetch
        <4> HIDE DEF f
        <4>4. entry'[k].data = e.data /\ entry'[k].fetch = f
          BY <1>0, <4>2 DEF Entry
        <4> QED  BY <4>1, <4>3, <4>4
      <3>3. CASE FetchDone(k)
        <4>1. entry'[k] = Committed(e) /\ e.fetch.got # Nothing
          BY <1>0, <3>3 DEF FetchDone
        <4> QED  BY <1>0, <4>1 DEF Committed, NoFetch, Entry
      <3>4. CASE FetchFails(k)
        <4>1. entry'[k] = Failed(e)
          BY <1>0, <3>4 DEF FetchFails
        <4>2. entry'[k].data = e.data /\ entry'[k].fetch = NoFetch
          BY <1>0, <4>1 DEF Failed, Entry
        <4> QED  BY <4>2 DEF NoFetch
      <3> QED  BY <1>2, <3>1, <3>2, <3>3, <3>4
    <2>5. FloorsServed' /\ DoneApplied'
      BY <2>1, <2>2 DEF FreshInv, FloorsServed, DoneApplied
    <2>6. FetchesRecent'
      <3> SUFFICES ASSUME NEW j \in Keys PROVE Recent(entry'[j], floor[j])
        BY <2>1 DEF FetchesRecent
      <3>1. CASE j # k
        BY <2>1, <3>1 DEF FreshInv, FetchesRecent
      <3>2. CASE j = k
        <4>1. floor[k] \subseteq server[user][k]
          BY <2>3 DEF FreshInv, FloorsServed
        <4> QED  BY <1>0, <2>4, <3>2, <4>1 DEF Recent
      <3> QED  BY <3>1, <3>2
    <2>7. WritesShown'
      <3> SUFFICES ASSUME NEW w \in Writes
                   PROVE  OpenHere(w)' /\ SettledHere(w)' /\ SettledStored(w)'
        BY DEF WritesShown
      <3>1. OpenHere(w) /\ SettledHere(w) /\ SettledStored(w)
            /\ (write[w].pc = "done" => w \in server[Owner[w]][Key(w)])
        BY DEF FreshInv, WritesShown, DoneApplied
      <3>2. CASE Key(w) # k
        <4>1. entry'[Key(w)] = entry[Key(w)]
          BY <2>1, <3>2, CacheConstants
        <4> QED  BY <2>1, <2>2, <3>1, <4>1
                 DEF OpenHere, SettledHere, SettledStored, Settled, OwnStore
      <3>3. CASE Key(w) = k
        <4>1. OpenHere(w)' /\ SettledStored(w)'
          BY <2>1, <2>2, <2>4, <3>1, <3>3 DEF OpenHere, SettledStored, Settled, OwnStore
        <4>2. SettledHere(w)'
          <5> SUFFICES ASSUME Settled(w), OwnStore(w) PROVE Reflects(entry'[k], w)
            BY <2>1, <2>2, <3>3 DEF SettledHere, Settled, OwnStore
          <5>1. Reflects(e, w) /\ w \in server[user][k]
            BY <3>1, <3>3 DEF SettledHere, Settled, OwnStore
          <5> QED  BY <2>4, <5>1 DEF Reflects, Recent
        <4> QED  BY <4>1, <4>2
      <3> QED  BY <3>2, <3>3
    <2> QED  BY <2>5, <2>6, <2>7 DEF FreshInv
  <1> QED  BY <1>1, <1>2

\* Writes.
LEMMA FreshWrite ==
    ASSUME FreshInv, CacheInv', NEW w \in Writes,
           StartWrite(w) \/ ApplyWrite(w) \/ WriteDone(w) \/ WriteFails(w)
    PROVE  FreshInv'
  <1> USE DEF session
  <1> DEFINE Progress == [pc: {"idle", "open", "done", "failed"}, sameStore: BOOLEAN]
  <1>0. /\ \A k \in Keys : entry[k] \in Entry
        /\ \A views, k : Active(views, k) \in BOOLEAN
        /\ Key(w) \in Keys /\ Owner[w] \in Users
        /\ write \in [Writes -> Progress]
        /\ server \in [Users -> [Keys -> SUBSET Writes]]
        /\ phase # "main" => open = {} /\ \A k \in Keys : entry[k] = NoEntry
    BY CacheConstants DEF FreshInv, CacheInv, StoreTypeOK, Active, Signed
  <1>1. CASE StartWrite(w)
    <2> DEFINE mutated == [k \in Keys |-> Mutated(entry[k], w)]
    <2>1. /\ UNCHANGED <<signIn, server>>
          /\ write' = [write EXCEPT ![w] = [pc |-> "open", sameStore |-> TRUE]]
          /\ phase = "main" /\ Owner[w] = user
          /\ Kind[w] \in Confirming => entry[Key(w)].data # Nothing
      <3>1. open # {}
        BY <1>1 DEF StartWrite, Tappable
      <3> QED  BY <1>0, <1>1, <3>1 DEF StartWrite, Tappable
    <2>2. PICK ks : Change(ks, mutated, {}) /\ ks \subseteq Keys
      <3> HIDE DEF mutated
      <3>1. CASE Change({Key(w)}, mutated, {})
        <4>1. {Key(w)} \subseteq Keys
          BY <1>0
        <4> QED  BY <3>1, <4>1
      <3>2. CASE UNCHANGED <<entry, floor>>
        <4>1. Change({}, mutated, {}) /\ {} \subseteq Keys
          <5>1. entry = [k \in Keys |-> entry[k]] /\ floor = [k \in Keys |-> floor[k]]
            BY DEF FreshInv, CacheInv, StoreTypeOK
          <5> QED  BY <3>2, <5>1 DEF Change
        <4> QED  BY <4>1
      <3> QED  BY <1>1, <3>1, <3>2 DEF StartWrite, mutated
    <2>3. \A k \in Keys : Follows(entry[k], mutated[k])
      BY <1>0, MutatedFollows
    <2> HIDE DEF mutated
    <2>4. Follows(entry[Key(w)], entry'[Key(w)])
      BY <1>0, <2>2, <2>3, FollowsSelf DEF Change
    <2>5. write'[w].pc = "open" /\ OpenHere(w)'
      <3>1. write'[w].pc = "open" /\ phase' = phase /\ user' = user
        BY <1>0, <2>1 DEF signIn
      <3> QED  BY <2>1, <2>4, <3>1 DEF OpenHere, OwnStore, Follows
    <2>6. \A x \in Writes \ {w} : write'[x] = write[x]
      BY <1>0, <2>1
    <2> QED  BY <2>1, <2>2, <2>3, <2>5, <2>6, FreshChange
  <1>2. CASE ApplyWrite(w)
    <2>1. UNCHANGED <<signIn, open, entry, write, floor>>
      BY <1>2 DEF ApplyWrite
    <2>2. \A u \in Users, k \in Keys : server[u][k] \subseteq server'[u][k]
      BY <1>0, <1>2 DEF ApplyWrite
    <2>3. FloorsServed'
      BY <2>1, <2>2 DEF FreshInv, FloorsServed, signIn, CacheInv, StoreTypeOK
    <2>4. DoneApplied'
      BY <2>1, <2>2, CacheConstants DEF FreshInv, DoneApplied
    <2>5. FetchesRecent' /\ WritesShown'
      BY <2>1 DEF FreshInv, signIn, FetchesRecent, WritesShown, OpenHere, SettledHere,
                  SettledStored, Settled, OwnStore
    <2> QED  BY <2>3, <2>4, <2>5 DEF FreshInv
  <1>3. CASE WriteDone(w)
    <2> DEFINE confirmed == IF Kind[w] \in Confirming THEN {Key(w)} ELSE {}
               refetched == AfterSuccess[Kind[w]]
               later(k) == IF k \in confirmed THEN Mutated(entry[k], w) ELSE entry[k]
               new == [k \in Keys |-> IF k \in refetched
                                      THEN Invalidated(later(k), Active(open, k))
                                      ELSE later(k)]
               raised == {k \in refetched : Active(open, k)}
                            \cup {k \in confirmed : entry[k].data # Nothing}
    <2>1. /\ Change(confirmed \cup refetched, new, raised) /\ UNCHANGED <<signIn, server>>
          /\ w \in server[Owner[w]][Key(w)] /\ write[w].pc = "open"
          /\ write' = [write EXCEPT ![w].pc = "done"]
      BY <1>3 DEF WriteDone
    <2>2. \A k \in Keys : /\ later(k) \in Entry /\ Follows(entry[k], later(k))
                          /\ k \in confirmed /\ entry[k].data # Nothing =>
                               Overtaken(later(k)) /\ w \in later(k).data.has
      <3> TAKE k \in Keys
      <3>1. Mutated(entry[k], w) \in Entry
        BY MineMutated DEF FreshInv, CacheInv, StoreTypeOK, Mine
      <3> QED  BY <1>0, <3>1, MutatedFollows, FollowsSelf
    <2>3. \A k \in Keys : /\ Follows(later(k), new[k])
                          /\ k \in raised => Overtaken(new[k])
                          /\ Overtaken(later(k)) => Overtaken(new[k])
      <3> TAKE k \in Keys
      <3> DEFINE l == later(k)
      <3>1. l \in Entry /\ (k \in confirmed /\ entry[k].data # Nothing => Overtaken(l))
        BY <2>2
      <3>2. new[k] = IF k \in refetched THEN Invalidated(l, Active(open, k)) ELSE l
        OBVIOUS
      <3>3. k \in raised => \/ k \in refetched /\ Active(open, k)
                            \/ k \in confirmed /\ entry[k].data # Nothing
        OBVIOUS
      <3> HIDE DEF l, new, later, raised, confirmed, refetched
      <3>4. /\ Follows(l, Invalidated(l, Active(open, k)))
            /\ Active(open, k) \/ Overtaken(l) => Overtaken(Invalidated(l, Active(open, k)))
        BY <1>0, <3>1, InvalidatedFollows
      <3> QED  BY <3>1, <3>2, <3>3, <3>4, FollowsSelf DEF l
    <2>4. \A k \in Keys : Follows(entry[k], new[k])
      <3> HIDE DEF new, later
      <3> QED  BY <2>2, <2>3, FollowsTwice
    <2>5. \A k \in Keys : k \in raised => k \in confirmed \cup refetched /\ Overtaken(new[k])
      BY <2>3
    <2>6. write'[w].pc = "done" /\ write'[w].sameStore = write[w].sameStore
          /\ \A x \in Writes \ {w} : write'[x] = write[x]
      BY <1>0, <2>1
    <2>7. write[w].sameStore =>
            OwnStore(w) /\ (Kind[w] \in Confirming => entry[Key(w)].data # Nothing)
      BY <2>1 DEF FreshInv, WritesShown, OpenHere
    <2>8. Settled(w)' => Reflects(entry[Key(w)], w)'
      <3> SUFFICES ASSUME Settled(w)' PROVE Reflects(entry'[Key(w)], w)
        OBVIOUS
      <3>1. Kind[w] \in Confirming /\ entry[Key(w)].data # Nothing
        BY <2>6, <2>7 DEF Settled
      <3>2. Key(w) \in confirmed
        BY <3>1
      <3>3. entry'[Key(w)] = new[Key(w)]
        BY <1>0, <2>1, <3>2 DEF Change
      <3> HIDE DEF new, later, confirmed, refetched, raised
      <3>4. /\ Overtaken(later(Key(w))) /\ w \in later(Key(w)).data.has
            /\ later(Key(w)).data # Nothing
        BY <1>0, <2>2, <3>1, <3>2 DEF Follows
      <3>5. Overtaken(new[Key(w)]) /\ Follows(later(Key(w)), new[Key(w)])
        BY <1>0, <2>3, <3>4
      <3> QED  BY <3>3, <3>4, <3>5, OvertakenRecent DEF Reflects, Follows
    <2> HIDE DEF confirmed, refetched, later, new, raised
    <2>9. \A x \in Writes : \/ write'[x] = write[x]
                            \/ /\ OwnStore(x) \/ ~write'[x].sameStore
                               /\ x \in server[Owner[x]][Key(x)] /\ write'[x].pc = "done"
                               /\ Settled(x)' => Reflects(entry[Key(x)], x)'
      BY <1>0, <2>1, <2>6, <2>7, <2>8
    <2> QED  BY <2>1, <2>4, <2>5, <2>9, FreshChange
  <1>4. CASE WriteFails(w)
    <2> DEFINE ks == AfterFailure[Kind[w]]
               new == [k \in Keys |-> Invalidated(entry[k], Active(open, k))]
               raised == {k \in ks : Active(open, k)}
    <2>1. Change(ks, new, raised) /\ UNCHANGED <<signIn, server>>
          /\ write' = [write EXCEPT ![w].pc = "failed"]
      BY <1>4 DEF WriteFails, InvalidateAll
    <2>2. \A k \in Keys : /\ Follows(entry[k], new[k])
                          /\ k \in raised => k \in ks /\ Overtaken(new[k])
      BY <1>0, InvalidatedFollows
    <2>3. \A x \in Writes : write'[x] = write[x] \/ write'[x].pc = "failed"
      BY <1>0, <2>1
    <2> HIDE DEF ks, new, raised
    <2> QED  BY <2>1, <2>2, <2>3, FreshChange
  <1> QED  BY <1>1, <1>2, <1>3, <1>4

\* The cache invariant, strengthened with what is fresh, holds of the specification.
LEMMA FreshInvariant == CacheSpec => []FreshInv
  <1>1. CacheInit /\ CacheInv => FreshInv
    BY DEF CacheInit, FreshInv, FloorsServed, FetchesRecent, DoneApplied, WritesShown, Recent,
           NoEntry, NoFetch, OpenHere, SettledHere, SettledStored, Settled
  <1>2. FreshInv /\ CacheInv' /\ [CacheNext]_cacheVars => FreshInv'
    <2> SUFFICES ASSUME FreshInv, CacheInv', [CacheNext]_cacheVars PROVE FreshInv'
      OBVIOUS
    <2>1. CASE CacheNext
      BY <2>1, FreshSession, FreshViews, FreshFetch, FreshWrite DEF CacheNext
    <2>2. CASE UNCHANGED cacheVars
      BY <2>2 DEF cacheVars, session, signIn, FreshInv, FloorsServed, FetchesRecent, DoneApplied, WritesShown,
                  OpenHere, SettledHere, SettledStored, Settled, OwnStore
    <2> QED  BY <2>1, <2>2
  <1> QED  BY <1>1, <1>2, CacheInvariant, PTL DEF CacheSpec

(* A fetch that may still be kept was answered after the last forced refresh *)
(* and the last confirmed change of its key (cache.ts:116, :165).            *)
THEOREM StaleNeverKept == CacheSpec => []NoStaleCommit
  <1>1. FreshInv => NoStaleCommit
    BY DEF FreshInv, FetchesRecent, Recent, NoStaleCommit
  <1> QED  BY <1>1, FreshInvariant, PTL

(* A confirmed change stays on screen, in this launch and in later ones,     *)
(* whatever fetches overlap it (cache.ts:151-175).                           *)
THEOREM ConfirmedStays == CacheSpec => []ConfirmedStaysShown
  <1>1. FreshInv => ConfirmedStaysShown
    <2> SUFFICES ASSUME FreshInv, NEW w \in Writes, Settled(w), Owner[w] = user,
                        entry[Key(w)].data # Nothing
                 PROVE  w \in entry[Key(w)].data.has
      BY DEF ConfirmedStaysShown, Settled
    <2>1. Key(w) \in Keys
      BY CacheConstants
    <2>2. phase = "main"
      BY <2>1 DEF FreshInv, CacheInv, Signed, NoEntry
    <2> QED  BY <2>2 DEF FreshInv, WritesShown, SettledHere, OwnStore, Reflects
  <1> QED  BY <1>1, FreshInvariant, PTL
=============================================================================
