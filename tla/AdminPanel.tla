------------------------------ MODULE AdminPanel ------------------------------
(***************************************************************************)
(* The admin's profile sheet (AdminSheet.tsx) and the handlers behind it   *)
(* (admin_profiles.go): blocking, deleting, removing devices, applying a   *)
(* key.                                                                    *)
(*                                                                         *)
(* The sheet works on the row it was opened from, which stays as it was    *)
(* then; the list of rows, and the list of devices, are read apart and     *)
(* arrive late or not at all.                                              *)
(***************************************************************************)
EXTENDS Naturals, FiniteSets

CONSTANTS
    Profiles,       \* accounts that are not the admin's
    ProfileDevices, \* devices
    DeviceOf,       \* DeviceOf[d]: the account device d belongs to
    Nobody

ASSUME PanelConstants ==
    /\ DeviceOf \in [ProfileDevices -> Profiles]
    /\ Nobody \notin Profiles \cup ProfileDevices

VARIABLES
    accounts,   \* users: "active", "blocked" or "gone"
    kept,       \* devices: those still there
    rows,       \* cache: the accounts as the list last showed them
    sheet,      \* sel: the account whose sheet is open, or Nobody
    profile,    \* selProfile: the row it was opened from
    devices,    \* the devices shown; Nobody = a skeleton
    loads,      \* answers of GET profiles/{id}/devices under way
    inner,      \* the sheet over it: "none", "devices" or "key"
    asking,     \* the open confirmation
    sends,      \* requests under way
    agreed      \* history: the deletions the admin said yes to

panelVars == <<accounts, kept, rows, sheet, profile, devices, loads, inner,
               asking, sends, agreed>>
dataVars  == <<accounts, kept, agreed>>
viewVars  == <<sheet, profile, inner>>

Row    == [of: Profiles, blocked: BOOLEAN]
Answer == [of: Profiles, seen: SUBSET ProfileDevices]
Act    == [what: {"block", "unblock", "delete", "device", "key"},
           on: Profiles \cup ProfileDevices]

NoAct == [what |-> "none", on |-> Nobody]

DevicesOf(p) == {d \in kept : DeviceOf[d] = p}

\* What covers the panel: a native dialog, or the overlay of a request.
Overlaid == \E s \in sends : s.what \in {"block", "unblock", "delete"}
Free     == asking = NoAct /\ ~Overlaid

\* What a tap on Block or Unblock asks the server for is the same toggle: what
\* it is called, and whether the admin is asked, goes by the row.
BlockAct == [what |-> IF profile.blocked THEN "unblock" ELSE "block", on |-> profile.of]

-----------------------------------------------------------------------------
(* Lists.                                                                   *)

\* The list of accounts, refetched after every change and whenever the app
\* resumes; it may fail, or be late.
RowsArrive ==
    /\ rows' = [p \in Profiles |-> accounts[p]]
    /\ rows' # rows
    /\ UNCHANGED <<dataVars, viewVars, devices, loads, asking, sends>>

\* An answer under way is what the backend held when it was made.
LoadAnswered(p) ==
    /\ \E l \in loads : l.of = p
    /\ loads' = {l \in loads : l.of # p} \cup {[of |-> p, seen |-> DevicesOf(p)]}
    /\ UNCHANGED <<dataVars, rows, viewVars, devices, asking, sends>>

\* Nothing ties it to the profile on the sheet; a failure shows no devices.
LoadArrives(l) ==
    /\ loads' = loads \ {l}
    /\ devices' \in {l.seen, {}}
    /\ UNCHANGED <<dataVars, rows, viewVars, asking, sends>>

-----------------------------------------------------------------------------
(* Sheets.                                                                  *)

\* setSel: the effect on profile.id loads the devices of another account.
OpenProfile(p) ==
    /\ Free /\ sheet = Nobody /\ inner = "none" /\ rows[p] # "gone"
    /\ sheet' = p
    /\ profile' = [of |-> p, blocked |-> rows[p] = "blocked"]
    /\ loads' = IF profile # Nobody /\ profile.of = p THEN loads
                ELSE loads \cup {[of |-> p, seen |-> DevicesOf(p)]}
    /\ UNCHANGED <<dataVars, rows, devices, inner, asking, sends>>

\* Telegram's back button reaches a sheet under the overlay as well.
CloseProfile ==
    /\ sheet # Nobody /\ inner = "none" /\ asking = NoAct
    /\ sheet' = Nobody
    /\ UNCHANGED <<dataVars, rows, profile, devices, loads, inner, asking, sends>>

OpenInner ==
    /\ Free /\ sheet # Nobody /\ inner = "none"
    /\ inner' \in {"devices", "key"}
    /\ UNCHANGED <<dataVars, rows, sheet, profile, devices, loads, asking, sends>>

CloseInner ==
    /\ inner # "none" /\ asking = NoAct
    /\ inner' = "none"
    /\ UNCHANGED <<dataVars, rows, sheet, profile, devices, loads, asking, sends>>

-----------------------------------------------------------------------------
(* Controls.                                                                *)

Ask(act) ==
    /\ asking' = act
    /\ UNCHANGED <<dataVars, rows, viewVars, devices, loads, sends>>

Send(act) ==
    /\ sends' = sends \cup {act}
    /\ UNCHANGED <<accounts, kept, rows, viewVars, devices, loads>>

\* block(): only a row that is not blocked is asked about.
TapBlock ==
    /\ Free /\ sheet # Nobody /\ inner = "none"
    /\ \/ BlockAct.what = "block" /\ Ask(BlockAct)
       \/ BlockAct.what = "unblock" /\ Send(BlockAct) /\ UNCHANGED <<asking, agreed>>

\* del()
TapDelete ==
    /\ Free /\ sheet # Nobody /\ inner = "none"
    /\ Ask([what |-> "delete", on |-> profile.of])

\* delDevice(): any device on the list, whichever list it is.
TapDevice ==
    /\ Free /\ inner = "devices" /\ devices # Nobody
    /\ \E d \in devices : Ask([what |-> "device", on |-> d])

\* applyKey(): one at a time.
TapKey ==
    /\ Free /\ inner = "key" /\ \A s \in sends : s.what # "key"
    /\ Send([what |-> "key", on |-> profile.of])
    /\ UNCHANGED <<asking, agreed>>

\* Mutation: the answer is not looked at.
AnsweredAny ==
    /\ asking # NoAct
    /\ asking' = NoAct
    /\ \E yes \in BOOLEAN : agreed' = IF yes THEN agreed \cup {asking} ELSE agreed
    /\ Send(asking)

\* The dialog is answered.
Answered ==
    /\ asking # NoAct
    /\ asking' = NoAct
    /\ \/ /\ agreed' = IF asking.what = "block" THEN agreed ELSE agreed \cup {asking}
          /\ Send(asking)
       \/ UNCHANGED <<dataVars, rows, viewVars, devices, loads, sends>>

-----------------------------------------------------------------------------
(* Requests.                                                                *)

\* AdminBlockProfile toggles.
Toggled(state) == CASE state = "active" -> "blocked"
                    [] state = "blocked" -> "active"
                    [] OTHER -> state

\* AdminDeleteProfileDevice goes by the device's id alone.
Deleted(d) == kept \ {d}

\* The backend serves it.  If the panel hears so, a refetch starts, and the
\* sheet goes if the request was one of its own; if not, all stays as it was.
Served(s) ==
    /\ sends' = sends \ {s}
    /\ accounts' = CASE s.what \in {"block", "unblock"} ->
                            [accounts EXCEPT ![s.on] = Toggled(@)]
                     [] s.what = "delete" -> [accounts EXCEPT ![s.on] = "gone"]
                     [] OTHER -> accounts
    /\ kept' = CASE s.what = "device" -> Deleted(s.on)
                 [] s.what = "delete" -> kept \ DevicesOf(s.on)
                 [] OTHER -> kept
    /\ \/ /\ sheet' = IF s.what \in {"device", "key"} THEN sheet ELSE Nobody
          /\ inner' = IF s.what = "key" /\ inner = "key" THEN "none" ELSE inner
          /\ devices' = IF s.what = "device" /\ devices # Nobody THEN devices \ {s.on}
                        ELSE devices
       \/ UNCHANGED <<sheet, inner, devices>>
    /\ UNCHANGED <<rows, profile, loads, asking, agreed>>

\* Refused, or lost on its way.
SendFails(s) ==
    /\ sends' = sends \ {s}
    /\ UNCHANGED <<dataVars, rows, viewVars, devices, loads, asking>>

-----------------------------------------------------------------------------
PanelInit ==
    /\ accounts = [p \in Profiles |-> "active"] /\ kept = ProfileDevices
    /\ rows = accounts
    /\ sheet = Nobody /\ profile = Nobody /\ inner = "none"
    /\ devices = Nobody /\ loads = {}
    /\ asking = NoAct /\ sends = {} /\ agreed = {}

PanelNext ==
    \/ RowsArrive
    \/ \E p \in Profiles : LoadAnswered(p) \/ OpenProfile(p)
    \/ \E l \in loads : LoadArrives(l)
    \/ CloseProfile \/ OpenInner \/ CloseInner
    \/ TapBlock \/ TapDelete \/ TapDevice \/ TapKey \/ Answered
    \/ \E s \in sends : Served(s) \/ SendFails(s)

PanelSpec == PanelInit /\ [][PanelNext]_panelVars

-----------------------------------------------------------------------------
(* Types; an open sheet is of the row it was opened from, and what opens     *)
(* over it is never left without it (AdminSheet.tsx:278, 576, 632).          *)
PanelTypeOK ==
    /\ accounts \in [Profiles -> {"active", "blocked", "gone"}]
    /\ rows \in [Profiles -> {"active", "blocked", "gone"}]
    /\ kept \subseteq ProfileDevices
    /\ sheet \in Profiles \cup {Nobody} /\ profile \in Row \cup {Nobody}
    /\ devices \in (SUBSET ProfileDevices) \cup {Nobody} /\ loads \subseteq Answer
    /\ inner \in {"none", "devices", "key"}
    /\ asking \in Act \cup {NoAct} /\ sends \subseteq Act /\ agreed \subseteq Act
    /\ sheet # Nobody => profile \in Row /\ profile.of = sheet
    /\ inner # "none" => sheet # Nobody

(* Whatever list is on the screen and whatever request is still under way,   *)
(* an account goes only after a yes to deleting that account, and a device   *)
(* after a yes to removing that device or its account                        *)
(* (AdminSheet.tsx:476, 503).                                                *)
NothingGoesUnasked ==
    /\ \A p \in Profiles : accounts[p] = "gone" => [what |-> "delete", on |-> p] \in agreed
    /\ \A d \in ProfileDevices \ kept :
          \/ [what |-> "device", on |-> d] \in agreed
          \/ [what |-> "delete", on |-> DeviceOf[d]] \in agreed

(* "Blocking cuts the user off entirely - confirm. Unblocking is             *)
(* restorative, no prompt." (AdminSheet.tsx:488)                             *)
BlockingIsConfirmed ==
    [][\A p \in Profiles : accounts[p] = "active" /\ accounts'[p] = "blocked" =>
         [what |-> "block", on |-> p] \in sends]_panelVars
=============================================================================
