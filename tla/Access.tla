------------------------------- MODULE Access -------------------------------
(***************************************************************************)
(* Who can use the VPN: the accounts, configs and devices of the database  *)
(* against the keys that xray and awg-server accept.  Provisioning, config *)
(* and device handlers, blocking, suspension, deletion and the cron jobs   *)
(* change both sides in separate statements and calls, mostly without a    *)
(* transaction (handlers/provision.go, configs.go, profile.go and          *)
(* admin_profiles.go, cron/cron.go, connect/main.go).                      *)
(*                                                                         *)
(* A request is a script of statements.  A statement that reads keys hands *)
(* them to calls, made one by one before the next statement runs.          *)
(***************************************************************************)
EXTENDS Integers, FiniteSets, Sequences

CONSTANTS
    Users,      \* accounts
    Null,
    Configs,    \* config ids, each created once; a config's base key is its id
    OwnerOf,    \* the account of a config
    Awg,        \* the AmneziaWG configs; the others are VLESS
    Installs,   \* launchers that open a subscription link
    Unique,     \* installs that send an id of their own (device_uid)
    Rows,       \* rows of the devices table
    Keys,       \* device keys, each minted once
    Limits,     \* values of device_limit; 0 is unlimited
    Requests,   \* handlers that may run at once
    Ops,        \* the kinds of requests that are made
    Jobs,       \* the cron jobs that run
    Faults      \* servers may not answer or restart, statements may fail, and
                \* requests may be cut off

JobNames == {"reconcile", "revoke", "cleanup"}
RequestOps ==
    {"provision", "visit", "createConfig", "ensureConfig", "deleteVless", "deleteAwg",
     "blockDevice", "deleteDevice", "resetSessions", "reset", "purge", "toggleBlock"}
Procs    == Requests \cup Jobs
AllKeys  == Keys \cup Configs

ASSUME AccessConstants ==
    /\ OwnerOf \in [Configs -> Users]
    /\ Awg \subseteq Configs /\ Unique \subseteq Installs
    /\ Limits \subseteq Nat /\ Limits # {}
    /\ Ops \subseteq RequestOps /\ Jobs \subseteq JobNames /\ Requests \cap Jobs = {}
    /\ Faults \in BOOLEAN
    /\ Keys \cap Configs = {}
    /\ Null \notin Users \cup Configs \cup Installs \cup Rows \cup Keys
    /\ IsFiniteSet(Rows)

VARIABLES
    accounts,   \* the users table
    configs,    \* the active rows of vpn_configs
    rows,       \* the devices table
    served,     \* keys registered in xray, and AmneziaWG peers that are enabled
    peers,      \* peers that awg-server keeps, enabled or not
    minted,     \* history: the account a device key was minted for
    made,       \* history: configs whose creation began
    procs,      \* the handlers and jobs in progress
    disturbed   \* history: accounts on which a request that adds keys overlapped
                \* another one, a call failed or a request was cut off

vars == <<accounts, configs, rows, served, peers, minted, made, procs, disturbed>>

Account ==
    [exists: BOOLEAN, blocked: BOOLEAN, limit: Limits,
     plan: {"unlimited", "running", "lapsed"}]      \* paid_until: NULL, later, past

\* key: the device's own, the config's after a failed registration, or none.
\* counted (history): the row entered under the limit and was never unblocked.
DeviceRow ==
    [user: Users, inst: Installs, key: AllKeys \cup {Null},
     blocked: BOOLEAN, stale: BOOLEAN, counted: BOOLEAN]

NoRow == [user |-> Null, inst |-> Null, key |-> Null,
          blocked |-> FALSE, stale |-> FALSE, counted |-> FALSE]

UserRows(u)    == {r \in Rows : rows[r].user = u}
UserConfigs(u) == {c \in configs : OwnerOf[c] = u}
DeviceKeys(S)  == {rows[r].key : r \in S} \cap Keys
Entitled(u)    == accounts[u].exists /\ ~accounts[u].blocked /\ accounts[u].plan # "lapsed"

-----------------------------------------------------------------------------
(* Requests.                                                                *)

\* op: what runs; user: the account it is about, Null for all; step: the statement
\* of its script that is next; todo: keys for the calls, which add or remove them.
WipedFirst == <<"wipeDevices", "readDevices">>     \* Mutation: rows go before keys.

DropDevices == <<"readDevices", "wipeDevices">>

Script ==
    [idle          |-> <<>>,
     provision     |-> <<"gate", "lookup", "lock", "register", "store">>,
     visit         |-> <<"touch", "enter">>,
     createConfig  |-> <<"check", "arm", "insert">>,
     ensureConfig  |-> <<"check", "count", "insert", "arm">>,
     deleteVless   |-> <<"readConfig">> \o DropDevices \o <<"dropConfig">>,
     deleteAwg     |-> <<"readConfig", "dropConfig">>,
     blockDevice   |-> <<"readRow", "blockRow">>,
     deleteDevice  |-> <<"readRow", "deleteRow">>,
     resetSessions |-> DropDevices,
     suspend       |-> DropDevices \o <<"readConfigs">>,
     reset         |-> DropDevices \o <<"readConfigs", "dropConfigs">>,
     purge         |-> <<"readConfigs", "readPeers", "dropUser">>,
     toggleBlock   |-> <<"toggle", "readDevices", "readConfigs">>,
     reconcile     |-> <<"readDevices", "readConfigs">>,
     cleanup       |-> <<"readStale", "wipeStale">>]

Proc ==
    [op: RequestOps \cup {"idle", "suspend", "reconcile", "cleanup"},
     user: Users \cup {Null}, step: 1 .. 6, todo: SUBSET AllKeys, adds: BOOLEAN,
     config: Configs \cup {Null}, inst: Installs \cup {Null}, row: Rows \cup {Null},
     key: AllKeys \cup {Null}, limit: Limits \cup {Null},
     due: SUBSET Users]         \* accounts revokeExpiredSubs still has to suspend

Idle == [op |-> "idle", user |-> Null, step |-> 1, todo |-> {}, adds |-> FALSE,
         config |-> Null, inst |-> Null, row |-> Null, key |-> Null, limit |-> Null,
         due |-> {}]

Ended(proc) == proc.step > Len(Script[proc.op])

\* What p executes after its calls.
Statement(p) ==
    IF Ended(procs[p]) THEN "end" ELSE Script[procs[p].op][procs[p].step]

At(p, statement) == Statement(p) = statement /\ procs[p].todo = {}

\* p goes on as proc, or has ended.
Go(p, proc) ==
    procs' = [procs EXCEPT ![p] = IF Ended(proc) /\ proc.todo = {} /\ proc.due = {}
                                  THEN Idle ELSE proc]

Advance(p, proc) == Go(p, [proc EXCEPT !.step = @ + 1])

Concerns(p, u) ==
    /\ procs[p].op # "idle"
    /\ procs[p].user \in {u, Null} \/ u \in procs[p].due

Adding == {"provision", "createConfig", "ensureConfig", "toggleBlock", "reconcile"}

NeverLocked(u) == FALSE     \* Mutation: no FOR UPDATE.

\* The transactions of provision and ensureConfig hold the lock of the account's row.
Locked(u) ==
    \E p \in Procs : /\ procs[p].user = u
                     /\ \/ Statement(p) \in {"register", "store"}
                        \/ procs[p].op = "ensureConfig" /\ Statement(p) = "insert"

Overlapped(op, u) ==
    {v \in Users : /\ u \in {v, Null}
                   /\ \E p \in Procs : Concerns(p, v) /\ {op, procs[p].op} \cap Adding # {}}

Started(op, u, c, i, r) ==
    [Idle EXCEPT !.op = op, !.user = u, !.config = c, !.inst = i, !.row = r,
                 !.adds = (op = "reconcile")]

Start(p, op, u, c, i, r) ==
    /\ procs[p].op = "idle" /\ op \in Ops \cup Jobs
    /\ procs' = [procs EXCEPT ![p] = Started(op, u, c, i, r)]
    /\ disturbed' = disturbed \cup Overlapped(op, u)

\* A launcher refreshes its link; connect visits on its own if the api is away.
BeginDevice(p) ==
    /\ \E op \in {"provision"} \cup (IF Faults THEN {"visit"} ELSE {}),
          c \in configs, i \in Installs : Start(p, op, OwnerOf[c], c, i, Null)
    /\ UNCHANGED <<accounts, configs, rows, served, peers, minted, made>>

BeginRow(p) ==
    /\ \E op \in {"blockDevice", "deleteDevice"}, r \in Rows :
          rows[r] # NoRow /\ Start(p, op, rows[r].user, Null, Null, r)
    /\ UNCHANGED <<accounts, configs, rows, served, peers, minted, made>>

BeginAccount(p) ==
    /\ \E op \in {"resetSessions", "reset", "purge", "toggleBlock"}, u \in Users :
          accounts[u].exists /\ Start(p, op, u, Null, Null, Null)
    /\ UNCHANGED <<accounts, configs, rows, served, peers, minted, made>>

\* A blocked account is refused, unless that check fails.
BeginCreate(p) ==
    /\ \E c \in Configs \ made, op \in {"createConfig", "ensureConfig"} :
          LET u == OwnerOf[c]
          IN  /\ op = "ensureConfig" => c \notin Awg
              /\ accounts[u].blocked => Faults
              /\ procs[p].op = "idle" /\ op \in Ops
              /\ procs' = [procs EXCEPT ![p] = Started(op, u, c, Null, Null)]
              /\ disturbed' = disturbed \cup Overlapped(op, u)
                                \cup {v \in {u} : accounts[v].blocked}
              /\ made' = made \cup {c}
    /\ UNCHANGED <<accounts, configs, rows, served, peers, minted>>

BeginDelete(p) ==
    /\ \E c \in configs :
          Start(p, IF c \in Awg THEN "deleteAwg" ELSE "deleteVless", OwnerOf[c], c, Null, Null)
    /\ UNCHANGED <<accounts, configs, rows, served, peers, minted, made>>

\* reconcileXray and cleanupDevices.
BeginJob(p) ==
    /\ p \in {"reconcile", "cleanup"}
    /\ Start(p, p, Null, Null, Null, Null)
    /\ UNCHANGED <<accounts, configs, rows, served, peers, minted, made>>

\* Mutation: only accounts with a device count as active.
DueWithDevices ==
    {u \in Users : accounts[u].exists /\ accounts[u].plan = "lapsed"
                   /\ \E r \in UserRows(u) : ~rows[r].blocked}

Due == {u \in Users : /\ accounts[u].exists /\ accounts[u].plan = "lapsed"
                      /\ UserConfigs(u) # {} \/ \E r \in UserRows(u) : ~rows[r].blocked}

\* revokeExpiredSubs reads who has lapsed and then suspends one by one.
BeginRevoke(p) ==
    /\ p = "revoke" /\ procs[p].op = "idle" /\ Due # {}
    /\ procs' = [procs EXCEPT ![p] = [Idle EXCEPT !.op = "suspend", !.due = Due,
                                       !.step = Len(Script["suspend"]) + 1]]
    /\ disturbed' = disturbed \cup {u \in Due : Overlapped("suspend", u) # {}}
    /\ UNCHANGED <<accounts, configs, rows, served, peers, minted, made>>

SuspendNext(p) ==
    /\ At(p, "end")
    /\ \E u \in procs[p].due :
          procs' = [procs EXCEPT ![p].user = u, ![p].step = 1, ![p].due = @ \ {u}]
    /\ UNCHANGED <<accounts, configs, rows, served, peers, minted, made, disturbed>>

\* A client that hangs up, a timeout, a failed statement or a restart of the api
\* cuts it off.
CutOff(p) ==
    /\ Faults
    /\ procs[p].op # "idle"
    /\ procs' = [procs EXCEPT ![p] = Idle]
    /\ disturbed' = disturbed \cup {u \in Users : Concerns(p, u)}
    /\ UNCHANGED <<accounts, configs, rows, served, peers, minted, made>>

-----------------------------------------------------------------------------
(* Revoking and restoring: statements that read keys, and the calls.        *)

\* Mutation: accounts whose paid_until is NULL are left out.
RearmedTimed(u) == Entitled(u) /\ accounts[u].plan = "running"

\* Mutation: the block is not looked at.
RearmedBlocked(u) == accounts[u].exists /\ accounts[u].plan # "lapsed"

\* The accounts whose keys reconcileXray adds.
Rearmed(u) == Entitled(u)

\* The device rows a handler about one account reads.
RowsOf(p) == UserRows(procs[p].user)

ScopeRows(p) ==
    IF procs[p].op # "reconcile" THEN RowsOf(p)
    ELSE {r \in Rows : rows[r] # NoRow /\ ~rows[r].blocked /\ Rearmed(rows[r].user)}

\* setUserVPNBlocked and reconcileXray know VLESS configs only; purgeUser reads
\* the AmneziaWG ones by a query of their own.
ScopeConfigs(p) ==
    CASE procs[p].op = "reconcile"   -> {c \in configs \ Awg : Rearmed(OwnerOf[c])}
      [] procs[p].op \in {"toggleBlock", "purge"} -> UserConfigs(procs[p].user) \ Awg
      [] OTHER                       -> UserConfigs(procs[p].user)

Read(p, keys) ==
    /\ Advance(p, [procs[p] EXCEPT !.todo = keys])
    /\ UNCHANGED <<accounts, configs, rows, served, peers, minted, made, disturbed>>

ReadDevices(p) == At(p, "readDevices") /\ Read(p, DeviceKeys(ScopeRows(p)))
ReadConfigs(p) == At(p, "readConfigs") /\ Read(p, ScopeConfigs(p))
ReadPeers(p)   == At(p, "readPeers") /\ Read(p, UserConfigs(procs[p].user) \cap Awg)
ReadRow(p)     == At(p, "readRow") /\ Read(p, DeviceKeys({procs[p].row}))
ReadConfig(p)  == At(p, "readConfig") /\ procs[p].config \in configs /\ Read(p, {procs[p].config})
ReadStale(p)   ==
    At(p, "readStale") /\ Read(p, DeviceKeys({r \in Rows : rows[r].stale /\ ~rows[r].blocked}))

\* The error of a read or a delete goes unnoticed (cleanupDevices stops instead).
SkipStatement(p) ==
    /\ Faults
    /\ \E s \in {"readDevices", "readConfigs", "readPeers", "readRow", "wipeDevices",
                 "dropConfigs"} : At(p, s)
    /\ Advance(p, procs[p])
    /\ disturbed' = disturbed \cup {u \in Users : Concerns(p, u)}
    /\ UNCHANGED <<accounts, configs, rows, served, peers, minted, made>>

\* AddUser, or RemoveUser or the deletion of a peer.
Call(p) ==
    /\ \E k \in procs[p].todo :
          /\ Go(p, [procs[p] EXCEPT !.todo = @ \ {k}])
          /\ IF procs[p].adds THEN served' = served \cup {k} /\ UNCHANGED peers
             ELSE served' = served \ {k} /\ peers' = peers \ {k}
    /\ UNCHANGED <<accounts, configs, rows, minted, made, disturbed>>

\* The server cannot be reached: logged or ignored.
CallFails(p) ==
    /\ Faults
    /\ \E k \in procs[p].todo : Go(p, [procs[p] EXCEPT !.todo = @ \ {k}])
    /\ disturbed' = disturbed \cup {u \in Users : Concerns(p, u)}
    /\ UNCHANGED <<accounts, configs, rows, served, peers, minted, made>>

\* The statements that follow the calls.
Wipe(p, S) ==
    /\ rows' = [r \in Rows |-> IF r \in S THEN NoRow ELSE rows[r]]
    /\ Advance(p, procs[p])
    /\ UNCHANGED <<accounts, configs, served, peers, minted, made, disturbed>>

WipeDevices(p) == At(p, "wipeDevices") /\ Wipe(p, UserRows(procs[p].user))
DeleteRow(p)   == At(p, "deleteRow") /\ Wipe(p, {procs[p].row})
WipeStale(p)   == At(p, "wipeStale") /\ Wipe(p, {r \in Rows : rows[r].stale /\ ~rows[r].blocked})

\* Mutation: an upsert brings a deleted row back.
BlockRowUpserts(p) ==
    /\ At(p, "blockRow")
    /\ rows' = [rows EXCEPT ![procs[p].row].blocked = TRUE, ![procs[p].row].key = Null]
    /\ Advance(p, procs[p])
    /\ UNCHANGED <<accounts, configs, served, peers, minted, made, disturbed>>

BlockRow(p) ==
    /\ At(p, "blockRow")
    /\ rows' = IF rows[procs[p].row] = NoRow THEN rows
               ELSE [rows EXCEPT ![procs[p].row].blocked = TRUE, ![procs[p].row].key = Null]
    /\ Advance(p, procs[p])
    /\ UNCHANGED <<accounts, configs, served, peers, minted, made, disturbed>>

DropConfigs(p) ==
    /\ \/ At(p, "dropConfigs") /\ configs' = configs \ UserConfigs(procs[p].user)
       \/ At(p, "dropConfig") /\ configs' = configs \ {procs[p].config}
    /\ Advance(p, procs[p])
    /\ UNCHANGED <<accounts, rows, served, peers, minted, made, disturbed>>

\* AdminBlockProfile flips the flag, then setUserVPNBlocked removes the keys, or
\* adds them again.
Toggle(p) ==
    LET u == procs[p].user
    IN  /\ At(p, "toggle") /\ accounts[u].exists /\ ~Locked(u)
        /\ accounts' = [accounts EXCEPT ![u].blocked = ~@]
        /\ Advance(p, [procs[p] EXCEPT !.adds = accounts[u].blocked])
        /\ UNCHANGED <<configs, rows, served, peers, minted, made, disturbed>>

\* purgeUser's DELETE cascades to configs and devices.
DropUser(p) ==
    LET u == procs[p].user
    IN  /\ At(p, "dropUser") /\ ~Locked(u)
        /\ accounts' = [accounts EXCEPT ![u].exists = FALSE]
        /\ configs' = configs \ UserConfigs(u)
        /\ rows' = [r \in Rows |-> IF rows[r].user = u THEN NoRow ELSE rows[r]]
        /\ Advance(p, procs[p])
        /\ UNCHANGED <<served, peers, minted, made, disturbed>>

-----------------------------------------------------------------------------
(* ProvisionDevice.                                                         *)

\* The config is active, the account neither lapsed nor blocked; its limit.
Gate(p) ==
    /\ At(p, "gate") /\ procs[p].config \in configs /\ Entitled(procs[p].user)
    /\ Advance(p, [procs[p] EXCEPT !.limit = accounts[procs[p].user].limit])
    /\ UNCHANGED <<accounts, configs, rows, served, peers, minted, made, disturbed>>

Matching(p) == {r \in UserRows(procs[p].user) : rows[r].inst = procs[p].inst}

\* A device that has a key keeps it and is seen; one without goes on.
Lookup(p) ==
    /\ At(p, "lookup")
    /\ \/ \E r \in Matching(p) :
            /\ ~rows[r].blocked /\ rows[r].key # Null
            /\ rows' = [rows EXCEPT ![r].stale = FALSE]
            /\ procs' = [procs EXCEPT ![p] = Idle]
       \/ \E r \in Matching(p) :
            /\ ~rows[r].blocked /\ rows[r].key = Null
            /\ Advance(p, [procs[p] EXCEPT !.row = r])
            /\ UNCHANGED rows
       \/ Matching(p) = {} /\ Advance(p, procs[p]) /\ UNCHANGED rows
    /\ UNCHANGED <<accounts, configs, served, peers, minted, made, disturbed>>

AtLimit(p) ==
    /\ procs[p].limit > 0
    /\ Cardinality({r \in UserRows(procs[p].user) : ~rows[r].blocked}) >= procs[p].limit

Lock(p) ==
    /\ At(p, "lock") /\ ~Locked(procs[p].user) /\ ~AtLimit(p)
    /\ Advance(p, procs[p])
    /\ UNCHANGED <<accounts, configs, rows, served, peers, minted, made, disturbed>>

\* A fresh key; if AddUser fails (perhaps for one inbound only), the config's.
Register(p) ==
    /\ At(p, "register")
    /\ \E k \in {j \in Keys : minted[j] = Null} :
         /\ minted' = [minted EXCEPT ![k] = procs[p].user]
         /\ \/ /\ served' = served \cup {k}
               /\ Advance(p, [procs[p] EXCEPT !.key = k])
               /\ UNCHANGED disturbed
            \/ /\ Faults
               /\ served' \in {served, served \cup {k}}
               /\ Advance(p, [procs[p] EXCEPT !.key = IF procs[p].config \in Awg THEN Null
                                                      ELSE procs[p].config])
               /\ disturbed' = disturbed \cup {procs[p].user}
    /\ UNCHANGED <<accounts, configs, rows, peers, made>>

\* devices_uid_uniq refuses a second row.
Duplicate(p) == procs[p].inst \in Unique /\ Matching(p) # {}

\* Ids are not used again: no request knows a row that is yet to be.
NewRow(p, key, counted) ==
    \E r \in Rows :
        /\ rows[r] = NoRow /\ \A q \in Procs : procs[q].row # r
        /\ rows' = [rows EXCEPT ![r] = [user |-> procs[p].user, inst |-> procs[p].inst,
                                        key |-> key, blocked |-> FALSE, stale |-> FALSE,
                                        counted |-> counted]]

\* The row is written and the transaction committed, or rolled back when the
\* insert is refused; the registered key stays in either case.
Store(p) ==
    LET r == procs[p].row
    IN  /\ At(p, "store")
        /\ \/ /\ r = Null /\ accounts[procs[p].user].exists /\ ~Duplicate(p)
              /\ NewRow(p, procs[p].key, TRUE)
              /\ UNCHANGED disturbed
           \/ /\ r = Null /\ (Duplicate(p) \/ ~accounts[procs[p].user].exists)
              /\ disturbed' = disturbed \cup {procs[p].user}
              /\ UNCHANGED rows
           \/ /\ r # Null
              /\ rows' = IF rows[r] = NoRow THEN rows
                         ELSE [rows EXCEPT ![r].key = procs[p].key, ![r].stale = FALSE]
              /\ UNCHANGED disturbed
        /\ procs' = [procs EXCEPT ![p] = Idle]
        /\ UNCHANGED <<accounts, configs, served, peers, minted, made>>

\* connect could not reach the api: it hands out the stored link and records the
\* visit, whatever the limit.
Visit(p) ==
    /\ \/ /\ At(p, "touch") /\ Matching(p) # {}
          /\ rows' = [r \in Rows |-> IF r \in Matching(p) THEN [rows[r] EXCEPT !.stale = FALSE]
                                     ELSE rows[r]]
          /\ procs' = [procs EXCEPT ![p] = Idle]
       \/ At(p, "touch") /\ Matching(p) = {} /\ Advance(p, procs[p]) /\ UNCHANGED rows
       \/ /\ At(p, "enter")
          /\ \/ /\ accounts[procs[p].user].exists /\ ~Locked(procs[p].user) /\ ~Duplicate(p)
                /\ NewRow(p, Null, FALSE)
             \/ (~accounts[procs[p].user].exists \/ Duplicate(p)) /\ UNCHANGED rows
          /\ procs' = [procs EXCEPT ![p] = Idle]
    /\ UNCHANGED <<accounts, configs, served, peers, minted, made, disturbed>>

-----------------------------------------------------------------------------
(* CreateConfig, and ensureUserConfig, which inserts before it adds the key.  *)

MayCreate(u) == accounts[u].exists /\ accounts[u].plan # "lapsed"

Check(p) ==
    /\ At(p, "check") /\ MayCreate(procs[p].user)
    /\ Advance(p, procs[p])
    /\ UNCHANGED <<accounts, configs, rows, served, peers, minted, made, disturbed>>

\* ensureUserConfig locks the account's row; it has a config or not.
CountConfigs(p) ==
    /\ At(p, "count") /\ ~Locked(procs[p].user) /\ UserConfigs(procs[p].user) = {}
    /\ Advance(p, procs[p])
    /\ UNCHANGED <<accounts, configs, rows, served, peers, minted, made, disturbed>>

\* 403 or 404: the config, the account, the device or the limit refuses; nothing to
\* do for ensureUserConfig.
Refuse(p) ==
    LET u == procs[p].user
    IN  /\ \/ At(p, "gate") /\ ~(procs[p].config \in configs /\ Entitled(u))
           \/ At(p, "lookup") /\ \E r \in Matching(p) : rows[r].blocked
           \/ At(p, "lock") /\ ~Locked(u) /\ AtLimit(p)
           \/ At(p, "check") /\ ~MayCreate(u)
           \/ At(p, "count") /\ ~Locked(u) /\ UserConfigs(u) # {}
           \/ At(p, "readConfig") /\ procs[p].config \notin configs
           \/ At(p, "toggle") /\ ~accounts[u].exists
        /\ procs' = [procs EXCEPT ![p] = Idle]
        /\ UNCHANGED <<accounts, configs, rows, served, peers, minted, made, disturbed>>

\* A VLESS config goes on if AddUser fails, an AmneziaWG one does not.
Arm(p) ==
    LET c == procs[p].config
    IN  /\ At(p, "arm")
        /\ \/ /\ served' = served \cup {c}
              /\ peers' = peers \cup ({c} \cap Awg)
              /\ Advance(p, procs[p])
              /\ UNCHANGED disturbed
           \/ /\ Faults
              /\ IF c \in Awg THEN procs' = [procs EXCEPT ![p] = Idle] ELSE Advance(p, procs[p])
              /\ disturbed' = disturbed \cup {procs[p].user}
              /\ UNCHANGED <<served, peers>>
        /\ UNCHANGED <<accounts, configs, rows, minted, made>>

\* The insert is refused when the account is gone; the peer is rolled back then,
\* a VLESS key is not.
Insert(p) ==
    LET c == procs[p].config
        u == procs[p].user
    IN  /\ At(p, "insert") /\ (Locked(u) => procs[p].op = "ensureConfig")
        /\ \/ /\ accounts[u].exists
              /\ configs' = configs \cup {c}
              /\ Advance(p, procs[p])
              /\ UNCHANGED <<served, peers>>
           \/ /\ ~accounts[u].exists
              /\ served' = served \ ({c} \cap Awg) /\ peers' = peers \ {c}
              /\ procs' = [procs EXCEPT ![p] = Idle]
              /\ UNCHANGED configs
        /\ UNCHANGED <<accounts, rows, minted, made, disturbed>>

-----------------------------------------------------------------------------
(* Single statements and calls, and the world outside.                      *)

UnblockDevice(r) ==
    /\ rows[r] # NoRow
    /\ rows' = [rows EXCEPT ![r].blocked = FALSE, ![r].counted = FALSE]
    /\ UNCHANGED <<accounts, configs, served, peers, minted, made, procs, disturbed>>

\* Blocking or unblocking an AmneziaWG "device" toggles its peer, if there is one.
SetPeerEnabled(c) ==
    /\ c \in configs \cap Awg \cap peers
    /\ served' \in {served \cup {c}, served \ {c}}
    /\ UNCHANGED <<accounts, configs, rows, peers, minted, made, procs, disturbed>>

UpdateDeviceLimit(u) ==
    /\ accounts[u].exists /\ ~Locked(u)
    /\ \E n \in Limits : accounts' = [accounts EXCEPT ![u].limit = n]
    /\ UNCHANGED <<configs, rows, served, peers, minted, made, procs, disturbed>>

\* paid_until passes, or a payment, key or grant moves it (see Billing).
Lapse(u) ==
    /\ accounts[u].plan = "running"
    /\ accounts' = [accounts EXCEPT ![u].plan = "lapsed"]
    /\ UNCHANGED <<configs, rows, served, peers, minted, made, procs, disturbed>>

Renew(u) ==
    /\ accounts[u].exists /\ accounts[u].plan = "lapsed" /\ ~Locked(u)
    /\ accounts' = [accounts EXCEPT ![u].plan = "running"]
    /\ UNCHANGED <<configs, rows, served, peers, minted, made, procs, disturbed>>

\* A device has not been seen for thirty days; one that is deleted as stale
\* although the cleanup did not read its key keeps it.
GoStale(r) ==
    /\ "cleanup" \in Jobs
    /\ rows[r] # NoRow /\ ~rows[r].stale
    /\ rows' = [rows EXCEPT ![r].stale = TRUE]
    /\ disturbed' = disturbed \cup {u \in {rows[r].user} :
                        \E p \in Procs : procs[p].op = "cleanup"}
    /\ UNCHANGED <<accounts, configs, served, peers, minted, made, procs>>

\* xray forgets its users; awg-server keeps its peers.
XrayRestart ==
    /\ Faults
    /\ served' = served \cap Awg
    /\ UNCHANGED <<accounts, configs, rows, peers, minted, made, procs, disturbed>>

-----------------------------------------------------------------------------
Init ==
    /\ accounts \in [Users -> {[exists |-> TRUE, blocked |-> FALSE, limit |-> n, plan |-> s] :
                                 n \in Limits, s \in {"unlimited", "running"}}]
    /\ configs = {}
    /\ rows = [r \in Rows |-> NoRow]
    /\ served = {} /\ peers = {}
    /\ minted = [k \in Keys |-> Null] /\ made = {}
    /\ procs = [p \in Procs |-> Idle]
    /\ disturbed = {}

RequestBegins(p) ==
    BeginDevice(p) \/ BeginRow(p) \/ BeginAccount(p) \/ BeginCreate(p) \/ BeginDelete(p)

JobStep(p) ==
    \/ BeginJob(p) \/ BeginRevoke(p) \/ SuspendNext(p)
    \/ ReadDevices(p) \/ ReadConfigs(p) \/ ReadStale(p)
    \/ Call(p) \/ WipeDevices(p) \/ WipeStale(p)

RequestStep(p) ==
    \/ ReadDevices(p) \/ ReadConfigs(p) \/ ReadPeers(p) \/ ReadRow(p) \/ ReadConfig(p)
    \/ Call(p) \/ WipeDevices(p) \/ DeleteRow(p) \/ BlockRow(p)
    \/ DropConfigs(p) \/ Toggle(p) \/ DropUser(p)
    \/ Gate(p) \/ Lookup(p) \/ Lock(p) \/ Register(p) \/ Store(p) \/ Visit(p)
    \/ Check(p) \/ CountConfigs(p) \/ Arm(p) \/ Insert(p) \/ Refuse(p)

Next ==
    \/ \E p \in Requests : RequestBegins(p) \/ RequestStep(p)
    \/ \E p \in Jobs : JobStep(p)
    \/ \E p \in Procs : SkipStatement(p) \/ CallFails(p) \/ CutOff(p)
    \/ \E r \in Rows : UnblockDevice(r) \/ GoStale(r)
    \/ \E c \in Configs : SetPeerEnabled(c)
    \/ \E u \in Users : UpdateDeviceLimit(u) \/ Lapse(u) \/ Renew(u)
    \/ XrayRestart

Spec == Init /\ [][Next]_vars

Fault ==
    \/ \E p \in Procs : SkipStatement(p) \/ CallFails(p) \/ CutOff(p)
    \/ XrayRestart

\* Cron starts its jobs again and again and they go on; xray, awg-server and the
\* database eventually stay up.
JobFairness ==
    /\ \A p \in Jobs : WF_procs(JobStep(p))
    /\ <>[][~Fault]_<<procs, served>>

FairSpec == Spec /\ JobFairness

-----------------------------------------------------------------------------
(* Properties.                                                              *)

TypeOK ==
    /\ accounts \in [Users -> Account]
    /\ configs \subseteq made /\ made \subseteq Configs
    /\ rows \in [Rows -> DeviceRow \cup {NoRow}]
    /\ served \subseteq AllKeys /\ peers \subseteq Awg
    /\ minted \in [Keys -> Users \cup {Null}]
    /\ procs \in [Procs -> Proc]
    /\ disturbed \subseteq Users

(***************************************************************************)
(* "device limit under row locking (no race)" (STATUS.md:51): when a new   *)
(* row is committed, the account has no more unblocked rows than the limit *)
(* its provisioning read, not counting rows the limit does not govern:     *)
(* those unblocked again and those connect records without the api         *)
(* (provision.go:165-212).                                                 *)
(***************************************************************************)
InsertWithinLimit ==
    [][\A p \in Requests :
         LET u       == procs[p].user
             commits == /\ At(p, "store") /\ procs'[p].op = "idle"
                        /\ procs[p].row = Null /\ procs[p].limit > 0
         IN  commits => Cardinality({r \in Rows : /\ rows'[r].user = u
                                                  /\ ~rows'[r].blocked /\ rows'[r].counted})
                          <= procs[p].limit]_rows

\* The account that a key gives access to.
Belongs(k, u) == IF k \in Configs THEN OwnerOf[k] = u ELSE minted[k] = u

\* Keys of the account's rows and configs, those about to be removed, and those
\* about to be stored.
HeldKeys(u) ==
    DeviceKeys(UserRows(u)) \cup UserConfigs(u)
    \cup UNION {procs[p].todo \cup {procs[p].key, procs[p].config} :
                  p \in {q \in Procs : Concerns(q, u)}}

(***************************************************************************)
(* No key outlives its device or config, whichever revocations overlap one *)
(* another: a key that is accepted belongs to a row of an existing account *)
(* unless an adding request raced, a call failed or a request was cut off  *)
(* (profile.go:245-451, configs.go:355-420, cron.go:423-457).              *)
(***************************************************************************)
NoStrayKeys ==
    \A u \in Users \ disturbed :
        accounts[u].exists => {k \in served : Belongs(k, u)} \subseteq HeldKeys(u)

(***************************************************************************)
(* A blocked account has no VLESS key, also after restarts of xray and     *)
(* runs of reconcileXray, once the block has been carried through          *)
(* (admin_profiles.go:263-295, cron.go:168-190).                           *)
(***************************************************************************)
BlockedHasNoVlessKey ==
    \A u \in Users \ disturbed :
        /\ accounts[u].exists /\ accounts[u].blocked
        /\ \A p \in Procs : ~Concerns(p, u)
        => \A k \in served \ Awg : ~Belongs(k, u)

HoldsKey(u, k) ==
    /\ Entitled(u)
    /\ \/ k \in UserConfigs(u) \ Awg
       \/ \E r \in UserRows(u) : ~rows[r].blocked /\ rows[r].key = k /\ k \in Keys

(***************************************************************************)
(* An entitled account's VLESS configs and devices work again, whatever    *)
(* xray forgot and whichever calls failed: reconcileXray adds their keys   *)
(* (cron.go:160-205, for unlimited accounts too).                          *)
(***************************************************************************)
HeldKeyServed ==
    \A u \in Users, k \in AllKeys : HoldsKey(u, k) ~> (k \in served \/ ~HoldsKey(u, k))

LapsedConfig(c) == c \in configs /\ accounts[OwnerOf[c]].plan = "lapsed"

(***************************************************************************)
(* The base key of a lapsed account's config is eventually revoked, or the *)
(* account renews, is deleted or loses the config: revokeExpiredSubs keeps *)
(* coming back while the config is there (cron.go:214-241,                 *)
(* profile.go:405-451).                                                    *)
(***************************************************************************)
LapsedConfigRevoked ==
    \A c \in Configs : LapsedConfig(c) ~> (c \notin served \/ ~LapsedConfig(c))

-----------------------------------------------------------------------------
(* What comments say of the program and its steps refute.                   *)

(***************************************************************************)
(* "purgeUser removes all VLESS clients from xray, then deletes the user   *)
(* row" (profile.go:575).                                                  *)
(***************************************************************************)
PurgeRemovesClients ==
    [][\A u \in Users \ disturbed :
         accounts[u].exists /\ ~accounts'[u].exists
           => \A k \in served \ Awg : ~Belongs(k, u)]_accounts

(***************************************************************************)
(* "A blocked account loses VPN access entirely" (provision.go:71).        *)
(***************************************************************************)
BlockedLosesAccess ==
    \A u \in Users \ disturbed :
        /\ accounts[u].exists /\ accounts[u].blocked
        /\ \A p \in Procs : ~Concerns(p, u)
        => \A k \in served : ~Belongs(k, u)

(***************************************************************************)
(* "renewing brings the SAME link back to life" (cron.go:210): a config of *)
(* an entitled account works again.                                        *)
(***************************************************************************)
RenewedConfigServed ==
    \A c \in Configs :
        LET wanted == c \in configs /\ Entitled(OwnerOf[c])
        IN  wanted ~> (c \in served \/ ~wanted)
=============================================================================
