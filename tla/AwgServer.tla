------------------------------ MODULE AwgServer ------------------------------
(***************************************************************************)
(* awg-server (awg-server/main.go): AmneziaWG peers, kept as client        *)
(* records in a map, on the awg0 interface and in clients.json.            *)
(*                                                                         *)
(* Requests run concurrently.  The map's lock covers each access and, for  *)
(* reading, each save; the awg command and the Enabled field are outside   *)
(* it.  A save writes clients.json.tmp and renames it.  Saves hold the     *)
(* lock for reading, so several may be writing that one file.              *)
(***************************************************************************)
EXTENDS Naturals, FiniteSets

CONSTANTS
    Clients,    \* client ids; a client's key pair has no other user
    MaxAddr,    \* host numbers are 2 .. MaxAddr (254)
    Requests,   \* requests that may be in flight at once
    Null,
    Torn,       \* a file that is no complete list
    MaxFailures \* bound on failures of any kind (model checking only)

Addrs == 2 .. MaxAddr

ASSUME AwgConstants ==
    /\ MaxAddr \in Nat /\ MaxAddr >= 2
    /\ IsFiniteSet(Requests)
    /\ Null \notin Clients \cup Nat
    /\ \A l \in SUBSET (Clients \X Addrs \X BOOLEAN) : l # Torn
    /\ MaxFailures \in Nat

Inodes == 0 .. Cardinality(Requests) + 1

VARIABLES
    addr,       \* per client record, its AllowedIP
    enabled,    \* per client record, its Enabled field
    stored,     \* ids in Store.clients
    peers,      \* awg0: the clients that are peers
    req,        \* per request, the handler in progress
    inodes,     \* disk: contents of the files the saves create
    tmp, file,  \* disk: what the two names refer to
    failures,
    raced,      \* history: clients that met two requests at once
    together,   \* history: pairs of clients whose creations overlapped
    crowded,    \* history: clients created when no address was free
    upset       \* history: clients for which a command or a process failed,
                \* or all of them once the store was not written

records == <<addr, enabled, stored>>
disk    == <<inodes, tmp, file>>
history == <<raced, together, crowded, upset>>
vars    == <<records, peers, req, disk, failures, history>>

Ops == {"create", "enable", "disable", "delete"}
Request ==
    [pc: {"idle", "cmd", "assign", "store", "save", "write", "rename"},
     op: Ops, client: Clients \cup {Null},
     addr: Addrs \cup {Null},
     snap: SUBSET (Clients \X Addrs \X BOOLEAN),    \* the list being saved
     inode: Inodes \cup {Null}]                     \* the file it goes to

Free == [pc |-> "idle", op |-> "create", client |-> Null, addr |-> Null,
         snap |-> {}, inode |-> Null]

Busy(c)  == \E r \in Requests : req[r].pc # "idle" /\ req[r].client = c
List     == {<<c, addr[c], enabled[c]>> : c \in stored}

Failure == failures < MaxFailures /\ failures' = failures + 1

-----------------------------------------------------------------------------
(* Requests begin.                                                          *)

\* The lowest free host number, or the last one if there is none.
NextIP(used) ==
    IF Addrs \subseteq used THEN MaxAddr
    ELSE CHOOSE i \in Addrs \ used : \A j \in Addrs \ used : i <= j

\* Mutation: a disabled client's address is free.
UsedEnabled == {addr[c] : c \in {d \in stored : enabled[d]}}

\* Host numbers of the clients in the map.
Used == {addr[c] : c \in stored}

\* createClient up to nextIP: the address is chosen before the record is stored.
BeginCreate(r, c) ==
    /\ req[r].pc = "idle"
    /\ addr[c] = Null /\ ~Busy(c)
    /\ req' = [req EXCEPT ![r] = [Free EXCEPT !.pc = "cmd", !.op = "create",
                                              !.client = c, !.addr = NextIP(Used)]]
    /\ together' = together \cup
         {{c, req[s].client} : s \in {t \in Requests : req[t].pc # "idle" /\ req[t].op = "create"}}
    /\ crowded' = IF Addrs \subseteq Used THEN crowded \cup {c} ELSE crowded
    /\ UNCHANGED <<records, peers, disk, failures, raced, upset>>

\* setEnabled and deleteClient find the record; an unknown id is a 404.
BeginChange(r, c, op) ==
    /\ req[r].pc = "idle"
    /\ c \in stored /\ op # "create"
    /\ req' = [req EXCEPT ![r] = [Free EXCEPT !.pc = "cmd", !.op = op, !.client = c]]
    /\ raced' = IF Busy(c) THEN raced \cup {c} ELSE raced
    /\ UNCHANGED <<records, peers, disk, failures, together, crowded, upset>>

-----------------------------------------------------------------------------
(* The awg command, the record, the map.                                    *)

\* Mutation: a deletion leaves the peer to the interface.
PeersKept(op, c) == IF op \in {"create", "enable"} THEN peers \cup {c}
                    ELSE IF op = "disable" THEN peers \ {c} ELSE peers

\* awg set awg0 peer ... allowed-ips / remove.
PeersAfter(op, c) == IF op \in {"create", "enable"} THEN peers \cup {c} ELSE peers \ {c}

RunCommand(r) ==
    LET c == req[r].client
    IN  /\ req[r].pc = "cmd"
        /\ peers' = PeersAfter(req[r].op, c)
        /\ req' = [req EXCEPT ![r].pc = IF req[r].op \in {"enable", "disable"}
                                        THEN "assign" ELSE "store"]
        /\ UNCHANGED <<records, disk, failures, history>>

\* A creation that cannot add its peer answers 500; the others go on.
CommandFails(r) ==
    LET c == req[r].client
    IN  /\ req[r].pc = "cmd" /\ Failure
        /\ \/ /\ req[r].op = "create"
              /\ req' = [req EXCEPT ![r] = Free]
              /\ UNCHANGED upset
           \/ /\ req[r].op # "create"
              /\ req' = [req EXCEPT ![r].pc = IF req[r].op = "delete"
                                              THEN "store" ELSE "assign"]
              /\ upset' = upset \cup {c}
        /\ UNCHANGED <<records, peers, disk, raced, together, crowded>>

\* c.Enabled = enabled, outside the lock.
AssignEnabled(r) ==
    /\ req[r].pc = "assign"
    /\ enabled' = [enabled EXCEPT ![req[r].client] = req[r].op = "enable"]
    /\ req' = [req EXCEPT ![r].pc = "store"]
    /\ UNCHANGED <<addr, stored, peers, disk, failures, history>>

\* Mutation: save does not lock.
NeverSaving == FALSE

\* A save holds the lock for reading.
Saving == \E r \in Requests : req[r].pc \in {"write", "rename"}

\* store.set of a new or known record, or store.del.
UpdateStore(r) ==
    LET c == req[r].client
    IN  /\ req[r].pc = "store" /\ ~Saving
        /\ \/ /\ req[r].op = "create"
              /\ addr' = [addr EXCEPT ![c] = req[r].addr]
              /\ enabled' = [enabled EXCEPT ![c] = TRUE]
              /\ stored' = stored \cup {c}
           \/ /\ req[r].op \in {"enable", "disable"}
              /\ stored' = stored \cup {c}
              /\ UNCHANGED <<addr, enabled>>
           \/ /\ req[r].op = "delete"
              /\ stored' = stored \ {c}
              /\ UNCHANGED <<addr, enabled>>
        /\ req' = [req EXCEPT ![r].pc = "save", ![r].addr = Null]
        /\ UNCHANGED <<peers, disk, failures, history>>

-----------------------------------------------------------------------------
(* Store.save.                                                              *)

\* A new file is neither clients.json nor one that a save has open.
Unused == {i \in Inodes : i # file /\ \A s \in Requests : req[s].inode # i}

\* Read the list and open clients.json.tmp, truncating it if another save has
\* it open.
OpenTmp(r) ==
    LET i == IF tmp # Null THEN tmp ELSE CHOOSE j \in Unused : TRUE
    IN  /\ req[r].pc = "save"
        /\ inodes' = [inodes EXCEPT ![i] = Torn]
        /\ tmp' = i
        /\ req' = [req EXCEPT ![r] = [@ EXCEPT !.pc = "write", !.snap = List, !.inode = i]]
        /\ UNCHANGED <<records, peers, file, failures, history>>

\* Another list in that file may be longer and keep its end.
WriteTmp(r) ==
    LET i == req[r].inode
    IN  /\ req[r].pc = "write"
        /\ \/ inodes' = [inodes EXCEPT ![i] = req[r].snap]
           \/ /\ inodes[i] \notin {Torn, req[r].snap}
              /\ inodes' = [inodes EXCEPT ![i] = Torn]
        /\ req' = [req EXCEPT ![r].pc = "rename", ![r].snap = {}, ![r].inode = Null]
        /\ UNCHANGED <<records, peers, tmp, file, failures, history>>

\* Mutation: the error of WriteFile is not looked at.
WrittenOrNot(r) == req[r].pc \in {"write", "rename"}

Written(r) == req[r].pc = "rename"

\* os.Rename moves whatever has the name now, or fails if nothing has.
Rename(r) ==
    /\ Written(r)
    /\ file' = IF tmp = Null THEN file ELSE tmp
    /\ tmp' = Null
    /\ inodes' = [i \in Inodes |->      \* what no name and no save refers to is gone
                    IF i = file' \/ \E s \in Requests : req[s].inode = i THEN inodes[i] ELSE {}]
    /\ req' = [req EXCEPT ![r] = Free]
    /\ UNCHANGED <<records, peers, failures, history>>

\* The file system refuses; the error is ignored.
SaveFails(r) ==
    /\ req[r].pc \in {"save", "write", "rename"} /\ Failure
    /\ req' = [req EXCEPT ![r] = Free]
    /\ upset' = Clients
    /\ UNCHANGED <<records, peers, disk, raced, together, crowded>>

-----------------------------------------------------------------------------
(* Failures around the server.                                              *)

\* load: a file that is no JSON leaves the map empty.
Loaded == IF inodes[file] = Torn THEN {} ELSE inodes[file]

\* The process dies; the interface keeps its peers.
Crash ==
    /\ Failure
    /\ stored' = {e[1] : e \in Loaded}
    /\ enabled' = [c \in Clients |-> \E e \in Loaded : e[1] = c /\ e[3]]
    /\ req' = [r \in Requests |-> Free]
    /\ upset' = IF inodes[file] = Torn THEN Clients
                ELSE upset \cup {c \in Clients : Busy(c)}
    /\ UNCHANGED <<addr, peers, disk, raced, together, crowded>>

\* awg-quick takes awg0 down and up: its own configuration has no clients, and
\* nothing adds them again.
ResetInterface ==
    /\ Failure
    /\ peers' = {}
    /\ upset' = upset \cup peers \cup {c \in Clients : Busy(c)}
    /\ UNCHANGED <<records, req, disk, raced, together, crowded>>

-----------------------------------------------------------------------------
Init ==
    /\ addr = [c \in Clients |-> Null]
    /\ enabled = [c \in Clients |-> FALSE]
    /\ stored = {} /\ peers = {}
    /\ req = [r \in Requests |-> Free]
    /\ inodes = [i \in Inodes |-> {}]
    /\ tmp = Null /\ file = 0
    /\ failures = 0
    /\ raced = {} /\ together = {} /\ crowded = {} /\ upset = {}

Next ==
    \/ \E r \in Requests :
         \/ \E c \in Clients : BeginCreate(r, c) \/ \E op \in Ops : BeginChange(r, c, op)
         \/ RunCommand(r) \/ CommandFails(r) \/ AssignEnabled(r) \/ UpdateStore(r)
         \/ OpenTmp(r) \/ WriteTmp(r) \/ Rename(r) \/ SaveFails(r)
    \/ Crash \/ ResetInterface

Spec == Init /\ [][Next]_vars

-----------------------------------------------------------------------------
(* Properties.                                                              *)

TypeOK ==
    /\ addr \in [Clients -> Addrs \cup {Null}]
    /\ enabled \in [Clients -> BOOLEAN]
    /\ stored \subseteq Clients /\ peers \subseteq Clients
    /\ req \in [Requests -> Request]
    /\ inodes \in [Inodes -> {Torn} \cup SUBSET (Clients \X Addrs \X BOOLEAN)]
    /\ tmp \in Inodes \cup {Null} /\ file \in Inodes
    /\ failures \in 0 .. MaxFailures
    /\ raced \cup crowded \cup upset \subseteq Clients
    /\ together \subseteq SUBSET Clients

\* No request is at work on the client, none raced on it, nothing failed.
Settled(c) == ~Busy(c) /\ c \notin raced \cup upset

(***************************************************************************)
(* A client is a peer of awg0 exactly while its record is there and        *)
(* enabled, whatever goes on for other clients and whenever the process    *)
(* restarts: a disabled or deleted client stays off (main.go:304-343,      *)
(* 378-413, 118-130).                                                      *)
(***************************************************************************)
PeersAgree ==
    \A c \in Clients :
        Settled(c) => (c \in peers <=> c \in stored /\ enabled[c])

(***************************************************************************)
(* What a finished request changed is on disk: saves that overlap, in      *)
(* one file, do not bring back an older list (main.go:132-144, 163-175).   *)
(***************************************************************************)
DiskFresh ==
    \A c \in Clients :
        Settled(c) /\ inodes[file] # Torn =>
            \A a \in Addrs, b \in BOOLEAN :
                <<c, a, b>> \in inodes[file] <=> c \in stored /\ addr[c] = a /\ enabled[c] = b

(***************************************************************************)
(* clients.json is incomplete only while a request is at work: two saves   *)
(* that wrote one file over another leave a third request that still has   *)
(* to save, so once all are done a restart finds a whole list              *)
(* (main.go:118-144).                                                      *)
(***************************************************************************)
TornOnlyAtWork ==
    inodes[file] = Torn /\ upset # Clients => \E r \in Requests : req[r].pc # "idle"

(***************************************************************************)
(* Two clients have the same address only if their creations overlapped,   *)
(* no address was left, or a request that raced with a deletion stored the *)
(* deleted one again (main.go:204-220, 304-343).                           *)
(***************************************************************************)
AddressesDistinct ==
    \A c, d \in stored :
        c # d /\ addr[c] = addr[d] =>
            \/ {c, d} \in together
            \/ {c, d} \cap (raced \cup crowded \cup upset) # {}
=============================================================================
