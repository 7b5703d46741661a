--------------------------- MODULE AwgServerProofs ---------------------------
(***************************************************************************)
(* The peers of awg-server, for any number of clients, addresses and       *)
(* requests in flight: the interface, the map and clients.json agree on    *)
(* every client that no two requests met and no failure touched.           *)
(***************************************************************************)
EXTENDS AwgServer, FiniteSetTheorems, WellFoundedInduction, TLAPS

Entries == Clients \X Addrs \X BOOLEAN

On(r, c)    == req[r].pc # "idle" /\ req[r].client = c
Creating(r) == req[r].op = "create" /\ req[r].pc \in {"cmd", "store"}
Calm(c)     == c \notin raced \cup upset
AtStore     == \E r \in Requests : req[r].pc = "store"

\* What a request carries at each point of its handler.
Shape ==
    \A r \in Requests :
        /\ req[r].pc # "idle" => req[r].client \in Clients
        /\ Creating(r) => req[r].addr \in Addrs
        /\ req[r].pc = "assign" => req[r].op \in {"enable", "disable"}
        /\ req[r].pc = "write" <=> req[r].inode # Null

\* Requests meet on a client only if it is raced; one being created meets none.
OneAtATime ==
    \A r, s \in Requests : \A c \in Clients :
        r # s /\ On(r, c) /\ On(s, c) => c \in raced /\ ~Creating(r)

\* An address is given once, and every list repeats it.
AddressesGiven ==
    /\ \A c \in stored : addr[c] # Null
    /\ \A r \in Requests :
          /\ req[r].pc # "idle" => (addr[req[r].client] = Null <=> Creating(r))
          /\ \A e \in req[r].snap : addr[e[1]] = e[2]
    /\ \A i \in Inodes : inodes[i] # Torn => \A e \in inodes[i] : addr[e[1]] = e[2]

\* The peer is there exactly for an enabled record.
Agree(c) == c \in peers <=> c \in stored /\ enabled[c]

\* How far a request has got with the peer and the record of its client.
Phase(r) ==
    LET c  == req[r].client
        on == req[r].op = "enable"
    IN  /\ Creating(r) => c \notin stored /\ (c \in peers <=> req[r].pc = "store")
        /\ ~Creating(r) /\ req[r].pc = "cmd" => c \in stored /\ Agree(c)
        /\ ~Creating(r) /\ req[r].pc \in {"assign", "store"} =>
              c \in stored /\ (c \in peers <=> on)
        /\ ~Creating(r) /\ req[r].pc = "store" /\ req[r].op # "delete" =>
              (enabled[c] <=> on)
        /\ req[r].pc \in {"save", "write", "rename"} => Agree(c)

Phases == \A r \in Requests : req[r].pc # "idle" /\ Calm(req[r].client) => Phase(r)

\* Saves that overlap write the same list, unless a change waits for them.
SameList ==
    AtStore \/ \A r \in Requests :
        req[r].pc = "write" =>
            req[r].snap = List /\ inodes[req[r].inode] \in {Torn, List}

\* Who still has to complete a file.
Writing(i) == \E r \in Requests : req[r].pc = "write" /\ req[r].inode = i

TornTmp ==
    Saving /\ tmp # Null /\ inodes[tmp] = Torn => upset = Clients \/ Writing(tmp) \/ AtStore

TornFile ==
    inodes[file] = Torn =>
        \/ upset = Clients
        \/ Writing(file)
        \/ \E r \in Requests : req[r].pc \in {"store", "save"}
        \/ tmp # Null /\ Saving

\* A list has the record of a client as the map has it.
Fresh(c, l) ==
    \A a \in Addrs, b \in BOOLEAN :
        <<c, a, b>> \in l <=> c \in stored /\ addr[c] = a /\ enabled[c] = b

\* The lists on their way to the disk have the records that no request is about
\* to change there; a request that has opened its file has replaced the rest.
FreshLists ==
    \A c \in Clients :
        /\ Calm(c)
        /\ \A r \in Requests : On(r, c) => req[r].pc # "store"
        => \A r \in Requests : req[r].pc = "write" => Fresh(c, req[r].snap)

Unsaved(c) == \E r \in Requests : On(r, c) /\ req[r].pc \in {"store", "save"}
Opened(c)  == \E r \in Requests : On(r, c) /\ req[r].pc \in {"write", "rename"}
Good(c, i) == inodes[i] = Torn \/ Fresh(c, inodes[i])

FreshDisk ==
    \A c \in Clients : Calm(c) /\ ~Unsaved(c) =>
        /\ tmp # Null => Good(c, tmp)
        /\ (Opened(c) /\ tmp # Null) \/ Good(c, file)

\* Creations choose between the addresses of the records they find.
Excused(c, d) == {c, d} \in together \/ {c, d} \cap (raced \cup crowded \cup upset) # {}

AddressesChosen ==
    \A r \in Requests : Creating(r) =>
        /\ \A d \in stored : d # req[r].client /\ addr[d] = req[r].addr
                               => Excused(req[r].client, d)
        /\ \A s \in Requests : s # r /\ Creating(s) => {req[r].client, req[s].client} \in together

AwgInv ==
    /\ TypeOK /\ Shape /\ OneAtATime /\ AddressesGiven
    /\ Phases /\ PeersAgree
    /\ SameList /\ TornTmp /\ TornFile
    /\ FreshLists /\ FreshDisk
    /\ AddressesChosen /\ AddressesDistinct

-----------------------------------------------------------------------------
(* Addresses and files.                                                     *)

\* Some natural numbers have a least one.
LEMMA LeastOf ==
    ASSUME NEW T \in SUBSET Nat, T # {}
    PROVE  \E i \in T : \A j \in T : i <= j
  <1>1. PICK i \in T : \A j \in T : ~(<<j, i>> \in OpToRel(<, Nat))
    BY WFMin, NatLessThanWellFounded, Zenon
  <1>2. \A j \in T : ~(j < i)
    BY <1>1 DEF OpToRel
  <1> QED  BY <1>2

\* The address chosen is a free one, if there is any (main.go:204-220).
LEMMA NextIPIsFree ==
    ASSUME NEW used
    PROVE  /\ NextIP(used) \in Addrs
           /\ NextIP(used) \in used => Addrs \subseteq used
  <1>1. CASE Addrs \subseteq used
    BY <1>1, AwgConstants DEF NextIP, Addrs
  <1>2. CASE ~(Addrs \subseteq used)
    <2> DEFINE T == Addrs \ used
    <2>1. T \in SUBSET Nat /\ T # {}
      BY <1>2, AwgConstants DEF Addrs
    <2>2. \E i \in T : \A j \in T : i <= j
      BY <2>1, LeastOf
    <2> QED  BY <1>2, <2>2 DEF NextIP
  <1> QED  BY <1>1, <1>2

\* There are more files than saves can have open.
LEMMA UnusedExists ==
    ASSUME TypeOK
    PROVE  Unused # {}
  <1> DEFINE f == [s \in Requests |-> req[s].inode]
             T == {req[s].inode : s \in Requests}
             N == Cardinality(Requests)
  <1>1. N \in Nat /\ IsFiniteSet(Requests)
    BY AwgConstants, FS_CardinalityType
  <1>2. IsFiniteSet(T) /\ Cardinality(T) <= N
    <2>1. f \in Surjection(Requests, T)
      BY DEF Surjection
    <2> HIDE DEF f, T
    <2> QED  BY <1>1, <2>1, FS_Surjection
  <1>3. IsFiniteSet(T \cup {file}) /\ Cardinality(T \cup {file}) <= N + 1
    <2>1. Cardinality(T) \in Nat
      BY <1>2, FS_CardinalityType
    <2> HIDE DEF T, N
    <2>2. /\ IsFiniteSet(T \cup {file})
          /\ Cardinality(T \cup {file}) = IF file \in T THEN Cardinality(T) ELSE Cardinality(T) + 1
      BY <1>2, FS_AddElement
    <2> QED  BY <1>1, <1>2, <2>1, <2>2
  <1>4. IsFiniteSet(Inodes) /\ Cardinality(Inodes) = N + 2
    <2> HIDE DEF N
    <2>1. IsFiniteSet(0 .. N + 1) /\ Cardinality(0 .. N + 1) = N + 2
      BY <1>1, FS_Interval
    <2> QED  BY <2>1 DEF Inodes, N
  <1>5. ~(Inodes \subseteq T \cup {file})
    <2>1. Cardinality(T \cup {file}) \in Nat
      BY <1>3, FS_CardinalityType
    <2> HIDE DEF T, N
    <2>2. ASSUME Inodes \subseteq T \cup {file}
          PROVE  Cardinality(Inodes) <= Cardinality(T \cup {file})
      BY <1>3, <2>2, FS_Subset
    <2> QED  BY <1>1, <1>3, <1>4, <2>1, <2>2
  <1> QED  BY <1>5 DEF Unused

-----------------------------------------------------------------------------
(* Types.                                                                   *)

\* An idle request is well typed.
LEMMA FreeType == Free \in Request
  BY DEF Free, Request, Ops

\* The types hold at the start.
LEMMA InitType == Init => TypeOK
  <1>1. 0 \in Inodes
    BY AwgConstants, FS_CardinalityType DEF Inodes
  <1> QED  BY <1>1, FreeType, AwgConstants DEF Init, TypeOK

\* A save goes to clients.json.tmp, or to a file of its own.
LEMMA OpenTmpFile ==
    ASSUME TypeOK, NEW r \in Requests, OpenTmp(r)
    PROVE  /\ tmp' \in Inodes
           /\ tmp # Null => tmp' = tmp
           /\ tmp = Null => tmp' # file /\ \A s \in Requests : req[s].inode # tmp'
           /\ inodes' = [inodes EXCEPT ![tmp'] = Torn]
           /\ req' = [req EXCEPT ![r] = [req[r] EXCEPT !.pc = "write", !.snap = List,
                                                       !.inode = tmp']]
  <1>1. /\ inodes' = [inodes EXCEPT ![tmp'] = Torn]
        /\ req' = [req EXCEPT ![r] = [req[r] EXCEPT !.pc = "write", !.snap = List,
                                                    !.inode = tmp']]
        /\ tmp' = IF tmp # Null THEN tmp ELSE CHOOSE j \in Unused : TRUE
    BY DEF OpenTmp
  <1>3. tmp = Null => tmp' \in Unused
    BY <1>1, UnusedExists
  <1> QED  BY <1>1, <1>3 DEF Unused, TypeOK

\* Beginning a request keeps the types.
LEMMA BeginType ==
    ASSUME TypeOK, Shape, NEW r \in Requests, NEW c \in Clients, NEW op \in Ops,
           BeginCreate(r, c) \/ BeginChange(r, c, op)
    PROVE  TypeOK'
  <1> USE DEF TypeOK, records, disk
  <1>1. CASE BeginCreate(r, c)
    <2>1. NextIP(Used) \in Addrs
      BY NextIPIsFree
    <2>2. [Free EXCEPT !.pc = "cmd", !.op = "create", !.client = c, !.addr = NextIP(Used)]
             \in Request
      BY <2>1 DEF Free, Request, Ops
    <2>3. req' \in [Requests -> Request]
      BY <1>1, <2>2 DEF BeginCreate
    <2>4. together' \subseteq SUBSET Clients
      BY <1>1 DEF BeginCreate, Shape
    <2> QED  BY <1>1, <2>3, <2>4 DEF BeginCreate
  <1>2. CASE BeginChange(r, c, op)
    <2>1. [Free EXCEPT !.pc = "cmd", !.op = op, !.client = c] \in Request
      BY DEF Free, Request
    <2>2. req' \in [Requests -> Request]
      BY <1>2, <2>1 DEF BeginChange
    <2> QED  BY <1>2, <2>2 DEF BeginChange
  <1> QED  BY <1>1, <1>2

\* The steps of a handler before its save keep the types.
LEMMA HandlerType ==
    ASSUME TypeOK, Shape, NEW r \in Requests,
           RunCommand(r) \/ CommandFails(r) \/ AssignEnabled(r) \/ UpdateStore(r)
    PROVE  TypeOK'
  <1> USE DEF TypeOK, records, disk, history
  <1>0. req[r] \in Request
    OBVIOUS
  <1>1. CASE RunCommand(r)
    <2>1. req[r].client \in Clients
      BY <1>1 DEF RunCommand, Shape
    <2>2. req' \in [Requests -> Request]
      BY <1>0, <1>1 DEF RunCommand, Request
    <2>3. peers' \subseteq Clients
      BY <1>1, <2>1 DEF RunCommand, PeersAfter
    <2> QED  BY <1>1, <2>2, <2>3 DEF RunCommand
  <1>2. CASE CommandFails(r)
    <2>1. req[r].client \in Clients
      BY <1>2 DEF CommandFails, Shape
    <2>2. req' \in [Requests -> Request]
      BY <1>0, <1>2, FreeType DEF CommandFails, Request
    <2>3. failures' \in 0 .. MaxFailures /\ upset' \subseteq Clients
      BY <1>2, <2>1, AwgConstants DEF CommandFails, Failure
    <2> QED  BY <1>2, <2>2, <2>3 DEF CommandFails
  <1>3. CASE AssignEnabled(r)
    <2>1. req' \in [Requests -> Request] /\ enabled' \in [Clients -> BOOLEAN]
      BY <1>0, <1>3 DEF AssignEnabled, Request
    <2> QED  BY <1>3, <2>1 DEF AssignEnabled
  <1>4. CASE UpdateStore(r)
    <2>1. req[r].client \in Clients /\ (req[r].op = "create" => req[r].addr \in Addrs)
      BY <1>4 DEF UpdateStore, Shape, Creating
    <2>2. req' \in [Requests -> Request]
      BY <1>0, <1>4 DEF UpdateStore, Request
    <2>3. /\ addr' \in [Clients -> Addrs \cup {Null}] /\ enabled' \in [Clients -> BOOLEAN]
          /\ stored' \subseteq Clients
      BY <1>4, <2>1 DEF UpdateStore
    <2> QED  BY <1>4, <2>2, <2>3 DEF UpdateStore
  <1> QED  BY <1>1, <1>2, <1>3, <1>4

\* A list of the map holds records.
LEMMA ListType ==
    ASSUME TypeOK, AddressesGiven
    PROVE  List \subseteq Entries
  BY DEF List, TypeOK, AddressesGiven, Entries

\* The steps of a save keep the types.
LEMMA SaveType ==
    ASSUME TypeOK, Shape, AddressesGiven, NEW r \in Requests,
           OpenTmp(r) \/ WriteTmp(r) \/ Rename(r) \/ SaveFails(r)
    PROVE  TypeOK'
  <1> USE DEF TypeOK, records, disk, history
  <1>0. req[r] \in Request
    OBVIOUS
  <1>1. CASE OpenTmp(r)
    <2>1. List \subseteq Entries
      BY ListType
    <2>2. req' \in [Requests -> Request]
      <3>1. tmp' \in Inodes
        BY <1>1, OpenTmpFile
      <3>2. List \in SUBSET (Clients \X Addrs \X BOOLEAN)
        BY <2>1 DEF Entries
      <3> HIDE DEF TypeOK
      <3>3. [req[r] EXCEPT !.pc = "write", !.snap = List, !.inode = tmp'] \in Request
        BY <1>0, <3>1, <3>2 DEF Request
      <3> USE DEF TypeOK
      <3> QED  BY <1>1, <3>3, OpenTmpFile
    <2>3. tmp' \in Inodes /\ inodes' = [inodes EXCEPT ![tmp'] = Torn]
      BY <1>1, OpenTmpFile
    <2>4. inodes' \in [Inodes -> {Torn} \cup SUBSET Entries]
      BY <2>3 DEF Entries
    <2> QED  BY <1>1, <2>2, <2>3, <2>4 DEF OpenTmp, Entries
  <1>2. CASE WriteTmp(r)
    <2>1. req[r].inode \in Inodes
      BY <1>0, <1>2 DEF WriteTmp, Shape, Request
    <2>2. req' \in [Requests -> Request]
      BY <1>0, <1>2 DEF WriteTmp, Request
    <2>3. req[r].snap \subseteq Entries
      BY <1>0 DEF Request, Entries
    <2>4. inodes' \in [Inodes -> {Torn} \cup SUBSET Entries]
      BY <1>2, <2>1, <2>3 DEF WriteTmp, Entries
    <2> QED  BY <1>2, <2>2, <2>4 DEF WriteTmp, Entries
  <1>3. CASE Rename(r)
    <2>1. req' \in [Requests -> Request] /\ file' \in Inodes
      BY <1>3, FreeType DEF Rename
    <2>2. inodes' \in [Inodes -> {Torn} \cup SUBSET Entries]
      BY <1>3 DEF Rename, Entries
    <2> QED  BY <1>3, <2>1, <2>2 DEF Rename, Entries
  <1>4. CASE SaveFails(r)
    <2>1. req' \in [Requests -> Request]
      BY <1>4, FreeType DEF SaveFails
    <2>2. failures' \in 0 .. MaxFailures
      BY <1>4, AwgConstants DEF SaveFails, Failure
    <2> QED  BY <1>4, <2>1, <2>2 DEF SaveFails
  <1> QED  BY <1>1, <1>2, <1>3, <1>4

\* A crash and a reset of the interface keep the types.
LEMMA AroundType ==
    ASSUME TypeOK, Crash \/ ResetInterface
    PROVE  TypeOK'
  <1> USE DEF TypeOK, records, disk, history
  <1>1. failures' \in 0 .. MaxFailures
    BY AwgConstants DEF Crash, ResetInterface, Failure
  <1>2. CASE Crash
    <2>1. Loaded \subseteq Entries
      BY DEF Loaded, Entries
    <2>2. stored' \subseteq Clients
      BY <1>2, <2>1 DEF Crash, Entries
    <2>3. enabled' \in [Clients -> BOOLEAN]
      BY <1>2 DEF Crash
    <2>4. req' \in [Requests -> Request]
      BY <1>2, FreeType DEF Crash
    <2> QED  BY <1>1, <1>2, <2>2, <2>3, <2>4 DEF Crash
  <1>3. CASE ResetInterface
    BY <1>1, <1>3 DEF ResetInterface
  <1> QED  BY <1>2, <1>3

-----------------------------------------------------------------------------
(* What a step does to the requests.                                        *)

Others(r) == \A s \in Requests \ {r} : req'[s] = req[s]

Keeps(r) == /\ req'[r].op = req[r].op /\ req'[r].client = req[r].client
            /\ req'[r].snap = req[r].snap /\ req'[r].inode = req[r].inode

\* A creation begins with the address that nextIP chose.
LEMMA BeginCreateMoves ==
    ASSUME TypeOK, NEW r \in Requests, NEW c \in Clients, BeginCreate(r, c)
    PROVE  /\ Others(r) /\ req[r].pc = "idle"
           /\ req'[r].pc = "cmd" /\ req'[r].client = c
           /\ req'[r].snap = {} /\ req'[r].inode = Null
           /\ req'[r].op = "create" /\ req'[r].addr = NextIP(Used)
  BY DEF TypeOK, BeginCreate, Free, Others

\* A change begins without one.
LEMMA BeginChangeMoves ==
    ASSUME TypeOK, NEW r \in Requests, NEW c \in Clients, NEW op \in Ops,
           BeginChange(r, c, op)
    PROVE  /\ Others(r) /\ req[r].pc = "idle"
           /\ req'[r].pc = "cmd" /\ req'[r].client = c
           /\ req'[r].snap = {} /\ req'[r].inode = Null
           /\ req'[r].op = op /\ op # "create"
  BY DEF TypeOK, BeginChange, Free, Others

\* After wg, enable and disable assign the flag; the others go to the map.
LEMMA RunCommandMoves ==
    ASSUME TypeOK, NEW r \in Requests, RunCommand(r)
    PROVE  /\ Others(r) /\ Keeps(r) /\ req'[r].addr = req[r].addr
           /\ req[r].pc = "cmd"
           /\ req'[r].pc = IF req[r].op \in {"enable", "disable"} THEN "assign" ELSE "store"
  BY DEF TypeOK, RunCommand, Others, Keeps, Request

\* When wg fails, a creation ends and the others go on.
LEMMA CommandFailsMoves ==
    ASSUME TypeOK, NEW r \in Requests, CommandFails(r)
    PROVE  /\ Others(r) /\ req[r].pc = "cmd"
           /\ req[r].op = "create" => req'[r] = Free /\ upset' = upset
           /\ req[r].op # "create" =>
                /\ Keeps(r) /\ upset' = upset \cup {req[r].client}
                /\ req'[r].pc = IF req[r].op = "delete" THEN "store" ELSE "assign"
  BY DEF TypeOK, CommandFails, Others, Keeps, Request

\* After the flag comes the map.
LEMMA AssignMoves ==
    ASSUME TypeOK, NEW r \in Requests, AssignEnabled(r)
    PROVE  /\ Others(r) /\ Keeps(r)
           /\ req[r].pc = "assign" /\ req'[r].pc = "store"
  BY DEF TypeOK, AssignEnabled, Others, Keeps, Request

\* After the map comes the save, and nobody else is writing then.
LEMMA UpdateMoves ==
    ASSUME TypeOK, NEW r \in Requests, UpdateStore(r)
    PROVE  /\ Others(r) /\ Keeps(r)
           /\ req[r].pc = "store" /\ req'[r].pc = "save"
           /\ \A s \in Requests : req[s].pc \notin {"write", "rename"}
  BY DEF TypeOK, UpdateStore, Others, Keeps, Request, Saving

\* A save takes its list and the inode of the temporary file, which it empties.
LEMMA OpenMoves ==
    ASSUME TypeOK, NEW r \in Requests, OpenTmp(r)
    PROVE  /\ Others(r) /\ req[r].pc = "save" /\ req'[r].pc = "write"
           /\ req'[r].op = req[r].op /\ req'[r].client = req[r].client
           /\ req'[r].snap = List /\ req'[r].inode = tmp'
           /\ tmp' \in Inodes /\ (tmp # Null => tmp' = tmp)
           /\ tmp = Null => tmp' # file /\ \A s \in Requests : req[s].inode # tmp'
           /\ inodes'[tmp'] = Torn
           /\ \A i \in Inodes \ {tmp'} : inodes'[i] = inodes[i]
  <1>1. /\ req' = [req EXCEPT ![r] = [req[r] EXCEPT !.pc = "write", !.snap = List,
                                                    !.inode = tmp']]
        /\ inodes' = [inodes EXCEPT ![tmp'] = Torn]
        /\ tmp' \in Inodes /\ (tmp # Null => tmp' = tmp)
        /\ tmp = Null => tmp' # file /\ \A s \in Requests : req[s].inode # tmp'
    BY OpenTmpFile
  <1>2. req[r].pc = "save"
    BY DEF OpenTmp
  <1>3. req[r] \in Request /\ inodes \in [Inodes -> {Torn} \cup SUBSET Entries]
        /\ req \in [Requests -> Request]
    BY DEF TypeOK, Entries
  <1>4. req'[r] = [req[r] EXCEPT !.pc = "write", !.snap = List, !.inode = tmp']
    BY <1>1, <1>3
  <1>5. Others(r)
    BY <1>1, <1>3 DEF Others
  <1>6. /\ req'[r].pc = "write" /\ req'[r].op = req[r].op /\ req'[r].client = req[r].client
        /\ req'[r].snap = List /\ req'[r].inode = tmp'
    BY <1>3, <1>4 DEF Request
  <1> QED  BY <1>1, <1>2, <1>3, <1>5, <1>6

\* A write puts the list into its inode, or mixes it with that of another save.
LEMMA WriteMoves ==
    ASSUME TypeOK, Shape, NEW r \in Requests, WriteTmp(r)
    PROVE  /\ Others(r) /\ req[r].pc = "write" /\ req'[r].pc = "rename"
           /\ req'[r].op = req[r].op /\ req'[r].client = req[r].client
           /\ req'[r].snap = {} /\ req'[r].inode = Null
           /\ req[r].inode \in Inodes
           /\ \/ inodes'[req[r].inode] = req[r].snap
              \/ /\ inodes[req[r].inode] \notin {Torn, req[r].snap}
                 /\ inodes'[req[r].inode] = Torn
           /\ \A i \in Inodes \ {req[r].inode} : inodes'[i] = inodes[i]
  <1>1. req[r].inode \in Inodes
    BY DEF WriteTmp, Shape, TypeOK, Request
  <1> QED  BY <1>1 DEF TypeOK, WriteTmp, Others, Request

\* A rename makes the temporary file clients.json and ends the request.
LEMMA RenameMoves ==
    ASSUME TypeOK, NEW r \in Requests, Rename(r)
    PROVE  /\ Others(r) /\ req[r].pc = "rename" /\ req'[r] = Free
           /\ tmp' = Null /\ file' = IF tmp = Null THEN file ELSE tmp
           /\ file' \in Inodes /\ inodes'[file'] = inodes[file']
           /\ \A s \in Requests : req[s].inode \in Inodes =>
                inodes'[req[s].inode] = inodes[req[s].inode]
           /\ \A i \in Inodes : inodes'[i] \in {inodes[i], {}}
  BY DEF TypeOK, Rename, Written, Others

\* A failed save ends the request.
LEMMA SaveFailsMoves ==
    ASSUME TypeOK, NEW r \in Requests, SaveFails(r)
    PROVE  Others(r) /\ req'[r] = Free /\ upset' = Clients
           /\ req[r].pc \in {"save", "write", "rename"}
  BY DEF TypeOK, SaveFails, Others

-----------------------------------------------------------------------------
(* The requests and their clients.                                          *)

\* What an idle request holds: nothing.
LEMMA FreeFields ==
    /\ Free.pc = "idle" /\ Free.op = "create" /\ Free.client = Null
    /\ Free.snap = {} /\ Free.inode = Null
  BY DEF Free

\* Requests, their overlap and the addresses are right at the start.
LEMMA InitShape ==
    Init => Shape /\ OneAtATime /\ AddressesGiven
  BY FreeFields DEF Init, Shape, OneAtATime, AddressesGiven, Creating, On

\* A step of one request that keeps its own shape keeps that of all.
LEMMA ShapeOfOne ==
    ASSUME TypeOK, Shape, NEW r \in Requests, Others(r),
           req'[r].pc # "idle" => req'[r].client \in Clients,
           Creating(r)' => req'[r].addr \in Addrs,
           req'[r].pc = "assign" => req'[r].op \in {"enable", "disable"},
           req'[r].pc = "write" <=> req'[r].inode # Null
    PROVE  Shape'
  BY DEF Shape, Others, Creating

\* Every step keeps the shape of requests.
LEMMA NextShape ==
    ASSUME TypeOK, Shape, [Next]_vars
    PROVE  Shape'
  <1> USE FreeFields
  <1>1. ASSUME NEW r \in Requests, NEW c \in Clients, BeginCreate(r, c)  PROVE  Shape'
    BY <1>1, BeginCreateMoves, NextIPIsFree, ShapeOfOne DEF Creating
  <1>12. ASSUME NEW r \in Requests, NEW c \in Clients, NEW op \in Ops, BeginChange(r, c, op)
         PROVE  Shape'
    BY <1>12, BeginChangeMoves, ShapeOfOne DEF Creating
  <1>2. ASSUME NEW r \in Requests, RunCommand(r)  PROVE  Shape'
    BY <1>2, RunCommandMoves, ShapeOfOne DEF Creating, Shape, Keeps
  <1>3. ASSUME NEW r \in Requests, CommandFails(r)  PROVE  Shape'
    <2>1. req[r].op \in Ops
      BY DEF TypeOK, Request
    <2> QED  BY <1>3, <2>1, CommandFailsMoves, ShapeOfOne DEF Creating, Shape, Keeps, Ops
  <1>4. ASSUME NEW r \in Requests, AssignEnabled(r)  PROVE  Shape'
    BY <1>4, AssignMoves, ShapeOfOne DEF Creating, Shape, Keeps
  <1>5. ASSUME NEW r \in Requests, UpdateStore(r)  PROVE  Shape'
    BY <1>5, UpdateMoves, ShapeOfOne DEF Creating, Shape, Keeps
  <1>6. ASSUME NEW r \in Requests, OpenTmp(r)  PROVE  Shape'
    <2>1. Null \notin Inodes
      BY AwgConstants, FS_CardinalityType DEF Inodes
    <2> QED  BY <1>6, <2>1, OpenMoves, ShapeOfOne DEF Creating, Shape
  <1>7. ASSUME NEW r \in Requests, WriteTmp(r)  PROVE  Shape'
    BY <1>7, WriteMoves, ShapeOfOne DEF Creating, Shape
  <1>8. ASSUME NEW r \in Requests, Rename(r)  PROVE  Shape'
    BY <1>8, RenameMoves, ShapeOfOne DEF Creating
  <1>9. ASSUME NEW r \in Requests, SaveFails(r)  PROVE  Shape'
    BY <1>9, SaveFailsMoves, ShapeOfOne DEF Creating
  <1>10. ASSUME Crash  PROVE  Shape'
    BY <1>10 DEF Crash, Shape, Creating
  <1>11. CASE UNCHANGED req
    BY <1>11 DEF Shape, Creating
  <1> QED  BY <1>1, <1>2, <1>3, <1>4, <1>5, <1>6, <1>7, <1>8, <1>9, <1>10, <1>11,
           <1>12 DEF Next, ResetInterface, vars

\* A request that begins on a client makes it raced; one that goes on keeps
\* its client, and none begins to create again.
LEMMA OneOfOne ==
    ASSUME TypeOK, OneAtATime, NEW r \in Requests, Others(r), raced' = raced,
           \/ req'[r].pc = "idle"
           \/ /\ req[r].pc # "idle" /\ req'[r].client = req[r].client
              /\ req'[r].op = req[r].op /\ (Creating(r)' => Creating(r))
    PROVE  OneAtATime'
  BY DEF OneAtATime, On, Creating, Others

\* A client for which no two requests race has at most one.
LEMMA NextOne ==
    ASSUME TypeOK, Shape, OneAtATime, AddressesGiven, [Next]_vars
    PROVE  OneAtATime'
  <1> USE FreeFields
  <1>1. ASSUME NEW r \in Requests, NEW c \in Clients, BeginCreate(r, c)
        PROVE  OneAtATime'
    <2>1. /\ Others(r) /\ req'[r].client = c /\ ~Busy(c) /\ raced' = raced
      BY <1>1, BeginCreateMoves DEF BeginCreate
    <2> QED  BY <2>1 DEF OneAtATime, On, Creating, Others, Busy
  <1>2. ASSUME NEW r \in Requests, NEW c \in Clients, NEW op \in Ops, BeginChange(r, c, op)
        PROVE  OneAtATime'
    <2>1. /\ Others(r) /\ req'[r].client = c /\ req'[r].op = op /\ op # "create"
          /\ raced \subseteq raced' /\ (Busy(c) => c \in raced') /\ addr[c] # Null
      BY <1>2, BeginChangeMoves DEF BeginChange, AddressesGiven
    <2>2. \A s \in Requests : On(s, c) => ~Creating(s)
      BY <2>1 DEF AddressesGiven, On
    <2> QED  BY <2>1, <2>2 DEF OneAtATime, On, Creating, Others, Busy
  <1>3. ASSUME NEW r \in Requests, RunCommand(r)  PROVE  OneAtATime'
    BY <1>3, RunCommandMoves, OneOfOne DEF Creating, Keeps, RunCommand, history
  <1>4. ASSUME NEW r \in Requests, CommandFails(r)  PROVE  OneAtATime'
    BY <1>4, CommandFailsMoves, OneOfOne DEF Creating, Keeps, CommandFails
  <1>5. ASSUME NEW r \in Requests, AssignEnabled(r)  PROVE  OneAtATime'
    <2>1. req[r].op # "create"
      BY <1>5 DEF AssignEnabled, Shape
    <2> QED  BY <1>5, <2>1, AssignMoves, OneOfOne DEF Creating, Keeps, AssignEnabled, history
  <1>6. ASSUME NEW r \in Requests, UpdateStore(r)  PROVE  OneAtATime'
    BY <1>6, UpdateMoves, OneOfOne DEF Creating, Keeps, UpdateStore, history
  <1>7. ASSUME NEW r \in Requests, OpenTmp(r)  PROVE  OneAtATime'
    BY <1>7, OpenMoves, OneOfOne DEF Creating, OpenTmp, history
  <1>8. ASSUME NEW r \in Requests, WriteTmp(r)  PROVE  OneAtATime'
    BY <1>8, WriteMoves, OneOfOne DEF Creating, WriteTmp, history
  <1>9. ASSUME NEW r \in Requests, Rename(r)  PROVE  OneAtATime'
    BY <1>9, RenameMoves, OneOfOne DEF Rename, history
  <1>10. ASSUME NEW r \in Requests, SaveFails(r)  PROVE  OneAtATime'
    BY <1>10, SaveFailsMoves, OneOfOne DEF SaveFails
  <1>11. ASSUME Crash  PROVE  OneAtATime'
    BY <1>11 DEF Crash, OneAtATime, On
  <1>12. CASE UNCHANGED <<req, raced>>
    BY <1>12 DEF OneAtATime, On, Creating
  <1> QED  BY <1>1, <1>2, <1>3, <1>4, <1>5, <1>6, <1>7, <1>8, <1>9, <1>10, <1>11, <1>12
           DEF Next, ResetInterface, vars, history

-----------------------------------------------------------------------------
(* Addresses are given once.                                                *)

\* No address is Null.
LEMMA NullIsNoAddress ==
    Null \notin Addrs
  BY AwgConstants DEF Addrs

\* A step of one request that keeps addresses keeps the lists true to them.
LEMMA GivenOfOne ==
    ASSUME TypeOK, AddressesGiven, NEW r \in Requests, Others(r), addr' = addr,
           \A c \in stored' : addr[c] # Null,
           req'[r].pc # "idle" => (addr[req'[r].client] = Null <=> Creating(r)'),
           \A e \in req'[r].snap : addr[e[1]] = e[2],
           \A i \in Inodes : inodes'[i] # Torn => \A e \in inodes'[i] : addr[e[1]] = e[2]
    PROVE  AddressesGiven'
  BY DEF AddressesGiven, Others, Creating

\* The map changes with the addresses that were chosen.
LEMMA UpdateGiven ==
    ASSUME TypeOK, Shape, OneAtATime, AddressesGiven, NEW r \in Requests, UpdateStore(r)
    PROVE  AddressesGiven'
  <1> DEFINE c == req[r].client
  <1>1. /\ Others(r) /\ Keeps(r) /\ req[r].pc = "store" /\ req'[r].pc = "save"
        /\ c \in Clients /\ inodes' = inodes
    BY UpdateMoves DEF Shape, UpdateStore, disk
  <1>2. CASE req[r].op = "create"
    <2>1. /\ addr[c] = Null /\ addr' = [addr EXCEPT ![c] = req[r].addr]
          /\ stored' = stored \cup {c} /\ req[r].addr # Null
      BY <1>1, <1>2, NullIsNoAddress DEF UpdateStore, AddressesGiven, Creating, Shape
    <2>2. \A d \in Clients \ {c} : addr'[d] = addr[d]
      BY <2>1 DEF TypeOK
    <2>3. addr'[c] # Null
      BY <1>1, <2>1 DEF TypeOK
    <2>4. \A e \in Entries : addr[e[1]] = e[2] => addr'[e[1]] = e[2]
      BY <2>1, <2>2, NullIsNoAddress DEF Entries
    <2>5. \A s \in Requests : /\ req[s].snap \subseteq Entries
                              /\ s # r /\ req[s].pc # "idle" => req[s].client \in Clients \ {c}
      BY <1>1, <1>2 DEF TypeOK, Request, Entries, OneAtATime, On, Creating, Shape
    <2>6. \A d \in stored' : addr'[d] # Null
      BY <2>1, <2>2, <2>3 DEF AddressesGiven, TypeOK
    <2>7. ASSUME NEW s \in Requests
          PROVE  /\ req'[s].pc # "idle" => (addr'[req'[s].client] = Null <=> Creating(s)')
                 /\ \A e \in req'[s].snap : addr'[e[1]] = e[2]
      <3>1. CASE s = r
        BY <1>1, <2>3, <2>4, <2>5, <3>1 DEF AddressesGiven, Keeps, Creating
      <3>2. CASE s # r
        BY <1>1, <2>2, <2>4, <2>5, <3>2 DEF AddressesGiven, Others, Creating
      <3> QED  BY <3>1, <3>2
    <2>8. \A i \in Inodes : inodes'[i] # Torn => \A e \in inodes'[i] : addr'[e[1]] = e[2]
      BY <1>1, <2>4 DEF AddressesGiven, TypeOK, Entries
    <2> QED  BY <2>6, <2>7, <2>8 DEF AddressesGiven
  <1>3. CASE req[r].op # "create"
    <2>1. /\ addr' = addr /\ addr[c] # Null /\ stored' \subseteq stored \cup {c}
      BY <1>1, <1>3 DEF UpdateStore, AddressesGiven, Creating
    <2> QED  BY <1>1, <2>1, GivenOfOne DEF AddressesGiven, Keeps, Creating
  <1> QED  BY <1>2, <1>3

\* Every step keeps lists and records true to the addresses.
LEMMA NextGiven ==
    ASSUME TypeOK, Shape, OneAtATime, AddressesGiven, [Next]_vars
    PROVE  AddressesGiven'
  <1> USE FreeFields DEF records, disk, history
  <1>1. ASSUME NEW r \in Requests, NEW c \in Clients, BeginCreate(r, c)  PROVE  AddressesGiven'
    <2>1. /\ Others(r) /\ req'[r].snap = {} /\ req'[r].client = c /\ Creating(r)'
          /\ addr[c] = Null /\ addr' = addr /\ stored' = stored /\ inodes' = inodes
      BY <1>1, BeginCreateMoves DEF BeginCreate, Creating
    <2> QED  BY <2>1, GivenOfOne DEF AddressesGiven
  <1>2. ASSUME NEW r \in Requests, NEW c \in Clients, NEW op \in Ops, BeginChange(r, c, op)
        PROVE  AddressesGiven'
    <2>1. /\ Others(r) /\ req'[r].snap = {} /\ req'[r].client = c /\ ~Creating(r)'
          /\ c \in stored /\ addr' = addr /\ stored' = stored /\ inodes' = inodes
      BY <1>2, BeginChangeMoves DEF BeginChange, Creating
    <2> QED  BY <2>1, GivenOfOne DEF AddressesGiven
  <1>3. ASSUME NEW r \in Requests, RunCommand(r)  PROVE  AddressesGiven'
    BY <1>3, RunCommandMoves, GivenOfOne DEF RunCommand, AddressesGiven, Creating, Keeps
  <1>4. ASSUME NEW r \in Requests, CommandFails(r)  PROVE  AddressesGiven'
    BY <1>4, CommandFailsMoves, GivenOfOne DEF CommandFails, AddressesGiven, Creating, Keeps
  <1>5. ASSUME NEW r \in Requests, AssignEnabled(r)  PROVE  AddressesGiven'
    <2>1. req[r].op # "create"
      BY <1>5 DEF AssignEnabled, Shape
    <2> QED  BY <1>5, <2>1, AssignMoves, GivenOfOne
             DEF AssignEnabled, AddressesGiven, Creating, Keeps
  <1>6. ASSUME NEW r \in Requests, OpenTmp(r)  PROVE  AddressesGiven'
    <2>1. \A e \in List : addr[e[1]] = e[2]
      BY DEF List
    <2>2. \A i \in Inodes : inodes'[i] # Torn => inodes'[i] = inodes[i]
      BY <1>6, OpenMoves
    <2>3. /\ Others(r) /\ req'[r].snap = List /\ req'[r].client = req[r].client
          /\ ~Creating(r)' /\ ~Creating(r) /\ req[r].pc # "idle"
          /\ addr' = addr /\ stored' = stored
      BY <1>6, OpenMoves DEF OpenTmp, Creating
    <2> QED  BY <2>1, <2>2, <2>3, GivenOfOne DEF AddressesGiven
  <1>7. ASSUME NEW r \in Requests, WriteTmp(r)  PROVE  AddressesGiven'
    <2>1. \A i \in Inodes : inodes'[i] \in {Torn, req[r].snap, inodes[i]}
      BY <1>7, WriteMoves
    <2>2. /\ Others(r) /\ req'[r].snap = {} /\ req'[r].client = req[r].client
          /\ ~Creating(r)' /\ ~Creating(r) /\ req[r].pc # "idle"
          /\ addr' = addr /\ stored' = stored
      BY <1>7, WriteMoves DEF WriteTmp, Creating
    <2> QED  BY <2>1, <2>2, GivenOfOne DEF AddressesGiven
  <1>8. ASSUME NEW r \in Requests, Rename(r)  PROVE  AddressesGiven'
    <2>1. /\ Others(r) /\ req'[r] = Free /\ addr' = addr /\ stored' = stored
          /\ \A i \in Inodes : inodes'[i] \in {inodes[i], {}}
      BY <1>8, RenameMoves DEF Rename
    <2>2. \A i \in Inodes : inodes'[i] # Torn => \A e \in inodes'[i] : addr[e[1]] = e[2]
      BY <2>1 DEF AddressesGiven
    <2> QED  BY <2>1, <2>2, GivenOfOne DEF AddressesGiven
  <1>9. ASSUME NEW r \in Requests, SaveFails(r)  PROVE  AddressesGiven'
    BY <1>9, SaveFailsMoves, GivenOfOne DEF SaveFails, AddressesGiven
  <1>10. ASSUME Crash  PROVE  AddressesGiven'
    <2>1. \A e \in Loaded : e \in Entries /\ addr[e[1]] = e[2]
      BY DEF Loaded, AddressesGiven, TypeOK, Entries
    <2>2. \A d \in stored' : addr[d] # Null
      BY <1>10, <2>1, NullIsNoAddress DEF Crash, Entries
    <2> QED  BY <1>10, <2>2 DEF Crash, AddressesGiven
  <1>11. ASSUME NEW r \in Requests, UpdateStore(r)  PROVE  AddressesGiven'
    BY <1>11, UpdateGiven
  <1>12. CASE UNCHANGED <<req, addr, stored, inodes>>
    BY <1>12 DEF AddressesGiven, Creating
  <1> QED  BY <1>1, <1>2, <1>3, <1>4, <1>5, <1>6, <1>7, <1>8, <1>9, <1>10, <1>11, <1>12
           DEF Next, ResetInterface, vars

-----------------------------------------------------------------------------
(* The interface agrees with the records.                                   *)

\* Peers and map agree at the start.
LEMMA InitPeers ==
    Init => Phases /\ PeersAgree
  BY FreeFields DEF Init, Phases, PeersAgree

\* A step of one request touches the record and the peer of its client only.
LEMMA PeersOfOne ==
    ASSUME TypeOK, Shape, OneAtATime, Phases, PeersAgree,
           NEW r \in Requests, NEW c \in Clients, Others(r),
           req[r].pc # "idle" => req[r].client = c,
           req'[r].pc # "idle" => req'[r].client = c,
           \A s \in Requests \ {r} : On(s, c) => ~Calm(c)',
           raced \subseteq raced', upset \subseteq upset',
           \A d \in Clients \ {c} : /\ d \in peers' <=> d \in peers
                                    /\ d \in stored' <=> d \in stored
                                    /\ enabled'[d] = enabled[d],
           req'[r].pc # "idle" /\ Calm(c)' => Phase(r)',
           req'[r].pc = "idle" /\ Calm(c)' => Agree(c)'
    PROVE  Phases' /\ PeersAgree'
  <1>1. \A d : Calm(d)' => Calm(d)
    BY DEF Calm
  <1>2. ASSUME NEW s \in Requests, req'[s].pc # "idle", Calm(req[s].client)'
        PROVE  Phase(s)'
    <2>1. CASE s = r
      BY <1>2, <2>1
    <2>2. CASE s # r
      <3>1. req'[s] = req[s] /\ req[s].client \in Clients \ {c} /\ Phase(s)
        BY <1>1, <1>2, <2>2 DEF Others, Shape, On, Phases
      <3> QED  BY <3>1 DEF Phase, Creating, Agree
    <2> QED  BY <2>1, <2>2
  <1>3. ASSUME NEW d \in Clients, Settled(d)'  PROVE  Agree(d)'
    <2>1. CASE d = c
      BY <1>3, <2>1 DEF Settled, Busy, Calm
    <2>2. CASE d # c
      <3>1. Settled(d)
        BY <1>1, <1>3, <2>2 DEF Settled, Busy, Calm, Others
      <3> QED  BY <2>2, <3>1 DEF PeersAgree, Agree
    <2> QED  BY <2>1, <2>2
  <1> QED  BY <1>2, <1>3 DEF Phases, PeersAgree, Agree

\* Another request on the client of one that is at work has raced.
LEMMA Alone ==
    ASSUME OneAtATime, NEW r \in Requests, NEW c \in Clients, On(r, c), raced \subseteq raced'
    PROVE  \A s \in Requests \ {r} : On(s, c) => ~Calm(c)'
  BY DEF OneAtATime, Calm

\* A beginning request finds the peer as its record says.
LEMMA BeginPeers ==
    ASSUME TypeOK, Shape, OneAtATime, AddressesGiven, Phases, PeersAgree,
           NEW r \in Requests, NEW c \in Clients, NEW op \in Ops,
           BeginCreate(r, c) \/ BeginChange(r, c, op)
    PROVE  Phases' /\ PeersAgree'
  <1>1. /\ Others(r) /\ req[r].pc = "idle" /\ req'[r].pc = "cmd" /\ req'[r].client = c
        /\ raced \subseteq raced' /\ upset' = upset /\ peers' = peers
        /\ stored' = stored /\ enabled' = enabled
    <2>1. CASE BeginCreate(r, c)
      BY <2>1, BeginCreateMoves DEF BeginCreate, records
    <2>2. CASE BeginChange(r, c, op)
      BY <2>2, BeginChangeMoves DEF BeginChange, records
    <2> QED  BY <2>1, <2>2
  <1>2. Calm(c)' => Calm(c) /\ ~Busy(c)
    BY <1>1 DEF BeginCreate, BeginChange, Calm
  <1>3. Calm(c)' => Agree(c)
    BY <1>2 DEF PeersAgree, Agree, Settled, Calm
  <1>4. CASE BeginCreate(r, c)
    <2>1. c \notin stored /\ Creating(r)'
      BY <1>1, <1>4, BeginCreateMoves DEF BeginCreate, AddressesGiven, Creating
    <2>2. Calm(c)' => Phase(r)'
      BY <1>1, <1>3, <2>1 DEF Phase, Agree
    <2> QED  BY <1>1, <1>2, <2>2, PeersOfOne DEF Busy, On
  <1>5. CASE BeginChange(r, c, op)
    <2>1. c \in stored /\ ~Creating(r)'
      BY <1>1, <1>5, BeginChangeMoves DEF BeginChange, Creating
    <2>2. Calm(c)' => Phase(r)'
      BY <1>1, <1>3, <2>1 DEF Phase, Agree
    <2> QED  BY <1>1, <1>2, <2>2, PeersOfOne DEF Busy, On
  <1> QED  BY <1>4, <1>5

\* A handler moves the peer and the record in turn.
LEMMA HandlerPeers ==
    ASSUME TypeOK, Shape, OneAtATime, Phases, PeersAgree, NEW r \in Requests,
           RunCommand(r) \/ CommandFails(r) \/ AssignEnabled(r) \/ UpdateStore(r)
    PROVE  Phases' /\ PeersAgree'
  <1> USE FreeFields DEF records, history
  <1>0. PICK c \in Clients : c = req[r].client /\ req[r].pc # "idle"
    BY DEF RunCommand, CommandFails, AssignEnabled, UpdateStore, Shape
  <1>1. On(r, c) /\ req[r].op \in Ops /\ req[r].pc # "idle"
    BY <1>0 DEF On, TypeOK, Request
  <1>2. raced' = raced /\ upset \subseteq upset'
    BY DEF RunCommand, CommandFails, AssignEnabled, UpdateStore
  <1>3. Calm(c)' => Calm(c) /\ Phase(r)
    BY <1>0, <1>1, <1>2 DEF Calm, Phases
  <1>4. \A s \in Requests \ {r} : On(s, c) => ~Calm(c)'
    BY <1>1, <1>2, Alone
  <1>5. CASE RunCommand(r)
    <2>0. /\ Others(r) /\ req'[r].op = req[r].op /\ req'[r].client = c /\ req[r].pc = "cmd"
          /\ req'[r].pc = IF req[r].op \in {"enable", "disable"} THEN "assign" ELSE "store"
          /\ peers' = PeersAfter(req[r].op, c) /\ stored' = stored /\ enabled' = enabled
      BY <1>0, <1>5, RunCommandMoves DEF RunCommand, Keeps
    <2>1. ASSUME Calm(c)'  PROVE Phase(r)'
      <3>1. Phase(r)
        BY <1>3, <2>1
      <3>2. CASE req[r].op \in {"create", "delete"}
        BY <1>0, <2>0, <3>1, <3>2 DEF Phase, Creating, Agree, PeersAfter
      <3>3. CASE req[r].op \in {"enable", "disable"}
        BY <1>0, <2>0, <3>1, <3>3 DEF Phase, Creating, Agree, PeersAfter
      <3> QED  BY <1>1, <3>2, <3>3 DEF Ops
    <2>2. \A d \in Clients \ {c} : d \in peers' <=> d \in peers
      BY <2>0 DEF PeersAfter
    <2>3. req'[r].pc # "idle"
      BY <2>0
    <2> QED  BY <1>0, <1>2, <1>4, <2>0, <2>1, <2>2, <2>3, PeersOfOne
  <1>6. CASE CommandFails(r)
    <2>1. CASE req[r].op = "create"
      <3>1. Calm(c)' => Agree(c)'
        BY <1>0, <1>3, <1>6, <2>1, CommandFailsMoves DEF CommandFails, Phase, Agree, Creating
      <3> QED  BY <1>0, <1>1, <1>2, <1>4, <1>6, <2>1, <3>1, CommandFailsMoves, PeersOfOne
               DEF CommandFails
    <2>2. CASE req[r].op # "create"
      <3>1. ~Calm(c)'
        BY <1>0, <1>6, <2>2, CommandFailsMoves DEF Calm
      <3> QED  BY <1>0, <1>1, <1>2, <1>6, <2>2, <3>1, CommandFailsMoves, PeersOfOne
               DEF CommandFails, Keeps
    <2> QED  BY <2>1, <2>2
  <1>7. CASE AssignEnabled(r)
    <2>1. enabled'[c] = (req[r].op = "enable") /\ \A d \in Clients \ {c} : enabled'[d] = enabled[d]
      BY <1>0, <1>1, <1>7 DEF AssignEnabled, TypeOK
    <2>2. req[r].op \in {"enable", "disable"}
      BY <1>7 DEF AssignEnabled, Shape
    <2>0. /\ Others(r) /\ req'[r].op = req[r].op /\ req'[r].client = c
          /\ req[r].pc = "assign" /\ req'[r].pc = "store" /\ peers' = peers /\ stored' = stored
      BY <1>0, <1>7, AssignMoves DEF AssignEnabled, Keeps
    <2>3. ASSUME Calm(c)'  PROVE Phase(r)'
      <3>1. Phase(r)
        BY <1>3, <2>3
      <3> QED  BY <1>0, <2>0, <2>1, <2>2, <3>1 DEF Phase, Creating, Agree
    <2> QED  BY <1>0, <1>2, <1>4, <2>0, <2>1, <2>3, PeersOfOne
  <1>8. CASE UpdateStore(r)
    <2>1. \A d \in Clients \ {c} : enabled'[d] = enabled[d] /\ (d \in stored' <=> d \in stored)
      BY <1>0, <1>1, <1>8 DEF UpdateStore, TypeOK
    <2>2. Calm(c)' => Agree(c)'
      <3>1. CASE req[r].op = "create"
        BY <1>0, <1>1, <1>3, <1>8, <3>1 DEF UpdateStore, Phase, Agree, Creating, TypeOK
      <3>2. CASE req[r].op # "create"
        BY <1>0, <1>1, <1>3, <1>8, <3>2 DEF UpdateStore, Phase, Agree, Creating, Ops
      <3> QED  BY <3>1, <3>2
    <2>3. Calm(c)' => Phase(r)'
      BY <1>0, <1>8, <2>2, UpdateMoves DEF Phase, Agree, Creating, Keeps
    <2> QED  BY <1>0, <1>1, <1>2, <1>4, <1>8, <2>1, <2>3, UpdateMoves, PeersOfOne
             DEF UpdateStore, Keeps
  <1> QED  BY <1>5, <1>6, <1>7, <1>8

\* A save changes neither peers nor map.
LEMMA SavePeers ==
    ASSUME TypeOK, Shape, OneAtATime, Phases, PeersAgree, NEW r \in Requests,
           OpenTmp(r) \/ WriteTmp(r) \/ Rename(r) \/ SaveFails(r)
    PROVE  Phases' /\ PeersAgree'
  <1> USE FreeFields DEF records, history
  <1>0. PICK c \in Clients : c = req[r].client /\ req[r].pc # "idle"
    BY DEF OpenTmp, WriteTmp, Rename, Written, SaveFails, Shape
  <1>1. /\ On(r, c) /\ req[r].pc \in {"save", "write", "rename"}
        /\ raced' = raced /\ upset \subseteq upset'
        /\ peers' = peers /\ stored' = stored /\ enabled' = enabled
    BY <1>0 DEF OpenTmp, WriteTmp, Rename, Written, SaveFails, On, TypeOK
  <1>2. Calm(c)' => Calm(c) /\ Agree(c)
    BY <1>0, <1>1 DEF Calm, Phases, Phase, On
  <1>3. \A s \in Requests \ {r} : On(s, c) => ~Calm(c)'
    BY <1>1, Alone
  <1>4. /\ Others(r)
        /\ \/ req'[r] = Free
           \/ req'[r].client = c /\ req'[r].pc \in {"write", "rename"}
    BY <1>0, OpenMoves, WriteMoves, RenameMoves, SaveFailsMoves
  <1>5. Calm(c)' => Agree(c)'
    BY <1>1, <1>2 DEF Agree
  <1>6. Calm(c)' /\ req'[r].pc # "idle" => Phase(r)'
    BY <1>0, <1>4, <1>5 DEF Phase, Creating, Agree
  <1> QED  BY <1>0, <1>1, <1>3, <1>4, <1>5, <1>6, PeersOfOne DEF On

\* The records of a client that nothing disturbed survive a restart.
LEMMA CrashKeeps ==
    ASSUME TypeOK, AddressesGiven, FreshDisk, Crash, NEW c \in Clients, Calm(c)'
    PROVE  /\ Calm(c) /\ ~Busy(c) /\ inodes[file] # Torn
           /\ c \in stored' <=> c \in stored
           /\ enabled'[c] <=> c \in stored /\ enabled[c]
  <1>1. Calm(c) /\ ~Busy(c) /\ inodes[file] # Torn
    BY DEF Crash, Calm
  <1>2. Fresh(c, inodes[file])
    BY <1>1 DEF FreshDisk, Unsaved, Opened, On, Busy, Good
  <1>3. Loaded = inodes[file] /\ inodes[file] \subseteq Entries
    BY <1>1 DEF Loaded, TypeOK, Entries
  <1>4. c \in stored' <=> \E e \in inodes[file] : e[1] = c
    BY <1>3 DEF Crash
  <1>5. enabled'[c] <=> \E e \in inodes[file] : e[1] = c /\ e[3]
    BY <1>3 DEF Crash
  <1>6. \A e \in inodes[file] : e[1] = c => c \in stored /\ e[3] = enabled[c]
    <2> SUFFICES ASSUME NEW e \in inodes[file], e[1] = c
                 PROVE  c \in stored /\ e[3] = enabled[c]
      OBVIOUS
    <2>1. e = <<c, e[2], e[3]>> /\ e[2] \in Addrs /\ e[3] \in BOOLEAN
      BY <1>3 DEF Entries
    <2> QED  BY <1>2, <2>1 DEF Fresh
  <1>7. c \in stored => <<c, addr[c], enabled[c]>> \in inodes[file]
    BY <1>2 DEF Fresh, AddressesGiven, TypeOK
  <1> QED  BY <1>1, <1>4, <1>5, <1>6, <1>7

\* Every step keeps each request in step with the peer of its client.
LEMMA NextPeers ==
    ASSUME TypeOK, Shape, OneAtATime, AddressesGiven, Phases, PeersAgree, FreshDisk, [Next]_vars
    PROVE  Phases' /\ PeersAgree'
  <1> USE FreeFields DEF records, disk, history
  <1>1. ASSUME Crash  PROVE  Phases' /\ PeersAgree'
    <2>1. Phases' /\ peers' = peers
      BY <1>1 DEF Crash, Phases
    <2>2. ASSUME NEW c \in Clients, Settled(c)'
          PROVE  c \in peers' <=> c \in stored' /\ enabled'[c]
      BY <1>1, <2>1, <2>2, CrashKeeps DEF Settled, Calm, PeersAgree
    <2> QED  BY <2>1, <2>2 DEF PeersAgree
  <1>2. ASSUME ResetInterface  PROVE  Phases' /\ PeersAgree'
    <2>1. \A c \in Clients : Calm(c)' => Calm(c) /\ ~Busy(c) /\ c \notin peers
      BY <1>2 DEF ResetInterface, Calm
    <2>2. Phases'
      BY <1>2, <2>1 DEF ResetInterface, Phases, Busy, Shape
    <2>3. PeersAgree'
      BY <1>2, <2>1 DEF ResetInterface, PeersAgree, Settled, Calm, Busy
    <2> QED  BY <2>2, <2>3
  <1>3. CASE UNCHANGED vars
    BY <1>3 DEF vars, Phases, Phase, Agree, Creating, Calm, PeersAgree, Settled, Busy
  <1>4. ASSUME NEW r \in Requests, NEW c \in Clients, BeginCreate(r, c)
        PROVE  Phases' /\ PeersAgree'
    BY <1>4, BeginPeers DEF Ops
  <1>5. ASSUME NEW r \in Requests, NEW c \in Clients, NEW op \in Ops, BeginChange(r, c, op)
        PROVE  Phases' /\ PeersAgree'
    BY <1>5, BeginPeers
  <1> QED  BY <1>1, <1>2, <1>3, <1>4, <1>5, HandlerPeers, SavePeers DEF Next

-----------------------------------------------------------------------------
(* Saves that overlap, and incomplete files.                                *)

\* A writing request has an inode.
LEMMA InodeOfWriter ==
    ASSUME TypeOK, Shape, NEW r \in Requests, req[r].pc = "write"
    PROVE  req[r].inode \in Inodes
  BY DEF TypeOK, Shape, Request

\* A list about to be written is whole.
LEMMA SnapIsNotTorn ==
    ASSUME TypeOK, NEW r \in Requests
    PROVE  req[r].snap # Torn
  BY AwgConstants DEF TypeOK, Request

\* The list changes only with the records.
LEMMA ListKept ==
    ASSUME UNCHANGED records
    PROVE  List' = List
  BY DEF List, records

\* A request before its save moves on; nobody else does.
LEMMA TornOfOne ==
    ASSUME TypeOK, SameList, TornTmp, TornFile, NEW r \in Requests, Others(r),
           req[r].pc \notin {"store", "save", "write", "rename"},
           req'[r].pc \notin {"write", "rename"},
           AtStore' \/ List' = List, UNCHANGED disk, upset \subseteq upset',
           upset' \subseteq Clients
    PROVE  SameList' /\ TornTmp' /\ TornFile'
  <1>1. /\ inodes' = inodes /\ tmp' = tmp /\ file' = file
        /\ upset = Clients => upset' = Clients
    BY DEF disk
  <1>2. /\ AtStore => AtStore'
        /\ Saving' <=> Saving
        /\ \A i : Writing(i) => Writing(i)'
        /\ (\E s \in Requests : req[s].pc \in {"store", "save"}) =>
              \E s \in Requests : req'[s].pc \in {"store", "save"}
    BY DEF AtStore, Saving, Writing, Others
  <1>3. SameList'
    BY <1>1, <1>2 DEF SameList, Others
  <1>4. TornTmp' /\ TornFile'
    BY <1>1, <1>2 DEF TornTmp, TornFile
  <1> QED  BY <1>3, <1>4

\* Opening the temporary file leaves it to its writer to complete.
LEMMA OpenTorn ==
    ASSUME TypeOK, Shape, SameList, TornTmp, TornFile, NEW r \in Requests, OpenTmp(r)
    PROVE  SameList' /\ TornTmp' /\ TornFile'
  <1>1. /\ Others(r) /\ req[r].pc = "save" /\ req'[r].pc = "write"
        /\ req'[r].snap = List /\ req'[r].inode = tmp' /\ tmp' \in Inodes
        /\ inodes'[tmp'] = Torn /\ \A i \in Inodes \ {tmp'} : inodes'[i] = inodes[i]
        /\ List' = List /\ file' = file /\ upset' = upset
    <2>1. List' = List /\ file' = file /\ upset' = upset
      BY ListKept DEF OpenTmp, history
    <2> QED  BY <2>1, OpenMoves
  <1>2. AtStore => AtStore'
    BY <1>1 DEF AtStore, Others
  <1>3. ASSUME ~AtStore', NEW s \in Requests, req'[s].pc = "write"
        PROVE  req'[s].snap = List' /\ inodes'[req'[s].inode] \in {Torn, List'}
    <2>1. CASE s = r
      BY <1>1, <2>1
    <2>2. CASE s # r
      <3>1. req'[s] = req[s] /\ req[s].inode \in Inodes /\ req[s].snap = List
            /\ inodes[req[s].inode] \in {Torn, List}
        BY <1>1, <1>2, <1>3, <2>2, InodeOfWriter DEF SameList, Others
      <3> QED  BY <1>1, <3>1
    <2> QED  BY <2>1, <2>2
  <1>4. SameList'
    BY <1>3 DEF SameList
  <1>5. \E s \in Requests : req'[s].pc = "write" /\ req'[s].inode = tmp'
    BY <1>1
  <1>6. Null \notin Inodes
    BY AwgConstants, FS_CardinalityType DEF Inodes
  <1>7. TornTmp'
    BY <1>5 DEF TornTmp, Writing
  <1>8. TornFile'
    BY <1>1, <1>5, <1>6 DEF TornFile, Saving
  <1> QED  BY <1>4, <1>7, <1>8

\* A write completes the file, or another save is still to do so.
LEMMA WriteTorn ==
    ASSUME TypeOK, Shape, SameList, TornTmp, TornFile, NEW r \in Requests, WriteTmp(r)
    PROVE  SameList' /\ TornTmp' /\ TornFile'
  <1>1. PICK i \in Inodes : i = req[r].inode
    BY WriteMoves
  <1>2. /\ Others(r) /\ req[r].pc = "write" /\ req'[r].pc = "rename"
        /\ \/ inodes'[i] = req[r].snap
           \/ inodes[i] \notin {Torn, req[r].snap} /\ inodes'[i] = Torn
        /\ \A j \in Inodes \ {i} : inodes'[j] = inodes[j]
        /\ List' = List /\ file' = file /\ tmp' = tmp /\ upset' = upset
    <2>1. List' = List /\ file' = file /\ tmp' = tmp /\ upset' = upset
      BY ListKept DEF WriteTmp, history
    <2> QED  BY <1>1, <2>1, WriteMoves
  <1>3. (AtStore => AtStore') /\ (AtStore' => AtStore) /\ Saving /\ Saving'
    BY <1>2 DEF AtStore, Others, Saving
  <1>4. ~AtStore => inodes'[i] = List /\ req[r].snap = List
    BY <1>1, <1>2 DEF SameList
  <1>5. inodes'[i] = Torn => AtStore
    <2>1. req[r].snap # Torn
      BY SnapIsNotTorn
    <2> QED  BY <1>2, <1>4, <2>1
  <1>6. \A j : j # i /\ Writing(j) => Writing(j)'
    BY <1>1, <1>2 DEF Writing, Others
  <1>7. ASSUME ~AtStore', NEW s \in Requests, req'[s].pc = "write"
        PROVE  req'[s].snap = List' /\ inodes'[req'[s].inode] \in {Torn, List'}
    <2>1. req'[s] = req[s] /\ req[s].inode \in Inodes /\ req[s].snap = List
          /\ inodes[req[s].inode] \in {Torn, List}
      BY <1>2, <1>3, <1>7, InodeOfWriter DEF SameList, Others
    <2> QED  BY <1>2, <1>3, <1>4, <1>7, <2>1
  <1>8. SameList'
    BY <1>7 DEF SameList
  <1>9. TornTmp'
    BY <1>2, <1>3, <1>5, <1>6 DEF TornTmp, TypeOK
  <1>10. file \in Inodes /\ \A s \in Requests : req[s].pc \in {"store", "save"} => req'[s] = req[s]
    BY <1>2 DEF TypeOK, Others
  <1>11. TornFile'
    BY <1>2, <1>3, <1>5, <1>6, <1>10 DEF TornFile, AtStore
  <1> QED  BY <1>8, <1>9, <1>11

\* A rename moves a file that is whole, or that a save is still to replace.
LEMMA RenameTorn ==
    ASSUME TypeOK, Shape, SameList, TornTmp, TornFile, NEW r \in Requests, Rename(r)
    PROVE  SameList' /\ TornTmp' /\ TornFile'
  <1> USE FreeFields
  <1>1. /\ Others(r) /\ req[r].pc = "rename" /\ req'[r] = Free
        /\ tmp' = Null /\ file' = (IF tmp = Null THEN file ELSE tmp)
        /\ file' \in Inodes /\ inodes'[file'] = inodes[file']
        /\ \A s \in Requests : req[s].inode \in Inodes =>
                inodes'[req[s].inode] = inodes[req[s].inode]
        /\ List' = List /\ upset' = upset
    <2>1. List' = List /\ upset' = upset
      BY ListKept DEF Rename, history
    <2> QED  BY <2>1, RenameMoves
  <1>2. /\ AtStore => AtStore'
        /\ AtStore' => AtStore
        /\ Saving
        /\ \A j : Writing(j) => Writing(j)'
        /\ (\E s \in Requests : req[s].pc \in {"store", "save"}) =>
              \E s \in Requests : req'[s].pc \in {"store", "save"}
    BY <1>1 DEF AtStore, Others, Saving, Writing
  <1>3. ASSUME ~AtStore', NEW s \in Requests, req'[s].pc = "write"
        PROVE  req'[s].snap = List' /\ inodes'[req'[s].inode] \in {Torn, List'}
    <2>1. req'[s] = req[s] /\ req[s].inode \in Inodes /\ req[s].snap = List
          /\ inodes[req[s].inode] \in {Torn, List}
      BY <1>1, <1>2, <1>3, InodeOfWriter DEF SameList, Others
    <2> QED  BY <1>1, <2>1
  <1>4. SameList'
    BY <1>3 DEF SameList
  <1>5. TornTmp'
    BY <1>1 DEF TornTmp
  <1>6. ASSUME inodes[file'] = Torn
        PROVE  \/ upset = Clients \/ Writing(file')
               \/ \E s \in Requests : req[s].pc \in {"store", "save"}
    <2>1. CASE tmp = Null
      BY <1>1, <1>6, <2>1 DEF TornFile
    <2>2. CASE tmp # Null
      BY <1>1, <1>2, <1>6, <2>2 DEF TornTmp, AtStore
    <2> QED  BY <2>1, <2>2
  <1>7. TornFile'
    BY <1>1, <1>2, <1>6 DEF TornFile
  <1> QED  BY <1>4, <1>5, <1>7

\* A change of the map is followed by a save.
LEMMA UpdateTorn ==
    ASSUME TypeOK, SameList, TornTmp, TornFile, NEW r \in Requests, UpdateStore(r)
    PROVE  SameList' /\ TornTmp' /\ TornFile'
  <1>1. /\ Others(r) /\ req'[r].pc = "save"
        /\ \A s \in Requests : req[s].pc \notin {"write", "rename"}
        /\ inodes' = inodes /\ tmp' = tmp /\ file' = file /\ upset' = upset
    BY UpdateMoves DEF UpdateStore, disk, history
  <1>2. ~Saving' /\ ~Saving /\ \A i : ~Writing(i)
    BY <1>1 DEF Saving, Writing, Others
  <1>3. SameList' /\ TornTmp'
    BY <1>1, <1>2 DEF SameList, TornTmp, Saving
  <1>4. TornFile'
    BY <1>1, <1>2 DEF TornFile
  <1> QED  BY <1>3, <1>4

\* After a failed save nothing is claimed.
LEMMA SaveFailsTorn ==
    ASSUME TypeOK, SameList, NEW r \in Requests, SaveFails(r)
    PROVE  SameList' /\ TornTmp' /\ TornFile'
  <1> USE FreeFields
  <1>1. /\ Others(r) /\ req'[r] = Free /\ upset' = Clients /\ inodes' = inodes /\ List' = List
        /\ req[r].pc # "store"
    BY SaveFailsMoves DEF SaveFails, disk, records, List
  <1>2. AtStore => AtStore'
    BY <1>1 DEF AtStore, Others
  <1>3. SameList'
    BY <1>1, <1>2 DEF SameList, Others
  <1> QED  BY <1>1, <1>3 DEF TornTmp, TornFile

\* The files are whole at the start.
LEMMA InitTorn ==
    Init => SameList /\ TornTmp /\ TornFile
  <1> SUFFICES ASSUME Init PROVE SameList /\ TornTmp /\ TornFile
    OBVIOUS
  <1>1. inodes[file] # Torn
    <2>1. 0 \in Inodes
      BY AwgConstants, FS_CardinalityType DEF Inodes
    <2>2. {} # Torn
      BY AwgConstants
    <2> QED  BY <2>1, <2>2 DEF Init
  <1> QED  BY <1>1, FreeFields DEF Init, SameList, TornTmp, TornFile, Saving

\* Every step keeps an incomplete file somebody's work.
LEMMA NextTorn ==
    ASSUME TypeOK, TypeOK', Shape, SameList, TornTmp, TornFile, [Next]_vars
    PROVE  SameList' /\ TornTmp' /\ TornFile'
  <1> USE FreeFields
  <1>0. upset' \subseteq Clients
    BY DEF TypeOK
  <1>1. ASSUME NEW r \in Requests, NEW c \in Clients, BeginCreate(r, c)
        PROVE  SameList' /\ TornTmp' /\ TornFile'
    <2>1. /\ Others(r) /\ req[r].pc = "idle" /\ req'[r].pc = "cmd" /\ List' = List
          /\ UNCHANGED disk /\ upset' = upset
      BY <1>1, BeginCreateMoves, ListKept DEF BeginCreate
    <2> QED  BY <1>0, <2>1, TornOfOne
  <1>2. ASSUME NEW r \in Requests, NEW c \in Clients, NEW op \in Ops, BeginChange(r, c, op)
        PROVE  SameList' /\ TornTmp' /\ TornFile'
    <2>1. /\ Others(r) /\ req[r].pc = "idle" /\ req'[r].pc = "cmd" /\ List' = List
          /\ UNCHANGED disk /\ upset' = upset
      BY <1>2, BeginChangeMoves, ListKept DEF BeginChange
    <2> QED  BY <1>0, <2>1, TornOfOne
  <1>3. ASSUME NEW r \in Requests, RunCommand(r)  PROVE  SameList' /\ TornTmp' /\ TornFile'
    <2>1. /\ Others(r) /\ req[r].pc = "cmd" /\ req'[r].pc \in {"assign", "store"} /\ List' = List
          /\ UNCHANGED disk /\ upset' = upset
      BY <1>3, RunCommandMoves DEF RunCommand, List, records, history
    <2> QED  BY <1>0, <2>1, TornOfOne
  <1>4. ASSUME NEW r \in Requests, CommandFails(r)  PROVE  SameList' /\ TornTmp' /\ TornFile'
    <2>1. /\ Others(r) /\ req[r].pc = "cmd" /\ req'[r].pc \in {"idle", "assign", "store"}
          /\ List' = List /\ UNCHANGED disk /\ upset \subseteq upset'
      BY <1>4, CommandFailsMoves DEF CommandFails, List, records
    <2> QED  BY <1>0, <2>1, TornOfOne
  <1>5. ASSUME NEW r \in Requests, AssignEnabled(r)  PROVE  SameList' /\ TornTmp' /\ TornFile'
    <2>1. /\ Others(r) /\ req[r].pc = "assign" /\ req'[r].pc = "store"
          /\ UNCHANGED disk /\ upset' = upset
      BY <1>5, AssignMoves DEF AssignEnabled, history
    <2>2. AtStore'
      BY <2>1 DEF AtStore
    <2> QED  BY <1>0, <2>1, <2>2, TornOfOne
  <1>6. ASSUME Crash  PROVE  SameList' /\ TornTmp' /\ TornFile'
    <2>1. /\ \A s \in Requests : req'[s] = Free
          /\ inodes' = inodes /\ file' = file
          /\ inodes[file] = Torn => upset' = Clients
      BY <1>6 DEF Crash, disk
    <2> QED  BY <2>1 DEF SameList, TornTmp, TornFile, Saving
  <1>7. ASSUME ResetInterface  PROVE  SameList' /\ TornTmp' /\ TornFile'
    <2>1. /\ UNCHANGED <<req, disk>> /\ List' = List /\ (upset = Clients => upset' = Clients)
      BY <1>0, <1>7 DEF ResetInterface, records, List
    <2> QED  BY <2>1 DEF disk, SameList, TornTmp, TornFile, Saving, AtStore, Writing
  <1>8. CASE UNCHANGED vars
    BY <1>8 DEF vars, records, disk, history, SameList, TornTmp, TornFile, Saving, AtStore,
                Writing, List
  <1> QED  BY <1>1, <1>2, <1>3, <1>4, <1>5, <1>6, <1>7, <1>8, OpenTorn, WriteTorn, RenameTorn,
              UpdateTorn, SaveFailsTorn DEF Next

-----------------------------------------------------------------------------
(* What is on disk.                                                         *)

\* The list of the map agrees with the map.
LEMMA ListIsFresh ==
    ASSUME TypeOK, NEW c \in Clients
    PROVE  Fresh(c, List)
  BY DEF Fresh, List, TypeOK

\* The record of a client is as it was.
Same(c) == /\ c \in stored' <=> c \in stored
           /\ addr'[c] = addr[c] /\ enabled'[c] = enabled[c]

\* A list stays fresh for a client that stays the same.
LEMMA FreshKept ==
    ASSUME NEW c, NEW l, Fresh(c, l), Same(c)
    PROVE  Fresh(c, l)'
  BY DEF Fresh, Same

Storing(c) == \E r \in Requests : On(r, c) /\ req[r].pc = "store"

\* A step that writes no list: whoever is calm and has nothing to save was so
\* before, and its record is as it was.
LEMMA FreshOfOne ==
    ASSUME TypeOK, FreshLists, FreshDisk, UNCHANGED disk,
           \A s \in Requests : req'[s].pc = "write" => req'[s] = req[s],
           \A c \in Clients : Calm(c)' /\ ~Storing(c)' =>
              /\ Calm(c) /\ ~Storing(c) /\ Same(c),
           \A c \in Clients : Calm(c)' /\ ~Unsaved(c)' =>
              /\ Calm(c) /\ ~Unsaved(c) /\ Same(c)
              /\ Opened(c) => Opened(c)'
    PROVE  FreshLists' /\ FreshDisk'
  <1>1. inodes' = inodes /\ tmp' = tmp /\ file' = file
    BY DEF disk
  <1>2. FreshLists'
    <2> SUFFICES ASSUME NEW c \in Clients, Calm(c)', ~Storing(c)',
                        NEW s \in Requests, req'[s].pc = "write"
                 PROVE  Fresh(c, req[s].snap)'
      BY DEF FreshLists, Storing
    <2>1. Fresh(c, req[s].snap) /\ Same(c) /\ req'[s].snap = req[s].snap
      BY DEF FreshLists, Storing
    <2> QED  BY <2>1 DEF Fresh, Same
  <1>3. FreshDisk'
    <2> SUFFICES ASSUME NEW c \in Clients, Calm(c)', ~Unsaved(c)'
                 PROVE  /\ tmp # Null => Good(c, tmp)'
                        /\ (Opened(c)' /\ tmp # Null) \/ Good(c, file)'
      BY <1>1 DEF FreshDisk
    <2>1. /\ tmp # Null => Good(c, tmp)
          /\ (Opened(c)' /\ tmp # Null) \/ Good(c, file)
          /\ Same(c)
      BY DEF FreshDisk
    <2>2. Good(c, tmp) => Good(c, tmp)'
      BY <1>1, <2>1 DEF Good, Fresh, Same
    <2>3. Good(c, file) => Good(c, file)'
      BY <1>1, <2>1 DEF Good, Fresh, Same
    <2> QED  BY <2>1, <2>2, <2>3
  <1> QED  BY <1>2, <1>3

\* Steps before the save disturb only their own client.
LEMMA BeforeSaveFresh ==
    ASSUME TypeOK, Shape, OneAtATime, FreshLists, FreshDisk, NEW r \in Requests,
           \/ \E c \in Clients : BeginCreate(r, c) \/ \E op \in Ops : BeginChange(r, c, op)
           \/ RunCommand(r) \/ CommandFails(r) \/ AssignEnabled(r)
    PROVE  FreshLists' /\ FreshDisk'
  <1> USE FreeFields
  <1>1. /\ Others(r) /\ req[r].pc \in {"idle", "cmd", "assign"}
        /\ req'[r].pc \in {"idle", "cmd", "assign", "store"}
        /\ req'[r].pc # "idle" => req'[r].client \in Clients
    BY BeginCreateMoves, BeginChangeMoves, RunCommandMoves, CommandFailsMoves, AssignMoves
       DEF Keeps, Shape
  <1>2. /\ UNCHANGED disk /\ raced \subseteq raced' /\ upset \subseteq upset'
        /\ addr' = addr /\ stored' = stored
    BY DEF BeginCreate, BeginChange, RunCommand, CommandFails, AssignEnabled, records, history
  <1>3. \A c \in Clients : enabled'[c] = enabled[c] \/ Storing(c)'
    <2>1. CASE AssignEnabled(r)
      <3>1. PICK c \in Clients : c = req[r].client
        BY <2>1 DEF AssignEnabled, Shape
      <3>2. \A d \in Clients \ {c} : enabled'[d] = enabled[d]
        BY <2>1, <3>1 DEF AssignEnabled, TypeOK
      <3>3. Storing(c)'
        BY <2>1, <3>1, AssignMoves DEF Storing, On, Keeps
      <3> QED  BY <3>2, <3>3
    <2>2. CASE ~AssignEnabled(r)
      BY <2>2 DEF BeginCreate, BeginChange, RunCommand, CommandFails, records
    <2> QED  BY <2>1, <2>2
  <1>4. \A c \in Clients : /\ Calm(c)' => Calm(c)
                           /\ Storing(c) => Storing(c)'
                           /\ Unsaved(c) => Unsaved(c)'
                           /\ Opened(c) => Opened(c)'
                           /\ Storing(c)' => Unsaved(c)'
    BY <1>1, <1>2 DEF Calm, Storing, Unsaved, Opened, On, Others
  <1>5. \A c \in Clients : ~Storing(c)' => Same(c)
    BY <1>2, <1>3 DEF Same
  <1>6. \A s \in Requests : req'[s].pc = "write" => req'[s] = req[s]
    BY <1>1 DEF Others
  <1> QED  BY <1>2, <1>4, <1>5, <1>6, FreshOfOne

\* A change of the map disturbs only its own client, whose save is still to come.
LEMMA UpdateFresh ==
    ASSUME TypeOK, Shape, FreshLists, FreshDisk, NEW r \in Requests, UpdateStore(r)
    PROVE  FreshLists' /\ FreshDisk'
  <1>1. PICK c \in Clients : c = req[r].client
    BY DEF UpdateStore, Shape
  <1>2. /\ Others(r) /\ req[r].pc = "store" /\ req'[r].pc = "save" /\ req'[r].client = c
        /\ \A s \in Requests : req[s].pc \notin {"write", "rename"}
        /\ raced' = raced /\ upset' = upset
        /\ inodes' = inodes /\ tmp' = tmp /\ file' = file
    BY <1>1, UpdateMoves DEF Keeps, UpdateStore, history, disk
  <1>3. \A d \in Clients \ {c} : Same(d)
    BY <1>1 DEF UpdateStore, Same, TypeOK
  <1>4. FreshLists'
    BY <1>2 DEF FreshLists, Others
  <1>5. Unsaved(c)'
    BY <1>2 DEF Unsaved, On
  <1>6. \A d \in Clients \ {c} : ~Unsaved(d)' => ~Unsaved(d)
    BY <1>1, <1>2 DEF Unsaved, On, Others
  <1>7. \A d \in Clients : ~Opened(d)
    BY <1>2 DEF Opened
  <1>8. ASSUME NEW d \in Clients, Calm(d)', ~Unsaved(d)'
        PROVE  (tmp # Null => Good(d, tmp)') /\ Good(d, file)'
    <2>1. Calm(d) /\ ~Unsaved(d) /\ Same(d)
      BY <1>2, <1>3, <1>5, <1>6, <1>8 DEF Calm
    <2>2. (tmp # Null => Good(d, tmp)) /\ Good(d, file)
      BY <1>7, <2>1 DEF FreshDisk
    <2>3. Good(d, tmp) => Good(d, tmp)'
      BY <1>2, <2>1 DEF Good, Fresh, Same
    <2>4. Good(d, file) => Good(d, file)'
      BY <1>2, <2>1 DEF Good, Fresh, Same
    <2> QED  BY <2>2, <2>3, <2>4
  <1>9. FreshDisk'
    BY <1>2, <1>8 DEF FreshDisk
  <1> QED  BY <1>4, <1>9

\* Nothing is stored while a list is opened, written or renamed.
LEMMA SavingKeeps ==
    ASSUME UNCHANGED records, NEW c, NEW l
    PROVE  Fresh(c, l)' <=> Fresh(c, l')
  BY DEF records, Fresh

\* The list a save takes is fresh.
LEMMA OpenFresh ==
    ASSUME TypeOK, Shape, OneAtATime, FreshLists, FreshDisk, NEW r \in Requests, OpenTmp(r)
    PROVE  FreshLists' /\ FreshDisk'
  <1>1. PICK c \in Clients : c = req[r].client
    BY DEF OpenTmp, Shape
  <1>2. /\ Others(r) /\ req[r].pc = "save" /\ req'[r].pc = "write" /\ req'[r].client = c
        /\ req'[r].snap = List /\ tmp' \in Inodes /\ (tmp # Null => tmp' = tmp)
        /\ inodes'[tmp'] = Torn /\ \A i \in Inodes \ {tmp'} : inodes'[i] = inodes[i]
    BY <1>1, OpenMoves
  <1>3. /\ raced' = raced /\ upset' = upset /\ file' = file
        /\ addr' = addr /\ stored' = stored /\ enabled' = enabled
    BY DEF OpenTmp, history, records
  <1>4. \A d : Calm(d)' <=> Calm(d)
    BY <1>3 DEF Calm
  <1>5. FreshLists'
    <2> SUFFICES ASSUME NEW d \in Clients, Calm(d), ~Storing(d)',
                        NEW s \in Requests, req'[s].pc = "write"
                 PROVE  Fresh(d, req'[s].snap)
      BY <1>3, <1>4 DEF FreshLists, Storing, Fresh
    <2>1. ~Storing(d)
      BY <1>2 DEF Storing, On, Others
    <2>2. CASE s = r
      BY <1>2, <2>2, ListIsFresh
    <2>3. CASE s # r
      BY <1>2, <2>1, <2>3 DEF FreshLists, Storing, Others
    <2> QED  BY <2>2, <2>3
  <1>6. ASSUME NEW d \in Clients, Calm(d), ~Unsaved(d)'
        PROVE  Opened(d)' \/ (~Unsaved(d) /\ (Opened(d) => Opened(d)'))
    <2>1. CASE d = c
      BY <1>2, <2>1 DEF Opened, On
    <2>2. CASE d # c
      BY <1>1, <1>2, <1>6, <2>2 DEF Opened, Unsaved, On, Others
    <2> QED  BY <2>1, <2>2
  <1>7. Null \notin Inodes /\ file \in Inodes
    BY AwgConstants, FS_CardinalityType DEF Inodes, TypeOK
  <1>8. ASSUME NEW d \in Clients, Calm(d), ~Unsaved(d)'
        PROVE  inodes'[tmp'] = Torn /\ (Opened(d)' \/ inodes'[file] = Torn \/ Fresh(d, inodes'[file]))
    <2>1. CASE Opened(d)'
      BY <1>2, <2>1
    <2>2. CASE ~Opened(d)'
      <3>1. Good(d, file)
        BY <1>6, <1>8, <2>2 DEF FreshDisk
      <3> QED  BY <1>2, <1>7, <3>1 DEF Good
    <2> QED  BY <2>1, <2>2
  <1>9. FreshDisk'
    <2> SUFFICES ASSUME NEW d \in Clients, Calm(d)', ~Unsaved(d)'
                 PROVE  /\ tmp' # Null => Good(d, tmp)'
                        /\ (Opened(d)' /\ tmp' # Null) \/ Good(d, file)'
      BY DEF FreshDisk
    <2>1. Good(d, tmp)'
      BY <1>4, <1>8 DEF Good
    <2>2. Opened(d)' \/ Good(d, file)'
      BY <1>3, <1>4, <1>8 DEF Good, Fresh
    <2> QED  BY <1>2, <1>7, <2>1, <2>2
  <1> QED  BY <1>5, <1>9

\* What a write puts on the disk is fresh.
LEMMA WriteFresh ==
    ASSUME TypeOK, Shape, FreshLists, FreshDisk, NEW r \in Requests, WriteTmp(r)
    PROVE  FreshLists' /\ FreshDisk'
  <1>1. PICK i \in Inodes : i = req[r].inode
    BY WriteMoves
  <1>2. /\ Others(r) /\ req[r].pc = "write" /\ req'[r].pc = "rename"
        /\ req'[r].client = req[r].client
        /\ inodes'[i] \in {req[r].snap, Torn}
        /\ \A j \in Inodes \ {i} : inodes'[j] = inodes[j]
    BY <1>1, WriteMoves
  <1>3. /\ raced' = raced /\ upset' = upset /\ file' = file /\ tmp' = tmp
        /\ addr' = addr /\ stored' = stored /\ enabled' = enabled
    BY DEF WriteTmp, history, records
  <1>4. \A d : /\ Calm(d)' <=> Calm(d)
               /\ Unsaved(d)' <=> Unsaved(d)
               /\ Opened(d) => Opened(d)'
               /\ Storing(d)' <=> Storing(d)
               /\ Storing(d) => Unsaved(d)
    BY <1>2, <1>3 DEF Calm, Unsaved, Opened, Storing, On, Others
  <1>5. FreshLists'
    <2> SUFFICES ASSUME NEW d \in Clients, Calm(d), ~Storing(d),
                        NEW s \in Requests, req'[s].pc = "write"
                 PROVE  Fresh(d, req'[s].snap)
      BY <1>3, <1>4 DEF FreshLists, Storing, Fresh
    <2> QED  BY <1>2 DEF FreshLists, Storing, Others
  <1>6. ASSUME NEW d \in Clients, Calm(d), ~Unsaved(d), NEW j \in Inodes, Good(d, j)
        PROVE  inodes'[j] = Torn \/ Fresh(d, inodes'[j])
    <2>1. Fresh(d, req[r].snap)
      BY <1>2, <1>4, <1>6 DEF FreshLists, Storing
    <2> QED  BY <1>2, <1>6, <2>1 DEF Good
  <1>7. FreshDisk'
    <2> SUFFICES ASSUME NEW d \in Clients, Calm(d)', ~Unsaved(d)'
                 PROVE  /\ tmp' # Null => Good(d, tmp)'
                        /\ (Opened(d)' /\ tmp' # Null) \/ Good(d, file)'
      BY DEF FreshDisk
    <2>1. /\ tmp # Null => Good(d, tmp)
          /\ (Opened(d)' /\ tmp # Null) \/ Good(d, file)
      BY <1>4 DEF FreshDisk
    <2>2. Good(d, file) => Good(d, file)'
      BY <1>3, <1>4, <1>6 DEF Good, Fresh, TypeOK
    <2>3. tmp # Null => Good(d, tmp)'
      BY <1>3, <1>4, <1>6, <2>1 DEF Good, Fresh, TypeOK
    <2> QED  BY <1>3, <2>1, <2>2, <2>3
  <1> QED  BY <1>5, <1>7

\* What a rename makes clients.json is fresh.
LEMMA RenameFresh ==
    ASSUME TypeOK, Shape, FreshLists, FreshDisk, NEW r \in Requests, Rename(r)
    PROVE  FreshLists' /\ FreshDisk'
  <1> USE FreeFields
  <1>1. /\ Others(r) /\ req[r].pc = "rename" /\ req'[r] = Free
        /\ tmp' = Null /\ file' = (IF tmp = Null THEN file ELSE tmp)
        /\ inodes'[file'] = inodes[file']
    BY RenameMoves
  <1>2. /\ raced' = raced /\ upset' = upset
        /\ addr' = addr /\ stored' = stored /\ enabled' = enabled
    BY DEF Rename, history, records
  <1>3. \A d : /\ Calm(d)' <=> Calm(d)
               /\ Unsaved(d)' <=> Unsaved(d)
               /\ Storing(d)' <=> Storing(d)
    BY <1>1, <1>2 DEF Calm, Unsaved, Storing, On, Others
  <1>4. FreshLists'
    <2> SUFFICES ASSUME NEW d \in Clients, Calm(d), ~Storing(d),
                        NEW s \in Requests, req'[s].pc = "write"
                 PROVE  Fresh(d, req'[s].snap)
      BY <1>2, <1>3 DEF FreshLists, Storing, Fresh
    <2> QED  BY <1>1 DEF FreshLists, Storing, Others
  <1>5. ASSUME NEW d \in Clients, Calm(d), ~Unsaved(d)
        PROVE  inodes[file'] = Torn \/ Fresh(d, inodes[file'])
    BY <1>1, <1>5 DEF FreshDisk, Good
  <1>6. FreshDisk'
    <2> SUFFICES ASSUME NEW d \in Clients, Calm(d)', ~Unsaved(d)'
                 PROVE  Good(d, file)'
      BY <1>1 DEF FreshDisk
    <2> QED  BY <1>1, <1>2, <1>3, <1>5 DEF Good, Fresh
  <1> QED  BY <1>4, <1>6

\* After a restart the map is what was on the disk.
LEMMA CrashFresh ==
    ASSUME TypeOK, AddressesGiven, FreshLists, FreshDisk, Crash
    PROVE  FreshLists' /\ FreshDisk'
  <1> USE FreeFields
  <1>1. /\ \A s \in Requests : req'[s] = Free
        /\ inodes' = inodes /\ tmp' = tmp /\ file' = file /\ addr' = addr
    BY DEF Crash, disk
  <1>2. FreshLists'
    BY <1>1 DEF FreshLists
  <1>3. ASSUME NEW c \in Clients, Calm(c)'
        PROVE  (tmp # Null => Good(c, tmp)') /\ Good(c, file)'
    <2>1. Calm(c) /\ ~Unsaved(c) /\ ~Opened(c)
      BY <1>3, CrashKeeps DEF Busy, Unsaved, Opened, On
    <2>2. (tmp # Null => Good(c, tmp)) /\ Good(c, file)
      BY <2>1 DEF FreshDisk
    <2>3. /\ c \in stored' <=> c \in stored
          /\ c \in stored => enabled'[c] = enabled[c]
      <3>1. enabled'[c] \in BOOLEAN /\ enabled[c] \in BOOLEAN
        BY DEF Crash, TypeOK
      <3> QED  BY <1>3, <3>1, CrashKeeps
    <2>4. Good(c, tmp) => Good(c, tmp)'
      BY <1>1, <2>3 DEF Good, Fresh
    <2>5. Good(c, file) => Good(c, file)'
      BY <1>1, <2>3 DEF Good, Fresh
    <2> QED  BY <2>2, <2>4, <2>5
  <1>4. FreshDisk'
    BY <1>1, <1>3 DEF FreshDisk
  <1> QED  BY <1>2, <1>4

\* The disk agrees with the map at the start.
LEMMA InitFresh ==
    Init => FreshLists /\ FreshDisk
  <1> SUFFICES ASSUME Init PROVE FreshLists /\ FreshDisk
    OBVIOUS
  <1>1. FreshLists
    BY FreeFields DEF Init, FreshLists
  <1>2. 0 \in Inodes
    BY AwgConstants, FS_CardinalityType DEF Inodes
  <1>3. \A c \in Clients : Good(c, file)
    BY <1>2 DEF Init, Good, Fresh
  <1>4. FreshDisk
    BY <1>3 DEF Init, FreshDisk
  <1> QED  BY <1>1, <1>4

\* Every step keeps lists and disk fresh.
LEMMA NextFreshDisk ==
    ASSUME TypeOK, Shape, OneAtATime, AddressesGiven, FreshLists, FreshDisk, [Next]_vars
    PROVE  FreshLists' /\ FreshDisk'
  <1> USE FreeFields
  <1>1. ASSUME NEW r \in Requests, SaveFails(r)  PROVE  FreshLists' /\ FreshDisk'
    <2>1. upset' = Clients
      BY <1>1, SaveFailsMoves
    <2> QED  BY <2>1 DEF FreshLists, FreshDisk, Calm
  <1>2. CASE ResetInterface
    <2>1. /\ UNCHANGED <<records, req, disk>> /\ raced' = raced /\ upset \subseteq upset'
      BY <1>2 DEF ResetInterface
    <2> QED  BY <2>1, FreshOfOne DEF Calm, Storing, Unsaved, Opened, On, Same, records
  <1>3. CASE UNCHANGED vars
    <2>1. UNCHANGED <<records, req, disk, raced, upset>>
      BY <1>3 DEF vars, history
    <2> QED  BY <2>1, FreshOfOne DEF Calm, Storing, Unsaved, Opened, On, Same, records
  <1> QED  BY <1>1, <1>2, <1>3, BeforeSaveFresh, UpdateFresh, OpenFresh, WriteFresh, RenameFresh,
              CrashFresh DEF Next

-----------------------------------------------------------------------------
(* Addresses are distinct.                                                  *)

\* What excuses two clients goes on doing so.
LEMMA ExcusedKept ==
    ASSUME NEW c, NEW d, Excused(c, d), together \subseteq together', raced \subseteq raced',
           crowded \subseteq crowded', upset \subseteq upset'
    PROVE  Excused(c, d)'
  BY DEF Excused

\* An excuse is for both, and trouble of one is enough.
LEMMA ExcusedBoth ==
    ASSUME NEW c, NEW d
    PROVE  /\ Excused(c, d) <=> Excused(d, c)
           /\ c \in raced \cup crowded \cup upset => Excused(c, d)
  <1>1. {c, d} = {d, c}
    OBVIOUS
  <1> QED  BY <1>1 DEF Excused

\* A step that stores nothing and begins no creation.
LEMMA AddressesOfOne ==
    ASSUME AddressesChosen, AddressesDistinct, UNCHANGED <<addr, stored>>,
           together \subseteq together', raced \subseteq raced',
           crowded \subseteq crowded', upset \subseteq upset',
           \A s \in Requests : Creating(s)' =>
              /\ Creating(s) /\ req'[s].client = req[s].client /\ req'[s].addr = req[s].addr
    PROVE  AddressesChosen' /\ AddressesDistinct'
  <1>1. \A c, d : Excused(c, d) => Excused(c, d)'
    BY ExcusedKept
  <1>2. AddressesChosen'
    BY <1>1 DEF AddressesChosen
  <1>3. AddressesDistinct'
    BY <1>1 DEF AddressesDistinct, Excused
  <1> QED  BY <1>2, <1>3

\* nextIP chooses an address that no record has.
LEMMA BeginCreateAddresses ==
    ASSUME TypeOK, Shape, AddressesChosen, AddressesDistinct,
           NEW r \in Requests, NEW c \in Clients, BeginCreate(r, c)
    PROVE  AddressesChosen' /\ AddressesDistinct'
  <1>1. /\ Others(r) /\ req[r].pc = "idle" /\ Creating(r)'
        /\ req'[r].client = c /\ req'[r].addr = NextIP(Used)
        /\ addr' = addr /\ stored' = stored /\ raced' = raced /\ upset' = upset
    BY BeginCreateMoves DEF BeginCreate, records, Creating
  <1>2. /\ together' = together \cup
             {{c, req[s].client} : s \in {t \in Requests : req[t].pc # "idle" /\ req[t].op = "create"}}
        /\ crowded' = IF Addrs \subseteq Used THEN crowded \cup {c} ELSE crowded
    BY DEF BeginCreate
  <1>3. together \subseteq together' /\ crowded \subseteq crowded'
    BY <1>2
  <1>4. \A a, b : Excused(a, b) => Excused(a, b)'
    BY <1>1, <1>3, ExcusedKept
  <1>5. \A s \in Requests \ {r} : Creating(s)' =>
           Creating(s) /\ req'[s] = req[s] /\ {c, req[s].client} \in together'
    BY <1>1, <1>2 DEF Others, Creating
  <1>6. ASSUME NEW d \in stored, addr[d] = NextIP(Used)  PROVE  Excused(c, d)'
    <2>1. NextIP(Used) \in Used
      BY <1>6 DEF Used
    <2>2. c \in crowded'
      BY <1>2, <2>1, NextIPIsFree
    <2> QED  BY <2>2 DEF Excused
  <1>7. ASSUME NEW s \in Requests, Creating(s)', NEW t \in Requests, t # s, Creating(t)'
        PROVE  {req'[s].client, req'[t].client} \in together'
    <2>1. CASE s = r
      BY <1>1, <1>5, <1>7, <2>1
    <2>2. CASE t = r
      <3>1. {c, req[s].client} \in together' /\ req'[s] = req[s]
        BY <1>5, <1>7, <2>2
      <3>2. {c, req[s].client} = {req[s].client, c}
        OBVIOUS
      <3> QED  BY <1>1, <2>2, <3>1, <3>2
    <2>3. CASE s # r /\ t # r
      BY <1>3, <1>5, <1>7, <2>3 DEF AddressesChosen
    <2> QED  BY <2>1, <2>2, <2>3
  <1>8. \A s \in Requests : Creating(s)' =>
           \A d \in stored' : d # req'[s].client /\ addr'[d] = req'[s].addr =>
              \/ {req'[s].client, d} \in together'
              \/ {req'[s].client, d} \cap (raced' \cup crowded' \cup upset') # {}
    <2> SUFFICES ASSUME NEW s \in Requests, Creating(s)', NEW d \in stored,
                        d # req'[s].client, addr[d] = req'[s].addr
                 PROVE  \/ {req'[s].client, d} \in together'
                        \/ {req'[s].client, d} \cap (raced' \cup crowded' \cup upset') # {}
      BY <1>1
    <2>1. CASE s = r
      BY <1>1, <1>6, <2>1 DEF Excused
    <2>2. CASE s # r
      <3>1. req'[s] = req[s] /\ Creating(s)
        BY <1>5, <2>2
      <3>2. Excused(req[s].client, d)
        BY <3>1 DEF AddressesChosen
      <3> QED  BY <1>1, <1>3, <3>1, <3>2 DEF Excused
    <2> QED  BY <2>1, <2>2
  <1>9. AddressesChosen'
    BY <1>7, <1>8 DEF AddressesChosen, Excused
  <1>10. AddressesDistinct'
    <2> SUFFICES ASSUME NEW a \in stored, NEW b \in stored, a # b, addr[a] = addr[b]
                 PROVE  \/ {a, b} \in together'
                        \/ {a, b} \cap (raced' \cup crowded' \cup upset') # {}
      BY <1>1 DEF AddressesDistinct
    <2>1. Excused(a, b)
      BY DEF AddressesDistinct, Excused
    <2> QED  BY <1>1, <1>3, <2>1 DEF Excused
  <1> QED  BY <1>9, <1>10

\* A stored address differs from all others, with those excuses.
LEMMA UpdateAddresses ==
    ASSUME TypeOK, Shape, OneAtATime, AddressesGiven, Phases,
           AddressesChosen, AddressesDistinct, NEW r \in Requests, UpdateStore(r)
    PROVE  AddressesChosen' /\ AddressesDistinct'
  <1>1. PICK c \in Clients : c = req[r].client
    BY DEF UpdateStore, Shape
  <1>2. /\ Others(r) /\ req[r].pc = "store" /\ ~Creating(r)'
        /\ together' = together /\ raced' = raced /\ crowded' = crowded /\ upset' = upset
        /\ stored' \subseteq stored \cup {c}
        /\ \A d \in Clients \ {c} : addr'[d] = addr[d]
    BY <1>1, UpdateMoves DEF UpdateStore, history, Creating, TypeOK
  <1>3. \A s \in Requests : Creating(s)' => s # r /\ Creating(s) /\ req'[s] = req[s]
    BY <1>2 DEF Others, Creating
  <1>4. \A a, b : Excused(a, b)' <=> Excused(a, b)
    BY <1>2 DEF Excused
  <1>5. ASSUME req[r].op # "create"
        PROVE  addr' = addr /\ (c \in stored' \ stored => \A d : Excused(c, d) /\ Excused(d, c))
    <2>1. addr' = addr
      BY <1>2, <1>5 DEF UpdateStore
    <2>2. c \notin stored => ~Calm(c)
      BY <1>1, <1>2, <1>5 DEF Phases, Phase, Creating
    <2> QED  BY <2>1, <2>2, ExcusedBoth DEF Calm
  <1>6. ASSUME req[r].op = "create"
        PROVE  /\ Creating(r) /\ c \notin stored /\ addr'[c] = req[r].addr
               /\ \A d \in stored \ {c} : addr[d] = addr'[c] => Excused(c, d) /\ Excused(d, c)
               /\ \A s \in Requests : s # r /\ Creating(s) => Excused(req[s].client, c)
    <2>1. Creating(r) /\ addr[c] = Null /\ addr'[c] = req[r].addr
      BY <1>1, <1>2, <1>6 DEF Creating, AddressesGiven, UpdateStore, TypeOK
    <2>2. \A d \in stored \ {c} : addr[d] = addr'[c] => Excused(c, d) /\ Excused(d, c)
      BY <1>1, <2>1, ExcusedBoth DEF AddressesChosen
    <2>3. \A s \in Requests : s # r /\ Creating(s) => {req[s].client, c} \in together
      BY <1>1, <2>1 DEF AddressesChosen
    <2> QED  BY <2>1, <2>2, <2>3 DEF AddressesGiven, Excused
  <1>7. ASSUME NEW s \in Requests, Creating(s)', NEW d \in stored', d # req[s].client,
               addr'[d] = req[s].addr
        PROVE  Excused(req[s].client, d)
    <2>1. CASE d \in stored /\ d # c
      BY <1>2, <1>3, <1>7, <2>1 DEF AddressesChosen, TypeOK
    <2>2. CASE d = c
      BY <1>2, <1>3, <1>5, <1>6, <1>7, <2>2 DEF AddressesChosen
    <2> QED  BY <1>2, <2>1, <2>2
  <1>8. AddressesChosen'
    <2>1. \A s \in Requests : Creating(s)' =>
             \A d \in stored' : d # req'[s].client /\ addr'[d] = req'[s].addr =>
                \/ {req'[s].client, d} \in together'
                \/ {req'[s].client, d} \cap (raced' \cup crowded' \cup upset') # {}
      BY <1>2, <1>3, <1>7 DEF Excused
    <2>2. \A s, t \in Requests : Creating(s)' /\ t # s /\ Creating(t)' =>
             {req'[s].client, req'[t].client} \in together'
      BY <1>2, <1>3 DEF AddressesChosen
    <2> QED  BY <2>1, <2>2 DEF AddressesChosen, Excused
  <1>9. ASSUME NEW a \in stored', NEW b \in stored', a # b, addr'[a] = addr'[b]
        PROVE  Excused(a, b)
    <2>1. a \in Clients /\ b \in Clients
      BY <1>2, <1>9 DEF TypeOK
    <2>2. CASE a # c /\ b # c
      BY <1>2, <1>9, <2>1, <2>2 DEF AddressesDistinct, Excused
    <2>3. CASE a = c
      BY <1>2, <1>5, <1>6, <1>9, <2>1, <2>3 DEF AddressesDistinct, Excused
    <2>4. CASE b = c
      BY <1>2, <1>5, <1>6, <1>9, <2>1, <2>4 DEF AddressesDistinct, Excused
    <2> QED  BY <2>2, <2>3, <2>4
  <1>10. AddressesDistinct'
    BY <1>4, <1>9 DEF AddressesDistinct, Excused
  <1> QED  BY <1>8, <1>10

\* There are no addresses at the start.
LEMMA InitAddresses ==
    Init => AddressesChosen /\ AddressesDistinct
  BY FreeFields DEF Init, AddressesChosen, AddressesDistinct, Creating

\* Every step keeps addresses apart.
LEMMA NextAddresses ==
    ASSUME TypeOK, TypeOK', Shape, OneAtATime, AddressesGiven, Phases, FreshDisk,
           AddressesChosen, AddressesDistinct, [Next]_vars
    PROVE  AddressesChosen' /\ AddressesDistinct'
  <1> USE FreeFields
  <1>1. ASSUME NEW r \in Requests, NEW c \in Clients, NEW op \in Ops, BeginChange(r, c, op)
        PROVE  AddressesChosen' /\ AddressesDistinct'
    <2>1. Others(r) /\ ~Creating(r)'
      BY <1>1, BeginChangeMoves DEF Creating
    <2> QED  BY <1>1, <2>1, AddressesOfOne DEF BeginChange, records, Others, Creating
  <1>2. ASSUME NEW r \in Requests,
               RunCommand(r) \/ CommandFails(r) \/ AssignEnabled(r)
        PROVE  AddressesChosen' /\ AddressesDistinct'
    <2>1. /\ Others(r)
          /\ Creating(r)' => Creating(r) /\ req'[r].client = req[r].client
                                         /\ req'[r].addr = req[r].addr
      <3>1. CASE RunCommand(r)
        BY <3>1, RunCommandMoves DEF Creating, Keeps
      <3>2. CASE CommandFails(r)
        BY <3>2, CommandFailsMoves DEF Creating, Keeps
      <3>3. CASE AssignEnabled(r)
        BY <3>3, AssignMoves DEF Creating, Keeps, AssignEnabled, Shape
      <3> QED  BY <1>2, <3>1, <3>2, <3>3
    <2>2. /\ UNCHANGED <<addr, stored, raced, together, crowded>> /\ upset \subseteq upset'
      BY <1>2 DEF RunCommand, CommandFails, AssignEnabled, records, history
    <2> QED  BY <2>1, <2>2, AddressesOfOne DEF Others, Creating
  <1>3. ASSUME NEW r \in Requests, OpenTmp(r) \/ WriteTmp(r) \/ Rename(r) \/ SaveFails(r)
        PROVE  AddressesChosen' /\ AddressesDistinct'
    <2>1. Others(r) /\ ~Creating(r)'
      BY <1>3, OpenMoves, WriteMoves, RenameMoves, SaveFailsMoves DEF Creating
    <2>2. /\ UNCHANGED <<addr, stored, raced, together, crowded>> /\ upset \subseteq upset'
      BY <1>3 DEF OpenTmp, WriteTmp, Rename, SaveFails, records, history, TypeOK
    <2> QED  BY <2>1, <2>2, AddressesOfOne DEF Others, Creating
  <1>4. ASSUME Crash  PROVE  AddressesChosen' /\ AddressesDistinct'
    <2>1. AddressesChosen'
      BY <1>4 DEF Crash, AddressesChosen, Creating
    <2>2. ASSUME NEW c \in stored', NEW d \in stored', c # d, addr'[c] = addr'[d]
          PROVE  \/ {c, d} \in together'
                 \/ {c, d} \cap (raced' \cup crowded' \cup upset') # {}
      <3>1. c \in Clients /\ d \in Clients
        BY <2>2 DEF TypeOK
      <3>2. CASE Calm(c)' /\ Calm(d)'
        <4>1. c \in stored /\ d \in stored
          BY <1>4, <2>2, <3>1, <3>2, CrashKeeps
        <4>2. addr[c] = addr[d] /\ together' = together /\ raced' = raced
              /\ crowded' = crowded /\ upset \cap {c, d} = {}
          BY <1>4, <2>2, <3>1, <3>2, CrashKeeps DEF Crash, Calm
        <4> QED  BY <2>2, <4>1, <4>2 DEF AddressesDistinct
      <3>3. CASE ~(Calm(c)' /\ Calm(d)')
        BY <3>3 DEF Calm
      <3> QED  BY <3>2, <3>3
    <2> QED  BY <2>1, <2>2 DEF AddressesDistinct
  <1>5. CASE ResetInterface
    BY <1>5, AddressesOfOne DEF ResetInterface, records, Creating
  <1>6. CASE UNCHANGED vars
    BY <1>6, AddressesOfOne DEF vars, records, history, Creating
  <1> QED  BY <1>1, <1>2, <1>3, <1>4, <1>5, <1>6, BeginCreateAddresses, UpdateAddresses DEF Next

-----------------------------------------------------------------------------
(* The theorems.                                                            *)

\* The invariant holds at the start.
LEMMA InvInit == Init => AwgInv
  BY InitType, InitShape, InitPeers, InitTorn, InitFresh, InitAddresses DEF AwgInv

\* Every step keeps the types.
LEMMA TypeStep ==
    ASSUME TypeOK, Shape, AddressesGiven, [Next]_vars
    PROVE  TypeOK'
  <1>1. ASSUME NEW r \in Requests, NEW c \in Clients, BeginCreate(r, c)  PROVE  TypeOK'
    BY <1>1, BeginType DEF Ops
  <1>2. CASE UNCHANGED vars
    BY <1>2 DEF vars, records, disk, history, TypeOK
  <1> QED  BY <1>1, <1>2, BeginType, HandlerType, SaveType, AroundType DEF Next

\* Every reachable state of awg-server satisfies the invariant, whatever
\* requests, failures and restarts interleave (main.go:118-175, 304-413).
THEOREM AwgInvariant == Spec => []AwgInv
  <1>1. AwgInv /\ [Next]_vars => AwgInv'
    <2> SUFFICES ASSUME AwgInv, [Next]_vars PROVE AwgInv'
      OBVIOUS
    <2> USE DEF AwgInv
    <2>1. TypeOK'
      BY TypeStep
    <2>2. Shape' /\ OneAtATime' /\ AddressesGiven'
      BY NextShape, NextOne, NextGiven
    <2>3. Phases' /\ PeersAgree'
      BY NextPeers
    <2>4. SameList' /\ TornTmp' /\ TornFile'
      BY <2>1, NextTorn
    <2>5. FreshLists' /\ FreshDisk'
      BY NextFreshDisk
    <2>6. AddressesChosen' /\ AddressesDistinct'
      BY <2>1, NextAddresses
    <2> QED  BY <2>1, <2>2, <2>3, <2>4, <2>5, <2>6
  <1> QED  BY <1>1, InvInit, PTL DEF Spec

\* awg0 has a peer exactly for each enabled client, for any number of clients
\* and requests (main.go:304-343, 378-413).
THEOREM InterfaceAgrees == Spec => []PeersAgree
  <1>1. AwgInv => PeersAgree
    BY DEF AwgInv
  <1> QED  BY <1>1, AwgInvariant, PTL

\* clients.json has what finished requests changed (main.go:132-144, 163-175).
THEOREM FinishedIsOnDisk == Spec => []DiskFresh
  <1>1. AwgInv => DiskFresh
    <2> SUFFICES ASSUME AwgInv, NEW c \in Clients, Settled(c), inodes[file] # Torn
                 PROVE  Fresh(c, inodes[file])
      BY DEF DiskFresh, Fresh
    <2>1. Calm(c) /\ ~Unsaved(c) /\ ~Opened(c)
      BY DEF Settled, Busy, Calm, Unsaved, Opened, On
    <2> QED  BY <2>1 DEF AwgInv, FreshDisk, Good
  <1> QED  BY <1>1, AwgInvariant, PTL

\* clients.json is whole whenever no request is at work (main.go:118-144).
THEOREM WholeWhenIdle == Spec => []TornOnlyAtWork
  <1>1. AwgInv => TornOnlyAtWork
    BY DEF AwgInv, TornFile, TornOnlyAtWork, Writing, Saving
  <1> QED  BY <1>1, AwgInvariant, PTL

\* Two clients share an address only through overlapping creations, a full
\* range, a race or a failure (main.go:204-220, 304-343).
THEOREM AddressesApart == Spec => []AddressesDistinct
  <1>1. AwgInv => AddressesDistinct
    BY DEF AwgInv
  <1> QED  BY <1>1, AwgInvariant, PTL
=============================================================================
