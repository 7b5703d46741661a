---------------------------- MODULE AccessProofs ----------------------------
(***************************************************************************)
(* Proofs about Access, for any number of accounts, configs, rows, keys    *)
(* and overlapping handlers, with and without faults: type correctness, no *)
(* stray key, a block that stays, and the device limit.                    *)
(*                                                                         *)
(* The key argument is by account: AccessInv says that every key accepted  *)
(* for an account that is not disturbed is in a row, in a config or fresh  *)
(* in a request (Accounted), and what each request has already removed or  *)
(* is about to call for (ProcInv).                                         *)
(***************************************************************************)
EXTENDS Access, FiniteSetTheorems, TLAPS

-----------------------------------------------------------------------------
(* The scripts, and types.                                                  *)

\* What a request may be doing, and the statements of one operation.
OpNames == RequestOps \cup {"idle", "suspend", "reconcile", "cleanup"}
IsScript(op, s) == Len(Script[op]) = Len(s) /\ \A i \in 1 .. Len(s) : Script[op][i] = s[i]

\* The scripts, statement by statement.
LEMMA Scripts ==
    /\ IsScript("idle", <<>>)
    /\ IsScript("provision", <<"gate", "lookup", "lock", "register", "store">>)
    /\ IsScript("visit", <<"touch", "enter">>)
    /\ IsScript("createConfig", <<"check", "arm", "insert">>)
    /\ IsScript("ensureConfig", <<"check", "count", "insert", "arm">>)
    /\ IsScript("deleteVless", <<"readConfig", "readDevices", "wipeDevices", "dropConfig">>)
    /\ IsScript("deleteAwg", <<"readConfig", "dropConfig">>)
    /\ IsScript("blockDevice", <<"readRow", "blockRow">>)
    /\ IsScript("deleteDevice", <<"readRow", "deleteRow">>)
    /\ IsScript("resetSessions", <<"readDevices", "wipeDevices">>)
    /\ IsScript("suspend", <<"readDevices", "wipeDevices", "readConfigs">>)
    /\ IsScript("reset", <<"readDevices", "wipeDevices", "readConfigs", "dropConfigs">>)
    /\ IsScript("purge", <<"readConfigs", "readPeers", "dropUser">>)
    /\ IsScript("toggleBlock", <<"toggle", "readDevices", "readConfigs">>)
    /\ IsScript("reconcile", <<"readDevices", "readConfigs">>)
    /\ IsScript("cleanup", <<"readStale", "wipeStale">>)
  BY DEF IsScript, Script, DropDevices

\* Where a request is.
Place(op, step, s) ==
    /\ op = "idle" =>
         \/ step > 0 /\ s = "end"
    /\ op = "provision" =>
         \/ step = 1 /\ s = "gate"
         \/ step = 2 /\ s = "lookup"
         \/ step = 3 /\ s = "lock"
         \/ step = 4 /\ s = "register"
         \/ step = 5 /\ s = "store"
         \/ step > 5 /\ s = "end"
    /\ op = "visit" =>
         \/ step = 1 /\ s = "touch"
         \/ step = 2 /\ s = "enter"
         \/ step > 2 /\ s = "end"
    /\ op = "createConfig" =>
         \/ step = 1 /\ s = "check"
         \/ step = 2 /\ s = "arm"
         \/ step = 3 /\ s = "insert"
         \/ step > 3 /\ s = "end"
    /\ op = "ensureConfig" =>
         \/ step = 1 /\ s = "check"
         \/ step = 2 /\ s = "count"
         \/ step = 3 /\ s = "insert"
         \/ step = 4 /\ s = "arm"
         \/ step > 4 /\ s = "end"
    /\ op = "deleteVless" =>
         \/ step = 1 /\ s = "readConfig"
         \/ step = 2 /\ s = "readDevices"
         \/ step = 3 /\ s = "wipeDevices"
         \/ step = 4 /\ s = "dropConfig"
         \/ step > 4 /\ s = "end"
    /\ op = "deleteAwg" =>
         \/ step = 1 /\ s = "readConfig"
         \/ step = 2 /\ s = "dropConfig"
         \/ step > 2 /\ s = "end"
    /\ op = "blockDevice" =>
         \/ step = 1 /\ s = "readRow"
         \/ step = 2 /\ s = "blockRow"
         \/ step > 2 /\ s = "end"
    /\ op = "deleteDevice" =>
         \/ step = 1 /\ s = "readRow"
         \/ step = 2 /\ s = "deleteRow"
         \/ step > 2 /\ s = "end"
    /\ op = "resetSessions" =>
         \/ step = 1 /\ s = "readDevices"
         \/ step = 2 /\ s = "wipeDevices"
         \/ step > 2 /\ s = "end"
    /\ op = "suspend" =>
         \/ step = 1 /\ s = "readDevices"
         \/ step = 2 /\ s = "wipeDevices"
         \/ step = 3 /\ s = "readConfigs"
         \/ step > 3 /\ s = "end"
    /\ op = "reset" =>
         \/ step = 1 /\ s = "readDevices"
         \/ step = 2 /\ s = "wipeDevices"
         \/ step = 3 /\ s = "readConfigs"
         \/ step = 4 /\ s = "dropConfigs"
         \/ step > 4 /\ s = "end"
    /\ op = "purge" =>
         \/ step = 1 /\ s = "readConfigs"
         \/ step = 2 /\ s = "readPeers"
         \/ step = 3 /\ s = "dropUser"
         \/ step > 3 /\ s = "end"
    /\ op = "toggleBlock" =>
         \/ step = 1 /\ s = "toggle"
         \/ step = 2 /\ s = "readDevices"
         \/ step = 3 /\ s = "readConfigs"
         \/ step > 3 /\ s = "end"
    /\ op = "reconcile" =>
         \/ step = 1 /\ s = "readDevices"
         \/ step = 2 /\ s = "readConfigs"
         \/ step > 2 /\ s = "end"
    /\ op = "cleanup" =>
         \/ step = 1 /\ s = "readStale"
         \/ step = 2 /\ s = "wipeStale"
         \/ step > 2 /\ s = "end"

\* Which statement is next, from the operation and the step.
LEMMA PlaceOf ==
  ASSUME NEW p, procs[p].op \in OpNames, procs[p].step \in Nat \ {0}
  PROVE  Place(procs[p].op, procs[p].step, Statement(p))
<1>1. CASE procs[p].op = "idle"
  BY <1>1, Scripts DEF Place, Statement, Ended, IsScript
<1>2. CASE procs[p].op = "provision"
  BY <1>2, Scripts DEF Place, Statement, Ended, IsScript
<1>3. CASE procs[p].op = "visit"
  BY <1>3, Scripts DEF Place, Statement, Ended, IsScript
<1>4. CASE procs[p].op = "createConfig"
  BY <1>4, Scripts DEF Place, Statement, Ended, IsScript
<1>5. CASE procs[p].op = "ensureConfig"
  BY <1>5, Scripts DEF Place, Statement, Ended, IsScript
<1>6. CASE procs[p].op = "deleteVless"
  BY <1>6, Scripts DEF Place, Statement, Ended, IsScript
<1>7. CASE procs[p].op = "deleteAwg"
  BY <1>7, Scripts DEF Place, Statement, Ended, IsScript
<1>8. CASE procs[p].op = "blockDevice"
  BY <1>8, Scripts DEF Place, Statement, Ended, IsScript
<1>9. CASE procs[p].op = "deleteDevice"
  BY <1>9, Scripts DEF Place, Statement, Ended, IsScript
<1>10. CASE procs[p].op = "resetSessions"
  BY <1>10, Scripts DEF Place, Statement, Ended, IsScript
<1>11. CASE procs[p].op = "suspend"
  BY <1>11, Scripts DEF Place, Statement, Ended, IsScript
<1>12. CASE procs[p].op = "reset"
  BY <1>12, Scripts DEF Place, Statement, Ended, IsScript
<1>13. CASE procs[p].op = "purge"
  BY <1>13, Scripts DEF Place, Statement, Ended, IsScript
<1>14. CASE procs[p].op = "toggleBlock"
  BY <1>14, Scripts DEF Place, Statement, Ended, IsScript
<1>15. CASE procs[p].op = "reconcile"
  BY <1>15, Scripts DEF Place, Statement, Ended, IsScript
<1>16. CASE procs[p].op = "cleanup"
  BY <1>16, Scripts DEF Place, Statement, Ended, IsScript
<1> QED BY <1>1, <1>2, <1>3, <1>4, <1>5, <1>6, <1>7, <1>8, <1>9, <1>10, <1>11, <1>12, <1>13,
        <1>14, <1>15, <1>16 DEF OpNames, RequestOps

\* Which operation and step a statement is.
LEMMA Places ==
  ASSUME NEW p, procs[p].op \in OpNames, procs[p].step \in Nat \ {0}
  PROVE
    /\ Statement(p) = "gate" =>
          \/ procs[p].op = "provision" /\ procs[p].step = 1
    /\ Statement(p) = "lookup" =>
          \/ procs[p].op = "provision" /\ procs[p].step = 2
    /\ Statement(p) = "lock" =>
          \/ procs[p].op = "provision" /\ procs[p].step = 3
    /\ Statement(p) = "register" =>
          \/ procs[p].op = "provision" /\ procs[p].step = 4
    /\ Statement(p) = "store" =>
          \/ procs[p].op = "provision" /\ procs[p].step = 5
    /\ Statement(p) = "touch" =>
          \/ procs[p].op = "visit" /\ procs[p].step = 1
    /\ Statement(p) = "enter" =>
          \/ procs[p].op = "visit" /\ procs[p].step = 2
    /\ Statement(p) = "check" =>
          \/ procs[p].op = "createConfig" /\ procs[p].step = 1
          \/ procs[p].op = "ensureConfig" /\ procs[p].step = 1
    /\ Statement(p) = "arm" =>
          \/ procs[p].op = "createConfig" /\ procs[p].step = 2
          \/ procs[p].op = "ensureConfig" /\ procs[p].step = 4
    /\ Statement(p) = "insert" =>
          \/ procs[p].op = "createConfig" /\ procs[p].step = 3
          \/ procs[p].op = "ensureConfig" /\ procs[p].step = 3
    /\ Statement(p) = "count" =>
          \/ procs[p].op = "ensureConfig" /\ procs[p].step = 2
    /\ Statement(p) = "readConfig" =>
          \/ procs[p].op = "deleteVless" /\ procs[p].step = 1
          \/ procs[p].op = "deleteAwg" /\ procs[p].step = 1
    /\ Statement(p) = "readDevices" =>
          \/ procs[p].op = "deleteVless" /\ procs[p].step = 2
          \/ procs[p].op = "resetSessions" /\ procs[p].step = 1
          \/ procs[p].op = "suspend" /\ procs[p].step = 1
          \/ procs[p].op = "reset" /\ procs[p].step = 1
          \/ procs[p].op = "toggleBlock" /\ procs[p].step = 2
          \/ procs[p].op = "reconcile" /\ procs[p].step = 1
    /\ Statement(p) = "wipeDevices" =>
          \/ procs[p].op = "deleteVless" /\ procs[p].step = 3
          \/ procs[p].op = "resetSessions" /\ procs[p].step = 2
          \/ procs[p].op = "suspend" /\ procs[p].step = 2
          \/ procs[p].op = "reset" /\ procs[p].step = 2
    /\ Statement(p) = "dropConfig" =>
          \/ procs[p].op = "deleteVless" /\ procs[p].step = 4
          \/ procs[p].op = "deleteAwg" /\ procs[p].step = 2
    /\ Statement(p) = "readRow" =>
          \/ procs[p].op = "blockDevice" /\ procs[p].step = 1
          \/ procs[p].op = "deleteDevice" /\ procs[p].step = 1
    /\ Statement(p) = "blockRow" =>
          \/ procs[p].op = "blockDevice" /\ procs[p].step = 2
    /\ Statement(p) = "deleteRow" =>
          \/ procs[p].op = "deleteDevice" /\ procs[p].step = 2
    /\ Statement(p) = "readConfigs" =>
          \/ procs[p].op = "suspend" /\ procs[p].step = 3
          \/ procs[p].op = "reset" /\ procs[p].step = 3
          \/ procs[p].op = "purge" /\ procs[p].step = 1
          \/ procs[p].op = "toggleBlock" /\ procs[p].step = 3
          \/ procs[p].op = "reconcile" /\ procs[p].step = 2
    /\ Statement(p) = "dropConfigs" =>
          \/ procs[p].op = "reset" /\ procs[p].step = 4
    /\ Statement(p) = "readPeers" =>
          \/ procs[p].op = "purge" /\ procs[p].step = 2
    /\ Statement(p) = "dropUser" =>
          \/ procs[p].op = "purge" /\ procs[p].step = 3
    /\ Statement(p) = "toggle" =>
          \/ procs[p].op = "toggleBlock" /\ procs[p].step = 1
    /\ Statement(p) = "readStale" =>
          \/ procs[p].op = "cleanup" /\ procs[p].step = 1
    /\ Statement(p) = "wipeStale" =>
          \/ procs[p].op = "cleanup" /\ procs[p].step = 2
<1>0. Place(procs[p].op, procs[p].step, Statement(p))
  BY PlaceOf
<1>1. Statement(p) = "gate" =>
          \/ procs[p].op = "provision" /\ procs[p].step = 1
  BY <1>0, SMTT(20) DEF Place, OpNames, RequestOps
<1>2. Statement(p) = "lookup" =>
          \/ procs[p].op = "provision" /\ procs[p].step = 2
  BY <1>0, SMTT(20) DEF Place, OpNames, RequestOps
<1>3. Statement(p) = "lock" =>
          \/ procs[p].op = "provision" /\ procs[p].step = 3
  BY <1>0, SMTT(20) DEF Place, OpNames, RequestOps
<1>4. Statement(p) = "register" =>
          \/ procs[p].op = "provision" /\ procs[p].step = 4
  BY <1>0, SMTT(20) DEF Place, OpNames, RequestOps
<1>5. Statement(p) = "store" =>
          \/ procs[p].op = "provision" /\ procs[p].step = 5
  BY <1>0, SMTT(20) DEF Place, OpNames, RequestOps
<1>6. Statement(p) = "touch" =>
          \/ procs[p].op = "visit" /\ procs[p].step = 1
  BY <1>0, SMTT(20) DEF Place, OpNames, RequestOps
<1>7. Statement(p) = "enter" =>
          \/ procs[p].op = "visit" /\ procs[p].step = 2
  BY <1>0, SMTT(20) DEF Place, OpNames, RequestOps
<1>8. Statement(p) = "check" =>
          \/ procs[p].op = "createConfig" /\ procs[p].step = 1
          \/ procs[p].op = "ensureConfig" /\ procs[p].step = 1
  BY <1>0, SMTT(20) DEF Place, OpNames, RequestOps
<1>9. Statement(p) = "arm" =>
          \/ procs[p].op = "createConfig" /\ procs[p].step = 2
          \/ procs[p].op = "ensureConfig" /\ procs[p].step = 4
  BY <1>0, SMTT(20) DEF Place, OpNames, RequestOps
<1>10. Statement(p) = "insert" =>
          \/ procs[p].op = "createConfig" /\ procs[p].step = 3
          \/ procs[p].op = "ensureConfig" /\ procs[p].step = 3
  BY <1>0, SMTT(20) DEF Place, OpNames, RequestOps
<1>11. Statement(p) = "count" =>
          \/ procs[p].op = "ensureConfig" /\ procs[p].step = 2
  BY <1>0, SMTT(20) DEF Place, OpNames, RequestOps
<1>12. Statement(p) = "readConfig" =>
          \/ procs[p].op = "deleteVless" /\ procs[p].step = 1
          \/ procs[p].op = "deleteAwg" /\ procs[p].step = 1
  BY <1>0, SMTT(20) DEF Place, OpNames, RequestOps
<1>13. Statement(p) = "readDevices" =>
          \/ procs[p].op = "deleteVless" /\ procs[p].step = 2
          \/ procs[p].op = "resetSessions" /\ procs[p].step = 1
          \/ procs[p].op = "suspend" /\ procs[p].step = 1
          \/ procs[p].op = "reset" /\ procs[p].step = 1
          \/ procs[p].op = "toggleBlock" /\ procs[p].step = 2
          \/ procs[p].op = "reconcile" /\ procs[p].step = 1
  BY <1>0, SMTT(20) DEF Place, OpNames, RequestOps
<1>14. Statement(p) = "wipeDevices" =>
          \/ procs[p].op = "deleteVless" /\ procs[p].step = 3
          \/ procs[p].op = "resetSessions" /\ procs[p].step = 2
          \/ procs[p].op = "suspend" /\ procs[p].step = 2
          \/ procs[p].op = "reset" /\ procs[p].step = 2
  BY <1>0, SMTT(20) DEF Place, OpNames, RequestOps
<1>15. Statement(p) = "dropConfig" =>
          \/ procs[p].op = "deleteVless" /\ procs[p].step = 4
          \/ procs[p].op = "deleteAwg" /\ procs[p].step = 2
  BY <1>0, SMTT(20) DEF Place, OpNames, RequestOps
<1>16. Statement(p) = "readRow" =>
          \/ procs[p].op = "blockDevice" /\ procs[p].step = 1
          \/ procs[p].op = "deleteDevice" /\ procs[p].step = 1
  BY <1>0, SMTT(20) DEF Place, OpNames, RequestOps
<1>17. Statement(p) = "blockRow" =>
          \/ procs[p].op = "blockDevice" /\ procs[p].step = 2
  BY <1>0, SMTT(20) DEF Place, OpNames, RequestOps
<1>18. Statement(p) = "deleteRow" =>
          \/ procs[p].op = "deleteDevice" /\ procs[p].step = 2
  BY <1>0, SMTT(20) DEF Place, OpNames, RequestOps
<1>19. Statement(p) = "readConfigs" =>
          \/ procs[p].op = "suspend" /\ procs[p].step = 3
          \/ procs[p].op = "reset" /\ procs[p].step = 3
          \/ procs[p].op = "purge" /\ procs[p].step = 1
          \/ procs[p].op = "toggleBlock" /\ procs[p].step = 3
          \/ procs[p].op = "reconcile" /\ procs[p].step = 2
  BY <1>0, SMTT(20) DEF Place, OpNames, RequestOps
<1>20. Statement(p) = "dropConfigs" =>
          \/ procs[p].op = "reset" /\ procs[p].step = 4
  BY <1>0, SMTT(20) DEF Place, OpNames, RequestOps
<1>21. Statement(p) = "readPeers" =>
          \/ procs[p].op = "purge" /\ procs[p].step = 2
  BY <1>0, SMTT(20) DEF Place, OpNames, RequestOps
<1>22. Statement(p) = "dropUser" =>
          \/ procs[p].op = "purge" /\ procs[p].step = 3
  BY <1>0, SMTT(20) DEF Place, OpNames, RequestOps
<1>23. Statement(p) = "toggle" =>
          \/ procs[p].op = "toggleBlock" /\ procs[p].step = 1
  BY <1>0, SMTT(20) DEF Place, OpNames, RequestOps
<1>24. Statement(p) = "readStale" =>
          \/ procs[p].op = "cleanup" /\ procs[p].step = 1
  BY <1>0, SMTT(20) DEF Place, OpNames, RequestOps
<1>25. Statement(p) = "wipeStale" =>
          \/ procs[p].op = "cleanup" /\ procs[p].step = 2
  BY <1>0, SMTT(20) DEF Place, OpNames, RequestOps
<1> QED BY <1>1, <1>2, <1>3, <1>4, <1>5, <1>6, <1>7, <1>8, <1>9, <1>10, <1>11, <1>12, <1>13,
        <1>14, <1>15, <1>16, <1>17, <1>18, <1>19, <1>20, <1>21, <1>22, <1>23, <1>24, <1>25

\* How long the scripts are.
LEMMA Lengths ==
    /\ Len(Script["idle"]) = 0
    /\ Len(Script["provision"]) = 5
    /\ Len(Script["visit"]) = 2
    /\ Len(Script["createConfig"]) = 3
    /\ Len(Script["ensureConfig"]) = 4
    /\ Len(Script["deleteVless"]) = 4
    /\ Len(Script["deleteAwg"]) = 2
    /\ Len(Script["blockDevice"]) = 2
    /\ Len(Script["deleteDevice"]) = 2
    /\ Len(Script["resetSessions"]) = 2
    /\ Len(Script["suspend"]) = 3
    /\ Len(Script["reset"]) = 4
    /\ Len(Script["purge"]) = 3
    /\ Len(Script["toggleBlock"]) = 3
    /\ Len(Script["reconcile"]) = 2
    /\ Len(Script["cleanup"]) = 2
  BY Scripts DEF IsScript

ConfigOps == {"provision", "visit", "createConfig", "ensureConfig", "deleteVless", "deleteAwg"}
RowOps    == {"blockDevice", "deleteDevice"}

Shape(proc) ==
    /\ proc.step <= Len(Script[proc.op]) + 1
    /\ proc.step = 1 => proc.todo = {}
    /\ proc.op = "idle" => proc = Idle
    /\ proc.due # {} => proc.op = "suspend"
    /\ proc.op \in {"reconcile", "cleanup"} => proc.user = Null
    /\ proc.op \notin {"idle", "reconcile", "cleanup", "suspend"} => proc.user \in Users
    /\ proc.op = "suspend" /\ proc.step < 4 => proc.user \in Users
    /\ proc.op \in ConfigOps => proc.config \in Configs /\ OwnerOf[proc.config] = proc.user
    /\ proc.op \in {"provision", "visit"} => proc.inst \in Installs
    /\ proc.op \in RowOps => proc.row \in Rows
    /\ proc.op \in {"provision", "visit", "createConfig", "ensureConfig"} => proc.todo = {}
    /\ proc.adds => proc.op \in {"reconcile", "toggleBlock"}
    /\ proc.op = "reconcile" => proc.adds
    /\ proc.op = "provision" /\ proc.step > 1 => proc.limit \in Limits

Shapes == \A p \in Procs : Shape(procs[p])

\* What TypeOK says of the tables and of the servers.
DataOK ==
    /\ accounts \in [Users -> Account]
    /\ configs \subseteq Configs /\ made \subseteq Configs
    /\ rows \in [Rows -> DeviceRow \cup {NoRow}]
    /\ served \subseteq AllKeys /\ peers \subseteq Awg
    /\ minted \in [Keys -> Users \cup {Null}]
    /\ disturbed \subseteq Users

TypeInv == DataOK /\ procs \in [Procs -> Proc] /\ Shapes

\* A process that runs nothing is well formed.
LEMMA IdleProc == Idle \in Proc /\ Shape(Idle)
  BY AccessConstants, Lengths DEF Idle, Proc, Shape, ConfigOps, RowOps, OpNames, RequestOps

\* Operations and steps of a request.
LEMMA OpsNamed == ASSUME NEW proc \in Proc
                  PROVE  proc.op \in OpNames /\ proc.step \in Nat \ {0}
  BY DEF Proc, OpNames

\* A request is the record of its fields.
LEMMA ProcFields ==
  ASSUME NEW proc \in Proc
  PROVE  proc = [op |-> proc.op, user |-> proc.user, step |-> proc.step, todo |-> proc.todo,
                 adds |-> proc.adds, config |-> proc.config, inst |-> proc.inst,
                 row |-> proc.row, key |-> proc.key, limit |-> proc.limit, due |-> proc.due]
  BY DEF Proc

\* Going on as a well-formed request keeps the requests well formed.
LEMMA GoType ==
  ASSUME NEW p \in Procs, NEW proc \in Proc, Shape(proc), TypeInv, Go(p, proc)
  PROVE  procs' \in [Procs -> Proc] /\ Shapes'
  BY IdleProc DEF Go, TypeInv, DataOK, Shapes

\* proc is old with other calls to make, or with what a statement found.
Goes(old, proc) ==
    /\ proc.op = old.op /\ proc.user = old.user /\ proc.step = old.step /\ proc.due = old.due
    /\ proc.config = old.config /\ proc.inst = old.inst

\* So does going on with the next statement,
LEMMA AdvanceType ==
  ASSUME NEW p \in Procs, NEW proc \in Proc, TypeInv, Goes(procs[p], proc), ~Ended(proc),
         proc.op \in RowOps => proc.row \in Rows,
         proc.op \in {"provision", "visit", "createConfig", "ensureConfig"} => proc.todo = {},
         proc.adds => proc.op \in {"reconcile", "toggleBlock"},
         proc.op = "reconcile" => proc.adds,
         proc.op = "provision" => proc.limit \in Limits,
         Advance(p, proc)
  PROVE  procs' \in [Procs -> Proc] /\ Shapes'
<1> DEFINE next == [proc EXCEPT !.step = @ + 1]
<1>1. proc.op \in OpNames /\ proc.step \in 1 .. 6 /\ Len(Script[proc.op]) \in 0 .. 5
  BY Lengths DEF Proc, OpNames, RequestOps
<1>2. proc.step <= Len(Script[proc.op]) /\ proc.step \in 1 .. 5
  <2>1. PICK n \in 0 .. 5 : n = Len(Script[proc.op])
    BY <1>1
  <2>2. ~(proc.step > n)
    BY <2>1 DEF Ended
  <2>3. proc.step <= n /\ proc.step \in 1 .. 5
    BY <1>1, <2>2
  <2> QED BY <2>1, <2>3
<1>3. next \in Proc /\ next.step = proc.step + 1
  <2>1. proc.step + 1 \in 1 .. 6
    BY <1>2
  <2> QED BY <2>1 DEF Proc
<1>4. /\ next.op = proc.op /\ next.user = proc.user /\ next.todo = proc.todo
      /\ next.due = proc.due /\ next.config = proc.config /\ next.inst = proc.inst
      /\ next.row = proc.row /\ next.adds = proc.adds /\ next.limit = proc.limit
  BY DEF Proc
<1>5. proc.op # "idle"
  BY <1>1, <1>2, Lengths
<1>6. Shape(procs[p])
  BY DEF TypeInv, Shapes
<1>7. Shape(next)
  <2> HIDE DEF next
  <2> QED BY <1>1, <1>2, <1>3, <1>4, <1>5, <1>6 DEF Shape, Goes
<1> QED BY <1>3, <1>7, GoType DEF Advance

\* and so does a new request.
LEMMA StartType ==
  ASSUME NEW p \in Procs, TypeInv,
         NEW op \in RequestOps \cup {"reconcile", "cleanup"}, NEW u \in Users \cup {Null},
         NEW c \in Configs \cup {Null}, NEW i \in Installs \cup {Null}, NEW r \in Rows \cup {Null},
         op \in {"reconcile", "cleanup"} <=> u = Null,
         op \in ConfigOps => c \in Configs /\ OwnerOf[c] = u,
         op \in {"provision", "visit"} => i \in Installs,
         op \in RowOps => r \in Rows,
         procs' = [procs EXCEPT ![p] = Started(op, u, c, i, r)]
  PROVE  procs' \in [Procs -> Proc] /\ Shapes'
<1> DEFINE adds == op = "reconcile"
           new  == Started(op, u, c, i, r)
<1>1. adds \in BOOLEAN
  OBVIOUS
<1>2. new = [op |-> op, user |-> u, step |-> 1, todo |-> {}, adds |-> adds,
             config |-> c, inst |-> i, row |-> r, key |-> Null, limit |-> Null, due |-> {}]
  <2> HIDE DEF adds
  <2>1. new = [Idle EXCEPT !.op = op, !.user = u, !.config = c, !.inst = i, !.row = r,
                           !.adds = adds]
    BY DEF Started, adds
  <2> QED BY <2>1 DEF Idle
<1>3. new \in Proc
  <2> HIDE DEF adds, new
  <2> QED BY <1>1, <1>2 DEF Proc
<1>4. 1 <= Len(Script[op]) + 1 /\ op \notin {"idle", "suspend"}
  <2>1. PICK n \in 0 .. 5 : Len(Script[op]) = n
    BY Lengths DEF RequestOps
  <2>2. 1 <= n + 1
    OBVIOUS
  <2> QED BY <2>1, <2>2 DEF RequestOps
<1>5. Shape(new)
  <2>1. CASE adds
    <3> HIDE DEF new
    <3> QED BY <2>1, <1>2, <1>4 DEF Shape
  <2>2. CASE ~adds
    <3> op # "reconcile" /\ (op # "cleanup" => u \in Users)
      BY <2>2
    <3> HIDE DEF new, adds
    <3> new.adds = FALSE
      BY <2>2, <1>2
    <3> QED BY <1>2, <1>4 DEF Shape
  <2> QED BY <2>1, <2>2
<1> QED BY <1>3, <1>5 DEF TypeInv, DataOK, Shapes

\* What the type invariant says of one request.
LEMMA ProcFacts ==
  ASSUME NEW p \in Procs, TypeInv
  PROVE  /\ procs[p] \in Proc /\ Shape(procs[p])
         /\ procs[p].op \in OpNames /\ procs[p].step \in Nat \ {0}
         /\ Statement(p) # "end" => ~Ended(procs[p])
  BY OpsNamed DEF TypeInv, DataOK, Shapes, Statement

\* The next statement with nothing changed is well formed,
LEMMA AdvanceSame ==
  ASSUME NEW p \in Procs, TypeInv, ~Ended(procs[p]), Advance(p, procs[p]),
         procs[p].op = "provision" => procs[p].limit \in Limits
  PROVE  procs' \in [Procs -> Proc] /\ Shapes'
  BY ProcFacts, AdvanceType DEF Goes, Shape

\* and so is the next statement after a read.
LEMMA AdvanceReading ==
  ASSUME NEW p \in Procs, TypeInv, ~Ended(procs[p]), NEW keys \in SUBSET AllKeys,
         procs[p].op \notin {"provision", "visit", "createConfig", "ensureConfig"},
         Advance(p, [procs[p] EXCEPT !.todo = keys])
  PROVE  procs' \in [Procs -> Proc] /\ Shapes'
<1> DEFINE proc == [procs[p] EXCEPT !.todo = keys]
<1>1. procs[p] \in Proc /\ Shape(procs[p])
  BY ProcFacts
<1>2. proc \in Proc /\ Goes(procs[p], proc)
  BY <1>1 DEF Proc, Goes
<1>3. proc.row = procs[p].row /\ proc.adds = procs[p].adds /\ proc.limit = procs[p].limit
  BY <1>1 DEF Proc
<1>4. ~Ended(proc)
  BY <1>2 DEF Ended, Goes
<1> HIDE DEF proc
<1> QED BY <1>1, <1>2, <1>3, <1>4, AdvanceType DEF Shape, Goes, proc

\* Ending one request keeps them well formed.
LEMMA AllIdle ==
  ASSUME NEW p \in Procs, TypeInv, procs' = [procs EXCEPT ![p] = Idle]
  PROVE  procs' \in [Procs -> Proc] /\ Shapes'
  BY IdleProc DEF TypeInv, DataOK, Shapes

\* The parts of the type invariant, in the next state.
LEMMA TypeParts == TypeInv' <=> DataOK' /\ procs' \in [Procs -> Proc] /\ Shapes'
  BY DEF TypeInv

\* The device keys of a set of rows are keys.
LEMMA RowKeys ==
  ASSUME TypeInv, NEW S \in SUBSET Rows
  PROVE  DeviceKeys(S) \in SUBSET AllKeys
  BY DEF DeviceKeys, AllKeys

\* A row is empty or an account's.
LEMMA RowTypes ==
  ASSUME TypeInv, NEW r \in Rows
  PROVE  /\ rows[r] # NoRow => rows[r] \in DeviceRow
         /\ rows[r].user \in Users <=> rows[r] # NoRow
  BY AccessConstants DEF TypeInv, DataOK, DeviceRow, NoRow

\* Type correctness of the requests that begin,
LEMMA BeginTypes ==
  ASSUME TypeInv, NEW p \in Procs,
         \/ BeginDevice(p) \/ BeginRow(p) \/ BeginAccount(p) \/ BeginDelete(p) \/ BeginJob(p)
  PROVE  TypeInv'
<1>1. DataOK'
  BY DEF BeginDevice, BeginRow, BeginAccount, BeginDelete, BeginJob, Start, Overlapped,
         TypeInv, DataOK
<1>2. procs' \in [Procs -> Proc] /\ Shapes'
  <2>0. configs \subseteq Configs /\ \A c \in Configs : OwnerOf[c] \in Users
    BY AccessConstants DEF TypeInv, DataOK
  <2>1. CASE BeginDevice(p)
    <3>1. PICK op \in {"provision", "visit"}, c \in configs, i \in Installs :
             Start(p, op, OwnerOf[c], c, i, Null)
      BY <2>1 DEF BeginDevice
    <3>2. c \in Configs /\ OwnerOf[c] \in Users /\ OwnerOf[c] # Null
      BY <2>0, AccessConstants
    <3> QED BY <3>1, <3>2, StartType DEF Start, RequestOps, ConfigOps, RowOps
  <2>2. CASE BeginRow(p)
    <3>1. PICK op \in {"blockDevice", "deleteDevice"}, r \in Rows :
             rows[r] # NoRow /\ Start(p, op, rows[r].user, Null, Null, r)
      BY <2>2 DEF BeginRow
    <3>2. rows[r].user \in Users
      BY <3>1 DEF TypeInv, DataOK, DeviceRow
    <3> QED BY <3>1, <3>2, StartType, AccessConstants DEF Start, RequestOps, ConfigOps, RowOps
  <2>3. CASE BeginAccount(p)
    <3>1. PICK op \in {"resetSessions", "reset", "purge", "toggleBlock"}, u \in Users :
             Start(p, op, u, Null, Null, Null)
      BY <2>3 DEF BeginAccount
    <3> QED BY <3>1, StartType, AccessConstants DEF Start, RequestOps, ConfigOps, RowOps
  <2>4. CASE BeginDelete(p)
    <3>1. PICK op \in {"deleteAwg", "deleteVless"}, c \in configs :
             Start(p, op, OwnerOf[c], c, Null, Null)
      BY <2>4 DEF BeginDelete
    <3>2. c \in Configs /\ OwnerOf[c] \in Users /\ OwnerOf[c] # Null
      BY <2>0, AccessConstants
    <3> QED BY <3>1, <3>2, StartType DEF Start, RequestOps, ConfigOps, RowOps
  <2>5. CASE BeginJob(p)
    <3>1. p \in {"reconcile", "cleanup"} /\ Start(p, p, Null, Null, Null, Null)
      BY <2>5 DEF BeginJob
    <3> QED BY <3>1, StartType, AccessConstants DEF Start, RequestOps, ConfigOps, RowOps
  <2> QED BY <2>1, <2>2, <2>3, <2>4, <2>5
<1> QED BY <1>1, <1>2, TypeParts

\* of those that create a config,
LEMMA BeginCreateType ==
  ASSUME TypeInv, NEW p \in Procs, BeginCreate(p)
  PROVE  TypeInv'
<1>1. PICK c \in Configs \ made, op \in {"createConfig", "ensureConfig"} :
         /\ procs' = [procs EXCEPT ![p] = Started(op, OwnerOf[c], c, Null, Null)]
         /\ disturbed' = disturbed \cup Overlapped(op, OwnerOf[c])
                           \cup {v \in {OwnerOf[c]} : accounts[v].blocked}
         /\ made' = made \cup {c}
  BY DEF BeginCreate
<1>2. OwnerOf[c] \in Users
  BY AccessConstants
<1>3. DataOK'
  BY <1>1, <1>2 DEF BeginCreate, Overlapped, TypeInv, DataOK
<1>4. procs' \in [Procs -> Proc] /\ Shapes'
  BY <1>1, <1>2, StartType, AccessConstants DEF RequestOps, ConfigOps, RowOps
<1> QED BY <1>3, <1>4, TypeParts

\* of revokeExpiredSubs going from account to account,
LEMMA SuspendTypes ==
  ASSUME TypeInv, NEW p \in Procs, BeginRevoke(p) \/ SuspendNext(p)
  PROVE  TypeInv'
<1>1. DataOK'
  BY DEF BeginRevoke, SuspendNext, TypeInv, DataOK, Due
<1>2. CASE BeginRevoke(p)
  <2> DEFINE new == [Idle EXCEPT !.op = "suspend", !.due = Due,
                                 !.step = Len(Script["suspend"]) + 1]
  <2>1. new = [op |-> "suspend", user |-> Null, step |-> 4, todo |-> {}, adds |-> FALSE,
               config |-> Null, inst |-> Null, row |-> Null, key |-> Null, limit |-> Null,
               due |-> Due]
    <3>1. Len(Script["suspend"]) + 1 = 4
      BY Lengths
    <3>2. new = [Idle EXCEPT !.op = "suspend", !.due = Due, !.step = 4]
      BY <3>1
    <3> HIDE DEF new
    <3> QED BY <3>2 DEF Idle
  <2>2. new \in Proc
    <3> HIDE DEF new
    <3> QED BY <2>1 DEF Proc, Due
  <2>3. Shape(new)
    <3>1. /\ new.op = "suspend" /\ new.step = 4 /\ new.todo = {} /\ new.adds = FALSE
      BY <2>1
    <3>2. 4 <= Len(Script["suspend"]) + 1
      BY Lengths
    <3> HIDE DEF new
    <3> QED BY <3>1, <3>2 DEF Shape, ConfigOps, RowOps
  <2> QED BY <1>1, <1>2, <2>2, <2>3, TypeParts DEF BeginRevoke, TypeInv, DataOK, Shapes
<1>3. CASE SuspendNext(p)
  <2>1. PICK u \in procs[p].due :
          procs' = [procs EXCEPT ![p].user = u, ![p].step = 1, ![p].due = @ \ {u}]
    BY <1>3 DEF SuspendNext
  <2>2. procs[p] \in Proc /\ Shape(procs[p]) /\ procs[p].todo = {} /\ procs[p].op = "suspend"
    BY <1>3, <2>1, ProcFacts DEF SuspendNext, At, Shape
  <2>3. u \in Users
    BY <2>1, <2>2 DEF Proc
  <2>4. procs' = [procs EXCEPT ![p] = procs'[p]]
    BY <2>1 DEF TypeInv, DataOK
  <2>5. procs'[p] = [procs[p] EXCEPT !.user = u, !.step = 1, !.due = @ \ {u}]
    BY <2>1 DEF TypeInv, DataOK
  <2>6. procs'[p] \in Proc
    <3>1. procs[p].due \ {u} \in SUBSET Users
      BY <2>2 DEF Proc
    <3> DEFINE old == procs[p]
    <3>2. old = [op |-> old.op, user |-> old.user, step |-> old.step, todo |-> old.todo,
                 adds |-> old.adds, config |-> old.config, inst |-> old.inst,
                 row |-> old.row, key |-> old.key, limit |-> old.limit, due |-> old.due]
      BY <2>2, ProcFields
    <3>3. procs'[p] = [op |-> old.op, user |-> u, step |-> 1, todo |-> old.todo,
                 adds |-> old.adds, config |-> old.config, inst |-> old.inst,
                 row |-> old.row, key |-> old.key, limit |-> old.limit, due |-> old.due \ {u}]
      BY <2>5, <3>2
    <3> QED BY <2>2, <2>3, <3>1, <3>3 DEF Proc
  <2>7. /\ procs'[p].op = "suspend" /\ procs'[p].step = 1 /\ procs'[p].todo = {}
        /\ procs'[p].user = u /\ procs'[p].adds = procs[p].adds
    BY <2>2, <2>5 DEF Proc
  <2>8. Shape(procs'[p])
    BY <2>2, <2>3, <2>7, Lengths DEF Shape, ConfigOps, RowOps
  <2> QED BY <1>1, <2>4, <2>6, <2>8, TypeParts DEF TypeInv, DataOK, Shapes
<1> QED BY <1>2, <1>3

\* of the reads,
LEMMA ReadTypes ==
  ASSUME TypeInv, NEW p \in Procs,
         \/ ReadDevices(p) \/ ReadConfigs(p) \/ ReadPeers(p) \/ ReadRow(p) \/ ReadConfig(p)
         \/ ReadStale(p)
  PROVE  TypeInv'
<1> USE ProcFacts
<1>1. PICK keys \in SUBSET AllKeys : Read(p, keys)
  <2>1. configs \subseteq AllKeys
    BY DEF TypeInv, DataOK, AllKeys
  <2>2. \A S \in SUBSET Rows : DeviceKeys(S) \in SUBSET AllKeys
    BY RowKeys
  <2>3. CASE ReadDevices(p)
    BY <2>2, <2>3 DEF ReadDevices, ScopeRows, RowsOf, UserRows
  <2>4. CASE ReadConfigs(p)
    <3>1. ScopeConfigs(p) \subseteq configs
      BY DEF ScopeConfigs, UserConfigs
    <3> QED BY <2>1, <2>4, <3>1 DEF ReadConfigs
  <2>5. CASE ReadPeers(p)
    BY <2>1, <2>5 DEF ReadPeers, UserConfigs
  <2>6. CASE ReadRow(p)
    BY <2>2, <2>6 DEF ReadRow, DeviceKeys, AllKeys
  <2>7. CASE ReadConfig(p)
    BY <2>1, <2>7 DEF ReadConfig
  <2>8. CASE ReadStale(p)
    BY <2>2, <2>8 DEF ReadStale
  <2> QED BY <2>3, <2>4, <2>5, <2>6, <2>7, <2>8
<1>2. DataOK'
  BY <1>1 DEF Read, TypeInv, DataOK
<1>3. Statement(p) \in {"readDevices", "readConfigs", "readPeers", "readRow", "readConfig",
                        "readStale"}
  BY DEF ReadDevices, ReadConfigs, ReadPeers, ReadRow, ReadConfig, ReadStale, At
<1>4. procs[p].op \notin {"provision", "visit", "createConfig", "ensureConfig"}
  BY <1>3, Places
<1> QED BY <1>1, <1>2, <1>3, <1>4, AdvanceReading, TypeParts DEF Read

\* of the calls,
LEMMA CallTypes ==
  ASSUME TypeInv, NEW p \in Procs, Call(p) \/ CallFails(p)
  PROVE  TypeInv'
<1>1. PICK k \in procs[p].todo : Go(p, [procs[p] EXCEPT !.todo = @ \ {k}])
  BY DEF Call, CallFails
<1> DEFINE proc == [procs[p] EXCEPT !.todo = @ \ {k}]
<1>2. procs[p] \in Proc /\ Shape(procs[p])
  BY ProcFacts
<1>3. k \in AllKeys
  BY <1>2 DEF Proc
<1>4. DataOK'
  <2>1. CASE Call(p)
    <3>1. procs[p].todo \subseteq AllKeys
      BY <1>2 DEF Proc
    <3> QED BY <2>1, <3>1 DEF Call, TypeInv, DataOK
  <2>2. CASE CallFails(p)
    BY <2>2 DEF CallFails, TypeInv, DataOK
  <2> QED BY <2>1, <2>2
<1>5. procs[p].todo \ {k} \in SUBSET AllKeys
  BY <1>2 DEF Proc
<1>6. proc \in Proc
  BY <1>2, <1>5 DEF Proc
<1>7. /\ proc.op = procs[p].op /\ proc.user = procs[p].user /\ proc.step = procs[p].step
      /\ proc.due = procs[p].due /\ proc.config = procs[p].config /\ proc.inst = procs[p].inst
      /\ proc.row = procs[p].row /\ proc.adds = procs[p].adds /\ proc.limit = procs[p].limit
      /\ proc.todo = procs[p].todo \ {k}
  BY <1>2 DEF Proc
<1>8. procs[p].op # "idle"
  BY <1>1, <1>2 DEF Shape, Idle
<1>9. Shape(proc)
  <2> HIDE DEF proc
  <2> QED BY <1>2, <1>7, <1>8 DEF Shape
<1> QED BY <1>1, <1>4, <1>6, <1>9, GoType, TypeParts

\* of errors that go unnoticed and requests that are cut off,
LEMMA SkipTypes ==
  ASSUME TypeInv, NEW p \in Procs, SkipStatement(p) \/ CutOff(p)
  PROVE  TypeInv'
<1>1. DataOK'
  BY DEF SkipStatement, CutOff, TypeInv, DataOK
<1>2. CASE SkipStatement(p)
  <2>1. procs[p].op # "provision"
    BY <1>2, ProcFacts, Places DEF SkipStatement, At
  <2>2. Statement(p) # "end" /\ Advance(p, procs[p])
    BY <1>2 DEF SkipStatement, At
  <2> QED BY <1>1, <2>1, <2>2, ProcFacts, AdvanceSame, TypeParts
<1>3. CASE CutOff(p)
  BY <1>1, <1>3, AllIdle, TypeParts DEF CutOff
<1> QED BY <1>2, <1>3

\* of the statements that delete or block rows and configs,
LEMMA WipeTypes ==
  ASSUME TypeInv, NEW p \in Procs,
         WipeDevices(p) \/ DeleteRow(p) \/ WipeStale(p) \/ BlockRow(p) \/ DropConfigs(p)
  PROVE  TypeInv'
<1>1. Statement(p) \in {"wipeDevices", "deleteRow", "wipeStale", "blockRow", "dropConfigs",
                        "dropConfig"}
  BY DEF WipeDevices, DeleteRow, WipeStale, BlockRow, DropConfigs, At
<1>2. procs[p].op # "provision" /\ ~Ended(procs[p])
  BY <1>1, ProcFacts, Places
<1>3. Advance(p, procs[p])
  BY DEF WipeDevices, DeleteRow, WipeStale, Wipe, BlockRow, DropConfigs
<1>4. procs' \in [Procs -> Proc] /\ Shapes'
  BY <1>2, <1>3, AdvanceSame
<1>5. DataOK'
  <2>1. CASE WipeDevices(p) \/ DeleteRow(p) \/ WipeStale(p)
    <3>1. rows' \in [Rows -> DeviceRow \cup {NoRow}]
      BY <2>1 DEF WipeDevices, DeleteRow, WipeStale, Wipe, TypeInv, DataOK
    <3> QED BY <2>1, <3>1 DEF WipeDevices, DeleteRow, WipeStale, Wipe, TypeInv, DataOK
  <2>2. CASE BlockRow(p)
    <3>1. rows' \in [Rows -> DeviceRow \cup {NoRow}]
      <4> DEFINE r   == procs[p].row
                 row == [rows[r] EXCEPT !.blocked = TRUE, !.key = Null]
      <4>1. procs[p].op = "blockDevice"
        BY <2>2, ProcFacts, Places DEF BlockRow, At
      <4>2. r \in Rows
        BY <4>1, ProcFacts DEF Shape, RowOps
      <4>3. CASE rows[r] = NoRow
        BY <2>2, <4>3 DEF BlockRow, TypeInv, DataOK
      <4>4. CASE rows[r] # NoRow
        <5>1. row \in DeviceRow
          BY <4>2, <4>4, RowTypes DEF DeviceRow
        <5>2. rows' = [rows EXCEPT ![r] = row]
          BY <2>2, <4>2, <4>4 DEF BlockRow, TypeInv, DataOK
        <5> QED BY <4>2, <5>1, <5>2 DEF TypeInv, DataOK
      <4> QED BY <4>3, <4>4
    <3> QED BY <2>2, <3>1 DEF BlockRow, TypeInv, DataOK
  <2>3. CASE DropConfigs(p)
    BY <2>3 DEF DropConfigs, TypeInv, DataOK
  <2> QED BY <2>1, <2>2, <2>3
<1> QED BY <1>4, <1>5, TypeParts

\* of blocking and deleting an account,
LEMMA AccountTypes ==
  ASSUME TypeInv, NEW p \in Procs, Toggle(p) \/ DropUser(p)
  PROVE  TypeInv'
<1>1. procs[p] \in Proc /\ Shape(procs[p])
  BY ProcFacts
<1>2. CASE Toggle(p)
  <2> DEFINE u    == procs[p].user
             proc == [procs[p] EXCEPT !.adds = accounts[u].blocked]
  <2>1. procs[p].op = "toggleBlock" /\ ~Ended(procs[p])
    BY <1>2, ProcFacts, Places DEF Toggle, At
  <2>2. u \in Users
    BY <1>1, <2>1 DEF Shape
  <2>3. accounts[u] \in Account /\ accounts[u].blocked \in BOOLEAN
    BY <2>2 DEF TypeInv, DataOK, Account
  <2>4. DataOK'
    <3>1. accounts' \in [Users -> Account]
      BY <1>2, <2>2, <2>3 DEF Toggle, TypeInv, DataOK, Account
    <3> QED BY <1>2, <3>1 DEF Toggle, TypeInv, DataOK
  <2>5. proc \in Proc /\ Goes(procs[p], proc) /\ proc.todo = procs[p].todo
    BY <1>1, <2>3 DEF Proc, Goes
  <2>6. ~Ended(proc)
    BY <2>1, <2>5 DEF Ended, Goes
  <2>7. Advance(p, proc)
    BY <1>2 DEF Toggle
  <2> HIDE DEF proc
  <2> QED BY <2>1, <2>4, <2>5, <2>6, <2>7, AdvanceType, TypeParts DEF Goes, RowOps
<1>3. CASE DropUser(p)
  <2>1. procs[p].op = "purge" /\ ~Ended(procs[p])
    BY <1>3, ProcFacts, Places DEF DropUser, At
  <2>2. procs[p].user \in Users
    BY <1>1, <2>1 DEF Shape
  <2>3. accounts' \in [Users -> Account]
    BY <1>3, <2>2 DEF DropUser, TypeInv, DataOK, Account
  <2>4. DataOK'
    BY <1>3, <2>3 DEF DropUser, TypeInv, DataOK
  <2> QED BY <1>3, <2>1, <2>4, AdvanceSame, TypeParts DEF DropUser
<1> QED BY <1>2, <1>3

\* of the checks and the lock of provisioning,
LEMMA GateTypes ==
  ASSUME TypeInv, NEW p \in Procs, Gate(p) \/ Lookup(p) \/ Lock(p)
  PROVE  TypeInv'
<1> DEFINE u == procs[p].user
<1>1. procs[p] \in Proc /\ Shape(procs[p])
  BY ProcFacts
<1>2. procs[p].op = "provision" /\ ~Ended(procs[p])
  BY ProcFacts, Places DEF Gate, Lookup, Lock, At
<1>3. u \in Users /\ procs[p].todo = {}
  BY <1>1, <1>2 DEF Shape
<1>4. CASE Gate(p)
  <2> DEFINE proc == [procs[p] EXCEPT !.limit = accounts[u].limit]
  <2>1. accounts[u].limit \in Limits
    BY <1>3 DEF TypeInv, DataOK, Account
  <2>2. /\ proc \in Proc /\ Goes(procs[p], proc) /\ proc.limit \in Limits
        /\ proc.todo = {} /\ proc.adds = procs[p].adds
    BY <1>1, <1>3, <2>1 DEF Proc, Goes
  <2>3. ~Ended(proc)
    BY <1>2, <2>2 DEF Ended, Goes
  <2>4. Advance(p, proc)
    BY <1>4 DEF Gate
  <2>5. procs' \in [Procs -> Proc] /\ Shapes'
    <3> HIDE DEF proc
    <3> QED BY <1>1, <1>2, <2>2, <2>3, <2>4, AdvanceType DEF Goes, RowOps, Shape
  <2> QED BY <1>4, <2>5, TypeParts DEF Gate, TypeInv, DataOK
<1>5. CASE ~Gate(p)
  <2>1. procs[p].limit \in Limits
    <3>1. procs[p].step > 1
      BY <1>5, ProcFacts, Places DEF Lookup, Lock, At
    <3> QED BY <1>1, <1>2, <3>1 DEF Shape
  <2>2. CASE Lookup(p)
    <3>1. rows' \in [Rows -> DeviceRow \cup {NoRow}]
      <4>1. CASE \E r \in Matching(p) : rows' = [rows EXCEPT ![r].stale = FALSE]
        <5>1. PICK r \in Rows : rows[r].user = u /\ rows' = [rows EXCEPT ![r].stale = FALSE]
          BY <4>1 DEF Matching, UserRows
        <5>2. rows[r] \in DeviceRow
          BY <1>3, <5>1, RowTypes
        <5>3. [rows[r] EXCEPT !.stale = FALSE] \in DeviceRow
          BY <5>2 DEF DeviceRow
        <5> QED BY <5>1, <5>3 DEF TypeInv, DataOK
      <4> QED BY <2>2, <4>1 DEF Lookup, TypeInv, DataOK
    <3>2. DataOK'
      BY <2>2, <3>1 DEF Lookup, TypeInv, DataOK
    <3>3. CASE procs' = [procs EXCEPT ![p] = Idle]
      BY <3>2, <3>3, AllIdle, TypeParts
    <3>4. CASE \E r \in Matching(p) : Advance(p, [procs[p] EXCEPT !.row = r])
      <4>1. PICK r \in Rows : Advance(p, [procs[p] EXCEPT !.row = r])
        BY <3>4 DEF Matching, UserRows
      <4> DEFINE proc == [procs[p] EXCEPT !.row = r]
      <4>2. /\ proc \in Proc /\ Goes(procs[p], proc) /\ proc.limit = procs[p].limit
            /\ proc.todo = {} /\ proc.adds = procs[p].adds
        BY <1>1, <1>3 DEF Proc, Goes
      <4>3. ~Ended(proc)
        BY <1>2, <4>2 DEF Ended, Goes
      <4> HIDE DEF proc
      <4>4. procs' \in [Procs -> Proc] /\ Shapes'
        BY <1>1, <1>2, <2>1, <4>1, <4>2, <4>3, AdvanceType DEF Goes, RowOps, Shape, proc
      <4> QED BY <3>2, <4>4, TypeParts
    <3>5. CASE Advance(p, procs[p])
      BY <1>2, <2>1, <3>2, <3>5, AdvanceSame, TypeParts
    <3> QED BY <2>2, <3>3, <3>4, <3>5 DEF Lookup
  <2>3. CASE Lock(p)
    BY <1>2, <2>1, <2>3, AdvanceSame, TypeParts DEF Lock, TypeInv, DataOK
  <2> QED BY <1>5, <2>2, <2>3
<1> QED BY <1>4, <1>5

\* of a new row,
LEMMA NewRowType ==
  ASSUME TypeInv, NEW p \in Procs, NEW key \in AllKeys \cup {Null}, NEW counted \in BOOLEAN,
         procs[p].user \in Users, procs[p].inst \in Installs, NewRow(p, key, counted)
  PROVE  rows' \in [Rows -> DeviceRow \cup {NoRow}]
<1> DEFINE row == [user |-> procs[p].user, inst |-> procs[p].inst, key |-> key,
                   blocked |-> FALSE, stale |-> FALSE, counted |-> counted]
<1>1. PICK r \in Rows : rows' = [rows EXCEPT ![r] = row]
  BY DEF NewRow
<1>2. row \in DeviceRow
  BY DEF DeviceRow
<1> QED BY <1>1, <1>2 DEF TypeInv, DataOK

\* of registering and storing a key,
LEMMA ProvisionTypes ==
  ASSUME TypeInv, NEW p \in Procs, Register(p) \/ Store(p)
  PROVE  TypeInv'
<1> DEFINE u == procs[p].user
<1>1. procs[p] \in Proc /\ Shape(procs[p])
  BY ProcFacts
<1>2. procs[p].op = "provision" /\ ~Ended(procs[p]) /\ procs[p].step \in {4, 5}
  BY ProcFacts, Places DEF Register, Store, At
<1>3. /\ u \in Users /\ procs[p].todo = {} /\ procs[p].limit \in Limits
      /\ procs[p].inst \in Installs /\ procs[p].config \in Configs
  BY <1>1, <1>2 DEF Shape, ConfigOps
<1>4. CASE Register(p)
  <2>1. PICK k \in Keys :
          /\ minted' = [minted EXCEPT ![k] = u]
          /\ served' \in {served, served \cup {k}}
          /\ \E x \in {k, Null, procs[p].config} :
                Advance(p, [procs[p] EXCEPT !.key = x])
          /\ disturbed' \in {disturbed, disturbed \cup {u}}
    BY <1>4 DEF Register
  <2>2. PICK x \in AllKeys \cup {Null} : Advance(p, [procs[p] EXCEPT !.key = x])
    BY <1>3, <2>1 DEF AllKeys
  <2> DEFINE proc == [procs[p] EXCEPT !.key = x]
  <2>3. /\ proc \in Proc /\ Goes(procs[p], proc) /\ proc.limit \in Limits
        /\ proc.todo = {} /\ proc.adds = procs[p].adds
    BY <1>1, <1>3, <2>2 DEF Proc, Goes
  <2>4. ~Ended(proc)
    BY <1>2, <2>3 DEF Ended, Goes
  <2>5. procs' \in [Procs -> Proc] /\ Shapes'
    <3> HIDE DEF proc
    <3> QED BY <1>1, <1>2, <2>2, <2>3, <2>4, AdvanceType DEF Goes, RowOps, Shape, proc
  <2>6. DataOK'
    BY <1>3, <1>4, <2>1 DEF Register, TypeInv, DataOK, AllKeys
  <2> QED BY <2>5, <2>6, TypeParts
<1>5. CASE Store(p)
  <2>1. procs[p].key \in AllKeys \cup {Null}
    BY <1>1 DEF Proc
  <2>2. rows' \in [Rows -> DeviceRow \cup {NoRow}]
    <3>1. CASE NewRow(p, procs[p].key, TRUE)
      BY <1>3, <2>1, <3>1, NewRowType
    <3>2. CASE rows' = rows
      BY <3>2 DEF TypeInv, DataOK
    <3>3. CASE procs[p].row # Null /\ rows' = IF rows[procs[p].row] = NoRow THEN rows
                        ELSE [rows EXCEPT ![procs[p].row].key = procs[p].key,
                                          ![procs[p].row].stale = FALSE]
      <4> DEFINE r == procs[p].row
      <4>1. r \in Rows
        BY <1>1, <3>3 DEF Proc
      <4>2. CASE rows[r] # NoRow
        <5>1. rows[r] \in DeviceRow
          BY <4>1, <4>2, RowTypes
        <5>2. [rows[r] EXCEPT !.key = procs[p].key, !.stale = FALSE] \in DeviceRow
          BY <2>1, <5>1 DEF DeviceRow
        <5>3. rows' = [rows EXCEPT ![r] = [rows[r] EXCEPT !.key = procs[p].key, !.stale = FALSE]]
          BY <3>3, <4>1, <4>2 DEF TypeInv, DataOK
        <5> QED BY <4>1, <5>2, <5>3 DEF TypeInv, DataOK
      <4> QED BY <3>3, <4>2 DEF TypeInv, DataOK
    <3> QED BY <1>5, <3>1, <3>2, <3>3 DEF Store
  <2>3. DataOK'
    BY <1>3, <1>5, <2>2 DEF Store, TypeInv, DataOK
  <2> QED BY <1>5, <2>3, AllIdle, TypeParts DEF Store
<1> QED BY <1>4, <1>5

\* of a visit recorded without the api,
LEMMA VisitTypes ==
  ASSUME TypeInv, NEW p \in Procs, Visit(p)
  PROVE  TypeInv'
<1> DEFINE u == procs[p].user
<1>1. procs[p] \in Proc /\ Shape(procs[p])
  BY ProcFacts
<1>2. procs[p].op = "visit" /\ ~Ended(procs[p])
  BY ProcFacts, Places DEF Visit, At
<1>3. u \in Users /\ procs[p].inst \in Installs
  BY <1>1, <1>2 DEF Shape
<1>4. rows' \in [Rows -> DeviceRow \cup {NoRow}]
  <2>1. CASE rows' = rows
    BY <2>1 DEF TypeInv, DataOK
  <2>2. CASE rows' = [r \in Rows |-> IF r \in Matching(p) THEN [rows[r] EXCEPT !.stale = FALSE]
                                     ELSE rows[r]]
    <3> SUFFICES ASSUME NEW r \in Matching(p)
                 PROVE  [rows[r] EXCEPT !.stale = FALSE] \in DeviceRow
      BY <2>2 DEF TypeInv, DataOK
    <3>1. r \in Rows /\ rows[r] \in DeviceRow
      BY <1>3, RowTypes DEF Matching, UserRows
    <3> QED BY <3>1 DEF DeviceRow
  <2>3. CASE NewRow(p, Null, FALSE)
    BY <1>3, <2>3, NewRowType
  <2> QED BY <2>1, <2>2, <2>3 DEF Visit
<1>5. DataOK'
  BY <1>4 DEF Visit, TypeInv, DataOK
<1>6. procs' = [procs EXCEPT ![p] = Idle] \/ Advance(p, procs[p])
  BY DEF Visit
<1> QED BY <1>2, <1>5, <1>6, AllIdle, AdvanceSame, TypeParts

\* of creating a config,
LEMMA ConfigTypes ==
  ASSUME TypeInv, NEW p \in Procs, Check(p) \/ CountConfigs(p) \/ Arm(p) \/ Insert(p)
  PROVE  TypeInv'
<1>1. procs[p] \in Proc /\ Shape(procs[p])
  BY ProcFacts
<1>2. procs[p].op \in {"createConfig", "ensureConfig"} /\ ~Ended(procs[p])
  BY ProcFacts, Places DEF Check, CountConfigs, Arm, Insert, At
<1>3. procs[p].config \in Configs /\ procs[p].user \in Users
  BY <1>1, <1>2 DEF Shape, ConfigOps
<1>4. procs' = [procs EXCEPT ![p] = Idle] \/ Advance(p, procs[p])
  BY DEF Check, CountConfigs, Arm, Insert
<1>5. DataOK'
  BY <1>3 DEF Check, CountConfigs, Arm, Insert, TypeInv, DataOK, AllKeys
<1> QED BY <1>2, <1>4, <1>5, AllIdle, AdvanceSame, TypeParts

\* of a refusal,
LEMMA RefuseTypes ==
  ASSUME TypeInv, NEW p \in Procs, Refuse(p)
  PROVE  TypeInv'
  BY AllIdle, TypeParts DEF Refuse, TypeInv, DataOK

\* and of what happens outside the requests.
LEMMA WorldTypes ==
  ASSUME TypeInv,
         \/ \E r \in Rows : UnblockDevice(r) \/ GoStale(r)
         \/ \E c \in Configs : SetPeerEnabled(c)
         \/ \E u \in Users : UpdateDeviceLimit(u) \/ Lapse(u) \/ Renew(u)
         \/ XrayRestart
  PROVE  TypeInv'
<1>1. procs' = procs
  BY DEF UnblockDevice, GoStale, SetPeerEnabled, UpdateDeviceLimit, Lapse, Renew, XrayRestart
<1>2. DataOK'
  <2>1. ASSUME NEW r \in Rows, UnblockDevice(r) \/ GoStale(r)
        PROVE  DataOK'
    <3>1. rows[r] \in DeviceRow
      BY <2>1, RowTypes DEF UnblockDevice, GoStale
    <3>2. /\ [rows[r] EXCEPT !.blocked = FALSE, !.counted = FALSE] \in DeviceRow
          /\ [rows[r] EXCEPT !.stale = TRUE] \in DeviceRow
      BY <3>1 DEF DeviceRow
    <3>3. \/ rows' = [rows EXCEPT ![r] = [rows[r] EXCEPT !.blocked = FALSE, !.counted = FALSE]]
          \/ rows' = [rows EXCEPT ![r] = [rows[r] EXCEPT !.stale = TRUE]]
      BY <2>1 DEF UnblockDevice, GoStale, TypeInv, DataOK
    <3>4. rows' \in [Rows -> DeviceRow \cup {NoRow}]
      BY <3>2, <3>3 DEF TypeInv, DataOK
    <3>5. disturbed' \subseteq Users
      BY <2>1, <3>1 DEF UnblockDevice, GoStale, TypeInv, DataOK, DeviceRow
    <3> QED BY <2>1, <3>4, <3>5 DEF UnblockDevice, GoStale, TypeInv, DataOK
  <2>2. ASSUME NEW c \in Configs, SetPeerEnabled(c)
        PROVE  DataOK'
    BY <2>2 DEF SetPeerEnabled, TypeInv, DataOK, AllKeys
  <2>3. ASSUME NEW u \in Users, UpdateDeviceLimit(u) \/ Lapse(u) \/ Renew(u)
        PROVE  DataOK'
    <3>1. accounts' \in [Users -> Account]
      BY <2>3 DEF UpdateDeviceLimit, Lapse, Renew, TypeInv, DataOK, Account
    <3> QED BY <2>3, <3>1 DEF UpdateDeviceLimit, Lapse, Renew, TypeInv, DataOK
  <2>4. CASE XrayRestart
    BY <2>4 DEF XrayRestart, TypeInv, DataOK
  <2> QED BY <2>1, <2>2, <2>3, <2>4
<1> QED BY <1>1, <1>2, TypeParts DEF TypeInv, Shapes

\* The type invariant is inductive.
LEMMA TypeStep ==
  ASSUME TypeInv, [Next]_vars
  PROVE  TypeInv'
<1>1. CASE UNCHANGED vars
  BY <1>1, TypeParts DEF vars, TypeInv, DataOK, Shapes
<1>2. ASSUME NEW p \in Procs, RequestBegins(p) \/ RequestStep(p) \/ JobStep(p)
      PROVE  TypeInv'
  BY <1>2, BeginTypes, BeginCreateType, SuspendTypes, ReadTypes, CallTypes, WipeTypes,
     AccountTypes, GateTypes, ProvisionTypes, VisitTypes, ConfigTypes, RefuseTypes
     DEF RequestBegins, RequestStep, JobStep
<1>3. ASSUME NEW p \in Procs, SkipStatement(p) \/ CallFails(p) \/ CutOff(p)
      PROVE  TypeInv'
  BY <1>3, SkipTypes, CallTypes
<1> QED BY <1>1, <1>2, <1>3, WorldTypes DEF Next, Procs

\* It holds initially.
LEMMA TypeStart ==
  ASSUME Init
  PROVE  TypeInv
<1>1. accounts \in [Users -> Account]
  <2> DEFINE A == {[exists |-> TRUE, blocked |-> FALSE, limit |-> n, plan |-> s] :
                     n \in Limits, s \in {"unlimited", "running"}}
  <2>1. ASSUME NEW a \in A
        PROVE  a \in Account
    <3>1. PICK n \in Limits, s \in {"unlimited", "running"} :
             a = [exists |-> TRUE, blocked |-> FALSE, limit |-> n, plan |-> s]
      OBVIOUS
    <3> HIDE DEF A
    <3> QED BY <3>1 DEF Account
  <2>2. accounts \in [Users -> A]
    BY DEF Init
  <2> HIDE DEF A
  <2> QED BY <2>1, <2>2
<1>2. procs \in [Procs -> Proc] /\ Shapes
  BY IdleProc DEF Init, Shapes
<1>3. DataOK
  BY <1>1 DEF Init, DataOK
<1> QED BY <1>2, <1>3 DEF TypeInv

-----------------------------------------------------------------------------
(* What a step does to the requests.                                        *)

Others(p) == \A q \in Procs \ {p} : procs'[q] = procs[q]

\* The request goes on with the next statement, after the calls for todo; or it
\* has ended.
Moves(p, todo, adds, row, key, limit) ==
    /\ Others(p)
    /\ \/ /\ procs'[p].op = procs[p].op /\ procs'[p].user = procs[p].user
          /\ procs'[p].config = procs[p].config /\ procs'[p].inst = procs[p].inst
          /\ procs'[p].due = procs[p].due /\ procs'[p].step = procs[p].step + 1
          /\ procs'[p].todo = todo /\ procs'[p].adds = adds /\ procs'[p].row = row
          /\ procs'[p].key = key /\ procs'[p].limit = limit
       \/ procs'[p] = Idle /\ todo = {} /\ procs[p].step = Len(Script[procs[p].op])

\* All that changes is what it has to call.
Follows(p, todo) == Moves(p, todo, procs[p].adds, procs[p].row, procs[p].key, procs[p].limit)

\* Going on as proc changes one request.
LEMMA GoEffect ==
  ASSUME NEW p \in Procs, NEW proc, TypeInv, Go(p, proc)
  PROVE  Others(p) /\ (procs'[p] = proc \/ (Ended(proc) /\ proc.todo = {} /\ procs'[p] = Idle))
<1>1. CASE Ended(proc) /\ proc.todo = {} /\ proc.due = {}
  <2>1. procs' = [procs EXCEPT ![p] = Idle]
    BY <1>1 DEF Go
  <2> QED BY <1>1, <2>1 DEF Others, TypeInv
<1>2. CASE ~(Ended(proc) /\ proc.todo = {} /\ proc.due = {})
  <2>1. procs' = [procs EXCEPT ![p] = proc]
    BY <1>2 DEF Go
  <2> QED BY <2>1 DEF Others, TypeInv
<1> QED BY <1>1, <1>2

\* The next statement with what this one found,
LEMMA AdvanceMoves ==
  ASSUME NEW p \in Procs, NEW proc \in Proc, TypeInv, Goes(procs[p], proc), ~Ended(procs[p]),
         Advance(p, proc)
  PROVE  Moves(p, proc.todo, proc.adds, proc.row, proc.key, proc.limit)
<1> DEFINE next == [proc EXCEPT !.step = @ + 1]
<1>1. /\ next.op = proc.op /\ next.user = proc.user /\ next.todo = proc.todo
      /\ next.due = proc.due /\ next.config = proc.config /\ next.inst = proc.inst
      /\ next.row = proc.row /\ next.adds = proc.adds /\ next.limit = proc.limit
      /\ next.key = proc.key /\ next.step = proc.step + 1
  BY DEF Proc
<1>2. Others(p) /\ (procs'[p] = next \/ (Ended(next) /\ next.todo = {} /\ procs'[p] = Idle))
  <2>1. Go(p, next)
    BY DEF Advance
  <2> HIDE DEF next
  <2> QED BY <2>1, GoEffect
<1>3. Ended(next) => procs[p].step = Len(Script[procs[p].op])
  <2>1. PICK n \in 0 .. 5 : n = Len(Script[procs[p].op])
    BY ProcFacts, Lengths DEF OpNames, RequestOps
  <2>2. procs[p].step \in Nat /\ next.step = procs[p].step + 1 /\ next.op = procs[p].op
    BY <1>1, ProcFacts DEF Goes
  <2>3. ~(procs[p].step > n)
    BY <2>1 DEF Ended
  <2>4. Ended(next) => procs[p].step + 1 > n
    <3> HIDE DEF next
    <3> QED BY <2>1, <2>2 DEF Ended
  <2>5. Ended(next) => procs[p].step = n
    BY <2>2, <2>3, <2>4
  <2> QED BY <2>1, <2>5
<1> HIDE DEF next
<1> QED BY <1>1, <1>2, <1>3 DEF Moves, Goes

\* with nothing new,
LEMMA SameMoves ==
  ASSUME NEW p \in Procs, TypeInv, ~Ended(procs[p]), procs[p].todo = {}, Advance(p, procs[p])
  PROVE  Follows(p, {})
  BY ProcFacts, AdvanceMoves DEF Goes, Follows

\* and with keys to call for.
LEMMA ReadMoves ==
  ASSUME NEW p \in Procs, TypeInv, ~Ended(procs[p]), NEW keys \in SUBSET AllKeys,
         Advance(p, [procs[p] EXCEPT !.todo = keys])
  PROVE  Follows(p, keys)
<1> DEFINE proc == [procs[p] EXCEPT !.todo = keys]
<1>1. /\ proc \in Proc /\ Goes(procs[p], proc) /\ proc.todo = keys /\ proc.adds = procs[p].adds
      /\ proc.row = procs[p].row /\ proc.key = procs[p].key /\ proc.limit = procs[p].limit
  BY ProcFacts DEF Proc, Goes
<1> HIDE DEF proc
<1> QED BY <1>1, AdvanceMoves DEF Follows, proc

\* What the statements that read hand to the calls.
KeysRead(p, keys) ==
    \/ Statement(p) = "readDevices" /\ keys = DeviceKeys(ScopeRows(p))
    \/ Statement(p) = "readConfigs" /\ keys = ScopeConfigs(p)
    \/ Statement(p) = "readPeers" /\ keys = UserConfigs(procs[p].user) \cap Awg
    \/ Statement(p) = "readRow" /\ keys = DeviceKeys({procs[p].row})
    \/ Statement(p) = "readConfig" /\ keys = {procs[p].config}
    \/ /\ Statement(p) = "readStale"
       /\ keys = DeviceKeys({r \in Rows : rows[r].stale /\ ~rows[r].blocked})

Reads(p) ==
    \/ ReadDevices(p) \/ ReadConfigs(p) \/ ReadPeers(p) \/ ReadRow(p) \/ ReadConfig(p)
    \/ ReadStale(p)

dataVars == <<accounts, configs, rows, served, peers, minted>>

\* A read changes the reader only.
LEMMA ReadEffect ==
  ASSUME TypeInv, NEW p \in Procs, Reads(p)
  PROVE  /\ UNCHANGED <<dataVars, made, disturbed>>
         /\ procs[p].todo = {}
         /\ \E keys \in SUBSET AllKeys : KeysRead(p, keys) /\ Follows(p, keys)
<1>1. PICK keys : KeysRead(p, keys) /\ Read(p, keys) /\ procs[p].todo = {}
  BY DEF Reads, ReadDevices, ReadConfigs, ReadPeers, ReadRow, ReadConfig, ReadStale, KeysRead, At
<1>2. keys \in SUBSET AllKeys
  <2>1. configs \subseteq AllKeys /\ \A S : DeviceKeys(S) \subseteq AllKeys
    BY DEF TypeInv, DataOK, AllKeys, DeviceKeys
  <2>2. procs[p].config \in AllKeys \/ Statement(p) # "readConfig"
    BY ProcFacts, Places DEF Shape, ConfigOps, AllKeys
  <2>3. ScopeConfigs(p) \subseteq configs /\ UserConfigs(procs[p].user) \subseteq configs
    BY DEF ScopeConfigs, UserConfigs
  <2> QED BY <1>1, <2>1, <2>2, <2>3 DEF KeysRead
<1>3. ~Ended(procs[p])
  BY <1>1, ProcFacts DEF KeysRead
<1>4. Advance(p, [procs[p] EXCEPT !.todo = keys])
  BY <1>1 DEF Read
<1>5. Follows(p, keys)
  BY <1>2, <1>3, <1>4, ReadMoves
<1> QED BY <1>1, <1>2, <1>5 DEF Read, dataVars

Calls(p, k) ==
    /\ k \in procs[p].todo
    /\ Others(p)
    /\ \/ /\ procs'[p].op = procs[p].op /\ procs'[p].user = procs[p].user
          /\ procs'[p].config = procs[p].config /\ procs'[p].inst = procs[p].inst
          /\ procs'[p].due = procs[p].due /\ procs'[p].step = procs[p].step
          /\ procs'[p].todo = procs[p].todo \ {k} /\ procs'[p].adds = procs[p].adds
          /\ procs'[p].row = procs[p].row /\ procs'[p].key = procs[p].key
          /\ procs'[p].limit = procs[p].limit
       \/ procs'[p] = Idle /\ procs[p].todo = {k} /\ Ended(procs[p])

\* A call leaves the other calls to make.
LEMMA CallEffect ==
  ASSUME TypeInv, NEW p \in Procs, NEW k \in procs[p].todo,
         Go(p, [procs[p] EXCEPT !.todo = @ \ {k}])
  PROVE  Calls(p, k)
<1> DEFINE proc == [procs[p] EXCEPT !.todo = @ \ {k}]
<1>1. /\ proc.op = procs[p].op /\ proc.user = procs[p].user /\ proc.step = procs[p].step
      /\ proc.due = procs[p].due /\ proc.config = procs[p].config /\ proc.inst = procs[p].inst
      /\ proc.row = procs[p].row /\ proc.adds = procs[p].adds /\ proc.limit = procs[p].limit
      /\ proc.todo = procs[p].todo \ {k} /\ proc.key = procs[p].key
  BY ProcFacts DEF Proc
<1>2. Others(p) /\ (procs'[p] = proc \/ (Ended(proc) /\ proc.todo = {} /\ procs'[p] = Idle))
  <2>1. Go(p, proc)
    OBVIOUS
  <2> HIDE DEF proc
  <2> QED BY <2>1, GoEffect
<1> HIDE DEF proc
<1> QED BY <1>1, <1>2 DEF Calls, Ended

-----------------------------------------------------------------------------
(* What a step does to the rows and to the keys.                            *)

AccountStep(p) ==
    \/ BeginDevice(p) \/ BeginRow(p) \/ BeginAccount(p) \/ BeginCreate(p) \/ BeginDelete(p)
    \/ BeginJob(p) \/ BeginRevoke(p) \/ SuspendNext(p)

Waits(p) == Gate(p) \/ Lock(p) \/ Check(p) \/ CountConfigs(p) \/ Refuse(p)

Loses(p) == SkipStatement(p) \/ CallFails(p) \/ CutOff(p)

WorldStep ==
    \/ \E r \in Rows : UnblockDevice(r) \/ GoStale(r)
    \/ \E c \in Configs : SetPeerEnabled(c)
    \/ \E u \in Users : UpdateDeviceLimit(u) \/ Lapse(u) \/ Renew(u)
    \/ XrayRestart

\* The steps of the system, by kind.
LEMMA Steps ==
  ASSUME [Next]_vars
  PROVE  \/ UNCHANGED vars
         \/ WorldStep
         \/ \E p \in Procs :
              \/ AccountStep(p) \/ Reads(p) \/ Waits(p) \/ Loses(p) \/ Call(p)
              \/ WipeDevices(p) \/ DeleteRow(p) \/ WipeStale(p) \/ BlockRow(p)
              \/ DropConfigs(p) \/ Toggle(p) \/ DropUser(p)
              \/ Lookup(p) \/ Register(p) \/ Store(p) \/ Visit(p) \/ Arm(p) \/ Insert(p)
  BY DEF Next, Procs, RequestBegins, RequestStep, JobStep, AccountStep, Waits, Loses, Reads,
         WorldStep

\* A row that appears is one no request knows, and only provisioning gives a row
\* a key: its own.
RowKept(r) ==
    \/ rows'[r] = NoRow
    \/ /\ rows[r] # NoRow /\ rows'[r] # NoRow /\ rows'[r].user = rows[r].user
       /\ rows'[r].key \in {rows[r].key, Null}
       /\ rows'[r].key \in Keys /\ rows'[r].blocked => rows[r].blocked

RowMade(p, r, key) ==
    /\ rows[r] = NoRow /\ \A q \in Procs : procs[q].row # r
    /\ procs[p].user \in Users
    /\ rows'[r].user = procs[p].user /\ rows'[r].key = key
    /\ ~rows'[r].blocked

RowKeyed(p, r) ==
    /\ procs[p].op = "provision" /\ procs[p].step = 5 /\ procs[p].row = r
    /\ rows[r] # NoRow /\ rows'[r].user = rows[r].user /\ rows'[r].key = procs[p].key
    /\ rows'[r].blocked = rows[r].blocked

\* What a step does to one row.
LEMMA RowEffect ==
  ASSUME TypeInv, [Next]_vars, NEW r \in Rows
  PROVE  \/ RowKept(r)
         \/ \E p \in Procs : Store(p) /\ (RowMade(p, r, procs[p].key) \/ RowKeyed(p, r))
         \/ \E p \in Procs : Visit(p) /\ RowMade(p, r, Null)
<1>0. TypeInv' /\ (rows[r] = NoRow \/ rows[r] \in DeviceRow)
  BY TypeStep DEF TypeInv, DataOK
<1>1. CASE rows' = rows
  BY <1>1 DEF RowKept
<1>2. ASSUME NEW p \in Procs, WipeDevices(p) \/ DeleteRow(p) \/ WipeStale(p) \/ DropUser(p)
      PROVE  RowKept(r)
  <2>1. rows'[r] \in {rows[r], NoRow}
    BY <1>2 DEF WipeDevices, DeleteRow, WipeStale, Wipe, DropUser
  <2> QED BY <2>1 DEF RowKept
<1>3. ASSUME NEW p \in Procs, BlockRow(p)
      PROVE  RowKept(r)
  <2>1. \/ rows'[r] = rows[r]
        \/ /\ rows[r] # NoRow /\ rows'[r].user = rows[r].user /\ rows'[r].key = Null
    BY <1>0, <1>3 DEF BlockRow, TypeInv, DataOK, DeviceRow
  <2> QED BY <2>1, <1>0, RowTypes, AccessConstants DEF RowKept, DeviceRow, NoRow
<1>4. ASSUME NEW p \in Procs, Lookup(p)
      PROVE  RowKept(r)
  <2>1. \/ rows'[r] = rows[r]
        \/ rows[r].user = procs[p].user /\ rows'[r] = [rows[r] EXCEPT !.stale = FALSE]
    BY <1>4 DEF Lookup, Matching, UserRows, TypeInv, DataOK
  <2>2. procs[p].user \in Users
    BY <1>4, ProcFacts, Places DEF Lookup, At, Shape
  <2> QED BY <2>1, <2>2, <1>0, RowTypes, AccessConstants DEF RowKept, DeviceRow, NoRow
<1>5. ASSUME NEW p \in Procs, Visit(p)
      PROVE  RowKept(r) \/ RowMade(p, r, Null)
  <2>1. procs[p].user \in Users
    BY <1>5, ProcFacts, Places DEF Visit, At, Shape
  <2>2. \/ rows'[r] = rows[r]
        \/ rows[r].user = procs[p].user /\ rows'[r] = [rows[r] EXCEPT !.stale = FALSE]
        \/ /\ rows[r] = NoRow /\ \A q \in Procs : procs[q].row # r
           /\ rows'[r] = [user |-> procs[p].user, inst |-> procs[p].inst, key |-> Null,
                          blocked |-> FALSE, stale |-> FALSE, counted |-> FALSE]
    BY <1>5 DEF Visit, NewRow, Matching, UserRows, TypeInv, DataOK
  <2> QED BY <2>1, <2>2, <1>0, RowTypes, AccessConstants DEF RowKept, RowMade, DeviceRow, NoRow
<1>6. ASSUME NEW p \in Procs, Store(p)
      PROVE  RowKept(r) \/ RowMade(p, r, procs[p].key) \/ RowKeyed(p, r)
  <2>1. procs[p].user \in Users /\ procs[p].op = "provision" /\ procs[p].step = 5
    BY <1>6, ProcFacts, Places DEF Store, At, Shape
  <2>2. \/ rows'[r] = rows[r]
        \/ /\ procs[p].row = r /\ rows[r] # NoRow
           /\ rows'[r].key = procs[p].key /\ rows'[r].user = rows[r].user
           /\ rows'[r].blocked = rows[r].blocked
        \/ /\ rows[r] = NoRow /\ \A q \in Procs : procs[q].row # r
           /\ rows'[r].user = procs[p].user /\ rows'[r].key = procs[p].key
           /\ ~rows'[r].blocked
    <3>1. CASE procs[p].row = Null
      BY <1>6, <3>1 DEF Store, NewRow, TypeInv, DataOK
    <3>2. CASE procs[p].row # Null
      <4>1. rows' = IF rows[procs[p].row] = NoRow THEN rows
                    ELSE [rows EXCEPT ![procs[p].row].key = procs[p].key,
                                      ![procs[p].row].stale = FALSE]
        BY <1>6, <3>2 DEF Store
      <4>2. CASE rows[procs[p].row] = NoRow \/ procs[p].row # r
        BY <4>1, <4>2 DEF TypeInv, DataOK
      <4>3. CASE rows[r] # NoRow /\ procs[p].row = r
        <5>1. rows'[r] = [rows[r] EXCEPT !.key = procs[p].key, !.stale = FALSE]
          BY <4>1, <4>3 DEF TypeInv, DataOK
        <5> QED BY <1>0, <4>3, <5>1 DEF DeviceRow
      <4> QED BY <4>2, <4>3
    <3> QED BY <3>1, <3>2
  <2> QED BY <2>1, <2>2, <1>0, RowTypes, AccessConstants
          DEF RowKept, RowMade, RowKeyed, DeviceRow, NoRow
<1>7. ASSUME NEW s \in Rows, UnblockDevice(s) \/ GoStale(s)
      PROVE  RowKept(r)
  <2>1. \/ rows'[r] = rows[r]
        \/ /\ rows[r] # NoRow /\ rows'[r].user = rows[r].user /\ rows'[r].key = rows[r].key
           /\ rows'[r].blocked => rows[r].blocked
    BY <1>0, <1>7 DEF UnblockDevice, GoStale, TypeInv, DataOK, DeviceRow
  <2> QED BY <2>1, <1>0, RowTypes, AccessConstants DEF RowKept, DeviceRow, NoRow
<1>8. ASSUME NEW p \in Procs,
             \/ AccountStep(p) \/ Reads(p) \/ Waits(p) \/ Loses(p) \/ Call(p)
             \/ DropConfigs(p) \/ Toggle(p) \/ Register(p) \/ Arm(p) \/ Insert(p)
      PROVE  rows' = rows
  <2>1. CASE AccountStep(p)
    BY <2>1 DEF AccountStep, BeginDevice, BeginRow, BeginAccount, BeginCreate, BeginDelete,
                BeginJob, BeginRevoke, SuspendNext
  <2>2. CASE Reads(p)
    BY <2>2, ReadEffect DEF dataVars
  <2>3. CASE ~AccountStep(p) /\ ~Reads(p)
    BY <1>8, <2>3 DEF Waits, Loses, Call, DropConfigs, Toggle, Register, Arm, Insert, Gate, Lock,
                      Check, CountConfigs, Refuse, SkipStatement, CallFails, CutOff
  <2> QED BY <2>1, <2>2, <2>3
<1>9. CASE WorldStep /\ rows' # rows
  BY <1>7, <1>9 DEF WorldStep, SetPeerEnabled, UpdateDeviceLimit, Lapse, Renew, XrayRestart
<1> QED BY <1>1, <1>2, <1>3, <1>4, <1>5, <1>6, <1>8, <1>9, Steps DEF vars

Touches(p, u) ==
    /\ procs[p].op # "idle"
    /\ \/ procs[p].user = u
       \/ procs[p].user = Null /\ procs[p].op # "suspend"
       \/ u \in procs[p].due

\* A new request, and an account it is about is disturbed or has nobody adding keys.
Begins(q) ==
    /\ Others(q) /\ procs[q].op = "idle" /\ procs'[q].op # "idle"
    /\ procs'[q].key = Null /\ procs'[q].todo = {}
    /\ procs'[q].op \in {"createConfig", "ensureConfig"} => procs'[q].config \in made'
    /\ procs'[q].row \in Rows =>
         /\ procs'[q].op # "suspend" /\ procs'[q].user \in Users
         /\ rows[procs'[q].row].user = procs'[q].user
    /\ \A u \in Users : Touches(q, u)' =>
         \/ u \in disturbed'
         \/ \A p \in Procs : Concerns(p, u) => {procs'[q].op, procs[p].op} \cap Adding = {}

Continues(q) ==
    /\ Others(q)
    /\ procs'[q].op = procs[q].op /\ procs'[q].config = procs[q].config
    /\ procs'[q].user = procs[q].user \/ procs[q].op = "suspend"
    /\ \A u \in Users : Touches(q, u)' => Touches(q, u)
    /\ procs'[q].key = procs[q].key \/ Register(q)
    /\ \/ procs'[q].row = procs[q].row
       \/ procs[q].op = "provision" /\ rows[procs'[q].row].user = procs[q].user
    /\ procs'[q].todo \subseteq procs[q].todo \/ Reads(q)
    /\ procs'[q].adds = procs[q].adds \/ procs'[q].todo = {}

\* A request that starts disturbs whom it overlaps,
LEMMA StartedBegins ==
  ASSUME TypeInv, NEW q \in Procs, procs[q].op = "idle",
         NEW op \in RequestOps \cup {"reconcile", "cleanup"}, NEW u \in Users \cup {Null},
         NEW c, NEW i, NEW r,
         procs' = [procs EXCEPT ![q] = Started(op, u, c, i, r)],
         disturbed \cup Overlapped(op, u) \subseteq disturbed',
         op \in {"createConfig", "ensureConfig"} => c \in made',
         r \in Rows => u \in Users /\ rows[r].user = u
  PROVE  Begins(q)
<1> DEFINE new == Started(op, u, c, i, r)
<1>1. procs'[q] = new /\ Others(q)
  BY DEF TypeInv, Others
<1>2. /\ new.op = op /\ new.user = u /\ new.key = Null /\ new.todo = {} /\ new.due = {}
      /\ new.config = c /\ new.row = r
  BY DEF Started, Idle
<1>3. op # "idle" /\ op # "suspend"
  BY DEF RequestOps
<1>4. ASSUME NEW v \in Users, Touches(q, v)', NEW p \in Procs, Concerns(p, v),
             {op, procs[p].op} \cap Adding # {}
      PROVE  v \in disturbed'
  <2>1. u \in {v, Null}
    <3> HIDE DEF new
    <3> QED BY <1>1, <1>2, <1>4 DEF Touches
  <2>2. v \in Overlapped(op, u)
    BY <1>4, <2>1 DEF Overlapped
  <2> QED BY <2>2
<1> HIDE DEF new
<1> QED BY <1>1, <1>2, <1>3, <1>4 DEF Begins

\* one that goes on disturbs nobody.
LEMMA FollowsContinues ==
  ASSUME NEW p \in Procs, NEW keys, TypeInv, Follows(p, keys), keys = {} \/ Reads(p)
  PROVE  procs'[p] = Idle \/ Continues(p)
  BY DEF Follows, Moves, Continues, Touches

\* How requests begin,
LEMMA BeginEffect ==
  ASSUME TypeInv, NEW p \in Procs,
         \/ BeginDevice(p) \/ BeginRow(p) \/ BeginAccount(p) \/ BeginCreate(p) \/ BeginDelete(p)
         \/ BeginJob(p)
  PROVE  Begins(p)
<1>1. configs \subseteq Configs /\ \A c \in Configs : OwnerOf[c] \in Users
  BY AccessConstants DEF TypeInv, DataOK
<1>2. CASE BeginDevice(p)
  <2>1. PICK op \in {"provision", "visit"}, c \in configs, i \in Installs :
           Start(p, op, OwnerOf[c], c, i, Null)
    BY <1>2 DEF BeginDevice
  <2> QED BY <1>1, <2>1, StartedBegins, AccessConstants DEF Start, RequestOps
<1>3. CASE BeginRow(p)
  <2>1. PICK op \in {"blockDevice", "deleteDevice"}, r \in Rows :
           rows[r] # NoRow /\ Start(p, op, rows[r].user, Null, Null, r)
    BY <1>3 DEF BeginRow
  <2> QED BY <2>1, RowTypes, StartedBegins DEF Start, RequestOps
<1>4. CASE BeginAccount(p)
  <2>1. PICK op \in {"resetSessions", "reset", "purge", "toggleBlock"}, u \in Users :
           Start(p, op, u, Null, Null, Null)
    BY <1>4 DEF BeginAccount
  <2> QED BY <2>1, StartedBegins, AccessConstants DEF Start, RequestOps
<1>5. CASE BeginCreate(p)
  <2>1. PICK c \in Configs \ made, op \in {"createConfig", "ensureConfig"} :
           /\ procs[p].op = "idle"
           /\ procs' = [procs EXCEPT ![p] = Started(op, OwnerOf[c], c, Null, Null)]
           /\ disturbed' = disturbed \cup Overlapped(op, OwnerOf[c])
                             \cup {v \in {OwnerOf[c]} : accounts[v].blocked}
           /\ made' = made \cup {c}
    BY <1>5 DEF BeginCreate
  <2> QED BY <1>1, <2>1, StartedBegins, AccessConstants DEF RequestOps
<1>6. CASE BeginDelete(p)
  <2>1. PICK op \in {"deleteAwg", "deleteVless"}, c \in configs :
           Start(p, op, OwnerOf[c], c, Null, Null)
    BY <1>6 DEF BeginDelete
  <2> QED BY <1>1, <2>1, StartedBegins, AccessConstants DEF Start, RequestOps
<1>7. CASE BeginJob(p)
  <2>1. p \in {"reconcile", "cleanup"} /\ Start(p, p, Null, Null, Null, Null)
    BY <1>7 DEF BeginJob
  <2> QED BY <2>1, StartedBegins, AccessConstants DEF Start, RequestOps
<1> QED BY <1>2, <1>3, <1>4, <1>5, <1>6, <1>7

\* how revokeExpiredSubs takes the next account,
LEMMA SuspendEffect ==
  ASSUME TypeInv, NEW p \in Procs, BeginRevoke(p) \/ SuspendNext(p)
  PROVE  Begins(p) \/ Continues(p)
<1>1. CASE BeginRevoke(p)
  <2>1. /\ procs'[p].op = "suspend" /\ procs'[p].user = Null /\ procs'[p].todo = {}
        /\ procs'[p].key = Null /\ procs'[p].row = Null /\ procs'[p].due = Due
        /\ Others(p) /\ procs[p].op = "idle"
    BY <1>1 DEF BeginRevoke, Idle, TypeInv, Others
  <2>2. ASSUME NEW u \in Users, Touches(p, u)', NEW q \in Procs, Concerns(q, u),
               {"suspend", procs[q].op} \cap Adding # {}
        PROVE  u \in disturbed'
    <3>1. u \in Due
      BY <2>1, <2>2, AccessConstants DEF Touches
    <3>2. Overlapped("suspend", u) # {}
      BY <2>2 DEF Overlapped
    <3> QED BY <1>1, <3>1, <3>2 DEF BeginRevoke
  <2> QED BY <2>1, <2>2, AccessConstants DEF Begins
<1>2. CASE SuspendNext(p)
  <2>1. PICK u \in procs[p].due :
          procs' = [procs EXCEPT ![p].user = u, ![p].step = 1, ![p].due = @ \ {u}]
    BY <1>2 DEF SuspendNext
  <2>2. procs'[p] = [procs[p] EXCEPT !.user = u, !.step = 1, !.due = @ \ {u}] /\ Others(p)
    BY <2>1 DEF TypeInv, Others
  <2>3. /\ procs'[p].op = procs[p].op /\ procs'[p].config = procs[p].config
        /\ procs'[p].user = u /\ procs'[p].due = procs[p].due \ {u}
        /\ procs'[p].key = procs[p].key /\ procs'[p].row = procs[p].row
        /\ procs'[p].todo = procs[p].todo /\ procs'[p].adds = procs[p].adds
    BY <2>2, ProcFacts DEF Proc
  <2>4. procs[p].op = "suspend" /\ u \in Users
    BY <2>1, ProcFacts DEF Shape, Proc
  <2> QED BY <2>1, <2>2, <2>3, <2>4, AccessConstants DEF Continues, Touches
<1> QED BY <1>1, <1>2

\* how a block is flipped,
LEMMA ToggleEffect ==
  ASSUME TypeInv, NEW p \in Procs, Toggle(p)
  PROVE  /\ procs[p].op = "toggleBlock" /\ procs[p].step = 1 /\ procs[p].user \in Users
         /\ Moves(p, {}, accounts[procs[p].user].blocked, procs[p].row, procs[p].key,
                  procs[p].limit)
<1> DEFINE blocked == accounts[procs[p].user].blocked
           proc    == [procs[p] EXCEPT !.adds = blocked]
<1>1. procs[p].op = "toggleBlock" /\ procs[p].step = 1 /\ procs[p].todo = {}
  BY ProcFacts, Places DEF Toggle, At
<1>2. procs[p].user \in Users
  BY <1>1, ProcFacts DEF Shape
<1>3. blocked \in BOOLEAN
  BY <1>2 DEF TypeInv, DataOK, Account
<1>4. /\ proc \in Proc /\ Goes(procs[p], proc) /\ proc.todo = {} /\ proc.adds = blocked
      /\ proc.row = procs[p].row /\ proc.key = procs[p].key /\ proc.limit = procs[p].limit
  <2> HIDE DEF blocked
  <2> QED BY <1>1, <1>3, ProcFacts DEF Proc, Goes
<1>5. ~Ended(procs[p]) /\ Advance(p, proc)
  BY ProcFacts DEF Toggle, At
<1>6. Moves(p, {}, blocked, procs[p].row, procs[p].key, procs[p].limit)
  <2> HIDE DEF proc, blocked
  <2> QED BY <1>4, <1>5, AdvanceMoves
<1> QED BY <1>1, <1>2, <1>6

\* how provisioning reads the limit,
LEMMA GateEffect ==
  ASSUME TypeInv, NEW p \in Procs, Gate(p)
  PROVE  /\ procs[p].op = "provision" /\ procs[p].step = 1 /\ procs[p].user \in Users
         /\ Moves(p, {}, procs[p].adds, procs[p].row, procs[p].key,
                  accounts[procs[p].user].limit)
<1> DEFINE limit == accounts[procs[p].user].limit
           proc  == [procs[p] EXCEPT !.limit = limit]
<1>1. procs[p].op = "provision" /\ procs[p].step = 1 /\ procs[p].todo = {}
  BY ProcFacts, Places DEF Gate, At
<1>2. procs[p].user \in Users
  BY <1>1, ProcFacts DEF Shape
<1>3. limit \in Limits
  BY <1>2 DEF TypeInv, DataOK, Account
<1>4. /\ proc \in Proc /\ Goes(procs[p], proc) /\ proc.todo = {} /\ proc.limit = limit
      /\ proc.row = procs[p].row /\ proc.key = procs[p].key /\ proc.adds = procs[p].adds
  <2> HIDE DEF limit
  <2> QED BY <1>1, <1>3, ProcFacts DEF Proc, Goes
<1>5. ~Ended(procs[p]) /\ Advance(p, proc)
  BY ProcFacts DEF Gate, At
<1>6. Moves(p, {}, procs[p].adds, procs[p].row, procs[p].key, limit)
  <2> HIDE DEF proc, limit
  <2> QED BY <1>4, <1>5, AdvanceMoves
<1> QED BY <1>1, <1>2, <1>6

\* finds the row,
LEMMA LookupEffect ==
  ASSUME TypeInv, NEW p \in Procs, Lookup(p)
  PROVE  /\ procs[p].op = "provision" /\ procs[p].step = 2 /\ procs[p].user \in Users
         /\ \/ procs' = [procs EXCEPT ![p] = Idle]
            \/ \E r \in Matching(p) :
                  /\ ~rows[r].blocked /\ rows[r].key = Null
                  /\ Moves(p, {}, procs[p].adds, r, procs[p].key, procs[p].limit)
            \/ Follows(p, {})
<1>1. /\ procs[p].op = "provision" /\ procs[p].step = 2 /\ procs[p].todo = {}
      /\ ~Ended(procs[p])
  BY ProcFacts, Places DEF Lookup, At
<1>2. procs[p].user \in Users
  BY <1>1, ProcFacts DEF Shape
<1>3. ASSUME NEW r \in Matching(p), Advance(p, [procs[p] EXCEPT !.row = r])
      PROVE  Moves(p, {}, procs[p].adds, r, procs[p].key, procs[p].limit)
  <2> DEFINE proc == [procs[p] EXCEPT !.row = r]
  <2>1. r \in Rows
    BY DEF Matching, UserRows
  <2>2. /\ proc \in Proc /\ Goes(procs[p], proc) /\ proc.todo = {} /\ proc.row = r
        /\ proc.limit = procs[p].limit /\ proc.key = procs[p].key /\ proc.adds = procs[p].adds
    BY <1>1, <2>1, ProcFacts DEF Proc, Goes
  <2> HIDE DEF proc
  <2> QED BY <1>1, <1>3, <2>2, AdvanceMoves DEF proc
<1>4. Advance(p, procs[p]) => Follows(p, {})
  BY <1>1, SameMoves
<1> QED BY <1>1, <1>2, <1>3, <1>4 DEF Lookup

\* and mints a key.
LEMMA RegisterEffect ==
  ASSUME TypeInv, NEW p \in Procs, Register(p)
  PROVE  /\ procs[p].op = "provision" /\ procs[p].step = 4 /\ procs[p].user \in Users
         /\ \E k \in Keys, key \in AllKeys \cup {Null} :
              /\ minted[k] = Null /\ minted' = [minted EXCEPT ![k] = procs[p].user]
              /\ served' \in {served, served \cup {k}}
              /\ key = k \/ (key \notin Keys /\ procs[p].user \in disturbed')
              /\ Moves(p, {}, procs[p].adds, procs[p].row, key, procs[p].limit)
<1>1. /\ procs[p].op = "provision" /\ procs[p].step = 4 /\ procs[p].todo = {}
      /\ ~Ended(procs[p])
  BY ProcFacts, Places DEF Register, At
<1>2. procs[p].user \in Users /\ procs[p].config \in Configs
  BY <1>1, ProcFacts DEF Shape, ConfigOps
<1>3. ASSUME NEW key \in AllKeys \cup {Null}, Advance(p, [procs[p] EXCEPT !.key = key])
      PROVE  Moves(p, {}, procs[p].adds, procs[p].row, key, procs[p].limit)
  <2> DEFINE proc == [procs[p] EXCEPT !.key = key]
  <2>1. /\ proc \in Proc /\ Goes(procs[p], proc) /\ proc.todo = {} /\ proc.key = key
        /\ proc.limit = procs[p].limit /\ proc.row = procs[p].row /\ proc.adds = procs[p].adds
    BY <1>1, ProcFacts DEF Proc, Goes
  <2> HIDE DEF proc
  <2> QED BY <1>1, <1>3, <2>1, AdvanceMoves DEF proc
<1>4. PICK k \in Keys :
        /\ minted[k] = Null /\ minted' = [minted EXCEPT ![k] = procs[p].user]
        /\ served' \in {served, served \cup {k}}
        /\ \/ Advance(p, [procs[p] EXCEPT !.key = k])
           \/ /\ Advance(p, [procs[p] EXCEPT !.key = IF procs[p].config \in Awg THEN Null
                                                     ELSE procs[p].config])
              /\ procs[p].user \in disturbed'
  BY DEF Register
<1>5. CASE Advance(p, [procs[p] EXCEPT !.key = k])
  BY <1>1, <1>2, <1>3, <1>4, <1>5 DEF AllKeys
<1>6. CASE ~Advance(p, [procs[p] EXCEPT !.key = k])
  <2>1. PICK key \in {Null, procs[p].config} :
          Advance(p, [procs[p] EXCEPT !.key = key]) /\ procs[p].user \in disturbed'
    BY <1>4, <1>6
  <2>2. key \in AllKeys \cup {Null} /\ key \notin Keys
    BY <1>2, <2>1, AccessConstants DEF AllKeys
  <2> QED BY <1>1, <1>2, <1>3, <1>4, <2>1, <2>2
<1> QED BY <1>5, <1>6

\* A step changes one request: it begins, goes on or ends.
LEMMA ProcEffect ==
  ASSUME TypeInv, [Next]_vars
  PROVE  \/ procs' = procs
         \/ \E p \in Procs : \/ Others(p) /\ procs'[p] = Idle
                             \/ Begins(p)
                             \/ Continues(p)
<1>1. CASE UNCHANGED vars \/ WorldStep
  BY <1>1 DEF vars, WorldStep, UnblockDevice, GoStale, SetPeerEnabled, UpdateDeviceLimit, Lapse,
              Renew, XrayRestart
<1> SUFFICES ASSUME NEW p \in Procs,
                    \/ AccountStep(p) \/ Reads(p) \/ Waits(p) \/ Loses(p) \/ Call(p)
                    \/ WipeDevices(p) \/ DeleteRow(p) \/ WipeStale(p) \/ BlockRow(p)
                    \/ DropConfigs(p) \/ Toggle(p) \/ DropUser(p)
                    \/ Lookup(p) \/ Register(p) \/ Store(p) \/ Visit(p) \/ Arm(p) \/ Insert(p)
             PROVE  (Others(p) /\ procs'[p] = Idle) \/ Begins(p) \/ Continues(p)
  BY <1>1, Steps
<1> DEFINE Fine == (Others(p) /\ procs'[p] = Idle) \/ Begins(p) \/ Continues(p)
<1>2. CASE AccountStep(p)
  BY <1>2, BeginEffect, SuspendEffect DEF AccountStep
<1>3. CASE Reads(p)
  <2>1. PICK keys : Follows(p, keys)
    BY <1>3, ReadEffect
  <2> QED BY <1>3, <2>1, FollowsContinues DEF Follows, Moves
<1>4. ASSUME procs' = [procs EXCEPT ![p] = Idle]
      PROVE  Fine
  BY <1>4 DEF TypeInv, Others
<1>5. ASSUME Advance(p, procs[p]), Statement(p) # "end", procs[p].todo = {}
      PROVE  Fine
  <2>1. Follows(p, {})
    BY <1>5, ProcFacts, SameMoves
  <2> QED BY <2>1, FollowsContinues DEF Follows, Moves
<1>6. CASE Call(p) \/ CallFails(p)
  <2>1. PICK k \in procs[p].todo : Go(p, [procs[p] EXCEPT !.todo = @ \ {k}])
    BY <1>6 DEF Call, CallFails
  <2>2. Calls(p, k)
    BY <2>1, CallEffect
  <2> QED BY <2>2 DEF Calls, Continues, Touches
<1>7. CASE SkipStatement(p) \/ CutOff(p)
  BY <1>4, <1>5, <1>7 DEF SkipStatement, CutOff, At
<1>8. CASE \/ WipeDevices(p) \/ DeleteRow(p) \/ WipeStale(p) \/ BlockRow(p) \/ DropConfigs(p)
           \/ DropUser(p)
  BY <1>5, <1>8 DEF WipeDevices, DeleteRow, WipeStale, Wipe, BlockRow, DropConfigs, DropUser, At
<1>9. CASE Store(p) \/ Visit(p)
  BY <1>4, <1>5, <1>9 DEF Store, Visit, At
<1>10. CASE Arm(p) \/ Insert(p) \/ Refuse(p) \/ Lock(p) \/ Check(p) \/ CountConfigs(p)
  BY <1>4, <1>5, <1>10 DEF Arm, Insert, Refuse, Lock, Check, CountConfigs, At
<1>11. CASE Toggle(p)
  <2>1. Moves(p, {}, accounts[procs[p].user].blocked, procs[p].row, procs[p].key, procs[p].limit)
    BY <1>11, ToggleEffect
  <2> QED BY <2>1 DEF Moves, Continues, Touches
<1>12. CASE Gate(p)
  <2>1. Moves(p, {}, procs[p].adds, procs[p].row, procs[p].key, accounts[procs[p].user].limit)
    BY <1>12, GateEffect
  <2> QED BY <2>1 DEF Moves, Continues, Touches
<1>13. CASE Lookup(p)
  <2>1. CASE Follows(p, {})
    BY <2>1, FollowsContinues DEF Follows, Moves
  <2>2. CASE \E r \in Matching(p) :
                Moves(p, {}, procs[p].adds, r, procs[p].key, procs[p].limit)
    <3>1. procs[p].op = "provision"
      BY <1>13, ProcFacts, Places DEF Lookup, At
    <3> QED BY <2>2, <3>1 DEF Moves, Continues, Touches, Matching, UserRows
  <2> QED BY <1>4, <1>13, <2>1, <2>2, LookupEffect
<1>14. CASE Register(p)
  <2>1. PICK key : Moves(p, {}, procs[p].adds, procs[p].row, key, procs[p].limit)
    BY <1>14, RegisterEffect
  <2> QED BY <1>14, <2>1 DEF Moves, Continues, Touches
<1> QED BY <1>2, <1>3, <1>6, <1>7, <1>8, <1>9, <1>10, <1>11, <1>12, <1>13, <1>14 DEF Waits, Loses

\* Only registering mints.
LEMMA MintedEffect ==
  ASSUME TypeInv, [Next]_vars
  PROVE  \/ minted' = minted
         \/ \E p \in Procs : Register(p)
<1>1. ASSUME NEW p \in Procs, AccountStep(p) \/ Reads(p)
      PROVE  minted' = minted
  <2>1. CASE AccountStep(p)
    BY <2>1 DEF AccountStep, BeginDevice, BeginRow, BeginAccount, BeginCreate, BeginDelete,
                BeginJob, BeginRevoke, SuspendNext
  <2>2. CASE Reads(p)
    BY <2>2, ReadEffect DEF dataVars
  <2> QED BY <1>1, <2>1, <2>2
<1>2. ASSUME NEW p \in Procs,
             \/ Waits(p) \/ Loses(p) \/ Call(p)
             \/ WipeDevices(p) \/ DeleteRow(p) \/ WipeStale(p) \/ BlockRow(p)
             \/ DropConfigs(p) \/ Toggle(p) \/ DropUser(p)
             \/ Lookup(p) \/ Store(p) \/ Visit(p) \/ Arm(p) \/ Insert(p)
      PROVE  minted' = minted
  BY <1>2 DEF Waits, Loses, Call, DropConfigs, Toggle, Arm, Insert, Gate, Lock, Check,
     CountConfigs, Refuse, SkipStatement, CallFails, CutOff, WipeDevices, DeleteRow, WipeStale,
     Wipe, BlockRow, DropUser, Lookup, Store, Visit
<1>3. CASE WorldStep
  BY <1>3 DEF WorldStep, SetPeerEnabled, UpdateDeviceLimit, Lapse, Renew, XrayRestart,
     UnblockDevice, GoStale
<1> QED BY <1>1, <1>2, <1>3, Steps DEF vars

-----------------------------------------------------------------------------
(* Whom keys, calls and rows belong to.                                     *)

\* A minted key is its account's: in the row that has it, in the request that
\* stores it and among the calls of a request that restores keys.  A row that a
\* request knows is gone or still of the request's account.
RowsOwn == \A r \in Rows : rows[r].key \in Keys => minted[rows[r].key] = rows[r].user

KeysOwn ==
    \A p \in Procs : procs[p].key \in Keys =>
      procs[p].op = "provision" /\ minted[procs[p].key] = procs[p].user

TodoOwn ==
    \A p \in Procs : procs[p].op = "toggleBlock" /\ procs[p].adds =>
      \A k \in procs[p].todo : Belongs(k, procs[p].user)

RowsKnown ==
    \A p \in Procs, r \in Rows : procs[p].row = r =>
      procs[p].op # "suspend" /\ (rows[r] = NoRow \/ rows[r].user = procs[p].user)

ConfigsMade ==
    /\ configs \subseteq made
    /\ \A p \in Procs : procs[p].op \in {"createConfig", "ensureConfig"} =>
         procs[p].config \in made

Owns == TypeInv /\ RowsOwn /\ KeysOwn /\ TodoOwn /\ RowsKnown /\ ConfigsMade

\* Everything belongs to its account initially,
LEMMA OwnStart ==
  ASSUME Init
  PROVE  Owns
<1>1. TypeInv
  BY TypeStart
<1> QED BY <1>1, AccessConstants
        DEF Init, Owns, RowsOwn, KeysOwn, TodoOwn, RowsKnown, ConfigsMade, NoRow, Idle

\* Minting takes a key that nobody has.
LEMMA MintFresh ==
  ASSUME TypeInv, NEW p \in Procs, Register(p), NEW k \in Keys, minted[k] # Null
  PROVE  minted'[k] = minted[k]
  BY RegisterEffect DEF TypeInv, DataOK

\* the keys of rows stay their account's,
LEMMA RowsOwnStep ==
  ASSUME Owns, [Next]_vars
  PROVE  RowsOwn'
<1> SUFFICES ASSUME NEW r \in Rows, rows'[r].key \in Keys
             PROVE  minted'[rows'[r].key] = rows'[r].user
  BY DEF RowsOwn
<1>0. TypeInv
  BY DEF Owns
<1>1. rows'[r] # NoRow
  BY AccessConstants DEF NoRow
<1>2. minted[rows'[r].key] = rows'[r].user /\ rows'[r].user \in Users
  <2>1. CASE RowKept(r)
    BY <1>0, <1>1, <2>1, RowTypes, AccessConstants DEF RowKept, Owns, RowsOwn
  <2>2. ASSUME NEW p \in Procs, RowMade(p, r, procs[p].key) \/ RowMade(p, r, Null)
        PROVE  minted[rows'[r].key] = rows'[r].user /\ rows'[r].user \in Users
    BY <2>2, AccessConstants DEF RowMade, Owns, KeysOwn
  <2>3. ASSUME NEW p \in Procs, RowKeyed(p, r)
        PROVE  minted[rows'[r].key] = rows'[r].user /\ rows'[r].user \in Users
    BY <1>0, <2>3, RowTypes DEF RowKeyed, Owns, KeysOwn, RowsKnown
  <2> QED BY <1>0, <2>1, <2>2, <2>3, RowEffect
<1>3. minted[rows'[r].key] # Null
  BY <1>2, AccessConstants
<1> QED BY <1>0, <1>2, <1>3, MintedEffect, MintFresh

\* so do the keys that are about to be stored,
LEMMA KeysOwnStep ==
  ASSUME Owns, [Next]_vars
  PROVE  KeysOwn'
<1> SUFFICES ASSUME NEW q \in Procs, procs'[q].key \in Keys
             PROVE  procs'[q].op = "provision" /\ minted'[procs'[q].key] = procs'[q].user
  BY DEF KeysOwn
<1>0. TypeInv
  BY DEF Owns
<1>1. ASSUME procs[q].key \in Keys
      PROVE  procs[q].op = "provision" /\ minted'[procs[q].key] = procs[q].user
  <2>1. procs[q].op = "provision" /\ minted[procs[q].key] = procs[q].user
    BY <1>1 DEF Owns, KeysOwn
  <2>2. procs[q].user # Null
    BY <1>0, <2>1, ProcFacts, AccessConstants DEF Shape
  <2> QED BY <1>0, <1>1, <2>1, <2>2, MintedEffect, MintFresh
<1>2. CASE procs'[q] = procs[q]
  BY <1>1, <1>2
<1>3. CASE procs'[q] = Idle \/ Begins(q)
  BY <1>3, AccessConstants DEF Idle, Begins
<1>4. CASE Continues(q) /\ procs'[q].key = procs[q].key
  BY <1>1, <1>4 DEF Continues
<1>5. CASE Register(q)
  BY <1>0, <1>5, RegisterEffect, AccessConstants DEF Moves, Idle, TypeInv, DataOK
<1> QED BY <1>0, <1>2, <1>3, <1>4, <1>5, ProcEffect DEF Others, Continues, Begins


\* What a key belongs to does not change.
LEMMA BelongsStays ==
  ASSUME TypeInv, [Next]_vars, NEW k, k \in AllKeys, NEW u \in Users, Belongs(k, u)
  PROVE  Belongs(k, u)'
<1>1. CASE k \in Configs
  BY <1>1 DEF Belongs
<1>2. CASE k \notin Configs
  <2>1. k \in Keys /\ minted[k] = u /\ u # Null
    BY <1>2, AccessConstants DEF Belongs, AllKeys
  <2>2. minted'[k] = u
    BY <2>1, MintedEffect, MintFresh
  <2> QED BY <1>2, <2>2 DEF Belongs
<1> QED BY <1>1, <1>2

\* The keys a handler about one account reads are the account's.
LEMMA ReadsOwn ==
  ASSUME TypeInv, RowsOwn, NEW p \in Procs, NEW keys, KeysRead(p, keys),
         procs[p].op \in {"toggleBlock", "resetSessions", "suspend", "reset", "purge"},
         procs[p].user \in Users
  PROVE  \A k \in keys : Belongs(k, procs[p].user)
<1> SUFFICES ASSUME NEW k \in keys
             PROVE  Belongs(k, procs[p].user)
  OBVIOUS
<1>1. CASE Statement(p) = "readDevices"
  <2>1. keys = DeviceKeys(UserRows(procs[p].user))
    BY <1>1 DEF KeysRead, ScopeRows, RowsOf
  <2>2. PICK r \in Rows : rows[r].user = procs[p].user /\ rows[r].key = k /\ k \in Keys
    BY <2>1 DEF DeviceKeys, UserRows
  <2> QED BY <2>2, AccessConstants DEF RowsOwn, Belongs
<1>2. CASE Statement(p) # "readDevices"
  <2>1. keys \subseteq UserConfigs(procs[p].user)
    <3>1. Statement(p) \in {"readConfigs", "readPeers"}
      BY <1>2, ProcFacts, Places DEF KeysRead
    <3> QED BY <3>1 DEF KeysRead, ScopeConfigs
  <2>2. k \in Configs /\ OwnerOf[k] = procs[p].user
    BY <2>1 DEF UserConfigs, TypeInv, DataOK
  <2> QED BY <2>2 DEF Belongs
<1> QED BY <1>1, <1>2

\* so do the calls of a request that restores keys,
LEMMA TodoOwnStep ==
  ASSUME Owns, [Next]_vars
  PROVE  TodoOwn'
<1> SUFFICES ASSUME NEW q \in Procs, procs'[q].op = "toggleBlock", procs'[q].adds,
                    NEW k \in procs'[q].todo
             PROVE  Belongs(k, procs[q].user)'
  BY DEF TodoOwn
<1>0. TypeInv
  BY DEF Owns
<1>1. ASSUME procs[q].op = "toggleBlock", procs'[q].user = procs[q].user,
             Belongs(k, procs[q].user), k \in AllKeys
      PROVE  Belongs(k, procs[q].user)'
  <2>1. procs[q].user \in Users
    BY <1>0, <1>1, ProcFacts DEF Shape
  <2>2. \A u \in Users : Belongs(k, u) => Belongs(k, u)'
    BY <1>0, <1>1, BelongsStays
  <2> QED BY <1>1, <2>1, <2>2 DEF Belongs
<1>2. CASE procs'[q] = procs[q]
  <2>1. k \in AllKeys /\ Belongs(k, procs[q].user)
    BY <1>0, <1>2, ProcFacts DEF Owns, TodoOwn, Proc
  <2> QED BY <1>1, <1>2, <2>1
<1>3. CASE procs'[q] = Idle \/ Begins(q)
  BY <1>3 DEF Idle, Begins
<1>4. CASE Continues(q)
  <2>1. /\ procs[q].op = "toggleBlock" /\ procs'[q].user = procs[q].user
        /\ procs'[q].adds = procs[q].adds
    BY <1>4 DEF Continues
  <2>2. procs[q].user \in Users
    BY <1>0, <2>1, ProcFacts DEF Shape
  <2>3. CASE procs'[q].todo \subseteq procs[q].todo
    <3>1. k \in AllKeys /\ Belongs(k, procs[q].user)
      BY <1>0, <2>1, <2>3, ProcFacts DEF Owns, TodoOwn, Proc
    <3> QED BY <1>1, <2>1, <3>1
  <2>4. CASE Reads(q)
    <3>1. PICK keys \in SUBSET AllKeys : KeysRead(q, keys) /\ Follows(q, keys)
      BY <1>0, <2>4, ReadEffect
    <3>2. k \in keys
      <4>1. procs'[q] # Idle
        BY <2>1, <1>4 DEF Continues, Idle
      <4>2. procs'[q].todo = keys
        BY <3>1, <4>1 DEF Follows, Moves
      <4> QED BY <4>2
    <3>3. Belongs(k, procs[q].user)
      BY <1>0, <2>1, <2>2, <3>1, <3>2, ReadsOwn DEF Owns
    <3> QED BY <1>1, <2>1, <3>1, <3>2, <3>3
  <2> QED BY <1>4, <2>3, <2>4 DEF Continues
<1> QED BY <1>0, <1>2, <1>3, <1>4, ProcEffect DEF Others, Continues, Begins

\* and the rows that requests know.
LEMMA RowsKnownStep ==
  ASSUME Owns, [Next]_vars
  PROVE  RowsKnown'
<1> SUFFICES ASSUME NEW q \in Procs, NEW r \in Rows, procs'[q].row = r
             PROVE  procs'[q].op # "suspend" /\ (rows'[r] = NoRow \/ rows'[r].user = procs'[q].user)
  BY DEF RowsKnown
<1>0. TypeInv
  BY DEF Owns
<1>1. ASSUME procs[q].row = r, procs'[q].user = procs[q].user, procs'[q].op = procs[q].op
      PROVE  procs'[q].op # "suspend" /\ (rows'[r] = NoRow \/ rows'[r].user = procs'[q].user)
  <2>1. rows'[r] = NoRow \/ (rows[r] # NoRow /\ rows'[r].user = rows[r].user)
    BY <1>0, <1>1, RowEffect DEF RowKept, RowMade, RowKeyed
  <2> QED BY <1>1, <2>1 DEF Owns, RowsKnown
<1>2. CASE procs'[q] = Idle
  BY <1>2, AccessConstants DEF Idle
<1>3. ASSUME rows[r].user = procs'[q].user, procs'[q].user \in Users
      PROVE  rows'[r] = NoRow \/ rows'[r].user = procs'[q].user
  <2>1. rows[r] # NoRow
    BY <1>3, <1>0, RowTypes
  <2> QED BY <1>0, <1>3, <2>1, RowEffect DEF RowKept, RowMade, RowKeyed
<1>4. CASE Begins(q)
  <2>1. procs'[q].op # "suspend" /\ rows[r].user = procs'[q].user
    BY <1>4 DEF Begins
  <2> QED BY <1>3, <1>4, <2>1 DEF Begins
<1>5. CASE Continues(q)
  <2>1. CASE procs[q].row = r /\ procs'[q].user = procs[q].user
    BY <1>1, <1>5, <2>1 DEF Continues
  <2>2. CASE procs[q].row = r /\ procs[q].op = "suspend"
    BY <2>2 DEF Owns, RowsKnown
  <2>3. CASE procs[q].row # r
    <3>1. procs[q].op = "provision" /\ rows[r].user = procs[q].user
      BY <1>5, <2>3 DEF Continues
    <3>2. procs'[q].user = procs[q].user /\ procs[q].user \in Users
      BY <1>0, <1>5, <3>1, ProcFacts DEF Continues, Shape
    <3> QED BY <1>3, <1>5, <3>1, <3>2 DEF Continues
  <2> QED BY <1>5, <2>1, <2>2, <2>3 DEF Continues
<1>6. CASE procs'[q] = procs[q]
  BY <1>1, <1>6
<1> QED BY <1>0, <1>2, <1>4, <1>5, <1>6, ProcEffect DEF Others, Continues, Begins

\* Configs are made before they are active.
LEMMA ConfigsMadeStep ==
  ASSUME Owns, [Next]_vars
  PROVE  ConfigsMade'
<1>0. TypeInv
  BY DEF Owns
<1>1. made \subseteq made'
  <2>1. CASE UNCHANGED vars \/ WorldStep
    BY <2>1 DEF vars, WorldStep, SetPeerEnabled, UpdateDeviceLimit, Lapse, Renew, XrayRestart,
                UnblockDevice, GoStale
  <2>2. ASSUME NEW p \in Procs, AccountStep(p) \/ Reads(p)
        PROVE  made \subseteq made'
    BY <1>0, <2>2, ReadEffect DEF AccountStep, BeginDevice, BeginRow, BeginAccount, BeginCreate,
       BeginDelete, BeginJob, BeginRevoke, SuspendNext
  <2>3. ASSUME NEW p \in Procs,
               \/ Waits(p) \/ Loses(p) \/ Call(p)
               \/ WipeDevices(p) \/ DeleteRow(p) \/ WipeStale(p) \/ BlockRow(p)
               \/ DropConfigs(p) \/ Toggle(p) \/ DropUser(p)
               \/ Lookup(p) \/ Register(p) \/ Store(p) \/ Visit(p) \/ Arm(p) \/ Insert(p)
        PROVE  made' = made
    BY <2>3 DEF Waits, Loses, Call, DropConfigs, Toggle, Arm, Insert, Gate, Lock, Check,
       CountConfigs, Refuse, SkipStatement, CallFails, CutOff, WipeDevices, DeleteRow, WipeStale,
       Wipe, BlockRow, DropUser, Lookup, Register, Store, Visit
  <2> QED BY <2>1, <2>2, <2>3, Steps
<1>2. configs' \subseteq made
  <2>1. CASE UNCHANGED vars \/ WorldStep
    BY <2>1 DEF vars, WorldStep, SetPeerEnabled, UpdateDeviceLimit, Lapse, Renew, XrayRestart,
                UnblockDevice, GoStale, Owns, ConfigsMade
  <2>2. ASSUME NEW p \in Procs, AccountStep(p) \/ Reads(p)
        PROVE  configs' \subseteq made
    BY <1>0, <2>2, ReadEffect DEF AccountStep, BeginDevice, BeginRow, BeginAccount, BeginCreate,
       BeginDelete, BeginJob, BeginRevoke, SuspendNext, dataVars, Owns, ConfigsMade
  <2>3. ASSUME NEW p \in Procs,
               \/ Waits(p) \/ Loses(p) \/ Call(p)
               \/ WipeDevices(p) \/ DeleteRow(p) \/ WipeStale(p) \/ BlockRow(p)
               \/ DropConfigs(p) \/ Toggle(p) \/ DropUser(p)
               \/ Lookup(p) \/ Register(p) \/ Store(p) \/ Visit(p) \/ Arm(p)
        PROVE  configs' \subseteq configs
    BY <2>3 DEF Waits, Loses, Call, DropConfigs, Toggle, Arm, Gate, Lock, Check,
       CountConfigs, Refuse, SkipStatement, CallFails, CutOff, WipeDevices, DeleteRow, WipeStale,
       Wipe, BlockRow, DropUser, Lookup, Register, Store, Visit
  <2>4. ASSUME NEW p \in Procs, Insert(p)
        PROVE  configs' \subseteq made
    <3>1. procs[p].config \in made
      BY <1>0, <2>4, ProcFacts, Places DEF Insert, At, Owns, ConfigsMade
    <3> QED BY <2>4, <3>1 DEF Insert, Owns, ConfigsMade
  <2> QED BY <2>1, <2>2, <2>3, <2>4, Steps DEF Owns, ConfigsMade
<1>3. ASSUME NEW q \in Procs, procs'[q].op \in {"createConfig", "ensureConfig"}
      PROVE  procs'[q].config \in made'
  <2>1. CASE procs'[q].op = procs[q].op /\ procs'[q].config = procs[q].config
    BY <1>1, <1>3, <2>1 DEF Owns, ConfigsMade
  <2>2. CASE procs'[q] = Idle \/ Begins(q)
    BY <1>3, <2>2 DEF Idle, Begins
  <2> QED BY <1>0, <2>1, <2>2, ProcEffect DEF Others, Continues, Begins
<1> QED BY <1>1, <1>2, <1>3 DEF ConfigsMade

\* Ownership is inductive.
LEMMA OwnsStep ==
  ASSUME Owns, [Next]_vars
  PROVE  Owns'
<1>1. TypeInv'
  BY TypeStep DEF Owns
<1> QED BY <1>1, RowsOwnStep, KeysOwnStep, TodoOwnStep, RowsKnownStep, ConfigsMadeStep DEF Owns

\* Every reachable state has the types of TypeOK: the tables, the servers and the
\* requests in progress, wherever their scripts were cut off (handlers, cron.go).
THEOREM TypeCorrect == Spec => []TypeOK
<1>1. Init => Owns
  BY OwnStart
<1>2. Owns /\ [Next]_vars => Owns'
  BY OwnsStep
<1>3. Owns => TypeOK
  BY DEF Owns, TypeInv, DataOK, ConfigsMade, TypeOK
<1> QED BY <1>1, <1>2, <1>3, PTL DEF Spec

-----------------------------------------------------------------------------
(* An account that nothing disturbed.                                       *)

\* No two requests are about the account if one of them may add keys.
Alone(u) ==
    \A p, q \in Procs : p # q /\ Touches(p, u) /\ Touches(q, u) => procs[p].op \notin Adding

\* An account that is not disturbed has one adding request, and nothing beside it.
LEMMA AloneStep ==
  ASSUME TypeInv, [Next]_vars, NEW u \in Users, u \notin disturbed', Alone(u)
  PROVE  Alone(u)'
<1>1. ASSUME NEW q \in Procs, Others(q), procs'[q] = Idle \/ Continues(q)
      PROVE  Alone(u)'
  <2>1. \A p \in Procs : Touches(p, u)' => Touches(p, u) /\ procs'[p].op = procs[p].op
    BY <1>1 DEF Others, Touches, Idle, Continues
  <2> QED BY <2>1 DEF Alone
<1>2. ASSUME NEW q \in Procs, Begins(q)
      PROVE  Alone(u)'
  <2>1. \A p \in Procs \ {q} : procs'[p] = procs[p] /\ (Touches(p, u)' <=> Touches(p, u))
    BY <1>2 DEF Begins, Others, Touches
  <2>2. \A p \in Procs \ {q} : Touches(p, u) /\ Touches(q, u)' =>
          {procs'[q].op, procs[p].op} \cap Adding = {}
    BY <1>2 DEF Begins, Touches, Concerns
  <2> QED BY <2>1, <2>2 DEF Alone
<1>3. CASE procs' = procs
  BY <1>3 DEF Alone, Touches
<1> QED BY <1>1, <1>2, <1>3, ProcEffect DEF Continues

\* Only Toggle blocks or unblocks, and nothing brings an account back.
LEMMA AccountEffect ==
  ASSUME TypeInv, [Next]_vars, NEW u \in Users
  PROVE  /\ accounts'[u].exists => accounts[u].exists
         /\ \/ accounts'[u].blocked = accounts[u].blocked
            \/ \E p \in Procs : Toggle(p) /\ procs[p].user = u
<1>0. accounts[u] \in Account
  BY DEF TypeInv, DataOK
<1>1. CASE accounts' = accounts
  BY <1>1
<1>2. ASSUME NEW p \in Procs, Toggle(p)
      PROVE  /\ accounts'[u].exists => accounts[u].exists
             /\ accounts'[u].blocked = accounts[u].blocked \/ procs[p].user = u
  BY <1>0, <1>2 DEF Toggle, TypeInv, DataOK, Account
<1>3. ASSUME NEW p \in Procs, DropUser(p)
      PROVE  /\ accounts'[u].exists => accounts[u].exists
             /\ accounts'[u].blocked = accounts[u].blocked
  BY <1>0, <1>3 DEF DropUser, TypeInv, DataOK, Account
<1>4. CASE WorldStep
  <2>1. CASE \E v \in Users : UpdateDeviceLimit(v) \/ Lapse(v) \/ Renew(v)
    BY <1>0, <2>1 DEF UpdateDeviceLimit, Lapse, Renew, TypeInv, DataOK, Account
  <2> QED BY <1>1, <1>4, <2>1 DEF WorldStep, SetPeerEnabled, XrayRestart, UnblockDevice, GoStale
<1>5. ASSUME NEW p \in Procs, AccountStep(p) \/ Reads(p)
      PROVE  accounts' = accounts
  BY <1>5, ReadEffect DEF AccountStep, BeginDevice, BeginRow, BeginAccount, BeginCreate,
     BeginDelete, BeginJob, BeginRevoke, SuspendNext, dataVars
<1>6. ASSUME NEW p \in Procs,
             \/ Waits(p) \/ Loses(p) \/ Call(p)
             \/ WipeDevices(p) \/ DeleteRow(p) \/ WipeStale(p) \/ BlockRow(p)
             \/ DropConfigs(p)
             \/ Lookup(p) \/ Register(p) \/ Store(p) \/ Visit(p) \/ Arm(p) \/ Insert(p)
      PROVE  accounts' = accounts
  BY <1>6 DEF Waits, Loses, Call, DropConfigs, Arm, Insert, Gate, Lock, Check,
     CountConfigs, Refuse, SkipStatement, CallFails, CutOff, WipeDevices, DeleteRow, WipeStale,
     Wipe, BlockRow, Lookup, Register, Store, Visit
<1> QED BY <1>1, <1>2, <1>3, <1>4, <1>5, <1>6, Steps DEF vars

\* An account stays disturbed.
LEMMA DisturbedGrows ==
  ASSUME TypeInv, [Next]_vars
  PROVE  disturbed \subseteq disturbed'
<1>1. CASE UNCHANGED vars \/ WorldStep
  BY <1>1 DEF vars, WorldStep, SetPeerEnabled, UpdateDeviceLimit, Lapse, Renew, XrayRestart,
              UnblockDevice, GoStale
<1>2. ASSUME NEW p \in Procs, AccountStep(p)
      PROVE  disturbed \subseteq disturbed'
  BY <1>2 DEF AccountStep, BeginDevice, BeginRow, BeginAccount, BeginCreate,
     BeginDelete, BeginJob, BeginRevoke, SuspendNext, Start
<1>3. ASSUME NEW p \in Procs, Reads(p)
      PROVE  disturbed \subseteq disturbed'
  BY <1>3, ReadEffect
<1>4. ASSUME NEW p \in Procs,
             \/ Waits(p) \/ Loses(p) \/ Call(p)
             \/ WipeDevices(p) \/ DeleteRow(p) \/ WipeStale(p) \/ BlockRow(p)
             \/ DropConfigs(p) \/ Toggle(p) \/ DropUser(p)
             \/ Lookup(p) \/ Register(p) \/ Store(p) \/ Visit(p) \/ Arm(p) \/ Insert(p)
      PROVE  disturbed \subseteq disturbed'
  BY <1>4 DEF Waits, Loses, Call, DropConfigs, Toggle, DropUser, Arm, Insert, Gate, Lock, Check,
     CountConfigs, Refuse, SkipStatement, CallFails, CutOff, WipeDevices, DeleteRow, WipeStale,
     Wipe, BlockRow, Lookup, Register, Store, Visit
<1> QED BY <1>1, <1>2, <1>3, <1>4, Steps

\* Keys of the account's rows and configs.
Kept(u) == DeviceKeys(UserRows(u)) \cup UserConfigs(u)

\* A key that is about to be stored.
Fresh(p, k) ==
    \/ procs[p].op = "provision" /\ procs[p].step = 5 /\ procs[p].key = k /\ k \in Keys
    \/ procs[p].op = "createConfig" /\ procs[p].step = 3 /\ procs[p].config = k

Accounted(u) ==
    \A k \in served : Belongs(k, u) =>
       k \in Kept(u) \/ \E p \in Procs : procs[p].user = u /\ Fresh(p, k)

\* What a request adds is kept by an account that is not blocked.
AddsKept(p, u) ==
    procs[p].adds =>
      \A k \in procs[p].todo : Belongs(k, u) => k \in Kept(u) /\ ~accounts[u].blocked

\* What a request is about to delete has no key left, or will have none after the
\* calls.
SweptDevices(p, u) ==
    \/ procs[p].op = "deleteVless" /\ procs[p].step = 3
    \/ procs[p].op \in {"resetSessions", "suspend", "reset"} /\ procs[p].step = 2
    => DeviceKeys(UserRows(u)) \cap served \subseteq procs[p].todo

SweptRow(p) ==
    procs[p].op \in RowOps /\ procs[p].step = 2 =>
      DeviceKeys({procs[p].row}) \cap served \subseteq procs[p].todo

SweptStale(p, u) ==
    procs[p].op = "cleanup" /\ procs[p].step = 2 =>
      DeviceKeys({r \in UserRows(u) : rows[r].stale /\ ~rows[r].blocked}) \cap served
        \subseteq procs[p].todo

SweptConfig(p) ==
    procs[p].op \in {"deleteVless", "deleteAwg"} /\ procs[p].step # 1 =>
      {procs[p].config} \cap (served \cup peers) \subseteq procs[p].todo

SweptConfigs(p, u) ==
    procs[p].op = "reset" /\ procs[p].step = 4 =>
      UserConfigs(u) \cap (served \cup peers) \subseteq procs[p].todo

Swept(p, u) ==
    /\ SweptStale(p, u)
    /\ procs[p].user = u => /\ SweptDevices(p, u) /\ SweptRow(p)
                            /\ SweptConfig(p) /\ SweptConfigs(p, u)

\* What the requests that add keys found is still so.
Provisioned(p, u) ==
    /\ procs[p].op = "provision" /\ procs[p].step # 1 => ~accounts[u].blocked
    /\ procs[p].op \in {"createConfig", "ensureConfig"} => ~accounts[u].blocked
    /\ procs[p].op = "provision" /\ procs[p].row # Null =>
         /\ rows[procs[p].row].user = u
         /\ ~rows[procs[p].row].blocked /\ rows[procs[p].row].key = Null
    /\ procs[p].op = "ensureConfig" /\ procs[p].step = 4 => procs[p].config \in configs
    /\ procs[p].op = "toggleBlock" /\ procs[p].step # 1 => procs[p].adds = ~accounts[u].blocked

ProcInv(p, u) == AddsKept(p, u) /\ Swept(p, u) /\ (procs[p].user = u => Provisioned(p, u))

BlockedRows(u) == \A r \in UserRows(u) : rows[r].blocked => rows[r].key \notin Keys

\* The keys of a blocked account are about to be removed.
Carried(u) ==
    accounts[u].blocked =>
      \A k \in served \ Awg : Belongs(k, u) =>
         \E p \in Procs :
            /\ procs[p].op = "toggleBlock" /\ procs[p].user = u /\ procs[p].step # 1
            /\ procs[p].step = 3 /\ k \in Keys => k \in procs[p].todo
            /\ procs[p].step = 4 => k \in procs[p].todo

AccountInv(u) ==
    /\ Accounted(u) /\ BlockedRows(u) /\ Carried(u)
    /\ \A p \in Procs : ProcInv(p, u)

\* For every account that is not disturbed.
AccessInv ==
    /\ Owns
    /\ \A u \in Users \ disturbed : Alone(u) /\ (accounts[u].exists => AccountInv(u))

\* A request about one account touches that one only.
LEMMA TouchesUser ==
  ASSUME TypeInv, NEW p \in Procs, NEW u \in Users, procs[p].op \in RequestOps
  PROVE  Touches(p, u) <=> procs[p].user = u
  BY ProcFacts, AccessConstants DEF Touches, Shape, RequestOps

\* Whom a request touches it concerns.
LEMMA TouchesConcerns ==
  ASSUME NEW p, NEW u, Touches(p, u)
  PROVE  Concerns(p, u)
  BY DEF Touches, Concerns

\* A request that adds a key of an account is about that account.
LEMMA AdderTouches ==
  ASSUME Owns, NEW p \in Procs, procs[p].adds, NEW k \in procs[p].todo, NEW u \in Users,
         Belongs(k, u)
  PROVE  Touches(p, u) /\ procs[p].op \in Adding
<1>1. procs[p].op \in {"reconcile", "toggleBlock"}
  BY ProcFacts DEF Owns, Shape
<1>2. CASE procs[p].op = "reconcile"
  BY <1>2, ProcFacts DEF Owns, Shape, Touches, Adding
<1>3. CASE procs[p].op = "toggleBlock"
  <2>1. Belongs(k, procs[p].user) /\ procs[p].user \in Users
    BY <1>3, ProcFacts DEF Owns, TodoOwn, Shape
  <2>2. procs[p].user = u
    BY <2>1, AccessConstants DEF Belongs
  <2> QED BY <1>3, <2>2 DEF Touches, Adding
<1> QED BY <1>1, <1>2, <1>3

\* A key that is kept belongs to the account, if it is a config's.
LEMMA KeptBelongs ==
  ASSUME Owns, NEW u \in Users
  PROVE  /\ \A r \in Rows : rows[r].user = u /\ rows[r].key \in Keys => Belongs(rows[r].key, u)
         /\ \A c \in configs : Belongs(c, u) <=> OwnerOf[c] = u
  BY AccessConstants DEF Owns, RowsOwn, TypeInv, DataOK, Belongs

\* What is said of a request holds when it is not about the account.
LEMMA Elsewhere ==
  ASSUME Owns, NEW p \in Procs, NEW u \in Users, ~Touches(p, u)
  PROVE  ProcInv(p, u)
<1>1. AddsKept(p, u)
  BY AdderTouches DEF AddsKept
<1>2. procs[p].user = u => procs[p].op = "idle"
  BY DEF Touches
<1>3. procs[p].op = "idle" => procs[p].user = Null /\ Null # u
  BY ProcFacts, AccessConstants DEF Owns, Shape, Idle
<1>4. SweptStale(p, u)
  BY ProcFacts DEF SweptStale, Touches, Owns, Shape
<1> QED BY <1>1, <1>2, <1>3, <1>4 DEF ProcInv, Swept

\* No key, row or config of the account appears.
Shrinks(u) ==
    /\ \A k \in AllKeys : Belongs(k, u)' => Belongs(k, u)
    /\ \A k \in served' : Belongs(k, u)' => k \in served \/ k \in configs \cap Awg \cap peers
    /\ \A k \in peers' : Belongs(k, u)' => k \in peers
    /\ \A r \in Rows : rows'[r].user = u /\ rows'[r].key \in Keys =>
         /\ rows[r].user = u /\ rows'[r].key = rows[r].key
         /\ rows'[r].stale => rows[r].stale \/ \A p \in Procs : procs[p].op # "cleanup"
         /\ ~rows'[r].blocked => ~rows[r].blocked
    /\ \A c \in configs' : OwnerOf[c] = u => c \in configs

\* None goes, and the account is blocked or not as before.
Stays(u) ==
    /\ accounts'[u].blocked = accounts[u].blocked
    /\ \A r \in Rows : rows[r].user = u =>
         /\ rows'[r].user = u /\ rows'[r].key = rows[r].key
         /\ rows'[r].blocked => rows[r].blocked
    /\ \A c \in configs : OwnerOf[c] = u => c \in configs'

\* Keys already removed stay removed as long as no key is added.
LEMMA SweptShrinks ==
  ASSUME Owns, Owns', NEW u \in Users, Shrinks(u), NEW q \in Procs, procs'[q] = procs[q],
         Swept(q, u)
  PROVE  Swept(q, u)'
<1>1. ASSUME NEW r \in Rows, NEW k \in Keys, rows'[r].user = u, rows'[r].key = k, k \in served'
      PROVE  /\ rows[r].user = u /\ rows'[r].key = rows[r].key /\ rows[r].key \in served
             /\ rows'[r].stale => rows[r].stale \/ \A p \in Procs : procs[p].op # "cleanup"
             /\ ~rows'[r].blocked => ~rows[r].blocked
  <2>1. Belongs(k, u)'
    BY <1>1, AccessConstants DEF Owns, RowsOwn, Belongs
  <2>2. k \notin configs
    BY <1>1, AccessConstants DEF Owns, TypeInv, DataOK
  <2> QED BY <1>1, <2>1, <2>2 DEF Shrinks
<1>2. SweptStale(q, u)'
  BY <1>1 DEF Swept, SweptStale, DeviceKeys, UserRows
<1> SUFFICES ASSUME procs[q].user = u
             PROVE  (SweptDevices(q, u) /\ SweptRow(q) /\ SweptConfig(q) /\ SweptConfigs(q, u))'
  BY <1>2 DEF Swept
<1>3. SweptDevices(q, u)'
  BY <1>1 DEF Swept, SweptDevices, DeviceKeys, UserRows
<1>4. SweptRow(q)'
  <2> SUFFICES ASSUME procs[q].op \in RowOps, procs[q].step = 2, rows'[procs[q].row].key \in Keys,
                      rows'[procs[q].row].key \in served'
               PROVE  rows'[procs[q].row].key \in procs[q].todo
    BY DEF SweptRow, DeviceKeys
  <2>1. procs[q].row \in Rows
    BY ProcFacts DEF Owns, Shape
  <2>2. rows'[procs[q].row].user = u
    <3>1. rows'[procs[q].row] # NoRow
      BY AccessConstants DEF NoRow
    <3> QED BY <2>1, <3>1 DEF Owns, RowsKnown
  <2> QED BY <1>1, <2>1, <2>2 DEF Swept, SweptRow, DeviceKeys
<1>5. \A c \in Configs : OwnerOf[c] = u /\ c \in served' \cup peers' => c \in served \cup peers
  BY DEF Shrinks, Belongs
<1>6. SweptConfig(q)'
  <2>1. procs[q].op \in {"deleteVless", "deleteAwg"} =>
          procs[q].config \in Configs /\ OwnerOf[procs[q].config] = u
    BY ProcFacts DEF Owns, Shape, ConfigOps
  <2> QED BY <1>5, <2>1 DEF Swept, SweptConfig
<1>7. SweptConfigs(q, u)'
  <2>1. UserConfigs(u)' \subseteq UserConfigs(u)
    BY DEF Shrinks, UserConfigs
  <2>2. UserConfigs(u) \subseteq {c \in Configs : OwnerOf[c] = u}
    BY DEF Owns, TypeInv, DataOK, UserConfigs
  <2> QED BY <1>5, <2>1, <2>2 DEF Swept, SweptConfigs
<1> QED BY <1>3, <1>4, <1>6, <1>7

\* What is kept stays kept when the rows and configs stay.
LEMMA StaysKept ==
  ASSUME Owns, NEW u \in Users, Stays(u), NEW k \in Kept(u)
  PROVE  k \in Kept(u)'
  BY DEF Stays, Kept, DeviceKeys, UserRows, UserConfigs

\* A request that does not move keeps its invariant when its account stays.
LEMMA ProcStays ==
  ASSUME Owns, Owns', NEW u \in Users, Shrinks(u), Stays(u), NEW q \in Procs,
         procs'[q] = procs[q], ProcInv(q, u)
  PROVE  ProcInv(q, u)'
<1>1. AddsKept(q, u)'
  <2>1. procs[q].todo \subseteq AllKeys
    BY ProcFacts DEF Owns, Proc
  <2>2. \A k \in procs[q].todo : Belongs(k, u)' => Belongs(k, u)
    BY <2>1 DEF Shrinks
  <2> QED BY <2>2, StaysKept DEF ProcInv, AddsKept, Stays
<1>2. Swept(q, u)'
  BY SweptShrinks DEF ProcInv
<1>3. procs[q].user = u => Provisioned(q, u)'
  <2>1. procs[q].op = "ensureConfig" => OwnerOf[procs[q].config] = procs[q].user
    BY ProcFacts DEF Owns, Shape, ConfigOps
  <2>2. procs[q].row # Null => procs[q].row \in Rows
    BY ProcFacts DEF Owns, Proc
  <2> QED BY <2>1, <2>2 DEF ProcInv, Provisioned, Stays
<1> QED BY <1>1, <1>2, <1>3 DEF ProcInv

\* A step that leaves the tables and servers alone leaves every account alone.
LEMMA Quiet ==
  ASSUME Owns, NEW u \in Users, UNCHANGED dataVars
  PROVE  Shrinks(u) /\ Stays(u)
  BY DEF dataVars, Shrinks, Stays, Belongs

\* What happens outside the requests adds no key and removes no row.
LEMMA WorldQuiet ==
  ASSUME Owns, NEW u \in Users, WorldStep, u \notin disturbed', BlockedRows(u)
  PROVE  Shrinks(u) /\ Stays(u)
<1>1. CASE \E r \in Rows : UnblockDevice(r)
  <2>1. PICK r \in Rows : UnblockDevice(r)
    BY <1>1
  <2>2. rows[r] \in DeviceRow
    BY <2>1, RowTypes DEF UnblockDevice, Owns
  <2>3. /\ rows'[r].user = rows[r].user /\ rows'[r].key = rows[r].key
        /\ rows'[r].stale = rows[r].stale /\ ~rows'[r].blocked
    BY <2>1, <2>2 DEF UnblockDevice, Owns, TypeInv, DataOK, DeviceRow
  <2>4. \A s \in Rows \ {r} : rows'[s] = rows[s]
    BY <2>1 DEF UnblockDevice, Owns, TypeInv, DataOK
  <2> QED BY <2>1, <2>3, <2>4 DEF UnblockDevice, Shrinks, Stays, Belongs, BlockedRows, UserRows
<1>2. CASE \E r \in Rows : GoStale(r)
  <2>1. PICK r \in Rows : GoStale(r)
    BY <1>2
  <2>2. rows[r] \in DeviceRow
    BY <2>1, RowTypes DEF GoStale, Owns
  <2>3. /\ rows'[r].user = rows[r].user /\ rows'[r].key = rows[r].key
        /\ rows'[r].blocked = rows[r].blocked
    BY <2>1, <2>2 DEF GoStale, Owns, TypeInv, DataOK, DeviceRow
  <2>4. \A s \in Rows \ {r} : rows'[s] = rows[s]
    BY <2>1 DEF GoStale, Owns, TypeInv, DataOK
  <2>5. rows[r].user = u => \A p \in Procs : procs[p].op # "cleanup"
    BY <2>1 DEF GoStale
  <2> QED BY <2>1, <2>3, <2>4, <2>5 DEF GoStale, Shrinks, Stays, Belongs
<1>3. CASE \E c \in Configs : SetPeerEnabled(c)
  BY <1>3 DEF SetPeerEnabled, Shrinks, Stays, Belongs
<1>4. CASE XrayRestart
  BY <1>4 DEF XrayRestart, Shrinks, Stays, Belongs
<1>5. CASE \E v \in Users : UpdateDeviceLimit(v) \/ Lapse(v) \/ Renew(v)
  <2>1. accounts'[u].blocked = accounts[u].blocked
    <3>1. accounts[u] \in Account
      BY DEF Owns, TypeInv, DataOK
    <3> QED BY <1>5, <3>1 DEF UpdateDeviceLimit, Lapse, Renew, Owns, TypeInv, DataOK, Account
  <2> QED BY <1>5, <2>1 DEF UpdateDeviceLimit, Lapse, Renew, Shrinks, Stays, Belongs
<1> QED BY <1>1, <1>2, <1>3, <1>4, <1>5 DEF WorldStep

\* A row that is seen again keeps its key.
LEMMA SeenAgain ==
  ASSUME Owns, NEW r \in Rows, rows[r] # NoRow, rows'[r] = [rows[r] EXCEPT !.stale = FALSE]
  PROVE  /\ rows'[r].user = rows[r].user /\ rows'[r].key = rows[r].key
         /\ rows'[r].blocked = rows[r].blocked /\ ~rows'[r].stale
<1>1. rows[r] \in DeviceRow
  BY RowTypes DEF Owns
<1> QED BY <1>1 DEF DeviceRow

\* The statements and calls that only take away.
Removes(p) ==
    \/ Call(p) /\ ~procs[p].adds
    \/ WipeDevices(p) \/ DeleteRow(p) \/ WipeStale(p) \/ BlockRow(p)
    \/ DropConfigs(p) \/ DropUser(p) \/ Visit(p)

\* A visit enters a row without a key or marks rows as seen.
LEMMA VisitRows ==
  ASSUME Owns, NEW p \in Procs, Visit(p), NEW r \in Rows
  PROVE  \/ rows'[r] = rows[r]
         \/ rows[r] # NoRow /\ rows'[r] = [rows[r] EXCEPT !.stale = FALSE]
         \/ /\ rows[r] = NoRow /\ rows'[r].user = procs[p].user /\ rows'[r].key = Null
<1>1. procs[p].user \in Users
  BY ProcFacts, Places DEF Visit, At, Shape, Owns
<1>2. \/ rows'[r] = rows[r]
      \/ rows[r].user = procs[p].user /\ rows'[r] = [rows[r] EXCEPT !.stale = FALSE]
      \/ /\ rows[r] = NoRow
         /\ rows'[r] = [user |-> procs[p].user, inst |-> procs[p].inst, key |-> Null,
                        blocked |-> FALSE, stale |-> FALSE, counted |-> FALSE]
  BY DEF Visit, NewRow, Matching, UserRows, Owns, TypeInv, DataOK
<1>3. rows[r].user = procs[p].user => rows[r] # NoRow
  BY <1>1, AccessConstants DEF NoRow
<1> QED BY <1>2, <1>3

\* The statements and calls that remove add nothing.
LEMMA RemovesShrinks ==
  ASSUME Owns, NEW u \in Users, NEW p \in Procs, Removes(p)
  PROVE  Shrinks(u)
<1>1. ASSUME rows' = rows, minted' = minted, served' \subseteq served, peers' \subseteq peers,
             configs' \subseteq configs
      PROVE  Shrinks(u)
  BY <1>1 DEF Shrinks, Belongs
<1>2. ASSUME \A r \in Rows : \/ rows'[r] = rows[r] \/ rows'[r].key \notin Keys
                             \/ /\ rows'[r].user = rows[r].user /\ rows'[r].key = rows[r].key
                                /\ rows'[r].blocked = rows[r].blocked /\ ~rows'[r].stale,
             minted' = minted, served' = served, peers' = peers, configs' \subseteq configs
      PROVE  Shrinks(u)
  BY <1>2 DEF Shrinks, Belongs
<1>3. CASE Call(p) \/ DropConfigs(p)
  BY <1>1, <1>3 DEF Call, DropConfigs, Removes, WipeDevices, DeleteRow, WipeStale, BlockRow,
                    DropUser, Visit, At
<1>4. CASE WipeDevices(p) \/ DeleteRow(p) \/ WipeStale(p) \/ DropUser(p)
  <2>1. \A r \in Rows : rows'[r] \in {rows[r], NoRow}
    BY <1>4 DEF WipeDevices, DeleteRow, WipeStale, Wipe, DropUser
  <2> QED BY <1>2, <1>4, <2>1, AccessConstants
          DEF WipeDevices, DeleteRow, WipeStale, Wipe, DropUser, NoRow
<1>5. CASE BlockRow(p)
  <2>1. \A r \in Rows : rows'[r] = rows[r] \/ rows'[r].key = Null
    BY <1>5 DEF BlockRow, Owns, TypeInv, DataOK, DeviceRow
  <2> QED BY <1>2, <1>5, <2>1, AccessConstants DEF BlockRow
<1>6. CASE Visit(p)
  <2>1. \A r \in Rows : \/ rows'[r] = rows[r] \/ rows'[r].key \notin Keys
                        \/ /\ rows'[r].user = rows[r].user /\ rows'[r].key = rows[r].key
                           /\ rows'[r].blocked = rows[r].blocked /\ ~rows'[r].stale
    BY <1>6, VisitRows, SeenAgain, AccessConstants
  <2> QED BY <1>2, <1>6, <2>1 DEF Visit
<1> QED BY <1>3, <1>4, <1>5, <1>6 DEF Removes

\* The statements that change a table or a server.
Changes(p) ==
    \/ Call(p) \/ WipeDevices(p) \/ DeleteRow(p) \/ WipeStale(p) \/ BlockRow(p)
    \/ DropConfigs(p) \/ Toggle(p) \/ DropUser(p)
    \/ Lookup(p) \/ Register(p) \/ Store(p) \/ Visit(p) \/ Arm(p) \/ Insert(p)

\* An account that the request is not about does not notice it.
LEMMA Foreign ==
  ASSUME Owns, Owns', NEW u \in Users, NEW p \in Procs, Changes(p), ~Touches(p, u)
  PROVE  Shrinks(u) /\ Stays(u)
<1>0. procs[p].op \in OpNames /\ procs[p].step \in Nat \ {0} /\ Shape(procs[p]) /\ TypeInv
  BY ProcFacts DEF Owns
<1>1. ASSUME procs[p].op # "idle"
      PROVE  procs[p].user # u
  BY <1>1 DEF Touches
<1>2. ASSUME accounts'[u].blocked = accounts[u].blocked, rows' = rows,
             \A c \in Configs : OwnerOf[c] = u => (c \in configs' <=> c \in configs)
      PROVE  Stays(u)
  BY <1>2 DEF Stays, Owns, TypeInv, DataOK
<1>3. CASE Call(p)
  <2>1. Stays(u)
    BY <1>2, <1>3 DEF Call
  <2>2. CASE procs[p].adds
    <3>1. PICK k \in procs[p].todo : served' = served \cup {k} /\ peers' = peers
      BY <1>3, <2>2 DEF Call
    <3>2. ~Belongs(k, u)
      BY <2>2, AdderTouches
    <3>3. \A j : Belongs(j, u)' <=> Belongs(j, u)
      BY <1>3 DEF Call, Belongs
    <3> QED BY <1>3, <2>1, <3>1, <3>2, <3>3 DEF Shrinks, Call
  <2> QED BY <1>3, <2>1, <2>2, RemovesShrinks DEF Removes
<1>4. CASE WipeDevices(p)
  <2>1. procs[p].user # u
    BY <1>0, <1>1, <1>4, Places DEF WipeDevices, At
  <2>2. \A r \in Rows : rows[r].user = u => rows'[r] = rows[r]
    BY <1>4, <2>1 DEF WipeDevices, Wipe, UserRows
  <2> QED BY <1>4, <2>2, RemovesShrinks DEF WipeDevices, Wipe, Stays, Removes
<1>5. CASE DeleteRow(p) \/ BlockRow(p)
  <2>1. procs[p].user # u /\ procs[p].row \in Rows
    BY <1>0, <1>1, <1>5, Places DEF DeleteRow, BlockRow, At, Shape, RowOps
  <2>2. rows[procs[p].row].user # u
    BY <2>1, AccessConstants DEF Owns, RowsKnown, NoRow
  <2>3. \A r \in Rows : rows[r].user = u => rows'[r] = rows[r]
    BY <1>5, <2>1, <2>2 DEF DeleteRow, BlockRow, Wipe, Owns, TypeInv, DataOK
  <2> QED BY <1>5, <2>3, RemovesShrinks DEF DeleteRow, BlockRow, Wipe, Stays, Removes
<1>6. ~WipeStale(p)
  BY <1>0, Places DEF WipeStale, At, Touches, Shape
<1>7. CASE DropConfigs(p)
  <2>1. procs[p].user # u
    BY <1>0, <1>1, <1>7, Places DEF DropConfigs, At
  <2>2. Statement(p) = "dropConfig" => OwnerOf[procs[p].config] = procs[p].user
    BY <1>0, Places DEF Shape, ConfigOps
  <2>3. \A c \in Configs : OwnerOf[c] = u => (c \in configs' <=> c \in configs)
    BY <1>7, <2>1, <2>2 DEF DropConfigs, At, UserConfigs
  <2> QED BY <1>2, <1>7, <2>3, RemovesShrinks DEF DropConfigs, Removes
<1>8. CASE Toggle(p)
  <2>1. procs[p].user # u
    BY <1>0, <1>1, <1>8, Places DEF Toggle, At
  <2>2. accounts'[u] = accounts[u]
    BY <1>8, <2>1 DEF Toggle, Owns, TypeInv, DataOK
  <2> QED BY <1>2, <1>8, <2>2 DEF Toggle, Shrinks, Belongs
<1>9. CASE DropUser(p)
  <2>1. procs[p].user # u
    BY <1>0, <1>1, <1>9, Places DEF DropUser, At
  <2>2. accounts'[u] = accounts[u]
    BY <1>9, <2>1 DEF DropUser, Owns, TypeInv, DataOK
  <2>3. \A r \in Rows : rows[r].user = u => rows'[r] = rows[r]
    BY <1>9, <2>1 DEF DropUser
  <2>4. \A c \in configs : OwnerOf[c] = u => c \in configs'
    BY <1>9, <2>1 DEF DropUser, UserConfigs
  <2> QED BY <1>9, <2>2, <2>3, <2>4, RemovesShrinks DEF Stays, Removes
<1>10. CASE Lookup(p) \/ Visit(p)
  <2>1. procs[p].user # u /\ procs[p].user \in Users
    BY <1>0, <1>1, <1>10, Places DEF Lookup, Visit, At, Shape
  <2>2. ASSUME NEW r \in Rows
        PROVE  \/ rows'[r] = rows[r]
               \/ rows[r] # NoRow /\ rows'[r] = [rows[r] EXCEPT !.stale = FALSE]
               \/ /\ Visit(p) /\ rows[r] = NoRow
                  /\ rows'[r].user = procs[p].user /\ rows'[r].key = Null
    <3>1. CASE Visit(p)
      BY <3>1, VisitRows
    <3>2. CASE Lookup(p)
      <4>1. \/ rows'[r] = rows[r]
            \/ rows[r].user = procs[p].user /\ rows'[r] = [rows[r] EXCEPT !.stale = FALSE]
        BY <3>2 DEF Lookup, Matching, UserRows, Owns, TypeInv, DataOK
      <4> QED BY <2>1, <4>1, AccessConstants DEF NoRow
    <3> QED BY <1>10, <3>1, <3>2
  <2>3. \A r \in Rows : \/ rows'[r] = rows[r]
                        \/ /\ rows'[r].user = rows[r].user /\ rows'[r].key = rows[r].key
                           /\ rows'[r].blocked = rows[r].blocked /\ ~rows'[r].stale
                        \/ rows[r].user # u /\ rows'[r].user # u
    <3>1. NoRow.user # u
      BY AccessConstants DEF NoRow
    <3> QED BY <2>1, <2>2, <3>1, SeenAgain
  <2> QED BY <1>10, <2>3 DEF Lookup, Visit, Shrinks, Stays, Belongs
<1>11. CASE Register(p)
  <2>1. PICK k \in Keys : /\ minted[k] = Null /\ minted' = [minted EXCEPT ![k] = procs[p].user]
                          /\ served' \in {served, served \cup {k}}
    BY <1>0, <1>11, RegisterEffect
  <2>2. procs[p].user # u
    BY <1>0, <1>1, <1>11, RegisterEffect
  <2>3. \A j \in AllKeys : Belongs(j, u)' => Belongs(j, u) /\ j # k
    BY <2>1, <2>2, AccessConstants DEF Belongs, AllKeys, Owns, TypeInv, DataOK
  <2>4. served' \subseteq AllKeys
    BY DEF Owns, TypeInv, DataOK
  <2> QED BY <1>2, <1>11, <2>1, <2>3, <2>4 DEF Register, Shrinks
<1>12. CASE Store(p)
  <2>1. procs[p].user # u /\ procs[p].user \in Users /\ procs[p].op = "provision"
    BY <1>0, <1>1, <1>12, Places DEF Store, At, Shape
  <2>2. ASSUME NEW r \in Rows
        PROVE  rows'[r] = rows[r] \/ (rows[r].user # u /\ rows'[r].user # u)
    <3>1. CASE procs[p].row = Null
      BY <1>12, <2>1, <3>1, AccessConstants DEF Store, NewRow, Owns, TypeInv, DataOK, NoRow
    <3>2. CASE procs[p].row # Null
      <4>1. rows' = IF rows[procs[p].row] = NoRow THEN rows
                    ELSE [rows EXCEPT ![procs[p].row].key = procs[p].key,
                                      ![procs[p].row].stale = FALSE]
        BY <1>12, <3>2 DEF Store
      <4>2. rows'[r] = rows[r] \/ (procs[p].row = r /\ rows[r] # NoRow)
        BY <4>1 DEF Owns, TypeInv, DataOK
      <4>3. CASE procs[p].row = r /\ rows[r] # NoRow
        <5>1. rows[r].user = procs[p].user
          BY <4>3 DEF Owns, RowsKnown
        <5>2. rows'[r] = [rows[r] EXCEPT !.key = procs[p].key, !.stale = FALSE]
          BY <4>1, <4>3 DEF Owns, TypeInv, DataOK
        <5>3. rows[r] \in DeviceRow
          BY <1>0, <4>3, RowTypes
        <5>4. rows'[r].user = rows[r].user
          BY <5>2, <5>3 DEF DeviceRow
        <5> QED BY <2>1, <5>1, <5>4
      <4> QED BY <4>2, <4>3
    <3> QED BY <3>1, <3>2
  <2> QED BY <1>12, <2>2 DEF Store, Shrinks, Stays, Belongs
<1>13. CASE Arm(p) \/ Insert(p)
  <2>1. /\ procs[p].user # u /\ procs[p].config \in Configs
        /\ OwnerOf[procs[p].config] = procs[p].user
    BY <1>0, <1>1, <1>13, Places DEF Arm, Insert, At, Shape, ConfigOps
  <2>2. \A j : Belongs(j, u)' => Belongs(j, u) /\ j # procs[p].config
    BY <1>13, <2>1 DEF Arm, Insert, Belongs
  <2>3. CASE Arm(p)
    BY <1>2, <2>2, <2>3 DEF Arm, Shrinks
  <2>4. CASE Insert(p)
    BY <1>2, <2>1, <2>2, <2>4 DEF Insert, Shrinks
  <2> QED BY <1>13, <2>3, <2>4
<1> QED BY <1>3, <1>4, <1>5, <1>6, <1>7, <1>8, <1>9, <1>10, <1>11, <1>12, <1>13 DEF Changes

ElsewhereFine == \A p \in Procs, u \in Users : ~Touches(p, u) => ProcInv(p, u)

\* The same in the next state.
LEMMA ElsewhereNext == Owns' => ElsewhereFine'
<1>1. Owns => ElsewhereFine
  BY Elsewhere DEF ElsewhereFine
<1> QED BY <1>1, PTL

\* Calls that add are those of a request that adds.
LEMMA AddingOps ==
  ASSUME TypeInv, NEW p \in Procs, procs[p].adds
  PROVE  procs[p].op \in Adding
  BY ProcFacts DEF Shape, Adding

ProcSteps(p) ==
    AccountStep(p) \/ Reads(p) \/ Waits(p) \/ Loses(p) \/ Changes(p)

\* A step is nobody's, the world's or one process's.
LEMMA StepsOf ==
  ASSUME TypeInv, [Next]_vars
  PROVE  \/ UNCHANGED vars
         \/ WorldStep /\ procs' = procs
         \/ \E p \in Procs : ProcSteps(p)
<1>1. WorldStep => procs' = procs
  BY DEF WorldStep, UnblockDevice, GoStale, SetPeerEnabled, UpdateDeviceLimit, Lapse, Renew,
         XrayRestart
<1> QED BY <1>1, Steps DEF ProcSteps, Changes

\* Beginning, reading, waiting and losing change no table and no server.
LEMMA QuietSteps ==
  ASSUME TypeInv, NEW p \in Procs, AccountStep(p) \/ Reads(p) \/ Waits(p) \/ Loses(p)
  PROVE  UNCHANGED dataVars
<1>1. CASE AccountStep(p)
  BY <1>1 DEF AccountStep, BeginDevice, BeginRow, BeginAccount, BeginCreate, BeginDelete,
              BeginJob, BeginRevoke, SuspendNext, dataVars
<1>2. CASE Reads(p)
  BY <1>2, ReadEffect
<1>3. CASE Waits(p) \/ Loses(p)
  BY <1>3 DEF Waits, Loses, Gate, Lock, Check, CountConfigs, Refuse, SkipStatement, CallFails,
              CutOff, dataVars
<1> QED BY <1>1, <1>2, <1>3

\* A statement that may add something belongs to a request that adds.
LEMMA AddersChange ==
  ASSUME TypeInv, NEW p \in Procs, Changes(p), procs[p].op \notin Adding
  PROVE  Removes(p)
<1>0. procs[p].op \in OpNames /\ procs[p].step \in Nat \ {0}
  BY ProcFacts
<1>1. ~Toggle(p) /\ ~Lookup(p) /\ ~Register(p) /\ ~Store(p) /\ ~Arm(p) /\ ~Insert(p)
  BY <1>0, Places DEF Toggle, Lookup, Register, Store, Arm, Insert, At, Adding
<1>2. Call(p) => ~procs[p].adds
  BY AddingOps
<1> QED BY <1>1, <1>2 DEF Changes, Removes

\* A step of another request keeps the invariant of a request,
LEMMA ProcInvOthers ==
  ASSUME Owns, Owns', NEW u \in Users, Alone(u), NEW p \in Procs, ProcSteps(p),
         NEW q \in Procs, q # p, procs'[q] = procs[q], ProcInv(q, u)
  PROVE  ProcInv(q, u)'
<1>0. TypeInv
  BY DEF Owns
<1>1. CASE ~Touches(q, u)
  <2>1. ~Touches(q, u)'
    BY <1>1 DEF Touches
  <2> QED BY <2>1, ElsewhereNext DEF ElsewhereFine
<1>2. CASE ~Touches(p, u) \/ ~Changes(p)
  <2>1. Shrinks(u) /\ Stays(u)
    BY <1>0, <1>2, Foreign, QuietSteps, Quiet DEF ProcSteps
  <2> QED BY <2>1, ProcStays
<1>3. CASE Touches(q, u) /\ Touches(p, u) /\ Changes(p)
  <2>1. procs[p].op \notin Adding /\ procs[q].op \notin Adding
    BY <1>3 DEF Alone
  <2>2. Swept(q, u)'
    BY <1>0, <1>3, <2>1, AddersChange, RemovesShrinks, SweptShrinks DEF ProcInv
  <2>3. AddsKept(q, u)' /\ Provisioned(q, u)'
    BY <1>0, <2>1, AddingOps DEF AddsKept, Provisioned, Adding
  <2> QED BY <2>2, <2>3 DEF ProcInv
<1> QED BY <1>1, <1>2, <1>3

\* so does the world,
LEMMA ProcInvWorld ==
  ASSUME Owns, Owns', NEW u \in Users, BlockedRows(u), u \notin disturbed',
         WorldStep, procs' = procs, NEW q \in Procs, ProcInv(q, u)
  PROVE  ProcInv(q, u)'
  BY WorldQuiet, ProcStays

\* and a request at its first statement has it.
LEMMA FirstStep ==
  ASSUME NEW p \in Procs, NEW u \in Users, procs'[p].step = 1, procs'[p].todo = {},
         procs'[p].op = "provision" => procs'[p].row = Null,
         procs'[p].op \in {"createConfig", "ensureConfig"} /\ procs'[p].user = u =>
           ~accounts'[u].blocked
  PROVE  ProcInv(p, u)'
  BY DEF ProcInv, AddsKept, Swept, SweptDevices, SweptRow, SweptStale, SweptConfig,
         SweptConfigs, Provisioned

\* Requests begin with their invariant,
LEMMA ProcInvBegins ==
  ASSUME Owns, Owns', NEW u \in Users, u \notin disturbed', NEW p \in Procs, AccountStep(p)
  PROVE  ProcInv(p, u)'
<1>0. TypeInv /\ accounts' = accounts
  BY QuietSteps DEF Owns, dataVars
<1>1. CASE BeginDevice(p) \/ BeginRow(p) \/ BeginAccount(p) \/ BeginDelete(p) \/ BeginJob(p)
  <2>1. PICK op \in (RequestOps \cup {"reconcile", "cleanup"}) \ {"createConfig", "ensureConfig"} :
          \E v, c, i, r : /\ procs' = [procs EXCEPT ![p] = Started(op, v, c, i, r)]
                          /\ op = "provision" => r = Null
    BY <1>1 DEF BeginDevice, BeginRow, BeginAccount, BeginDelete, BeginJob, Start, RequestOps
  <2>2. PICK v, c, i, r : /\ procs' = [procs EXCEPT ![p] = Started(op, v, c, i, r)]
                          /\ op = "provision" => r = Null
    BY <2>1
  <2>3. /\ procs'[p].op = op /\ procs'[p].step = 1 /\ procs'[p].todo = {}
        /\ procs'[p].row = r
    BY <1>0, <2>2 DEF Started, Idle, TypeInv
  <2> QED BY <2>2, <2>3, FirstStep
<1>2. CASE BeginCreate(p)
  <2>1. PICK c \in Configs, op \in {"createConfig", "ensureConfig"} :
           /\ procs' = [procs EXCEPT ![p] = Started(op, OwnerOf[c], c, Null, Null)]
           /\ {v \in {OwnerOf[c]} : accounts[v].blocked} \subseteq disturbed'
    BY <1>2 DEF BeginCreate
  <2>2. /\ procs'[p].op = op /\ procs'[p].step = 1 /\ procs'[p].todo = {}
        /\ procs'[p].user = OwnerOf[c]
    BY <1>0, <2>1 DEF Started, Idle, TypeInv
  <2>3. OwnerOf[c] = u => ~accounts'[u].blocked
    BY <1>0, <2>1
  <2> QED BY <2>2, <2>3, FirstStep
<1>3. CASE BeginRevoke(p)
  <2>1. /\ procs'[p].op = "suspend" /\ procs'[p].user = Null /\ procs'[p].todo = {}
        /\ procs'[p].adds = FALSE
    BY <1>0, <1>3 DEF BeginRevoke, Idle, TypeInv
  <2> QED BY <2>1, AccessConstants DEF ProcInv, AddsKept, Swept, SweptStale
<1>4. CASE SuspendNext(p)
  <2>1. PICK v \in procs[p].due :
          procs' = [procs EXCEPT ![p].user = v, ![p].step = 1, ![p].due = @ \ {v}]
    BY <1>4 DEF SuspendNext
  <2>2. procs[p] \in Proc /\ Shape(procs[p]) /\ procs[p].todo = {} /\ procs[p].op = "suspend"
    BY <1>0, <1>4, <2>1, ProcFacts DEF SuspendNext, At, Shape
  <2>3. procs'[p] = [procs[p] EXCEPT !.user = v, !.step = 1, !.due = @ \ {v}]
    BY <1>0, <2>1 DEF TypeInv
  <2>4. procs'[p].step = 1 /\ procs'[p].todo = {} /\ procs'[p].op = "suspend"
    BY <2>2, <2>3 DEF Proc
  <2> QED BY <2>4, FirstStep
<1> QED BY <1>1, <1>2, <1>3, <1>4 DEF AccountStep

\* What a read hands to the calls.
LEMMA ReadSwept ==
  ASSUME Owns, Owns', NEW u \in Users, NEW p \in Procs, UNCHANGED dataVars,
         procs[p].todo = {}, NEW keys, KeysRead(p, keys),
         procs'[p].op = procs[p].op, procs'[p].user = procs[p].user,
         procs'[p].config = procs[p].config, procs'[p].row = procs[p].row,
         procs'[p].step = procs[p].step + 1, procs'[p].todo = keys, Swept(p, u)
  PROVE  Swept(p, u)'
<1>0. /\ procs[p].op \in OpNames /\ procs[p].step \in Nat \ {0}
      /\ rows' = rows /\ served' = served /\ peers' = peers /\ configs' = configs
  BY ProcFacts DEF Owns, dataVars
<1>1. /\ procs'[p].step = 2 <=> procs[p].step = 1
      /\ procs'[p].step = 3 <=> procs[p].step = 2
      /\ procs'[p].step = 4 <=> procs[p].step = 3
  BY <1>0
<1>2. SweptStale(p, u)'
  <2> SUFFICES ASSUME procs[p].op = "cleanup", procs[p].step = 1
               PROVE  DeviceKeys({r \in UserRows(u) : rows[r].stale /\ ~rows[r].blocked})
                        \subseteq keys
    BY <1>0, <1>1 DEF SweptStale, DeviceKeys, UserRows
  <2>1. keys = DeviceKeys({r \in Rows : rows[r].stale /\ ~rows[r].blocked})
    BY <1>0, Places DEF KeysRead
  <2> QED BY <2>1 DEF DeviceKeys, UserRows
<1> SUFFICES ASSUME procs[p].user = u
             PROVE  (SweptDevices(p, u) /\ SweptRow(p) /\ SweptConfig(p) /\ SweptConfigs(p, u))'
  BY <1>2 DEF Swept
<1>3. SweptDevices(p, u)'
  <2> SUFFICES ASSUME \/ procs[p].op = "deleteVless" /\ procs[p].step = 2
                      \/ procs[p].op \in {"resetSessions", "suspend", "reset"} /\ procs[p].step = 1
               PROVE  DeviceKeys(UserRows(u)) \subseteq keys
    BY <1>0, <1>1 DEF SweptDevices, DeviceKeys, UserRows
  <2>1. Statement(p) = "readDevices"
    BY <1>0, Places DEF KeysRead
  <2> QED BY <2>1 DEF KeysRead, ScopeRows, RowsOf
<1>4. SweptRow(p)'
  <2> SUFFICES ASSUME procs[p].op \in RowOps, procs[p].step = 1
               PROVE  DeviceKeys({procs[p].row}) \subseteq keys
    BY <1>0, <1>1 DEF SweptRow, DeviceKeys
  <2>1. Statement(p) = "readRow"
    BY <1>0, Places DEF KeysRead, RowOps
  <2> QED BY <2>1 DEF KeysRead
<1>5. SweptConfig(p)'
  <2> SUFFICES ASSUME procs[p].op \in {"deleteVless", "deleteAwg"}
               PROVE  {procs[p].config} \cap (served \cup peers) \subseteq keys
    BY <1>0 DEF SweptConfig
  <2>1. CASE procs[p].step = 1
    <3>1. Statement(p) = "readConfig"
      BY <1>0, <2>1, Places DEF KeysRead
    <3> QED BY <3>1 DEF KeysRead
  <2>2. CASE procs[p].step # 1
    BY <2>2 DEF Swept, SweptConfig
  <2> QED BY <2>1, <2>2
<1>6. SweptConfigs(p, u)'
  <2> SUFFICES ASSUME procs[p].op = "reset", procs[p].step = 3
               PROVE  UserConfigs(u) \subseteq keys
    BY <1>0, <1>1 DEF SweptConfigs, UserConfigs
  <2>1. Statement(p) = "readConfigs"
    BY <1>0, Places DEF KeysRead
  <2> QED BY <2>1 DEF KeysRead, ScopeConfigs
<1> QED BY <1>3, <1>4, <1>5, <1>6

\* keep it when they read,
LEMMA ProcInvReads ==
  ASSUME Owns, Owns', NEW u \in Users, NEW p \in Procs, Reads(p), Touches(p, u)',
         ProcInv(p, u)
  PROVE  ProcInv(p, u)'
<1>0. TypeInv /\ procs[p].op \in OpNames /\ procs[p].step \in Nat \ {0} /\ Shape(procs[p])
  BY ProcFacts DEF Owns
<1>1. PICK keys : KeysRead(p, keys) /\ Follows(p, keys)
  BY <1>0, ReadEffect
<1>2. UNCHANGED dataVars /\ procs[p].todo = {}
  BY <1>0, ReadEffect
<1>3. procs'[p] # Idle
  BY DEF Touches, Idle
<1>4. /\ procs'[p].op = procs[p].op /\ procs'[p].user = procs[p].user
      /\ procs'[p].config = procs[p].config /\ procs'[p].row = procs[p].row
      /\ procs'[p].due = procs[p].due /\ procs'[p].adds = procs[p].adds
      /\ procs'[p].step = procs[p].step + 1 /\ procs'[p].todo = keys
  BY <1>1, <1>3 DEF Follows, Moves
<1>5. Swept(p, u)'
  BY <1>1, <1>2, <1>4, ReadSwept DEF ProcInv
<1>6. procs[p].op = "toggleBlock" => procs[p].step # 1 /\ procs[p].user = u
  BY <1>0, <1>1, <1>4, Places, AccessConstants DEF KeysRead, Touches, Shape
<1>7. AddsKept(p, u)'
  <2> SUFFICES ASSUME procs[p].adds, NEW k \in keys, Belongs(k, u)
               PROVE  k \in Kept(u) /\ ~accounts[u].blocked
    BY <1>2, <1>4 DEF AddsKept, dataVars, Belongs, Kept, DeviceKeys, UserRows, UserConfigs
  <2>1. CASE procs[p].op = "reconcile"
    <3>1. CASE Statement(p) = "readDevices"
      <4>1. PICK r \in Rows : /\ rows[r].key = k /\ k \in Keys /\ ~rows[r].blocked
                              /\ Entitled(rows[r].user)
        BY <1>1, <2>1, <3>1 DEF KeysRead, ScopeRows, DeviceKeys, Rearmed
      <4>2. rows[r].user = u
        BY <4>1, AccessConstants DEF Owns, RowsOwn, Belongs
      <4> QED BY <4>1, <4>2 DEF Kept, DeviceKeys, UserRows, Entitled
    <3>2. CASE Statement(p) # "readDevices"
      <4>1. k \in configs /\ Entitled(OwnerOf[k])
        BY <1>0, <1>1, <2>1, <3>2, Places DEF KeysRead, ScopeConfigs, Rearmed
      <4>2. OwnerOf[k] = u
        BY <4>1, KeptBelongs
      <4> QED BY <4>1, <4>2 DEF Kept, UserConfigs, Entitled
    <3> QED BY <3>1, <3>2
  <2>2. CASE procs[p].op = "toggleBlock"
    <3>1. ~accounts[u].blocked
      BY <1>6, <2>2 DEF ProcInv, Provisioned
    <3>2. k \in Kept(u)
      <4>1. Statement(p) \in {"readDevices", "readConfigs"}
        BY <1>0, <1>1, <2>2, Places DEF KeysRead
      <4> QED BY <1>1, <1>6, <2>2, <4>1
              DEF KeysRead, ScopeRows, RowsOf, ScopeConfigs, Kept
    <3> QED BY <3>1, <3>2
  <2> QED BY <1>0, <2>1, <2>2 DEF Shape
<1>8. procs[p].user = u => Provisioned(p, u)'
  <2>1. procs[p].op \notin {"provision", "createConfig", "ensureConfig"}
    BY <1>0, <1>1, Places DEF KeysRead
  <2> QED BY <1>2, <1>4, <1>6, <2>1 DEF ProcInv, Provisioned, dataVars
<1> QED BY <1>4, <1>5, <1>7, <1>8 DEF ProcInv

\* The account's requests that add keys: what ProcInv says of them.
LEMMA AdderInv ==
  ASSUME Owns', NEW u \in Users, NEW p \in Procs,
         procs'[p].op \in {"provision", "createConfig", "ensureConfig"},
         procs'[p].user = u => Provisioned(p, u)'
  PROVE  ProcInv(p, u)'
<1>1. Shape(procs'[p])
  BY DEF Owns, TypeInv, Shapes
<1>2. ~procs'[p].adds
  BY <1>1 DEF Shape
<1> QED BY <1>2 DEF ProcInv, AddsKept, Swept, SweptDevices, SweptRow, SweptStale, SweptConfig,
                    SweptConfigs, RowOps

\* when they wait or are refused,
LEMMA ProcInvWaits ==
  ASSUME Owns, Owns', NEW u \in Users, NEW p \in Procs, Waits(p), Touches(p, u)',
         ProcInv(p, u)
  PROVE  ProcInv(p, u)'
<1>0. /\ TypeInv /\ procs[p].op \in OpNames /\ procs[p].step \in Nat \ {0} /\ Shape(procs[p])
      /\ accounts' = accounts /\ rows' = rows /\ configs' = configs
  BY ProcFacts, QuietSteps DEF Owns, dataVars
<1>1. procs'[p] # Idle
  BY DEF Touches, Idle
<1>2. ~Refuse(p)
  BY <1>0, <1>1 DEF Refuse, TypeInv
<1>3. procs[p].op \in {"provision", "createConfig", "ensureConfig"}
  BY <1>0, <1>2, Places DEF Waits, Gate, Lock, Check, CountConfigs, At
<1>4. /\ procs'[p].op = procs[p].op /\ procs'[p].user = procs[p].user
      /\ procs'[p].row = procs[p].row /\ procs'[p].step = procs[p].step + 1
      /\ procs'[p].config = procs[p].config
  <2>1. CASE Gate(p)
    BY <1>0, <1>1, <2>1, GateEffect DEF Moves
  <2>2. CASE ~Gate(p)
    <3>1. Advance(p, procs[p]) /\ ~Ended(procs[p]) /\ procs[p].todo = {}
      BY <1>0, <1>2, <2>2, ProcFacts DEF Waits, Lock, Check, CountConfigs, At
    <3> QED BY <1>0, <1>1, <3>1, SameMoves DEF Follows, Moves
  <2> QED BY <2>1, <2>2
<1>5. ASSUME procs[p].user = u
      PROVE  Provisioned(p, u)'
  <2>1. CASE procs[p].op = "provision"
    <3>1. ~accounts[u].blocked
      <4>1. CASE Gate(p)
        BY <1>5, <4>1 DEF Gate, Entitled
      <4>2. CASE ~Gate(p)
        <5>1. procs[p].step # 1
          BY <1>0, <1>2, <2>1, <4>2, Places DEF Waits, Lock, Check, CountConfigs, At
        <5> QED BY <1>5, <2>1, <5>1 DEF ProcInv, Provisioned
      <4> QED BY <4>1, <4>2
    <3> QED BY <1>0, <1>4, <1>5, <2>1, <3>1 DEF ProcInv, Provisioned
  <2>2. CASE procs[p].op \in {"createConfig", "ensureConfig"}
    <3>1. procs[p].step # 3
      BY <1>0, <1>2, <2>2, Places DEF Waits, Gate, Lock, Check, CountConfigs, At
    <3> QED BY <1>0, <1>4, <1>5, <2>2, <3>1 DEF ProcInv, Provisioned
  <2> QED BY <1>3, <2>1, <2>2
<1> QED BY <1>3, <1>4, <1>5, AdderInv

\* (a loss disturbs everybody the request touches)
LEMMA LosesDisturbs ==
  ASSUME NEW p \in Procs, Loses(p), NEW u \in Users, u \notin disturbed'
  PROVE  ~Touches(p, u)
  BY TouchesConcerns DEF Loses, SkipStatement, CallFails, CutOff

\* when they make a call,
LEMMA ProcInvCall ==
  ASSUME Owns, Owns', NEW u \in Users, NEW p \in Procs, Call(p), Touches(p, u)', ProcInv(p, u)
  PROVE  ProcInv(p, u)'
<1>0. /\ TypeInv /\ Shape(procs[p])
      /\ accounts' = accounts /\ rows' = rows /\ configs' = configs /\ minted' = minted
  BY ProcFacts DEF Owns, Call
<1>1. PICK k \in procs[p].todo :
        /\ Go(p, [procs[p] EXCEPT !.todo = @ \ {k}])
        /\ IF procs[p].adds THEN served' = served \cup {k} /\ UNCHANGED peers
           ELSE served' = served \ {k} /\ peers' = peers \ {k}
  BY DEF Call
<1>2. procs'[p] # Idle
  BY DEF Touches, Idle
<1>3. /\ procs'[p].op = procs[p].op /\ procs'[p].user = procs[p].user
      /\ procs'[p].config = procs[p].config /\ procs'[p].row = procs[p].row
      /\ procs'[p].step = procs[p].step /\ procs'[p].adds = procs[p].adds
      /\ procs'[p].todo = procs[p].todo \ {k}
  BY <1>0, <1>1, <1>2, CallEffect DEF Calls
<1>4. AddsKept(p, u)'
  BY <1>0, <1>3 DEF ProcInv, AddsKept, Belongs, Kept, DeviceKeys, UserRows, UserConfigs
<1>5. procs[p].user = u => Provisioned(p, u)'
  BY <1>0, <1>3 DEF ProcInv, Provisioned
<1>6. Swept(p, u)'
  <2>1. CASE procs[p].adds
    <3>1. procs'[p].op \in {"reconcile", "toggleBlock"}
      BY <1>0, <1>3, <2>1 DEF Shape
    <3> QED BY <3>1 DEF Swept, SweptDevices, SweptRow, SweptStale, SweptConfig, SweptConfigs,
                        RowOps
  <2>2. CASE ~procs[p].adds
    <3>1. served' = served \ {k} /\ peers' = peers \ {k}
      BY <1>1, <2>2
    <3>2. SweptStale(p, u)'
      BY <1>0, <1>3, <3>1 DEF ProcInv, Swept, SweptStale, DeviceKeys, UserRows
    <3>3. procs[p].user = u => SweptDevices(p, u)' /\ SweptRow(p)'
      BY <1>0, <1>3, <3>1 DEF ProcInv, Swept, SweptDevices, SweptRow, DeviceKeys, UserRows
    <3>4. procs[p].user = u => SweptConfig(p)' /\ SweptConfigs(p, u)'
      BY <1>0, <1>3, <3>1 DEF ProcInv, Swept, SweptConfig, SweptConfigs, UserConfigs
    <3> QED BY <1>3, <3>2, <3>3, <3>4 DEF Swept
  <2> QED BY <2>1, <2>2
<1> QED BY <1>3, <1>4, <1>5, <1>6 DEF ProcInv

\* The statements that delete what was swept.
LEMMA ProcInvWipes ==
  ASSUME Owns, Owns', NEW u \in Users, NEW p \in Procs,
         WipeDevices(p) \/ DeleteRow(p) \/ WipeStale(p) \/ BlockRow(p) \/ DropConfigs(p),
         Touches(p, u)', ProcInv(p, u)
  PROVE  ProcInv(p, u)'
<1>0. /\ TypeInv /\ procs[p].op \in OpNames /\ procs[p].step \in Nat \ {0} /\ Shape(procs[p])
      /\ served' = served /\ peers' = peers
  BY ProcFacts DEF Owns, WipeDevices, DeleteRow, WipeStale, Wipe, BlockRow, DropConfigs
<1>1. procs'[p] # Idle
  BY DEF Touches, Idle
<1>2. Advance(p, procs[p]) /\ ~Ended(procs[p]) /\ procs[p].todo = {}
  BY <1>0, ProcFacts DEF WipeDevices, DeleteRow, WipeStale, Wipe, BlockRow, DropConfigs, At
<1>3. /\ procs'[p].op = procs[p].op /\ procs'[p].user = procs[p].user
      /\ procs'[p].config = procs[p].config /\ procs'[p].row = procs[p].row
      /\ procs'[p].step = procs[p].step + 1 /\ procs'[p].todo = {}
  BY <1>0, <1>1, <1>2, SameMoves DEF Follows, Moves
<1>4. \/ procs[p].op = "deleteVless" /\ procs[p].step \in {3, 4}
      \/ procs[p].op \in {"resetSessions", "suspend", "reset", "deleteAwg"} /\ procs[p].step = 2
      \/ procs[p].op \in RowOps \cup {"cleanup"} /\ procs[p].step = 2
      \/ procs[p].op = "reset" /\ procs[p].step = 4
  BY <1>0, Places DEF WipeDevices, DeleteRow, WipeStale, BlockRow, DropConfigs, At, RowOps
<1>5. AddsKept(p, u)'
  BY <1>3 DEF AddsKept
<1>6. Provisioned(p, u)'
  BY <1>3, <1>4 DEF Provisioned, RowOps
<1>7. SweptStale(p, u)'
  BY <1>3, <1>4 DEF SweptStale, RowOps
<1>8. procs[p].user = u => SweptConfig(p)'
  BY <1>0, <1>2, <1>3, <1>4 DEF ProcInv, Swept, SweptConfig, RowOps
<1>9. SweptDevices(p, u)' /\ SweptRow(p)' /\ SweptConfigs(p, u)'
  BY <1>3, <1>4 DEF SweptDevices, SweptRow, SweptConfigs, RowOps
<1> QED BY <1>3, <1>5, <1>6, <1>7, <1>8, <1>9 DEF ProcInv, Swept

\* flip a block,
LEMMA ProcInvToggle ==
  ASSUME Owns, Owns', NEW u \in Users, NEW p \in Procs, Toggle(p), Touches(p, u)'
  PROVE  ProcInv(p, u)'
<1>0. TypeInv
  BY DEF Owns
<1>1. procs'[p] # Idle
  BY DEF Touches, Idle
<1>2. /\ procs'[p].op = "toggleBlock" /\ procs'[p].user = procs[p].user
      /\ procs'[p].todo = {} /\ procs'[p].adds = accounts[procs[p].user].blocked
  BY <1>0, <1>1, ToggleEffect DEF Moves
<1>3. procs[p].user = u => procs'[p].adds = ~accounts'[u].blocked
  <2>1. accounts[u] \in Account
    BY DEF Owns, TypeInv, DataOK
  <2>2. procs[p].user = u => accounts' = [accounts EXCEPT ![u].blocked = ~@]
    BY DEF Toggle
  <2>3. procs[p].user = u => accounts'[u].blocked = ~accounts[u].blocked
    BY <2>1, <2>2 DEF Owns, TypeInv, DataOK, Account
  <2>4. CASE accounts[u].blocked
    BY <1>2, <2>1, <2>3, <2>4 DEF Account
  <2>5. CASE ~accounts[u].blocked
    BY <1>2, <2>1, <2>3, <2>5 DEF Account
  <2> QED BY <2>4, <2>5
<1>4. procs[p].user = u => Provisioned(p, u)'
  BY <1>2, <1>3 DEF Provisioned
<1> QED BY <1>2, <1>4 DEF ProcInv, AddsKept, Swept, SweptDevices, SweptRow,
                          SweptStale, SweptConfig, SweptConfigs, RowOps

\* provision a device
LEMMA ProcInvProvision ==
  ASSUME Owns, Owns', NEW u \in Users, NEW p \in Procs,
         Lookup(p) \/ Register(p) \/ Store(p) \/ Visit(p), Touches(p, u)', ProcInv(p, u)
  PROVE  ProcInv(p, u)'
<1>0. TypeInv /\ procs[p].op \in OpNames /\ procs[p].step \in Nat \ {0}
  BY ProcFacts DEF Owns
<1>1. procs'[p] # Idle
  BY DEF Touches, Idle
<1>2. ~Store(p)
  BY <1>1 DEF Store, Owns, TypeInv
<1>3. CASE Visit(p)
  <2>1. Statement(p) \in {"touch", "enter"} /\ procs[p].op = "visit" /\ procs[p].todo = {}
    BY <1>0, <1>3, Places DEF Visit, At
  <2>2. Advance(p, procs[p]) /\ ~Ended(procs[p])
    BY <1>0, <1>1, <1>3, <2>1, ProcFacts DEF Visit, TypeInv
  <2>3. procs'[p].op = "visit" /\ procs'[p].todo = {}
    BY <1>0, <1>1, <2>1, <2>2, SameMoves DEF Follows, Moves
  <2> QED BY <2>3 DEF ProcInv, AddsKept, Provisioned, Swept, SweptDevices, SweptRow,
                      SweptStale, SweptConfig, SweptConfigs, RowOps
<1>4. ASSUME Lookup(p) \/ Register(p), procs[p].user = u
      PROVE  /\ procs'[p].op = "provision" /\ ~accounts'[u].blocked
             /\ procs'[p].row # Null => /\ rows'[procs'[p].row].user = u
                                        /\ ~rows'[procs'[p].row].blocked
                                        /\ rows'[procs'[p].row].key = Null
  <2>1. procs[p].op = "provision" /\ procs[p].step \in {2, 4}
    BY <1>0, <1>4, LookupEffect, RegisterEffect
  <2>2. ~accounts[u].blocked /\ accounts' = accounts
    BY <1>4, <2>1 DEF ProcInv, Provisioned, Lookup, Register
  <2>3. procs[p].row # Null => /\ rows[procs[p].row].user = u /\ ~rows[procs[p].row].blocked
                               /\ rows[procs[p].row].key = Null
    BY <1>4, <2>1 DEF ProcInv, Provisioned
  <2>4. CASE Register(p)
    <3>1. procs'[p].op = procs[p].op /\ procs'[p].row = procs[p].row /\ rows' = rows
      BY <1>0, <1>1, <2>4, RegisterEffect DEF Register, Moves
    <3> QED BY <2>1, <2>2, <2>3, <3>1
  <2>5. CASE Lookup(p)
    <3>1. rows' = rows
      BY <1>1, <2>5 DEF Lookup, Owns, TypeInv
    <3>2. \/ \E r \in Matching(p) :
               /\ ~rows[r].blocked /\ rows[r].key = Null
               /\ procs'[p].op = procs[p].op /\ procs'[p].row = r
          \/ procs'[p].op = procs[p].op /\ procs'[p].row = procs[p].row
      <4>1. procs' # [procs EXCEPT ![p] = Idle]
        BY <1>1 DEF Owns, TypeInv
      <4> QED BY <1>0, <1>1, <2>5, <4>1, LookupEffect DEF Moves, Follows
    <3> QED BY <1>4, <2>1, <2>2, <2>3, <3>1, <3>2 DEF Matching, UserRows
  <2> QED BY <1>4, <2>4, <2>5
<1>5. CASE Lookup(p) \/ Register(p)
  <2>1. procs'[p].op = "provision" /\ procs'[p].user = procs[p].user
    <3>1. procs' # [procs EXCEPT ![p] = Idle]
      BY <1>1 DEF Owns, TypeInv
    <3> QED BY <1>0, <1>1, <1>5, <3>1, LookupEffect, RegisterEffect DEF Moves, Follows
  <2>2. procs[p].user = u => Provisioned(p, u)'
    BY <1>4, <1>5, <2>1 DEF Provisioned
  <2> QED BY <2>1, <2>2, AdderInv
<1> QED BY <1>2, <1>3, <1>5

\* or create a config.
LEMMA ProcInvConfigs ==
  ASSUME Owns, Owns', NEW u \in Users, u \notin disturbed', NEW p \in Procs,
         Arm(p) \/ Insert(p), Touches(p, u)', ProcInv(p, u)
  PROVE  ProcInv(p, u)'
<1>0. TypeInv /\ procs[p].op \in OpNames /\ procs[p].step \in Nat \ {0}
  BY ProcFacts DEF Owns
<1>1. procs'[p] # Idle
  BY DEF Touches, Idle
<1>2. Advance(p, procs[p]) /\ ~Ended(procs[p]) /\ procs[p].todo = {}
  BY <1>0, <1>1, ProcFacts DEF Arm, Insert, At, TypeInv
<1>3. /\ procs'[p].op = procs[p].op /\ procs'[p].user = procs[p].user
      /\ procs'[p].config = procs[p].config /\ procs'[p].step = procs[p].step + 1
  BY <1>0, <1>1, <1>2, SameMoves DEF Follows, Moves
<1>4. /\ procs[p].op \in {"createConfig", "ensureConfig"}
      /\ Arm(p) /\ procs[p].op = "ensureConfig" => procs[p].step = 4
  BY <1>0, Places DEF Arm, Insert, At
<1>5. accounts' = accounts /\ (Insert(p) => procs[p].config \in configs')
  BY <1>1 DEF Arm, Insert, Owns, TypeInv
<1>6. ASSUME procs[p].user = u
      PROVE  Provisioned(p, u)'
  BY <1>3, <1>4, <1>5, <1>6 DEF ProcInv, Provisioned
<1> QED BY <1>3, <1>4, <1>6, AdderInv

\* A step of one request moves that one only.
LEMMA ActorMoves ==
  ASSUME TypeInv, [Next]_vars, NEW p \in Procs, ProcSteps(p)
  PROVE  Others(p)
<1>1. CASE AccountStep(p)
  BY <1>1, BeginEffect, SuspendEffect DEF AccountStep, Begins, Continues
<1>2. CASE Reads(p)
  BY <1>2, ReadEffect DEF Follows, Moves
<1>3. ASSUME NEW proc, Go(p, proc)
      PROVE  Others(p)
  BY <1>3, GoEffect
<1>4. ASSUME procs' = [procs EXCEPT ![p] = Idle]
      PROVE  Others(p)
  BY <1>4 DEF Others, TypeInv
<1>5. ASSUME NEW proc, Advance(p, proc)
      PROVE  Others(p)
  BY <1>3, <1>5 DEF Advance
<1>6. CASE Waits(p) \/ Loses(p)
  BY <1>3, <1>4, <1>5, <1>6 DEF Waits, Loses, Gate, Lock, Check, CountConfigs, Refuse,
     SkipStatement, CallFails, CutOff
<1>7. CASE Changes(p)
  BY <1>3, <1>4, <1>5, <1>7 DEF Changes, Call, WipeDevices, DeleteRow, WipeStale, Wipe, BlockRow,
     DropConfigs, Toggle, DropUser, Lookup, Register, Store, Visit, Arm, Insert
<1> QED BY <1>1, <1>2, <1>6, <1>7 DEF ProcSteps

\* The acting request keeps its invariant,
LEMMA ProcInvSelf ==
  ASSUME Owns, Owns', [Next]_vars, NEW u \in Users, u \notin disturbed', accounts'[u].exists,
         NEW p \in Procs, ProcSteps(p), ProcInv(p, u)
  PROVE  ProcInv(p, u)'
<1>0. TypeInv
  BY DEF Owns
<1>1. CASE ~Touches(p, u)'
  BY <1>1, ElsewhereNext DEF ElsewhereFine
<1>2. CASE AccountStep(p)
  BY <1>2, ProcInvBegins
<1>3. CASE Touches(p, u)' /\ (Reads(p) \/ Waits(p))
  BY <1>3, ProcInvReads, ProcInvWaits
<1>4. CASE Loses(p)
  <2>1. ~Touches(p, u)
    BY <1>4, LosesDisturbs
  <2>2. UNCHANGED dataVars
    BY <1>0, <1>4, QuietSteps
  <2>3. procs'[p].op = "idle" \/ (Touches(p, u)' => Touches(p, u))
    <3>1. CASE CutOff(p)
      BY <3>1 DEF CutOff, Owns, TypeInv, Idle
    <3>2. CASE SkipStatement(p)
      <4>1. Follows(p, {})
        <5>1. Advance(p, procs[p]) /\ ~Ended(procs[p]) /\ procs[p].todo = {}
          BY <1>0, <3>2, ProcFacts DEF SkipStatement, At
        <5> QED BY <1>0, <5>1, SameMoves
      <4> QED BY <4>1 DEF Follows, Moves, Touches, Idle
    <3>3. CASE CallFails(p)
      <4>1. PICK k \in procs[p].todo : Calls(p, k)
        BY <1>0, <3>3, CallEffect DEF CallFails
      <4> QED BY <4>1 DEF Calls, Touches, Idle
    <3> QED BY <1>4, <3>1, <3>2, <3>3 DEF Loses
  <2> QED BY <1>1, <2>1, <2>3 DEF Touches
<1>5. CASE Touches(p, u)' /\ Changes(p)
  <2>1. ~DropUser(p)
    <3> SUFFICES ASSUME DropUser(p)
                 PROVE  FALSE
      OBVIOUS
    <3>1. procs[p].op = "purge" /\ procs[p].todo = {} /\ ~Ended(procs[p])
      BY <1>0, ProcFacts, Places DEF DropUser, At
    <3>2. procs[p].user = u
      <4>1. Follows(p, {})
        BY <1>0, <3>1, SameMoves DEF DropUser
      <4>2. procs'[p] # Idle
        BY <1>5 DEF Touches, Idle
      <4>3. Touches(p, u)
        BY <1>5, <4>1, <4>2 DEF Follows, Moves, Touches
      <4> QED BY <1>0, <3>1, <4>3, TouchesUser DEF RequestOps
    <3>3. ~accounts'[u].exists
      BY <3>2 DEF DropUser, Owns, TypeInv, DataOK, Account
    <3> QED BY <3>3
  <2> QED BY <1>5, <2>1, ProcInvCall, ProcInvWipes, ProcInvToggle, ProcInvProvision,
             ProcInvConfigs DEF Changes
<1> QED BY <1>1, <1>2, <1>3, <1>4, <1>5 DEF ProcSteps

\* and so does every request.
LEMMA ProcInvStep ==
  ASSUME Owns, Owns', [Next]_vars, NEW u \in Users, u \notin disturbed', accounts'[u].exists,
         Alone(u), BlockedRows(u), NEW q \in Procs, ProcInv(q, u)
  PROVE  ProcInv(q, u)'
<1>0. TypeInv
  BY DEF Owns
<1>1. CASE UNCHANGED vars
  <2>1. Shrinks(u) /\ Stays(u)
    BY <1>1, Quiet DEF vars, dataVars
  <2> QED BY <1>1, <2>1, ProcStays DEF vars
<1>2. CASE WorldStep /\ procs' = procs
  BY <1>2, ProcInvWorld
<1>3. ASSUME NEW p \in Procs, ProcSteps(p)
      PROVE  ProcInv(q, u)'
  <2>1. CASE q = p
    BY <1>3, <2>1, ProcInvSelf
  <2>2. CASE q # p
    <3>1. procs'[q] = procs[q]
      BY <1>0, <1>3, <2>2, ActorMoves DEF Others
    <3> QED BY <1>3, <2>2, <3>1, ProcInvOthers
  <2> QED BY <2>1, <2>2
<1> QED BY <1>0, <1>1, <1>2, <1>3, StepsOf

\* Blocked rows have no key of their own.
LEMMA BlockedRowsStep ==
  ASSUME Owns, [Next]_vars, NEW u \in Users, BlockedRows(u), \A p \in Procs : ProcInv(p, u)
  PROVE  BlockedRows(u)'
<1> SUFFICES ASSUME NEW r \in Rows, rows'[r].user = u, rows'[r].blocked, rows'[r].key \in Keys
             PROVE  FALSE
  BY DEF BlockedRows, UserRows
<1>0. TypeInv /\ u # Null
  BY AccessConstants DEF Owns
<1>1. rows'[r] # NoRow
  BY <1>0 DEF NoRow
<1>2. ~RowKept(r)
  BY <1>1, AccessConstants DEF RowKept, BlockedRows, UserRows
<1>3. \A p \in Procs : ~RowKeyed(p, r)
  <2> SUFFICES ASSUME NEW p \in Procs, RowKeyed(p, r)
               PROVE  FALSE
    OBVIOUS
  <2>1. procs[p].user = u /\ procs[p].row # Null
    BY AccessConstants DEF RowKeyed, Owns, RowsKnown
  <2> QED BY <2>1 DEF RowKeyed, ProcInv, Provisioned
<1>4. \A p \in Procs : \A key : ~RowMade(p, r, key)
  BY DEF RowMade
<1> QED BY <1>0, <1>2, <1>3, <1>4, RowEffect

\* Only Store and Insert leave the state in which a key is about to be stored.
LEMMA NotFresh ==
  ASSUME TypeInv, NEW p \in Procs, ProcSteps(p), ~Store(p), ~Insert(p), ~Loses(p)
  PROVE  \A k : ~Fresh(p, k)
<1>0. procs[p].op \in OpNames /\ procs[p].step \in Nat \ {0} /\ Shape(procs[p])
  BY ProcFacts
<1> DEFINE Stored == \/ procs[p].op = "provision" /\ procs[p].step = 5
                     \/ procs[p].op = "createConfig" /\ procs[p].step = 3
<1>1. CASE AccountStep(p)
  <2>1. procs[p].op \in {"idle", "suspend"}
    BY <1>0, <1>1 DEF AccountStep, BeginDevice, BeginRow, BeginAccount, BeginCreate,
       BeginDelete, BeginJob, BeginRevoke, SuspendNext, Start, Shape
  <2> QED BY <2>1 DEF Fresh
<1>2. CASE Reads(p)
  <2>1. PICK keys : KeysRead(p, keys)
    BY <1>2, ReadEffect
  <2>2. ~Stored
    BY <1>0, <2>1, Places DEF KeysRead
  <2> QED BY <2>2 DEF Fresh
<1>3. CASE Waits(p)
  <2>1. ~Stored
    BY <1>0, <1>3, Places DEF Waits, Gate, Lock, Check, CountConfigs, Refuse, At
  <2> QED BY <2>1 DEF Fresh
<1>4. CASE Call(p)
  <2>1. procs[p].todo # {}
    BY <1>4 DEF Call
  <2> QED BY <1>0, <2>1 DEF Shape, Fresh
<1>5. CASE WipeDevices(p) \/ DeleteRow(p) \/ WipeStale(p) \/ BlockRow(p) \/ DropConfigs(p)
  <2>1. ~Stored
    BY <1>0, <1>5, Places DEF WipeDevices, DeleteRow, WipeStale, BlockRow, DropConfigs, At
  <2> QED BY <2>1 DEF Fresh
<1>6. CASE Toggle(p) \/ DropUser(p) \/ Lookup(p) \/ Register(p) \/ Visit(p) \/ Arm(p)
  <2>1. Statement(p) \in {"toggle", "dropUser", "lookup", "register", "touch", "enter", "arm"}
    BY <1>6 DEF Toggle, DropUser, Lookup, Register, Visit, Arm, At
  <2>2. ~Stored
    BY <1>0, <2>1, Places
  <2> QED BY <2>2 DEF Fresh
<1> QED BY <1>1, <1>2, <1>3, <1>4, <1>5, <1>6 DEF ProcSteps, Changes

FreshStays(u) ==
    \A q \in Procs : \A k : procs[q].user = u /\ Fresh(q, k) =>
      procs'[q].user = u /\ Fresh(q, k)'

\* Keys that others just registered stay fresh.
LEMMA FreshOthers ==
  ASSUME NEW u, NEW p \in Procs, Others(p), procs[p].user = u => \A k : ~Fresh(p, k)
  PROVE  FreshStays(u)
  BY DEF FreshStays, Others, Fresh

\* Accepted keys stay accounted for when what accounts for them stays,
LEMMA AccountedKeeps ==
  ASSUME Owns, NEW u \in Users, Accounted(u), FreshStays(u),
         \A k \in served' : Belongs(k, u)' => Belongs(k, u) /\ (k \in served \/ k \in configs),
         \A k \in Kept(u) : k \in served \cup configs => k \in Kept(u)' \/ k \notin served'
  PROVE  Accounted(u)'
<1> SUFFICES ASSUME NEW k \in served', Belongs(k, u)'
             PROVE  k \in Kept(u)' \/ \E p \in Procs : procs'[p].user = u /\ Fresh(p, k)'
  BY DEF Accounted
<1>1. Belongs(k, u) /\ (k \in served \/ k \in configs)
  OBVIOUS
<1>2. k \in Kept(u) \/ \E p \in Procs : procs[p].user = u /\ Fresh(p, k)
  <2>1. k \in configs => k \in Kept(u)
    BY <1>1, KeptBelongs DEF Kept, UserConfigs
  <2> QED BY <1>1, <2>1 DEF Accounted
<1> QED BY <1>1, <1>2 DEF FreshStays

\* when nothing of the account changes,
LEMMA AccountedQuiet ==
  ASSUME Owns, Owns', NEW u \in Users, Accounted(u), FreshStays(u), Shrinks(u), Stays(u)
  PROVE  Accounted(u)'
<1>1. served' \subseteq AllKeys
  BY DEF Owns, TypeInv, DataOK
<1>2. \A k \in served' : Belongs(k, u)' => Belongs(k, u) /\ (k \in served \/ k \in configs)
  BY <1>1 DEF Shrinks
<1> QED BY <1>2, StaysKept, AccountedKeeps

\* when rows go after their keys,
LEMMA AccountedRemoves ==
  ASSUME Owns, Owns', NEW u \in Users, Accounted(u), NEW p \in Procs, ProcInv(p, u),
         FreshStays(u),
         WipeDevices(p) \/ DeleteRow(p) \/ WipeStale(p) \/ BlockRow(p) \/ DropConfigs(p)
  PROVE  Accounted(u)'
<1>0. /\ TypeInv /\ procs[p].op \in OpNames /\ procs[p].step \in Nat \ {0} /\ Shape(procs[p])
      /\ served' = served /\ minted' = minted /\ procs[p].todo = {}
  BY ProcFacts DEF Owns, WipeDevices, DeleteRow, WipeStale, Wipe, BlockRow, DropConfigs, At
<1>1. \A k \in served' : Belongs(k, u)' => Belongs(k, u) /\ k \in served
  BY <1>0 DEF Belongs
<1>2. ASSUME NEW k \in Kept(u), k \in served, k \notin Kept(u)'
      PROVE  FALSE
  <2>1. CASE k \in UserConfigs(u)
    <3>1. DropConfigs(p) /\ k \in configs /\ OwnerOf[k] = u /\ k \notin configs'
      BY <1>2, <2>1 DEF WipeDevices, DeleteRow, WipeStale, Wipe, BlockRow, DropConfigs,
                        Kept, UserConfigs
    <3>2. CASE Statement(p) = "dropConfigs"
      <4>1. procs[p].op = "reset" /\ procs[p].step = 4
        BY <1>0, <3>2, Places
      <4>2. procs[p].user = u
        BY <3>1, <3>2 DEF DropConfigs, At, UserConfigs
      <4> QED BY <1>0, <1>2, <2>1, <4>1, <4>2 DEF ProcInv, Swept, SweptConfigs
    <3>3. CASE Statement(p) = "dropConfig"
      <4>1. procs[p].op \in {"deleteVless", "deleteAwg"} /\ procs[p].step # 1
        BY <1>0, <3>3, Places
      <4>2. procs[p].config = k
        BY <3>1, <3>3 DEF DropConfigs, At
      <4>3. procs[p].user = u
        BY <1>0, <3>1, <4>1, <4>2 DEF Shape, ConfigOps
      <4> QED BY <1>0, <1>2, <4>1, <4>2, <4>3 DEF ProcInv, Swept, SweptConfig
    <3> QED BY <3>1, <3>2, <3>3 DEF DropConfigs, At
  <2>2. CASE k \in DeviceKeys(UserRows(u))
    <3>1. PICK r \in Rows : rows[r].user = u /\ rows[r].key = k /\ k \in Keys
      BY <2>2 DEF DeviceKeys, UserRows
    <3>2. rows'[r] # rows[r]
      BY <1>2, <3>1 DEF Kept, DeviceKeys, UserRows
    <3>3. CASE WipeDevices(p)
      <4>1. procs[p].user = u
        BY <3>1, <3>2, <3>3 DEF WipeDevices, Wipe, UserRows
      <4>2. \/ procs[p].op = "deleteVless" /\ procs[p].step = 3
            \/ procs[p].op \in {"resetSessions", "suspend", "reset"} /\ procs[p].step = 2
        BY <1>0, <3>3, Places DEF WipeDevices, At
      <4> QED BY <1>0, <1>2, <2>2, <4>1, <4>2 DEF ProcInv, Swept, SweptDevices
    <3>4. CASE DeleteRow(p) \/ BlockRow(p)
      <4>1. procs[p].row = r
        BY <3>2, <3>4 DEF DeleteRow, BlockRow, Wipe, Owns, TypeInv, DataOK
      <4>2. procs[p].user = u
        BY <3>1, <4>1, AccessConstants DEF Owns, RowsKnown, NoRow
      <4>3. procs[p].op \in RowOps /\ procs[p].step = 2
        BY <1>0, <3>4, Places DEF DeleteRow, BlockRow, At, RowOps
      <4> QED BY <1>0, <1>2, <3>1, <4>1, <4>2, <4>3 DEF ProcInv, Swept, SweptRow, DeviceKeys
    <3>5. CASE WipeStale(p)
      <4>1. rows[r].stale /\ ~rows[r].blocked
        BY <3>2, <3>5 DEF WipeStale, Wipe
      <4>2. procs[p].op = "cleanup" /\ procs[p].step = 2
        BY <1>0, <3>5, Places DEF WipeStale, At
      <4> QED BY <1>0, <1>2, <3>1, <4>1, <4>2
              DEF ProcInv, Swept, SweptStale, DeviceKeys, UserRows
    <3>6. CASE DropConfigs(p)
      BY <3>2, <3>6 DEF DropConfigs
    <3> QED BY <3>3, <3>4, <3>5, <3>6
  <2> QED BY <2>1, <2>2 DEF Kept
<1>3. ASSUME NEW k \in Kept(u), k \in served'
      PROVE  k \in Kept(u)'
  BY <1>0, <1>2, <1>3
<1> QED BY <1>1, <1>3, AccountedKeeps

\* when a device is seen,
LEMMA AccountedSeen ==
  ASSUME Owns, Owns', NEW u \in Users, Accounted(u), NEW p \in Procs, FreshStays(u),
         Toggle(p) \/ Lookup(p) \/ Visit(p)
  PROVE  Accounted(u)'
<1>0. /\ configs' = configs /\ served' = served /\ minted' = minted
      /\ procs[p].op \in OpNames /\ procs[p].step \in Nat \ {0} /\ Shape(procs[p])
  BY ProcFacts DEF Toggle, Lookup, Visit, Owns
<1>1. ASSUME NEW r \in Rows, rows[r].user = u
      PROVE  rows'[r].user = u /\ rows'[r].key = rows[r].key
  <2>1. rows[r] # NoRow
    BY <1>1, AccessConstants DEF NoRow
  <2>2. rows'[r] = rows[r] \/ rows'[r] = [rows[r] EXCEPT !.stale = FALSE]
    <3>1. CASE Toggle(p)
      BY <3>1 DEF Toggle
    <3>2. CASE Lookup(p)
      BY <3>2 DEF Lookup, Owns, TypeInv, DataOK
    <3>3. CASE Visit(p)
      BY <2>1, <3>3, VisitRows
    <3> QED BY <3>1, <3>2, <3>3
  <2> QED BY <1>1, <2>1, <2>2, SeenAgain
<1>2. \A k \in Kept(u) : k \in Kept(u)'
  BY <1>0, <1>1 DEF Kept, DeviceKeys, UserRows, UserConfigs
<1> QED BY <1>0, <1>2, AccountedKeeps DEF Belongs

\* when a call is made,
LEMMA AccountedCall ==
  ASSUME Owns, Owns', NEW u \in Users, Accounted(u), NEW p \in Procs, ProcInv(p, u),
         FreshStays(u), Call(p)
  PROVE  Accounted(u)'
<1>0. configs' = configs /\ rows' = rows /\ minted' = minted
  BY DEF Call
<1>1. PICK k \in procs[p].todo :
        IF procs[p].adds THEN served' = served \cup {k} ELSE served' = served \ {k}
  BY DEF Call
<1>2. Kept(u)' = Kept(u)
  BY <1>0 DEF Kept, DeviceKeys, UserRows, UserConfigs
<1>3. CASE ~procs[p].adds
  BY <1>0, <1>1, <1>2, <1>3, AccountedKeeps DEF Belongs
<1>4. CASE procs[p].adds
  <2>1. Belongs(k, u) => k \in Kept(u)
    BY <1>4 DEF ProcInv, AddsKept
  <2> SUFFICES ASSUME NEW j \in served', Belongs(j, u)'
               PROVE  j \in Kept(u)' \/ \E q \in Procs : procs'[q].user = u /\ Fresh(q, j)'
    BY DEF Accounted
  <2>2. Belongs(j, u)
    BY <1>0 DEF Belongs
  <2>3. CASE j \in served
    BY <1>2, <2>2, <2>3 DEF Accounted, FreshStays
  <2>4. CASE j = k
    BY <1>2, <2>1, <2>2, <2>4
  <2> QED BY <1>1, <1>4, <2>3, <2>4
<1> QED BY <1>3, <1>4

\* when a key is registered,
LEMMA AccountedRegister ==
  ASSUME Owns, Owns', NEW u \in Users, u \notin disturbed', Accounted(u), NEW p \in Procs,
         Others(p), Register(p), procs[p].user = u, FreshStays(u)
  PROVE  Accounted(u)'
<1>0. TypeInv /\ configs' = configs /\ rows' = rows
  BY DEF Owns, Register
<1>1. PICK k \in Keys : /\ minted[k] = Null /\ minted' = [minted EXCEPT ![k] = procs[p].user]
                        /\ served' \in {served, served \cup {k}}
                        /\ Moves(p, {}, procs[p].adds, procs[p].row, k, procs[p].limit)
  BY <1>0, RegisterEffect
<1>2. procs[p].op = "provision" /\ procs[p].step = 4
  BY <1>0, RegisterEffect
<1>3. /\ procs'[p].op = "provision" /\ procs'[p].step = 5 /\ procs'[p].key = k
      /\ procs'[p].user = u
  <2>1. Len(Script["provision"]) = 5
    BY Lengths
  <2> QED BY <1>1, <1>2, <2>1 DEF Moves
<1>4. Kept(u)' = Kept(u)
  BY <1>0 DEF Kept, DeviceKeys, UserRows, UserConfigs
<1> SUFFICES ASSUME NEW j \in served', Belongs(j, u)'
             PROVE  j \in Kept(u)' \/ \E q \in Procs : procs'[q].user = u /\ Fresh(q, j)'
  BY DEF Accounted
<1>5. CASE j = k
  BY <1>3, <1>5 DEF Fresh
<1>6. CASE j # k
  <2>1. j \in AllKeys
    BY DEF Owns, TypeInv, DataOK
  <2>2. Belongs(j, u) /\ j \in served
    BY <1>1, <1>6, <2>1, AccessConstants DEF Belongs, AllKeys, Owns, TypeInv, DataOK
  <2> QED BY <1>4, <2>2 DEF Accounted, FreshStays
<1> QED BY <1>5, <1>6

\* when a config's key is,
LEMMA AccountedArm ==
  ASSUME Owns, Owns', NEW u \in Users, u \notin disturbed', Accounted(u), NEW p \in Procs,
         ProcInv(p, u), Arm(p), procs[p].user = u, FreshStays(u)
  PROVE  Accounted(u)'
<1>0. /\ TypeInv /\ configs' = configs /\ rows' = rows /\ minted' = minted
      /\ procs[p].op \in OpNames /\ procs[p].step \in Nat \ {0} /\ Shape(procs[p])
  BY ProcFacts DEF Owns, Arm
<1> DEFINE c == procs[p].config
<1>1. served' = served \cup {c} /\ Advance(p, procs[p]) /\ ~Ended(procs[p]) /\ procs[p].todo = {}
  BY <1>0, ProcFacts DEF Arm, At
<1>2. Kept(u)' = Kept(u)
  BY <1>0 DEF Kept, DeviceKeys, UserRows, UserConfigs
<1>3. c \in Kept(u) \/ (procs'[p].user = u /\ \A k : k = c => Fresh(p, k)')
  <2>1. \/ procs[p].op = "ensureConfig" /\ procs[p].step = 4
        \/ procs[p].op = "createConfig" /\ procs[p].step = 2
    BY <1>0, Places DEF Arm, At
  <2>2. CASE procs[p].op = "ensureConfig" /\ procs[p].step = 4
    <3>1. c \in configs /\ OwnerOf[c] = u
      BY <1>0, <2>2 DEF ProcInv, Provisioned, Shape, ConfigOps
    <3> QED BY <3>1 DEF Kept, UserConfigs
  <2>3. CASE procs[p].op = "createConfig" /\ procs[p].step = 2
    <3>1. procs[p].step # Len(Script[procs[p].op])
      <4>1. Len(Script["createConfig"]) = 3
        BY Lengths
      <4> QED BY <2>3, <4>1
    <3>2. /\ procs'[p].op = "createConfig" /\ procs'[p].step = 3 /\ procs'[p].config = c
          /\ procs'[p].user = u
      <4>1. Follows(p, {})
        BY <1>0, <1>1, SameMoves
      <4>2. /\ procs'[p].op = procs[p].op /\ procs'[p].step = procs[p].step + 1
            /\ procs'[p].config = procs[p].config /\ procs'[p].user = procs[p].user
        BY <3>1, <4>1 DEF Follows, Moves
      <4> QED BY <2>3, <4>2
    <3> QED BY <3>2 DEF Fresh
  <2> QED BY <2>1, <2>2, <2>3
<1> SUFFICES ASSUME NEW j \in served', Belongs(j, u)'
             PROVE  j \in Kept(u)' \/ \E q \in Procs : procs'[q].user = u /\ Fresh(q, j)'
  BY DEF Accounted
<1>4. Belongs(j, u)
  BY <1>0 DEF Belongs
<1>5. CASE j \in served
  BY <1>2, <1>4, <1>5 DEF Accounted, FreshStays
<1>6. CASE j = c
  BY <1>2, <1>3, <1>6
<1> QED BY <1>1, <1>5, <1>6

\* when the config is inserted
LEMMA AccountedInsert ==
  ASSUME Owns, Owns', NEW u \in Users, accounts'[u].exists, Accounted(u), NEW p \in Procs,
         Others(p), Insert(p), procs[p].user = u
  PROVE  Accounted(u)'
<1>0. /\ TypeInv /\ rows' = rows /\ minted' = minted /\ accounts' = accounts
      /\ procs[p].op \in OpNames /\ procs[p].step \in Nat \ {0} /\ Shape(procs[p])
  BY ProcFacts DEF Owns, Insert
<1> DEFINE c == procs[p].config
<1>1. served' = served /\ configs' = configs \cup {c}
  BY <1>0 DEF Insert
<1>2. OwnerOf[c] = u
  BY <1>0, Places DEF Insert, At, Shape, ConfigOps
<1>3. \A k \in Kept(u) : k \in Kept(u)'
  BY <1>0, <1>1 DEF Kept, DeviceKeys, UserRows, UserConfigs
<1>4. c \in Kept(u)'
  BY <1>1, <1>2 DEF Kept, UserConfigs
<1>5. \A k : Fresh(p, k) => k = c
  <2>1. procs[p].op # "provision"
    BY <1>0, Places DEF Insert, At
  <2> QED BY <2>1 DEF Fresh
<1> SUFFICES ASSUME NEW j \in served', Belongs(j, u)'
             PROVE  j \in Kept(u)' \/ \E q \in Procs : procs'[q].user = u /\ Fresh(q, j)'
  BY DEF Accounted
<1>6. Belongs(j, u) /\ j \in served
  BY <1>0, <1>1 DEF Belongs
<1>7. CASE j \in Kept(u)
  BY <1>3, <1>7
<1>8. ASSUME NEW q \in Procs, procs[q].user = u, Fresh(q, j)
      PROVE  j \in Kept(u)' \/ (procs'[q].user = u /\ Fresh(q, j)')
  BY <1>4, <1>5, <1>8 DEF Others, Fresh
<1> QED BY <1>6, <1>7, <1>8 DEF Accounted

\* and when the row is stored.
LEMMA AccountedStore ==
  ASSUME Owns, Owns', NEW u \in Users, u \notin disturbed', accounts'[u].exists, Accounted(u),
         NEW p \in Procs, Others(p), Store(p), procs[p].user = u, ProcInv(p, u)
  PROVE  Accounted(u)'
<1>0. /\ TypeInv /\ configs' = configs /\ served' = served /\ minted' = minted
      /\ accounts' = accounts
      /\ procs[p].op \in OpNames /\ procs[p].step \in Nat \ {0} /\ Shape(procs[p])
  BY ProcFacts DEF Owns, Store
<1> DEFINE key == procs[p].key
<1>1. procs[p].op = "provision" /\ u # Null
  BY <1>0, Places, AccessConstants DEF Store, At
<1>2. ASSUME NEW r \in Rows, rows[r].user = u, rows[r].key \in Keys
      PROVE  rows'[r].user = u /\ rows'[r].key = rows[r].key
  <2>1. rows[r] # NoRow /\ rows[r] \in DeviceRow
    BY <1>0, <1>1, <1>2, RowTypes DEF NoRow
  <2>2. CASE procs[p].row = Null
    BY <1>2, <2>1, <2>2 DEF Store, NewRow, Owns, TypeInv, DataOK
  <2>3. CASE procs[p].row # Null
    <3>1. procs[p].row # r
      BY <1>1, <1>2, <2>3, AccessConstants DEF ProcInv, Provisioned
    <3>2. rows'[r] = rows[r]
      BY <2>3, <3>1 DEF Store, Owns, TypeInv, DataOK
    <3> QED BY <1>2, <3>2
  <2> QED BY <2>2, <2>3
<1>3. key \in Keys => \E r \in Rows : rows'[r].user = u /\ rows'[r].key = key
  <2>1. CASE procs[p].row = Null
    <3>1. NewRow(p, key, TRUE)
      BY <1>0, <2>1 DEF Store
    <3> QED BY <3>1 DEF NewRow, Owns, TypeInv, DataOK
  <2>2. CASE procs[p].row # Null
    <3> DEFINE r == procs[p].row
    <3>1. r \in Rows /\ rows[r].user = u
      BY <1>0, <1>1, <2>2, ProcFacts DEF ProcInv, Provisioned, Proc
    <3>2. rows[r] # NoRow /\ rows[r] \in DeviceRow
      BY <1>0, <1>1, <3>1, RowTypes DEF NoRow
    <3>3. rows' = [rows EXCEPT ![r].key = key, ![r].stale = FALSE]
      BY <2>2, <3>2 DEF Store
    <3>4. rows'[r] = [rows[r] EXCEPT !.key = key, !.stale = FALSE]
      BY <3>1, <3>3 DEF Owns, TypeInv, DataOK
    <3>5. rows'[r].user = u /\ rows'[r].key = key
      BY <3>1, <3>2, <3>4 DEF DeviceRow
    <3> QED BY <3>1, <3>5
  <2> QED BY <2>1, <2>2
<1>4. \A k \in Kept(u) : k \in Kept(u)'
  BY <1>0, <1>2 DEF Kept, DeviceKeys, UserRows, UserConfigs
<1>5. \A k : Fresh(p, k) => k \in Kept(u)'
  BY <1>1, <1>3 DEF Fresh, Kept, DeviceKeys, UserRows
<1> SUFFICES ASSUME NEW j \in served', Belongs(j, u)'
             PROVE  j \in Kept(u)' \/ \E q \in Procs : procs'[q].user = u /\ Fresh(q, j)'
  BY DEF Accounted
<1>6. Belongs(j, u) /\ j \in served
  BY <1>0 DEF Belongs
<1>7. CASE j \in Kept(u)
  BY <1>4, <1>7
<1>8. ASSUME NEW q \in Procs, procs[q].user = u, Fresh(q, j)
      PROVE  j \in Kept(u)' \/ (procs'[q].user = u /\ Fresh(q, j)')
  BY <1>5, <1>8 DEF Others, Fresh
<1> QED BY <1>6, <1>7, <1>8 DEF Accounted

\* The account of a request that changes it.
LEMMA RequestTouches ==
  ASSUME Owns, NEW u \in Users, NEW p \in Procs, Touches(p, u),
         \/ DropUser(p) \/ Toggle(p) \/ Lookup(p) \/ Register(p) \/ Store(p) \/ Arm(p) \/ Insert(p)
  PROVE  procs[p].user = u
<1>1. procs[p].op \in RequestOps
  <2>1. Statement(p) \in {"dropUser", "toggle", "lookup", "register", "store", "arm", "insert"}
    BY DEF DropUser, Toggle, Lookup, Register, Store, Arm, Insert, At
  <2> QED BY <2>1, ProcFacts, Places DEF Owns, RequestOps
<1> QED BY <1>1, TouchesUser DEF Owns

\* A deleted account is gone.
LEMMA DropEnds ==
  ASSUME Owns, NEW u \in Users, NEW p \in Procs, DropUser(p), procs[p].user = u
  PROVE  ~accounts'[u].exists
  BY DEF DropUser, Owns, TypeInv, DataOK, Account

\* Accepted keys of an undisturbed account stay accounted for.
LEMMA AccountedStep ==
  ASSUME Owns, Owns', [Next]_vars, NEW u \in Users, u \notin disturbed', accounts'[u].exists,
         Accounted(u), BlockedRows(u), \A p \in Procs : ProcInv(p, u)
  PROVE  Accounted(u)'
<1>0. TypeInv
  BY DEF Owns
<1>1. CASE procs' = procs /\ (UNCHANGED vars \/ WorldStep)
  <2>1. Shrinks(u) /\ Stays(u)
    BY <1>1, Quiet, WorldQuiet DEF vars, dataVars
  <2>2. FreshStays(u)
    BY <1>1 DEF FreshStays, Fresh
  <2> QED BY <2>1, <2>2, AccountedQuiet
<1>2. ASSUME NEW p \in Procs, ProcSteps(p)
      PROVE  Accounted(u)'
  <2>0. Others(p)
    BY <1>0, <1>2, ActorMoves
  <2>1. CASE ~Touches(p, u)
    <3>1. Shrinks(u) /\ Stays(u)
      BY <1>0, <1>2, <2>1, Foreign, QuietSteps, Quiet DEF ProcSteps
    <3>2. FreshStays(u)
      <4>1. procs[p].user = u => \A k : ~Fresh(p, k)
        BY <2>1 DEF Touches, Fresh
      <4> QED BY <2>0, <4>1, FreshOthers
    <3> QED BY <3>1, <3>2, AccountedQuiet
  <2>2. CASE Touches(p, u)
    <3>1. ~Loses(p)
      BY <2>2, LosesDisturbs
    <3>2. CASE Store(p) \/ Insert(p)
      <4>1. procs[p].user = u
        BY <2>2, <3>2, RequestTouches
      <4> QED BY <2>0, <3>2, <4>1, AccountedStore, AccountedInsert
    <3>3. CASE ~Store(p) /\ ~Insert(p)
      <4>1. FreshStays(u)
        BY <1>0, <1>2, <2>0, <3>1, <3>3, NotFresh, FreshOthers
      <4>2. CASE AccountStep(p) \/ Reads(p) \/ Waits(p)
        BY <1>0, <4>1, <4>2, QuietSteps, Quiet, AccountedQuiet
      <4>3. CASE Changes(p)
        <5>1. CASE Register(p) \/ Arm(p) \/ DropUser(p)
          <6>1. procs[p].user = u
            BY <2>2, <5>1, RequestTouches
          <6> QED BY <2>0, <4>1, <5>1, <6>1, AccountedRegister, AccountedArm, DropEnds
        <5>2. CASE ~(Register(p) \/ Arm(p) \/ DropUser(p))
          BY <3>3, <4>1, <4>3, <5>2, AccountedRemoves, AccountedSeen, AccountedCall DEF Changes
        <5> QED BY <5>1, <5>2
      <4> QED BY <1>2, <3>1, <4>2, <4>3 DEF ProcSteps
    <3> QED BY <3>2, <3>3
  <2> QED BY <2>1, <2>2
<1> QED BY <1>0, <1>1, <1>2, StepsOf DEF vars

\* The request that carries the account's block through.
Blocker(p, u) == procs[p].op = "toggleBlock" /\ procs[p].user = u /\ procs[p].step # 1

\* A block stays carried when its request stays and no key is added,
LEMMA CarriedQuiet ==
  ASSUME Owns, Owns', NEW u \in Users, Carried(u), Shrinks(u),
         accounts'[u].blocked = accounts[u].blocked,
         \A q \in Procs : Blocker(q, u) => procs'[q] = procs[q]
  PROVE  Carried(u)'
<1> SUFFICES ASSUME accounts'[u].blocked, NEW k \in served', k \notin Awg, Belongs(k, u)'
             PROVE  (\E p \in Procs :
                       /\ procs[p].op = "toggleBlock" /\ procs[p].user = u /\ procs[p].step # 1
                       /\ procs[p].step = 3 /\ k \in Keys => k \in procs[p].todo
                       /\ procs[p].step = 4 => k \in procs[p].todo)'
  BY DEF Carried
<1>1. k \in served /\ Belongs(k, u)
  BY DEF Shrinks, Owns, TypeInv, DataOK
<1>2. PICK p \in Procs : /\ Blocker(p, u)
                         /\ procs[p].step = 3 /\ k \in Keys => k \in procs[p].todo
                         /\ procs[p].step = 4 => k \in procs[p].todo
  BY <1>1 DEF Carried, Blocker
<1> QED BY <1>2 DEF Blocker

\* when it is flipped,
LEMMA CarriedToggle ==
  ASSUME Owns, NEW u \in Users, NEW p \in Procs, Toggle(p), procs[p].user = u
  PROVE  Carried(u)'
<1>1. procs[p].op = "toggleBlock" /\ procs[p].step = 1
  BY ToggleEffect DEF Owns
<1>2. Moves(p, {}, accounts[u].blocked, procs[p].row, procs[p].key, procs[p].limit)
  BY ToggleEffect DEF Owns
<1>3. procs[p].step # Len(Script[procs[p].op])
  <2>1. Len(Script["toggleBlock"]) = 3
    BY Lengths
  <2> QED BY <1>1, <2>1
<1>4. procs'[p].op = "toggleBlock" /\ procs'[p].user = u /\ procs'[p].step = 2
  BY <1>1, <1>2, <1>3 DEF Moves
<1> QED BY <1>4 DEF Carried

\* when its request reads the keys
LEMMA CarriedReads ==
  ASSUME Owns, Owns', NEW u \in Users, Carried(u), Accounted(u), Alone(u),
         NEW p \in Procs, Reads(p), Blocker(p, u)
  PROVE  Carried(u)'
<1>0. /\ TypeInv /\ procs[p].op \in OpNames /\ procs[p].step \in Nat \ {0}
  BY ProcFacts DEF Owns
<1>1. PICK keys : KeysRead(p, keys) /\ Follows(p, keys)
  BY <1>0, ReadEffect
<1>2. UNCHANGED dataVars /\ procs[p].todo = {}
  BY <1>0, ReadEffect
<1> SUFFICES ASSUME accounts[u].blocked, NEW k \in served, k \notin Awg, Belongs(k, u)
             PROVE  (\E q \in Procs :
                       /\ procs[q].op = "toggleBlock" /\ procs[q].user = u /\ procs[q].step # 1
                       /\ procs[q].step = 3 /\ k \in Keys => k \in procs[q].todo
                       /\ procs[q].step = 4 => k \in procs[q].todo)'
  BY <1>2 DEF Carried, dataVars, Belongs
<1>3. PICK q \in Procs : /\ Blocker(q, u)
                         /\ procs[q].step = 3 /\ k \in Keys => k \in procs[q].todo
                         /\ procs[q].step = 4 => k \in procs[q].todo
  BY DEF Carried, Blocker
<1>4. CASE q # p
  <2>1. procs'[q] = procs[q]
    BY <1>1, <1>4 DEF Follows, Moves, Others
  <2> QED BY <1>3, <2>1 DEF Blocker
<1>5. CASE q = p
  <2>1. k \in Kept(u)
    <3>1. \A f \in Procs : procs[f].user = u => ~Fresh(f, k)
      BY DEF Alone, Touches, Blocker, Fresh, Adding
    <3> QED BY <3>1 DEF Accounted
  <2>2. \/ procs[p].step = 2 /\ Statement(p) = "readDevices"
        \/ procs[p].step = 3 /\ Statement(p) = "readConfigs"
    BY <1>0, <1>1, Places DEF KeysRead, Blocker
  <2>3. /\ Statement(p) = "readDevices" /\ k \in Keys => k \in keys
        /\ Statement(p) = "readConfigs" => k \in keys
    <3>1. CASE Statement(p) = "readDevices" /\ k \in Keys
      <4>1. k \notin UserConfigs(u)
        BY <3>1, AccessConstants DEF UserConfigs, Owns, TypeInv, DataOK
      <4> QED BY <1>1, <2>1, <3>1, <4>1 DEF KeysRead, ScopeRows, RowsOf, Kept, Blocker
    <3>2. CASE Statement(p) = "readConfigs"
      <4>1. k \notin Keys
        BY <1>2, <1>3, <1>5, <2>2, <3>2
      <4> QED BY <1>1, <2>1, <3>2, <4>1 DEF KeysRead, ScopeConfigs, Kept, DeviceKeys, Blocker
    <3> QED BY <3>1, <3>2
  <2>4. Len(Script["toggleBlock"]) = 3
    BY Lengths
  <2>5. procs'[p] # Idle
    <3> SUFFICES ASSUME procs'[p] = Idle
                 PROVE  FALSE
      OBVIOUS
    <3>1. procs[p].step + 1 # procs[p].step
      BY <1>0
    <3>2. keys = {} /\ procs[p].step = 3
      <4>1. Idle.op # "toggleBlock"
        BY DEF Idle
      <4> QED BY <1>1, <2>4, <4>1 DEF Follows, Moves, Blocker
    <3> QED BY <2>2, <2>3, <3>2
  <2>6. /\ procs'[p].op = "toggleBlock" /\ procs'[p].user = u /\ procs'[p].todo = keys
        /\ procs'[p].step = procs[p].step + 1
    BY <1>1, <2>5 DEF Follows, Moves, Blocker
  <2> QED BY <2>2, <2>3, <2>6
<1> QED BY <1>4, <1>5

\* and when it removes them.
LEMMA CarriedCall ==
  ASSUME Owns, Owns', NEW u \in Users, Carried(u), NEW p \in Procs, Call(p), Blocker(p, u),
         ProcInv(p, u)
  PROVE  Carried(u)'
<1>0. TypeInv /\ Shape(procs[p]) /\ accounts' = accounts /\ minted' = minted
  BY ProcFacts DEF Owns, Call
<1> SUFFICES ASSUME accounts[u].blocked, NEW k \in served', k \notin Awg, Belongs(k, u)
             PROVE  (\E q \in Procs :
                       /\ procs[q].op = "toggleBlock" /\ procs[q].user = u /\ procs[q].step # 1
                       /\ procs[q].step = 3 /\ k \in Keys => k \in procs[q].todo
                       /\ procs[q].step = 4 => k \in procs[q].todo)'
  BY <1>0 DEF Carried, Belongs
<1>1. ~procs[p].adds
  BY DEF ProcInv, Provisioned, Blocker
<1>2. PICK j \in procs[p].todo : served' = served \ {j} /\ Calls(p, j)
  BY <1>0, <1>1, CallEffect DEF Call
<1>3. k \in served /\ k # j
  BY <1>2
<1>4. PICK q \in Procs : /\ Blocker(q, u)
                         /\ procs[q].step = 3 /\ k \in Keys => k \in procs[q].todo
                         /\ procs[q].step = 4 => k \in procs[q].todo
  BY <1>3 DEF Carried, Blocker
<1>5. CASE q # p
  <2>1. procs'[q] = procs[q]
    BY <1>2, <1>5 DEF Calls, Others
  <2> QED BY <1>4, <2>1 DEF Blocker
<1>6. CASE q = p
  <2>1. procs'[p] # Idle
    <3> SUFFICES ASSUME procs'[p] = Idle
                 PROVE  FALSE
      OBVIOUS
    <3>1. procs[p].todo = {j} /\ Ended(procs[p])
      <4>1. Idle.op # "toggleBlock"
        BY DEF Idle
      <4> QED BY <1>2, <4>1 DEF Calls, Blocker
    <3>2. procs[p].step = 4
      <4>1. Len(Script["toggleBlock"]) = 3 /\ procs[p].step \in Nat
        BY <1>0, Lengths, ProcFacts
      <4> QED BY <1>0, <3>1, <4>1 DEF Ended, Shape, Blocker
    <3> QED BY <1>3, <1>4, <1>6, <3>1, <3>2
  <2>2. /\ procs'[p].op = "toggleBlock" /\ procs'[p].user = u
        /\ procs'[p].todo = procs[p].todo \ {j} /\ procs'[p].step = procs[p].step
    BY <1>2, <2>1 DEF Calls, Blocker
  <2> QED BY <1>3, <1>4, <1>6, <2>2 DEF Blocker
<1> QED BY <1>5, <1>6

\* A request that adds finds the account not blocked.
LEMMA AddersUnblocked ==
  ASSUME Owns, Owns', NEW u \in Users, NEW p \in Procs, Changes(p), Touches(p, u),
         ~Removes(p), ~Toggle(p), ProcInv(p, u)
  PROVE  accounts' = accounts /\ (accounts[u].blocked => Shrinks(u))
<1>0. procs[p].op \in OpNames /\ procs[p].step \in Nat \ {0}
  BY ProcFacts DEF Owns
<1>1. CASE Call(p)
  <2>1. PICK k \in procs[p].todo : /\ served' = served \cup {k} /\ peers' = peers
                                   /\ procs[p].adds
    BY <1>1 DEF Call, Removes
  <2>2. /\ accounts' = accounts /\ rows' = rows /\ configs' = configs /\ minted' = minted
    BY <1>1 DEF Call
  <2>3. accounts[u].blocked => ~Belongs(k, u)
    BY <2>1 DEF ProcInv, AddsKept
  <2> QED BY <2>1, <2>2, <2>3 DEF Shrinks, Belongs
<1>2. CASE Lookup(p) \/ Register(p) \/ Store(p)
  <2>1. procs[p].user = u
    BY <1>2, RequestTouches
  <2>2. procs[p].op = "provision" /\ procs[p].step # 1
    <3>1. Statement(p) \in {"lookup", "register", "store"}
      BY <1>2 DEF Lookup, Register, Store, At
    <3> QED BY <1>0, <3>1, Places
  <2> QED BY <1>2, <2>1, <2>2 DEF ProcInv, Provisioned, Lookup, Register, Store
<1>3. CASE Arm(p) \/ Insert(p)
  <2>1. procs[p].user = u
    BY <1>3, RequestTouches
  <2>2. procs[p].op \in {"createConfig", "ensureConfig"}
    <3>1. Statement(p) \in {"arm", "insert"}
      BY <1>3 DEF Arm, Insert, At
    <3> QED BY <1>0, <3>1, Places
  <2> QED BY <1>3, <2>1, <2>2 DEF ProcInv, Provisioned, Arm, Insert
<1> QED BY <1>1, <1>2, <1>3 DEF Changes, Removes

\* The keys of a blocked account are about to be removed.
LEMMA CarriedStep ==
  ASSUME Owns, Owns', [Next]_vars, NEW u \in Users, u \notin disturbed', accounts'[u].exists,
         Carried(u), Accounted(u), Alone(u), BlockedRows(u), \A p \in Procs : ProcInv(p, u)
  PROVE  Carried(u)'
<1>0. TypeInv
  BY DEF Owns
<1>1. CASE procs' = procs /\ (UNCHANGED vars \/ WorldStep)
  <2>1. Shrinks(u) /\ Stays(u)
    BY <1>1, Quiet, WorldQuiet DEF vars, dataVars
  <2> QED BY <1>1, <2>1, CarriedQuiet DEF Stays
<1>2. ASSUME NEW p \in Procs, ProcSteps(p)
      PROVE  Carried(u)'
  <2>0. Others(p)
    BY <1>0, <1>2, ActorMoves
  <2>1. CASE Toggle(p) /\ Touches(p, u)
    <3>1. procs[p].user = u
      BY <2>1, RequestTouches
    <3> QED BY <2>1, <3>1, CarriedToggle
  <2>2. CASE Blocker(p, u) /\ ~Toggle(p)
    <3>0. procs[p].op \in OpNames /\ procs[p].step \in Nat \ {0} /\ Touches(p, u)
      BY <1>0, <2>2, ProcFacts DEF Blocker, Touches
    <3>1. ~Loses(p)
      BY <3>0, LosesDisturbs
    <3>2. ~AccountStep(p)
      BY <1>0, <2>2, ProcFacts DEF Blocker, AccountStep, BeginDevice, BeginRow, BeginAccount,
         BeginCreate, BeginDelete, BeginJob, BeginRevoke, SuspendNext, Start, Shape
    <3>3. ~Waits(p)
      BY <2>2, <3>0, Places DEF Blocker, Waits, Gate, Lock, Check, CountConfigs, Refuse, At
    <3>4. Changes(p) => Call(p)
      <4>1. Changes(p) /\ ~Call(p) =>
              Statement(p) \in {"wipeDevices", "deleteRow", "wipeStale", "blockRow",
                "dropConfigs", "dropConfig", "dropUser", "lookup", "register", "store",
                "touch", "enter", "arm", "insert"}
        BY <2>2 DEF Changes, WipeDevices, DeleteRow, WipeStale, BlockRow, DropConfigs, DropUser,
                    Lookup, Register, Store, Visit, Arm, Insert, At
      <4> QED BY <2>2, <3>0, <4>1, Places DEF Blocker
    <3> QED BY <1>2, <2>2, <3>1, <3>2, <3>3, <3>4, CarriedReads, CarriedCall DEF ProcSteps
  <2>3. CASE ~Blocker(p, u) /\ ~(Toggle(p) /\ Touches(p, u))
    <3>1. \A q \in Procs : Blocker(q, u) => procs'[q] = procs[q]
      BY <2>0, <2>3 DEF Others
    <3>2. CASE ~Touches(p, u) \/ ~Changes(p)
      <4>1. Shrinks(u) /\ Stays(u)
        BY <1>0, <1>2, <3>2, Foreign, QuietSteps, Quiet DEF ProcSteps
      <4> QED BY <3>1, <4>1, CarriedQuiet DEF Stays
    <3>3. CASE Touches(p, u) /\ Changes(p) /\ Removes(p)
      <4>1. ~DropUser(p)
        BY <3>3, RequestTouches, DropEnds
      <4>2. accounts' = accounts
        BY <3>3, <4>1 DEF Removes, Call, WipeDevices, DeleteRow, WipeStale, Wipe, BlockRow,
                          DropConfigs, Visit
      <4>3. Shrinks(u)
        BY <3>3, RemovesShrinks
      <4> QED BY <3>1, <4>2, <4>3, CarriedQuiet
    <3>4. CASE Touches(p, u) /\ Changes(p) /\ ~Removes(p)
      <4>1. accounts' = accounts /\ (accounts[u].blocked => Shrinks(u))
        BY <2>3, <3>4, AddersUnblocked
      <4>2. CASE accounts[u].blocked
        BY <3>1, <4>1, <4>2, CarriedQuiet
      <4>3. CASE ~accounts[u].blocked
        BY <4>1, <4>3 DEF Carried
      <4> QED BY <4>2, <4>3
    <3> QED BY <3>2, <3>3, <3>4
  <2>4. Blocker(p, u) => Touches(p, u)
    BY DEF Blocker, Touches
  <2> QED BY <2>1, <2>2, <2>3, <2>4
<1> QED BY <1>0, <1>1, <1>2, StepsOf DEF vars

\* The invariant holds initially,
LEMMA AccessInvStart ==
  ASSUME Init
  PROVE  AccessInv
<1>1. Owns
  BY OwnStart
<1>2. ASSUME NEW u \in Users
      PROVE  Alone(u) /\ AccountInv(u)
  <2>1. \A p \in Procs : ~Touches(p, u)
    BY DEF Init, Touches, Idle
  <2>2. \A p \in Procs : ProcInv(p, u)
    BY <1>1, <2>1, Elsewhere
  <2>3. UserRows(u) = {}
    BY AccessConstants DEF Init, UserRows, NoRow
  <2>4. Accounted(u) /\ Carried(u)
    BY DEF Init, Accounted, Carried
  <2> QED BY <2>1, <2>2, <2>3, <2>4 DEF Alone, AccountInv, BlockedRows
<1> QED BY <1>1, <1>2 DEF AccessInv

\* and it is inductive.
LEMMA AccessInvStep ==
  ASSUME AccessInv, [Next]_vars
  PROVE  AccessInv'
<1>1. Owns /\ Owns' /\ TypeInv
  BY OwnsStep DEF AccessInv, Owns
<1>2. ASSUME NEW u \in Users, u \notin disturbed'
      PROVE  Alone(u)' /\ (accounts'[u].exists => AccountInv(u)')
  <2>1. u \notin disturbed
    BY <1>1, <1>2, DisturbedGrows
  <2>2. Alone(u) /\ (accounts[u].exists => AccountInv(u))
    BY <2>1 DEF AccessInv
  <2>3. Alone(u)'
    BY <1>1, <1>2, <2>2, AloneStep
  <2>4. ASSUME accounts'[u].exists
        PROVE  AccountInv(u)'
    <3>1. AccountInv(u)
      BY <1>1, <2>2, <2>4, AccountEffect
    <3>2. Accounted(u)'
      BY <1>1, <1>2, <2>4, <3>1, AccountedStep DEF AccountInv
    <3>3. BlockedRows(u)'
      BY <1>1, <3>1, BlockedRowsStep DEF AccountInv
    <3>4. Carried(u)'
      BY <1>1, <1>2, <2>2, <2>4, <3>1, CarriedStep DEF AccountInv
    <3>5. \A p \in Procs : ProcInv(p, u)'
      BY <1>1, <1>2, <2>2, <2>4, <3>1, ProcInvStep DEF AccountInv
    <3> QED BY <3>2, <3>3, <3>4, <3>5 DEF AccountInv
  <2> QED BY <2>3, <2>4
<1> QED BY <1>1, <1>2 DEF AccessInv

\* It holds in every reachable state.
LEMMA AccessInvHolds == Spec => []AccessInv
<1> QED BY AccessInvStart, AccessInvStep, PTL DEF Spec

\* No key outlives its device or config, whichever revocations overlap, for accounts
\* on which no request that adds keys raced and no call failed (profile.go:245-451,
\* configs.go:355-420, cron.go:423-457).
THEOREM NoKeyIsStray == Spec => []NoStrayKeys
<1>1. AccessInv => NoStrayKeys
  <2> SUFFICES ASSUME AccessInv, NEW u \in Users \ disturbed, accounts[u].exists,
                      NEW k \in served, Belongs(k, u)
               PROVE  k \in HeldKeys(u)
    BY DEF NoStrayKeys
  <2>1. CASE k \in Kept(u)
    BY <2>1 DEF Kept, HeldKeys
  <2>2. ASSUME NEW p \in Procs, procs[p].user = u, Fresh(p, k)
        PROVE  k \in HeldKeys(u)
    <3>1. Concerns(p, u)
      BY <2>2 DEF Concerns, Fresh
    <3>2. k \in procs[p].todo \cup {procs[p].key, procs[p].config}
      BY <2>2 DEF Fresh
    <3> QED BY <3>1, <3>2 DEF HeldKeys
  <2> QED BY <2>1, <2>2 DEF AccessInv, AccountInv, Accounted
<1> QED BY <1>1, AccessInvHolds, PTL

\* A blocked account has no VLESS key once the block has been carried through, also
\* after restarts of xray and runs of reconcileXray (admin_profiles.go:263-295,
\* cron.go:168-190).
THEOREM BlockedStaysOut == Spec => []BlockedHasNoVlessKey
<1>1. AccessInv => BlockedHasNoVlessKey
  <2> SUFFICES ASSUME AccessInv, NEW u \in Users \ disturbed, accounts[u].exists,
                      accounts[u].blocked, \A p \in Procs : ~Concerns(p, u),
                      NEW k \in served \ Awg, Belongs(k, u)
               PROVE  FALSE
    BY DEF BlockedHasNoVlessKey
  <2>1. PICK p \in Procs : procs[p].op = "toggleBlock" /\ procs[p].user = u
    BY DEF AccessInv, AccountInv, Carried
  <2> QED BY <2>1 DEF Concerns
<1> QED BY <1>1, AccessInvHolds, PTL

-----------------------------------------------------------------------------
(* The device limit.                                                         *)

\* The transactions that hold the lock of the account's row.
Inside(p) ==
    \/ procs[p].op = "provision" /\ procs[p].step \in {4, 5}
    \/ procs[p].op = "ensureConfig" /\ procs[p].step = 3

\* It is about to insert a row under a limit.
Promises(p) ==
    /\ procs[p].op = "provision" /\ procs[p].step \in {4, 5}
    /\ procs[p].row = Null /\ procs[p].limit > 0

Counted(u) == {r \in Rows : rows[r].user = u /\ ~rows[r].blocked /\ rows[r].counted}

OneInside ==
    \A p, q \in Procs : Inside(p) /\ Inside(q) /\ procs[p].user = procs[q].user => p = q

RoomLeft ==
    \A p \in Procs : Promises(p) => Cardinality(Counted(procs[p].user)) < procs[p].limit

\* One transaction at a time has an account locked, and as long as it is going to
\* insert a row there is room for it.
LimitInv == TypeInv /\ OneInside /\ RoomLeft

\* A request inside holds the lock; where a request stands before it goes inside.
LEMMA InsideLocks ==
  ASSUME TypeInv, NEW p \in Procs
  PROVE  /\ Inside(p) => Locked(procs[p].user)
         /\ procs[p].op = "provision" /\ procs[p].step = 3 => Statement(p) = "lock"
         /\ procs[p].op = "provision" /\ procs[p].step = 4 => Statement(p) = "register"
         /\ procs[p].op = "ensureConfig" /\ procs[p].step = 2 => Statement(p) = "count"
<1>1. Place(procs[p].op, procs[p].step, Statement(p))
  BY ProcFacts, PlaceOf
<1>2. procs[p].op = "provision" /\ procs[p].step = 3 => Statement(p) = "lock"
  BY <1>1 DEF Place
<1>3. procs[p].op = "provision" /\ procs[p].step = 4 => Statement(p) = "register"
  BY <1>1 DEF Place
<1>4. procs[p].op = "provision" /\ procs[p].step = 5 => Statement(p) = "store"
  BY <1>1 DEF Place
<1>5. procs[p].op = "ensureConfig" /\ procs[p].step = 2 => Statement(p) = "count"
  BY <1>1 DEF Place
<1>6. procs[p].op = "ensureConfig" /\ procs[p].step = 3 => Statement(p) = "insert"
  BY <1>1 DEF Place
<1> QED BY <1>2, <1>3, <1>4, <1>5, <1>6 DEF Inside, Locked

SameLimit(p) ==
    /\ procs'[p].op = procs[p].op /\ procs'[p].user = procs[p].user
    /\ procs'[p].row = procs[p].row /\ procs'[p].limit = procs[p].limit

\* A request comes to be inside by taking the lock, and only goes on registering.
LEMMA InsideMoves ==
  ASSUME TypeInv, [Next]_vars, NEW p \in Procs, ProcSteps(p), Inside(p)'
  PROVE  SameLimit(p) /\ ((Register(p) /\ Inside(p)) \/ Lock(p) \/ CountConfigs(p))
<1>0. /\ procs[p].op \in OpNames /\ procs[p].step \in Nat \ {0} /\ Shape(procs[p])
      /\ procs'[p] # Idle
  BY ProcFacts DEF Inside, Idle
<1>1. ASSUME NEW todo, NEW adds, NEW row, NEW key, NEW limit, Moves(p, todo, adds, row, key, limit),
             Statement(p) \notin {"lock", "register", "count"}
      PROVE  FALSE
  <2>1. procs'[p].op = procs[p].op /\ procs'[p].step = procs[p].step + 1
    BY <1>0, <1>1 DEF Moves
  <2> QED BY <1>0, <1>1, <2>1, InsideLocks DEF Inside
<1>2. ASSUME NEW keys, Follows(p, keys), Statement(p) \notin {"lock", "register", "count"}
      PROVE  FALSE
  BY <1>1, <1>2 DEF Follows
<1>3. ASSUME Advance(p, procs[p]), Statement(p) \notin {"lock", "register", "count", "end"},
             procs[p].todo = {}
      PROVE  FALSE
  BY <1>2, <1>3, ProcFacts, SameMoves
<1>4. ASSUME procs' = [procs EXCEPT ![p] = Idle]
      PROVE  FALSE
  BY <1>0, <1>4 DEF TypeInv
<1>5. ~AccountStep(p)
  <2>1. ASSUME NEW op, NEW u, NEW c, NEW i, NEW r,
               procs' = [procs EXCEPT ![p] = Started(op, u, c, i, r)]
        PROVE  FALSE
    <3>1. procs'[p].step = 1
      BY <2>1 DEF Started, Idle, TypeInv
    <3> QED BY <3>1 DEF Inside
  <2>2. ~BeginDevice(p) /\ ~BeginRow(p) /\ ~BeginAccount(p) /\ ~BeginDelete(p) /\ ~BeginJob(p)
        /\ ~BeginCreate(p)
    BY <2>1 DEF BeginDevice, BeginRow, BeginAccount, BeginDelete, BeginJob, BeginCreate, Start
  <2>3. ~BeginRevoke(p)
    <3> SUFFICES ASSUME BeginRevoke(p)
                 PROVE  FALSE
      OBVIOUS
    <3>1. procs'[p].op = "suspend"
      BY DEF BeginRevoke, Idle, TypeInv
    <3> QED BY <3>1 DEF Inside
  <2>4. ~SuspendNext(p)
    <3> SUFFICES ASSUME SuspendNext(p)
                 PROVE  FALSE
      OBVIOUS
    <3>1. PICK v \in procs[p].due :
            procs' = [procs EXCEPT ![p].user = v, ![p].step = 1, ![p].due = @ \ {v}]
      BY DEF SuspendNext
    <3>2. procs'[p] = [procs[p] EXCEPT !.user = v, !.step = 1, !.due = @ \ {v}]
      BY <3>1 DEF TypeInv
    <3>3. procs'[p].step = 1
      BY <3>2, ProcFacts DEF Proc
    <3> QED BY <3>3 DEF Inside
  <2> QED BY <2>2, <2>3, <2>4 DEF AccountStep
<1>6. ~Reads(p)
  <2> SUFFICES ASSUME Reads(p)
               PROVE  FALSE
    OBVIOUS
  <2>1. PICK keys : KeysRead(p, keys) /\ Follows(p, keys)
    BY ReadEffect
  <2> QED BY <1>2, <2>1 DEF KeysRead
<1>7. ~Call(p) /\ ~CallFails(p)
  <2> SUFFICES ASSUME Call(p) \/ CallFails(p)
               PROVE  FALSE
    OBVIOUS
  <2>1. PICK k \in procs[p].todo : Calls(p, k)
    BY CallEffect DEF Call, CallFails
  <2>2. procs'[p].op = procs[p].op
    BY <1>0, <2>1 DEF Calls
  <2> QED BY <1>0, <2>1, <2>2 DEF Inside, Shape
<1>8. ~SkipStatement(p) /\ ~CutOff(p)
  BY <1>3, <1>4 DEF SkipStatement, CutOff, At
<1>9. ~WipeDevices(p) /\ ~DeleteRow(p) /\ ~WipeStale(p) /\ ~BlockRow(p) /\ ~DropConfigs(p)
      /\ ~DropUser(p)
  BY <1>3 DEF WipeDevices, DeleteRow, WipeStale, Wipe, BlockRow, DropConfigs, DropUser, At
<1>10. ~Toggle(p)
  BY <1>1, ToggleEffect DEF Toggle, At
<1>11. ~Lookup(p)
  BY <1>1, <1>2, <1>4, LookupEffect DEF Lookup, At
<1>12. ~Store(p) /\ ~Visit(p)
  BY <1>3, <1>4 DEF Store, Visit, At
<1>13. ~Arm(p) /\ ~Insert(p) /\ ~Check(p) /\ ~Refuse(p)
  BY <1>3, <1>4 DEF Arm, Insert, Check, Refuse, At
<1>14. ~Gate(p)
  BY <1>1, GateEffect DEF Gate, At
<1>15. CASE Register(p)
  <2>1. PICK key : Moves(p, {}, procs[p].adds, procs[p].row, key, procs[p].limit)
    BY <1>15, RegisterEffect
  <2>2. procs[p].op = "provision" /\ procs[p].step = 4
    BY <1>15, RegisterEffect
  <2> QED BY <1>0, <1>15, <2>1, <2>2 DEF Moves, SameLimit, Inside
<1>16. CASE Lock(p) \/ CountConfigs(p)
  <2>1. Follows(p, {})
    BY <1>16, ProcFacts, SameMoves DEF Lock, CountConfigs, At
  <2> QED BY <1>0, <1>16, <2>1 DEF Follows, Moves, SameLimit
<1> QED BY <1>5, <1>6, <1>7, <1>8, <1>9, <1>10, <1>11, <1>12, <1>13, <1>14, <1>15, <1>16
        DEF ProcSteps, Waits, Loses, Changes

\* Inside before and after with the same limit, or it takes the lock now.
LEMMA InsideStep ==
  ASSUME TypeInv, [Next]_vars, NEW p \in Procs, Inside(p)'
  PROVE  SameLimit(p) /\ (Inside(p) \/ ((Lock(p) \/ CountConfigs(p)) /\ Others(p)))
<1>1. CASE procs'[p] = procs[p]
  BY <1>1 DEF SameLimit, Inside
<1>2. CASE procs'[p] # procs[p]
  <2>1. PICK q \in Procs : ProcSteps(q)
    BY <1>2, StepsOf DEF vars
  <2>2. Others(q)
    BY <2>1, ActorMoves
  <2>3. q = p
    BY <1>2, <2>2 DEF Others
  <2> QED BY <2>1, <2>2, <2>3, InsideMoves
<1> QED BY <1>1, <1>2

\* Only storing a new row adds to the rows the limit counts.
LEMMA CountedEffect ==
  ASSUME TypeInv, [Next]_vars, NEW r \in Rows, rows'[r].counted, ~rows'[r].blocked
  PROVE  \/ rows[r].counted /\ ~rows[r].blocked /\ rows[r].user = rows'[r].user
         \/ \E p \in Procs :
              /\ Store(p) /\ procs[p].row = Null /\ rows'[r].user = procs[p].user
              /\ \A s \in Rows \ {r} : rows'[s] = rows[s]
<1> DEFINE Old == rows[r].counted /\ ~rows[r].blocked /\ rows[r].user = rows'[r].user
<1>0. TypeInv' /\ (rows[r] = NoRow \/ rows[r] \in DeviceRow) /\ rows'[r] # NoRow
  BY TypeStep DEF TypeInv, DataOK, NoRow
<1>1. CASE rows' = rows
  BY <1>1
<1>2. ASSUME NEW p \in Procs, WipeDevices(p) \/ DeleteRow(p) \/ WipeStale(p) \/ DropUser(p)
      PROVE  Old
  <2>1. rows'[r] \in {rows[r], NoRow}
    BY <1>2 DEF WipeDevices, DeleteRow, WipeStale, Wipe, DropUser
  <2> QED BY <1>0, <2>1
<1>3. ASSUME rows'[r] = rows[r] \/ rows'[r] = [rows[r] EXCEPT !.stale = FALSE]
      PROVE  Old
  BY <1>0, <1>3 DEF DeviceRow, NoRow
<1>4. ASSUME NEW p \in Procs, BlockRow(p)
      PROVE  Old
  <2>1. rows'[r] = rows[r] \/ rows'[r].blocked
    BY <1>0, <1>4 DEF BlockRow, TypeInv, DataOK, DeviceRow
  <2> QED BY <2>1
<1>5. ASSUME NEW p \in Procs, Lookup(p)
      PROVE  Old
  <2>1. rows'[r] = rows[r] \/ rows'[r] = [rows[r] EXCEPT !.stale = FALSE]
    BY <1>5 DEF Lookup, Matching, UserRows, TypeInv, DataOK
  <2> QED BY <1>3, <2>1
<1>6. ASSUME NEW p \in Procs, Visit(p)
      PROVE  Old
  <2>1. \/ rows'[r] = rows[r] \/ rows'[r] = [rows[r] EXCEPT !.stale = FALSE]
        \/ rows'[r] = [user |-> procs[p].user, inst |-> procs[p].inst, key |-> Null,
                       blocked |-> FALSE, stale |-> FALSE, counted |-> FALSE]
    BY <1>6 DEF Visit, NewRow, Matching, UserRows, TypeInv, DataOK
  <2> QED BY <1>3, <2>1
<1>7. ASSUME NEW p \in Procs, Store(p)
      PROVE  \/ Old
             \/ /\ procs[p].row = Null /\ rows'[r].user = procs[p].user
                /\ \A s \in Rows \ {r} : rows'[s] = rows[s]
  <2>1. CASE procs[p].row # Null
    <3>1. \/ rows'[r] = rows[r]
          \/ /\ rows[r] # NoRow
             /\ rows'[r] = [rows[r] EXCEPT !.key = procs[p].key, !.stale = FALSE]
      BY <1>7, <2>1 DEF Store, TypeInv, DataOK
    <3> QED BY <1>0, <3>1 DEF DeviceRow
  <2>2. CASE procs[p].row = Null /\ rows'[r] # rows[r]
    <3>1. PICK s \in Rows :
            rows' = [rows EXCEPT ![s] = [user |-> procs[p].user, inst |-> procs[p].inst,
                                         key |-> procs[p].key, blocked |-> FALSE,
                                         stale |-> FALSE, counted |-> TRUE]]
      BY <1>7, <2>2 DEF Store, NewRow
    <3>2. s = r
      BY <2>2, <3>1 DEF TypeInv, DataOK
    <3> QED BY <2>2, <3>1, <3>2 DEF TypeInv, DataOK
  <2> QED BY <2>1, <2>2
<1>8. ASSUME NEW s \in Rows, UnblockDevice(s) \/ GoStale(s)
      PROVE  Old
  <2>1. \/ rows'[r] = rows[r] \/ rows'[r] = [rows[r] EXCEPT !.stale = TRUE]
        \/ rows'[r] = [rows[r] EXCEPT !.blocked = FALSE, !.counted = FALSE]
    BY <1>8 DEF UnblockDevice, GoStale, TypeInv, DataOK
  <2> QED BY <1>0, <2>1 DEF DeviceRow, NoRow
<1>9. ASSUME NEW p \in Procs,
             \/ AccountStep(p) \/ Reads(p) \/ Waits(p) \/ Loses(p) \/ Call(p)
             \/ DropConfigs(p) \/ Toggle(p) \/ Register(p) \/ Arm(p) \/ Insert(p)
      PROVE  rows' = rows
  <2>1. CASE AccountStep(p) \/ Reads(p) \/ Waits(p) \/ Loses(p)
    BY <2>1, QuietSteps DEF dataVars
  <2>2. CASE Call(p) \/ DropConfigs(p) \/ Toggle(p) \/ Register(p) \/ Arm(p) \/ Insert(p)
    BY <2>2 DEF Call, DropConfigs, Toggle, Register, Arm, Insert
  <2> QED BY <1>9, <2>1, <2>2
<1>10. CASE WorldStep /\ rows' # rows
  BY <1>8, <1>10 DEF WorldStep, SetPeerEnabled, UpdateDeviceLimit, Lapse, Renew, XrayRestart
<1> HIDE DEF Old
<1> QED BY <1>1, <1>2, <1>4, <1>5, <1>6, <1>7, <1>9, <1>10, Steps DEF vars, Old

\* The rows the limit counts grow by one, and only by storing a new row.
LEMMA CountedStep ==
  ASSUME TypeInv, [Next]_vars, NEW u
  PROVE  \/ Counted(u)' \subseteq Counted(u)
         \/ \E p \in Procs, r \in Rows :
              /\ Store(p) /\ procs[p].row = Null /\ procs[p].user = u
              /\ Counted(u)' \subseteq Counted(u) \cup {r}
<1> SUFFICES ASSUME ~(Counted(u)' \subseteq Counted(u))
             PROVE  \E p \in Procs, r \in Rows :
                      /\ Store(p) /\ procs[p].row = Null /\ procs[p].user = u
                      /\ Counted(u)' \subseteq Counted(u) \cup {r}
  OBVIOUS
<1>1. PICK r \in Rows : /\ rows'[r].user = u /\ ~rows'[r].blocked /\ rows'[r].counted
                        /\ r \notin Counted(u)
  BY DEF Counted
<1>2. PICK p \in Procs : /\ Store(p) /\ procs[p].row = Null /\ rows'[r].user = procs[p].user
                         /\ \A s \in Rows \ {r} : rows'[s] = rows[s]
  BY <1>1, CountedEffect DEF Counted
<1>3. Counted(u)' \subseteq Counted(u) \cup {r}
  BY <1>2 DEF Counted
<1> QED BY <1>1, <1>2, <1>3

\* They are finitely many,
LEMMA CountedFinite == \A u : IsFiniteSet(Counted(u))
  BY AccessConstants, FS_Subset DEF Counted

\* in the next state too.
LEMMA CountedFiniteNext == \A u : IsFiniteSet(Counted(u)')
  BY AccessConstants, FS_Subset DEF Counted

\* The lock and the room left under the limit are inductive.
LEMMA LimitStep ==
  ASSUME LimitInv, [Next]_vars
  PROVE  LimitInv'
<1>0. TypeInv /\ TypeInv'
  BY TypeStep DEF LimitInv
<1>1. ASSUME NEW p \in Procs, NEW q \in Procs, Lock(p) \/ CountConfigs(p), Inside(q),
             procs[q].user = procs[p].user
      PROVE  FALSE
  BY <1>0, <1>1, InsideLocks DEF Lock, CountConfigs
<1>2. OneInside'
  <2> SUFFICES ASSUME NEW p \in Procs, NEW q \in Procs, Inside(p)', Inside(q)',
                      procs'[p].user = procs'[q].user, p # q
               PROVE  FALSE
    BY DEF OneInside
  <2>1. procs[p].user = procs[q].user
    BY <1>0, InsideStep DEF SameLimit
  <2>2. CASE Inside(p) /\ Inside(q)
    BY <2>1, <2>2 DEF LimitInv, OneInside
  <2>3. CASE (Lock(p) \/ CountConfigs(p)) /\ Others(p)
    <3>1. Inside(q)
      BY <2>3 DEF Others, Inside
    <3> QED BY <1>1, <2>1, <2>3, <3>1
  <2>4. CASE (Lock(q) \/ CountConfigs(q)) /\ Others(q)
    <3>1. Inside(p)
      BY <2>4 DEF Others, Inside
    <3> QED BY <1>1, <2>1, <2>4, <3>1
  <2> QED BY <1>0, <2>2, <2>3, <2>4, InsideStep
<1>3. RoomLeft'
  <2> SUFFICES ASSUME NEW p \in Procs, Promises(p)'
               PROVE  Cardinality(Counted(procs[p].user))' < procs'[p].limit
    BY DEF RoomLeft
  <2>0. Inside(p)' /\ procs'[p].op = "provision"
    BY DEF Promises, Inside
  <2>1. SameLimit(p) /\ (Inside(p) \/ ((Lock(p) \/ CountConfigs(p)) /\ Others(p)))
    BY <1>0, <2>0, InsideStep
  <2>2. PICK u, limit : u = procs[p].user /\ limit = procs[p].limit
    OBVIOUS
  <2>3. /\ procs'[p].user = u /\ procs'[p].limit = limit /\ procs[p].row = Null /\ limit > 0
        /\ procs[p].op = "provision"
    BY <2>0, <2>1, <2>2 DEF SameLimit, Promises
  <2>8. Counted(procs[p].user)' = Counted(u)'
    BY <2>3 DEF Counted
  <2>4. limit \in Nat
    <3>1. procs'[p].limit \in Limits
      BY <1>0, <2>0 DEF TypeInv, Shapes, Shape, Inside
    <3> QED BY <2>3, <3>1, AccessConstants
  <2>5. Cardinality(Counted(u)) \in Nat /\ Cardinality(Counted(u)') \in Nat
    BY CountedFinite, CountedFiniteNext, FS_CardinalityType
  <2>6. CASE Inside(p)
    <3>1. Cardinality(Counted(u)) < limit
      BY <2>2, <2>3, <2>6 DEF LimitInv, RoomLeft, Promises, Inside
    <3>2. Counted(u)' \subseteq Counted(u)
      <4> SUFFICES ASSUME NEW q \in Procs, Store(q), procs[q].user = u
                   PROVE  FALSE
        BY <1>0, CountedStep
      <4>1. Inside(q)
        BY <1>0, ProcFacts, Places DEF Store, At, Inside
      <4>2. q = p
        BY <2>2, <2>6, <4>1 DEF LimitInv, OneInside
      <4>3. procs'[p] = Idle
        BY <1>0, <4>2 DEF Store, TypeInv
      <4> QED BY <2>0, <4>3 DEF Idle
    <3>3. Cardinality(Counted(u)') <= Cardinality(Counted(u))
      BY <3>2, CountedFinite, FS_Subset
    <3>4. Cardinality(Counted(u)') < limit
      BY <2>4, <2>5, <3>1, <3>3
    <3> QED BY <2>3, <2>8, <3>4
  <2>7. CASE (Lock(p) \/ CountConfigs(p)) /\ ~Inside(p)
    <3>1. Lock(p)
      BY <1>0, <2>3, <2>7, ProcFacts, Places DEF CountConfigs, At
    <3> DEFINE S == {r \in UserRows(u) : ~rows[r].blocked}
    <3>2. IsFiniteSet(S)
      BY AccessConstants, FS_Subset DEF UserRows
    <3>3. Cardinality(S) \in Nat /\ ~(Cardinality(S) >= limit)
      BY <2>2, <2>3, <3>1, <3>2, FS_CardinalityType DEF Lock, AtLimit
    <3>4. Counted(u)' \subseteq S
      BY <3>1 DEF Lock, Counted, UserRows
    <3>5. Cardinality(Counted(u)') <= Cardinality(S)
      BY <3>2, <3>4, FS_Subset
    <3> HIDE DEF S
    <3>6. Cardinality(Counted(u)') < limit
      BY <2>4, <2>5, <3>3, <3>5
    <3> QED BY <2>3, <2>8, <3>6
  <2> QED BY <2>1, <2>6, <2>7
<1> QED BY <1>0, <1>2, <1>3 DEF LimitInv

\* They hold in every reachable state.
LEMMA LimitHolds == Spec => []LimitInv
<1>1. Init => LimitInv
  <2> SUFFICES ASSUME Init
               PROVE  LimitInv
    OBVIOUS
  <2>1. \A p \in Procs : ~Inside(p) /\ ~Promises(p)
    BY DEF Init, Inside, Promises, Idle
  <2> QED BY <2>1, TypeStart DEF LimitInv, OneInside, RoomLeft
<1> QED BY <1>1, LimitStep, PTL DEF Spec

\* When a new device row is committed, its account has no more unblocked rows than the
\* limit its provisioning read, not counting those the limit does not govern: the row
\* lock admits one provisioning at a time (provision.go:165-212).
THEOREM LimitIsKept == Spec => InsertWithinLimit
<1>1. ASSUME LimitInv, [Next]_vars, NEW p \in Requests, At(p, "store"), procs'[p].op = "idle",
             procs[p].row = Null, procs[p].limit > 0
      PROVE  Cardinality({r \in Rows : /\ rows'[r].user = procs[p].user
                                       /\ ~rows'[r].blocked /\ rows'[r].counted})
               <= procs[p].limit
  <2>0. TypeInv /\ p \in Procs
    BY <1>1 DEF LimitInv, Procs
  <2>1. PICK u : u = procs[p].user
    OBVIOUS
  <2>2. procs[p].op = "provision" /\ procs[p].step = 5 /\ procs[p].limit \in Nat
    <3>1. procs[p].op = "provision" /\ procs[p].step = 5
      BY <1>1, <2>0, ProcFacts, Places DEF At
    <3>2. procs[p].limit \in Limits
      BY <2>0, <3>1, ProcFacts DEF Shape
    <3> QED BY <3>1, <3>2, AccessConstants
  <2>3. Cardinality(Counted(u)) < procs[p].limit
    BY <1>1, <2>0, <2>1, <2>2 DEF LimitInv, RoomLeft, Promises
  <2>4. Cardinality(Counted(u)) \in Nat /\ Cardinality(Counted(u)') \in Nat
    BY CountedFinite, CountedFiniteNext, FS_CardinalityType
  <2>5. Cardinality(Counted(u)') <= Cardinality(Counted(u)) + 1
    <3>1. CASE Counted(u)' \subseteq Counted(u)
      <4>1. Cardinality(Counted(u)') <= Cardinality(Counted(u))
        BY <3>1, CountedFinite, FS_Subset
      <4> QED BY <2>4, <4>1
    <3>2. ASSUME NEW r, Counted(u)' \subseteq Counted(u) \cup {r}
          PROVE  Cardinality(Counted(u)') <= Cardinality(Counted(u)) + 1
      <4>1. IsFiniteSet(Counted(u) \cup {r})
            /\ Cardinality(Counted(u) \cup {r}) \in
                 {Cardinality(Counted(u)), Cardinality(Counted(u)) + 1}
        BY CountedFinite, FS_AddElement
      <4>2. Cardinality(Counted(u)') <= Cardinality(Counted(u) \cup {r})
        BY <3>2, <4>1, FS_Subset
      <4> QED BY <2>4, <4>1, <4>2
    <3> QED BY <1>1, <2>0, <3>1, <3>2, CountedStep
  <2>6. Cardinality(Counted(u)') <= procs[p].limit
    BY <2>2, <2>3, <2>4, <2>5
  <2>7. Counted(u)' = {r \in Rows : /\ rows'[r].user = procs[p].user
                                    /\ ~rows'[r].blocked /\ rows'[r].counted}
    BY <2>1 DEF Counted
  <2> QED BY <2>6, <2>7
<1>2. LimitInv /\ [Next]_vars =>
        \A p \in Requests :
          LET u       == procs[p].user
              commits == /\ At(p, "store") /\ procs'[p].op = "idle"
                         /\ procs[p].row = Null /\ procs[p].limit > 0
          IN  commits => Cardinality({r \in Rows : /\ rows'[r].user = u
                                                   /\ ~rows'[r].blocked /\ rows'[r].counted})
                           <= procs[p].limit
  BY <1>1
<1> QED BY <1>2, LimitHolds, PTL DEF Spec, InsertWithinLimit
=============================================================================
