----------------------------- MODULE NodeServlet -----------------------------
(***************************************************************************)
(* The /rest/node servlet (node_servlet.py): newPool defines, configures   *)
(* and starts a storage pool and undoes the definition when a later call   *)
(* fails; info lists networks and pools; listVol lists the volumes of a    *)
(* pool.  One handler runs at a time, one libvirt call per step, and other *)
(* libvirt clients act in between.                                         *)
(***************************************************************************)
EXTENDS Naturals, FiniteSets

CONSTANTS
  Pools,    \* pool names
  Vols,     \* names of volumes
  Nets,     \* names of networks
  MaxUuid,  \* bound: pool definitions made, each with a uuid of its own
  Requests, \* the arguments clients call newPool with
  Foreign,  \* what other clients do
  Faults,   \* "libvirtd": the connection may break; "start": libvirt may refuse to start a pool
  Nobody    \* None, where a pool object is expected

MaxUuidAssumption == MaxUuid \in Nat
NobodyAssumption == Nobody \notin Pools

VARIABLES
  pool,   \* pool name -> none, defined or active, its uuid, and whether it starts by itself
  vols,   \* pool name -> its volumes
  nets,   \* the active networks
  uuids,  \* uuids given so far
  op,     \* the operation being served
  pc,     \* its next call
  args,   \* its request arguments
  obj,    \* the pool object it holds: name and uuid
  todo,   \* names not yet looked up
  out,    \* what the answer lists
  code,   \* ret['code'] so far
  quiet,  \* history: since the request began nothing was changed by others
  broken, \* history: the connection broke under the handler
  reply   \* the last answer

hostVars == <<pool, vols, nets, uuids>>
locals == <<args, obj, todo, out, code>>
history == <<quiet, broken>>
vars == <<hostVars, op, pc, locals, history, reply>>

\* The arguments a request has with an acceptable value: dev names a device or a directory that
\* exists, target_path a directory, auto_start a number.
Keys == {"type", "name", "dev", "host", "src_path", "device", "target_path", "auto_start"}
Types == {"logical", "dir", "netfs", "iscsi", "other"}
Args == [keys: SUBSET Keys, type: Types, name: Pools, auto: BOOLEAN]
NoPool == [st |-> "none", uuid |-> 0, auto |-> FALSE]
NoArgs == [keys |-> {}, type |-> "other", name |-> CHOOSE p \in Pools : TRUE, auto |-> FALSE]

RequestsAssumption == Requests \subseteq Args

\* Every variable has a value of its kind, and an active pool or one that starts by itself has a
\* uuid.
TypeOK ==
  /\ pool \in [Pools -> [st: {"none", "defined", "active"}, uuid: 0..MaxUuid, auto: BOOLEAN]]
  /\ \A p \in Pools : pool[p] = NoPool \/ (pool[p].st # "none" /\ pool[p].uuid \in 1..uuids)
  /\ vols \in [Pools -> SUBSET Vols] /\ nets \subseteq Nets /\ uuids \in 0..MaxUuid
  /\ op \in {"none", "newpool", "info", "listvol"}
  /\ pc \in {"idle", "connect", "define", "configure", "setAutostart", "create", "undefine", "describe",
             "nets", "pools", "refresh", "volumes", "volume"}
  /\ args \in Args
  /\ obj \in (Pools \X (1..MaxUuid)) \cup {Nobody}
  /\ todo \subseteq Pools \cup Vols \cup Nets /\ out \subseteq Pools \cup Vols \cup Nets
  /\ code \in {0, 1001, 1002, 1003, 1004, 10000} /\ quiet \in BOOLEAN /\ broken \in BOOLEAN
  /\ reply \in [op: {"none", "newpool", "info", "listvol"}, status: {"ok", "error"}, code: Nat]

Init ==
  /\ pool = [p \in Pools |-> NoPool] /\ vols = [p \in Pools |-> {}] /\ nets = Nets /\ uuids = 0
  /\ op = "none" /\ pc = "idle" /\ args = NoArgs /\ obj = Nobody /\ todo = {} /\ out = {}
  /\ code = 0 /\ quiet = TRUE /\ broken = FALSE
  /\ reply = [op |-> "none", status |-> "ok", code |-> 0]

-----------------------------------------------------------------------------
(* How a handler moves on. *)

Goto(l) == pc' = l /\ UNCHANGED <<op, args, reply>>

\* A request begins.
Begin(o, l) ==
  /\ pc = "idle" /\ pc' = l /\ op' = o
  /\ out' = {} /\ code' = 0 /\ quiet' = TRUE /\ broken' = FALSE
  /\ UNCHANGED reply

Leave(r) ==
  /\ pc' = "idle" /\ op' = "none" /\ reply' = r
  /\ args' = NoArgs /\ obj' = Nobody /\ todo' = {} /\ out' = {} /\ code' = 0

\* req.write(...) and req.finish().
Answer(c) == Leave([op |-> op, status |-> "ok", code |-> c])

\* An exception leaves the handler and render answers 500.
Raise == Leave([op |-> op, status |-> "error", code |-> 0])

\* A request that is answered at once.
AnswerAtOnce(o, c) ==
  /\ pc = "idle" /\ reply' = [op |-> o, status |-> "ok", code |-> c]
  /\ quiet' = TRUE /\ broken' = FALSE
  /\ UNCHANGED <<op, pc, locals>>

\* The pool object names a pool by its uuid.
Holds(o) == o # Nobody /\ pool[o[1]].st # "none" /\ pool[o[1]].uuid = o[2]

\* storagePoolDefineXML without a uuid: a new one is made, and a name in use is refused.
Define(p) ==
  /\ pool[p].st = "none" /\ uuids < MaxUuid
  /\ uuids' = uuids + 1
  /\ pool' = [pool EXCEPT ![p] = [st |-> "defined", uuid |-> uuids + 1, auto |-> FALSE]]
  /\ UNCHANGED <<vols, nets>>

SetPool(p, v) == pool' = [pool EXCEPT ![p] = v] /\ UNCHANGED <<vols, nets, uuids>>

-----------------------------------------------------------------------------
(* newPool *)

\* The checks of the arguments, in the order of the code; 0 if they pass.
paramCode(a) ==
  CASE {"type", "name"} \ a.keys # {} -> 1001
    [] a.type \in {"logical", "dir"} -> IF "dev" \in a.keys THEN 0 ELSE 1003
    [] a.type = "netfs" -> IF {"host", "src_path", "target_path"} \subseteq a.keys THEN 0 ELSE 1004
    [] a.type = "iscsi" -> IF {"host", "device", "target_path"} \subseteq a.keys THEN 0 ELSE 1004
    [] OTHER -> 1002

\* The arguments that are used after the checks; the others only go into the XML.
Later(a) == [a EXCEPT !.keys = @ \cap {"auto_start"}, !.type = "other"]

newPool(a) ==
  /\ \/ paramCode(a) # 0 /\ AnswerAtOnce("newpool", paramCode(a))
     \/ /\ paramCode(a) = 0 /\ uuids < MaxUuid
        /\ Begin("newpool", "connect") /\ args' = Later(a) /\ UNCHANGED <<obj, todo>>
  /\ UNCHANGED hostVars

\* util.getConnection(), before the inner try: see ConnectionBreaks for its failure.
GetConnection ==
  /\ pc = "connect" /\ Goto("define")
  /\ UNCHANGED <<hostVars, obj, todo, out, code, history>>

\* storagePoolDefineXML; when it fails there is nothing to undo.
StoragePoolDefineXML ==
  /\ pc = "define"
  /\ \/ /\ Define(args.name)
        /\ obj' = <<args.name, uuids'>>
        /\ Goto("configure") /\ UNCHANGED <<todo, out, code>>
     \/ /\ pool[args.name].st # "none"
        /\ Answer(10000) /\ UNCHANGED hostVars
  /\ UNCHANGED history

\* A call on the pool object fails: code 10000, and the definition is to be undone.
Fail == code' = 10000 /\ Goto("undefine") /\ UNCHANGED <<hostVars, obj, todo, out>>

\* Mutant: a missing auto_start argument is answered without undoing the definition.
Configure_forgets ==
  /\ pc = "configure"
  /\ \/ "auto_start" \notin args.keys /\ Answer(10000)
     \/ /\ "auto_start" \in args.keys
        /\ Goto(IF args.auto THEN "setAutostart" ELSE "describe")
        /\ UNCHANGED <<obj, todo, out, code>>
  /\ UNCHANGED <<hostVars, history>>

\* int(req.args['auto_start'][0]) raises for a missing or malformed argument, after the definition.
Configure ==
  /\ pc = "configure"
  /\ \/ "auto_start" \notin args.keys /\ Fail
     \/ /\ "auto_start" \in args.keys
        /\ Goto(IF args.auto THEN "setAutostart" ELSE "describe")
        /\ UNCHANGED <<hostVars, obj, todo, out, code>>
  /\ UNCHANGED history

\* pool.setAutostart(True).
SetAutostart ==
  /\ pc = "setAutostart"
  /\ \/ /\ Holds(obj) /\ SetPool(obj[1], [pool[obj[1]] EXCEPT !.auto = TRUE])
        /\ Goto("create") /\ UNCHANGED <<obj, todo, out, code>>
     \/ ~Holds(obj) /\ Fail
  /\ UNCHANGED history

\* pool.create(0): libvirt also refuses a pool that is active, or that it cannot start.
Create ==
  /\ pc = "create"
  /\ \/ /\ Holds(obj) /\ pool[obj[1]].st = "defined"
        /\ SetPool(obj[1], [pool[obj[1]] EXCEPT !.st = "active"])
        /\ Goto("describe") /\ UNCHANGED <<obj, todo, out, code>>
     \/ /\ "start" \in Faults \/ ~Holds(obj) \/ pool[obj[1]].st = "active"
        /\ Fail
  /\ UNCHANGED history

\* Mutant: the pool is undefined by its name.
Undefine_byName ==
  /\ pc = "undefine"
  /\ \/ /\ pool[obj[1]].st = "defined" /\ SetPool(obj[1], NoPool)
     \/ /\ pool[obj[1]].st # "defined" /\ UNCHANGED hostVars
  /\ Answer(code) /\ UNCHANGED history

\* pool.undefine(), conn.close(), raise: libvirt refuses it for an active pool, and that exception
\* is swallowed like the first one.
Undefine ==
  /\ pc = "undefine"
  /\ \/ /\ Holds(obj) /\ pool[obj[1]].st = "defined"
        /\ SetPool(obj[1], NoPool)
     \/ /\ ~Holds(obj) \/ pool[obj[1]].st = "active"
        /\ UNCHANGED hostVars
  /\ Answer(code) /\ UNCHANGED history

\* pool.XMLDesc(0) and conn.close(): code stays 0 whether or not it fails.
Describe == pc = "describe" /\ Answer(code) /\ UNCHANGED <<hostVars, history>>

-----------------------------------------------------------------------------
(* info and listVol *)

\* getConnection, getInfo, /proc/uptime, getMemoryStats, listInterfaces, then listNetworks().
info == Begin("info", "nets") /\ todo' = nets /\ UNCHANGED <<hostVars, args, obj>>

\* listNet: networkLookupByName and XMLDesc of one network.
ListNet(n) ==
  /\ pc = "nets" /\ n \in todo
  /\ \/ /\ n \in nets
        /\ todo' = todo \ {n} /\ out' = out \cup {n} /\ Goto("nets") /\ UNCHANGED <<obj, code>>
     \/ n \notin nets /\ Raise
  /\ UNCHANGED <<hostVars, history>>

\* Mutant: pools that are defined but not active are listed too.
ListStoragePools_all ==
  /\ pc = "nets" /\ todo = {}
  /\ todo' = {p \in Pools : pool[p].st # "none"} /\ Goto("pools")
  /\ UNCHANGED <<hostVars, obj, out, code, history>>

\* listPool: listStoragePools() names the active pools.
ListStoragePools ==
  /\ pc = "nets" /\ todo = {}
  /\ todo' = {p \in Pools : pool[p].st = "active"} /\ Goto("pools")
  /\ UNCHANGED <<hostVars, obj, out, code, history>>

\* storagePoolLookupByName(pool_name).
LookupPool(p) ==
  /\ pc = "pools" /\ p \in todo
  /\ \/ /\ pool[p].st # "none"
        /\ obj' = <<p, pool[p].uuid>> /\ Goto("refresh") /\ UNCHANGED <<todo, out, code>>
     \/ pool[p].st = "none" /\ Raise
  /\ UNCHANGED <<hostVars, history>>

\* The pool object names an active pool.
Running(o) == Holds(o) /\ pool[o[1]].st = "active"

\* pool.refresh(0) and XMLDesc(0): only an active pool can be refreshed.
Refresh ==
  /\ pc = "refresh"
  /\ \/ /\ Running(obj)
        /\ todo' = todo \ {obj[1]} /\ out' = out \cup {obj[1]} /\ obj' = Nobody
        /\ Goto("pools") /\ UNCHANGED code
     \/ ~Running(obj) /\ Raise
  /\ UNCHANGED <<hostVars, history>>

AnswerInfo == pc = "pools" /\ todo = {} /\ Answer(0) /\ UNCHANGED <<hostVars, history>>

\* getConnection and storagePoolLookupByName; a request without a pool argument, or for a pool
\* that does not exist, is answered with an empty list.
listVol(p) ==
  /\ \/ /\ pool[p].st # "none"
        /\ Begin("listvol", "volumes") /\ obj' = <<p, pool[p].uuid>> /\ UNCHANGED <<args, todo>>
     \/ AnswerAtOnce("listvol", 0)
  /\ UNCHANGED hostVars

\* pool.listVolumes(), of an active pool; any exception ends the list and answers what there is.
ListVolumes ==
  /\ pc = "volumes"
  /\ \/ /\ Running(obj)
        /\ todo' = vols[obj[1]] /\ Goto("volume") /\ UNCHANGED <<obj, out, code>>
     \/ ~Running(obj) /\ Answer(0)
  /\ UNCHANGED <<hostVars, history>>

\* storageVolLookupByName, path() and info() of one volume.
Volume(v) ==
  /\ pc = "volume" /\ v \in todo
  /\ \/ /\ Running(obj) /\ v \in vols[obj[1]]
        /\ todo' = todo \ {v} /\ out' = out \cup {v} /\ Goto("volume")
        /\ UNCHANGED <<obj, code>>
     \/ ~(Running(obj) /\ v \in vols[obj[1]]) /\ Answer(0)
  /\ UNCHANGED <<hostVars, history>>

AnswerListVol == pc = "volume" /\ todo = {} /\ Answer(0) /\ UNCHANGED <<hostVars, history>>

-----------------------------------------------------------------------------
(* What others do. *)

\* Bound: other clients leave the handler a uuid.
ForeignDefine(p) == "define" \in Foreign /\ uuids + 1 < MaxUuid /\ Define(p)
ForeignUndefine(p) == "undefine" \in Foreign /\ pool[p].st = "defined" /\ SetPool(p, NoPool)
ForeignStart(p) ==
  "start" \in Foreign /\ pool[p].st = "defined" /\ SetPool(p, [pool[p] EXCEPT !.st = "active"])
ForeignDestroy(p) ==
  "destroy" \in Foreign /\ pool[p].st = "active" /\ SetPool(p, [pool[p] EXCEPT !.st = "defined"])
ForeignVolume(p, v) ==
  /\ "volume" \in Foreign /\ pool[p].st = "active"
  /\ vols' = [vols EXCEPT ![p] = IF v \in @ THEN @ \ {v} ELSE @ \cup {v}]
  /\ UNCHANGED <<pool, nets, uuids>>
ForeignNet(n) ==
  /\ "net" \in Foreign /\ nets' = IF n \in nets THEN nets \ {n} ELSE nets \cup {n}
  /\ UNCHANGED <<pool, vols, uuids>>

HostChanges ==
  /\ \/ \E p \in Pools : \/ ForeignDefine(p) \/ ForeignUndefine(p) \/ ForeignStart(p)
                         \/ ForeignDestroy(p) \/ \E v \in Vols : ForeignVolume(p, v)
     \/ \E n \in Nets : ForeignNet(n)
  /\ quiet' = FALSE /\ UNCHANGED <<op, pc, locals, broken, reply>>

\* Mutant: a connection that breaks under storagePoolDefineXML is answered with code 0 as well.
ConnectionBreaks_silent ==
  /\ "libvirtd" \in Faults /\ pc # "idle" /\ broken' = TRUE
  /\ CASE op = "info" -> Raise
       [] op = "listvol" \/ pc \in {"connect", "define", "describe"} -> Answer(0)
       [] OTHER -> Answer(10000)
  /\ UNCHANGED <<hostVars, quiet>>

\* The connection breaks or cannot be made: the next call raises.  listVol answers what it has and info
\* fails.  In newPool the calls of the inner try answer 10000, and the definition cannot be undone;
\* getConnection before it and XMLDesc after it raise with code 0, which is what is then answered.
ConnectionBreaks ==
  /\ "libvirtd" \in Faults /\ pc # "idle"
  /\ broken' = TRUE
  /\ CASE op = "info" -> Raise
       [] op = "listvol" \/ pc \in {"connect", "describe"} -> Answer(0)
       [] OTHER -> Answer(10000)
  /\ UNCHANGED <<hostVars, quiet>>

Next ==
  \/ \E a \in Requests : newPool(a)
  \/ GetConnection \/ StoragePoolDefineXML \/ Configure \/ SetAutostart \/ Create \/ Undefine \/ Describe
  \/ info \/ ListStoragePools \/ Refresh \/ AnswerInfo \/ ListVolumes \/ AnswerListVol
  \/ \E n \in Nets : ListNet(n)
  \/ \E p \in Pools : LookupPool(p) \/ listVol(p)
  \/ \E v \in Vols : Volume(v)
  \/ HostChanges \/ ConnectionBreaks

Spec == Init /\ [][Next]_vars

-----------------------------------------------------------------------------
(* Properties *)

\* The step in which a handler answers.
Answers == pc # "idle" /\ pc' = "idle"

\* A newPool that answers 10000 leaves no pool behind that it defined, unless another client has
\* started that pool meanwhile or libvirtd is gone: whichever of setAutostart, create and the
\* auto_start argument fails, the definition is undone.
NoPoolLeft ==
  [][Answers /\ reply'.op = "newpool" /\ reply'.code = 10000 /\ ~broken' =>
       \A p \in Pools : obj = <<p, pool'[p].uuid>> => pool'[p].st # "defined"]_vars

\* newPool undefines no pool but the one it defined itself, even if that one was undefined and its
\* name given to another pool by another client in the meantime.
UndoesOwn ==
  [][pc' # pc => \A p \in Pools :
       pool[p].st # "none" /\ pool'[p].st = "none" => obj = <<p, pool[p].uuid>>]_vars

\* A newPool that answers 0 on a host that nobody else changes has made what was asked for, whichever
\* call failed, but for one: the pool has the uuid of this request, and runs and starts by itself
\* exactly if auto_start says so.  The exception is getConnection, whose failure is answered with 0
\* although there is no pool; then nothing at all has been changed.
OkIsMade ==
  [][Answers /\ reply'.op = "newpool" /\ reply'.code = 0 /\ quiet' =>
       IF pc = "connect" THEN pool' = pool
       ELSE LET p == pool'[args.name] IN
            /\ obj = <<args.name, p.uuid>>
            /\ p.auto = args.auto /\ (p.st = "active") = args.auto]_vars

\* On a host that nobody changes meanwhile info and listVol list everything there is, and info
\* does not fail; only changes under the listing and a broken connection shorten the list of volumes or
\* fail the request.
ListsAll ==
  [][Answers /\ quiet' /\ ~broken' /\ reply'.op \in {"info", "listvol"} =>
       /\ reply'.status = "ok"
       /\ reply'.op = "info" => out = nets \cup {p \in Pools : pool[p].st = "active"}
       /\ reply'.op = "listvol" =>
            out = IF Running(obj) THEN vols[obj[1]] ELSE {}]_vars

=============================================================================
