--------------------------- MODULE DomainServlet ---------------------------
(***************************************************************************)
(* The /rest/domain servlet (domain_servlet.py) over a libvirt host.       *)
(*                                                                         *)
(* The Twisted reactor runs one handler at a time and a handler blocks in  *)
(* each libvirt call, so requests never interleave with each other; but    *)
(* guests, libvirtd and other libvirt clients change the host between two  *)
(* calls of one handler.  A handler is therefore one step per libvirt      *)
(* call, with its position in pc and its local variables as state.         *)
(***************************************************************************)
EXTENDS Libvirt

CONSTANTS
  Requests,    \* the operations clients ask for
  Faults,      \* "libvirtd": the connection may break; "crash": the server may die
  SharedDisks, \* may clients name a disk image that a domain already holds
  MaxDisks,    \* bound: disks of a domain
  NoDom,       \* None, where a uuid is expected
  NoPath       \* None, where a path is expected

ASSUME MaxDisksAssumption == MaxDisks \in Nat
ASSUME NullAssumption == NoDom \notin Uuids /\ NoPath \notin Paths
ASSUME SharedDisksAssumption == SharedDisks \in BOOLEAN

VARIABLES
  up,     \* the handler's libvirt connection works
  op,     \* the operation being served
  pc,     \* the next call of its handler
  tgt,    \* the domain getDomain returned
  seen,   \* the domain state the handler read
  code,   \* ret['code'] so far
  xml,    \* purgeDomain: disk paths of xml_disks not yet visited
  path,   \* attachDisk: the disk argument; newVol: the volume name tried
  idx,    \* attachDisk: disk_idx
  def,    \* createDomain: the requested definition
  reply,  \* what the client was sent last
  fin     \* calls of req.finish() for this request

locals == <<seen, code, xml, path, idx, def>>
vars == <<hostVars, up, op, pc, tgt, locals, reply, fin>>

PowerOps == {"reset", "reboot", "pause", "resume", "shutdown", "destroy", "start"}
DomainOps == PowerOps \cup {"get", "info", "purge", "newnet", "newmem", "attach_disk"}
Ops == DomainOps \cup {"create", "newvol"}

Code == {"OK", "BAD_PARAMETER", "NAME_DUPLICATED", "INADEQUATE_MEMORY",
         "INTERFACE_ERROR", "NOT_FOUND", "NO_DISK", "SYS_ERROR"}
Label == {"idle", "begin", "check", "recheck", "call", "report", "xml", "exists", "lookup",
          "undefine", "delete", "node", "disks", "nets", "parsed", "create"}

Def == [name: Names, uuid: Uuids, srcs: Seq(Paths), nics: SUBSET Nets]
NoDef == [name |-> CHOOSE n \in Names : TRUE, uuid |-> NoDom, srcs |-> <<>>, nics |-> {}]

\* A reply: the HTTP status, ret['code'], and whether a 'target' is in it.
Reply == [status: {"none", "ok", "error"}, code: Code, target: BOOLEAN]
NoReply == [status |-> "none", code |-> "OK", target |-> FALSE]
Json(c) == [status |-> "ok", code |-> c, target |-> FALSE]
Internal == [status |-> "error", code |-> "SYS_ERROR", target |-> FALSE]

ServletTypeOK ==
  /\ up \in BOOLEAN
  /\ op \in Ops \cup {"none"}
  /\ pc \in Label
  /\ tgt \in Uuids \cup {NoDom}
  /\ seen \in DomState
  /\ code \in Code
  /\ xml \in Seq(Paths)
  /\ path \in Paths \cup {NoPath}
  /\ idx \in Nat
  /\ def \in Def \cup {NoDef}
  /\ reply \in Reply
  /\ fin \in Nat

\* Every variable has a value of its kind, whatever the handlers, the guests and the faults do:
\* in particular newVol's numbers and attachDisk's disk_idx stay in their range.
TypeOK == HostTypeOK /\ ServletTypeOK

Init ==
  /\ HostInit
  /\ up = FALSE /\ op = "none" /\ pc = "idle" /\ tgt = NoDom
  /\ seen = "SHUTOFF" /\ code = "OK" /\ xml = <<>> /\ path = NoPath /\ idx = 0 /\ def = NoDef
  /\ reply = NoReply /\ fin = 0

-----------------------------------------------------------------------------
(* How a handler moves on. *)

\* Leave the handler: its locals are gone.
Return ==
  /\ pc' = "idle" /\ op' = "none" /\ tgt' = NoDom /\ up' = FALSE
  /\ seen' = "SHUTOFF" /\ code' = "OK" /\ xml' = <<>> /\ path' = NoPath /\ idx' = 0
  /\ def' = NoDef

\* req.write(...), req.finish(), return.
Answer(r) == Return /\ reply' = r /\ fin' = fin + 1

\* An exception leaves the handler: RequestHandler.render answers 500.
Raise == Answer(Internal)

\* Go on to the call at label l of the same handler.
Goto(l) == pc' = l /\ UNCHANGED <<op, tgt, up, reply, fin>>

\* A call that only reads from the domain succeeds.
Reachable == up /\ Exists(tgt)

-----------------------------------------------------------------------------
(* The request reaches the servlet: RequestHandler.render, request, getConnection, getDomain. *)

\* The selectors of a request: at most one name, id and uuid.
AtMostOne(S) == {{}} \cup {{x} : x \in S}
Selectors == [name: AtMostOne(Names), id: AtMostOne(Uuids), uuid: AtMostOne(Uuids)]

\* getDomain: by name, else by id, else by uuid; at most one element.
getDomain(sel) ==
  LET byName == UNION {lookupByName(n) : n \in sel.name}
      byId   == UNION {lookupByID(i) : i \in sel.id}
      byUuid == UNION {lookupByUUIDString(i) : i \in sel.uuid}
  IN  IF byName # {} THEN byName ELSE IF byId # {} THEN byId ELSE byUuid

\* What clients agree on among themselves: a disk image goes to one domain.
Offered(p) == SharedDisks \/ \A u \in Uuids : p \notin Refs(u)

\* What a handler answers when getDomain returns None: queryDomain sends an empty list, the others
\* NOT_FOUND, and domainInfo sends nothing.
NotFound(o) ==
  CASE o = "get"  -> reply' = Json("OK") /\ fin' = 1
    [] o = "info" -> reply' = NoReply /\ fin' = 0
    [] OTHER      -> reply' = Json("NOT_FOUND") /\ fin' = 1

\* A broken connection makes every lookup of getDomain raise, which counts as not found.
request(o) ==
  /\ pc = "idle" /\ o \in Requests \cap DomainOps
  /\ UNCHANGED <<hostVars, seen, code, xml, idx, def>>
  /\ \/ /\ "libvirtd" \in Faults
        /\ reply' = Internal /\ fin' = 1
        /\ UNCHANGED <<up, op, pc, tgt, path>>
     \/ /\ "libvirtd" \in Faults \/ \E sel \in Selectors : getDomain(sel) = {}
        /\ NotFound(o)
        /\ UNCHANGED <<up, op, pc, tgt, path>>
     \/ \E sel \in Selectors : \E u \in getDomain(sel) :
        /\ op' = o /\ pc' = "begin" /\ tgt' = u /\ up' = TRUE
        /\ reply' = NoReply /\ fin' = 0
        /\ IF o = "attach_disk"
           THEN /\ Len(disks[u]) < MaxDisks /\ Len(ldisks[u]) < MaxDisks
                /\ path' \in {p \in Paths : Offered(p)} \cup {NoPath}
           ELSE path' = path

-----------------------------------------------------------------------------
(* queryDomain, domainInfo, newMemory: they read, and change nothing this model keeps. *)

queryDomain ==
  /\ op = "get" /\ pc = "begin"
  /\ UNCHANGED hostVars
  /\ IF Reachable THEN Answer(Json("OK")) ELSE Raise

\* The state is read, then the CPU statistics of a running domain, then the description.
domainInfo ==
  /\ op = "info"
  /\ UNCHANGED hostVars
  /\ \/ pc \in {"begin", "call", "xml"} /\ ~Reachable /\ Raise
     \/ /\ pc = "begin" /\ Reachable
        /\ Goto(IF state[tgt] = "RUNNING" THEN "call" ELSE "xml")
        /\ UNCHANGED locals
     \/ pc = "call" /\ ~Active(tgt) /\ Raise
     \/ pc = "call" /\ up /\ Active(tgt) /\ Goto("xml") /\ UNCHANGED locals
     \/ pc = "xml" /\ Reachable /\ Answer(Json("OK"))

\* A missing value, an unreachable domain, a value that is no number, or the balloon call failing.
newMemory ==
  /\ op = "newmem"
  /\ UNCHANGED hostVars
  /\ \/ pc = "begin" /\ Answer(Json("BAD_PARAMETER"))
     \/ pc \in {"begin", "report"} /\ ~Reachable /\ Raise
     \/ /\ pc = "begin" /\ Reachable
        /\ Goto(IF state[tgt] = "RUNNING" THEN "call" ELSE "report")
        /\ UNCHANGED locals
     \/ pc = "call" /\ Raise
     \/ pc = "call" /\ up /\ Active(tgt) /\ Answer(Json("OK"))
     \/ pc = "report" /\ Reachable /\ Answer(Json("OK"))

-----------------------------------------------------------------------------
(* The power operations: read the state, act if it is the wanted one, report the state. *)

\* Call is the successful outcome of the one changing call; it may always fail instead.
Power(o, wanted, Call) ==
  /\ op = o
  /\ \/ pc \in {"begin", "recheck", "report"} /\ ~Reachable /\ UNCHANGED hostVars /\ Raise
     \/ /\ pc = "begin" /\ Reachable
        /\ Goto(IF state[tgt] = wanted THEN "call" ELSE IF o = "start" THEN "recheck" ELSE "report")
        /\ UNCHANGED <<hostVars, locals>>
     \/ /\ pc = "call" /\ up /\ Call
        /\ Goto("report") /\ UNCHANGED locals
     \/ /\ pc = "call" /\ code' = "SYS_ERROR"
        /\ Goto("report") /\ UNCHANGED <<hostVars, seen, xml, path, idx, def>>
     \/ pc = "report" /\ Reachable /\ UNCHANGED hostVars /\ Answer(Json(code))

resetDomain == Power("reset", "RUNNING", signal(tgt))
rebootDomain == Power("reboot", "RUNNING", signal(tgt))
pauseDomain == Power("pause", "RUNNING", suspend(tgt))
resumeDomain == Power("resume", "PAUSED", resume(tgt))
shutdownDomain == Power("shutdown", "RUNNING", signal(tgt))
destroyDomain == Power("destroy", "RUNNING", destroy(tgt))
\* The condition reads the state a second time when it was not SHUTOFF.
startDomain ==
  \/ Power("start", "SHUTOFF", create(tgt))
  \/ /\ op = "start" /\ pc = "recheck" /\ Reachable
     /\ Goto(IF state[tgt] = "CRASHED" THEN "call" ELSE "report")
     /\ UNCHANGED <<hostVars, locals>>

-----------------------------------------------------------------------------
(* purgeDomain *)

\* The disk paths of a description, in document order.
DiskPaths(ds) == [i \in DOMAIN ds |-> ds[i].src]

purge_xml ==
  /\ pc = "begin" /\ Reachable
  /\ xml' = DiskPaths(XMLDisks(tgt))
  /\ Goto("check") /\ UNCHANGED <<hostVars, seen, code, path, idx, def>>

\* Mutant: the domain is not destroyed first.
purge_check_no_destroy ==
  /\ pc = "check" /\ Reachable
  /\ seen' = state[tgt]
  /\ Goto("undefine") /\ UNCHANGED <<hostVars, code, xml, path, idx, def>>

purge_check ==
  /\ pc = "check" /\ Reachable
  /\ seen' = state[tgt]
  /\ Goto(IF state[tgt] = "RUNNING" THEN "call" ELSE "undefine")
  /\ UNCHANGED <<hostVars, code, xml, path, idx, def>>

\* Mutant: a failing destroy() is ignored.
purge_destroy_ignored ==
  /\ pc = "call" /\ up /\ (destroy(tgt) \/ UNCHANGED hostVars)
  /\ Goto("undefine") /\ UNCHANGED locals

purge_destroy ==
  /\ pc = "call" /\ up /\ destroy(tgt)
  /\ Goto("undefine") /\ UNCHANGED locals

\* Mutant: a failing undefine() is ignored.
purge_undefine_ignored ==
  /\ pc = "undefine" /\ up /\ (undefine(tgt) \/ UNCHANGED hostVars)
  /\ Goto("delete") /\ UNCHANGED locals

purge_undefine ==
  /\ pc = "undefine" /\ up /\ undefine(tgt)
  /\ Goto("delete") /\ UNCHANGED locals

\* One round of the loop: look the volume up and delete it; any error is ignored.
purge_delete ==
  /\ pc = "delete" /\ xml # <<>>
  /\ (up /\ deleteVol(Head(xml))) \/ UNCHANGED hostVars
  /\ xml' = Tail(xml)
  /\ Goto("delete") /\ UNCHANGED <<seen, code, path, idx, def>>

purgeDomain ==
  /\ op = "purge"
  /\ \/ purge_xml \/ purge_check \/ purge_destroy \/ purge_undefine \/ purge_delete
     \/ pc \in {"begin", "check"} /\ ~Reachable /\ UNCHANGED hostVars /\ Raise
     \/ pc \in {"call", "undefine"} /\ UNCHANGED hostVars /\ Raise
     \/ pc = "delete" /\ xml = <<>> /\ UNCHANGED hostVars /\ Answer(Json("OK"))

-----------------------------------------------------------------------------
(* newNet: a missing source argument, then network lookup, state and attach under one except. *)

newNet ==
  /\ op = "newnet"
  /\ \/ pc = "begin" /\ UNCHANGED hostVars /\ Answer(Json("BAD_PARAMETER"))
     \/ pc \in {"begin", "check"} /\ UNCHANGED hostVars /\ Answer(Json("SYS_ERROR"))
     \/ /\ pc = "begin" /\ Reachable
        /\ seen' = state[tgt]
        /\ Goto("check") /\ UNCHANGED <<hostVars, code, xml, path, idx, def>>
     \/ /\ pc = "check" /\ up
        /\ \E n \in Nets : attachNic(tgt, n, seen = "RUNNING")
        /\ Answer(Json("OK"))

-----------------------------------------------------------------------------
(* newVol, and the branch of request that answers for it. *)

\* Number n of the prefix that path belongs to.
Numbered(p, n) == <<p[1], n>>

\* Bound: the prefix has a free number.
newVol_begin ==
  /\ pc = "idle" /\ "newvol" \in Requests
  /\ UNCHANGED <<hostVars, seen, code, xml, idx, def, tgt>>
  /\ \/ /\ reply' = Internal /\ fin' = 1   \* no such pool, no room, no connection, ...
        /\ UNCHANGED <<up, op, pc, path>>
     \/ \E f \in Prefixes :
        /\ \E n \in 1..MaxIdx : <<f, n>> \notin vols
        /\ op' = "newvol" /\ pc' = "lookup" /\ path' = <<f, 1>> /\ up' = TRUE
        /\ reply' = NoReply /\ fin' = 0

\* Mutant: the number is not counted up.
newVol_lookup_stuck ==
  /\ op = "newvol" /\ pc = "lookup"
  /\ UNCHANGED <<hostVars, locals>>
  /\ IF up /\ path \in vols THEN Goto("lookup") ELSE Goto("create")

\* Count up while the name is taken; an error of the lookup ends the loop too.
newVol_lookup ==
  /\ op = "newvol" /\ pc = "lookup"
  /\ UNCHANGED <<hostVars, seen, code, xml, idx, def>>
  /\ IF up /\ path \in vols
     THEN path[2] < MaxIdx /\ path' = Numbered(path, path[2] + 1) /\ Goto("lookup")
     ELSE UNCHANGED path /\ Goto("create")

\* createXML; vol.path() and vol.info() may still fail.  After a failure request looks for a
\* 'prefix', 'path' or 'size' that is not there.
newVol_create ==
  /\ op = "newvol" /\ pc = "create"
  /\ \/ up /\ createVol(path) /\ (Answer(Json("OK")) \/ Raise)
     \/ UNCHANGED hostVars /\ Raise

-----------------------------------------------------------------------------
(* attachDisk: the except at its end swallows every failure, and the code stays what it was. *)

Attached == [status |-> "ok", code |-> "OK", target |-> TRUE]
attach_swallowed == UNCHANGED hostVars /\ Answer(Json("OK"))

\* With no disk argument: none at all, or a cdrom image (media are not kept in this model).
attach_cdrom ==
  /\ pc = "begin" /\ path = NoPath
  /\ UNCHANGED hostVars
  /\ Answer(Json("SYS_ERROR")) \/ Answer(Json("OK")) \/ (Reachable /\ Answer(Attached))

\* Mutant: a running domain is not refused.
attach_info_running ==
  /\ pc = "begin" /\ path # NoPath /\ Reachable
  /\ Goto("xml") /\ UNCHANGED <<hostVars, locals>>

attach_info ==
  /\ pc = "begin" /\ path # NoPath /\ Reachable
  /\ UNCHANGED hostVars
  /\ IF state[tgt] = "RUNNING"
     THEN Answer(Json("SYS_ERROR"))
     ELSE Goto("xml") /\ UNCHANGED locals

\* Mutant: disk_idx starts from 0.
attach_xml_from_zero ==
  /\ pc = "xml" /\ Reachable
  /\ idx' = Len(XMLDisks(tgt))
  /\ Goto("exists") /\ UNCHANGED <<hostVars, seen, code, xml, path, def>>

\* Mutant: disk_idx is taken back once too often.
attach_xml_underflow ==
  /\ pc = "xml" /\ Reachable
  /\ idx' = Len(XMLDisks(tgt)) - 1
  /\ Goto("exists") /\ UNCHANGED <<hostVars, seen, code, xml, path, def>>

\* disk_idx counts the disks of the description, from 1.
attach_xml ==
  /\ pc = "xml" /\ Reachable
  /\ idx' = Len(XMLDisks(tgt)) + 1
  /\ Goto("exists") /\ UNCHANGED <<hostVars, seen, code, xml, path, def>>

attach_exists ==
  /\ pc = "exists"
  /\ UNCHANGED hostVars
  /\ IF PathExists(path) THEN Goto("lookup") /\ UNCHANGED locals
     ELSE Answer(Json("BAD_PARAMETER"))

attach_lookup ==
  /\ pc = "lookup" /\ up /\ path \in vols
  /\ Goto("call") /\ UNCHANGED <<hostVars, locals>>

attach_call ==
  /\ pc = "call" /\ up
  /\ attachDisk_current(tgt, [src |-> path, tgt |-> idx])
  /\ Answer(Attached)

attachDisk ==
  /\ op = "attach_disk"
  /\ \/ attach_cdrom \/ attach_info \/ attach_xml \/ attach_exists \/ attach_lookup \/ attach_call
     \/ pc \in {"begin", "xml"} /\ path # NoPath /\ ~Reachable /\ attach_swallowed
     \/ pc = "lookup" /\ ~(up /\ path \in vols) /\ attach_swallowed
     \/ pc = "call" /\ attach_swallowed

-----------------------------------------------------------------------------
(* createDomain and parseDefinition *)

\* Bound: at most MaxDisks disks.
DiskLists == UNION {[1..n -> {p \in Paths : Offered(p)}] : n \in 0..MaxDisks}

create_begin ==
  /\ pc = "idle" /\ "create" \in Requests
  /\ UNCHANGED <<hostVars, seen, code, xml, path, idx, tgt>>
  /\ \/ /\ reply' \in {Internal, Json("BAD_PARAMETER")} /\ fin' = 1
        /\ UNCHANGED <<up, op, pc, def>>
     \/ /\ \E ds \in DiskLists, n \in Names, u \in Uuids, ns \in SUBSET Nets :
             def' = [name |-> n, uuid |-> u, srcs |-> ds, nics |-> ns]
        /\ op' = "create" /\ pc' = "begin" /\ up' = TRUE
        /\ reply' = NoReply /\ fin' = 0

\* Mutant: parseDefinition goes on to return a definition.
respond_goes_on(c) ==
  /\ reply' = Json(c) /\ fin' = fin + 1 /\ pc' = "parsed"
  /\ UNCHANGED <<op, tgt, up, locals>>

\* respond: answer, and let parseDefinition return None.
respond(c) ==
  /\ reply' = Json(c) /\ fin' = fin + 1 /\ def' = NoDef /\ pc' = "parsed"
  /\ UNCHANGED <<op, tgt, up, seen, code, xml, path, idx>>

parse_name ==
  /\ pc = "begin"
  /\ IF up /\ lookupByName(def.name) # {} THEN respond("NAME_DUPLICATED")
     ELSE Goto("node") /\ UNCHANGED locals

\* Mutant: a failing getInfo() is ignored.
parse_node_ignored ==
  /\ pc = "node"
  /\ respond("INADEQUATE_MEMORY") \/ (Goto("disks") /\ UNCHANGED locals)

parse_node ==
  /\ pc = "node"
  /\ \/ ~up /\ Raise
     \/ up /\ respond("INADEQUATE_MEMORY")
     \/ up /\ Goto("disks") /\ UNCHANGED locals

\* The template may be unreadable, and an entry of the disks no string.
parse_disks ==
  /\ pc = "disks"
  /\ \/ Raise
     \/ IF \A i \in DOMAIN def.srcs : PathExists(def.srcs[i])
        THEN Goto("nets") /\ UNCHANGED locals
        ELSE respond("NO_DISK")

\* The networks are only listed when the request has interfaces, if only an empty list of them.
parse_nets ==
  /\ pc = "nets"
  /\ \/ ~up /\ Raise
     \/ up /\ respond("INTERFACE_ERROR")   \* no networks, or an entry that is none of them
     \/ (up \/ def.nics = {}) /\ Goto("parsed") /\ UNCHANGED locals

parseDefinition ==
  /\ op = "create" /\ UNCHANGED hostVars
  /\ parse_name \/ parse_node \/ parse_disks \/ parse_nets

\* parseDefinition answered already when it returned None; otherwise define over a new connection.
create_define ==
  /\ op = "create" /\ pc = "parsed"
  /\ \/ def = NoDef /\ Return /\ UNCHANGED <<hostVars, reply, fin>>
     \/ /\ def # NoDef
        /\ defineXML(def.uuid, def.name,
                     [i \in DOMAIN def.srcs |-> [src |-> def.srcs[i], tgt |-> i]], def.nics)
        /\ pc' = "report" /\ up' = TRUE
        /\ UNCHANGED <<op, tgt, locals, reply, fin>>
     \/ def # NoDef /\ UNCHANGED hostVars /\ Raise

create_report ==
  /\ op = "create" /\ pc = "report"
  /\ UNCHANGED hostVars
  /\ IF up /\ Exists(def.uuid) THEN Answer(Json("OK")) ELSE Raise

-----------------------------------------------------------------------------

\* libvirtd restarts: the handler's connection is dead for good, the guests live on.
LibvirtdRestarts ==
  /\ "libvirtd" \in Faults /\ up
  /\ up' = FALSE
  /\ UNCHANGED <<hostVars, op, pc, tgt, locals, reply, fin>>

\* The server process dies inside a handler and is started again.
Crash ==
  /\ "crash" \in Faults /\ pc # "idle"
  /\ Return /\ reply' = NoReply /\ fin' = 0
  /\ UNCHANGED hostVars

Handler ==
  \/ queryDomain \/ domainInfo \/ newMemory
  \/ resetDomain \/ rebootDomain \/ pauseDomain \/ resumeDomain
  \/ shutdownDomain \/ destroyDomain \/ startDomain
  \/ purgeDomain \/ newNet \/ attachDisk
  \/ newVol_lookup \/ newVol_create
  \/ parseDefinition \/ create_define \/ create_report

Arrival == newVol_begin \/ create_begin \/ \E o \in Requests : request(o)

World == Environment /\ UNCHANGED <<up, op, pc, tgt, locals, reply, fin>>

Next == Handler \/ Arrival \/ World \/ LibvirtdRestarts \/ Crash

Spec == Init /\ [][Next]_vars

-----------------------------------------------------------------------------
(* Fairness: a handler that has a next call makes it (libvirt calls return). *)

Fairness == WF_vars(Handler)
FairSpec == Spec /\ Fairness

-----------------------------------------------------------------------------
(* Properties *)

\* No persistent domain is left with a disk whose image purgeDomain deleted: what a purge
\* deletes belongs to the purged domain alone.
PersistentDisksBacked ==
  \A u \in Uuids : defined[u] => \A p \in Sources(disks[u]) : PathExists(p)

\* The disks of a definition have the targets vda, vdb, ... without a gap, so that the target
\* attachDisk computes by counting disks is free.  Holds while no domain is paused: of a paused
\* domain attachDisk counts the live disks.
DenseTargets ==
  \A u \in Uuids : \A i \in DOMAIN disks[u] : disks[u][i].tgt = i

\* What is started keeps what it was defined with: a running domain has the disks and networks
\* of its definition, since attachDisk and newNet change both or only an inactive domain.
\* Holds while no domain is paused: then attachDisk changes the live definition only.
LiveMatchesConfig ==
  \A u \in Uuids : defined[u] /\ Active(u) => ldisks[u] = disks[u] /\ lnics[u] = nics[u]

\* While no domain is paused the definitions that attachDisk and newNet work on are in order: no gap
\* among the targets, and the same disks and networks live and in the persistent definition.
DefinitionsAgree == DenseTargets /\ LiveMatchesConfig

\* createDomain never changes a domain that exists, even when its name lookup failed: the
\* broken connection that made it fail also fails getInfo.
CreateNeverReplaces ==
  [][\A u \in Uuids : op = "create" /\ defined[u] /\ defined'[u]
        => disks'[u] = disks[u] /\ nics'[u] = nics[u]]_vars

\* purgeDomain deletes no volume that an active domain is running on.  Holds while no domain is
\* paused: purgeDomain destroys a domain first only when it is RUNNING.
PurgeSparesActive ==
  [][\A p \in vols \ vols' : \A u \in Uuids : Active(u) => p \notin Sources(ldisks[u])]_vars

\* When purgeDomain answers OK the domain does not exist any more; the same condition.
PurgeOkMeansGone ==
  [][op = "purge" /\ pc' = "idle" /\ reply' = Json("OK")
        => \A u \in Uuids : u = tgt => ~Exists(u)']_vars

\* While no domain is paused purgeDomain deletes nothing under an active domain, and its OK means that
\* the domain is gone.
PurgeIsSafe == PurgeSparesActive /\ PurgeOkMeansGone

\* A volume that newVol creates is not yet a disk of any persistent domain: names are reused
\* after a purge, references to them must not survive it.
NewVolumeIsNobodys ==
  [][\A p \in vols' \ vols : \A u \in Uuids : defined[u] => p \notin Sources(disks[u])]_vars

\* A handler that returns, and was not cut off by a crash of the agent, has called
\* req.finish() exactly once: parseDefinition answers its
\* errors itself, and createDomain must not answer again.
AnsweredOnce ==
  [][pc' = "idle" /\ <<op, reply, fin>>' # <<op, reply, fin>> /\ ~Crash => fin' = 1]_vars

\* attachDisk answers OK for a disk only when the domain has the disk.
AttachOkMeansAttached ==
  [][op = "attach_disk" /\ path # NoPath /\ pc' = "idle" /\ reply'.code = "OK"
        => \A u \in Uuids, p \in Paths : u = tgt /\ p = path => (p \in Sources(XMLDisks(u)))']_vars

\* A newvol that fails is answered with a code, as the SYS_ERROR branch of request intends.
NewVolAnswersCode ==
  [][op = "newvol" /\ pc' = "idle" => reply'.status = "ok"]_vars

\* Every request whose handler gets as far as a second libvirt call is answered: no handler waits or
\* loops for ever.  A request that ends with getDomain is one step; AnsweredOnce is about its answer.
EveryRequestAnswered == (pc # "idle") ~> (pc = "idle" /\ fin = 1)

-----------------------------------------------------------------------------
(* The inductive invariants behind the properties. *)

\* A handler that works on a domain, a volume or a disk argument has one.
ArgsBound ==
  /\ op \in DomainOps => tgt \in Uuids
  /\ op = "newvol" => path \in VolPaths
  /\ op = "attach_disk" /\ pc # "begin" => path # NoPath
  /\ op = "create" /\ pc \in {"begin", "node", "disks", "nets", "report"} => def # NoDef

\* No disk image is held by two domains.
RefsDisjoint == \A u, v \in Uuids : u # v => Refs(u) \cap Refs(v) = {}

\* The paths purgeDomain has still to delete are held by no other domain and, once the domain
\* is undefined, are in no definition.
PurgeOwns ==
  op = "purge" /\ pc # "begin" => \A i \in DOMAIN xml :
    /\ \A v \in Uuids : v # tgt => xml[i] \notin Refs(v)
    /\ pc = "delete" => \A v \in Uuids : defined[v] => xml[i] \notin Sources(disks[v])

\* The disk that attachDisk attaches is held by no domain, and exists when it is attached.
AttachFresh ==
  op = "attach_disk" /\ path # NoPath =>
    /\ \A v \in Uuids : path \notin Refs(v)
    /\ pc = "call" => path \in vols

\* So are the disks of the domain that createDomain defines.
CreateFresh ==
  op = "create" /\ pc # "report" => \A i \in DOMAIN def.srcs :
    /\ \A v \in Uuids : def.srcs[i] \notin Refs(v)
    /\ pc \in {"nets", "parsed"} => PathExists(def.srcs[i])

DiskInv == PersistentDisksBacked /\ RefsDisjoint /\ PurgeOwns /\ AttachFresh /\ CreateFresh

\* An open request is one of those that clients make, and it has been answered only if
\* parseDefinition did so and returned None.
FinishCount ==
  /\ op \in Requests \cup {"none"} /\ (pc = "idle" => op = "none")
  /\ pc # "idle" => fin = (IF op = "create" /\ def = NoDef THEN 1 ELSE 0)

\* The name that createDomain looked up stays free, or the connection is dead and getInfo will raise.
NameFree ==
  op = "create" /\ def # NoDef /\ ((pc = "node" /\ up) \/ pc \in {"disks", "nets", "parsed"})
    => lookupByName(def.name) = {}

\* What "no domain is paused" means: guests only power off, clients do not pause, and no other client
\* starts or defines a domain.
Quiet ==
  /\ GuestEvents \subseteq {"stop"} /\ "pause" \notin Requests
  /\ Foreign \cap {"start", "define"} = {}

NeverPaused == \A u \in Uuids : state[u] \in {"RUNNING", "SHUTOFF"}

\* A domain that a handler found shut off stays so until the handler is done with it.
StaysOff ==
  /\ op = "purge" /\ pc \in {"undefine", "delete"} => ~Active(tgt)
  /\ op = "purge" /\ pc = "delete" => ~defined[tgt]
  /\ op = "attach_disk" /\ pc \in {"xml", "exists", "lookup", "call"} => ~Active(tgt)
  /\ op = "newnet" /\ pc = "check" /\ seen # "RUNNING" => ~Active(tgt)

\* disk_idx is the number of the first free target when the disk is attached.
IdxIsNext ==
  op = "attach_disk" /\ pc \in {"exists", "lookup", "call"} /\ defined[tgt]
    => idx = Len(disks[tgt]) + 1

QuietInv == FinishCount /\ NameFree /\ NeverPaused /\ DefinitionsAgree /\ StaysOff /\ IdxIsNext

=============================================================================
