------------------------ MODULE DomainServletProofs ------------------------
(***************************************************************************)
(* Proofs about DomainServlet, for all sets of domains, names, paths and   *)
(* networks, all environments and all faults.                              *)
(***************************************************************************)
EXTENDS DomainServlet, TLAPS

-----------------------------------------------------------------------------
(* Type correctness. *)

\* The calls of libvirt keep the host's state well typed.
LEMMA StopType ==
  ASSUME HostTypeOK, NEW u \in Uuids, Stop(u) PROVE HostTypeOK'
BY DEF HostTypeOK, Stop, DomState

LEMMA SetStateType ==
  ASSUME HostTypeOK, NEW u \in Uuids, NEW s \in DomState, SetState(u, s) PROVE HostTypeOK'
BY DEF HostTypeOK, SetState

LEMMA CreateType ==
  ASSUME HostTypeOK, NEW u \in Uuids, create(u) PROVE HostTypeOK'
BY DEF HostTypeOK, create, DomState

LEMMA UndefineType ==
  ASSUME HostTypeOK, NEW u \in Uuids, undefine(u) PROVE HostTypeOK'
BY DEF HostTypeOK, undefine

LEMMA DefineType ==
  ASSUME HostTypeOK, NEW u \in Uuids, NEW n \in Names, NEW ds \in Seq(Disk),
         NEW ns \in SUBSET Nets, defineXML(u, n, ds, ns)
  PROVE HostTypeOK'
BY DEF HostTypeOK, defineXML

LEMMA AttachType ==
  ASSUME HostTypeOK, NEW u \in Uuids, NEW d \in Disk, attachDisk_current(u, d) PROVE HostTypeOK'
<1>1. Append(ldisks[u], d) \in Seq(Disk) /\ Append(disks[u], d) \in Seq(Disk)
  BY DEF HostTypeOK
<1>2. ldisks' \in [Uuids -> Seq(Disk)] /\ disks' \in [Uuids -> Seq(Disk)]
  <2> DEFINE l == Append(ldisks[u], d)
             c == Append(disks[u], d)
  <2>1. l \in Seq(Disk) /\ c \in Seq(Disk) BY <1>1
  <2>2. \/ ldisks' = [ldisks EXCEPT ![u] = l] /\ disks' = disks
        \/ disks' = [disks EXCEPT ![u] = c] /\ ldisks' = ldisks
    BY DEF attachDisk_current
  <2> HIDE DEF l, c
  <2> QED BY <2>1, <2>2, Zenon DEF HostTypeOK
<1> QED BY <1>2 DEF HostTypeOK, attachDisk_current

LEMMA AttachNicType ==
  ASSUME HostTypeOK, NEW u \in Uuids, NEW n \in Nets, NEW b, attachNic(u, n, b) PROVE HostTypeOK'
<1>1. nics' \in [Uuids -> SUBSET Nets] BY DEF HostTypeOK, attachNic
<1>2. lnics' \in [Uuids -> SUBSET Nets] BY DEF HostTypeOK, attachNic
<1> QED BY <1>1, <1>2 DEF HostTypeOK, attachNic

LEMMA SetVolsType ==
  ASSUME HostTypeOK, NEW vs \in SUBSET VolPaths, SetVols(vs) PROVE HostTypeOK'
BY DEF HostTypeOK, SetVols

LEMMA SameHostType == HostTypeOK /\ UNCHANGED hostVars => HostTypeOK'
BY DEF HostTypeOK, hostVars

LEMMA EnvironmentType == HostTypeOK /\ Environment => HostTypeOK'
<1> SUFFICES ASSUME HostTypeOK, Environment PROVE HostTypeOK'
  OBVIOUS
<1>1. CASE \E u \in Uuids : GuestPowersOff(u) \/ GuestIOError(u) \/ GuestSleeps(u)
                            \/ GuestWakes(u) \/ GuestPanics(u)
  BY <1>1, StopType, SetStateType
     DEF GuestPowersOff, GuestIOError, GuestSleeps, GuestWakes, GuestPanics, DomState
<1>2. CASE \E u \in Uuids : ForeignStart(u) \/ ForeignUndefine(u)
  BY <1>2, CreateType, UndefineType DEF ForeignStart, ForeignUndefine
<1>3. CASE \E u \in Uuids : ForeignDefine(u)
  <2>1. <<>> \in Seq(Disk) /\ {} \in SUBSET Nets OBVIOUS
  <2> QED BY <1>3, <2>1, DefineType, Zenon DEF ForeignDefine
<1>4. CASE \E p \in VolPaths : ForeignNewVol(p)
  <2>1. PICK p \in VolPaths : ForeignNewVol(p) BY <1>4
  <2>2. vols \cup {p} \in SUBSET VolPaths BY DEF HostTypeOK
  <2> QED BY <2>1, <2>2, SetVolsType DEF ForeignNewVol, createVol
<1> QED BY <1>1, <1>2, <1>3, <1>4 DEF Environment

\* The constants of the servlet are of their kinds.
LEMMA Kinds ==
  /\ NoReply \in Reply /\ Internal \in Reply /\ Attached \in Reply
  /\ \A c \in Code : Json(c) \in Reply
BY DEF NoReply, Internal, Attached, Json, Reply, Code

\* A handler that answers leaves the servlet well typed.
LEMMA AnswerType ==
  ASSUME ServletTypeOK, NEW r \in Reply, Answer(r) PROVE ServletTypeOK'
<1>1. up' \in BOOLEAN /\ tgt' \in Uuids \cup {NoDom} /\ path' \in Paths \cup {NoPath}
      /\ def' \in Def \cup {NoDef} /\ reply' \in Reply
  BY Zenon DEF Answer, Return
<1>2. op' \in Ops \cup {"none"} /\ pc' \in Label /\ seen' \in DomState /\ code' \in Code
  BY DEF Answer, Return, Label, DomState, Code
<1>3. xml' \in Seq(Paths) /\ idx' \in Nat /\ fin' \in Nat
  BY DEF ServletTypeOK, Answer, Return
<1> QED BY <1>1, <1>2, <1>3 DEF ServletTypeOK

LEMMA RaiseType == ASSUME ServletTypeOK, Raise PROVE ServletTypeOK'
BY AnswerType, Kinds DEF Raise

LEMMA JsonType ==
  ASSUME ServletTypeOK, NEW c \in Code, Answer(Json(c)) PROVE ServletTypeOK'
BY AnswerType, Kinds

LEMMA GotoType ==
  ASSUME ServletTypeOK, NEW l \in Label, Goto(l), UNCHANGED locals PROVE ServletTypeOK'
BY DEF ServletTypeOK, Goto, locals

LEMMA RespondType ==
  ASSUME ServletTypeOK, NEW c \in Code, respond(c) PROVE ServletTypeOK'
BY Kinds DEF ServletTypeOK, respond, Label

\* Setting the error code and going on.
LEMMA SysErrorType ==
  ASSUME ServletTypeOK, code' = "SYS_ERROR", Goto("report"), UNCHANGED <<seen, xml, path, idx, def>>
  PROVE ServletTypeOK'
BY DEF ServletTypeOK, Goto, Label, Code

\* The outcomes of a power handler that do not change the host.
PowerQuiet ==
  /\ UNCHANGED hostVars
  /\ \/ Raise
     \/ \E l \in Label : Goto(l) /\ UNCHANGED locals
     \/ code' = "SYS_ERROR" /\ Goto("report") /\ UNCHANGED <<seen, xml, path, idx, def>>
     \/ Answer(Json(code))

LEMMA PowerQuietType == TypeOK /\ PowerQuiet => TypeOK'
<1> SUFFICES ASSUME TypeOK, PowerQuiet PROVE ServletTypeOK'
  BY SameHostType DEF PowerQuiet, TypeOK
<1>1. code \in Code BY DEF TypeOK, ServletTypeOK
<1> QED BY <1>1, RaiseType, GotoType, SysErrorType, JsonType DEF PowerQuiet, TypeOK

\* A power handler is quiet, or makes its call and goes on to report.
PowerCall(o) == op = o /\ pc = "call" /\ up /\ Goto("report") /\ UNCHANGED locals

LEMMA PowerCases ==
  /\ resetDomain => PowerQuiet \/ (PowerCall("reset") /\ signal(tgt))
  /\ rebootDomain => PowerQuiet \/ (PowerCall("reboot") /\ signal(tgt))
  /\ pauseDomain => PowerQuiet \/ (PowerCall("pause") /\ suspend(tgt))
  /\ resumeDomain => PowerQuiet \/ (PowerCall("resume") /\ resume(tgt))
  /\ shutdownDomain => PowerQuiet \/ (PowerCall("shutdown") /\ signal(tgt))
  /\ destroyDomain => PowerQuiet \/ (PowerCall("destroy") /\ destroy(tgt))
  /\ startDomain => PowerQuiet \/ (PowerCall("start") /\ create(tgt))
<1> USE DEF Power, PowerQuiet, PowerCall
<1>0. \A b \in BOOLEAN, c \in BOOLEAN :
        (IF b THEN "call" ELSE IF c THEN "recheck" ELSE "report") \in Label
      /\ (IF b THEN "call" ELSE "report") \in Label
  BY DEF Label
<1>1. resetDomain => PowerQuiet \/ (PowerCall("reset") /\ signal(tgt)) BY <1>0 DEF resetDomain, Label
<1>2. rebootDomain => PowerQuiet \/ (PowerCall("reboot") /\ signal(tgt)) BY <1>0 DEF rebootDomain, Label
<1>3. pauseDomain => PowerQuiet \/ (PowerCall("pause") /\ suspend(tgt)) BY <1>0 DEF pauseDomain, Label
<1>4. resumeDomain => PowerQuiet \/ (PowerCall("resume") /\ resume(tgt)) BY <1>0 DEF resumeDomain, Label
<1>5. shutdownDomain => PowerQuiet \/ (PowerCall("shutdown") /\ signal(tgt)) BY <1>0 DEF shutdownDomain, Label
<1>6. destroyDomain => PowerQuiet \/ (PowerCall("destroy") /\ destroy(tgt)) BY <1>0 DEF destroyDomain, Label
<1>7. startDomain => PowerQuiet \/ (PowerCall("start") /\ create(tgt)) BY <1>0 DEF startDomain, Label
<1> QED BY <1>1, <1>2, <1>3, <1>4, <1>5, <1>6, <1>7

\* An answer leaves no handler, so nothing is claimed of its arguments.
LEMMA AnswerBound == ASSUME NEW r, Answer(r) PROVE ArgsBound'
BY DEF ArgsBound, Answer, Return, DomainOps, PowerOps

LEMMA GotoBound ==
  ASSUME ArgsBound, NEW l, Goto(l), UNCHANGED <<path, def>>,
         op # "create", op = "attach_disk" => path # NoPath
  PROVE ArgsBound'
BY DEF ArgsBound, Goto

\* TypeOK and ArgsBound are inductive together.
TypeInv == TypeOK /\ ArgsBound

LEMMA PowerQuietInv == TypeInv /\ PowerQuiet /\ op \in PowerOps => TypeInv'
<1> SUFFICES ASSUME TypeInv, PowerQuiet, op \in PowerOps PROVE TypeInv'
  OBVIOUS
<1>1. TypeOK' BY PowerQuietType DEF TypeInv
<1>2. op # "create" /\ op # "attach_disk" BY DEF PowerOps
<1>3. CASE Raise \/ Answer(Json(code)) BY <1>1, <1>3, AnswerBound DEF TypeInv, Raise
<1>4. CASE \E l \in Label : Goto(l) /\ UNCHANGED locals
  BY <1>1, <1>2, <1>4, GotoBound DEF TypeInv, locals
<1>5. CASE Goto("report") /\ UNCHANGED <<seen, xml, path, idx, def>>
  BY <1>1, <1>2, <1>5, GotoBound DEF TypeInv
<1> QED BY <1>3, <1>4, <1>5 DEF PowerQuiet

\* Every power handler keeps the types.
LEMMA PowerType ==
  ASSUME TypeInv,
         \/ resetDomain \/ rebootDomain \/ pauseDomain \/ resumeDomain
         \/ shutdownDomain \/ destroyDomain \/ startDomain
  PROVE TypeInv'
<1>1. op \in PowerOps
  BY DEF resetDomain, rebootDomain, pauseDomain, resumeDomain, shutdownDomain, destroyDomain,
         startDomain, Power, PowerOps
<1>2. CASE PowerQuiet BY <1>1, <1>2, PowerQuietInv
<1>3. ASSUME NEW o, PowerCall(o), HostTypeOK' PROVE TypeInv'
  <2>1. ServletTypeOK' BY <1>3, GotoType DEF PowerCall, TypeInv, TypeOK, Label
  <2>2. op # "create" /\ op # "attach_disk" BY <1>1 DEF PowerOps
  <2> QED BY <1>3, <2>1, <2>2, GotoBound DEF PowerCall, TypeInv, TypeOK, locals
<1>4. tgt \in Uuids BY <1>1 DEF TypeInv, ArgsBound, DomainOps
<1>5. HostTypeOK BY DEF TypeInv, TypeOK
<1>6. signal(tgt) => HostTypeOK' BY <1>5, SameHostType DEF signal
<1>7. suspend(tgt) \/ resume(tgt) => HostTypeOK'
  BY <1>4, <1>5, SetStateType DEF suspend, resume, DomState
<1>8. destroy(tgt) => HostTypeOK' BY <1>4, <1>5, StopType DEF destroy
<1>9. create(tgt) => HostTypeOK' BY <1>4, <1>5, CreateType
<1> QED BY <1>2, <1>3, <1>6, <1>7, <1>8, <1>9, PowerCases

\* A step that answers keeps the types when the host stays well typed.
LEMMA AnswerInv ==
  ASSUME TypeInv, NEW r \in Reply, Answer(r), HostTypeOK' PROVE TypeInv'
BY AnswerType, AnswerBound DEF TypeInv, TypeOK

LEMMA JsonInv ==
  ASSUME TypeInv, NEW c \in Code, Answer(Json(c)), HostTypeOK' PROVE TypeInv'
BY AnswerInv, Kinds

LEMMA RaiseInv == ASSUME TypeInv, Raise, HostTypeOK' PROVE TypeInv'
BY AnswerInv, Kinds DEF Raise

LEMMA GotoInv ==
  ASSUME TypeInv, NEW l \in Label, Goto(l), UNCHANGED locals, HostTypeOK',
         op # "create", op = "attach_disk" => path # NoPath
  PROVE TypeInv'
BY GotoType, GotoBound DEF TypeInv, TypeOK, locals

\* The reading handlers.
LEMMA ReadersType == ASSUME TypeInv, queryDomain \/ domainInfo \/ newMemory PROVE TypeInv'
<1>1. HostTypeOK'
  BY SameHostType DEF queryDomain, domainInfo, newMemory, TypeInv, TypeOK
<1>2. {"OK", "BAD_PARAMETER"} \subseteq Code /\ {"call", "xml", "report"} \subseteq Label
  BY DEF Code, Label
<1>3. CASE queryDomain BY <1>1, <1>2, <1>3, JsonInv, RaiseInv DEF queryDomain
<1>4. CASE domainInfo BY <1>1, <1>2, <1>4, JsonInv, RaiseInv, GotoInv DEF domainInfo
<1>5. CASE newMemory BY <1>1, <1>2, <1>5, JsonInv, RaiseInv, GotoInv DEF newMemory
<1> QED BY <1>3, <1>4, <1>5

\* The paths of a description are paths.
LEMMA DiskPathsType == ASSUME NEW ds \in Seq(Disk) PROVE DiskPaths(ds) \in Seq(Paths)
<1>1. Len(ds) \in Nat /\ DOMAIN ds = 1..Len(ds) OBVIOUS
<1>2. \A i \in 1..Len(ds) : ds[i].src \in Paths
  <2>1. \A i \in 1..Len(ds) : ds[i] \in Disk OBVIOUS
  <2>2. \A d \in Disk : d.src \in Paths BY DEF Disk
  <2> QED BY <2>1, <2>2
<1>3. DiskPaths(ds) \in [1..Len(ds) -> Paths] BY <1>1, <1>2 DEF DiskPaths
<1> QED BY <1>1, <1>3

LEMMA PurgeType == ASSUME TypeInv, purgeDomain PROVE TypeInv'
<1>1. tgt \in Uuids /\ op # "create" /\ op # "attach_disk" /\ op # "newvol"
  BY DEF TypeInv, ArgsBound, purgeDomain, DomainOps
<1>2. HostTypeOK /\ ServletTypeOK BY DEF TypeInv, TypeOK
<1>3. "OK" \in Code /\ {"check", "call", "undefine", "delete"} \subseteq Label BY DEF Code, Label
<1>4. CASE purge_xml
  <2>1. xml' \in Seq(Paths) BY <1>1, <1>2, <1>4, DiskPathsType DEF purge_xml, XMLDisks, HostTypeOK
  <2>2. ServletTypeOK' BY <1>2, <1>3, <1>4, <2>1 DEF purge_xml, Goto, ServletTypeOK
  <2> QED BY <1>1, <1>2, <1>4, <2>2, SameHostType, GotoBound DEF purge_xml, TypeInv, TypeOK
<1>5. CASE purge_check
  <2>1. seen' \in DomState BY <1>1, <1>2, <1>5 DEF purge_check, HostTypeOK
  <2>2. ServletTypeOK' BY <1>2, <1>3, <1>5, <2>1 DEF purge_check, Goto, ServletTypeOK
  <2> QED BY <1>1, <1>2, <1>5, <2>2, SameHostType, GotoBound DEF purge_check, TypeInv, TypeOK
<1>6. CASE purge_destroy
  BY <1>1, <1>2, <1>3, <1>6, StopType, GotoInv DEF purge_destroy, destroy
<1>7. CASE purge_undefine
  BY <1>1, <1>2, <1>3, <1>7, UndefineType, GotoInv DEF purge_undefine
<1>8. CASE purge_delete
  <2>1. HostTypeOK'
    <3>1. CASE UNCHANGED hostVars BY <1>2, <3>1, SameHostType
    <3>2. CASE deleteVol(Head(xml))
      <4>1. vols \ {Head(xml)} \in SUBSET VolPaths BY <1>2 DEF HostTypeOK
      <4> QED BY <1>2, <3>2, <4>1, SetVolsType DEF deleteVol
    <3> QED BY <1>8, <3>1, <3>2 DEF purge_delete
  <2>2. xml' \in Seq(Paths) BY <1>2, <1>8 DEF purge_delete, ServletTypeOK
  <2>3. ServletTypeOK' BY <1>2, <1>3, <1>8, <2>2 DEF purge_delete, Goto, ServletTypeOK
  <2> QED BY <1>1, <1>8, <2>1, <2>3, GotoBound DEF purge_delete, TypeInv, TypeOK
<1>9. CASE UNCHANGED hostVars /\ (Raise \/ Answer(Json("OK")))
  BY <1>2, <1>3, <1>9, SameHostType, RaiseInv, JsonInv
<1> QED BY <1>4, <1>5, <1>6, <1>7, <1>8, <1>9 DEF purgeDomain

LEMMA NewNetType == ASSUME TypeInv, newNet PROVE TypeInv'
<1>1. tgt \in Uuids /\ op # "create" /\ op # "attach_disk"
  BY DEF TypeInv, ArgsBound, newNet, DomainOps
<1>2. HostTypeOK /\ ServletTypeOK BY DEF TypeInv, TypeOK
<1>3. {"OK", "BAD_PARAMETER", "SYS_ERROR"} \subseteq Code /\ "check" \in Label BY DEF Code, Label
<1>4. CASE UNCHANGED hostVars /\ (Answer(Json("BAD_PARAMETER")) \/ Answer(Json("SYS_ERROR")))
  BY <1>2, <1>3, <1>4, SameHostType, JsonInv
<1>5. CASE /\ seen' = state[tgt] /\ Goto("check")
           /\ UNCHANGED <<hostVars, code, xml, path, idx, def>>
  <2>1. seen' \in DomState BY <1>1, <1>2, <1>5 DEF HostTypeOK
  <2>2. ServletTypeOK' BY <1>2, <1>3, <1>5, <2>1 DEF Goto, ServletTypeOK
  <2> QED BY <1>1, <1>2, <1>5, <2>2, SameHostType, GotoBound DEF TypeInv, TypeOK
<1>6. CASE (\E n \in Nets : attachNic(tgt, n, seen = "RUNNING")) /\ Answer(Json("OK"))
  BY <1>1, <1>2, <1>3, <1>6, AttachNicType, JsonInv
<1> QED BY <1>4, <1>5, <1>6 DEF newNet

LEMMA NewVolType == ASSUME TypeInv, newVol_lookup \/ newVol_create PROVE TypeInv'
<1>1. HostTypeOK /\ ServletTypeOK /\ path \in VolPaths
  BY DEF TypeInv, TypeOK, ArgsBound, newVol_lookup, newVol_create
<1>2. "OK" \in Code /\ {"lookup", "create"} \subseteq Label BY DEF Code, Label
<1>3. CASE newVol_lookup
  <2>1. path' \in VolPaths
    <3>1. CASE up /\ path \in vols
      <4>1. path[1] \in Prefixes /\ path[2] \in 1..MaxIdx BY <1>1 DEF VolPaths
      <4>2. path[2] + 1 \in 1..MaxIdx
        BY <1>3, <3>1, <4>1, MaxIdxAssumption DEF newVol_lookup
      <4> QED BY <1>3, <3>1, <4>1, <4>2 DEF newVol_lookup, Numbered, VolPaths
    <3>2. CASE ~(up /\ path \in vols) BY <1>1, <1>3, <3>2 DEF newVol_lookup
    <3> QED BY <3>1, <3>2
  <2>2. \E l \in Label : Goto(l) BY <1>2, <1>3 DEF newVol_lookup
  <2>3. ServletTypeOK' BY <1>1, <1>3, <2>1, <2>2 DEF newVol_lookup, Goto, ServletTypeOK, Paths
  <2>4. ArgsBound' BY <1>3, <2>1, <2>2 DEF newVol_lookup, Goto, ArgsBound, DomainOps, PowerOps
  <2> QED BY <1>1, <1>3, <2>3, <2>4, SameHostType DEF newVol_lookup, TypeInv, TypeOK
<1>4. CASE newVol_create
  <2>1. vols \cup {path} \in SUBSET VolPaths BY <1>1 DEF HostTypeOK
  <2>2. HostTypeOK'
    BY <1>1, <1>4, <2>1, SetVolsType, SameHostType DEF newVol_create, createVol
  <2> QED BY <1>2, <1>4, <2>2, JsonInv, RaiseInv DEF newVol_create
<1> QED BY <1>3, <1>4

LEMMA AttachDiskType == ASSUME TypeInv, attachDisk PROVE TypeInv'
<1>1. tgt \in Uuids /\ op = "attach_disk" /\ op # "create" /\ op # "newvol"
  BY DEF TypeInv, ArgsBound, attachDisk, DomainOps
<1>2. HostTypeOK /\ ServletTypeOK BY DEF TypeInv, TypeOK
<1>3. pc # "begin" => path \in Paths BY <1>1 DEF TypeInv, TypeOK, ServletTypeOK, ArgsBound
<1>4. /\ {"OK", "SYS_ERROR", "BAD_PARAMETER"} \subseteq Code
      /\ {"xml", "exists", "lookup", "call"} \subseteq Label
  BY DEF Code, Label
<1>5. CASE attach_cdrom
  BY <1>2, <1>4, <1>5, SameHostType, JsonInv, AnswerInv, Kinds DEF attach_cdrom
<1>6. CASE attach_info
  BY <1>1, <1>2, <1>4, <1>6, SameHostType, JsonInv, GotoInv DEF attach_info
<1>7. CASE attach_xml
  <2>1. XMLDisks(tgt) \in Seq(Disk) BY <1>1, <1>2 DEF XMLDisks, HostTypeOK
  <2>2. idx' \in Nat BY <1>7, <2>1 DEF attach_xml
  <2>3. ServletTypeOK' BY <1>2, <1>4, <1>7, <2>2 DEF attach_xml, Goto, ServletTypeOK
  <2>4. path # NoPath BY <1>1, <1>7 DEF attach_xml, TypeInv, ArgsBound
  <2> QED BY <1>1, <1>2, <1>7, <2>3, <2>4, SameHostType, GotoBound DEF attach_xml, TypeInv, TypeOK
<1>8. CASE attach_exists \/ attach_lookup
  <2>1. path # NoPath BY <1>1, <1>8 DEF attach_exists, attach_lookup, TypeInv, ArgsBound
  <2>2. HostTypeOK' BY <1>2, <1>8, SameHostType DEF attach_exists, attach_lookup
  <2> QED BY <1>1, <1>4, <1>8, <2>1, <2>2, JsonInv, GotoInv DEF attach_exists, attach_lookup
<1>9. CASE attach_call
  <2>1. [src |-> path, tgt |-> idx] \in Disk
    BY <1>2, <1>3, <1>9 DEF attach_call, Disk, ServletTypeOK
  <2> QED BY <1>1, <1>2, <1>9, <2>1, AttachType, AnswerInv, Kinds DEF attach_call
<1>10. CASE attach_swallowed
  BY <1>2, <1>4, <1>10, SameHostType, JsonInv DEF attach_swallowed
<1> QED BY <1>5, <1>6, <1>7, <1>8, <1>9, <1>10 DEF attachDisk

\* A definition becomes the disks it lists, with targets counted from 1.
LEMMA DefDisksType ==
  ASSUME NEW d \in Def
  PROVE [i \in DOMAIN d.srcs |-> [src |-> d.srcs[i], tgt |-> i]] \in Seq(Disk)
<1>1. d.srcs \in Seq(Paths) BY DEF Def
<1>2. Len(d.srcs) \in Nat /\ DOMAIN d.srcs = 1..Len(d.srcs) BY <1>1
<1>3. \A i \in 1..Len(d.srcs) : d.srcs[i] \in Paths BY <1>1
<1>4. \A i \in 1..Len(d.srcs) : [src |-> d.srcs[i], tgt |-> i] \in Disk BY <1>2, <1>3 DEF Disk
<1>5. [i \in DOMAIN d.srcs |-> [src |-> d.srcs[i], tgt |-> i]] \in [1..Len(d.srcs) -> Disk]
  BY <1>2, <1>4
<1> QED BY <1>2, <1>5

LEMMA CreateDomainType ==
  ASSUME TypeInv, parseDefinition \/ create_define \/ create_report PROVE TypeInv'
<1>1. HostTypeOK /\ ServletTypeOK /\ op = "create"
  BY DEF TypeInv, TypeOK, parseDefinition, create_define, create_report
<1>2. /\ {"OK", "NAME_DUPLICATED", "INADEQUATE_MEMORY", "NO_DISK", "INTERFACE_ERROR"} \subseteq Code
      /\ {"node", "disks", "nets", "parsed", "report", "idle"} \subseteq Label
  BY DEF Code, Label
<1>3. ASSUME NEW c \in Code, respond(c), HostTypeOK' PROVE TypeInv'
  <2>1. ServletTypeOK' BY <1>1, <1>3, RespondType
  <2>2. ArgsBound' BY <1>1, <1>3 DEF respond, ArgsBound, DomainOps, PowerOps
  <2> QED BY <1>3, <2>1, <2>2 DEF TypeInv, TypeOK
<1>4. ASSUME NEW l \in Label, Goto(l), UNCHANGED locals, HostTypeOK',
             pc \in {"begin", "node", "disks", "nets"}
      PROVE TypeInv'
  <2>1. ServletTypeOK' BY <1>1, <1>4, GotoType
  <2>2. ArgsBound' BY <1>1, <1>4 DEF Goto, locals, TypeInv, ArgsBound, DomainOps, PowerOps
  <2> QED BY <1>4, <2>1, <2>2 DEF TypeInv, TypeOK
<1>5. CASE parseDefinition
  <2>1. HostTypeOK' BY <1>1, <1>5, SameHostType DEF parseDefinition
  <2>2. CASE parse_name BY <1>2, <1>3, <1>4, <2>1, <2>2 DEF parse_name
  <2>3. CASE parse_node BY <1>2, <1>3, <1>4, <2>1, <2>3, RaiseInv DEF parse_node
  <2>4. CASE parse_disks BY <1>2, <1>3, <1>4, <2>1, <2>4, RaiseInv DEF parse_disks
  <2>5. CASE parse_nets BY <1>2, <1>3, <1>4, <2>1, <2>5, RaiseInv DEF parse_nets
  <2> QED BY <1>5, <2>2, <2>3, <2>4, <2>5 DEF parseDefinition
<1>6. CASE create_define
  <2>1. CASE Return /\ UNCHANGED <<hostVars, reply, fin>>
    <3>1. HostTypeOK' BY <1>1, <2>1, SameHostType
    <3>2. up' \in BOOLEAN /\ tgt' \in Uuids \cup {NoDom} /\ path' \in Paths \cup {NoPath}
          /\ def' \in Def \cup {NoDef}
      BY <2>1, Zenon DEF Return
    <3>3. op' \in Ops \cup {"none"} /\ seen' \in DomState /\ code' \in Code
      BY <2>1 DEF Return, DomState, Code
    <3>4. xml' \in Seq(Paths) /\ idx' \in Nat /\ fin' \in Nat /\ reply' \in Reply /\ pc' \in Label
      BY <1>1, <1>2, <2>1 DEF ServletTypeOK, Return
    <3>5. ServletTypeOK' BY <3>2, <3>3, <3>4 DEF ServletTypeOK
    <3>6. ArgsBound' BY <2>1 DEF ArgsBound, Return, DomainOps, PowerOps
    <3> QED BY <3>1, <3>5, <3>6 DEF TypeInv, TypeOK
  <2>2. CASE /\ def # NoDef
             /\ defineXML(def.uuid, def.name,
                  [i \in DOMAIN def.srcs |-> [src |-> def.srcs[i], tgt |-> i]], def.nics)
             /\ pc' = "report" /\ up' = TRUE /\ UNCHANGED <<op, tgt, locals, reply, fin>>
    <3>1. def \in Def BY <1>1, <2>2 DEF ServletTypeOK
    <3>2. def.uuid \in Uuids /\ def.name \in Names /\ def.nics \in SUBSET Nets BY <3>1 DEF Def
    <3>3. HostTypeOK' BY <1>1, <2>2, <3>1, <3>2, DefDisksType, DefineType, Zenon
    <3>4. ServletTypeOK' BY <1>1, <1>2, <2>2 DEF ServletTypeOK, locals
    <3>5. ArgsBound' BY <1>1, <2>2 DEF ArgsBound, locals, DomainOps, PowerOps
    <3> QED BY <3>3, <3>4, <3>5 DEF TypeInv, TypeOK
  <2>3. CASE UNCHANGED hostVars /\ Raise BY <1>1, <2>3, SameHostType, RaiseInv
  <2> QED BY <1>6, <2>1, <2>2, <2>3, Zenon DEF create_define
<1>7. CASE create_report
  BY <1>1, <1>2, <1>7, SameHostType, JsonInv, RaiseInv DEF create_report
<1> QED BY <1>5, <1>6, <1>7

\* The disk lists of a request are lists of paths that are offered.
LEMMA DiskListsType ==
  ASSUME NEW ds \in DiskLists
  PROVE ds \in Seq(Paths) /\ \A i \in DOMAIN ds : Offered(ds[i])
<1>1. PICK n \in 0..MaxDisks : ds \in [1..n -> {p \in Paths : Offered(p)}] BY DEF DiskLists
<1>2. n \in Nat BY MaxDisksAssumption
<1>3. ds \in [1..n -> Paths] /\ \A i \in 1..n : Offered(ds[i]) BY <1>1
<1> QED BY <1>2, <1>3

LEMMA ArrivalType == ASSUME TypeInv, Arrival PROVE TypeInv'
<1>1. HostTypeOK /\ ServletTypeOK BY DEF TypeInv, TypeOK
<1>2. HostTypeOK' BY <1>1, SameHostType DEF Arrival, newVol_begin, create_begin, request
<1>3. /\ {"OK", "BAD_PARAMETER", "NOT_FOUND"} \subseteq Code
      /\ {"begin", "lookup"} \subseteq Label
  BY DEF Code, Label
<1>4. CASE newVol_begin
  <2>1. CASE reply' = Internal /\ fin' = 1 /\ UNCHANGED <<up, op, pc, path>>
    <3>1. ServletTypeOK' BY <1>1, <1>4, <2>1, Kinds DEF newVol_begin, ServletTypeOK
    <3>2. ArgsBound' BY <1>4, <2>1 DEF newVol_begin, TypeInv, ArgsBound
    <3> QED BY <1>2, <3>1, <3>2 DEF TypeInv, TypeOK
  <2>2. CASE \E f \in Prefixes : /\ op' = "newvol" /\ pc' = "lookup" /\ path' = <<f, 1>>
                                 /\ up' = TRUE /\ reply' = NoReply /\ fin' = 0
    <3>1. path' \in VolPaths BY <2>2, MaxIdxAssumption DEF VolPaths
    <3>2. "newvol" \in Ops BY DEF Ops
    <3>3. ServletTypeOK'
      BY <1>1, <1>3, <1>4, <2>2, <3>1, <3>2, Kinds DEF newVol_begin, ServletTypeOK, Paths
    <3>4. ArgsBound' BY <1>4, <2>2, <3>1 DEF newVol_begin, ArgsBound, DomainOps, PowerOps
    <3> QED BY <1>2, <3>3, <3>4 DEF TypeInv, TypeOK
  <2> QED BY <1>4, <2>1, <2>2, Zenon DEF newVol_begin
<1>5. CASE create_begin
  <2>1. CASE reply' \in {Internal, Json("BAD_PARAMETER")} /\ fin' = 1 /\ UNCHANGED <<up, op, pc, def>>
    <3>1. reply' \in Reply BY <1>3, <2>1, Kinds
    <3>2. ServletTypeOK' BY <1>1, <1>5, <2>1, <3>1 DEF create_begin, ServletTypeOK
    <3>3. ArgsBound' BY <1>5, <2>1 DEF create_begin, TypeInv, ArgsBound
    <3> QED BY <1>2, <3>2, <3>3 DEF TypeInv, TypeOK
  <2>2. CASE /\ \E ds \in DiskLists, n \in Names, u \in Uuids, ns \in SUBSET Nets :
                  def' = [name |-> n, uuid |-> u, srcs |-> ds, nics |-> ns]
             /\ op' = "create" /\ pc' = "begin" /\ up' = TRUE /\ reply' = NoReply /\ fin' = 0
    <3>1. PICK ds \in DiskLists, n \in Names, u \in Uuids, ns \in SUBSET Nets :
                  def' = [name |-> n, uuid |-> u, srcs |-> ds, nics |-> ns]
      BY <2>2
    <3>2. def' \in Def BY <3>1, DiskListsType, Zenon DEF Def
    <3>3. def' # NoDef
      <4>1. def'.uuid # NoDom BY <3>1, NullAssumption
      <4>2. NoDef.uuid = NoDom BY DEF NoDef
      <4> QED BY <4>1, <4>2
    <3>4. "create" \in Ops BY DEF Ops
    <3>5. ServletTypeOK'
      BY <1>1, <1>3, <1>5, <2>2, <3>2, <3>4, Kinds DEF create_begin, ServletTypeOK
    <3>6. ArgsBound' BY <1>5, <2>2, <3>3 DEF create_begin, ArgsBound, DomainOps, PowerOps
    <3> QED BY <1>2, <3>5, <3>6 DEF TypeInv, TypeOK
  <2> QED BY <1>5, <2>1, <2>2, Zenon DEF create_begin
<1>6. CASE \E o \in Requests : request(o)
  <2>1. PICK o \in Requests : request(o) BY <1>6
  <2>2. CASE /\ (reply' = Internal /\ fin' = 1) \/ NotFound(o)
             /\ UNCHANGED <<up, op, pc, tgt, path>>
    <3>1. reply' \in Reply /\ fin' \in Nat BY <1>3, <2>2, Kinds DEF NotFound
    <3>2. ServletTypeOK' BY <1>1, <2>1, <2>2, <3>1 DEF request, ServletTypeOK
    <3>3. ArgsBound' BY <2>1, <2>2 DEF request, TypeInv, ArgsBound
    <3> QED BY <1>2, <3>2, <3>3 DEF TypeInv, TypeOK
  <2>3. ASSUME NEW sel \in Selectors, NEW u \in getDomain(sel),
               op' = o, pc' = "begin", tgt' = u, up' = TRUE, reply' = NoReply, fin' = 0,
               path' \in Paths \cup {NoPath}
        PROVE TypeInv'
    <3>1. u \in Uuids
      BY <2>3 DEF getDomain, lookupByName, lookupByID, lookupByUUIDString
    <3>2. o \in Ops /\ o # "create" /\ o # "newvol"
      BY <2>1 DEF request, Ops, DomainOps, PowerOps
    <3>3. ServletTypeOK'
      BY <1>1, <1>3, <2>1, <2>3, <3>1, <3>2, Kinds DEF request, ServletTypeOK
    <3>4. ArgsBound' BY <2>3, <3>1, <3>2 DEF ArgsBound
    <3> QED BY <1>2, <3>3, <3>4 DEF TypeInv, TypeOK
  <2>4. path \in Paths \cup {NoPath} BY <1>1 DEF ServletTypeOK
  <2> QED BY <2>1, <2>2, <2>3, <2>4, Zenon DEF request
<1> QED BY <1>4, <1>5, <1>6 DEF Arrival

\* What happens outside the handlers.
LEMMA OutsideType == ASSUME TypeInv, World \/ LibvirtdRestarts \/ Crash PROVE TypeInv'
<1>1. HostTypeOK /\ ServletTypeOK BY DEF TypeInv, TypeOK
<1>2. CASE World
  BY <1>1, <1>2, EnvironmentType DEF World, TypeInv, TypeOK, ServletTypeOK, ArgsBound, locals
<1>3. CASE LibvirtdRestarts
  BY <1>1, <1>3, SameHostType, Zenon
     DEF LibvirtdRestarts, TypeInv, TypeOK, ServletTypeOK, ArgsBound, locals
<1>4. CASE Crash
  <2>1. up' \in BOOLEAN /\ tgt' \in Uuids \cup {NoDom} /\ path' \in Paths \cup {NoPath}
        /\ def' \in Def \cup {NoDef}
    BY <1>4, Zenon DEF Crash, Return
  <2>2. /\ op' \in Ops \cup {"none"} /\ pc' \in Label /\ seen' \in DomState /\ code' \in Code
        /\ reply' \in Reply
    BY <1>4, Kinds DEF Crash, Return, DomState, Code, Label
  <2>3. xml' \in Seq(Paths) /\ idx' \in Nat /\ fin' \in Nat BY <1>4 DEF Crash, Return
  <2>4. ServletTypeOK' BY <2>1, <2>2, <2>3 DEF ServletTypeOK
  <2>5. ArgsBound' BY <1>4 DEF Crash, Return, ArgsBound, DomainOps, PowerOps
  <2> QED BY <1>1, <1>4, <2>4, <2>5, SameHostType DEF Crash, TypeInv, TypeOK
<1> QED BY <1>2, <1>3, <1>4

LEMMA InitType == Init => TypeInv
<1> SUFFICES ASSUME Init PROVE TypeInv
  OBVIOUS
<1>1. (CHOOSE n \in Names : TRUE) \in Names BY NamesAssumption
<1>2. HostTypeOK BY <1>1 DEF Init, HostInit, HostTypeOK, DomState
<1>3. up \in BOOLEAN /\ tgt \in Uuids \cup {NoDom} /\ path \in Paths \cup {NoPath}
      /\ def \in Def \cup {NoDef}
  BY Zenon DEF Init
<1>4. /\ op \in Ops \cup {"none"} /\ pc \in Label /\ seen \in DomState /\ code \in Code
      /\ reply \in Reply
  BY Kinds DEF Init, DomState, Code, Label
<1>5. xml \in Seq(Paths) /\ idx \in Nat /\ fin \in Nat BY DEF Init
<1>6. ServletTypeOK BY <1>3, <1>4, <1>5 DEF ServletTypeOK
<1>7. ArgsBound BY DEF Init, ArgsBound, DomainOps, PowerOps
<1> QED BY <1>2, <1>6, <1>7 DEF TypeInv, TypeOK

LEMMA NextType == TypeInv /\ [Next]_vars => TypeInv'
<1> SUFFICES ASSUME TypeInv, [Next]_vars PROVE TypeInv'
  OBVIOUS
<1>1. CASE Handler
  BY <1>1, ReadersType, PowerType, PurgeType, NewNetType, AttachDiskType, NewVolType,
     CreateDomainType DEF Handler
<1>2. CASE Arrival BY <1>2, ArrivalType
<1>3. CASE World \/ LibvirtdRestarts \/ Crash BY <1>3, OutsideType
<1>4. CASE UNCHANGED vars
  BY <1>4 DEF vars, hostVars, locals, TypeInv, TypeOK, HostTypeOK, ServletTypeOK, ArgsBound
<1> QED BY <1>1, <1>2, <1>3, <1>4 DEF Next

\* Every state of the servlet is well typed, whatever requests arrive and whatever the guests,
\* the other clients of libvirt, libvirtd and the server process do between two libvirt calls.
THEOREM TypeCorrect == Spec => []TypeOK
<1>1. TypeInv => TypeOK BY DEF TypeInv
<1> QED BY <1>1, InitType, NextType, PTL DEF Spec

LEMMA TypeInvariant == Spec => []TypeInv
BY InitType, NextType, PTL DEF Spec

-----------------------------------------------------------------------------
(* When no client names a disk image that a domain already holds, a purge  *)
(* never takes the disk of a domain that stays defined.                    *)


\* A step after which no domain holds more than before and no volume is gone.
Calm ==
  /\ \A u \in Uuids : Refs(u)' \subseteq Refs(u)
  /\ \A u \in Uuids : defined'[u] =>
       \A p \in Sources(disks'[u]) : defined[u] /\ p \in Sources(disks[u])
  /\ vols \subseteq vols'

LEMMA NoSources == Sources(<<>>) = {}
BY DEF Sources

\* Ending a run, changing an active state, booting, undefining, adding a network, adding a
\* volume, and defining a domain without disks are all calm.
LEMMA StopCalm == ASSUME HostTypeOK, NEW u \in Uuids, Stop(u) PROVE Calm
BY NoSources, Zenon DEF HostTypeOK, Stop, Calm, Refs, Active, Sources

LEMMA SetStateCalm ==
  ASSUME HostTypeOK, NEW u \in Uuids, NEW s \in DomState, SetState(u, s), Active(u) PROVE Calm
BY Zenon DEF HostTypeOK, SetState, Calm, Refs, Active, Sources

LEMMA CreateCalm == ASSUME HostTypeOK, NEW u \in Uuids, create(u) PROVE Calm
BY Zenon DEF HostTypeOK, create, Calm, Refs, Active, Sources

LEMMA UndefineCalm == ASSUME HostTypeOK, NEW u \in Uuids, undefine(u) PROVE Calm
BY Zenon DEF HostTypeOK, undefine, Calm, Refs, Active, Sources

LEMMA DefineEmptyCalm ==
  ASSUME HostTypeOK, NEW u \in Uuids, NEW n \in Names, defineXML(u, n, <<>>, {}) PROVE Calm
<1>1. /\ disks'[u] = <<>> /\ UNCHANGED <<state, ldisks, vols>>
      /\ \A v \in Uuids : v # u => disks'[v] = disks[v] /\ defined'[v] = defined[v]
  BY DEF HostTypeOK, defineXML
<1>2. Sources(disks'[u]) = {}
  BY <1>1, NoSources
<1>3. \A v \in Uuids : Refs(v)' \subseteq Refs(v)
  BY <1>1, <1>2, Zenon DEF Refs, Active
<1> QED BY <1>1, <1>2, <1>3, Zenon DEF Calm

LEMMA AttachNicCalm ==
  ASSUME HostTypeOK, NEW u \in Uuids, NEW n, NEW b, attachNic(u, n, b) PROVE Calm
BY Zenon DEF HostTypeOK, attachNic, Calm, Refs, Active, Sources

LEMMA CreateVolCalm == ASSUME HostTypeOK, NEW p, createVol(p) PROVE Calm
BY Zenon DEF HostTypeOK, createVol, SetVols, Calm, Refs, Active, Sources

LEMMA SameHostCalm == ASSUME HostTypeOK, UNCHANGED hostVars PROVE Calm
BY DEF HostTypeOK, hostVars, Calm, Refs, Active, Sources

LEMMA EnvironmentCalm == ASSUME HostTypeOK, Environment PROVE Calm
<1>1. CASE \E u \in Uuids : GuestPowersOff(u) \/ GuestIOError(u) \/ GuestSleeps(u)
                            \/ GuestWakes(u) \/ GuestPanics(u)
  BY <1>1, StopCalm, SetStateCalm
     DEF GuestPowersOff, GuestIOError, GuestSleeps, GuestWakes, GuestPanics, DomState, Active
<1>2. CASE \E u \in Uuids : ForeignStart(u) \/ ForeignUndefine(u) \/ ForeignDefine(u)
  BY <1>2, CreateCalm, UndefineCalm, DefineEmptyCalm DEF ForeignStart, ForeignUndefine, ForeignDefine
<1>3. CASE \E p \in VolPaths : ForeignNewVol(p)
  BY <1>3, CreateVolCalm DEF ForeignNewVol
<1> QED BY <1>1, <1>2, <1>3 DEF Environment

\* Calm steps keep the part of the invariant that is about the host alone.
HostInv == PersistentDisksBacked /\ RefsDisjoint

LEMMA CalmHost == ASSUME HostInv, Calm PROVE HostInv'
<1>1. PersistentDisksBacked' BY DEF HostInv, PersistentDisksBacked, Calm, PathExists
<1>2. RefsDisjoint' BY DEF HostInv, RefsDisjoint, Calm
<1> QED BY <1>1, <1>2 DEF HostInv

\* The part that is about a handler says nothing outside the three handlers concerned.
HandlerInv == PurgeOwns /\ AttachFresh /\ CreateFresh

LEMMA OtherHandler ==
  ASSUME op' \notin {"purge", "attach_disk", "create"} PROVE HandlerInv'
BY DEF HandlerInv, PurgeOwns, AttachFresh, CreateFresh

\* Calm steps of the environment keep it.
LEMMA CalmHandler ==
  ASSUME HandlerInv, ArgsBound, Calm, UNCHANGED <<op, pc, tgt, xml, path, def>> PROVE HandlerInv'
<1>1. PurgeOwns' BY DEF HandlerInv, PurgeOwns, Calm
<1>2. AttachFresh' BY DEF HandlerInv, AttachFresh, Calm
<1>3. CreateFresh' BY DEF HandlerInv, CreateFresh, Calm, PathExists
<1> QED BY <1>1, <1>2, <1>3 DEF HandlerInv

\* An answer, a power handler, a reading handler, newNet and newVol leave it vacuous.
LEMMA AnswerHandler == ASSUME NEW r, Answer(r) PROVE HandlerInv'
BY OtherHandler DEF Answer, Return

LEMMA PowerDisk ==
  ASSUME TypeInv, HostInv,
         \/ resetDomain \/ rebootDomain \/ pauseDomain \/ resumeDomain
         \/ shutdownDomain \/ destroyDomain \/ startDomain
  PROVE HostInv' /\ HandlerInv'
<1>1. op \in PowerOps
  BY Zenon DEF resetDomain, rebootDomain, pauseDomain, resumeDomain, shutdownDomain, destroyDomain,
         startDomain, Power, PowerOps
<1>2. tgt \in Uuids /\ HostTypeOK BY <1>1 DEF TypeInv, TypeOK, ArgsBound, DomainOps
<1>3. op' \in PowerOps \cup {"none"}
  <2>1. PowerQuiet => op' \in PowerOps \cup {"none"}
    BY <1>1 DEF PowerQuiet, Raise, Answer, Return, Goto
  <2>2. \A o : PowerCall(o) => op' \in PowerOps \cup {"none"} BY <1>1 DEF PowerCall, Goto
  <2> QED BY <2>1, <2>2, PowerCases
<1>4. HandlerInv' BY <1>3, OtherHandler DEF PowerOps
<1>5. Calm
  <2>1. PowerQuiet => Calm BY <1>2, SameHostCalm DEF PowerQuiet
  <2>2. signal(tgt) => Calm BY <1>2, SameHostCalm DEF signal
  <2>3. suspend(tgt) \/ resume(tgt) => Calm
    BY <1>2, SetStateCalm DEF suspend, resume, DomState, Active
  <2>4. destroy(tgt) => Calm BY <1>2, StopCalm DEF destroy
  <2>5. create(tgt) => Calm BY <1>2, CreateCalm
  <2> QED BY <2>1, <2>2, <2>3, <2>4, <2>5, PowerCases
<1> QED BY <1>4, <1>5, CalmHost

LEMMA PlainDisk ==
  ASSUME TypeInv, HostInv,
         queryDomain \/ domainInfo \/ newMemory \/ newNet \/ newVol_lookup \/ newVol_create
  PROVE HostInv' /\ HandlerInv'
<1>1. HostTypeOK /\ (op = "newnet" => tgt \in Uuids)
  BY DEF TypeInv, TypeOK, ArgsBound, DomainOps
<1>2. op' \notin {"purge", "attach_disk", "create"}
  BY Zenon DEF queryDomain, domainInfo, newMemory, newNet, newVol_lookup, newVol_create,
         Raise, Answer, Return, Goto
<1>3. Calm
  <2>1. CASE queryDomain \/ domainInfo \/ newMemory \/ newVol_lookup
    BY <1>1, <2>1, SameHostCalm, Zenon DEF queryDomain, domainInfo, newMemory, newVol_lookup
  <2>2. CASE newNet
    <3>1. UNCHANGED hostVars \/ \E n \in Nets : attachNic(tgt, n, seen = "RUNNING")
      BY <2>2 DEF newNet
    <3> QED BY <1>1, <2>2, <3>1, SameHostCalm, AttachNicCalm DEF newNet
  <2>3. CASE newVol_create
    BY <1>1, <2>3, SameHostCalm, CreateVolCalm DEF newVol_create
  <2> QED BY <2>1, <2>2, <2>3
<1> QED BY <1>2, <1>3, OtherHandler, CalmHost

-----------------------------------------------------------------------------
(* purgeDomain *)

\* What a description names, its domain holds.
LEMMA DescriptionHeld ==
  ASSUME HostTypeOK, NEW u \in Uuids, Exists(u), NEW i \in DOMAIN DiskPaths(XMLDisks(u))
  PROVE DiskPaths(XMLDisks(u))[i] \in Refs(u)
BY Zenon DEF HostTypeOK, Exists, DiskPaths, XMLDisks, Refs, Sources

\* Looking at the rest of a list is looking at part of it.
LEMMA RestOfList ==
  ASSUME NEW S, NEW q \in Seq(S), q # <<>>
  PROVE /\ 1 \in DOMAIN q /\ Head(q) = q[1]
        /\ \A i \in DOMAIN Tail(q) : \E j \in DOMAIN q : Tail(q)[i] = q[j]
<1>1. Len(q) \in Nat /\ DOMAIN q = 1..Len(q) OBVIOUS
<1>2. Len(q) # 0 OBVIOUS
<1>3. /\ Tail(q) \in Seq(S) /\ Len(Tail(q)) = Len(q) - 1
      /\ \A i \in 1..Len(Tail(q)) : Tail(q)[i] = q[i + 1]
  OBVIOUS
<1>4. DOMAIN Tail(q) = 1..Len(Tail(q)) BY <1>3
<1>5. \A i \in DOMAIN Tail(q) : i + 1 \in DOMAIN q /\ Tail(q)[i] = q[i + 1]
  BY <1>1, <1>3, <1>4
<1> QED BY <1>1, <1>2, <1>5

LEMMA PurgeDisk ==
  ASSUME TypeInv, HostInv, HandlerInv, purgeDomain PROVE HostInv' /\ HandlerInv'
<1>1. op = "purge" /\ tgt \in Uuids /\ HostTypeOK /\ xml \in Seq(Paths)
  BY DEF purgeDomain, TypeInv, TypeOK, ServletTypeOK, ArgsBound, DomainOps
<1>2. PurgeOwns BY DEF HandlerInv
<1>3. ASSUME op' = "purge", PurgeOwns' PROVE HandlerInv'
  BY <1>3, Zenon DEF HandlerInv, AttachFresh, CreateFresh
<1>4. CASE purge_xml
  <2>1. Calm BY <1>1, <1>4, SameHostCalm DEF purge_xml
  <2>2. PurgeOwns'
    <3>1. op' = op /\ tgt' = tgt /\ pc' = "check" /\ xml' = DiskPaths(XMLDisks(tgt))
      BY <1>4 DEF purge_xml, Goto
    <3>2. \A i \in DOMAIN xml' : xml'[i] \in Refs(tgt)
      BY <1>1, <1>4, <3>1, DescriptionHeld DEF purge_xml, Reachable
    <3>3. \A i \in DOMAIN xml' : \A v \in Uuids : v # tgt => xml'[i] \notin Refs(v)
      BY <1>1, <3>2 DEF HostInv, RefsDisjoint
    <3> QED BY <2>1, <3>1, <3>3, Zenon DEF PurgeOwns, Calm
  <2> QED BY <1>1, <1>3, <1>4, <2>1, <2>2, CalmHost DEF purge_xml, Goto
<1>5. CASE purge_check \/ purge_destroy
  <2>1. Calm BY <1>1, <1>5, SameHostCalm, StopCalm DEF purge_check, purge_destroy, destroy
  <2>2. op' = op /\ tgt' = tgt /\ xml' = xml /\ pc' # "delete"
    BY <1>5 DEF purge_check, purge_destroy, Goto, locals
  <2>3. pc # "begin" BY <1>5 DEF purge_check, purge_destroy
  <2>4. PurgeOwns' BY <1>1, <1>2, <2>1, <2>2, <2>3 DEF PurgeOwns, Calm
  <2> QED BY <1>1, <1>3, <2>1, <2>2, <2>4, CalmHost
<1>6. CASE purge_undefine
  <2>0. pc # "begin" BY <1>6 DEF purge_undefine
  <2>1. Calm BY <1>1, <1>6, UndefineCalm DEF purge_undefine
  <2>2. op' = op /\ tgt' = tgt /\ xml' = xml BY <1>6 DEF purge_undefine, Goto, locals
  <2>3. ~defined'[tgt] BY <1>1, <1>6 DEF purge_undefine, undefine, HostTypeOK
  <2>4. ASSUME NEW i \in DOMAIN xml, NEW v \in Uuids, defined'[v]
        PROVE xml[i] \notin Sources(disks'[v])
    <3>1. v # tgt /\ xml[i] \notin Refs(v) BY <1>1, <1>2, <2>0, <2>3, <2>4, Zenon DEF PurgeOwns
    <3> QED BY <2>1, <2>4, <3>1, Zenon DEF Calm, Refs
  <2>5. PurgeOwns' BY <1>1, <1>2, <2>0, <2>1, <2>2, <2>4, Zenon DEF PurgeOwns, Calm
  <2> QED BY <1>1, <1>3, <2>1, <2>2, <2>5, CalmHost
<1>7. CASE purge_delete
  <2>1. /\ pc = "delete" /\ pc' = pc /\ op' = op /\ tgt' = tgt /\ xml' = Tail(xml) /\ xml # <<>>
        /\ UNCHANGED <<defined, state, disks, ldisks>>
        /\ vols' = vols \/ vols' = vols \ {Head(xml)}
    BY <1>7 DEF purge_delete, Goto, deleteVol, SetVols, hostVars
  <2>2. \A u \in Uuids : Refs(u)' = Refs(u) BY <2>1, Zenon DEF Refs, Active, Sources
  <2>3. 1 \in DOMAIN xml /\ Head(xml) = xml[1] BY <1>1, <2>1, RestOfList
  <2>4. \A v \in Uuids : defined[v] => Head(xml) \notin Sources(disks[v])
    BY <1>1, <1>2, <2>1, <2>3, Zenon DEF PurgeOwns
  <2>5. PersistentDisksBacked'
    BY <2>1, <2>4 DEF HostInv, PersistentDisksBacked, PathExists, Sources
  <2>6. RefsDisjoint' BY <2>2 DEF HostInv, RefsDisjoint
  <2>7. \A i \in DOMAIN Tail(xml) : \E j \in DOMAIN xml : Tail(xml)[i] = xml[j]
    BY <1>1, <2>1, RestOfList, Zenon
  <2>8. PurgeOwns' BY <1>1, <1>2, <2>1, <2>2, <2>7 DEF PurgeOwns, Sources
  <2> QED BY <1>1, <1>3, <2>1, <2>5, <2>6, <2>8 DEF HostInv
<1>8. CASE UNCHANGED hostVars /\ (Raise \/ Answer(Json("OK")))
  BY <1>1, <1>8, SameHostCalm, CalmHost, AnswerHandler DEF Raise
<1> QED BY <1>4, <1>5, <1>6, <1>7, <1>8 DEF purgeDomain

-----------------------------------------------------------------------------
(* attachDisk *)

LEMMA AppendSources ==
  ASSUME NEW ds \in Seq(Disk), NEW d \in Disk
  PROVE Sources(Append(ds, d)) \subseteq Sources(ds) \cup {d.src}
<1>1. /\ Len(ds) \in Nat /\ DOMAIN ds = 1..Len(ds)
      /\ DOMAIN Append(ds, d) = 1..(Len(ds) + 1)
  OBVIOUS
<1>2. /\ \A i \in 1..Len(ds) : Append(ds, d)[i] = ds[i]
      /\ Append(ds, d)[Len(ds) + 1] = d
  OBVIOUS
<1>3. \A i \in 1..(Len(ds) + 1) : i \in 1..Len(ds) \/ i = Len(ds) + 1 BY <1>1
<1> QED BY <1>1, <1>2, <1>3 DEF Sources

LEMMA AttachDiskDisk ==
  ASSUME TypeInv, HostInv, HandlerInv, attachDisk PROVE HostInv' /\ HandlerInv'
<1>1. op = "attach_disk" /\ tgt \in Uuids /\ HostTypeOK
  BY DEF attachDisk, TypeInv, TypeOK, ArgsBound, DomainOps
<1>2. AttachFresh BY DEF HandlerInv
<1>3. ASSUME op' = "attach_disk", AttachFresh' PROVE HandlerInv'
  BY <1>3, Zenon DEF HandlerInv, PurgeOwns, CreateFresh
<1>4. CASE attach_call
  <2> DEFINE d == [src |-> path, tgt |-> idx]
  <2>1. path \in Paths /\ path # NoPath
    BY <1>1, <1>4 DEF attach_call, TypeInv, TypeOK, ServletTypeOK, ArgsBound
  <2>2. d \in Disk /\ d.src = path
    BY <2>1 DEF Disk, TypeInv, TypeOK, ServletTypeOK
  <2>3. path \in vols /\ \A v \in Uuids : path \notin Refs(v)
    BY <1>1, <1>2, <1>4, <2>1 DEF AttachFresh, attach_call
  <2>4. attachDisk_current(tgt, d) BY <1>4 DEF attach_call
  <2> HIDE DEF d
  <2>5. /\ Sources(Append(ldisks[tgt], d)) \subseteq Sources(ldisks[tgt]) \cup {path}
        /\ Sources(Append(disks[tgt], d)) \subseteq Sources(disks[tgt]) \cup {path}
    BY <1>1, <2>2, AppendSources DEF HostTypeOK
  <2>6. /\ UNCHANGED <<defined, state, vols>>
        /\ \A v \in Uuids : v # tgt => disks'[v] = disks[v] /\ ldisks'[v] = ldisks[v]
        /\ disks'[tgt] = disks[tgt] \/ disks'[tgt] = Append(disks[tgt], d)
        /\ ldisks'[tgt] = ldisks[tgt] \/ ldisks'[tgt] = Append(ldisks[tgt], d)
    BY <1>1, <2>4 DEF attachDisk_current, HostTypeOK
  <2>7. /\ Sources(disks'[tgt]) \subseteq Sources(disks[tgt]) \cup {path}
        /\ Sources(ldisks'[tgt]) \subseteq Sources(ldisks[tgt]) \cup {path}
    BY <2>5, <2>6, Zenon
  <2>8. PersistentDisksBacked'
    BY <2>3, <2>6, <2>7 DEF HostInv, PersistentDisksBacked, PathExists
  <2>9. \A v \in Uuids : v # tgt => Refs(v)' = Refs(v) BY <2>6 DEF Refs, Active
  <2>10. \A v \in Uuids : v = tgt => Refs(v)' \subseteq Refs(v) \cup {path}
    BY <2>6, <2>7 DEF Refs, Active
  <2>11. \A u, v \in Uuids : u # v => Refs(u)' \cap Refs(v)' = {}
    BY <2>3, <2>9, <2>10 DEF HostInv, RefsDisjoint
  <2>12. RefsDisjoint' BY <2>11 DEF RefsDisjoint
  <2> QED BY <1>4, <2>8, <2>12, AnswerHandler DEF attach_call, HostInv
<1>5. CASE UNCHANGED hostVars /\ \E r : Answer(r)
  BY <1>1, <1>5, SameHostCalm, CalmHost, AnswerHandler
<1>6. ASSUME UNCHANGED hostVars, UNCHANGED <<op, path>>, pc' # "call" \/ path \in vols
      PROVE HostInv' /\ HandlerInv'
  <2>1. Calm BY <1>1, <1>6, SameHostCalm
  <2>2. AttachFresh' BY <1>1, <1>2, <1>6, <2>1 DEF AttachFresh, Calm
  <2> QED BY <1>1, <1>3, <1>6, <2>1, <2>2, CalmHost
<1>7. CASE attach_cdrom BY <1>5, <1>7 DEF attach_cdrom
<1>8. CASE attach_info BY <1>5, <1>6, <1>8 DEF attach_info, Goto, locals
<1>9. CASE attach_xml BY <1>6, <1>9 DEF attach_xml, Goto
<1>10. CASE attach_exists BY <1>5, <1>6, <1>10 DEF attach_exists, Goto, locals
<1>11. CASE attach_lookup BY <1>6, <1>11 DEF attach_lookup, Goto, locals
<1>12. CASE attach_swallowed BY <1>5, <1>12 DEF attach_swallowed
<1> QED BY <1>4, <1>7, <1>8, <1>9, <1>10, <1>11, <1>12 DEF attachDisk

-----------------------------------------------------------------------------
(* createDomain *)

LEMMA CreateDisk ==
  ASSUME TypeInv, HostInv, HandlerInv, parseDefinition \/ create_define \/ create_report
  PROVE HostInv' /\ HandlerInv'
<1>1. op = "create" /\ HostTypeOK /\ def \in Def \cup {NoDef}
  BY DEF parseDefinition, create_define, create_report, TypeInv, TypeOK, ServletTypeOK
<1>2. CreateFresh BY DEF HandlerInv
<1>3. ASSUME op' = "create", CreateFresh' PROVE HandlerInv'
  BY <1>3, Zenon DEF HandlerInv, PurgeOwns, AttachFresh
<1>4. CASE UNCHANGED hostVars /\ ((\E r : Answer(r)) \/ Return)
  BY <1>1, <1>4, SameHostCalm, CalmHost, OtherHandler DEF Answer, Return
<1>5. ASSUME UNCHANGED hostVars, NEW c, respond(c) PROVE HostInv' /\ HandlerInv'
  <2>1. Calm BY <1>1, <1>5, SameHostCalm
  <2>2. op' = "create" /\ def' = NoDef BY <1>1, <1>5 DEF respond
  <2>3. DOMAIN NoDef.srcs = {}
    <3>1. NoDef.srcs = <<>> BY DEF NoDef
    <3> QED BY <3>1
  <2>4. CreateFresh' BY <2>2, <2>3 DEF CreateFresh
  <2> QED BY <1>3, <2>1, <2>2, <2>4, CalmHost
<1>6. ASSUME UNCHANGED hostVars, UNCHANGED <<op, def>>, pc # "report",
             pc' \notin {"nets", "parsed"} \/ pc = "nets"
               \/ \A i \in DOMAIN def.srcs : PathExists(def.srcs[i])
      PROVE HostInv' /\ HandlerInv'
  <2>1. Calm BY <1>1, <1>6, SameHostCalm
  <2>2. CreateFresh'
    BY <1>1, <1>2, <1>6, <2>1, Zenon DEF CreateFresh, Calm, PathExists
  <2> QED BY <1>1, <1>3, <1>6, <2>1, <2>2, CalmHost
<1>7. CASE parseDefinition
  <2>1. UNCHANGED hostVars BY <1>7 DEF parseDefinition
  <2>2. CASE parse_name BY <1>5, <1>6, <2>1, <2>2 DEF parse_name, Goto, locals
  <2>3. CASE parse_node BY <1>4, <1>5, <1>6, <2>1, <2>3 DEF parse_node, Goto, locals, Raise
  <2>4. CASE parse_disks BY <1>4, <1>5, <1>6, <2>1, <2>4 DEF parse_disks, Goto, locals, Raise
  <2>5. CASE parse_nets BY <1>4, <1>5, <1>6, <2>1, <2>5 DEF parse_nets, Goto, locals, Raise
  <2> QED BY <1>7, <2>2, <2>3, <2>4, <2>5 DEF parseDefinition
<1>8. CASE create_report BY <1>4, <1>8 DEF create_report, Raise
<1>9. ASSUME create_define, def # NoDef, pc' = "report", op' = op,
             defineXML(def.uuid, def.name,
               [i \in DOMAIN def.srcs |-> [src |-> def.srcs[i], tgt |-> i]], def.nics)
      PROVE HostInv' /\ HandlerInv'
  <2> DEFINE w == def.uuid
             ds == [i \in DOMAIN def.srcs |-> [src |-> def.srcs[i], tgt |-> i]]
  <2>1. w \in Uuids BY <1>1, <1>9 DEF Def
  <2>2. /\ UNCHANGED <<state, ldisks, vols>> /\ disks'[w] = ds
        /\ \A v \in Uuids : v # w => defined'[v] = defined[v] /\ disks'[v] = disks[v]
    BY <1>1, <1>9, <2>1, Zenon DEF defineXML, HostTypeOK
  <2>3. \A p \in Sources(ds) : PathExists(p) /\ \A v \in Uuids : p \notin Refs(v)
    <3>1. \A i \in DOMAIN def.srcs :
            PathExists(def.srcs[i]) /\ \A v \in Uuids : def.srcs[i] \notin Refs(v)
      BY <1>1, <1>2, <1>9 DEF CreateFresh, create_define
    <3> QED BY <3>1, Zenon DEF Sources
  <2> HIDE DEF w, ds
  <2>4. PersistentDisksBacked'
    BY <2>1, <2>2, <2>3, Zenon DEF HostInv, PersistentDisksBacked, PathExists
  <2>5. \A v \in Uuids : v # w => Refs(v)' = Refs(v) BY <2>2, Zenon DEF Refs, Active
  <2>6. \A v \in Uuids : v = w => Refs(v)' \subseteq Refs(v) \cup Sources(ds)
    BY <2>2, Zenon DEF Refs, Active
  <2>7. \A u, v \in Uuids : u # v => Refs(u)' \cap Refs(v)' = {}
    BY <2>3, <2>5, <2>6 DEF HostInv, RefsDisjoint
  <2>8. RefsDisjoint' BY <2>7 DEF RefsDisjoint
  <2>9. CreateFresh' BY <1>9 DEF CreateFresh
  <2> QED BY <1>1, <1>3, <1>9, <2>4, <2>8, <2>9 DEF HostInv
<1>10. CASE create_define BY <1>4, <1>9, <1>10, Zenon DEF create_define, Raise
<1> QED BY <1>7, <1>8, <1>10

-----------------------------------------------------------------------------
(* Arrivals, and the theorem. *)

\* A request starts with disks that no domain holds, because clients offer no others.
LEMMA ArrivalDisk ==
  ASSUME TypeInv, HostInv, HandlerInv, Arrival, ~SharedDisks PROVE HostInv' /\ HandlerInv'
<1>1. HostTypeOK BY DEF TypeInv, TypeOK
<1>2. UNCHANGED hostVars BY Zenon DEF Arrival, newVol_begin, create_begin, request
<1>3. Calm BY <1>1, <1>2, SameHostCalm
<1>4. HostInv' BY <1>3, CalmHost
<1>5. CASE UNCHANGED <<op, pc, tgt, xml, path, def>> BY <1>3, <1>4, <1>5, CalmHandler DEF TypeInv
<1>6. CASE newVol_begin BY <1>4, <1>5, <1>6, OtherHandler DEF newVol_begin
<1>7. CASE create_begin
  <2>1. CASE op' = "create" /\ pc' = "begin"
    <3>1. PICK ds \in DiskLists : def'.srcs = ds BY <1>7, <2>1, <1>5 DEF create_begin
    <3>2. \A i \in DOMAIN ds : \A v \in Uuids : ds[i] \notin Refs(v)
      BY DiskListsType DEF Offered
    <3>3. CreateFresh' BY <1>3, <2>1, <3>1, <3>2, Zenon DEF CreateFresh, Calm
    <3> QED BY <1>4, <2>1, <3>3, Zenon DEF HandlerInv, PurgeOwns, AttachFresh
  <2> QED BY <1>5, <1>7, <2>1, Zenon DEF create_begin
<1>8. CASE \E o \in Requests : request(o)
  <2>1. PICK o \in Requests : request(o) BY <1>8
  <2>2. CASE UNCHANGED <<up, op, pc, tgt, path>> BY <1>5, <2>1, <2>2 DEF request
  <2>3. CASE op' = o /\ pc' = "begin"
             /\ (o = "attach_disk" => path' \in {p \in Paths : Offered(p)} \cup {NoPath})
    <3>1. o # "create" BY <2>1 DEF request, DomainOps, PowerOps
    <3>2. AttachFresh' BY <1>3, <2>3, Zenon DEF AttachFresh, Calm, Offered
    <3> QED BY <1>4, <2>3, <3>1, <3>2, Zenon DEF HandlerInv, PurgeOwns, CreateFresh
  <2> QED BY <2>1, <2>2, <2>3 DEF request
<1> QED BY <1>6, <1>7, <1>8 DEF Arrival

LEMMA OutsideDisk ==
  ASSUME TypeInv, HostInv, HandlerInv, World \/ LibvirtdRestarts \/ Crash
  PROVE HostInv' /\ HandlerInv'
<1>1. HostTypeOK /\ ArgsBound BY DEF TypeInv, TypeOK
<1>2. Calm BY <1>1, EnvironmentCalm, SameHostCalm DEF World, LibvirtdRestarts, Crash
<1>3. CASE World \/ LibvirtdRestarts
  BY <1>1, <1>2, <1>3, CalmHost, CalmHandler DEF World, LibvirtdRestarts, locals
<1>4. CASE Crash BY <1>2, <1>4, CalmHost, OtherHandler DEF Crash, Return
<1> QED BY <1>3, <1>4

LEMMA InitDisk == Init => HostInv /\ HandlerInv
<1> SUFFICES ASSUME Init PROVE HostInv /\ HandlerInv
  OBVIOUS
<1>1. \A u \in Uuids : ~defined[u] /\ Refs(u) = {}
  BY DEF Init, HostInit, Refs, Active
<1> QED BY <1>1, Zenon DEF Init, HostInv, HandlerInv, PersistentDisksBacked, RefsDisjoint,
               PurgeOwns, AttachFresh, CreateFresh

LEMMA NextDisk ==
  ASSUME ~SharedDisks
  PROVE TypeInv /\ HostInv /\ HandlerInv /\ [Next]_vars => HostInv' /\ HandlerInv'
<1> SUFFICES ASSUME TypeInv, HostInv, HandlerInv, [Next]_vars PROVE HostInv' /\ HandlerInv'
  OBVIOUS
<1>1. CASE Handler
  BY <1>1, PowerDisk, PlainDisk, PurgeDisk, AttachDiskDisk, CreateDisk DEF Handler
<1>2. CASE Arrival BY <1>2, ArrivalDisk
<1>3. CASE World \/ LibvirtdRestarts \/ Crash BY <1>3, OutsideDisk
<1>4. CASE UNCHANGED vars
  <2>1. HostTypeOK /\ ArgsBound BY DEF TypeInv, TypeOK
  <2>2. Calm BY <1>4, <2>1, SameHostCalm DEF vars, hostVars
  <2> QED BY <1>4, <2>1, <2>2, CalmHost, CalmHandler DEF vars, locals
<1> QED BY <1>1, <1>2, <1>3, <1>4 DEF Next

\* When no client names a disk image that a domain already holds, every disk of every persistent
\* domain exists in every state: purgeDomain deletes by a description it read several calls
\* earlier, and neither guests, other clients, a dying connection nor a crash in between make it
\* delete the disk of a domain that stays.
THEOREM DisksStayBacked ==
  ASSUME ~SharedDisks PROVE Spec => []PersistentDisksBacked
<1>1. HostInv => PersistentDisksBacked BY DEF HostInv
<1>2. TypeInv /\ HostInv /\ HandlerInv /\ [Next]_vars => HostInv' /\ HandlerInv'
  BY NextDisk
<1> QED BY <1>1, <1>2, InitDisk, InitType, NextType, PTL DEF Spec

\* Under the same condition newVol never creates a volume under a path that some persistent domain
\* still refers to, although it reuses the names of purged volumes.
THEOREM NewVolumesAreFresh ==
  ASSUME ~SharedDisks PROVE Spec => NewVolumeIsNobodys
<1>1. PersistentDisksBacked /\ TypeInv' /\ [Next]_vars =>
        [\A p \in vols' \ vols : \A u \in Uuids : defined[u] => p \notin Sources(disks[u])]_vars
  <2> SUFFICES ASSUME PersistentDisksBacked, TypeInv', NEW p \in vols' \ vols,
                      NEW u \in Uuids, defined[u]
               PROVE p \notin Sources(disks[u])
    OBVIOUS
  <2>1. p \in VolPaths BY DEF TypeInv, TypeOK, HostTypeOK
  <2>2. ~PathExists(p) BY <2>1, FilesAssumption DEF PathExists
  <2> QED BY <2>2 DEF PersistentDisksBacked
<1>2. Spec => []PersistentDisksBacked BY DisksStayBacked
<1> QED BY <1>1, <1>2, TypeInvariant, PTL DEF Spec, NewVolumeIsNobodys

-----------------------------------------------------------------------------
(* Requests are answered once. *)

\* What a step of a handler does to the request: it answers, it goes on, parseDefinition answers for
\* createDomain, or createDomain returns after that.
Moves ==
  \/ (\E r : Answer(r)) /\ ~(op = "create" /\ def = NoDef)
  \/ pc' # "idle" /\ UNCHANGED <<op, fin, def>>
  \/ op = "create" /\ def # NoDef /\ \E c : respond(c)
  \/ op = "create" /\ def = NoDef /\ Return /\ UNCHANGED <<reply, fin>>

LEMMA PlainMoves ==
  ASSUME \/ queryDomain \/ domainInfo \/ newMemory \/ purgeDomain \/ newNet \/ attachDisk
         \/ newVol_lookup \/ newVol_create
  PROVE  pc # "idle" /\ op # "create" /\ Moves
<1>1. (\E r : Answer(r)) /\ op # "create" => Moves BY DEF Moves
<1>2. Raise => \E r : Answer(r) BY DEF Raise
<1>3. ASSUME NEW l, l # "idle", Goto(l), UNCHANGED def PROVE Moves BY <1>3 DEF Moves, Goto
<1>4. CASE queryDomain BY <1>1, <1>2, <1>4 DEF queryDomain
<1>5. CASE domainInfo
  BY <1>1, <1>2, <1>3, <1>5 DEF domainInfo, locals
<1>6. CASE newMemory BY <1>1, <1>2, <1>3, <1>6 DEF newMemory, locals
<1>7. CASE purgeDomain
  BY <1>1, <1>2, <1>3, <1>7, Zenon DEF purgeDomain, purge_xml, purge_check, purge_destroy,
     purge_undefine, purge_delete, locals
<1>8. CASE newNet BY <1>1, <1>3, <1>8 DEF newNet
<1>9. CASE attachDisk
  <2>1. CASE attach_cdrom \/ attach_swallowed \/ attach_call
    BY <1>1, <1>9, <2>1, Zenon DEF attachDisk, attach_cdrom, attach_swallowed, attach_call,
       attach_info, attach_xml, attach_exists, attach_lookup
  <2>2. CASE attach_info \/ attach_xml \/ attach_exists \/ attach_lookup
    BY <1>1, <1>3, <1>9, <2>2, Zenon DEF attachDisk, attach_info, attach_xml, attach_exists, attach_lookup, locals
  <2> QED BY <1>9, <2>1, <2>2 DEF attachDisk
<1>10. CASE newVol_lookup \/ newVol_create
  BY <1>1, <1>2, <1>3, <1>10 DEF newVol_lookup, newVol_create
<1> QED BY <1>4, <1>5, <1>6, <1>7, <1>8, <1>9, <1>10

LEMMA PowerMoves ==
  ASSUME \/ resetDomain \/ rebootDomain \/ pauseDomain \/ resumeDomain
         \/ shutdownDomain \/ destroyDomain \/ startDomain
  PROVE  pc # "idle" /\ op \in PowerOps /\ op # "create" /\ Moves
<1>1. pc # "idle" /\ op \in PowerOps
  BY Zenon DEF resetDomain, rebootDomain, pauseDomain, resumeDomain, shutdownDomain, destroyDomain,
         startDomain, Power, PowerOps
<1>2. op # "create" BY <1>1 DEF PowerOps
<1>3. Moves
  <2>1. (\E r : Answer(r)) => Moves BY <1>2 DEF Moves
  <2>2. ASSUME NEW l, l # "idle", Goto(l), UNCHANGED def PROVE Moves BY <2>2 DEF Moves, Goto
  <2>3. ASSUME NEW o, NEW w, NEW C, Power(o, w, C) PROVE Moves
    BY <2>1, <2>2, <2>3 DEF Power, Raise, locals
  <2> QED BY <2>2, <2>3 DEF resetDomain, rebootDomain, pauseDomain, resumeDomain, shutdownDomain,
             destroyDomain, startDomain, locals
<1> QED BY <1>1, <1>2, <1>3

LEMMA CreateMoves ==
  ASSUME ArgsBound, parseDefinition \/ create_define \/ create_report
  PROVE  pc # "idle" /\ op = "create" /\ Moves
<1>1. op = "create"
  BY DEF parseDefinition, create_define, create_report
<1>2. (\E r : Answer(r)) /\ def # NoDef => Moves BY DEF Moves
<1>3. Raise => \E r : Answer(r) BY DEF Raise
<1>4. ASSUME NEW l, l # "idle", Goto(l), UNCHANGED def PROVE Moves BY <1>4 DEF Moves, Goto
<1>5. ASSUME NEW c, respond(c), def # NoDef PROVE Moves BY <1>1, <1>5 DEF Moves
<1>6. pc \in {"begin", "node", "disks", "nets", "report"} => def # NoDef
  BY <1>1 DEF ArgsBound
<1>7. CASE parseDefinition
  <2>1. CASE parse_name BY <2>1, <1>1, <1>4, <1>5, <1>6 DEF parse_name, locals
  <2>2. CASE parse_node BY <2>2, <1>1, <1>2, <1>3, <1>4, <1>5, <1>6 DEF parse_node, locals
  <2>3. CASE parse_disks BY <2>3, <1>1, <1>2, <1>3, <1>4, <1>5, <1>6 DEF parse_disks, locals
  <2>4. CASE parse_nets BY <2>4, <1>1, <1>2, <1>3, <1>4, <1>5, <1>6 DEF parse_nets, locals
  <2> QED BY <1>7, <2>1, <2>2, <2>3, <2>4 DEF parseDefinition
<1>8. CASE create_define
  BY <1>1, <1>2, <1>3, <1>8, Zenon DEF create_define, Moves, locals
<1>9. CASE create_report
  BY <1>1, <1>2, <1>3, <1>6, <1>9 DEF create_report
<1> QED BY <1>7, <1>8, <1>9

LEMMA HandlerMoves == ASSUME ArgsBound, Handler PROVE pc # "idle" /\ Moves
BY PlainMoves, PowerMoves, CreateMoves DEF Handler

\* A new request is answered at once, or enters a handler.
LEMMA ArrivalMoves ==
  ASSUME Arrival
  PROVE  /\ pc = "idle" /\ UNCHANGED hostVars
         /\ \/ UNCHANGED <<op, pc, tgt>> /\ ("info" \notin Requests => fin' = 1)
            \/ op' \in Requests /\ pc' \in {"begin", "lookup"} /\ fin' = 0 /\ (op' = "create" => def' # NoDef)
<1>1. CASE newVol_begin BY <1>1 DEF newVol_begin
<1>2. CASE create_begin
  <2>1. CASE reply' \in {Internal, Json("BAD_PARAMETER")} /\ fin' = 1 /\ UNCHANGED <<up, op, pc, def>>
    BY <1>2, <2>1 DEF create_begin
  <2>2. CASE /\ \E ds \in DiskLists, n \in Names, u \in Uuids, ns \in SUBSET Nets :
                  def' = [name |-> n, uuid |-> u, srcs |-> ds, nics |-> ns]
             /\ op' = "create" /\ pc' = "begin" /\ up' = TRUE /\ reply' = NoReply /\ fin' = 0
    <3>1. PICK u \in Uuids : def'.uuid = u BY <2>2
    <3>2. def' # NoDef BY <3>1, NullAssumption DEF NoDef
    <3>3. pc = "idle" /\ "create" \in Requests /\ UNCHANGED hostVars BY <1>2 DEF create_begin
    <3>4. op' = "create" /\ pc' = "begin" /\ fin' = 0 BY <2>2
    <3> QED BY <3>2, <3>3, <3>4
  <2> QED BY <1>2, <2>1, <2>2, Zenon DEF create_begin
<1>3. CASE \E o \in Requests : request(o)
  <2>1. PICK o \in Requests : request(o) BY <1>3
  <2>2. o # "create" BY <2>1 DEF request, DomainOps, PowerOps
  <2> QED BY <2>1, <2>2 DEF request, NotFound
<1> QED BY <1>1, <1>2, <1>3 DEF Arrival

LEMMA InitFinish == Init => FinishCount
BY DEF Init, FinishCount

LEMMA NextFinish == TypeInv /\ FinishCount /\ [Next]_vars => FinishCount'
<1> SUFFICES ASSUME TypeInv, FinishCount, [Next]_vars PROVE FinishCount'
  OBVIOUS
<1>1. CASE Handler
  <2>1. pc # "idle" /\ Moves BY <1>1, HandlerMoves DEF TypeInv
  <2>2. fin = (IF op = "create" /\ def = NoDef THEN 1 ELSE 0) /\ op \in Requests \cup {"none"}
    BY <2>1 DEF FinishCount
  <2>3. CASE (\E r : Answer(r)) \/ Return BY <2>3 DEF Answer, Return, FinishCount
  <2>4. CASE pc' # "idle" /\ UNCHANGED <<op, fin, def>> BY <2>2, <2>4 DEF FinishCount
  <2>5. CASE op = "create" /\ def # NoDef /\ \E c : respond(c)
    BY <2>2, <2>5 DEF respond, FinishCount
  <2> QED BY <2>1, <2>3, <2>4, <2>5 DEF Moves
<1>2. CASE Arrival BY <1>2, ArrivalMoves DEF FinishCount
<1>3. CASE World \/ LibvirtdRestarts BY <1>3 DEF World, LibvirtdRestarts, locals, FinishCount
<1>4. CASE Crash BY <1>4 DEF Crash, Return, FinishCount
<1>5. CASE UNCHANGED vars BY <1>5 DEF vars, locals, FinishCount
<1> QED BY <1>1, <1>2, <1>3, <1>4, <1>5 DEF Next

\* Unless domainInfo is asked for a domain that is not there, every handler of domain_servlet.py that
\* returns has called req.finish() once: with any requests, guests, foreign clients and dead connections
\* none answers twice, createDomain after parseDefinition included, and none leaves its client waiting.
THEOREM RequestsAnsweredOnce == ASSUME "info" \notin Requests PROVE Spec => AnsweredOnce
<1>1. TypeInv /\ FinishCount /\ [Next]_vars =>
        [pc' = "idle" /\ <<op, reply, fin>>' # <<op, reply, fin>> /\ ~Crash => fin' = 1]_vars
  <2> SUFFICES ASSUME TypeInv, FinishCount, Next, pc' = "idle", ~Crash,
                      <<op, reply, fin>>' # <<op, reply, fin>>
               PROVE fin' = 1
    OBVIOUS
  <2>1. CASE Handler
    <3>1. pc # "idle" /\ Moves BY <2>1, HandlerMoves DEF TypeInv
    <3>2. fin = (IF op = "create" /\ def = NoDef THEN 1 ELSE 0) BY <3>1 DEF FinishCount
    <3> QED BY <3>1, <3>2 DEF Moves, Answer, respond
  <2>2. CASE Arrival BY <2>2, ArrivalMoves
  <2>3. CASE World \/ LibvirtdRestarts BY <2>3 DEF World, LibvirtdRestarts
  <2> QED BY <2>1, <2>2, <2>3 DEF Next
<1> QED BY <1>1, InitType, NextType, InitFinish, NextFinish, PTL DEF Spec, AnsweredOnce

-----------------------------------------------------------------------------
(* createDomain replaces no domain. *)

\* A step after which no domain exists that did not exist before, and a definition is unchanged or gone.
NoneComes ==
  /\ \A u \in Uuids : (Exists(u)' => Exists(u)) /\ name'[u] = name[u]
  /\ \A u \in Uuids : defined'[u] => defined[u] /\ disks'[u] = disks[u] /\ nics'[u] = nics[u]
  /\ \A u \in Uuids : disks'[u] = disks[u] \/ disks'[u] = <<>>

LEMMA StopComes == ASSUME HostTypeOK, NEW u \in Uuids, Stop(u) PROVE NoneComes
BY DEF HostTypeOK, Stop, NoneComes, Exists, Active

LEMMA SetStateComes ==
  ASSUME HostTypeOK, NEW u \in Uuids, NEW s, SetState(u, s), Active(u) PROVE NoneComes
BY DEF HostTypeOK, SetState, NoneComes, Exists, Active

LEMMA CreateComes == ASSUME HostTypeOK, NEW u \in Uuids, create(u) PROVE NoneComes
BY DEF HostTypeOK, create, NoneComes, Exists, Active

LEMMA UndefineComes == ASSUME HostTypeOK, NEW u \in Uuids, undefine(u) PROVE NoneComes
BY DEF HostTypeOK, undefine, NoneComes, Exists, Active

LEMMA SetVolsComes == ASSUME NEW vs, SetVols(vs) PROVE NoneComes
BY DEF SetVols, NoneComes, Exists, Active

LEMMA SameHostComes == ASSUME UNCHANGED hostVars PROVE NoneComes
BY DEF hostVars, NoneComes, Exists, Active

LEMMA EnvironmentComes ==
  ASSUME HostTypeOK, Environment, "define" \notin Foreign PROVE NoneComes
<1>1. CASE \E u \in Uuids : GuestPowersOff(u) \/ GuestIOError(u) \/ GuestSleeps(u)
                            \/ GuestWakes(u) \/ GuestPanics(u)
  BY <1>1, StopComes, SetStateComes
     DEF GuestPowersOff, GuestIOError, GuestSleeps, GuestWakes, GuestPanics, Active
<1>2. CASE \E u \in Uuids : ForeignStart(u) \/ ForeignUndefine(u) \/ ForeignDefine(u)
  BY <1>2, CreateComes, UndefineComes DEF ForeignStart, ForeignUndefine, ForeignDefine
<1>3. CASE \E p \in VolPaths : ForeignNewVol(p)
  BY <1>3, SetVolsComes DEF ForeignNewVol, createVol
<1> QED BY <1>1, <1>2, <1>3 DEF Environment

\* A name that is free stays free.
LEMMA StaysFree ==
  ASSUME NoneComes, NEW n, lookupByName(n) = {} PROVE lookupByName(n)' = {}
BY Zenon DEF NoneComes, lookupByName

LEMMA CreateName ==
  ASSUME TypeInv, NameFree, parseDefinition \/ create_define \/ create_report PROVE NameFree'
<1>1. op = "create" /\ ArgsBound
  BY DEF parseDefinition, create_define, create_report, TypeInv
<1>2. Raise \/ (\E r : Answer(r)) => NameFree' BY DEF Raise, Answer, Return, NameFree
<1>3. (\E c : respond(c)) => NameFree' BY DEF respond, NameFree
<1>4. CASE parseDefinition
  <2>1. NoneComes BY <1>4, SameHostComes DEF parseDefinition
  <2>2. CASE parse_name
    <3>1. CASE up /\ lookupByName(def.name) # {} BY <1>3, <2>2, <3>1 DEF parse_name
    <3>2. CASE up /\ lookupByName(def.name) = {}
      BY <2>1, <2>2, <3>2, StaysFree DEF parse_name, Goto, locals, NameFree
    <3>3. CASE ~up BY <2>2, <3>3 DEF parse_name, Goto, locals, NameFree
    <3> QED BY <3>1, <3>2, <3>3
  <2>3. ASSUME NEW l, Goto(l), UNCHANGED locals, up \/ pc # "node", pc \in {"node", "disks", "nets"}
        PROVE NameFree'
    <3>1. def # NoDef => lookupByName(def.name) = {} BY <1>1, <2>3 DEF NameFree
    <3> QED BY <2>1, <2>3, <3>1, StaysFree DEF Goto, locals, NameFree
  <2>4. CASE parse_node BY <1>2, <1>3, <2>3, <2>4 DEF parse_node
  <2>5. CASE parse_disks BY <1>2, <1>3, <2>3, <2>5 DEF parse_disks
  <2>6. CASE parse_nets BY <1>2, <1>3, <2>3, <2>6 DEF parse_nets
  <2> QED BY <1>4, <2>2, <2>4, <2>5, <2>6 DEF parseDefinition
<1>5. CASE create_define BY <1>2, <1>5, Zenon DEF create_define, Return, NameFree
<1>6. CASE create_report BY <1>2, <1>6 DEF create_report
<1> QED BY <1>4, <1>5, <1>6

LEMMA InitName == Init => NameFree
BY DEF Init, NameFree

LEMMA NextName ==
  ASSUME "define" \notin Foreign PROVE TypeInv /\ NameFree /\ [Next]_vars => NameFree'
<1> SUFFICES ASSUME TypeInv, NameFree, [Next]_vars PROVE NameFree'
  OBVIOUS
<1>1. ASSUME NoneComes, UNCHANGED <<op, pc, def>>, up' => up PROVE NameFree'
  BY <1>1, StaysFree DEF NameFree
<1>2. op # "create" /\ Moves => NameFree'
  BY DEF Moves, Answer, Return, NameFree
<1>3. CASE Handler
  BY <1>2, <1>3, PlainMoves, PowerMoves, CreateName DEF Handler
<1>4. CASE Arrival
  <2>1. UNCHANGED <<op, pc>> \/ pc' \in {"begin", "lookup"} BY <1>4, ArrivalMoves
  <2>2. pc = "idle" BY <1>4, ArrivalMoves
  <2> QED BY <2>1, <2>2 DEF NameFree
<1>5. CASE World
  BY <1>1, <1>5, EnvironmentComes DEF World, locals, TypeInv, TypeOK
<1>6. CASE LibvirtdRestarts BY <1>1, <1>6, SameHostComes DEF LibvirtdRestarts, locals
<1>7. CASE Crash BY <1>7 DEF Crash, Return, NameFree
<1>8. CASE UNCHANGED vars BY <1>1, <1>8, SameHostComes DEF vars, locals
<1> QED BY <1>3, <1>4, <1>5, <1>6, <1>7, <1>8 DEF Next

\* What createDomain defines did not exist before.
LEMMA DefinesNew ==
  ASSUME NameFree, op = "create", pc = "parsed", def # NoDef, NEW ds, NEW ns,
         def.uuid \in Uuids, defineXML(def.uuid, def.name, ds, ns)
  PROVE  ~Exists(def.uuid)
<1>1. lookupByName(def.name) = {} BY DEF NameFree
<1> QED BY <1>1 DEF defineXML, lookupByName

\* As long as no other client of libvirt defines domains, createDomain of domain_servlet.py changes no
\* domain that exists, although defineXML would replace one and the name was looked up several calls
\* earlier, over a connection that may be dead: no requests, guests, restarts of libvirtd or crashes lead
\* it there.
THEOREM CreateReplacesNone == ASSUME "define" \notin Foreign PROVE Spec => CreateNeverReplaces
<1>1. TypeInv /\ NameFree /\ [Next]_vars =>
        [\A u \in Uuids : op = "create" /\ defined[u] /\ defined'[u]
           => disks'[u] = disks[u] /\ nics'[u] = nics[u]]_vars
  <2> SUFFICES ASSUME TypeInv, NameFree, Next, NEW u \in Uuids, op = "create", defined[u], defined'[u]
               PROVE disks'[u] = disks[u] /\ nics'[u] = nics[u]
    OBVIOUS
  <2>1. UNCHANGED hostVars => disks'[u] = disks[u] /\ nics'[u] = nics[u] BY Zenon DEF hostVars
  <2>2. CASE parseDefinition \/ create_report BY <2>1, <2>2, Zenon DEF parseDefinition, create_report
  <2>3. CASE create_define
    <3>1. CASE UNCHANGED hostVars BY <2>1, <3>1, Zenon
    <3>2. CASE /\ def # NoDef
               /\ defineXML(def.uuid, def.name,
                            [i \in DOMAIN def.srcs |-> [src |-> def.srcs[i], tgt |-> i]], def.nics)
      <4>1. def \in Def BY <3>2, Zenon DEF TypeInv, TypeOK, ServletTypeOK
      <4>2. def.uuid \in Uuids BY <4>1 DEF Def
      <4>3. ~defined[def.uuid] BY <2>3, <3>2, <4>2, DefinesNew, Zenon DEF create_define, Exists
      <4>4. u # def.uuid BY <4>3
      <4> QED BY <3>2, <4>2, <4>4, Zenon DEF defineXML, TypeInv, TypeOK, HostTypeOK
    <3> QED BY <2>3, <3>1, <3>2, Zenon DEF create_define
  <2>4. CASE Handler
    BY <2>2, <2>3, <2>4, PlainMoves, PowerMoves DEF Handler
  <2>5. CASE Arrival BY <2>1, <2>5, ArrivalMoves, Zenon
  <2>6. CASE World BY <2>6, EnvironmentComes, Zenon DEF World, TypeInv, TypeOK, NoneComes
  <2>7. CASE LibvirtdRestarts \/ Crash BY <2>1, <2>7, Zenon DEF LibvirtdRestarts, Crash
  <2> QED BY <2>4, <2>5, <2>6, <2>7 DEF Next
<1>2. TypeInv /\ NameFree /\ [Next]_vars => NameFree' BY NextName
<1> QED BY <1>1, <1>2, InitType, NextType, InitName, PTL DEF Spec, CreateNeverReplaces

-----------------------------------------------------------------------------
(* While no domain is paused: the definitions agree, and purges are safe. *)

QuietHost == NeverPaused /\ DefinitionsAgree
QuietHandler == StaysOff /\ IdxIsNext

\* A step after which no domain runs that did not run before, and those that run are as they were.
NoneRises ==
  \A u \in Uuids : Active(u)' =>
    Active(u) /\ state'[u] = state[u] /\ ldisks'[u] = ldisks[u] /\ lnics'[u] = lnics[u]

\* Steps of the host between two calls of a handler: no domain comes and none is started.
HostRests == NoneComes /\ NoneRises

LEMMA StopRests == ASSUME HostTypeOK, NEW u \in Uuids, Stop(u) PROVE HostRests
<1>1. NoneRises BY DEF HostTypeOK, Stop, NoneRises, Active
<1> QED BY <1>1, StopComes DEF HostRests

LEMMA UndefineRests == ASSUME HostTypeOK, NEW u \in Uuids, undefine(u) PROVE HostRests
<1>1. NoneRises BY DEF HostTypeOK, undefine, NoneRises, Active
<1> QED BY <1>1, UndefineComes DEF HostRests

LEMMA SetVolsRests == ASSUME NEW vs, SetVols(vs) PROVE HostRests
<1>1. NoneRises BY DEF SetVols, NoneRises, Active
<1> QED BY <1>1, SetVolsComes DEF HostRests

LEMMA SameHostRests == ASSUME UNCHANGED hostVars PROVE HostRests
<1>1. NoneRises BY DEF hostVars, NoneRises, Active
<1> QED BY <1>1, SameHostComes DEF HostRests

LEMMA EnvironmentRests ==
  ASSUME HostTypeOK, NeverPaused, Quiet, Environment PROVE HostRests
<1>1. /\ \A u \in Uuids : ~GuestIOError(u) /\ ~GuestSleeps(u) /\ ~GuestPanics(u)
      /\ \A u \in Uuids : ~ForeignStart(u) /\ ~ForeignDefine(u)
  BY DEF Quiet, GuestIOError, GuestSleeps, GuestPanics, ForeignStart, ForeignDefine
<1>2. \A u \in Uuids : ~GuestWakes(u) BY DEF NeverPaused, GuestWakes
<1>3. CASE \E u \in Uuids : GuestPowersOff(u) \/ ForeignUndefine(u)
  BY <1>3, StopRests, UndefineRests DEF GuestPowersOff, ForeignUndefine
<1>4. CASE \E p \in VolPaths : ForeignNewVol(p)
  BY <1>4, SetVolsRests DEF ForeignNewVol, createVol
<1> QED BY <1>1, <1>2, <1>3, <1>4 DEF Environment

\* Such steps keep the host in order.
LEMMA RestsHost == ASSUME QuietHost, HostRests PROVE QuietHost'
<1>1. NeverPaused'
  BY DEF QuietHost, NeverPaused, HostRests, NoneRises, Active
<1>2. DenseTargets'
  <2>1. ASSUME NEW u \in Uuids, NEW i \in DOMAIN disks'[u] PROVE disks'[u][i].tgt = i
    <3>1. CASE disks'[u] = disks[u]
      BY <2>1, <3>1 DEF QuietHost, DefinitionsAgree, DenseTargets
    <3>2. CASE disks'[u] = <<>> BY <2>1, <3>2
    <3> QED BY <3>1, <3>2, Zenon DEF HostRests, NoneComes
  <2> QED BY <2>1 DEF DenseTargets
<1>3. LiveMatchesConfig'
  <2>1. ASSUME NEW u \in Uuids, defined'[u], Active(u)' PROVE ldisks'[u] = disks'[u] /\ lnics'[u] = nics'[u]
    BY <2>1, Zenon DEF QuietHost, DefinitionsAgree, LiveMatchesConfig, HostRests, NoneComes, NoneRises
  <2> QED BY <2>1 DEF LiveMatchesConfig, Active
<1> QED BY <1>1, <1>2, <1>3 DEF QuietHost, DefinitionsAgree

LEMMA RestsHandler ==
  ASSUME QuietHandler, HostRests, UNCHANGED <<op, pc, tgt, seen, idx>>, op \in DomainOps => tgt \in Uuids
  PROVE  QuietHandler'
<1>1. op \in {"purge", "attach_disk", "newnet"} => tgt \in Uuids BY DEF DomainOps
<1>2. StaysOff'
  BY <1>1, Zenon DEF QuietHandler, StaysOff, HostRests, NoneComes, NoneRises, Active
<1>3. IdxIsNext'
  BY <1>1, Zenon DEF QuietHandler, IdxIsNext, HostRests, NoneComes
<1> QED BY <1>2, <1>3 DEF QuietHandler

\* Nothing is claimed of the other handlers.
LEMMA OtherQuiet == ASSUME op' \notin {"purge", "attach_disk", "newnet"} PROVE QuietHandler'
BY DEF QuietHandler, StaysOff, IdxIsNext

LEMMA AnswerQuiet == ASSUME NEW r, Answer(r) PROVE QuietHandler'
BY OtherQuiet DEF Answer, Return

\* The calls that add something keep the host in order too.
LEMMA CreateQuiet == ASSUME HostTypeOK, QuietHost, NEW u \in Uuids, create(u) PROVE QuietHost'
<1>1. /\ state'[u] = "RUNNING" /\ ldisks'[u] = disks[u] /\ lnics'[u] = nics[u]
      /\ \A v \in Uuids : v # u => state'[v] = state[v] /\ ldisks'[v] = ldisks[v] /\ lnics'[v] = lnics[v]
      /\ UNCHANGED <<defined, disks, nics>>
  BY DEF HostTypeOK, create
<1>2. NeverPaused' BY <1>1, Zenon DEF QuietHost, NeverPaused
<1>3. DenseTargets' BY <1>1, Zenon DEF QuietHost, DefinitionsAgree, DenseTargets
<1>4. LiveMatchesConfig' BY <1>1 DEF QuietHost, DefinitionsAgree, LiveMatchesConfig, Active
<1> QED BY <1>2, <1>3, <1>4 DEF QuietHost, DefinitionsAgree

LEMMA ResumeQuiet == ASSUME HostTypeOK, QuietHost, NEW u \in Uuids, resume(u) PROVE QuietHost'
<1>1. state[u] = "RUNNING" BY DEF resume, QuietHost, NeverPaused
<1>2. UNCHANGED hostVars BY <1>1 DEF HostTypeOK, resume, SetState, hostVars
<1> QED BY <1>2, RestsHost, SameHostRests

LEMMA DefineQuiet ==
  ASSUME HostTypeOK, QuietHost, NEW u \in Uuids, NEW n, NEW ds, NEW ns, defineXML(u, n, ds, ns),
         ~Active(u), \A i \in DOMAIN ds : ds[i].tgt = i
  PROVE  QuietHost'
<1>1. /\ disks'[u] = ds /\ UNCHANGED <<state, ldisks, lnics>>
      /\ \A v \in Uuids : v # u => disks'[v] = disks[v] /\ nics'[v] = nics[v] /\ defined'[v] = defined[v]
  BY Zenon DEF HostTypeOK, defineXML
<1>2. NeverPaused' BY <1>1, Zenon DEF QuietHost, NeverPaused
<1>3. DenseTargets' BY <1>1, Zenon DEF QuietHost, DefinitionsAgree, DenseTargets
<1>4. LiveMatchesConfig' BY <1>1, Zenon DEF QuietHost, DefinitionsAgree, LiveMatchesConfig, Active
<1> QED BY <1>2, <1>3, <1>4 DEF QuietHost, DefinitionsAgree

LEMMA AttachNicQuiet ==
  ASSUME HostTypeOK, QuietHost, NEW u \in Uuids, NEW n \in Nets, NEW b \in BOOLEAN, attachNic(u, n, b),
         ~b => ~Active(u)
  PROVE  QuietHost'
<1>1. UNCHANGED <<defined, state, disks, ldisks>> BY DEF attachNic
<1>2. \A v \in Uuids : nics'[v] = IF v = u THEN nics[u] \cup {n} ELSE nics[v]
  BY DEF HostTypeOK, attachNic
<1>3. \A v \in Uuids : lnics'[v] = IF b /\ v = u THEN lnics[u] \cup {n} ELSE lnics[v]
  BY DEF HostTypeOK, attachNic
<1>4. NeverPaused' BY <1>1 DEF QuietHost, NeverPaused
<1>5. DenseTargets' BY <1>1, Zenon DEF QuietHost, DefinitionsAgree, DenseTargets
<1>6. LiveMatchesConfig'
  <2>1. ASSUME NEW v \in Uuids, defined'[v], Active(v)'
        PROVE ldisks'[v] = disks'[v] /\ lnics'[v] = nics'[v]
    <3>1. defined[v] /\ Active(v) BY <1>1, <2>1, Zenon DEF Active
    <3>2. ldisks[v] = disks[v] /\ lnics[v] = nics[v] BY <3>1, Zenon DEF QuietHost, DefinitionsAgree, LiveMatchesConfig
    <3> QED BY <1>1, <1>2, <1>3, <3>1, <3>2, Zenon
  <2> QED BY <2>1, Zenon DEF LiveMatchesConfig, Active
<1> QED BY <1>4, <1>5, <1>6 DEF QuietHost, DefinitionsAgree

LEMMA AttachQuiet ==
  ASSUME HostTypeOK, QuietHost, NEW u \in Uuids, NEW d \in Disk, attachDisk_current(u, d),
         ~Active(u), defined[u] => d.tgt = Len(disks[u]) + 1
  PROVE  QuietHost'
<1>1. /\ defined[u] /\ disks' = [disks EXCEPT ![u] = Append(disks[u], d)]
      /\ UNCHANGED <<defined, state, ldisks, nics, lnics>>
  BY DEF attachDisk_current
<1>2. disks[u] \in Seq(Disk) BY DEF HostTypeOK
<1>3. disks'[u] = Append(disks[u], d) /\ \A v \in Uuids : v # u => disks'[v] = disks[v]
  BY <1>1 DEF HostTypeOK
<1>4. NeverPaused' BY <1>1, Zenon DEF QuietHost, NeverPaused
<1>5. \A i \in DOMAIN Append(disks[u], d) : Append(disks[u], d)[i].tgt = i
  <2> DEFINE q == disks[u]
             k == Len(q)
  <2>1. k \in Nat /\ DOMAIN q = 1..k /\ Append(q, d) \in Seq(Disk) /\ Len(Append(q, d)) = k + 1
    BY <1>2
  <2>2. DOMAIN Append(q, d) = 1..(k + 1) BY <2>1
  <2>3. Append(q, d)[k + 1] = d /\ \A i \in 1..k : Append(q, d)[i] = q[i] BY <1>2
  <2>4. \A i \in 1..k : q[i].tgt = i BY <2>1, Zenon DEF QuietHost, DefinitionsAgree, DenseTargets
  <2>5. d.tgt = k + 1 BY <1>1
  <2> HIDE DEF q, k
  <2>6. \A i \in 1..(k + 1) : i = k + 1 \/ i \in 1..k BY <2>1
  <2>7. \A i \in DOMAIN Append(q, d) : Append(q, d)[i].tgt = i BY <2>2, <2>3, <2>4, <2>5, <2>6, Zenon
  <2> QED BY <2>7, Zenon DEF q
<1>6. DenseTargets'
  BY <1>3, <1>5, Zenon DEF QuietHost, DefinitionsAgree, DenseTargets
<1>7. LiveMatchesConfig'
  BY <1>1, <1>3, Zenon DEF QuietHost, DefinitionsAgree, LiveMatchesConfig, Active
<1> QED BY <1>4, <1>6, <1>7 DEF QuietHost, DefinitionsAgree

LEMMA PowerQuietly ==
  ASSUME TypeInv, FinishCount, Quiet, QuietHost,
         \/ resetDomain \/ rebootDomain \/ pauseDomain \/ resumeDomain
         \/ shutdownDomain \/ destroyDomain \/ startDomain
  PROVE  QuietHost' /\ QuietHandler'
<1>1. op \in PowerOps /\ pc # "idle" /\ Moves BY PowerMoves
<1>2. op' \in {op, "none"} BY <1>1 DEF Moves, Answer, Return, PowerOps
<1>3. QuietHandler' BY <1>1, <1>2, OtherQuiet DEF PowerOps
<1>4. tgt \in Uuids /\ HostTypeOK BY <1>1 DEF TypeInv, TypeOK, ArgsBound, DomainOps
<1>5. op # "pause" BY <1>1 DEF FinishCount, Quiet, PowerOps
<1>6. ~pauseDomain BY <1>5 DEF pauseDomain, Power
<1>7. UNCHANGED hostVars => QuietHost' BY RestsHost, SameHostRests
<1>8. PowerQuiet \/ signal(tgt) => QuietHost' BY <1>7 DEF PowerQuiet, signal
<1>9. destroy(tgt) => QuietHost' BY <1>4, RestsHost, StopRests DEF destroy
<1>10. resume(tgt) \/ create(tgt) => QuietHost' BY <1>4, ResumeQuiet, CreateQuiet
<1> QED BY <1>3, <1>6, <1>8, <1>9, <1>10, PowerCases

LEMMA PlainQuietly ==
  ASSUME QuietHost, queryDomain \/ domainInfo \/ newMemory \/ newVol_lookup \/ newVol_create
  PROVE  QuietHost' /\ QuietHandler'
<1>1. op \in {"get", "info", "newmem", "newvol"} /\ Moves
  BY PlainMoves, Zenon DEF queryDomain, domainInfo, newMemory, newVol_lookup, newVol_create
<1>2. op' \in {op, "none"} BY <1>1 DEF Moves, Answer, Return
<1>3. UNCHANGED hostVars \/ \E vs : SetVols(vs)
  BY Zenon DEF queryDomain, domainInfo, newMemory, newVol_lookup, newVol_create, createVol
<1>4. HostRests BY <1>3, SameHostRests, SetVolsRests
<1> QED BY <1>1, <1>2, <1>4, OtherQuiet, RestsHost

LEMMA CreateQuietly ==
  ASSUME TypeInv, NameFree, QuietHost, parseDefinition \/ create_define \/ create_report
  PROVE  QuietHost' /\ QuietHandler'
<1>1. op = "create" /\ Moves BY CreateMoves DEF TypeInv
<1>2. op' \in {"create", "none"} BY <1>1 DEF Moves, Answer, Return, respond
<1>3. QuietHandler' BY <1>2, OtherQuiet
<1>4. CASE UNCHANGED hostVars BY <1>3, <1>4, RestsHost, SameHostRests
<1>5. CASE /\ create_define /\ def # NoDef
           /\ defineXML(def.uuid, def.name,
                        [i \in DOMAIN def.srcs |-> [src |-> def.srcs[i], tgt |-> i]], def.nics)
  <2>1. HostTypeOK /\ def \in Def BY <1>5, Zenon DEF TypeInv, TypeOK, ServletTypeOK
  <2>2. def.uuid \in Uuids BY <2>1 DEF Def
  <2>3. ~Active(def.uuid) BY <1>5, <2>2, DefinesNew, Zenon DEF create_define, Exists
  <2> DEFINE ds == [i \in DOMAIN def.srcs |-> [src |-> def.srcs[i], tgt |-> i]]
  <2>4. \A i \in DOMAIN ds : ds[i].tgt = i OBVIOUS
  <2>5. defineXML(def.uuid, def.name, ds, def.nics) BY <1>5
  <2> HIDE DEF ds
  <2>6. QuietHost' BY <2>1, <2>2, <2>3, <2>4, <2>5, DefineQuiet, Zenon
  <2> QED BY <1>3, <2>6
<1> QED BY <1>4, <1>5, Zenon DEF parseDefinition, create_define, create_report

\* A domain that is not running is shut off.
LEMMA OffIsInactive ==
  ASSUME NeverPaused, NEW u \in Uuids, state[u] # "RUNNING" PROVE ~Active(u)
BY DEF NeverPaused, Active

LEMMA PurgeQuietly ==
  ASSUME TypeInv, QuietHost, QuietHandler, purgeDomain PROVE QuietHost' /\ QuietHandler'
<1>1. op = "purge" /\ tgt \in Uuids /\ HostTypeOK
  BY DEF purgeDomain, TypeInv, TypeOK, ArgsBound, DomainOps
<1>2. ASSUME HostRests, op' = "purge", tgt' = tgt,
             pc' \in {"undefine", "delete"} => ~Active(tgt)', pc' = "delete" => ~defined'[tgt]
      PROVE  QuietHost' /\ QuietHandler'
  <2>1. StaysOff' BY <1>2, Zenon DEF StaysOff, Active
  <2>2. IdxIsNext' BY <1>2 DEF IdxIsNext
  <2> QED BY <1>2, <2>1, <2>2, RestsHost DEF QuietHandler
<1>3. CASE purge_xml
  BY <1>1, <1>2, <1>3, SameHostRests DEF purge_xml, Goto
<1>4. CASE purge_check
  <2>1. HostRests /\ UNCHANGED state BY <1>4, SameHostRests DEF purge_check, hostVars
  <2>2. pc' \in {"undefine", "delete"} => ~Active(tgt)'
    BY <1>1, <1>4, <2>1, OffIsInactive DEF purge_check, Goto, QuietHost, Active
  <2> QED BY <1>1, <1>2, <1>4, <2>1, <2>2, Zenon DEF purge_check, Goto
<1>5. CASE purge_destroy
  <2>1. HostRests BY <1>1, <1>5, StopRests DEF purge_destroy, destroy
  <2>2. ~Active(tgt)' BY <1>1, <1>5 DEF purge_destroy, destroy, Stop, Active, HostTypeOK, Goto
  <2> QED BY <1>1, <1>2, <1>5, <2>1, <2>2 DEF purge_destroy, Goto
<1>6. CASE purge_undefine
  <2>1. HostRests BY <1>1, <1>6, UndefineRests DEF purge_undefine
  <2>2. ~Active(tgt) BY <1>1, <1>6 DEF purge_undefine, QuietHandler, StaysOff
  <2>3. ~Active(tgt)' BY <1>6, <2>2, Zenon DEF purge_undefine, undefine, Active, Goto
  <2>4. ~defined'[tgt] BY <1>1, <1>6 DEF purge_undefine, undefine, HostTypeOK
  <2> QED BY <1>1, <1>2, <1>6, <2>1, <2>3, <2>4 DEF purge_undefine, Goto
<1>7. CASE purge_delete
  <2>1. HostRests /\ UNCHANGED <<state, defined>>
    BY <1>7, SameHostRests, SetVolsRests DEF purge_delete, deleteVol, SetVols, hostVars
  <2>2. ~Active(tgt) /\ ~defined[tgt] BY <1>1, <1>7 DEF purge_delete, QuietHandler, StaysOff
  <2>3. ~Active(tgt)' BY <1>7, <2>1, <2>2, Zenon DEF purge_delete, Active, Goto
  <2> QED BY <1>1, <1>2, <1>7, <2>1, <2>2, <2>3 DEF purge_delete, Goto
<1>8. CASE UNCHANGED hostVars /\ (Raise \/ Answer(Json("OK")))
  BY <1>8, AnswerQuiet, RestsHost, SameHostRests DEF Raise
<1> QED BY <1>3, <1>4, <1>5, <1>6, <1>7, <1>8 DEF purgeDomain

LEMMA NewNetQuietly ==
  ASSUME TypeInv, QuietHost, QuietHandler, newNet PROVE QuietHost' /\ QuietHandler'
<1>1. op = "newnet" /\ tgt \in Uuids /\ HostTypeOK
  BY DEF newNet, TypeInv, TypeOK, ArgsBound, DomainOps
<1>2. CASE UNCHANGED hostVars /\ (Answer(Json("BAD_PARAMETER")) \/ Answer(Json("SYS_ERROR")))
  BY <1>2, AnswerQuiet, RestsHost, SameHostRests
<1>3. CASE seen' = state[tgt] /\ Goto("check") /\ UNCHANGED hostVars
  <2>1. HostRests /\ UNCHANGED state BY <1>3, SameHostRests DEF hostVars
  <2>2. seen' # "RUNNING" => ~Active(tgt)'
    BY <1>1, <1>3, <2>1, OffIsInactive DEF QuietHost, Active, Goto
  <2>3. StaysOff' BY <1>1, <1>3, <2>2, Zenon DEF StaysOff, Goto, Active
  <2>4. IdxIsNext' BY <1>1, <1>3 DEF IdxIsNext, Goto
  <2> QED BY <2>1, <2>3, <2>4, RestsHost DEF QuietHandler
<1>4. CASE pc = "check" /\ (\E n \in Nets : attachNic(tgt, n, seen = "RUNNING")) /\ Answer(Json("OK"))
  <2>1. seen # "RUNNING" => ~Active(tgt) BY <1>1, <1>4 DEF QuietHandler, StaysOff
  <2>2. QuietHost' BY <1>1, <1>4, <2>1, AttachNicQuiet, Zenon
  <2> QED BY <1>4, <2>2, AnswerQuiet
<1> QED BY <1>2, <1>3, <1>4 DEF newNet

LEMMA AttachDiskQuietly ==
  ASSUME TypeInv, QuietHost, QuietHandler, attachDisk PROVE QuietHost' /\ QuietHandler'
<1>1. op = "attach_disk" /\ tgt \in Uuids /\ HostTypeOK /\ ServletTypeOK /\ ArgsBound
  BY DEF attachDisk, TypeInv, TypeOK, ArgsBound, DomainOps
<1>2. ASSUME UNCHANGED hostVars, \E r : Answer(r) PROVE QuietHost' /\ QuietHandler'
  BY <1>2, AnswerQuiet, RestsHost, SameHostRests
<1>3. ASSUME UNCHANGED hostVars, op' = "attach_disk", tgt' = tgt, ~Active(tgt),
             pc' \in {"exists", "lookup", "call"} /\ defined[tgt] => idx' = Len(disks[tgt]) + 1
      PROVE  QuietHost' /\ QuietHandler'
  <2>1. HostRests /\ UNCHANGED <<state, defined, disks>> BY <1>3, SameHostRests DEF hostVars
  <2>2. StaysOff' BY <1>3, <2>1 DEF StaysOff, Active
  <2>3. IdxIsNext' BY <1>3, <2>1 DEF IdxIsNext
  <2> QED BY <2>1, <2>2, <2>3, RestsHost DEF QuietHandler
<1>4. CASE attach_cdrom \/ attach_swallowed BY <1>2, <1>4 DEF attach_cdrom, attach_swallowed
<1>5. CASE attach_info
  <2>1. CASE state[tgt] = "RUNNING" BY <1>2, <1>5, <2>1 DEF attach_info
  <2>2. CASE state[tgt] # "RUNNING"
    <3>1. ~Active(tgt) BY <1>1, <2>2, OffIsInactive DEF QuietHost
    <3> QED BY <1>1, <1>3, <1>5, <2>2, <3>1, Zenon DEF attach_info, Goto
  <2> QED BY <2>1, <2>2
<1>6. pc \in {"xml", "exists", "lookup", "call"} => ~Active(tgt)
  BY <1>1 DEF QuietHandler, StaysOff
<1>7. pc \in {"exists", "lookup", "call"} /\ defined[tgt] => idx = Len(disks[tgt]) + 1
  BY <1>1 DEF QuietHandler, IdxIsNext
<1>8. CASE attach_xml
  BY <1>1, <1>3, <1>6, <1>8 DEF attach_xml, Goto, XMLDisks
<1>9. CASE attach_exists
  <2>1. CASE PathExists(path) BY <1>1, <1>3, <1>6, <1>7, <1>9, <2>1 DEF attach_exists, Goto, locals
  <2>2. CASE ~PathExists(path) BY <1>2, <1>9, <2>2 DEF attach_exists
  <2> QED BY <2>1, <2>2
<1>10. CASE attach_lookup
  BY <1>1, <1>3, <1>6, <1>7, <1>10 DEF attach_lookup, Goto, locals
<1>11. CASE attach_call
  <2>1. path \in Paths BY <1>1, <1>11, Zenon DEF attach_call, ArgsBound, ServletTypeOK
  <2>2. [src |-> path, tgt |-> idx] \in Disk BY <1>1, <2>1, Zenon DEF Disk, ServletTypeOK
  <2>3. QuietHost' BY <1>1, <1>6, <1>7, <1>11, <2>2, AttachQuiet DEF attach_call
  <2> QED BY <1>11, <2>3, AnswerQuiet DEF attach_call
<1> QED BY <1>4, <1>5, <1>8, <1>9, <1>10, <1>11 DEF attachDisk

LEMMA InitQuiet == Init => QuietHost /\ QuietHandler
<1> SUFFICES ASSUME Init PROVE QuietHost /\ QuietHandler
  OBVIOUS
<1>1. NeverPaused BY DEF Init, HostInit, NeverPaused
<1>2. DenseTargets BY DEF Init, HostInit, DenseTargets
<1>3. LiveMatchesConfig BY DEF Init, HostInit, LiveMatchesConfig
<1>4. StaysOff /\ IdxIsNext BY DEF Init, StaysOff, IdxIsNext
<1> QED BY <1>1, <1>2, <1>3, <1>4 DEF QuietHost, DefinitionsAgree, QuietHandler

LEMMA NextQuiet ==
  ASSUME Quiet
  PROVE  TypeInv /\ FinishCount /\ NameFree /\ QuietHost /\ QuietHandler /\ [Next]_vars
           => QuietHost' /\ QuietHandler'
<1> SUFFICES ASSUME TypeInv, FinishCount, NameFree, QuietHost, QuietHandler, [Next]_vars
             PROVE QuietHost' /\ QuietHandler'
  OBVIOUS
<1>1. CASE Handler
  BY <1>1, PowerQuietly, PlainQuietly, CreateQuietly, PurgeQuietly, NewNetQuietly, AttachDiskQuietly
     DEF Handler
<1>2. ASSUME HostRests, UNCHANGED <<op, pc, tgt, seen, idx>> PROVE QuietHost' /\ QuietHandler'
  BY <1>2, RestsHost, RestsHandler DEF TypeInv, ArgsBound
<1>3. CASE Arrival
  <2>1. QuietHost' BY <1>3, ArrivalMoves, RestsHost, SameHostRests
  <2>2. pc' \in {"idle", "begin", "lookup"} /\ (pc' = "lookup" => op' # "attach_disk")
    BY <1>3, Zenon DEF Arrival, newVol_begin, create_begin, request
  <2>3. StaysOff' /\ IdxIsNext' BY <2>2 DEF StaysOff, IdxIsNext
  <2> QED BY <2>1, <2>3 DEF QuietHandler
<1>4. CASE World
  <2>1. HostRests BY <1>4, EnvironmentRests DEF World, TypeInv, TypeOK, QuietHost
  <2> QED BY <1>2, <1>4, <2>1 DEF World, locals
<1>5. CASE LibvirtdRestarts BY <1>2, <1>5, SameHostRests DEF LibvirtdRestarts, locals
<1>6. CASE Crash BY <1>6, OtherQuiet, RestsHost, SameHostRests DEF Crash, Return
<1>7. CASE UNCHANGED vars BY <1>2, <1>7, SameHostRests DEF vars, locals
<1> QED BY <1>1, <1>3, <1>4, <1>5, <1>6, <1>7 DEF Next

\* As long as no domain is paused and no other client starts or defines domains, attachDisk finds a free
\* target by counting disks, and a running domain has the disks and networks of its definition: attachDisk,
\* newNet, createDomain and startDomain of domain_servlet.py keep both definitions the same, although the
\* state they read may be several calls old.
THEOREM DefinitionsStayInStep == ASSUME Quiet PROVE Spec => []DefinitionsAgree
<1>1. QuietHost => DefinitionsAgree BY DEF QuietHost
<1>2. TypeInv /\ FinishCount /\ NameFree /\ QuietHost /\ QuietHandler /\ [Next]_vars
        => QuietHost' /\ QuietHandler'
  BY NextQuiet
<1>3. TypeInv /\ NameFree /\ [Next]_vars => NameFree' BY NextName DEF Quiet
<1> QED BY <1>1, <1>2, <1>3, InitType, NextType, InitFinish, NextFinish, InitName, InitQuiet, PTL DEF Spec

\* Only the loop of purgeDomain takes volumes away.
LEMMA VolumesStay ==
  ASSUME TypeInv, Next PROVE vols \subseteq vols' \/ (op = "purge" /\ purge_delete)
<1>1. UNCHANGED hostVars \/ UNCHANGED vols => vols \subseteq vols' BY DEF hostVars
<1>2. CASE queryDomain \/ domainInfo \/ newMemory \/ newNet
  BY <1>1, <1>2, Zenon DEF queryDomain, domainInfo, newMemory, newNet, attachNic
<1>3. CASE \/ resetDomain \/ rebootDomain \/ pauseDomain \/ resumeDomain
           \/ shutdownDomain \/ destroyDomain \/ startDomain
  <2>1. PowerQuiet => vols \subseteq vols' BY <1>1 DEF PowerQuiet
  <2>2. signal(tgt) \/ destroy(tgt) \/ create(tgt) => vols \subseteq vols'
    BY <1>1, Zenon DEF signal, destroy, Stop, create
  <2>3. suspend(tgt) \/ resume(tgt) => vols \subseteq vols' BY <1>1 DEF suspend, resume, SetState
  <2> QED BY <1>3, <2>1, <2>2, <2>3, PowerCases
<1>4. CASE purgeDomain
  BY <1>1, <1>4, Zenon DEF purgeDomain, purge_xml, purge_check, purge_destroy, purge_undefine, destroy, Stop, undefine
<1>5. CASE attachDisk
  BY <1>1, <1>5, Zenon DEF attachDisk, attach_cdrom, attach_info, attach_xml, attach_exists, attach_lookup,
     attach_call, attach_swallowed, attachDisk_current
<1>6. CASE newVol_lookup \/ newVol_create
  BY <1>1, <1>6 DEF newVol_lookup, newVol_create, createVol, SetVols
<1>7. CASE parseDefinition \/ create_define \/ create_report
  BY <1>1, <1>7, Zenon DEF parseDefinition, create_define, create_report, defineXML
<1>8. CASE Arrival BY <1>1, <1>8, ArrivalMoves
<1>9. CASE World \/ LibvirtdRestarts \/ Crash
  <2>1. HostTypeOK BY DEF TypeInv, TypeOK
  <2> QED BY <1>1, <1>9, <2>1, EnvironmentCalm, Zenon DEF World, LibvirtdRestarts, Crash, Calm
<1> QED BY <1>2, <1>3, <1>4, <1>5, <1>6, <1>7, <1>8, <1>9 DEF Next, Handler

\* As long as no domain is paused, no other client starts or defines domains and clients share no disk
\* images, purgeDomain of domain_servlet.py deletes no volume under an active domain, and its OK means that
\* the domain is gone: the state it reads before destroy and undefine, and the list of disks it deletes by,
\* are still right when they are used.
THEOREM PurgesAreSafe == ASSUME Quiet, ~SharedDisks PROVE Spec => PurgeIsSafe
<1> DEFINE Inv == TypeInv /\ FinishCount /\ NameFree /\ QuietHost /\ QuietHandler /\ HostInv /\ HandlerInv
<1>1. Inv /\ [Next]_vars =>
        [\A p \in vols \ vols' : \A u \in Uuids : Active(u) => p \notin Sources(ldisks[u])]_vars
  <2> SUFFICES ASSUME Inv, Next, NEW p \in vols \ vols', NEW u \in Uuids, Active(u)
               PROVE  p \notin Sources(ldisks[u])
    OBVIOUS
  <2>1. op = "purge" /\ purge_delete BY VolumesStay
  <2>2. xml \in Seq(Paths) /\ xml # <<>> /\ pc = "delete" /\ HostTypeOK
    BY <2>1 DEF TypeInv, TypeOK, ServletTypeOK, purge_delete
  <2>3. p = Head(xml)
    <3>1. ~UNCHANGED hostVars BY DEF hostVars
    <3> QED BY <2>1, <3>1 DEF purge_delete, deleteVol, SetVols
  <2>4. 1 \in DOMAIN xml /\ p = xml[1] BY <2>2, <2>3, RestOfList, Zenon
  <2>5. ~Active(tgt) BY <2>1, <2>2 DEF QuietHandler, StaysOff
  <2>6. u # tgt BY <2>5
  <2>7. p \notin Refs(u) BY <2>1, <2>2, <2>4, <2>6, Zenon DEF HandlerInv, PurgeOwns
  <2> QED BY <2>7, Zenon DEF Refs
<1>2. Inv /\ [Next]_vars =>
        [op = "purge" /\ pc' = "idle" /\ reply' = Json("OK")
           => \A u \in Uuids : u = tgt => ~Exists(u)']_vars
  <2> SUFFICES ASSUME Inv, Next, op = "purge", pc' = "idle", reply' = Json("OK")
               PROVE  \A u \in Uuids : u = tgt => ~Exists(u)'
    OBVIOUS
  <2>1. pc # "idle" BY DEF FinishCount
  <2>2. Handler
    <3>1. reply' # NoReply BY DEF NoReply, Json
    <3> QED BY <2>1, <3>1, ArrivalMoves DEF Next, World, LibvirtdRestarts, Crash
  <2>3. purgeDomain
    BY <2>2, Zenon DEF Handler, queryDomain, domainInfo, newMemory, resetDomain, rebootDomain, pauseDomain,
       resumeDomain, shutdownDomain, destroyDomain, startDomain, Power, newNet, attachDisk,
       newVol_lookup, newVol_create, parseDefinition, create_define, create_report
  <2>4. ~Raise BY DEF Raise, Answer, Internal, Json
  <2>5. pc = "delete" /\ UNCHANGED hostVars
    BY <2>1, <2>3, <2>4, Zenon DEF purgeDomain, purge_xml, purge_check, purge_destroy, purge_undefine, purge_delete, Goto
  <2>6. ~Active(tgt) /\ ~defined[tgt] BY <2>5 DEF QuietHandler, StaysOff
  <2> QED BY <2>5, <2>6 DEF Exists, Active, hostVars
<1>3. TypeInv /\ FinishCount /\ NameFree /\ QuietHost /\ QuietHandler /\ [Next]_vars
        => QuietHost' /\ QuietHandler'
  BY NextQuiet
<1>4. TypeInv /\ NameFree /\ [Next]_vars => NameFree' BY NextName DEF Quiet
<1>5. TypeInv /\ HostInv /\ HandlerInv /\ [Next]_vars => HostInv' /\ HandlerInv' BY NextDisk
<1>6. Spec => []Inv
  BY <1>3, <1>4, <1>5, InitType, NextType, InitFinish, NextFinish, InitName, InitQuiet, InitDisk, PTL DEF Spec
<1> HIDE DEF Inv
<1> QED BY <1>1, <1>2, <1>6, PTL DEF Spec, PurgeIsSafe, PurgeSparesActive, PurgeOkMeansGone

=============================================================================
