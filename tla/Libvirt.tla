------------------------------ MODULE Libvirt ------------------------------
(***************************************************************************)
(* The libvirt host as cloudyfox uses it: domains with a persistent        *)
(* definition and, while they are active, a live definition; storage       *)
(* volumes; and the events that change them without cloudyfox being asked  *)
(* (guests, other libvirt clients).  libvirt is not part of the            *)
(* repository, so this module is written from the calls that               *)
(* domain_servlet.py, node_servlet.py and vnc_svr.py make on it.           *)
(***************************************************************************)
EXTENDS Naturals, Sequences, FiniteSets

CONSTANTS
  Uuids,       \* the domains that may exist, named by their uuid
  Names,       \* domain names
  Prefixes,    \* volume name prefixes of newVol
  MaxIdx,      \* bound: volume numbers per prefix
  Files,       \* disk images that are files but no volume of any pool
  Nets,        \* defined networks
  GuestEvents, \* what guests do by themselves
  Foreign      \* what other libvirt clients (virsh, ...) do meanwhile

ASSUME MaxIdxAssumption == MaxIdx \in Nat \ {0}
ASSUME NamesAssumption == Names # {}

VARIABLES
  defined,  \* uuid -> does a persistent definition exist
  name,     \* uuid -> its name, meaningful while the domain exists
  state,    \* uuid -> virDomainState
  disks,    \* uuid -> disks of the persistent definition
  ldisks,   \* uuid -> disks of the live definition
  nics,     \* uuid -> networks of the persistent definition
  lnics,    \* uuid -> networks of the live definition
  vols      \* paths of the volumes that exist in the pools

hostVars == <<defined, name, state, disks, ldisks, nics, lnics, vols>>

DomState == {"RUNNING", "PAUSED", "PMSUSPENDED", "CRASHED", "SHUTOFF"}

\* Path of the volume <prefix>-<index>.
VolPaths == Prefixes \X (1..MaxIdx)
Paths == VolPaths \cup Files
\* A <disk device='disk'> element: its source, and n for target dev 'vd' + nth letter.
Disk == [src: Paths, tgt: Nat]

ASSUME FilesAssumption == VolPaths \cap Files = {}

HostTypeOK ==
  /\ defined \in [Uuids -> BOOLEAN]
  /\ name \in [Uuids -> Names]
  /\ state \in [Uuids -> DomState]
  /\ disks \in [Uuids -> Seq(Disk)]
  /\ ldisks \in [Uuids -> Seq(Disk)]
  /\ nics \in [Uuids -> SUBSET Nets]
  /\ lnics \in [Uuids -> SUBSET Nets]
  /\ vols \subseteq VolPaths

\* Initially nothing but the pools and the networks exists.
HostInit ==
  /\ defined = [u \in Uuids |-> FALSE]
  /\ name = [u \in Uuids |-> CHOOSE n \in Names : TRUE]
  /\ state = [u \in Uuids |-> "SHUTOFF"]
  /\ disks = [u \in Uuids |-> <<>>]
  /\ ldisks = [u \in Uuids |-> <<>>]
  /\ nics = [u \in Uuids |-> {}]
  /\ lnics = [u \in Uuids |-> {}]
  /\ vols = {}

-----------------------------------------------------------------------------
(* What a client sees. *)

Active(u) == state[u] # "SHUTOFF"
Exists(u) == defined[u] \/ Active(u)

lookupByName(n) == {u \in Uuids : Exists(u) /\ name[u] = n}
\* An id names an active domain and dies with its run: the selector i stands for
\* the id that uuid i has now, which is stale once i is inactive.
lookupByID(i) == {u \in {i} \cap Uuids : Active(u)}
lookupByUUIDString(i) == {u \in {i} \cap Uuids : Exists(u)}

\* XMLDesc(0) describes the live definition of an active domain.
XMLDisks(u) == IF Active(u) THEN ldisks[u] ELSE disks[u]

Sources(ds) == {ds[i].src : i \in DOMAIN ds}
Targets(ds) == {ds[i].tgt : i \in DOMAIN ds}

\* Disk images a domain holds, in either definition.
Refs(u) ==
  (IF defined[u] THEN Sources(disks[u]) ELSE {}) \cup
  (IF Active(u) THEN Sources(ldisks[u]) ELSE {})

\* os.path.exists on a disk path.
PathExists(p) == p \in vols \cup Files

-----------------------------------------------------------------------------
(* Calls that change the host: each is the successful outcome. *)

\* The run of u ends: the live definition goes, and u with it if it is transient.
Stop(u) ==
  /\ state' = [state EXCEPT ![u] = "SHUTOFF"]
  /\ ldisks' = [ldisks EXCEPT ![u] = <<>>]
  /\ lnics' = [lnics EXCEPT ![u] = {}]
  /\ UNCHANGED <<defined, name, disks, nics, vols>>

SetState(u, s) ==
  /\ state' = [state EXCEPT ![u] = s]
  /\ UNCHANGED <<defined, name, disks, ldisks, nics, lnics, vols>>

destroy(u) == Active(u) /\ Stop(u)
suspend(u) == state[u] \in {"RUNNING", "PAUSED"} /\ SetState(u, "PAUSED")
resume(u) == state[u] \in {"RUNNING", "PAUSED"} /\ SetState(u, "RUNNING")
\* reset, reboot and the ACPI shutdown request leave the domain's entry as it is.
signal(u) == Active(u) /\ UNCHANGED hostVars

\* create() boots the persistent definition; a missing disk image refuses it.
create(u) ==
  /\ defined[u] /\ ~Active(u)
  /\ \A p \in Sources(disks[u]) : PathExists(p)
  /\ state' = [state EXCEPT ![u] = "RUNNING"]
  /\ ldisks' = [ldisks EXCEPT ![u] = disks[u]]
  /\ lnics' = [lnics EXCEPT ![u] = nics[u]]
  /\ UNCHANGED <<defined, name, disks, nics, vols>>

\* undefine() of an active domain leaves it running, without a definition.
undefine(u) ==
  /\ defined[u]
  /\ defined' = [defined EXCEPT ![u] = FALSE]
  /\ disks' = [disks EXCEPT ![u] = <<>>]
  /\ nics' = [nics EXCEPT ![u] = {}]
  /\ UNCHANGED <<name, state, ldisks, lnics, vols>>

\* defineXML replaces the definition of a domain with this name and uuid, and
\* refuses a name or a uuid that another domain has.
defineXML(u, n, ds, ns) ==
  /\ lookupByName(n) \subseteq {u}
  /\ Exists(u) => name[u] = n
  /\ defined' = [defined EXCEPT ![u] = TRUE]
  /\ name' = [name EXCEPT ![u] = n]
  /\ disks' = [disks EXCEPT ![u] = ds]
  /\ nics' = [nics EXCEPT ![u] = ns]
  /\ UNCHANGED <<state, ldisks, lnics, vols>>

\* attachDeviceFlags of a disk with VIR_DOMAIN_AFFECT_CURRENT: the live definition of
\* an active domain, the persistent one otherwise.  A target in use refuses it.
attachDisk_current(u, d) ==
  /\ d.tgt \notin Targets(XMLDisks(u))
  /\ \/ /\ Active(u)
        /\ ldisks' = [ldisks EXCEPT ![u] = Append(@, d)]
        /\ UNCHANGED disks
     \/ /\ defined[u] /\ ~Active(u)
        /\ disks' = [disks EXCEPT ![u] = Append(@, d)]
        /\ UNCHANGED ldisks
  /\ UNCHANGED <<defined, name, state, nics, lnics, vols>>

\* attachDeviceFlags of a network interface with AFFECT_CONFIG, and AFFECT_LIVE on demand.
attachNic(u, n, affectLive) ==
  /\ defined[u]
  /\ affectLive => Active(u)
  /\ nics' = [nics EXCEPT ![u] = @ \cup {n}]
  /\ lnics' = IF affectLive THEN [lnics EXCEPT ![u] = @ \cup {n}] ELSE lnics
  /\ UNCHANGED <<defined, name, state, disks, ldisks, vols>>

SetVols(vs) ==
  /\ vols' = vs
  /\ UNCHANGED <<defined, name, state, disks, ldisks, nics, lnics>>

createVol(p) == p \notin vols /\ SetVols(vols \cup {p})
deleteVol(p) == p \in vols /\ SetVols(vols \ {p})

-----------------------------------------------------------------------------
(* What happens on the host unasked. *)

GuestPowersOff(u) == "stop" \in GuestEvents /\ Active(u) /\ Stop(u)
GuestIOError(u) == "ioerror" \in GuestEvents /\ state[u] = "RUNNING" /\ SetState(u, "PAUSED")
GuestSleeps(u) == "sleep" \in GuestEvents /\ state[u] = "RUNNING" /\ SetState(u, "PMSUSPENDED")
GuestWakes(u) == state[u] = "PMSUSPENDED" /\ SetState(u, "RUNNING")
GuestPanics(u) == "panic" \in GuestEvents /\ state[u] = "RUNNING" /\ SetState(u, "CRASHED")

ForeignStart(u) == "start" \in Foreign /\ create(u)
ForeignUndefine(u) == "undefine" \in Foreign /\ undefine(u)
ForeignDefine(u) == "define" \in Foreign /\ \E n \in Names : defineXML(u, n, <<>>, {})
\* Bound: a foreign client leaves every prefix a free number.
ForeignNewVol(p) ==
  /\ "newvol" \in Foreign
  /\ \E q \in VolPaths \ vols : q # p /\ q[1] = p[1]
  /\ createVol(p)

Environment ==
  \/ \E u \in Uuids : \/ GuestPowersOff(u) \/ GuestIOError(u) \/ GuestSleeps(u)
                      \/ GuestWakes(u) \/ GuestPanics(u)
                      \/ ForeignStart(u) \/ ForeignUndefine(u) \/ ForeignDefine(u)
  \/ \E p \in VolPaths : ForeignNewVol(p)

=============================================================================
