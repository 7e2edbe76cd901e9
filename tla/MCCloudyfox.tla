---------------------------- MODULE MCCloudyfox ----------------------------
(***************************************************************************)
(* The parts of cloudyfox beside the domain servlet's operations: the      *)
(* dispatcher, the domain listing, the node servlet, the template copy and *)
(* the VNC proxy, which the module extends.  They share no state.  In a    *)
(* behaviour one of them, part, runs, and the others rest in their initial *)
(* state.                                                                  *)
(***************************************************************************)
EXTENDS VNCProxy, Integers

CONSTANT None

VARIABLES
  part,
  handlers, asked, path, dreq, dreply,                                           \* Dispatcher
  defined, name, state, disks, ldisks, nics, lnics, dvols,                       \* Libvirt
  names, ids, current, domains, rows, steady, lpc, lreply,                       \* DomainList
  pool, vols, nets, uuids, op, args, obj, todo, out, code, quiet, broken, npc, nreply, \* NodeServlet
  disk, start, tries, tpc, treq, treply                                          \* TemplateCopy

\* A word that is an operation, the empty word, and two servlets.
D == INSTANCE Dispatcher WITH
  Words <- {"list"}, empty <- "", Ops <- {"list"}, Servlets <- {"domain", "node"},
  MaxLen <- 3, MaxRegs <- 2, req <- dreq, reply <- dreply

\* Two domains and two names, which may be swapped between them.
L == INSTANCE DomainList WITH
  Uuids <- {"u1", "u2"}, Names <- {"a", "b"}, Prefixes <- {}, MaxIdx <- 1, Files <- {}, Nets <- {},
  GuestEvents <- {"stop"}, Foreign <- {"start", "define", "undefine"},
  Faults <- {"libvirtd"}, vols <- dvols, pc <- lpc, reply <- lreply

\* Listings, while everything on the host changes.
N == INSTANCE NodeServlet WITH
  Pools <- {"p", "q"}, Vols <- {"v", "w"}, Nets <- {"n"}, MaxUuid <- 3, Requests <- {},
  Faults <- {"libvirtd", "start"}, Nobody <- None,
  Foreign <- {"define", "undefine", "start", "destroy", "volume", "net"}, pc <- npc, reply <- nreply

\* Complete requests for new pools, and requests in which one argument is missing or invalid.
Keys == {"type", "name", "dev", "host", "src_path", "device", "target_path", "auto_start"}
Requests ==
  [keys: {Keys} \cup {Keys \ {k} : k \in Keys}, type: {"logical", "dir", "netfs", "iscsi", "other"},
   name: {"p"}, auto: BOOLEAN]
NP == INSTANCE NodeServlet WITH
  Pools <- {"p", "q"}, Vols <- {}, Nets <- {}, MaxUuid <- 3,
  Faults <- {"libvirtd", "start"}, Nobody <- None,
  Foreign <- {"define", "undefine", "start", "destroy"}, pc <- npc, reply <- nreply

P(num, first, last) == [num |-> num, start |-> first, end |-> last]
Fs(first, len) == [start |-> first, len |-> len]
Image(len, table, fs) == [len |-> len, table |-> table, fs |-> fs]

\* Two partitions, numbered in order, with a gap in the numbers, and out of order; one partition
\* only; and a third one behind the root file system.
Templates == {
  Image(8, {P(1, 1, 2), P(2, 3, 7)}, Fs(3, 5)),
  Image(9, {P(1, 1, 2), P(2, 4, 8)}, Fs(4, 3)),
  Image(8, {P(1, 1, 2), P(3, 3, 7)}, Fs(3, 5)),
  Image(8, {P(2, 1, 2), P(1, 3, 7)}, Fs(3, 5)),
  Image(8, {P(1, 1, 7)}, Fs(1, 7)),
  Image(10, {P(1, 1, 2), P(2, 3, 6), P(3, 8, 9)}, Fs(3, 4))}
Disks == [kind: {"file", "device"}, size: {0, 7} \cup (9..14)]

\* Two requests in a row, which fail anywhere or not at all.
T == INSTANCE TemplateCopy WITH
  Swaps <- 0..3, Faults <- {"guestfs", "crash"}, MaxTries <- 2, pc <- tpc, req <- treq, reply <- treply
TR == INSTANCE TemplateCopy WITH
  Swaps <- 0..3, Faults <- {}, MaxTries <- 2, pc <- tpc, req <- treq, reply <- treply

\* A viewer that does not wait sends no second newline; one that waits for the console's greeting
\* may answer with lines, one of them a uuid.  The last three lines are no uuid.
OneLine == {<<"d1", "NL", "x", "y", "x", "x", "y">>, <<"d2", "NL", "d1", "y">>}
SomeLines == OneLine \cup
  {<<"d1", "NL", "x", "NL", "y", "x", "NL", "x">>, <<"d2", "NL", "d1", "NL", "x", "y">>,
   <<"d1", "x", "NL", "y">>, <<"NL", "d1", "NL">>, <<"x", "y">>}

\* The constants have the values that the modules expect.
ASSUME Assumptions ==
  /\ D!DispatcherAssumption /\ NP!MaxUuidAssumption /\ NP!NobodyAssumption /\ NP!RequestsAssumption
  /\ T!MaxTriesAssumption /\ T!SwapsAssumption /\ ProxyAssumption /\ EagerAssumption

dispatcherVars == <<handlers, asked, path, dreq, dreply>>
listVars ==
  <<defined, name, state, disks, ldisks, nics, lnics, dvols, names, ids, current, domains, rows, steady, lpc, lreply>>
nodeVars == <<pool, vols, nets, uuids, op, args, obj, todo, out, code, quiet, broken, npc, nreply>>
templateVars == <<disk, start, tries, tpc, treq, treply>>
cloudyfoxVars == <<part, dispatcherVars, listVars, nodeVars, templateVars, vars>>

CloudyfoxInit ==
  /\ part \in {"dispatcher", "domain list", "node list", "new pool", "template", "template, no faults", "vnc"}
  /\ D!Init /\ L!Init /\ T!Init /\ Init
  /\ IF part = "new pool" THEN NP!Init ELSE N!Init
  /\ part \in {"template", "template, no faults"} \/ (disk.kind = "file" /\ disk.size = 0)
  /\ part = "vnc" \/ stream = <<"x", "y">>

Dispatch == part = "dispatcher" /\ D!Next /\ UNCHANGED <<part, listVars, nodeVars, templateVars, vars>>
DomainList == part = "domain list" /\ L!Next /\ UNCHANGED <<part, dispatcherVars, nodeVars, templateVars, vars>>
NodeServlet ==
  /\ \/ part = "node list" /\ N!Next
     \/ part = "new pool" /\ NP!Next
  /\ UNCHANGED <<part, dispatcherVars, listVars, templateVars, vars>>
Template ==
  /\ \/ part = "template" /\ T!Next
     \/ part = "template, no faults" /\ TR!Next
  /\ UNCHANGED <<part, dispatcherVars, listVars, nodeVars, vars>>
Proxy == part = "vnc" /\ Next /\ UNCHANGED <<part, dispatcherVars, listVars, nodeVars, templateVars>>
\* No more requests, or a viewer that has left.
Stopped == part \in {"template", "template, no faults", "vnc"} /\ UNCHANGED cloudyfoxVars

CloudyfoxNext == Dispatch \/ DomainList \/ NodeServlet \/ Template \/ Proxy \/ Stopped

\* TCP answers every connection attempt in the end.
ProxyAnswered ==
  /\ part = "vnc" /\ \E c \in DOMAIN conns : Answered(c)
  /\ UNCHANGED <<part, dispatcherVars, listVars, nodeVars, templateVars>>

CloudyfoxSpec == CloudyfoxInit /\ [][CloudyfoxNext]_cloudyfoxVars /\ WF_cloudyfoxVars(ProxyAnswered)

-----------------------------------------------------------------------------
(* Properties, besides ConsoleIsRight, ImplementsTunnel and DialSettles of VNCProxy; with each component the *)
(* kinds of its variables are checked                                                                        *)

\* ServletDispatcher.request: the servlet of the longest registered prefix is called.
Longest == []D!TypeOK /\ D!Longest

\* Listings are made call by call while the host changes.  listDomains lists a domain that nobody
\* touches exactly once, with its state, and fails only when a domain changed under it or libvirtd is
\* gone; info and listVol list everything there is on a host that nobody changes meanwhile.
ListingIsTrue ==
  /\ [](part = "domain list" => L!TypeOK) /\ [](part = "node list" => N!TypeOK)
  /\ L!SteadyListedOnce /\ []L!QuietAnswers /\ N!ListsAll

\* newPool is all or nothing: it answers 0 for a pool that is as asked for, or for none when it got no
\* connection; if it fails it leaves no pool behind that it defined; and it undefines no pool but its own.
NewPoolAllOrNothing == [](part = "new pool" => NP!TypeOK) /\ N!OkIsMade /\ N!NoPoolLeft /\ N!UndoesOwn

\* copyDebianTemplate answers OK for a disk that is partitioned as asked for and whose fstab has one
\* line for the swap partition, also after a failed attempt; and it answers OK for every disk with
\* room enough if no call fails by itself.
TemplateIsWhole ==
  /\ []T!TypeOK /\ T!LaidOut /\ T!OneSwapLine
  /\ [][part = "template, no faults" => TR!FailsForRoom]_cloudyfoxVars

=============================================================================
