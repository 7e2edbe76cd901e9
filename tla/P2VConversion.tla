---------------------------- MODULE P2VConversion ----------------------------
(***************************************************************************)
(* start_conversion of virt-p2v (p2v/conversion.c, with the data and       *)
(* control connections of p2v/ssh.c and the processes of p2v/miniexpect.c):*)
(* one ssh data connection and one qemu-nbd per disk, then the control     *)
(* connection on which virt-v2v runs, then the cleanup.  Every child       *)
(* inherits the pty masters that are open when it is forked, so closing a  *)
(* master in virt-p2v hangs up the ssh behind it only once every later     *)
(* child is gone too.                                                      *)
(***************************************************************************)
EXTENDS Integers, FiniteSets

CONSTANT N  \* number of disks

Disks == 1..N
Control == 0
Conns == 0..N
ssh(c) == <<"ssh", c>>
nbd(d) == <<"nbd", d>>
p2v == <<"p2v", 0>>

VARIABLES
  pc,       \* the step of start_conversion
  i,        \* the loop index
  ret,      \* "none", "failed" (-1), "done" (0), or "exit": exit after the cleanup
  opened,   \* connections whose handle is not NULL
  serving,  \* disks whose nbd_pid is not 0
  live,     \* child processes that run
  zombie,   \* child processes that ended and were not waited for
  masters,  \* connection -> the processes that have its pty master open
  status    \* virt-v2v: "none", "running", "ok" or "failed"

vars == <<pc, i, ret, opened, serving, live, zombie, masters, status>>

Init ==
  /\ pc = "spawn" /\ i = 1 /\ ret = "none" /\ opened = {} /\ serving = {}
  /\ live = {} /\ zombie = {} /\ masters = [c \in Conns |-> {}] /\ status = "none"

-----------------------------------------------------------------------------
(* Processes *)

\* fork: the child p keeps every pty master that virt-p2v has open.
Inherit(p) == [c \in Conns |-> IF p2v \in masters[c] THEN masters[c] \cup {p} ELSE masters[c]]

\* mexp_spawnv: a new pty and its ssh, which closes its own copy of the master.
SpawnSsh(c) ==
  /\ live' = live \cup {ssh(c)}
  /\ masters' = [Inherit(ssh(c)) EXCEPT ![c] = {p2v}]

\* Process p ends and its descriptors are closed.
Ends(P) ==
  /\ live' = live \ P
  /\ zombie' = zombie \cup (live \cap P)

CloseMaster(c, P) == masters' = [x \in Conns |-> masters[x] \ (P \cup IF x = c THEN {p2v} ELSE {})]

\* The kernel sends SIGHUP to an ssh whose pty has no master any more.
Hangup ==
  /\ \E c \in Conns :
       /\ ssh(c) \in live /\ masters[c] = {}
       /\ Ends({ssh(c)}) /\ masters' = [x \in Conns |-> masters[x] \ {ssh(c)}]
  /\ UNCHANGED <<pc, i, ret, opened, serving, status>>

\* A connection is lost, or qemu-nbd stops or could not be executed.
Dies ==
  /\ \E p \in live : Ends({p}) /\ masters' = [x \in Conns |-> masters[x] \ {p}]
  /\ UNCHANGED <<pc, i, ret, opened, serving, status>>

\* virt-v2v ends on the conversion server, well only if it could read every disk.
RemoteEnds ==
  /\ status = "running"
  /\ \/ status' = "failed"
     \/ status' = "ok" /\ \A d \in Disks : {ssh(d), nbd(d)} \subseteq live
  /\ UNCHANGED <<pc, i, ret, opened, serving, live, zombie, masters>>

\* The remote shell exits after virt-v2v and the control connection closes.
RemoteExits ==
  /\ status \in {"ok", "failed"} /\ ssh(Control) \in live
  /\ Ends({ssh(Control)}) /\ masters' = [x \in Conns |-> masters[x] \ {ssh(Control)}]
  /\ UNCHANGED <<pc, i, ret, opened, serving, status>>

-----------------------------------------------------------------------------
(* start_conversion *)

Fail == ret' = "failed" /\ pc' = "out"

\* open_data_connection starts ssh, or cannot; exit when there is no memory for a message.
SpawnData ==
  /\ pc = "spawn"
  /\ \/ SpawnSsh(i) /\ pc' = "expect" /\ UNCHANGED ret
     \/ Fail /\ UNCHANGED <<live, masters>>
     \/ pc' = "exited" /\ UNCHANGED <<ret, live, masters>>
  /\ UNCHANGED <<i, opened, serving, zombie, status>>

\* The forwarded port is read; or the end of file, a timeout or an error, and mexp_close.
ExpectData ==
  /\ pc = "expect"
  /\ \/ opened' = opened \cup {i} /\ pc' = "nbd" /\ UNCHANGED masters
     \/ CloseMaster(i, {}) /\ pc' = "reap_data" /\ UNCHANGED opened
  /\ UNCHANGED <<i, ret, serving, live, zombie, status>>

\* waitpid of a connection that failed.
Reap(c) == ssh(c) \in zombie /\ zombie' = zombie \ {ssh(c)}

ReapFailed ==
  /\ \/ pc = "reap_data" /\ Reap(i)
     \/ pc = "reap_control" /\ Reap(Control)
  /\ Fail
  /\ UNCHANGED <<i, opened, serving, live, masters, status>>

\* start_qemu_nbd; without memory for the device name the cleanup is done before the exit.
StartNbd ==
  /\ pc = "nbd"
  /\ \/ /\ live' = live \cup {nbd(i)} /\ masters' = Inherit(nbd(i))
        /\ serving' = serving \cup {i} /\ i' = i + 1
        /\ pc' = IF i = N THEN "xml" ELSE "spawn"
        /\ UNCHANGED ret
     \/ Fail /\ UNCHANGED <<i, serving, live, masters>>
     \/ ret' = "exit" /\ pc' = "out" /\ UNCHANGED <<i, serving, live, masters>>
  /\ UNCHANGED <<opened, zombie, status>>

\* The remote directory name, generate_libvirt_xml and start_remote_connection's ssh.
SpawnControl ==
  /\ pc = "xml"
  /\ \/ SpawnSsh(Control) /\ pc' = "sync" /\ UNCHANGED ret
     \/ Fail /\ UNCHANGED <<live, masters>>
     \/ ret' = "exit" /\ pc' = "out" /\ UNCHANGED <<live, masters>>
  /\ UNCHANGED <<i, opened, serving, zombie, status>>

\* The remote files are written, or something fails and the connection is closed.
SyncControl ==
  /\ pc = "sync"
  /\ \/ opened' = opened \cup {Control} /\ pc' = "command" /\ UNCHANGED masters
     \/ CloseMaster(Control, {}) /\ pc' = "reap_control" /\ UNCHANGED opened
  /\ UNCHANGED <<i, ret, serving, live, zombie, status>>

\* The virt-v2v command is sent.
SendCommand ==
  /\ pc = "command"
  /\ \/ pc' = "read" /\ status' = (IF ssh(Control) \in live THEN "running" ELSE "failed")
        /\ UNCHANGED ret
     \/ Fail /\ UNCHANGED status
  /\ UNCHANGED <<i, opened, serving, live, zombie, masters>>

\* The output is copied until the end of file, or an error.
ReadOutput ==
  /\ pc = "read"
  /\ \/ ssh(Control) \notin live /\ ret' = "done" /\ pc' = "out"
     \/ Fail
  /\ UNCHANGED <<i, opened, serving, live, zombie, masters, status>>

-----------------------------------------------------------------------------
(* The label out, and cleanup_data_conns *)

\* Mutant: the data connections are cleaned up first.
CloseControl_late ==
  /\ pc = "out" /\ pc' = "hup" /\ i' = 1
  /\ UNCHANGED <<ret, opened, serving, live, zombie, masters, status>>

CloseControl ==
  /\ pc = "out" /\ i' = 1
  /\ \/ Control \in opened /\ CloseMaster(Control, {}) /\ pc' = "wait_control"
     \/ Control \notin opened /\ pc' = "hup" /\ UNCHANGED masters
  /\ UNCHANGED <<ret, opened, serving, live, zombie, status>>

WaitControl ==
  /\ pc = "wait_control" /\ Reap(Control) /\ pc' = "hup"
  /\ UNCHANGED <<i, ret, opened, serving, live, masters, status>>

\* Mutant: the connection is closed and not signalled.
HupData_close ==
  /\ pc = "hup"
  /\ \/ i \in opened /\ pc' = "wait_data" /\ CloseMaster(i, {}) /\ UNCHANGED <<live, zombie>>
     \/ i \notin opened /\ pc' = "term" /\ UNCHANGED <<live, zombie, masters>>
  /\ UNCHANGED <<i, ret, opened, serving, status>>

\* kill (SIGHUP), and the first half of mexp_close.
HupData ==
  /\ pc = "hup"
  /\ \/ i \in opened /\ pc' = "wait_data" /\ Ends({ssh(i)}) /\ CloseMaster(i, {ssh(i)})
     \/ i \notin opened /\ pc' = "term" /\ UNCHANGED <<live, zombie, masters>>
  /\ UNCHANGED <<i, ret, opened, serving, status>>

WaitData ==
  /\ pc = "wait_data" /\ Reap(i) /\ pc' = "term"
  /\ UNCHANGED <<i, ret, opened, serving, live, masters, status>>

\* Mutant: qemu-nbd is signalled and not waited for.
TermNbd_nowait ==
  /\ pc = "term"
  /\ \/ i \in serving /\ Ends({nbd(i)}) /\ masters' = [c \in Conns |-> masters[c] \ {nbd(i)}]
     \/ i \notin serving /\ UNCHANGED <<live, zombie, masters>>
  /\ i' = i + 1
  /\ pc' = IF i < N THEN "hup" ELSE IF ret = "exit" THEN "exited" ELSE "returned"
  /\ UNCHANGED <<ret, opened, serving, status>>

\* kill (SIGTERM) and waitpid of qemu-nbd, and the end of the loop.
TermNbd ==
  /\ pc = "term"
  /\ \/ /\ i \in serving /\ live' = live \ {nbd(i)} /\ zombie' = zombie \ {nbd(i)}
        /\ masters' = [c \in Conns |-> masters[c] \ {nbd(i)}]
     \/ i \notin serving /\ UNCHANGED <<live, zombie, masters>>
  /\ i' = i + 1
  /\ pc' = IF i < N THEN "hup" ELSE IF ret = "exit" THEN "exited" ELSE "returned"
  /\ UNCHANGED <<ret, opened, serving, status>>

Step ==
  \/ SpawnData \/ ExpectData \/ ReapFailed \/ StartNbd \/ SpawnControl \/ SyncControl \/ SendCommand
  \/ ReadOutput \/ CloseControl \/ WaitControl \/ HupData \/ WaitData \/ TermNbd

Next == Step \/ Hangup \/ Dies \/ RemoteEnds \/ RemoteExits

Spec == Init /\ [][Next]_vars

\* virt-p2v and the kernel go on; virt-v2v ends and the remote shell with it.
FairSpec == Spec /\ WF_vars(Step) /\ WF_vars(Hangup) /\ WF_vars(RemoteEnds) /\ WF_vars(RemoteExits)

-----------------------------------------------------------------------------
(* Properties *)

\* When start_conversion returns, on whatever path, no ssh and no qemu-nbd is left, running or as a
\* zombie, and no pty stays open: no disk is served any more.
NoneLeft ==
  pc = "returned" \/ (pc = "exited" /\ ret = "exit") =>
    live = {} /\ zombie = {} /\ \A c \in Conns : masters[c] = {}

\* The data connections are taken down only after the control connection is gone, so that virt-v2v
\* does not lose a disk under it while virt-p2v still listens to it.
ControlFirst == pc \in {"hup", "wait_data", "term"} => ssh(Control) \notin live

Returned == pc \in {"returned", "exited"}

\* start_conversion returns or exits, although each waitpid waits for a process that later children
\* keep from being hung up.
Returns == <>[]Returned

\* What virt-p2v calls a successful conversion is one that virt-v2v ended with status 0.
\* The code does not have this property (README.md, "Known divergences").
SuccessTold == pc = "returned" /\ ret = "done" => status = "ok"

=============================================================================
