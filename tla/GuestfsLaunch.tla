---------------------------- MODULE GuestfsLaunch ----------------------------
(***************************************************************************)
(* The life of a libguestfs handle: launch by each of the four backends,   *)
(* the sockets and processes a launch creates and what every failure does  *)
(* with them, the wait for the appliance to connect, shutdown and close,   *)
(* the recovery process, and a main program that dies at any point.        *)
(*                                                                         *)
(* A step is a stretch of code up to the next call that may fail, block or *)
(* be overtaken by another process.  qemu and vmlinux obey SIGTERM.        *)
(***************************************************************************)
EXTENDS Integers

CONSTANTS
  Backends,    \* the backends tried, of "direct", "uml", "libvirt", "unix"
  Recovery,    \* the values of g->recovery_proc tried
  DirectModes, \* the values of g->direct_mode tried
  Faults,      \* what may fail, see Fault
  MainDies,    \* may the main program die
  Root,        \* does the main program run as root
  LateLogs,    \* may messages of the appliance still be handled when the timeout passes
  Timeout,     \* APPLIANCE_TIMEOUT, in ticks
  MaxLaunches  \* bound: launches

LaunchBounds == Timeout \in Nat \ {0} /\ MaxLaunches \in Nat
LaunchOptions ==
  /\ Backends \subseteq {"direct", "uml", "libvirt", "unix"}
  /\ Recovery \subseteq BOOLEAN /\ DirectModes \subseteq BOOLEAN
  /\ MainDies \in BOOLEAN /\ Root \in BOOLEAN /\ LateLogs \in BOOLEAN

VARIABLES
  main,     \* is the main program alive
  state,    \* g->state
  backend, recovery, direct,  \* g->backend, g->recovery_proc, g->direct_mode
  op, pc,   \* the call that runs, and where it is
  socks,    \* descriptors held by the variables of the launch function
  conn,     \* descriptors held by g->conn; {} is NULL
  drives,   \* is g->nr_drives positive
  pid, recpid,  \* data->pid > 0, data->recoverypid > 0
  hv,       \* the hypervisor: "none", "run", or "zombie" until it is waited for
  stray,    \* the backend that told its hypervisor to exit and did not wait for it, or "none"
  rec,      \* the recovery process: "none", "born" before getppid, "run", "zombie"
  ppid,     \* its parent_pid: the main program, or the init process that inherited it
  vir,      \* libvirt connection and domain: "none", "local", "handle"
  app,      \* the appliance: "boot", "connected", "up"
  elapsed,  \* time since accept_connection began
  left,     \* what poll has left to wait; negative is for ever
  launches, ret, err

config == <<backend, recovery, direct>>
procs == <<pid, recpid, hv, stray, rec, ppid, vir>>
clock == <<elapsed, left>>
vars == <<main, state, config, op, pc, socks, conn, drives, procs, app, clock, launches, ret, err>>

Fds == {"accept", "con0", "con1", "daemon", "daemon1"}

\* Every variable has a value of its kind.
TypeOK ==
  /\ main \in BOOLEAN /\ recovery \in BOOLEAN /\ direct \in BOOLEAN /\ drives \in BOOLEAN
  /\ pid \in BOOLEAN /\ recpid \in BOOLEAN /\ err \in BOOLEAN
  /\ stray \in Backends \cup {"none"} /\ backend \in Backends
  /\ state \in {"CONFIG", "LAUNCHING", "READY", "NO_HANDLE"} /\ op \in {"none", "launch", "action"}
  /\ pc \in {"idle", "begin", "sockets", "fork", "recovery", "connect", "accept", "poll", "recv", "cleanup"}
  /\ socks \subseteq Fds /\ conn \subseteq Fds
  /\ hv \in {"none", "run", "zombie"} /\ rec \in {"none", "born", "run", "zombie"} /\ ppid \in {"main", "init"}
  /\ vir \in {"none", "local", "handle"} /\ app \in {"boot", "connected", "up"}
  /\ elapsed \in 0..Timeout + 1 /\ left \in -1..Timeout /\ launches \in 0..MaxLaunches /\ ret \in {"none", "ok", "error"}

\* A handle that guestfs_create has just returned.
Init ==
  /\ main = TRUE /\ state = "CONFIG" /\ backend \in Backends /\ recovery \in Recovery /\ direct \in DirectModes
  /\ op = "none" /\ pc = "idle" /\ socks = {} /\ conn = {} /\ drives = FALSE
  /\ pid = FALSE /\ recpid = FALSE /\ hv = "none" /\ stray = "none" /\ rec = "none" /\ ppid = "main" /\ vir = "none"
  /\ app = "boot" /\ elapsed = 0 /\ left = 0 /\ launches = 0 /\ ret = "none" /\ err = FALSE

-----------------------------------------------------------------------------
(* Ends and failures of a call *)

Fault(f) == f \in Faults
Error == err' = TRUE
Goto(p) == pc' = p /\ UNCHANGED <<op, ret>>
Return(r) == pc' = "idle" /\ op' = "none" /\ ret' = r

\* Mutant: shutdown_uml does as shutdown_direct does.
Waits_no_recovery(b) == recovery

\* Does the backend's shutdown wait for the hypervisor.
Waits(b) == b = "uml" \/ recovery

\* The shutdown of each backend: both processes are signalled and waited for; a libvirt domain is destroyed.
backend_shutdown ==
  /\ IF backend = "libvirt" THEN
       /\ hv' = (IF vir = "handle" THEN "none" ELSE hv) /\ vir' = (IF vir = "handle" THEN "none" ELSE vir)
       /\ UNCHANGED <<pid, recpid, stray, rec>>
     ELSE
       /\ hv' = (IF pid THEN "none" ELSE hv)
       /\ stray' = (IF pid /\ ~Waits(backend) THEN backend ELSE stray)
       /\ rec' = (IF recpid THEN "none" ELSE rec)
       /\ pid' = FALSE /\ recpid' = FALSE /\ UNCHANGED vir
  /\ UNCHANGED ppid

free_conn_socket == conn' = {}

\* child_cleanup: recv_from_daemon has read end of file.
child_cleanup ==
  backend_shutdown /\ free_conn_socket /\ drives' = FALSE /\ state' = "CONFIG"

\* cleanup1 of the direct and uml backends, and the end of launch_libvirt's cleanup.
kill_children ==
  /\ hv' = (IF pid \/ vir = "local" THEN "none" ELSE hv)
  /\ rec' = (IF recpid THEN "none" ELSE rec)
  /\ pid' = FALSE /\ recpid' = FALSE /\ vir' = (IF vir = "local" THEN "none" ELSE vir)

\* Mutant: launch_libvirt forgets its listening socket.
close_sockets_partly == socks' = IF backend = "libvirt" THEN socks \cap {"accept"} ELSE {}

\* What the launch function's variables own is closed, but not a console pair that never became console_sock.
close_sockets == socks' = (IF {"con0", "con1"} \subseteq socks THEN {"con0", "con1"} ELSE {})

\* Mutant: launch_libvirt leaves the state alone too.
StateAfterCleanup_kept == IF backend \in {"unix", "libvirt"} THEN state ELSE "CONFIG"

\* The state a failed launch leaves.
StateAfterCleanup == IF backend = "unix" THEN state ELSE "CONFIG"

\* cleanup: what was not handed over is closed, g->conn is freed.
cleanup ==
  /\ pc = "cleanup"
  /\ kill_children /\ close_sockets /\ free_conn_socket
  /\ state' = StateAfterCleanup
  /\ Return("error")
  /\ UNCHANGED <<main, config, drives, stray, ppid, app, clock, launches, err>>

-----------------------------------------------------------------------------
(* guestfs_launch *)

\* guestfs__launch, up to the call of the backend.
guestfs_launch ==
  /\ op = "none" /\ state # "NO_HANDLE" /\ main /\ launches < MaxLaunches /\ launches' = launches + 1
  /\ IF state # "CONFIG" THEN Return("error") /\ Error
     ELSE \/ /\ Fault("tmpdir") /\ Return("error") /\ Error
          \/ /\ op' = "launch" /\ pc' = "begin" /\ ret' = "none" /\ err' = FALSE
  /\ UNCHANGED <<main, state, config, socks, conn, drives, procs, app, clock>>

\* What the backend refuses at once: no drives, direct mode under libvirt.
Refused == (~drives /\ backend \in {"direct", "uml"}) \/ (direct /\ backend = "libvirt")

\* The tests before anything is created.
launch_begin ==
  /\ pc = "begin"
  /\ \/ /\ Refused \/ (Fault("appliance") /\ backend # "unix")
        /\ Return("error") /\ Error
     \/ ~Refused /\ Fault("qemu") /\ backend \in {"direct", "libvirt"} /\ Goto("cleanup") /\ Error
     \/ ~Refused /\ Goto("sockets") /\ UNCHANGED err
  /\ UNCHANGED <<main, state, config, socks, conn, drives, procs, app, clock, launches>>

\* The descriptors a launch creates; in direct mode the console is the caller's.
Sockets ==
  LET console == IF direct THEN {} ELSE {"con0", "con1"}
  IN  CASE backend = "direct"  -> {"accept"} \cup console
        [] backend = "uml"     -> {"daemon", "daemon1"} \cup console
        [] backend = "libvirt" -> {"accept", "con0"}
        [] backend = "unix"    -> {"daemon"}

\* Those that are open when creating them fails; launch_uml closes its first pair itself.
Partial ==
  CASE backend = "direct"         -> {{}, {"accept"}}
    [] backend = "libvirt"        -> {{}, {"accept"}, {"accept", "con0"}}
    [] backend \in {"uml", "unix"} -> {{}}

\* The sockets.  launch_unix is LAUNCHING as soon as it has one.
launch_sockets ==
  /\ pc = "sockets"
  /\ \/ /\ Fault("socket") /\ socks' \in Partial /\ Error /\ UNCHANGED state
        /\ (IF backend = "unix" THEN Return("error") ELSE Goto("cleanup"))
     \/ /\ socks' = Sockets /\ UNCHANGED err
        /\ state' = (IF backend = "unix" THEN "LAUNCHING" ELSE state)
        /\ Goto(IF backend = "unix" THEN "connect" ELSE "fork")
  /\ UNCHANGED <<main, config, conn, drives, procs, app, clock, launches>>

\* The hypervisor: fork and exec, or virDomainCreateXML.  A drive whose discard option cannot be
\* honoured is found out while the command line is put together.
launch_fork ==
  /\ pc = "fork"
  /\ \/ /\ Fault("discard") /\ backend = "direct" /\ Goto("cleanup") /\ Error
        /\ UNCHANGED <<state, socks, procs, app>>
     \/ /\ Fault("fork") /\ socks' = (IF backend = "libvirt" THEN socks ELSE socks \ {"con0", "con1", "daemon", "daemon1"})
        /\ Goto("cleanup") /\ Error /\ UNCHANGED <<state, procs, app>>
     \/ /\ hv' = "run" /\ app' = "boot" /\ UNCHANGED <<socks, err, stray, recpid, rec, ppid>>
        /\ IF backend = "libvirt"
           THEN vir' = "local" /\ state' = "LAUNCHING" /\ Goto("connect") /\ UNCHANGED pid
           ELSE pid' = TRUE /\ Goto("recovery") /\ UNCHANGED <<vir, state>>
  /\ UNCHANGED <<main, config, conn, drives, clock, launches>>

\* The fork of the recovery process, whose failure is no error, and the other ends of the pairs.
launch_recovery ==
  /\ pc = "recovery"
  /\ \/ /\ recovery => Fault("recfork")
        /\ recpid' = FALSE /\ UNCHANGED rec
     \/ /\ recovery /\ recpid' = TRUE /\ rec' = "born"
  /\ socks' = socks \ {"con1", "daemon1"} /\ state' = "LAUNCHING" /\ Goto("connect")
  /\ UNCHANGED <<main, config, conn, drives, pid, hv, stray, ppid, vir, app, clock, launches, err>>

\* A new struct connection owns the sockets; launch_libvirt has first waited for qemu to open the console.
new_conn_socket ==
  /\ pc = "connect"
  /\ \/ /\ Fault("connect") /\ Error /\ Goto("cleanup") /\ UNCHANGED <<socks, conn, clock>>
     \/ /\ conn' = socks /\ socks' = {} /\ UNCHANGED err /\ elapsed' = 0 /\ left' = 0
        /\ Goto(IF "accept" \in socks THEN "accept" ELSE "recv")
  /\ UNCHANGED <<main, state, config, drives, procs, app, launches>>

-----------------------------------------------------------------------------
(* Waiting for the appliance *)

\* Mutant: poll without a limit.
Remaining_none == -1

\* What is left of APPLIANCE_TIMEOUT.
Remaining == Timeout - elapsed

\* accept_connection computes how long poll may wait; a negative number is no limit.
accept_poll ==
  /\ pc = "accept" /\ left' = Remaining /\ Goto("poll")
  /\ UNCHANGED <<main, state, config, socks, conn, drives, procs, app, elapsed, launches, err>>

\* Mutant: the listening socket stays open.
accepted_keep == conn' = conn \cup {"daemon"}

accepted == conn' = (conn \ {"accept"}) \cup {"daemon"}

\* Mutant: end of file on the console is reported to nobody.
launch_failed_forgotten == UNCHANGED err

launch_failed == Error

\* What poll comes back with: a console message (and no connection), end of file on the console, a connection, no more time.
accept_connection ==
  /\ pc = "poll"
  /\ \/ /\ "con0" \in conn /\ hv = "run" /\ app = "boot" /\ (LateLogs \/ elapsed < Timeout) /\ Goto("accept") /\ UNCHANGED <<conn, err>>
     \/ /\ "con0" \in conn /\ hv # "run" /\ Goto("cleanup") /\ launch_failed /\ UNCHANGED conn
     \/ /\ app # "boot" /\ accepted /\ Goto("recv") /\ UNCHANGED err
     \/ /\ app # "boot" /\ Fault("accept") /\ accepted /\ Goto("cleanup") /\ Error
     \/ /\ left = 0 /\ Goto("cleanup") /\ Error /\ UNCHANGED conn
  /\ UNCHANGED <<main, state, config, socks, drives, procs, app, clock, launches>>

\* Is the daemon's end of the connection closed: the hypervisor, or the daemon of a unix: backend, is gone.
Closed == backend # "unix" /\ hv # "run"

\* The first message: the launch flag (state is READY, libvirt's objects become the handle's),
\* something else, or end of file, which recv_from_daemon answers with child_cleanup.
launch_recv ==
  /\ pc = "recv"
  /\ \/ /\ app = "up" /\ ~Closed /\ state' = "READY" /\ drives' = (drives \/ backend # "unix") /\ Return("ok") /\ UNCHANGED <<conn, err>>
        /\ vir' = (IF vir = "local" THEN "handle" ELSE vir) /\ UNCHANGED <<pid, recpid, hv, stray, rec, ppid>>
     \/ /\ app = "up" /\ Fault("garbage") /\ Goto("cleanup") /\ launch_failed /\ UNCHANGED <<state, conn, drives, procs>>
     \/ /\ Closed \/ Fault("eof")
        /\ child_cleanup /\ launch_failed /\ Goto("cleanup")
  /\ UNCHANGED <<main, config, socks, app, clock, launches>>

-----------------------------------------------------------------------------
(* The other calls *)

\* A drive is added.
guestfs_add_drive ==
  /\ op = "none" /\ state = "CONFIG" /\ main /\ drives' = TRUE
  /\ UNCHANGED <<main, state, config, op, pc, socks, conn, procs, app, clock, launches, ret, err>>

\* guestfs___set_backend, allowed in the CONFIG state only.
set_backend ==
  /\ op = "none" /\ state = "CONFIG" /\ main /\ backend' \in Backends \ {backend}
  /\ UNCHANGED <<main, state, recovery, direct, op, pc, socks, conn, drives, procs, app, clock, launches, ret, err>>

\* A call of the daemon, internal_autosync at shutdown among them, finds the connection closed.
daemon_call_eof ==
  /\ op = "none" /\ state = "READY" /\ main /\ (Closed \/ Fault("eof"))
  /\ child_cleanup /\ ret' = "error" /\ Error
  /\ UNCHANGED <<main, config, op, pc, socks, app, clock, launches>>

\* shutdown_backend.
shutdown_backend ==
  IF state # "CONFIG" THEN backend_shutdown /\ free_conn_socket /\ drives' = FALSE
  ELSE UNCHANGED <<procs, conn, drives>>

\* guestfs__shutdown.
guestfs_shutdown ==
  /\ op = "none" /\ state # "NO_HANDLE" /\ main
  /\ shutdown_backend /\ state' = "CONFIG"
  /\ \/ ret' = "ok" /\ UNCHANGED err
     \/ ret' = "error" /\ Error /\ Fault("autosync")
  /\ UNCHANGED <<main, config, op, pc, socks, app, clock, launches>>

\* guestfs_close.
guestfs_close ==
  /\ op = "none" /\ state # "NO_HANDLE" /\ main
  /\ shutdown_backend /\ state' = "NO_HANDLE" /\ ret' = "ok"
  /\ UNCHANGED <<main, config, op, pc, socks, app, clock, launches, err>>

-----------------------------------------------------------------------------
(* The other processes, and time *)

\* The recovery process asks for its parent's pid.
recovery_start ==
  /\ rec = "born" /\ rec' = "run" /\ ppid' = (IF main THEN "main" ELSE "init")
  /\ UNCHANGED <<main, state, config, op, pc, socks, conn, drives, pid, recpid, hv, stray, vir, app, clock, launches, ret, err>>

\* Mutant: only a parent that was alive when it was asked for is noticed.
ParentGone_late == ppid = "main" /\ ~main

\* kill (parent_pid, 0) fails: there is no such process, or it belongs to another user.
ParentGone == IF ppid = "main" THEN ~main ELSE ~Root

\* One round of its loop: it ends when the hypervisor has, and kills it when the parent is gone.
recovery_poll ==
  /\ rec = "run" /\ (hv = "none" \/ ParentGone)
  /\ hv' = "none" /\ rec' = (IF main THEN "zombie" ELSE "none")
  /\ UNCHANGED <<main, state, config, op, pc, socks, conn, drives, pid, recpid, stray, ppid, vir, app, clock, launches, ret, err>>

\* The hypervisor exits; a child of the main program waits to be reaped.
hypervisor_exits ==
  /\ hv = "run" /\ hv' = (IF main /\ pid THEN "zombie" ELSE "none")
  /\ UNCHANGED <<main, state, config, op, pc, socks, conn, drives, pid, recpid, stray, rec, ppid, vir, app, clock, launches, ret, err>>

\* The appliance connects and then says that it is up.
appliance_goes_on ==
  /\ (backend = "unix" /\ pc = "recv") \/ hv = "run"
  /\ \/ app = "boot" /\ app' = "connected"
     \/ app = "connected" /\ app' = "up"
  /\ UNCHANGED <<main, state, config, op, pc, socks, conn, drives, procs, clock, launches, ret, err>>

\* Time passes while accept_connection waits; poll returns when its time is over.
tick ==
  /\ (pc = "poll" /\ left # 0) \/ (pc = "accept" /\ LateLogs)
  /\ elapsed' = (IF elapsed > Timeout THEN elapsed ELSE elapsed + 1)
  /\ left' = (IF pc = "poll" /\ left > 0 THEN left - 1 ELSE left)
  /\ UNCHANGED <<main, state, config, op, pc, socks, conn, drives, procs, app, launches, ret, err>>

\* The main program dies: descriptors close, zombies are reaped, libvirt destroys an AUTODESTROY domain.
main_dies ==
  /\ MainDies /\ main /\ main' = FALSE
  /\ op' = "none" /\ pc' = "idle" /\ socks' = {} /\ conn' = {} /\ state' = "NO_HANDLE"
  /\ hv' = (IF hv = "zombie" \/ vir # "none" THEN "none" ELSE hv) /\ rec' = (IF rec = "zombie" THEN "none" ELSE rec)
  /\ vir' = "none" /\ UNCHANGED <<config, drives, pid, recpid, stray, ppid, app, clock, launches, ret, err>>

launch_steps ==
  \/ launch_begin \/ launch_sockets \/ launch_fork \/ launch_recovery \/ new_conn_socket
  \/ accept_poll \/ accept_connection \/ launch_recv \/ cleanup

Next ==
  \/ guestfs_launch \/ launch_steps
  \/ guestfs_add_drive \/ set_backend \/ daemon_call_eof \/ guestfs_shutdown \/ guestfs_close
  \/ recovery_start \/ recovery_poll \/ hypervisor_exits \/ appliance_goes_on \/ tick \/ main_dies

\* Launch goes on; time passes, however often the appliance prints something; an appliance
\* that has connected says that it is up, or dies; the recovery process runs.
Fairness ==
  /\ WF_vars(launch_steps) /\ SF_vars(tick)
  /\ WF_vars((pc = "recv" /\ app # "up") /\ (hypervisor_exits \/ appliance_goes_on))
  /\ WF_vars(recovery_start \/ recovery_poll)

Spec == Init /\ [][Next]_vars /\ Fairness

-----------------------------------------------------------------------------
(* Properties *)

Outside == op = "none" /\ main

\* Between two calls the launch function's sockets are closed, and a handle that is not launched has no
\* connection, on whichever path launch failed or the handle was shut down.
NoDescriptorLeft == Outside => socks = {} /\ (state \in {"CONFIG", "NO_HANDLE"} => conn = {})

\* After a failed launch, a shutdown or the loss of the connection neither the hypervisor nor the recovery
\* process is left, running or unreaped; shutdown_direct alone, without a recovery process, does not wait.
NoProcessLeft ==
  Outside /\ state \in {"CONFIG", "NO_HANDLE"} =>
    hv = "none" /\ rec = "none" /\ vir = "none" /\ (stray # "none" => stray = "direct" /\ ~recovery)

\* The handle is READY only with a connection to a daemon that has said it is up.
ReadyMeansConnected == state = "READY" => conn \cap {"daemon", "accept"} = {"daemon"} /\ app = "up"

\* Launch fails with an error message on every path.
LaunchErrorIsSet == ret = "error" => err

\* LAUNCHING is the state of a handle while launch runs, and no longer.
LaunchingDuringLaunch == Outside => state # "LAUNCHING"

\* launch is all or nothing: a READY handle has its connection, and a failure has set the error.  A failed
\* launch leaves nothing, unless its backend is launch_unix, which leaves the state, or it failed with a drive
\* whose discard option cannot be honoured, where launch_direct leaves its sockets (README.md, "Known
\* divergences").
LaunchAllOrNothing ==
  /\ TypeOK /\ ReadyMeansConnected /\ LaunchErrorIsSet
  /\ "discard" \notin Faults => NoDescriptorLeft
  /\ "unix" \notin Backends => NoProcessLeft /\ LaunchingDuringLaunch

\* Every launch returns: accept_connection gives up after APPLIANCE_TIMEOUT.
LaunchReturns == (op = "launch") ~> (op = "none")

\* A hypervisor whose main program has died is killed by its recovery process.
RecoveryKills == (~main /\ rec # "none") ~> hv # "run"
=============================================================================
