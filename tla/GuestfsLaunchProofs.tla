------------------------ MODULE GuestfsLaunchProofs ------------------------
(***************************************************************************)
(* Proofs about GuestfsLaunch for any backends, options, faults, timeouts  *)
(* and numbers of launches: a launch is all or nothing.  The inductive     *)
(* invariant says at every step of the launch which state the handle is    *)
(* in, which processes there are and whose, and who holds the descriptors. *)
(***************************************************************************)
EXTENDS GuestfsLaunch, TLAPS

Constants == LaunchBounds /\ LaunchOptions

\* The state of the handle follows the launch; a program that has died has no handle.
StateInv ==
  /\ op \in {"none", "launch"} /\ (op = "none" <=> pc = "idle")
  /\ ~main => state = "NO_HANDLE" /\ pc = "idle"
  /\ state = "NO_HANDLE" => pc = "idle"
  /\ pc \in {"begin", "sockets", "fork", "recovery"} => state = "CONFIG"
  /\ pc \in {"connect", "accept", "poll", "recv"} => state = "LAUNCHING"
  /\ pc = "cleanup" => state \in {"CONFIG", "LAUNCHING"}
  /\ "unix" \notin Backends /\ pc = "idle" => state # "LAUNCHING"

\* While the program lives it has a hypervisor only as its child or as a domain of libvirt, and a
\* recovery process only beside a child, and both only from the fork until the cleanup or in state READY.
ProcInv ==
  main =>
    /\ pid => backend \in {"direct", "uml"} /\ vir = "none" /\ hv \in {"run", "zombie"}
    /\ ~pid /\ vir = "none" => hv = "none"
    /\ vir # "none" => backend = "libvirt"
    /\ recpid => pid
    /\ recpid <=> rec # "none"
    /\ ppid = "main"
    /\ pid => pc \in {"recovery", "connect", "accept", "poll", "recv", "cleanup"} \/ state = "READY"
    /\ pc = "recovery" => pid /\ ~recpid
    /\ pc \in {"fork", "recovery"} => backend # "unix"
    /\ vir = "local" => pc \in {"connect", "accept", "poll", "recv", "cleanup"}
    /\ vir = "handle" => state = "READY"
    /\ stray # "none" => stray = "direct" /\ ~recovery

\* The descriptors belong to the variables of the launch function until g->conn takes them over.
ConnInv ==
  /\ pc \in {"begin", "sockets", "fork", "recovery", "connect"} => conn = {}
  /\ pc = "idle" /\ state # "READY" => conn = {}
  /\ pc \in {"fork", "recovery", "connect"} => ("accept" \in socks <=> "daemon" \notin socks)
  /\ pc = "recv" \/ state = "READY" => "daemon" \in conn /\ "accept" \notin conn

\* The second ends of the pairs are closed in time, so that the cleanup closes everything.
SocksInv ==
  "discard" \notin Faults =>
    /\ pc \in {"idle", "begin", "sockets", "accept", "poll", "recv"} => socks = {}
    /\ pc \in {"connect", "cleanup"} \/ (pc = "fork" /\ backend = "libvirt") => "con1" \notin socks

\* The cleanup follows an error; a READY handle has heard from its appliance.
ErrInv ==
  /\ pc = "cleanup" \/ ret = "error" => err
  /\ state = "READY" => app = "up"

IInv == TypeOK /\ StateInv /\ ProcInv /\ ConnInv /\ SocksInv /\ ErrInv

-----------------------------------------------------------------------------

\* The invariant holds for a handle that guestfs_create has just returned.
LEMMA InitIInv == ASSUME Constants, Init PROVE IInv
  <1> USE DEF Constants, LaunchBounds, LaunchOptions, Init
  <1>a. recovery \in BOOLEAN /\ direct \in BOOLEAN
    OBVIOUS
  <1>b. elapsed \in 0..Timeout + 1 /\ left \in -1..Timeout /\ launches \in 0..MaxLaunches
    OBVIOUS
  <1>1. TypeOK
    BY <1>a, <1>b, Zenon DEF TypeOK
  <1>2. StateInv /\ ProcInv /\ ConnInv /\ SocksInv /\ ErrInv
    BY DEF StateInv, ProcInv, ConnInv, SocksInv, ErrInv
  <1> QED BY <1>1, <1>2 DEF IInv

\* The invariant says that a launch is all or nothing.
LEMMA IInvAllOrNothing == ASSUME Constants, IInv PROVE LaunchAllOrNothing
  <1> USE DEF IInv, StateInv
  <1>1. ReadyMeansConnected /\ LaunchErrorIsSet
    BY DEF ConnInv, ErrInv, ReadyMeansConnected, LaunchErrorIsSet
  <1>2. "discard" \notin Faults => NoDescriptorLeft
    BY DEF ConnInv, SocksInv, NoDescriptorLeft, Outside
  <1>3. "unix" \notin Backends => NoProcessLeft /\ LaunchingDuringLaunch
    BY DEF TypeOK, ProcInv, NoProcessLeft, LaunchingDuringLaunch, Outside
  <1> QED BY <1>1, <1>2, <1>3 DEF LaunchAllOrNothing

\* guestfs_launch up to the call of the backend.
LEMMA GuestfsLaunchIInv == ASSUME Constants, IInv, guestfs_launch PROVE IInv'
  <1> USE DEF Constants, LaunchBounds, LaunchOptions, IInv, guestfs_launch, Return, Error, Fault, procs, clock, config
  <1>a. /\ main' \in BOOLEAN /\ recovery' \in BOOLEAN /\ direct' \in BOOLEAN /\ drives' \in BOOLEAN
        /\ pid' \in BOOLEAN /\ recpid' \in BOOLEAN /\ err' \in BOOLEAN
    BY Zenon DEF TypeOK
  <1>b. elapsed' \in 0..Timeout + 1 /\ left' \in -1..Timeout /\ launches' \in 0..MaxLaunches
    BY DEF TypeOK
  <1>c. socks' \subseteq Fds /\ conn' \subseteq Fds
    BY DEF TypeOK, Fds
  <1>1. TypeOK'
    BY <1>a, <1>b, <1>c DEF TypeOK
  <1>2. StateInv'
    BY DEF TypeOK, StateInv
  <1>3. ProcInv'
    BY DEF TypeOK, StateInv, ProcInv
  <1>4. ConnInv'
    BY DEF TypeOK, StateInv, ConnInv
  <1>5. SocksInv'
    BY DEF TypeOK, StateInv, SocksInv
  <1>6. ErrInv'
    BY DEF TypeOK, StateInv, ErrInv
  <1> QED BY <1>1, <1>2, <1>3, <1>4, <1>5, <1>6

\* The tests of the backend before anything is created.
LEMMA LaunchBeginIInv == ASSUME Constants, IInv, launch_begin PROVE IInv'
  <1> USE DEF Constants, LaunchBounds, LaunchOptions, IInv, launch_begin, Return, Goto, Error, procs, clock, config
  <1>a. /\ main' \in BOOLEAN /\ recovery' \in BOOLEAN /\ direct' \in BOOLEAN /\ drives' \in BOOLEAN
        /\ pid' \in BOOLEAN /\ recpid' \in BOOLEAN /\ err' \in BOOLEAN
    BY Zenon DEF TypeOK
  <1>b. elapsed' \in 0..Timeout + 1 /\ left' \in -1..Timeout /\ launches' \in 0..MaxLaunches
    BY DEF TypeOK
  <1>c. socks' \subseteq Fds /\ conn' \subseteq Fds
    BY DEF TypeOK, Fds
  <1>1. TypeOK'
    BY <1>a, <1>b, <1>c DEF TypeOK
  <1>2. StateInv'
    BY DEF TypeOK, StateInv
  <1>3. ProcInv'
    BY DEF TypeOK, StateInv, ProcInv
  <1>4. ConnInv'
    BY DEF TypeOK, StateInv, ConnInv
  <1>5. SocksInv'
    BY DEF TypeOK, StateInv, SocksInv
  <1>6. ErrInv'
    BY DEF TypeOK, StateInv, ErrInv
  <1> QED BY <1>1, <1>2, <1>3, <1>4, <1>5, <1>6

\* The sockets, all of them or those that were open when one failed.
LEMMA LaunchSocketsIInv == ASSUME Constants, IInv, launch_sockets PROVE IInv'
  <1> USE DEF Constants, LaunchBounds, LaunchOptions, IInv, launch_sockets, Sockets, Partial, Fds, Return, Goto, Error, procs, clock, config
  <1>a. /\ main' \in BOOLEAN /\ recovery' \in BOOLEAN /\ direct' \in BOOLEAN /\ drives' \in BOOLEAN
        /\ pid' \in BOOLEAN /\ recpid' \in BOOLEAN /\ err' \in BOOLEAN
    BY Zenon DEF TypeOK
  <1>b. elapsed' \in 0..Timeout + 1 /\ left' \in -1..Timeout /\ launches' \in 0..MaxLaunches
    BY DEF TypeOK
  <1>c. socks' \subseteq Fds /\ conn' \subseteq Fds
    BY DEF TypeOK, Fds
  <1>1. TypeOK'
    BY <1>a, <1>b, <1>c DEF TypeOK
  <1>2. StateInv'
    BY DEF TypeOK, StateInv
  <1>3. ProcInv'
    BY DEF TypeOK, StateInv, ProcInv
  <1>4. ConnInv'
    BY DEF TypeOK, StateInv, ConnInv
  <1>5. SocksInv'
    BY DEF TypeOK, StateInv, SocksInv
  <1>6. ErrInv'
    BY DEF TypeOK, StateInv, ErrInv
  <1> QED BY <1>1, <1>2, <1>3, <1>4, <1>5, <1>6

\* The hypervisor, or the paths on which it is not created.
LEMMA LaunchForkIInv == ASSUME Constants, IInv, launch_fork PROVE IInv'
  <1> USE DEF Constants, LaunchBounds, LaunchOptions, IInv, launch_fork, Fault, Goto, Error, procs, clock, config
  <1>a. /\ main' \in BOOLEAN /\ recovery' \in BOOLEAN /\ direct' \in BOOLEAN /\ drives' \in BOOLEAN
        /\ pid' \in BOOLEAN /\ recpid' \in BOOLEAN /\ err' \in BOOLEAN
    BY Zenon DEF TypeOK
  <1>b. elapsed' \in 0..Timeout + 1 /\ left' \in -1..Timeout /\ launches' \in 0..MaxLaunches
    BY DEF TypeOK
  <1>c. socks' \subseteq Fds /\ conn' \subseteq Fds
    BY Zenon DEF TypeOK, Fds
  <1>1. TypeOK'
    BY <1>a, <1>b, <1>c DEF TypeOK
  <1>2. StateInv'
    BY DEF TypeOK, StateInv
  <1>3. ProcInv'
    BY DEF TypeOK, StateInv, ProcInv
  <1>4. ConnInv'
    BY DEF TypeOK, StateInv, ConnInv
  <1>5. SocksInv'
    BY DEF TypeOK, StateInv, SocksInv
  <1>6. ErrInv'
    BY DEF TypeOK, StateInv, ErrInv
  <1> QED BY <1>1, <1>2, <1>3, <1>4, <1>5, <1>6

\* The recovery process.
LEMMA LaunchRecoveryIInv == ASSUME Constants, IInv, launch_recovery PROVE IInv'
  <1> USE DEF Constants, LaunchBounds, LaunchOptions, IInv, launch_recovery, Fault, Goto, procs, clock, config
  <1>a. /\ main' \in BOOLEAN /\ recovery' \in BOOLEAN /\ direct' \in BOOLEAN /\ drives' \in BOOLEAN
        /\ pid' \in BOOLEAN /\ recpid' \in BOOLEAN /\ err' \in BOOLEAN
    BY Zenon DEF TypeOK
  <1>b. elapsed' \in 0..Timeout + 1 /\ left' \in -1..Timeout /\ launches' \in 0..MaxLaunches
    BY DEF TypeOK
  <1>c. socks' \subseteq Fds /\ conn' \subseteq Fds
    BY DEF TypeOK, Fds
  <1>1. TypeOK'
    BY <1>a, <1>b, <1>c DEF TypeOK
  <1>2. StateInv'
    BY DEF TypeOK, StateInv
  <1>3. ProcInv'
    BY DEF TypeOK, StateInv, ProcInv
  <1>4. ConnInv'
    BY DEF TypeOK, StateInv, ConnInv
  <1>5. SocksInv'
    BY DEF TypeOK, StateInv, SocksInv
  <1>6. ErrInv'
    BY DEF TypeOK, StateInv, ErrInv
  <1> QED BY <1>1, <1>2, <1>3, <1>4, <1>5, <1>6

\* The connection takes the sockets over.
LEMMA NewConnSocketIInv == ASSUME Constants, IInv, new_conn_socket PROVE IInv'
  <1> USE DEF Constants, LaunchBounds, LaunchOptions, IInv, new_conn_socket, Goto, Error, procs, clock, config
  <1>a. /\ main' \in BOOLEAN /\ recovery' \in BOOLEAN /\ direct' \in BOOLEAN /\ drives' \in BOOLEAN
        /\ pid' \in BOOLEAN /\ recpid' \in BOOLEAN /\ err' \in BOOLEAN
    BY Zenon DEF TypeOK
  <1>b. elapsed' \in 0..Timeout + 1 /\ left' \in -1..Timeout /\ launches' \in 0..MaxLaunches
    BY DEF TypeOK
  <1>c. socks' \subseteq Fds /\ conn' \subseteq Fds
    BY Zenon DEF TypeOK, Fds
  <1>1. TypeOK'
    BY <1>a, <1>b, <1>c DEF TypeOK
  <1>2. StateInv'
    BY DEF TypeOK, StateInv
  <1>3. ProcInv'
    BY DEF TypeOK, StateInv, ProcInv
  <1>4. ConnInv'
    BY DEF TypeOK, StateInv, ConnInv
  <1>5. SocksInv'
    BY DEF TypeOK, StateInv, SocksInv
  <1>6. ErrInv'
    BY DEF TypeOK, StateInv, ErrInv
  <1> QED BY <1>1, <1>2, <1>3, <1>4, <1>5, <1>6

\* accept_connection computes its timeout.
LEMMA AcceptPollIInv == ASSUME Constants, IInv, accept_poll PROVE IInv'
  <1> USE DEF Constants, LaunchBounds, LaunchOptions, IInv, accept_poll, Remaining, Goto, procs, clock, config
  <1>a. /\ main' \in BOOLEAN /\ recovery' \in BOOLEAN /\ direct' \in BOOLEAN /\ drives' \in BOOLEAN
        /\ pid' \in BOOLEAN /\ recpid' \in BOOLEAN /\ err' \in BOOLEAN
    BY DEF TypeOK
  <1>b. elapsed' \in 0..Timeout + 1 /\ left' \in -1..Timeout /\ launches' \in 0..MaxLaunches
    BY DEF TypeOK
  <1>c. socks' \subseteq Fds /\ conn' \subseteq Fds
    BY DEF TypeOK, Fds
  <1>1. TypeOK'
    BY <1>a, <1>b, <1>c DEF TypeOK
  <1>2. StateInv'
    BY DEF TypeOK, StateInv
  <1>3. ProcInv'
    BY DEF TypeOK, StateInv, ProcInv
  <1>4. ConnInv'
    BY DEF TypeOK, StateInv, ConnInv
  <1>5. SocksInv'
    BY DEF TypeOK, StateInv, SocksInv
  <1>6. ErrInv'
    BY DEF TypeOK, StateInv, ErrInv
  <1> QED BY <1>1, <1>2, <1>3, <1>4, <1>5, <1>6

\* What poll comes back with.
LEMMA AcceptConnectionIInv == ASSUME Constants, IInv, accept_connection PROVE IInv'
  <1> USE DEF Constants, LaunchBounds, LaunchOptions, IInv, accept_connection, Fds, accepted, launch_failed, Goto, Error, procs, clock, config
  <1>a. /\ main' \in BOOLEAN /\ recovery' \in BOOLEAN /\ direct' \in BOOLEAN /\ drives' \in BOOLEAN
        /\ pid' \in BOOLEAN /\ recpid' \in BOOLEAN /\ err' \in BOOLEAN
    BY Zenon DEF TypeOK
  <1>b. elapsed' \in 0..Timeout + 1 /\ left' \in -1..Timeout /\ launches' \in 0..MaxLaunches
    BY DEF TypeOK
  <1>c. socks' \subseteq Fds /\ conn' \subseteq Fds
    BY Zenon DEF TypeOK, Fds
  <1>1. TypeOK'
    BY <1>a, <1>b, <1>c DEF TypeOK
  <1>2. StateInv'
    BY DEF TypeOK, StateInv
  <1>3. ProcInv'
    BY DEF TypeOK, StateInv, ProcInv
  <1>4. ConnInv'
    BY DEF TypeOK, StateInv, ConnInv
  <1>5. SocksInv'
    BY DEF TypeOK, StateInv, SocksInv
  <1>6. ErrInv'
    BY DEF TypeOK, StateInv, ErrInv
  <1> QED BY <1>1, <1>2, <1>3, <1>4, <1>5, <1>6

\* The first message of the daemon, or end of file.
LEMMA LaunchRecvIInv == ASSUME Constants, IInv, launch_recv PROVE IInv'
  <1> USE DEF Constants, LaunchBounds, LaunchOptions, IInv, launch_recv, Closed, Return, Goto, Error, launch_failed, child_cleanup, backend_shutdown, Waits, free_conn_socket, procs, clock, config
  <1>a. /\ main' \in BOOLEAN /\ recovery' \in BOOLEAN /\ direct' \in BOOLEAN /\ drives' \in BOOLEAN
        /\ pid' \in BOOLEAN /\ recpid' \in BOOLEAN /\ err' \in BOOLEAN
    BY Zenon DEF TypeOK
  <1>b. elapsed' \in 0..Timeout + 1 /\ left' \in -1..Timeout /\ launches' \in 0..MaxLaunches
    BY DEF TypeOK
  <1>c. socks' \subseteq Fds /\ conn' \subseteq Fds
    BY Zenon DEF TypeOK, Fds
  <1>1. TypeOK'
    BY <1>a, <1>b, <1>c DEF TypeOK
  <1>2. StateInv'
    BY DEF TypeOK, StateInv
  <1>3. ProcInv'
    BY DEF TypeOK, StateInv, ProcInv
  <1>4. ConnInv'
    BY DEF TypeOK, StateInv, ConnInv
  <1>5. SocksInv'
    BY DEF TypeOK, StateInv, SocksInv
  <1>6. ErrInv'
    BY DEF TypeOK, StateInv, ErrInv
  <1> QED BY <1>1, <1>2, <1>3, <1>4, <1>5, <1>6

\* The cleanup of a launch that has failed.
LEMMA CleanupIInv == ASSUME Constants, IInv, cleanup PROVE IInv'
  <1> USE DEF Constants, LaunchBounds, LaunchOptions, IInv, cleanup, kill_children, close_sockets, free_conn_socket, StateAfterCleanup, Return, procs, clock, config
  <1>a. /\ main' \in BOOLEAN /\ recovery' \in BOOLEAN /\ direct' \in BOOLEAN /\ drives' \in BOOLEAN
        /\ pid' \in BOOLEAN /\ recpid' \in BOOLEAN /\ err' \in BOOLEAN
    BY Zenon DEF TypeOK
  <1>b. elapsed' \in 0..Timeout + 1 /\ left' \in -1..Timeout /\ launches' \in 0..MaxLaunches
    BY DEF TypeOK
  <1>c. socks' \subseteq Fds /\ conn' \subseteq Fds
    BY DEF TypeOK, Fds
  <1>1. TypeOK'
    BY <1>a, <1>b, <1>c DEF TypeOK
  <1>2. StateInv'
    BY DEF TypeOK, StateInv
  <1>3. ProcInv'
    BY DEF TypeOK, StateInv, ProcInv
  <1>4. ConnInv'
    BY DEF TypeOK, StateInv, ConnInv
  <1>5. SocksInv'
    BY DEF TypeOK, StateInv, SocksInv
  <1>6. ErrInv'
    BY DEF TypeOK, StateInv, ErrInv
  <1> QED BY <1>1, <1>2, <1>3, <1>4, <1>5, <1>6

\* A drive is added.
LEMMA AddDriveIInv == ASSUME Constants, IInv, guestfs_add_drive PROVE IInv'
  <1> USE DEF Constants, LaunchBounds, LaunchOptions, IInv, guestfs_add_drive, procs, clock, config
  <1>a. /\ main' \in BOOLEAN /\ recovery' \in BOOLEAN /\ direct' \in BOOLEAN /\ drives' \in BOOLEAN
        /\ pid' \in BOOLEAN /\ recpid' \in BOOLEAN /\ err' \in BOOLEAN
    BY DEF TypeOK
  <1>b. elapsed' \in 0..Timeout + 1 /\ left' \in -1..Timeout /\ launches' \in 0..MaxLaunches
    BY DEF TypeOK
  <1>c. socks' \subseteq Fds /\ conn' \subseteq Fds
    BY DEF TypeOK, Fds
  <1>1. TypeOK'
    BY <1>a, <1>b, <1>c DEF TypeOK
  <1>2. StateInv'
    BY DEF TypeOK, StateInv
  <1>3. ProcInv'
    BY DEF TypeOK, StateInv, ProcInv
  <1>4. ConnInv'
    BY DEF TypeOK, StateInv, ConnInv
  <1>5. SocksInv'
    BY DEF TypeOK, StateInv, SocksInv
  <1>6. ErrInv'
    BY DEF TypeOK, StateInv, ErrInv
  <1> QED BY <1>1, <1>2, <1>3, <1>4, <1>5, <1>6

\* The backend is changed, which only a handle in state CONFIG allows.
LEMMA SetBackendIInv == ASSUME Constants, IInv, set_backend PROVE IInv'
  <1> USE DEF Constants, LaunchBounds, LaunchOptions, IInv, set_backend, procs, clock, config
  <1>a. /\ main' \in BOOLEAN /\ recovery' \in BOOLEAN /\ direct' \in BOOLEAN /\ drives' \in BOOLEAN
        /\ pid' \in BOOLEAN /\ recpid' \in BOOLEAN /\ err' \in BOOLEAN
    BY DEF TypeOK
  <1>b. elapsed' \in 0..Timeout + 1 /\ left' \in -1..Timeout /\ launches' \in 0..MaxLaunches
    BY DEF TypeOK
  <1>c. socks' \subseteq Fds /\ conn' \subseteq Fds
    BY DEF TypeOK, Fds
  <1>1. TypeOK'
    BY <1>a, <1>b, <1>c DEF TypeOK
  <1>2. StateInv'
    BY DEF TypeOK, StateInv
  <1>3. ProcInv'
    BY DEF TypeOK, StateInv, ProcInv
  <1>4. ConnInv'
    BY DEF TypeOK, StateInv, ConnInv
  <1>5. SocksInv'
    BY DEF TypeOK, StateInv, SocksInv
  <1>6. ErrInv'
    BY DEF TypeOK, StateInv, ErrInv
  <1> QED BY <1>1, <1>2, <1>3, <1>4, <1>5, <1>6

\* A call of the daemon finds the connection closed.
LEMMA DaemonCallEofIInv == ASSUME Constants, IInv, daemon_call_eof PROVE IInv'
  <1> USE DEF Constants, LaunchBounds, LaunchOptions, IInv, daemon_call_eof, Closed, Error, child_cleanup, backend_shutdown, Waits, free_conn_socket, procs, clock, config
  <1>a. /\ main' \in BOOLEAN /\ recovery' \in BOOLEAN /\ direct' \in BOOLEAN /\ drives' \in BOOLEAN
        /\ pid' \in BOOLEAN /\ recpid' \in BOOLEAN /\ err' \in BOOLEAN
    BY Zenon DEF TypeOK
  <1>b. elapsed' \in 0..Timeout + 1 /\ left' \in -1..Timeout /\ launches' \in 0..MaxLaunches
    BY DEF TypeOK
  <1>c. socks' \subseteq Fds /\ conn' \subseteq Fds
    BY DEF TypeOK, Fds
  <1>1. TypeOK'
    BY <1>a, <1>b, <1>c DEF TypeOK
  <1>2. StateInv'
    BY DEF TypeOK, StateInv
  <1>3. ProcInv'
    BY DEF TypeOK, StateInv, ProcInv
  <1>4. ConnInv'
    BY DEF TypeOK, StateInv, ConnInv
  <1>5. SocksInv'
    BY DEF TypeOK, StateInv, SocksInv
  <1>6. ErrInv'
    BY DEF TypeOK, StateInv, ErrInv
  <1> QED BY <1>1, <1>2, <1>3, <1>4, <1>5, <1>6

\* guestfs_shutdown.
LEMMA GuestfsShutdownIInv == ASSUME Constants, IInv, guestfs_shutdown PROVE IInv'
  <1> USE DEF Constants, LaunchBounds, LaunchOptions, IInv, guestfs_shutdown, Error, shutdown_backend, backend_shutdown, Waits, free_conn_socket, procs, clock, config
  <1>a. /\ main' \in BOOLEAN /\ recovery' \in BOOLEAN /\ direct' \in BOOLEAN /\ drives' \in BOOLEAN
        /\ pid' \in BOOLEAN /\ recpid' \in BOOLEAN /\ err' \in BOOLEAN
    BY Zenon DEF TypeOK
  <1>b. elapsed' \in 0..Timeout + 1 /\ left' \in -1..Timeout /\ launches' \in 0..MaxLaunches
    BY DEF TypeOK
  <1>c. socks' \subseteq Fds /\ conn' \subseteq Fds
    BY Zenon DEF TypeOK, Fds
  <1>1. TypeOK'
    BY <1>a, <1>b, <1>c DEF TypeOK
  <1>2. StateInv'
    BY DEF TypeOK, StateInv
  <1>3. ProcInv'
    BY DEF TypeOK, StateInv, ProcInv
  <1>4. ConnInv'
    BY DEF TypeOK, StateInv, ConnInv
  <1>5. SocksInv'
    BY DEF TypeOK, StateInv, SocksInv
  <1>6. ErrInv'
    BY DEF TypeOK, StateInv, ErrInv
  <1> QED BY <1>1, <1>2, <1>3, <1>4, <1>5, <1>6

\* guestfs_close.
LEMMA GuestfsCloseIInv == ASSUME Constants, IInv, guestfs_close PROVE IInv'
  <1> USE DEF Constants, LaunchBounds, LaunchOptions, IInv, guestfs_close, shutdown_backend, backend_shutdown, Waits, free_conn_socket, procs, clock, config
  <1>a. /\ main' \in BOOLEAN /\ recovery' \in BOOLEAN /\ direct' \in BOOLEAN /\ drives' \in BOOLEAN
        /\ pid' \in BOOLEAN /\ recpid' \in BOOLEAN /\ err' \in BOOLEAN
    BY Zenon DEF TypeOK
  <1>b. elapsed' \in 0..Timeout + 1 /\ left' \in -1..Timeout /\ launches' \in 0..MaxLaunches
    BY DEF TypeOK
  <1>c. socks' \subseteq Fds /\ conn' \subseteq Fds
    BY Zenon DEF TypeOK, Fds
  <1>1. TypeOK'
    BY <1>a, <1>b, <1>c DEF TypeOK
  <1>2. StateInv'
    BY DEF TypeOK, StateInv
  <1>3. ProcInv'
    BY DEF TypeOK, StateInv, ProcInv
  <1>4. ConnInv'
    BY DEF TypeOK, StateInv, ConnInv
  <1>5. SocksInv'
    BY DEF TypeOK, StateInv, SocksInv
  <1>6. ErrInv'
    BY DEF TypeOK, StateInv, ErrInv
  <1> QED BY <1>1, <1>2, <1>3, <1>4, <1>5, <1>6

\* The recovery process starts.
LEMMA RecoveryStartIInv == ASSUME Constants, IInv, recovery_start PROVE IInv'
  <1> USE DEF Constants, LaunchBounds, LaunchOptions, IInv, recovery_start, procs, clock, config
  <1>a. /\ main' \in BOOLEAN /\ recovery' \in BOOLEAN /\ direct' \in BOOLEAN /\ drives' \in BOOLEAN
        /\ pid' \in BOOLEAN /\ recpid' \in BOOLEAN /\ err' \in BOOLEAN
    BY DEF TypeOK
  <1>b. elapsed' \in 0..Timeout + 1 /\ left' \in -1..Timeout /\ launches' \in 0..MaxLaunches
    BY DEF TypeOK
  <1>c. socks' \subseteq Fds /\ conn' \subseteq Fds
    BY DEF TypeOK, Fds
  <1>1. TypeOK'
    BY <1>a, <1>b, <1>c DEF TypeOK
  <1>2. StateInv'
    BY DEF TypeOK, StateInv
  <1>3. ProcInv'
    BY DEF TypeOK, StateInv, ProcInv
  <1>4. ConnInv'
    BY DEF TypeOK, StateInv, ConnInv
  <1>5. SocksInv'
    BY DEF TypeOK, StateInv, SocksInv
  <1>6. ErrInv'
    BY DEF TypeOK, StateInv, ErrInv
  <1> QED BY <1>1, <1>2, <1>3, <1>4, <1>5, <1>6

\* A round of the recovery process.
LEMMA RecoveryPollIInv == ASSUME Constants, IInv, recovery_poll PROVE IInv'
  <1> USE DEF Constants, LaunchBounds, LaunchOptions, IInv, recovery_poll, ParentGone, procs, clock, config
  <1>a. /\ main' \in BOOLEAN /\ recovery' \in BOOLEAN /\ direct' \in BOOLEAN /\ drives' \in BOOLEAN
        /\ pid' \in BOOLEAN /\ recpid' \in BOOLEAN /\ err' \in BOOLEAN
    BY DEF TypeOK
  <1>b. elapsed' \in 0..Timeout + 1 /\ left' \in -1..Timeout /\ launches' \in 0..MaxLaunches
    BY DEF TypeOK
  <1>c. socks' \subseteq Fds /\ conn' \subseteq Fds
    BY DEF TypeOK, Fds
  <1>1. TypeOK'
    BY <1>a, <1>b, <1>c DEF TypeOK
  <1>2. StateInv'
    BY DEF TypeOK, StateInv
  <1>3. ProcInv'
    BY DEF TypeOK, StateInv, ProcInv
  <1>4. ConnInv'
    BY DEF TypeOK, StateInv, ConnInv
  <1>5. SocksInv'
    BY DEF TypeOK, StateInv, SocksInv
  <1>6. ErrInv'
    BY DEF TypeOK, StateInv, ErrInv
  <1> QED BY <1>1, <1>2, <1>3, <1>4, <1>5, <1>6

\* The hypervisor exits.
LEMMA HypervisorExitsIInv == ASSUME Constants, IInv, hypervisor_exits PROVE IInv'
  <1> USE DEF Constants, LaunchBounds, LaunchOptions, IInv, hypervisor_exits, procs, clock, config
  <1>a. /\ main' \in BOOLEAN /\ recovery' \in BOOLEAN /\ direct' \in BOOLEAN /\ drives' \in BOOLEAN
        /\ pid' \in BOOLEAN /\ recpid' \in BOOLEAN /\ err' \in BOOLEAN
    BY DEF TypeOK
  <1>b. elapsed' \in 0..Timeout + 1 /\ left' \in -1..Timeout /\ launches' \in 0..MaxLaunches
    BY DEF TypeOK
  <1>c. socks' \subseteq Fds /\ conn' \subseteq Fds
    BY DEF TypeOK, Fds
  <1>1. TypeOK'
    BY <1>a, <1>b, <1>c DEF TypeOK
  <1>2. StateInv'
    BY DEF TypeOK, StateInv
  <1>3. ProcInv'
    BY DEF TypeOK, StateInv, ProcInv
  <1>4. ConnInv'
    BY DEF TypeOK, StateInv, ConnInv
  <1>5. SocksInv'
    BY DEF TypeOK, StateInv, SocksInv
  <1>6. ErrInv'
    BY DEF TypeOK, StateInv, ErrInv
  <1> QED BY <1>1, <1>2, <1>3, <1>4, <1>5, <1>6

\* The appliance connects, and says that it is up.
LEMMA ApplianceGoesOnIInv == ASSUME Constants, IInv, appliance_goes_on PROVE IInv'
  <1> USE DEF Constants, LaunchBounds, LaunchOptions, IInv, appliance_goes_on, procs, clock, config
  <1>a. /\ main' \in BOOLEAN /\ recovery' \in BOOLEAN /\ direct' \in BOOLEAN /\ drives' \in BOOLEAN
        /\ pid' \in BOOLEAN /\ recpid' \in BOOLEAN /\ err' \in BOOLEAN
    BY DEF TypeOK
  <1>b. elapsed' \in 0..Timeout + 1 /\ left' \in -1..Timeout /\ launches' \in 0..MaxLaunches
    BY DEF TypeOK
  <1>c. socks' \subseteq Fds /\ conn' \subseteq Fds
    BY DEF TypeOK, Fds
  <1>1. TypeOK'
    BY <1>a, <1>b, <1>c DEF TypeOK
  <1>2. StateInv'
    BY DEF TypeOK, StateInv
  <1>3. ProcInv'
    BY DEF TypeOK, StateInv, ProcInv
  <1>4. ConnInv'
    BY DEF TypeOK, StateInv, ConnInv
  <1>5. SocksInv'
    BY DEF TypeOK, StateInv, SocksInv
  <1>6. ErrInv'
    BY DEF TypeOK, StateInv, ErrInv
  <1> QED BY <1>1, <1>2, <1>3, <1>4, <1>5, <1>6

\* Time passes.
LEMMA TickIInv == ASSUME Constants, IInv, tick PROVE IInv'
  <1> USE DEF Constants, LaunchBounds, LaunchOptions, IInv, tick, procs, clock, config
  <1>a. /\ main' \in BOOLEAN /\ recovery' \in BOOLEAN /\ direct' \in BOOLEAN /\ drives' \in BOOLEAN
        /\ pid' \in BOOLEAN /\ recpid' \in BOOLEAN /\ err' \in BOOLEAN
    BY DEF TypeOK
  <1>b. elapsed' \in 0..Timeout + 1 /\ left' \in -1..Timeout /\ launches' \in 0..MaxLaunches
    BY DEF TypeOK
  <1>c. socks' \subseteq Fds /\ conn' \subseteq Fds
    BY DEF TypeOK, Fds
  <1>1. TypeOK'
    BY <1>a, <1>b, <1>c DEF TypeOK
  <1>2. StateInv'
    BY DEF TypeOK, StateInv
  <1>3. ProcInv'
    BY DEF TypeOK, StateInv, ProcInv
  <1>4. ConnInv'
    BY DEF TypeOK, StateInv, ConnInv
  <1>5. SocksInv'
    BY DEF TypeOK, StateInv, SocksInv
  <1>6. ErrInv'
    BY DEF TypeOK, StateInv, ErrInv
  <1> QED BY <1>1, <1>2, <1>3, <1>4, <1>5, <1>6

\* The main program dies.
LEMMA MainDiesIInv == ASSUME Constants, IInv, main_dies PROVE IInv'
  <1> USE DEF Constants, LaunchBounds, LaunchOptions, IInv, main_dies, procs, clock, config
  <1>a. /\ main' \in BOOLEAN /\ recovery' \in BOOLEAN /\ direct' \in BOOLEAN /\ drives' \in BOOLEAN
        /\ pid' \in BOOLEAN /\ recpid' \in BOOLEAN /\ err' \in BOOLEAN
    BY Zenon DEF TypeOK
  <1>b. elapsed' \in 0..Timeout + 1 /\ left' \in -1..Timeout /\ launches' \in 0..MaxLaunches
    BY DEF TypeOK
  <1>c. socks' \subseteq Fds /\ conn' \subseteq Fds
    BY DEF TypeOK, Fds
  <1>1. TypeOK'
    BY <1>a, <1>b, <1>c DEF TypeOK
  <1>2. StateInv'
    BY DEF TypeOK, StateInv
  <1>3. ProcInv'
    BY DEF TypeOK, StateInv, ProcInv
  <1>4. ConnInv'
    BY DEF TypeOK, StateInv, ConnInv
  <1>5. SocksInv'
    BY DEF TypeOK, StateInv, SocksInv
  <1>6. ErrInv'
    BY DEF TypeOK, StateInv, ErrInv
  <1> QED BY <1>1, <1>2, <1>3, <1>4, <1>5, <1>6

\* Every step, and a stuttering step, keeps the invariant.
LEMMA NextIInv == ASSUME Constants, IInv, [Next]_vars PROVE IInv'
  <1>1. CASE Next
    BY <1>1, GuestfsLaunchIInv, LaunchBeginIInv, LaunchSocketsIInv, LaunchForkIInv, LaunchRecoveryIInv, NewConnSocketIInv, AcceptPollIInv, AcceptConnectionIInv, LaunchRecvIInv, CleanupIInv, AddDriveIInv, SetBackendIInv, DaemonCallEofIInv, GuestfsShutdownIInv, GuestfsCloseIInv, RecoveryStartIInv, RecoveryPollIInv, HypervisorExitsIInv, ApplianceGoesOnIInv, TickIInv, MainDiesIInv DEF Next, launch_steps
  <1>2. CASE UNCHANGED vars
    BY <1>2 DEF vars, procs, clock, config, IInv, TypeOK, StateInv, ProcInv, ConnInv, SocksInv, ErrInv
  <1> QED BY <1>1, <1>2

\* A launch is all or nothing, whatever fails, whichever backend and options the handle has and whenever the
\* main program dies: a READY handle has its connection, a failure has set the error, and a failed launch
\* leaves no descriptor, no process and no state behind, but for launch_unix and the discard error.
THEOREM LaunchIsAllOrNothing == ASSUME Constants PROVE Spec => []LaunchAllOrNothing
  <1>1. Init => IInv BY InitIInv
  <1>2. IInv /\ [Next]_vars => IInv' BY NextIInv
  <1>3. IInv => LaunchAllOrNothing BY IInvAllOrNothing
  <1> QED BY <1>1, <1>2, <1>3, PTL DEF Spec
=============================================================================
