---------------------------- MODULE MCAppliance ----------------------------
(***************************************************************************)
(* A handle of libguestfs and its appliance: first the launch, then the    *)
(* calls over the connection that the launch has made, and the callbacks   *)
(* for the events of both; the module extends the last two.  They share no *)
(* state here.  In a behaviour one of them runs, as part says, and the     *)
(* others rest in their initial state.                                     *)
(***************************************************************************)
EXTENDS GuestfsRPC, EventCallbacks

VARIABLES
  part,
  main, state, backend, recovery, direct, op, pc, socks, conn, drives,                 \* GuestfsLaunch
  pid, recpid, hv, stray, rec, ppid, vir, app, elapsed, left, launches, lret, lerr

\* In GuestfsRPC itself calls of all kinds are given up by whichever side meets a fault.  In its instances
\* the two sides never cancel the same upload.  Uploads that the library gives up, for a fault or because
\* the user asks it to:
U == INSTANCE GuestfsRPC WITH Kinds <- {"call", "upload"}, DaemonFaults <- {"close", "exit"}, MaxChunks <- 2

\* Calls of all kinds that the daemon gives up, over sockets that one message fills: the daemon waits for
\* room for its progress messages while the library waits for room for its chunks.
D == INSTANCE GuestfsRPC WITH LibFaults <- {}, UserCancels <- FALSE, Cap <- 1

\* Downloads that both sides may give up.
W == INSTANCE GuestfsRPC WITH Kinds <- {"call", "download"}, MaxChunks <- 2

Faults ==
  {"tmpdir", "appliance", "qemu", "socket", "fork", "recfork", "connect", "accept", "garbage", "eof", "autosync"}

\* Two launches, of which every step may fail but the test for "discard".
L == INSTANCE GuestfsLaunch WITH
  Backends <- {"direct", "uml", "libvirt"}, Recovery <- BOOLEAN, DirectModes <- BOOLEAN,
  MainDies <- FALSE, Root <- FALSE, LateLogs <- TRUE, Timeout <- 1, MaxLaunches <- 2, ret <- lret, err <- lerr

\* One launch, by a program that may die, with no message handled as the timeout passes.
E == INSTANCE GuestfsLaunch WITH
  Backends <- {"direct", "uml", "libvirt", "unix"}, Recovery <- BOOLEAN, DirectModes <- BOOLEAN,
  Faults <- Faults \cup {"discard"}, MainDies <- TRUE, Root <- FALSE, LateLogs <- FALSE, Timeout <- 2,
  MaxLaunches <- 1, ret <- lret, err <- lerr

\* The constants have the values that the modules expect.
ASSUME Assumptions ==
  /\ RPCBounds /\ D!RPCBounds /\ RPCKinds /\ U!RPCKinds /\ D!RPCKinds /\ W!RPCKinds
  /\ L!LaunchBounds /\ L!LaunchOptions /\ E!LaunchBounds /\ E!LaunchOptions
  /\ LimitAssumption /\ KindsAssumption /\ RegsAssumption /\ DepthAssumption

launchVars ==
  <<main, state, backend, recovery, direct, op, pc, socks, conn, drives, pid, recpid, hv, stray, rec,
    ppid, vir, app, elapsed, left, launches, lret, lerr>>
applianceVars == <<part, vars, launchVars, eventVars>>

Calls == {"calls", "upload", "daemon", "download"}
Launches == {"launch", "launch, main dies"}

ApplianceInit ==
  /\ part \in Calls \cup Launches \cup {"events"}
  /\ Init
  /\ IF part = "launch" THEN L!Init ELSE E!Init
  /\ part \in Launches \/ (backend = "direct" /\ ~recovery /\ ~direct)
  /\ EventsInit

\* A step of the calls and of the launch.
OfCalls(any, upload, daemon, download) ==
  /\ \/ part = "calls" /\ any
     \/ part = "upload" /\ upload
     \/ part = "daemon" /\ daemon
     \/ part = "download" /\ download
  /\ UNCHANGED <<part, launchVars, eventVars>>
OfLaunch(faults, ends) ==
  /\ \/ part = "launch" /\ faults
     \/ part = "launch, main dies" /\ ends
  /\ UNCHANGED <<part, vars, eventVars>>
OfEvents == part = "events" /\ EventsNext /\ UNCHANGED <<part, vars, launchVars>>

ApplianceNext == OfCalls(Next, U!Next, D!Next, W!Next) \/ OfLaunch(L!Next, E!Next) \/ OfEvents

\* The fairness of GuestfsRPC and of GuestfsLaunch.
ApplianceFairness ==
  /\ WF_applianceVars(OfCalls(Library, U!Library, D!Library, W!Library) \/ OfLaunch(L!launch_steps, E!launch_steps))
  /\ WF_applianceVars(
       \/ OfCalls(Daemon, U!Daemon, D!Daemon, W!Daemon)
       \/ OfLaunch(L!recovery_start \/ L!recovery_poll, E!recovery_start \/ E!recovery_poll))
  /\ WF_applianceVars(
       /\ pc = "recv" /\ app # "up"
       /\ OfLaunch(L!hypervisor_exits \/ L!appliance_goes_on, E!hypervisor_exits \/ E!appliance_goes_on))
  /\ SF_applianceVars(OfLaunch(L!tick, E!tick))

ApplianceSpec == ApplianceInit /\ [][ApplianceNext]_applianceVars /\ ApplianceFairness

-----------------------------------------------------------------------------
(* Properties, besides StaysInStep and CallResultIsTrue of GuestfsRPC and ToldOnce of EventCallbacks *)

\* Every call returns, launch among them, whatever fails and whoever cancels, and a daemon that has
\* cancelled an upload hears of the library's end of it, unless both sides may cancel the same upload.
CallsReturn ==
  (part # "calls" => EveryCallReturns /\ DaemonCancelHeard) /\ (part = "launch, main dies" => E!LaunchReturns)

\* launch is all or nothing: a READY handle has a connection to a daemon that is up, a launch that
\* failed has set the error, and between calls a handle that is not launched is in no other state than
\* before, with no descriptor and no process left.
LaunchAllOrNothing ==
  (part = "launch" => L!LaunchAllOrNothing) /\ (part = "launch, main dies" => E!LaunchAllOrNothing)

\* The recovery process kills the hypervisor of a program that has died.
RecoveryKills == E!RecoveryKills

=============================================================================
