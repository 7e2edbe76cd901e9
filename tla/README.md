# cloudyfox in TLA+

cloudyfox is a small HTTP server for one KVM host (Python 2, Twisted). It creates, starts, stops and
purges domains (virtual machines) and their storage volumes through libvirt, copies template images with
libguestfs, and tunnels VNC viewers to the consoles of the domains. The repository holds the sources of
libguestfs 1.28.1, by far its largest part: a library that runs a small appliance under qemu, a daemon inside
it, and tools on top. This directory models both, model-checks the models with TLC and proves the
properties that matter most with TLAPS.

## The system

| Part | Source | What it does | Model |
|---|---|---|---|
| Start-up, configuration | `cloudyfox.py`, `config.py` | read once | not modelled |
| HTTP front | `server.py` | `render`: 500 for an exception | `Raise` in `DomainServlet` |
| Dispatcher | `servlet.py` | path to servlet | `Dispatcher` |
| Domain servlet | `domain_servlet.py` | 17 operations on the libvirt host's state | `DomainServlet`, `DomainList`, `TemplateCopy` |
| Node servlet | `node_servlet.py` | pools and networks of the host | `NodeServlet` |
| VNC proxy | `vnc_svr.py` | per viewer: `data`, `client` | `VNCProxy`, `VNCTunnel` |
| libvirt | external | domains, definitions, volumes, networks | `Libvirt` |
| Protocol of library and daemon | `libguestfs-1.28.1/src/proto.c`, `daemon/proto.c` | calls, files, cancellation | `GuestfsRPC` |
| Launch and handle | `src/launch*.c`, `src/handle.c`, `src/conn-socket.c` | sockets, processes, states | `GuestfsLaunch` |
| Event callbacks | `src/events.c` | callbacks of a handle | `EventCallbacks` |
| Handlers of the daemon | `daemon/*.c` | one function per call | `Daemon*` |
| Functions of the library | `src/*.c` | inspection, drives, files, backends | `Library*` |
| FUSE file system | `src/fuse.c`, `src/file.c` | a guest as a directory of the host | `FuseCache`, `ListCalls` |
| Hash table | `supermin-5.1.11/lib/hash.c` | holds the caches of `src/fuse.c` | `HashTable`, `KeyedSet` |
| guestmount, guestunmount | `fuse/` | the processes around a mount | `GuestMount` |
| Workers of virt-df | `df/parallel.c` | threads that print in order | `ParallelWork`, `OrderedOutput` |
| virt-alignment-scan | `align/scan.c` | threads with one shared minimum | `AlignmentScan` |
| pxzcat | `builder/pxzcat-c.c` | threads that write one file | `ParallelXzcat` |
| Remote guestfish | `fish/rc.c` | a server and its clients | `RemoteShell` |
| virt-p2v | `p2v/` | ssh sessions, conversion, dialogs | `P2VSession`, `P2VConversion`, `P2VDialog` |

**Who runs concurrently.** Twisted's reactor is one thread, and every handler calls libvirt
synchronously: two requests never interleave. But a handler is a sequence of libvirt calls, and between
two of them guests power off, panic, sleep or are paused by I/O errors; other libvirt clients (virsh) start,
define and undefine domains, make pools and take volume names; libvirtd restarts and leaves the handler with
a dead connection; the server itself dies. The VNC proxy is a pair of connections driven by callbacks whose
events come in any order and whose bytes come in chunks of any size. In libguestfs the library and the
daemon are two processes with bounded sockets between them, and a user thread or a signal may cancel; launch
runs qemu, a recovery process and the main program side by side; the tools have threads, clients or child
processes of their own.

**What is hard to get right here.** State read by one call and used by the next; errors swallowed by bare
`except` clauses; names that are given out again; answers sent by two functions; cancellation from both
sides at once; cleanup on each of many error paths; arrays and tables that change while they are walked;
caches; the order of output and of hang-ups. `PROJECT.json` lists the hazards with their lines.

## Modules

A definition has the name of the function it models where TLA+ allows it. A definition whose comment begins
with "Mutant" models a plausible mistake in the definition that follows it and is part of no specification:
it is there to show that a property would notice.

### The union of components

Most components share no state with each other, and each is small. Five modules therefore hold several
components each: `MCCloudyfox`, `MCAppliance`, `MCCalls`, `MCMount` and `MCTools` declare the variables of
their components, instantiate each component (some of them twice, with different constants), and have one
more variable, `part`. Components with theorems are extended instead, so that the run checks the very definitions that
the theorems are about. In a behaviour one component, named by `part`, runs; the others rest in one
initial state. A property of a component is checked in the behaviours of that component, and TLC's state graph is
the disjoint union of those of the components. The constants of each instance stand in the module, next to
its `INSTANCE`.

| Module | Components |
|---|---|
| `MCCloudyfox` | `VNCProxy` (which it extends), `Dispatcher`, `DomainList`, `NodeServlet`, `TemplateCopy` |
| `MCAppliance` | `GuestfsRPC`, `EventCallbacks` (which it extends), `GuestfsLaunch` |
| `MCCalls` | `DaemonCalls` with the handlers, `LibraryCalls` with the functions |
| `MCMount` | `GuestMount` (which it extends), `HashTable`, `FuseCache`, `ListCalls` |
| `MCTools` | `ParallelWork` (which it extends), `ParallelXzcat`, `AlignmentScan`, `RemoteShell`, the three of virt-p2v |

The runs of the domain servlet check `DomainServlet` itself. The theorems stand in `DomainServletProofs`,
`VNCProxyProofs`, `GuestfsRPCProofs` (with `GuestfsRPCInvariant`, which has its invariant and the lemmas about
streams, and `GuestfsRPCSteps`, which has half of the steps), `GuestfsLaunchProofs`, `EventCallbacksProofs` and
`ToolProofs` (of `ParallelWork` and of `GuestMount`).

### Libvirt

A domain has a persistent definition (`defined`, `name`, `disks`, `nics`) and, while it is active, a live one
(`ldisks`, `lnics`) and a `state`. `vols` are the volumes of the pools; the volume `<prefix>-<n>` is the pair
of both. Each call is an operator that describes its successful outcome, with libvirt's own conditions as
guards: `defineXML` refuses a uuid or a name another domain has, `attachDeviceFlags` refuses a target in use,
`create` refuses a missing image, `undefine` of an active domain leaves it running without a definition.
`Environment` is the guests (`GuestEvents`) and the other clients (`Foreign`).

### DomainServlet

`pc` is the next libvirt call of the handler that runs, `op` its operation, `tgt` the domain `getDomain`
returned; `seen`, `code`, `xml`, `path`, `idx` and `def` are the handler's locals; `reply` and `fin` are what
the client got and how often `req.finish()` was called. One step is one libvirt call with the Python code up
to the next one. Connections (`up`) break for good; then reads raise, and the handler does what its `try`
clauses say. A changing call may fail for reasons of its own at any time. A read of a domain that is gone raises.

| Code | Definitions |
|---|---|
| `request`, `getDomain`, `getConnection` | `request`, `getDomain`, `NotFound` |
| `RequestHandler.render` (exception) | `Raise` |
| `queryDomain`, `domainInfo`, `newMemory` | same names |
| `resetDomain` ... `startDomain` | same names, all instances of `Power` |
| `purgeDomain` | `purge_xml`, `purge_check`, `purge_destroy`, `purge_undefine`, `purge_delete` |
| `newNet` | `newNet` |
| `newVol` and its branch of `request` | `newVol_begin`, `newVol_lookup`, `newVol_create` |
| `attachDisk` | `attach_info`, `attach_xml`, `attach_exists`, `attach_lookup`, `attach_call`, `attach_cdrom`, `attach_swallowed` |
| `parseDefinition`, `createDomain`, `respond` | `create_begin`, `parse_*`, `respond`, `create_define`, `create_report` |

Data is abstracted to what the properties tell apart: a definition is a name, a uuid, disk paths and
networks (memory and CPU numbers decide only which error is answered, a free choice here); a reply is its
status, its code and whether a `target` is in it; cdrom media, MAC addresses and memory balloons are left
out. Twisted ignores (with a warning) the second `finish` it does itself after `render` re-raises, so
`Raise` counts one.

### VNCTunnel and VNCProxy

`VNCProxy` follows the callbacks of one viewer connection (connections share no state): `ViewerSends(k)` runs
`dataReceived` on a chunk of any size, `clientConnectionMade` is `vncClient`, `clientConnectionOver` is both
`clientConnectionFailed` and `clientConnectionLost`. A uuid is one byte of the stream. `VNCTunnel` says what
this is for: bytes accepted after the first line are delivered to one console, complete and in order.

### Dispatcher, DomainList, NodeServlet, TemplateCopy

`Dispatcher` has paths as sequences of segments; `Look` is one round of the loop in `request`.
`DomainList` extends `Libvirt`: `listDefinedDomains`, one `LookupName` per name, `listDomainsID`, one `LookupID`
per id, one `State` per domain, each a step between which the host changes; `current` are the ids that still name
a run. `NodeServlet` has the pools with the uuid libvirt gave each definition, so that a pool that was
replaced by another client is told from the one `newPool` defined; the connection may fail before any call, from
`getConnection` on. `TemplateCopy` is `copyDebianTemplate`:
positions are sectors, `part_list` gives the partitions by position and `list_partitions` by number, parted
refuses an overlap, `e2fsck` a file system longer than its partition; requests fail, the server dies, and
the same disk is asked for again.

### GuestfsRPC

`lpc` and `dpc` are where library and daemon stand; `up` and `down` are the two sockets, of `Cap` messages each.
A message is a request, a chunk of a file, a reply, a progress message or a cancellation flag, and is written and
read whole. `notify_progress` decides, at each chunk and while a call without a file is at work, whether a progress
message is due; from then on (`due`) the daemon does nothing else until the message is in the socket.

| Code | Definitions |
|---|---|
| `guestfs___send`, `send_file_chunk`, `check_daemon_socket`, `write_data` | `Call`, `check_daemon_socket`, `write_data`, `Cancelled`, `SendFails` |
| `guestfs___send_file` | `send_file`, `RequestWritten`, `SendCancellation` |
| `guestfs___recv`, `guestfs___recv_discard` | `guestfs_recv`, `guestfs_recv_discard` |
| `guestfs___recv_file` | `guestfs_recv_file`, `recv_file_cancel`, `recv_file_discard` |
| `main_loop`, the stubs and handlers | `main_loop`, `dispatch_incoming_message` |
| `receive_file`, `cancel_receive`, `send_file_write`, `send_chunk`, `reply` | same names |
| `notify_progress`, `notify_progress_no_ratelimit`, the pulse mode | same names, `Pulse` |
| `guestfs_user_cancel`, an exit of the appliance | `guestfs_user_cancel`, `Exit` |

### GuestfsLaunch

One handle over several launches with the `direct`, `uml`, `libvirt` and `unix` backends. `socks` are the
descriptors by name, `hv` the hypervisor, `rec` the recovery process with `ppid`, the parent it saw. A step is a
stretch of code up to the next call that may fail, block or be overtaken; `Faults` names the calls that may fail.

### EventCallbacks

`mask`, `cb` and `id` are the array of `src/events.c`; `stack` holds the events being delivered, each with its index
in the array: a callback may register, delete and cause another event.

### CallPaths, Daemon\*, Library\*

The daemon has one handler per call and the library some five hundred functions, and what can go wrong in them is
always the same: an error path that replies twice or not at all, leaves something open, leaves the chroot entered,
reports the errno of another call. So a function is the set of its paths, each a sequence of such events, put
together from the calls in its source by the operators of `CallPaths` (a call that is tested has paths on which
it succeeds and paths on which it fails), which also has the helpers of all functions.
`DaemonFiles`, `DaemonBlock`, `DaemonSystem`, `DaemonFilesystems`, `LibraryInspect` and `LibraryHandle` (the handle, its
drives, the host and the launch) have the functions, under their names; where functions that follow each other in a
source file have the same paths, one definition stands for them all and the map names their lines. `DaemonCalls` and
`LibraryCalls` run one function after another on any of its paths, event by event, and state what must hold.
Loops are taken zero times, once or twice, as their bodies require. Values are left out: a test of data may go
either way, so a path may be infeasible, and a property that holds for all paths holds for the feasible ones.
Where a property fails, the path was read in the source.

### HashTable, KeyedSet, FuseCache, ListCalls, GuestMount

`HashTable` has the buckets as sequences, the free list as a number, and gives each operation the number of
allocations that succeed before one fails; `KeyedSet` is the set that it implements. `FuseCache` has the guest file
system with inodes, the three caches with expiry times, and one action per operation of `mount_local_ops` (access
times, which a read changes in the guest and in no cache, are left out);
`ListCalls` is how `guestfs_lxattrlist` splits a list into calls and `mount_local_readdir` takes the flat answer
apart. `GuestMount` has the process the user started (`gm`), the one that serves (`wk`) and guestunmount (`un`). The
hypervisor may die by itself (`QemuDies`); the first call that meets it runs `child_cleanup` and puts the handle's `state`
back to `CONFIG`, after which `guestfs_shutdown` has nothing to do. `told` is whether a program that used the mount got
that first error.

### ParallelWork, OrderedOutput, AlignmentScan, ParallelXzcat

`ParallelWork` is `start_threads` and `worker_thread` with both mutexes and the condition variable; sleepers
may wake up for no reason. Memory, `pthread_create`, taking a mutex, waiting and the work function may fail; the unlock
of a mutex that is held and the join of a thread that was created cannot. `OrderedOutput` is what it implements. `AlignmentScan` is the work function of
virt-alignment-scan with the mutex around `worst_alignment`. `ParallelXzcat` parses the indexes, creates
the output and decodes; blocks of zeros are not written. When a thread cannot be created the error is raised at once.

### RemoteShell, P2VSession, P2VConversion, P2VDialog

`RemoteShell` has the backlog of the socket, the descriptor a client passes for its output, the server's buffer,
the error flag of its stdout, and clients that are killed. `P2VSession` has the two directions of an ssh session, with
or without a password, and a shell that
eats what comes too early; virt-v2v may be absent or of another version, and `v2v_major` is what earlier tests left; `P2VConversion` has processes, zombies and, for each pty master, who holds a copy;
`P2VDialog` has the test threads, the buttons and the shared `config`.

## Runs

A component states its properties in its own module. The runs check them grouped by what they say together; the
properties of the module stand in parentheses.

| Run | Shows |
|---|---|
| `disks` | `PersistentDisksBacked`, `NewVolumeIsNobodys`: whatever a purge deletes, and wherever it dies, no domain that stays defined loses a disk, and a volume name that is given out again is nobody's disk. |
| `quiet` | When guests only power off: `DefinitionsAgree` (`DenseTargets`, `LiveMatchesConfig`), `PurgeIsSafe` (`PurgeSparesActive`, `PurgeOkMeansGone`). `CreateNeverReplaces`, `AnsweredOnce`: a dead connection at any point neither makes `createDomain` replace a domain whose name it could not look up, nor leads to two answers or none. |
| `world` | `TypeOK` and `EveryRequestAnswered` with every operation, guest event and foreign client, shared disks and an image that is no volume: no handler loops or stops half way. (A request that ends with the lookup of its domain is one step; whether it is answered is what `AnsweredOnce` says.) |
| `cloudyfox` | `Longest`: the dispatcher finds the longest registered prefix. `ListingIsTrue` (`SteadyListedOnce`, `QuietAnswers`, `ListsAll`): listings made call by call are complete for what does not change. `NewPoolAllOrNothing` (`OkIsMade`, `NoPoolLeft`, `UndoesOwn`). `TemplateIsWhole` (`LaidOut`, `OneSwapLine`, `FailsForRoom`). `ConsoleIsRight` (`OneConsole`, `Conserved`), `ImplementsTunnel`, `DialSettles`: the VNC proxy is a tunnel to one console. |
| `appliance` | `StaysInStep` (`NeverLost`, `CleanBetweenCalls`), `CallResultIsTrue` (`OkMeansWhole`, `ErrorIsSet`), `CallsReturn` (`EveryCallReturns`, `DaemonCancelHeard`, `LaunchReturns`): library and daemon, whoever cancels and whatever fails (for `CallsReturn` with the restrictions below). `LaunchAllOrNothing` (`NoDescriptorLeft`, `NoProcessLeft`, `LaunchingDuringLaunch`, `ReadyMeansConnected`, `LaunchErrorIsSet`), `RecoveryKills`. `ToldOnce` (`AllTold`, `AtMostOnce`, `DeadAreSilent`, `HandlesHold`): event callbacks that register and delete each other. |
| `calls` | On every path of the handlers and functions, but for those `MCCalls` names: `RepliesOnce` (`OneReply`, `FileDone`, `PulseOver`), `EndsWhatItBegins` (`NothingHeld`, `InTurn`, `ChrootRight`, `HandlersPopped`, `ChildEnds`), `ErrorsAreTold` (`ErrorSet`, `SuccessIsSilent`, `ErrnoOfFailure`), `NothingUntested` (`NoNullUse`, `GuestNeedsRoot`). |
| `mount` | `TableOK` (with `NoAbort`, `CellsKept`), `SetSpec`, `WalksRight` (`WalkComplete`, `KeepsUnexpired`, `WalkEnds`): the hash table is a set whatever allocation fails and however it is walked. `CacheIsTrue` (`StaleOnlyByAlias`, `BoundedStaleness`, `StandsOnHead`, `CachedAligned`). `MountIsSafe` (`Served`, `PidFileKept`, `SuccessIsSynced`, `CaptiveIsSafe`), `MountCleansUp` (`CleansUp`, `FdUnmounts`, `GivesUpLate`). |
| `tools` | `InOrder`, `ResultIsTrue`, `ImplementsOutput`: virt-df. `OutputRight` (with `Disjoint`): pxzcat. `AlignmentIsTrue` (`WorstIsLeast`, `ZeroIsAligned`). `RemoteIsTrue` (`ToldIsTrue`, `OwnOutput`, `IdleHoldsNothing`, `NoneAfterQuit`): remote guestfish. `ConversionLeavesNothing` (`NoneLeft`, `ControlFirst`), `TestsAreTrue` (`InStep`, `TestIsTrue`, `OwnSettings`, `NextIsLast`, `OnlyTested`): virt-p2v. `EveryToolEnds` (`AllPrinted`, `Ends`, `Answered`, `QuitEnds`, `Returns`, `TestEnds`). |

A group is checked whole: TLC refutes it when one of its members fails, and `PROJECT.json` has a mutant for each member. In the
last five runs the groups also hold the type invariant of a component where it has one; that of `ParallelWork` is a lemma.

Four runs show that the code does not do what it says:

| Run | Shows |
|---|---|
| `info_unanswered` | `domainInfo` of an unknown domain sets code 107 and returns without writing or finishing: the client waits for ever (`domain_servlet.py:177`). |
| `attach_ok` | an attach that libvirt refuses is swallowed by `except: pass` and answered with 0, "Ok result" (`domain_servlet.py:455`). |
| `purge_paused` | a paused domain is purged with "Ok result" but lives on as a transient domain, its volumes deleted under it (`domain_servlet.py:267`). |
| `newvol_code` | a failed `newvol` is an HTTP 500: `newVol` never returns the `None` for which `request` has its `SYS_ERROR` branch (`domain_servlet.py:94`). |

**Restrictions of the passing runs, and why.** Each leaves out a case in which the property fails (see "Known
divergences") or which the code does not claim to handle.

- `quiet` leaves pausing, sleeping and panicking out because its first four properties fail once `pause` is among
  the requests: the handlers test for `RUNNING` where the property needs "active". It leaves `info` out because of
  `info_unanswered`. A crash of the server answers nobody, so `AnsweredOnce` exempts that step.
- `SharedDisks = FALSE` says clients give an image to one domain only; with shared images a purge deletes the
  disk of another domain, which the code does not try to prevent. `disks` and `quiet` have no foreign clients: they
  may define or start what they like between two calls, and cloudyfox cannot prevent it.
- A VNC viewer that sends on without waiting for the console's greeting sends no second newline (`EagerAssumption`):
  the proxy would take it for the end of another uuid line and dial again (`vnc_svr.py:47`).
- A `newPool` whose `getConnection` fails may answer 0; `OkIsMade` then only says that nothing was changed.
- `StaysInStep` and `CallResultIsTrue` are checked with both sides cancelling as they like. For `CallsReturn` uploads
  that the library cancels and uploads that the daemon cancels are separate parts, because of the deadlock when both
  do. Handlers that refuse their arguments without receiving the file (`"args"`) are left out; `ErrorIsSet` exempts
  downloads that the user has stopped.
- The launches that may leave something behind are without `"discard"` (a leak) and without the `unix` backend (it
  stays `LAUNCHING`); `LaunchReturns` is without console messages after the deadline, `RecoveryKills` without root.
- Owners of event callbacks delete their own handle, once.
- `calls` names, for each property, the functions that do not have it; the sets stand in `MCCalls` with the reason.
- `SuccessIsSynced` exempts a mount whose hypervisor died with a program being told of it. `GivesUpLate` says how long
  guestunmount has slept for fewer than 32 retries; from there on `1 << (i-1)` is no `int` (`fuse/guestunmount.c:191`).
- `CleansUp` and `FdUnmounts` (in `MountCleansUp`) are for mounts in which no call fails and which are not taken away
  before guestmount's parent has returned. `StaleOnlyByAlias` is for caches that always
  find memory.
- `AllPrinted` is for workers of which only the work function fails. pxzcat is given files of one stream.
  Clients of the remote shell come to their end when only clients are killed; a broken pipe ends the server.
- `OnlyTested` is for a user who waits for each test to end and types nothing that is refused without a test.

**Bounds.** Each instance has its bounds next to it. Two domains, two clients or two guests are enough where a
property relates one to another; three workers are needed so that one sleeps, one works and one prints, and three
domains so that one is waited for by two. `MaxIdx` volume numbers per prefix: a foreign client leaves every prefix a
free number, so that newVol's loop ends within the bound. `Cap` is two messages per socket, less than a file of
`MaxChunks` chunks with its progress messages, so that both sides block; in the part `daemon`, where the daemon cancels,
files have three chunks and sockets hold one message, so that the library waits to write while the daemon waits to
write a progress message. Three calls let a flag of the first be read
by the second and the third follow. The hash tables have 11 and 17 buckets (the smallest primes the code
chooses), six keys and hash functions that make two entries collide in one size and not in the other. Lists of five
names with two per call make three calls. Time in the caches runs one second past the timeout.

**Fairness.** `world` assumes `WF_vars(Handler)`: a libvirt call returns and the reactor thread goes on. A
connection attempt of the VNC proxy is answered (`connectTCP` has a timeout of 30 seconds). Library and daemon go on when
they can; nothing is assumed of users, faults and progress messages. Launch, recovery process and a clock that
passes the timeout; a hypervisor that does not connect exits or connects. A walk that was begun, guestmount,
guestunmount and a hypervisor that was sent SIGTERM go on. Threads, clients and children of the tools that can
run do, virt-v2v ends. In a union the fairness of several components shares one conjunct; only one of
them runs in a behaviour, so the conjunct is the fairness of that one.

**Deadlock** is checked but in `appliance` and `tools`, where handles are closed and tools end. `Stopped` is what may
stop elsewhere: in `cloudyfox` the template copy and the VNC proxy, for which deadlock is therefore not checked, in
`mount` a table that was freed and a list that was read.

## Known divergences

Besides the four runs above, modelling brought to light where the code does not do what a comment, a document or
the code around it says. Those with a property in parentheses have a counterexample: TLC finds it when the
property, which stands in the module, is checked without the restrictions above. None of the runs of this
directory does so. The others were met while reading.

cloudyfox:

- `newPool` sets the code to 0 and calls `util.getConnection()` before the inner `try`: when libvirtd is away the
  answer is 0 and there is no pool (`node_servlet.py:158`).
- A swap size that is not positive is answered with HTTP 500: the code "Bad domain parameter" is prepared, then
  `except: raise` drops it (`domain_servlet.py:928`; `BadParameterTold`).

Protocol, launch and events (paths below `libguestfs-1.28.1/`):

- `src/proto.c:451`: when library and daemon cancel an upload at the same moment no cancellation chunk is sent, and both
  wait for ever, although `guestfs.pod:3704` says that the library "sends a cancel chunk" (`DaemonCancelHeard`).
- `daemon/tar.c:157`, `daemon/upload.c:125`: arguments are refused without receiving or cancelling the file, contrary to
  `daemon/daemon.h:273`; the library loses synchronisation (`NeverLost`, and `FileDone` in the daemon; also
  `do_ntfsclone_in` and `do_internal_rhbz914931`).
- `src/proto.c:815`: a user cancellation that is seen after the last chunk returns -1 with no error set, where
  `generator/actions.ml:3039` promises EINTR (`UserCancelIsEINTR`).
- `daemon/upload.c:100`: a cancelled upload is answered, where `guestfs.pod:3699` says it is not (`CancelGetsNoReply`).
- `src/launch-unix.c:60`: a failed launch with the unix backend leaves the handle LAUNCHING (`LaunchingDuringLaunch`).
- `src/conn-socket.c:85`: a console message handled after the timeout makes the remaining time negative, and `poll`
  waits without limit, where `guestfs-internal.h:323` promises a timeout (`LaunchReturns` with `LateLogs`).
- `src/launch-direct.c:756`: a recovery process of root whose parent died before `getppid` watches init for ever
  (`RecoveryKills` with `Root`).
- `src/events.c:90`: callbacks deleted in the order of registration give no slot back (`LimitAvoided`). A handle used
  after its deletion may name another callback (`src/events.c:76`).

Handlers and library functions (each an exception in `MCCalls`):

- `daemon/find.c:51`: an error reply in the middle of a FileOut (`OneReply`). `daemon/devsparts.c:90`: two replies when
  `add_string` fails. `daemon/checksum.c:101`: a descriptor closed twice, contrary to `daemon/guestfsd.c:888` (`InTurn`).
- `src/inspect-fs-unix.c:382`: failure with no error set (`ErrorSet`). `src/launch-direct.c:1481`: -1 from a bool
  function is true (`SuccessIsSilent`). `src/appliance.c:245`: 0 = built, without a kernel; `src/command.c:577`: a failed
  read is passed over (`NoNullUse`).
- Freed or closed twice: `md_map` (`src/inspect-fs-unix.c:1409`), a hive that was not opened
  (`src/inspect-fs-windows.c:411`), in `connect_live` (`src/libvirt-domain.c:733`), in `src/file.c` when `close` fails.
- Used without a test: values in `src/inspect-fs-windows.c:332`, `463`; `src/libvirt-auth.c:142`;
  `src/launch-direct.c:524`. Lists without a terminator: `src/libvirt-domain.c:614`, `src/file.c:490`.
- Left allocated: `src/info.c:276`, `src/tmpdirs.c:39`, `src/launch-libvirt.c:683`, the socket pair of `launch_direct` when
  discard is refused, the entry of `xac_insert` and `rlc_insert` without memory.
- errno reported although no system call set it: `src/inspect-fs-windows.c:326`, `514`.

Mounts:

- `src/proto.c:93`: when the appliance dies under a mount, the call that meets it sets the handle to `CONFIG`, and
  `guestfs_shutdown` then succeeds: guestmount exits with 0 although data was lost, where `generator/actions.ml:2428`
  says that shutdown returns an error (`ShutdownTells`). Some program has had an error by then, as `SuccessIsSynced` says.
- `fuse/guestmount.c:424`, `475`: a mount that is taken away before the parent has written the PID file leaves a PID
  file that names a process that is gone (`CleansUp` with `Early`).
- `src/fuse.c:1283`: removing an entry while walking makes `hash_do_for_each` pass over the rest of the bucket
  (`NoneExpired`); nothing else is lost, as the run `mount` shows.
- `fuse/guestmount.pod:153`: when the PID is gone the disk image may still be open (`PidIsSafe`), because
  `shutdown_direct` does not wait (`src/launch-direct.c:1505`).
- `fuse/guestmount.c:426`: the ready byte is written before the root check that may give up (`ReadyIsServed`).
- `fuse/guestunmount.c:224`: status 2 where `guestunmount.pod:141` documents 3 (`NotMountedStatus`).
- `src/fuse.c:1146`: `umount_local` returns -1 with no error set; `fuse/guestmount.c:112`: the usage text says 5 seconds,
  the default is 60.

Tools:

- `df/parallel.c:191`: a worker that fails before it retires its domain leaves the others waiting (`Returns`).
- `builder/pxzcat-c.c:271`: `SEEK_CUR` where the position in the index is meant; files of several streams are refused
  (`StreamsRead`).
- `builder/pxzcat-c.c:475`: when `pthread_create` fails the exception leaves the threads that run already with a state
  that lies in a stack frame that is gone. What they do then is not modelled.
- `fish/fish.c:1196`: "We've dealt with this error, so clear the flag" is about `ferror (stdout)`, but a failed
  `fflush` in `issue_command` returns before it: the next client of a remote shell may be told -1 for
  a command that succeeded (`FailureIsOwn`).
- `align/scan.c:258`: 10 for 2^12, so 1K and 2K are told as aligned to 4K (`ExitCodeTold`).
- `p2v/conversion.c:296`: the status of virt-v2v is not read (`SuccessTold`). `p2v/ssh.c:132` and `523`: driver names cut
  in two, and drivers of an earlier server (`DriversNamed`). `p2v/gui.c:246`: Next stays enabled for settings that were
  not tested (`OnlyTested`). `p2v/gui.c:356`: a conversion begins while a test is open (`TestsClosed`).
- `p2v/conversion.c:368` says of the ssh connections that "just closing the pipe doesn't do anything". Closing the last
  copy of a pty's master does hang ssh up (`Hangup`), but children forked later hold copies, which is why it did not
  seem to; the model has both, and the signal.

## Theorems

| Theorem | Statement |
|---|---|
| `TypeCorrect` | `Spec => []TypeOK` of `DomainServlet` |
| `DisksStayBacked` | without shared disks, `Spec => []PersistentDisksBacked` |
| `NewVolumesAreFresh` | without shared disks, `Spec => NewVolumeIsNobodys` |
| `RequestsAnsweredOnce` | without `info` requests, `Spec => AnsweredOnce` |
| `CreateReplacesNone` | if no other client defines domains, `Spec => CreateNeverReplaces` |
| `DefinitionsStayInStep` | if `Quiet`, `Spec => []DefinitionsAgree` |
| `PurgesAreSafe` | if `Quiet` and without shared disks, `Spec => PurgeIsSafe` |
| `ConsoleStaysRight` | `Spec => []ConsoleIsRight` of `VNCProxy` |
| `ProxyImplementsTunnel` | `VNCProxy` implements `VNCTunnel` |
| `ParallelInOrder`, `ParallelOwnDomain`, `ParallelResultIsTrue` | `WorkSpec => []InOrder`, `[]OwnDomain`, `[]ResultIsTrue` of `ParallelWork` |
| `ParallelRefines` | `ParallelWork` implements `OrderedOutput` |
| `CallsStayInStep`, `CallResultsAreTrue` | `Spec => []StaysInStep`, `[]CallResultIsTrue` of `GuestfsRPC` |
| `LaunchIsAllOrNothing` | `Spec => []LaunchAllOrNothing` of `GuestfsLaunch` |
| `EventsToldOnce` | `EventsSpec => []ToldOnce` of `EventCallbacks` |
| `MountSafe` | `Spec => []MountIsSafe` of `GuestMount` |

A run checks each of these properties but `OwnDomain` on small instances (`LaunchAllOrNothing` in two instances of the
launch, with different constants); the theorem is about all values of the constants. TLC also checked every inductive invariant before it was proved. Where a property has a restriction (see above) it is
part of the property or an assumption of the theorem.

**The domain servlet.** The theorems hold for any number of domains, names, prefixes, volumes, disks and networks, all
guest events, all foreign client operations and all faults, from the named assumptions on the constants in
`Libvirt` and `DomainServlet`: bounds are numbers, there is a name, None is no uuid and no path, a file is no volume.

`TypeOK` is not inductive: `newVol_lookup` and `attach_call` need the volume and the disk they work on.
`ArgsBound` says that a handler has its arguments; `TypeInv == TypeOK /\ ArgsBound` is inductive.

`PersistentDisksBacked` is not inductive either: `purge_delete` deletes by a list that was read several calls earlier.
The strengthening is that no image is held by two domains (`RefsDisjoint`, in either of their definitions), that
what is left of the purge's list is held by no other domain and, after undefine, is in no definition
(`PurgeOwns`), and that the disks a running `attachDisk` or `createDomain` is about to add are held by
nobody and exist (`AttachFresh`, `CreateFresh`). Most steps are calm: no domain holds more
afterwards and no volume is gone (`Calm`), and calm steps keep everything. What remains is one lemma for each of
`purgeDomain`, `attachDisk`, `createDomain` and the arrival of a request.

`NewVolumesAreFresh` follows: an image in a persistent definition exists, and `createXML` refuses a name that exists.

`RequestsAnsweredOnce` needs to know how often an open request was answered already: once if `parseDefinition` did so
and returned `None`, and never otherwise (`FinishCount`, inductive with `TypeInv`). `CreateReplacesNone` rests on
`NameFree`: from its lookup on, the name stays free, or the connection has died at the lookup and `getInfo` raises
before anything is defined. `up` never becomes true again, which is what makes this inductive.

`Quiet` is what the run `quiet` assumes, as a predicate of the constants: guests only power off, no client pauses, no
other client starts or defines domains (they may undefine domains and take volume names). Then a domain runs or
is shut off (`NeverPaused`), so that the handlers' tests for `RUNNING` are tests for "active"; what a handler found
shut off stays so until it is done (`StaysOff`: nobody else starts domains), and `disk_idx` is still the next target
when the disk is attached (`IdxIsNext`). With `FinishCount`, `NameFree` and `DefinitionsAgree` this is inductive
(`QuietInv`). As with disks, most steps are shown to rest: no domain starts and no definition changes other than
by going away. `PurgesAreSafe` puts both invariants together: a volume that goes is the next on the list of a purge, by
`PurgeOwns` no other domain holds it, and by `StaysOff` the domain of the purge is not active.

**The VNC proxy.** For any domains, bytes and streams, cut into chunks in any way, from `ProxyAssumption` and
`EagerAssumption`. The invariant has two phases. Before `connectTCP` everything that has arrived is in `data` and is
no line yet (`ListenInv`); afterwards there is one connection, for the first line of the stream, and what came after
the line is in `data` until the connection is made and at the console from then on (`LinkInv`). The heart of it is
that the end of the line found in what has arrived is the end of the first line of the whole stream
(`FindInPrefix`), and that no second line is found while the first connection is being made (`NoSecondLine`), which is where
`EagerAssumption` is needed. Every step is then a step of `VNCTunnel` or leaves its variables alone (`StepTunnel`). The
proof led to one correction of the model: a stream without a newline could not be sent at all.

**The workers.** The theorems hold for any number of domains and threads, from `NumbersAssumption` (the counts are
numbers, and there is memory for one thread at least) and `NobodyAssumption` (`Nobody` is no number). The order of
the output rests on the mutexes: `IInv` adds to `TypeOK`, `InOrder` and `OwnDomain` that a worker between lock and
unlock holds the mutex (`MutexInv`), what it therefore knows about the counters (`CounterInv`: the domain it is
about to take is the next to take, the one it prints the next to retire), and that threads which wait, are not
created or were joined are where they should be (`ThreadInv`). A step that prints is then a step of
`OrderedOutput`, and so is the return; all others leave its variables alone. `ResultIsTrue` needs more: every domain
taken and not retired is some worker's (`NoDomainLost`), and while no error has been
counted, the threads joined so far had none (`ErrorsCounted`).

**The protocol.** For any number of calls, chunks and progress messages, sockets of any size, and any kinds of calls and
faults, from `RPCBounds` and `RPCKinds`. The inductive invariant says, for every place where the two sides may be
at once, what each socket may hold: a stream of messages of which at most the last is of the kind that ends it
(`Stream`, `Ended`), or flags of an earlier call followed by a request and its file (`Queued`). `DownInv` is
about the library's view, `MainInv`, `UploadInv`, `ReplyInv` and `SendInv` about the daemon's. `FileInv` counts:
the chunks sent are those stored and those in the socket. Counting elements of a sequence by recursion would need
induction, so `Carries(s, n)` says that an increasing function lists the `n` places of the data chunks in
`s`; what appending and taking does to it are lemmas. `ErrInv` says where an error has been set. The proof led to one correction of the
model: `guestfs___recv` and `guestfs___recv_discard` now read nothing once the connection is closed
(`src/proto.c:509`), where the model had let them take what was left in the socket.

**The launch.** For any backends, options, faults, timeouts and numbers of launches, from `LaunchBounds` and
`LaunchOptions`. `IInv` says at every step of a launch which state the handle is in (`StateInv`), which processes
there are and whose (`ProcInv`), who holds the descriptors (`ConnInv`, `SocksInv`) and that an error was set before the
cleanup (`ErrInv`); the proof has a lemma for each step of the launch, of the other processes and of the user.

**The event callbacks.** For any limit on the array, any old-style setters, events, registrations and depth of events
within events, from the named assumptions of `EventCallbacks`. `ToldOnce` speaks of the moment at which an event has been
delivered; the invariant speaks of all events in progress, the outer ones included: those told are at or before the index
of the loop, and of those due and still registered, the ones at or before it have been told (`FrameInv`). This is kept while
callbacks register and delete each other because a slot belongs to the registration that was given it last (`SlotsInv`,
`HandlesHold`), and because deletion shortens the array only at its end. An old-style setter has at most one slot
(`OneSlot`), so the array exceeds its limit by at most one slot for each of them (`CountInv`).

**guestmount.** For any options, retries and failing calls, and a hypervisor that may die at any moment. The invariant
ties both processes to what they share:
there is a worker only after the fork (`ForkInv`), nobody stops the hypervisor until the worker shuts it down
(`QemuInv`), before that only the call that met its death has put the handle back to `CONFIG`, and if that call was not a
program's, the worker has an error to return (`StateInv`); the
PID file is written before the command returns (`PidInv`), and while no error has been met the mount is gone after the
loop and the data in the image after the sync, unless a program was told (`SyncInv`).

**Only model-checked.** Liveness (`EveryRequestAnswered`, `DialSettles`, `CallsReturn`, `RecoveryKills`,
`MountCleansUp`, `EveryToolEnds`, parts of `WalksRight`) is outside what TLAPS reasons about here. So is induction over data (a
set of numbers has a least element, lemma `Least` of `VNCProxyProofs`, but the induction theorems themselves cannot be
applied): the sizes of the hash table come from a recursive search for primes (`TableOK`, `SetSpec`), `GivesUpLate` sums
powers of two. The
properties of `calls` are about fixed sets of paths, one for each function, and have no constants to generalise over: TLC
runs through all of them.
The remaining ones (the listing, pools and templates of cloudyfox, the FUSE caches, pxzcat,
virt-alignment-scan, remote guestfish and virt-p2v) are within reach and not proved.

## Not modelled

- cloudyfox: `deployDisk`, which nothing calls; `config.py`, `cloudyfox.py`: straight-line start-up;
  `util.listInterfaces`: an ioctl; the letters of disk targets (targets are numbers, so the 27th is not special).
- Generated code, the language bindings, tests, examples and documentation of libguestfs, and gnulib.
- Tools written in OCaml or Perl, and the C tools that only call the library and print (virt-cat, virt-edit, virt-diff,
  virt-inspector and the like); the commands and the parser of guestfish.
- `rescue`, `test-tool`, the guestfs appliance's init script, supermin but for its hash table.
- Helpers of the daemon without a reply of their own, and its `optgroup_*` tests for programs of the appliance. The status and note of each component is in `PROJECT.json`.
- Paths on which virt-p2v calls `exit` (`p2v/conversion.c:118`, `p2v/ssh.c:169`): the children are left to init.
