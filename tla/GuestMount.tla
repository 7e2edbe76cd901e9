----------------------------- MODULE GuestMount -----------------------------
(***************************************************************************)
(* The life of a guest mounted on a directory of the host: guestmount      *)
(* mounts it (mount_local), goes into the background, serves it            *)
(* (mount_local_run) and cleans up; guestunmount, which may wait for the   *)
(* end of a program first, takes the mount away, trying several times.     *)
(*                                                                         *)
(* gm is where the process that the user started stands, wk where the one  *)
(* that serves the mount stands: with --no-fork the former becomes the     *)
(* latter.  chan holds the processes that have the channel of the mount    *)
(* open; the mount is dead once there is none.                             *)
(***************************************************************************)
EXTENDS Integers

CONSTANTS
  Options,           \* the options that guestmount may be started with: see OptionsType
  Retries,           \* the numbers of retries that guestunmount may be started with
  Faults,            \* the calls that may fail; "qemu": the hypervisor may die, or end with an error
  Early,             \* may the mount be taken away before guestmount has returned?
  None

OptionsType == [fork: BOOLEAN, pid_file: BOOLEAN, fd: BOOLEAN, sync: BOOLEAN, root: BOOLEAN]

Calls == {"mount_local", "fork", "pid_file", "fd", "setsid", "loop", "sync", "qemu", "fusermount", "pipe", "fuser"}

OptionsAssumption == Options \subseteq OptionsType
RetriesAssumption == Retries \subseteq 0..63
FaultsAssumption == Faults \subseteq Calls
EarlyAssumption == Early \in BOOLEAN
NoneAssumption == None \notin {0, 1, 2}

VARIABLES
  opts,              \* the options; root: is something mounted on / of the guest?
  gm,                \* see above
  wk,
  r,                 \* r in main
  status,            \* exit status of the two processes, or None
  localmountpoint,   \* g->localmountpoint # NULL
  mounted,           \* the kernel has the mount
  chan,              \* see above
  busy,              \* a program has a file of the mount open
  dirty,             \* the guest has data that is not in the disk image
  qemu,              \* "running", "term" (it has been sent SIGTERM), "gone" (ended by it) or "dead" (by itself)
  state,             \* g->state, "READY" or "CONFIG", of the process that is to serve the mount
  told,              \* history: a program got an error from the mount because the hypervisor is dead
  pid_file,          \* "none", "partial" or "worker"
  ready,             \* the byte has been written to the pipe, or there is no pipe
  program,           \* the program that guestunmount --fd watches is running
  un                 \* guestunmount

vars == <<opts, gm, wk, r, status, localmountpoint, mounted, chan, busy, dirty, qemu, state, told, pid_file, ready, program, un>>
mount == <<opts, gm, wk, r, status, localmountpoint, chan, dirty, qemu, state, told, pid_file, ready>>   \* of guestmount

Fresh == [pc |-> "idle", i |-> 0, retries |-> 0, slept |-> 0, absent |-> FALSE, status |-> None]

Init ==
  /\ opts \in Options
  /\ gm = "mount_local" /\ wk = "none" /\ r = 0
  /\ status = [gm |-> None, wk |-> None]
  /\ localmountpoint = FALSE /\ mounted = FALSE /\ chan = {} /\ busy = FALSE
  /\ dirty = FALSE /\ qemu = "running" /\ state = "READY" /\ told = FALSE
  /\ pid_file = "none" /\ ready = FALSE
  /\ program = TRUE /\ un = Fresh

-----------------------------------------------------------------------------
(* guestmount. *)

guestfs___free_fuse(who) == chan' = chan \ {who}

\* The hypervisor is sent SIGTERM, and waited for when there is a recovery process, that is,
\* when guestmount has not forked.
Terminated == IF qemu # "running" THEN qemu ELSE IF opts.fork THEN "term" ELSE "gone"

\* A call to the daemon finds that the hypervisor has died.
child_cleanup == state' = "CONFIG"

\* exit (EXIT_FAILURE): close_handles closes the handle.
ExitFailure(who) ==
  /\ status' = [status EXCEPT ![who] = 1]
  /\ qemu' = Terminated
  /\ guestfs___free_fuse(who)

\* mount_local: the mount point is made, and removed again if fuse_new fails.
guestfs__mount_local ==
  /\ gm = "mount_local"
  /\ \/ /\ mounted' = TRUE /\ localmountpoint' = TRUE
        /\ chan' = {"gm"}
        /\ gm' = "daemonize"
        /\ UNCHANGED <<status, qemu>>
     \/ /\ "mount_local" \in Faults
        /\ gm' = "done"
        /\ ExitFailure("gm")
        /\ UNCHANGED <<localmountpoint, mounted>>
  /\ UNCHANGED <<opts, wk, r, busy, dirty, state, told, pid_file, ready, program, un>>

Daemonize ==
  /\ gm = "daemonize"
  /\ \/ /\ gm' = "pid_file"
        /\ IF opts.fork THEN wk' = "setsid" /\ chan' = {"gm", "wk"} ELSE UNCHANGED <<wk, chan>>
        /\ UNCHANGED <<status, qemu>>
     \/ /\ opts.fork /\ "fork" \in Faults
        /\ gm' = "done"
        /\ ExitFailure("gm")
        /\ UNCHANGED wk
  /\ UNCHANGED <<opts, r, localmountpoint, mounted, busy, dirty, state, told, pid_file, ready, program, un>>

\* The parent ends with _exit, which leaves the handle to the worker.
ParentFails ==
  /\ gm' = "done"
  /\ \/ /\ opts.fork
        /\ status' = [status EXCEPT !.gm = 1]
        /\ chan' = chan \ {"gm"}
        /\ UNCHANGED qemu
     \/ ~opts.fork /\ ExitFailure("gm")

write_pid_file ==
  /\ gm = "pid_file"
  /\ \/ /\ gm' = "pipe_fd"
        /\ pid_file' = IF opts.pid_file THEN "worker" ELSE "none"
        /\ UNCHANGED <<status, qemu, chan>>
     \/ /\ opts.pid_file /\ "pid_file" \in Faults
        /\ pid_file' \in {pid_file, "partial"}
        /\ ParentFails
  /\ UNCHANGED <<opts, wk, r, localmountpoint, mounted, busy, dirty, state, told, ready, program, un>>

\* Mutant: the parent ends with exit.
write_pipe_fd_exit ==
  /\ gm = "pipe_fd"
  /\ gm' = "done" /\ ready' = TRUE
  /\ IF opts.fork THEN ExitFailure("gm") /\ UNCHANGED wk ELSE wk' = "run" /\ chan' = {"wk"} /\ UNCHANGED <<status, qemu>>
  /\ UNCHANGED <<opts, r, localmountpoint, mounted, busy, dirty, state, told, pid_file, program, un>>

write_pipe_fd ==
  /\ gm = "pipe_fd"
  /\ \/ /\ gm' = "done"
        /\ ready' = TRUE
        /\ IF opts.fork THEN status' = [status EXCEPT !.gm = 0] /\ chan' = chan \ {"gm"} /\ UNCHANGED wk
                        ELSE wk' = "run" /\ chan' = {"wk"} /\ UNCHANGED status
        /\ UNCHANGED qemu
     \/ /\ opts.fd /\ "fd" \in Faults
        /\ ready' \in BOOLEAN                \* the write or the close fails
        /\ ParentFails
        /\ UNCHANGED wk
  /\ UNCHANGED <<opts, r, localmountpoint, mounted, busy, dirty, state, told, pid_file, program, un>>

Setsid ==
  /\ wk = "setsid"
  /\ \/ wk' = "run" /\ UNCHANGED <<status, qemu, chan>>
     \/ "setsid" \in Faults /\ wk' = "done" /\ ExitFailure("wk")
  /\ UNCHANGED <<opts, gm, r, localmountpoint, mounted, busy, dirty, state, told, pid_file, ready, program, un>>

\* Mutant: the PID file goes before the hypervisor.
guestfs__mount_local_run_unlinks ==
  /\ wk = "run"
  /\ \/ opts.root /\ qemu = "running" /\ wk' = "loop" /\ UNCHANGED <<r, state>>
     \/ ~opts.root /\ qemu = "running" /\ wk' = "sync" /\ r' = -1 /\ UNCHANGED state
     \/ qemu # "running" /\ wk' = "sync" /\ r' = -1 /\ child_cleanup
  /\ pid_file' = "none"
  /\ UNCHANGED <<opts, gm, status, localmountpoint, mounted, chan, busy, dirty, qemu, told, ready, program, un>>

\* mount_local_run: guestfs_exists fails, and the mount is not served, when the guest has nothing on /
\* or the hypervisor has died.
guestfs__mount_local_run ==
  /\ wk = "run"
  /\ \/ opts.root /\ qemu = "running" /\ wk' = "loop" /\ UNCHANGED <<r, state>>
     \/ ~opts.root /\ qemu = "running" /\ wk' = "sync" /\ r' = -1 /\ UNCHANGED state
     \/ qemu # "running" /\ wk' = "sync" /\ r' = -1 /\ child_cleanup
  /\ UNCHANGED <<opts, gm, status, localmountpoint, mounted, chan, busy, dirty, qemu, told, pid_file, ready, program, un>>

\* fuse_loop returns when the mount is gone, or for an error.
LoopEnds ==
  /\ wk = "loop"
  /\ \/ ~mounted /\ UNCHANGED r
     \/ "loop" \in Faults /\ r' = -1
  /\ wk' = "sync"
  /\ guestfs___free_fuse("wk")
  /\ localmountpoint' = FALSE
  /\ UNCHANGED <<opts, gm, status, mounted, busy, dirty, qemu, state, told, pid_file, ready, program, un>>

\* Mutant: a failure to sync is forgotten.
Sync_forgets ==
  /\ wk = "sync"
  /\ \/ state = "CONFIG" /\ wk' = "close" /\ UNCHANGED <<dirty, state>>
     \/ /\ state = "READY" /\ wk' = "shutdown"
        /\ \/ qemu = "running" /\ dirty' = FALSE /\ UNCHANGED state
           \/ qemu # "running" /\ child_cleanup /\ UNCHANGED dirty
  /\ UNCHANGED <<opts, gm, r, status, localmountpoint, mounted, chan, busy, qemu, told, pid_file, ready, program, un>>

\* guestfs_shutdown, first part.  Once child_cleanup has run there is nothing to shut down, and it
\* succeeds; a death of the hypervisor that no call has met makes internal_autosync fail.
Sync ==
  /\ wk = "sync"
  /\ \/ state = "CONFIG" /\ wk' = "close" /\ UNCHANGED <<r, dirty, state>>
     \/ /\ state = "READY" /\ wk' = "shutdown"
        /\ \/ ~opts.sync /\ UNCHANGED <<r, dirty, state>>
           \/ opts.sync /\ qemu = "running" /\ dirty' = FALSE /\ UNCHANGED <<r, state>>
           \/ opts.sync /\ qemu = "running" /\ "sync" \in Faults /\ r' = -1 /\ UNCHANGED <<dirty, state>>
           \/ opts.sync /\ qemu # "running" /\ r' = -1 /\ child_cleanup /\ UNCHANGED dirty
  /\ UNCHANGED <<opts, gm, status, localmountpoint, mounted, chan, busy, qemu, told, pid_file, ready, program, un>>

\* Mutant: the hypervisor is not waited for.
Shutdown_nowait ==
  /\ wk = "shutdown" /\ wk' = "close" /\ state' = "CONFIG"
  /\ qemu' = IF qemu = "running" THEN "term" ELSE qemu
  /\ UNCHANGED <<opts, gm, r, status, localmountpoint, mounted, chan, busy, dirty, told, pid_file, ready, program, un>>

Shutdown ==
  /\ wk = "shutdown"
  /\ qemu' = IF qemu = "running" THEN "term" ELSE qemu
  /\ IF opts.fork THEN wk' = "close" /\ state' = "CONFIG" ELSE wk' = "wait" /\ UNCHANGED state
  /\ UNCHANGED <<opts, gm, r, status, localmountpoint, mounted, chan, busy, dirty, told, pid_file, ready, program, un>>

\* waitpid; a hypervisor that died, or did not exit with status 0, is an error.
Wait ==
  /\ wk = "wait" /\ qemu \in {"gone", "dead"}
  /\ wk' = "close" /\ state' = "CONFIG"
  /\ UNCHANGED r \/ ("qemu" \in Faults /\ r' = -1)
  /\ UNCHANGED <<opts, gm, status, localmountpoint, mounted, chan, busy, dirty, qemu, told, pid_file, ready, program, un>>

\* guestfs_close, and the end of main.
Close ==
  /\ wk = "close"
  /\ wk' = "unlink"
  /\ guestfs___free_fuse("wk")
  /\ UNCHANGED <<opts, gm, r, status, localmountpoint, mounted, busy, dirty, qemu, state, told, pid_file, ready, program, un>>

\* Mutant: the PID file stays.
Unlink_keeps ==
  /\ wk = "unlink" /\ wk' = "done"
  /\ status' = [status EXCEPT !.wk = IF r = 0 THEN 0 ELSE 1]
  /\ UNCHANGED <<opts, gm, r, localmountpoint, mounted, chan, busy, dirty, qemu, state, told, pid_file, ready, program, un>>

Unlink ==
  /\ wk = "unlink"
  /\ wk' = "done"
  /\ pid_file' = IF opts.pid_file THEN "none" ELSE pid_file
  /\ status' = [status EXCEPT !.wk = IF r = 0 THEN 0 ELSE 1]
  /\ UNCHANGED <<opts, gm, r, localmountpoint, mounted, chan, busy, dirty, qemu, state, told, ready, program, un>>

QemuExits ==
  /\ qemu = "term"
  /\ qemu' = "gone"
  /\ UNCHANGED <<opts, gm, wk, r, status, localmountpoint, mounted, chan, busy, dirty, state, told, pid_file, ready, program, un>>

\* The hypervisor dies by itself.  Nobody is told: the next call to the daemon meets the end of file.
QemuDies ==
  /\ "qemu" \in Faults /\ qemu = "running"
  /\ qemu' = "dead"
  /\ UNCHANGED <<opts, gm, wk, r, status, localmountpoint, mounted, chan, busy, dirty, state, told, pid_file, ready, program, un>>

-----------------------------------------------------------------------------
(* Programs that use the mount, and the program that guestunmount watches. *)

\* With a dead hypervisor a request is answered from the caches, or fails.
Use ==
  /\ wk = "loop" /\ mounted
  /\ busy' = TRUE
  /\ \/ qemu = "running" /\ dirty' \in {dirty, TRUE} /\ UNCHANGED <<state, told>>
     \/ qemu # "running" /\ UNCHANGED <<dirty, state, told>>
     \/ qemu # "running" /\ child_cleanup /\ told' = TRUE /\ UNCHANGED dirty
  /\ UNCHANGED <<opts, gm, wk, r, status, localmountpoint, mounted, chan, qemu, pid_file, ready, program, un>>

Leave ==
  /\ busy
  /\ busy' = FALSE
  /\ UNCHANGED <<mount, mounted, program, un>>

ProgramExits ==
  /\ program
  /\ program' = FALSE
  /\ UNCHANGED <<mount, mounted, busy, un>>

-----------------------------------------------------------------------------
(* guestunmount, run by the user, by the program (--fd) or by umount_local. *)

Begin(pc, retries) ==
  /\ un.pc \in {"idle", "done"}
  /\ Early \/ gm = "done"
  /\ un' = [Fresh EXCEPT !.pc = pc, !.retries = retries]
  /\ UNCHANGED <<mount, mounted, busy, program>>

guestunmount == \E retries \in Retries : Begin("try", retries)
guestunmount_fd == program /\ \E retries \in Retries : Begin("poll", retries)

\* umount_local: with or without retries, when the handle has a mount point.
guestfs__umount_local == ~opts.fork /\ localmountpoint /\ \E retries \in Retries : Begin("try", retries)

Ended(code) == un' = [un EXCEPT !.pc = "done", !.status = code]

\* POLLHUP; poll is tried again when it was interrupted.
Poll ==
  /\ un.pc = "poll" /\ ~program
  /\ un' = [un EXCEPT !.pc = "try"]
  /\ UNCHANGED <<mount, mounted, busy, program>>

\* What fusermount -u may say: "ok", "entry" (there is no such mount) or another error.
Answers ==
  (IF ~mounted THEN {"entry"} ELSE IF busy THEN {"busy"} ELSE {"ok"})
    \cup (IF "fusermount" \in Faults THEN {"busy"} ELSE {})

\* Mutant: one try too few.
do_fusermount_short ==
  /\ un.pc = "try"
  /\ \E a \in Answers :
       /\ mounted' = (mounted /\ a # "ok")
       /\ CASE a = "ok" -> Ended(0)
            [] a = "entry" -> un' = [un EXCEPT !.pc = "done", !.status = 2, !.absent = TRUE]
            [] a = "busy" -> un' = [un EXCEPT !.pc = IF un.i + 1 < un.retries THEN "sleep" ELSE "failed", !.i = @ + 1]
  /\ UNCHANGED <<mount, busy, program>>

\* Mutant: the tries are not counted.
do_fusermount_endless ==
  /\ un.pc = "try"
  /\ \E a \in Answers :
       /\ mounted' = (mounted /\ a # "ok")
       /\ CASE a = "ok" -> Ended(0)
            [] a = "entry" -> un' = [un EXCEPT !.pc = "done", !.status = 2, !.absent = TRUE]
            [] a = "busy" -> un' = [un EXCEPT !.pc = "sleep", !.i = 1, !.slept = 0]
  /\ UNCHANGED <<mount, busy, program>>

do_fusermount ==
  /\ un.pc = "try"
  /\ \/ \E a \in Answers :
          /\ mounted' = (mounted /\ a # "ok")
          /\ CASE a = "ok" -> Ended(0)
               [] a = "entry" -> un' = [un EXCEPT !.pc = "done", !.status = 2, !.absent = TRUE]
               [] a = "busy" -> un' = [un EXCEPT !.pc = IF un.i < un.retries THEN "sleep" ELSE "failed", !.i = @ + 1]
     \/ "pipe" \in Faults /\ Ended(1) /\ UNCHANGED mounted
  /\ UNCHANGED <<mount, busy, program>>

\* The values of the int 1 << n: undefined from 31 on, where the processor takes n modulo 32, or gives 0.
Shifted(n) == IF n < 31 THEN {2 ^ n} ELSE {0, 2 ^ (n % 32)}

Sleep ==
  /\ un.pc = "sleep"
  /\ \E seconds \in Shifted(un.i - 1) : un' = [un EXCEPT !.pc = "try", !.slept = @ + seconds]
  /\ UNCHANGED <<mount, mounted, busy, program>>

\* After the last try; do_fuser may fail to fork.
do_fuser ==
  /\ un.pc = "failed"
  /\ Ended(2) \/ ("fuser" \in Faults /\ Ended(1))
  /\ UNCHANGED <<mount, mounted, busy, program>>

-----------------------------------------------------------------------------
Parent == guestfs__mount_local \/ Daemonize \/ write_pid_file \/ write_pipe_fd
Worker ==
  \/ Setsid \/ guestfs__mount_local_run \/ LoopEnds
  \/ Sync \/ Shutdown \/ Wait \/ Close \/ Unlink
Unmounter == Poll \/ do_fusermount \/ Sleep \/ do_fuser

Next ==
  \/ Parent \/ Worker \/ Unmounter \/ QemuExits \/ QemuDies
  \/ guestunmount \/ guestunmount_fd \/ guestfs__umount_local
  \/ Use \/ Leave \/ ProgramExits

Spec == Init /\ [][Next]_vars

\* The processes run, and a hypervisor that has been sent SIGTERM ends.
FairSpec ==
  /\ Spec
  /\ WF_vars(Parent) /\ WF_vars(Worker) /\ WF_vars(Unmounter) /\ WF_vars(QemuExits)

-----------------------------------------------------------------------------
(* Properties. *)

TypeOK ==
  /\ opts \in Options
  /\ r \in {0, -1}
  /\ status \in [{"gm", "wk"} -> {0, 1, None}]
  /\ chan \subseteq {"gm", "wk"}
  /\ qemu \in {"running", "term", "gone", "dead"}
  /\ state \in {"READY", "CONFIG"} /\ told \in BOOLEAN
  /\ pid_file \in {"none", "partial", "worker"}
  /\ localmountpoint \in BOOLEAN /\ mounted \in BOOLEAN /\ busy \in BOOLEAN
  /\ dirty \in BOOLEAN /\ ready \in BOOLEAN /\ program \in BOOLEAN
  /\ un.i \in 0..un.retries + 1

\* While guestmount serves the mount nobody stops the hypervisor; it runs unless it has died by itself:
\* the parent, which shares the handle, goes without closing it, whatever it fails at.
Served == wk = "loop" => qemu \in {"running", "dead"}

\* When the worker of guestmount exits with success it has let go of the mount, and everything written
\* through the mount is in the disk image, but in two cases: --no-sync asked for less, or the
\* hypervisor has died and a program has had an error from the mount for it.  A death that no program
\* has seen is never a success.
SuccessIsSynced ==
  status.wk = 0 => (opts.sync /\ dirty => qemu = "dead" /\ told) /\ "wk" \notin chan /\ ~localmountpoint

\* Without a fork no hypervisor has the disk image open once guestmount is gone.
CaptiveIsSafe == ~opts.fork /\ status.wk # None => qemu \in {"gone", "dead"}

\* From the moment that the command returns until the cleanup is complete the PID file names the
\* worker ("Don't delete PID file until the cleanup has been completed"), so that a script that
\* reads it may wait for the worker.
PidFileKept ==
  opts.pid_file /\ gm = "done" /\ status.gm # 1 /\ wk # "done" =>
    pid_file = "worker"

\* The four of them, with the kinds of the variables.
MountIsSafe == TypeOK /\ Served /\ PidFileKept /\ SuccessIsSynced /\ CaptiveIsSafe

\* guestunmount gives up after retrying as often as it was told, having waited 1, 2, 4... seconds (as
\* long as an int holds the last of them).
GivesUpLate ==
  un.pc = "done" /\ un.status = 2 /\ ~un.absent =>
    un.i = un.retries + 1 /\ (un.retries < 32 => un.slept = 2 ^ un.retries - 1)

\* Once a served mount has been taken away guestmount cleans up: it ends, the hypervisor ends, and
\* there is no PID file.
CleansUp == (wk = "loop" /\ ~mounted) ~> (wk = "done" /\ qemu = "gone" /\ pid_file = "none")

\* guestunmount --fd unmounts when the program that it watches has exited, or says that it could not.
FdUnmounts == (un.pc = "poll" /\ ~program) ~> (un.pc = "done" /\ (~mounted \/ un.status = 2))

\* generator/actions.ml, of shutdown: "If the subprocess exits with an error then this function will
\* return an error".  The code does not have this property (README.md, "Known divergences").
ShutdownTells == status.wk = 0 /\ opts.sync => ~dirty

\* guestmount.pod, after waiting for the PID: "Now it is safe to use the disk image."
\* The code does not have this property (README.md, "Known divergences").
PidIsSafe == wk = "done" => qemu \in {"gone", "dead"}

\* guestmount.pod: "When the mountpoint is ready to be used, guestmount writes a single byte".
\* The code does not have this property (README.md, "Known divergences").
ReadyIsServed == ready /\ mounted => wk \in {"none", "setsid", "run", "loop"}

\* guestunmount.pod: exit status 3, "The mount point is not mounted."
\* The code does not have this property (README.md, "Known divergences").
NotMountedStatus == un.pc = "done" /\ un.absent => un.status = 3
=============================================================================
