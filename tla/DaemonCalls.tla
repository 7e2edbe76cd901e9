----------------------------- MODULE DaemonCalls -----------------------------
(***************************************************************************)
(* guestfsd runs one handler after the other.  Procs is the table of       *)
(* handlers, each with the paths it may take; the daemon takes any of them *)
(* event by event, the generated stub around it.                           *)
(***************************************************************************)
EXTENDS CallPaths

PathsReturn(Procs) == \A p \in Procs : \A path \in p.paths : Ended(path)

VARIABLES
  proc,     \* the handler that runs, without its paths, or Idle
  todo,     \* what is left of its path
  held,     \* the resources it has
  stale,    \* the pointers it has to memory that is freed
  chroot,   \* is the daemon inside the chroot
  errno,    \* does errno tell of the last failure
  saved,    \* is the errno of that failure in a local variable
  replies,  \* how many replies have been sent
  file,     \* the file of the call: "none", "open", "done"
  rooted,   \* has it been tested that a root is mounted
  sized     \* has *size_r been set

vars == <<proc, todo, held, stale, chroot, errno, saved, replies, file, rooted, sized>>

Idle == [name |-> "none"]
Kind(p) == [p EXCEPT !.paths = {}]

TypeOK ==
  /\ (proc # Idle => Ended(todo)) /\ {chroot, errno, saved, rooted, sized} \subseteq BOOLEAN
  /\ replies \in 0..3 /\ file \in {"none", "open", "done"}

Init ==
  /\ proc = Idle /\ todo = <<>> /\ held = {} /\ stale = {} /\ chroot = FALSE /\ errno = FALSE /\ saved = FALSE
  /\ replies = 0 /\ file = "none" /\ rooted = FALSE /\ sized = FALSE

\* The stub calls the handler.
begin(Procs) ==
  /\ proc = Idle
  /\ \E p \in Procs :
       /\ proc' = Kind(p) /\ todo' \in p.paths /\ rooted' = p.root
       /\ file' = (IF p.file = "in" THEN "open" ELSE "none")
  /\ UNCHANGED <<held, stale, chroot, errno, saved, replies, sized>>

\* The next event is of one of these kinds.
At(kinds) == proc # Idle /\ Head(todo)[1] \in kinds
What == Head(todo)[2]
Go == todo' = Tail(todo) /\ UNCHANGED proc

\* A resource comes or goes; closing something may change errno, freeing memory does not.
resource ==
  /\ At({"get", "grow", "put", "free", "dangle"}) /\ Go
  /\ held' = (IF At({"get", "grow"}) THEN held \cup {What} ELSE held \ {What})
  /\ stale' = (IF At({"dangle"}) THEN stale \cup ({What} \cap held) ELSE stale)
  /\ errno' = (errno /\ ~At({"put"}))
  /\ UNCHANGED <<chroot, saved, replies, file, rooted, sized>>

\* A system call or a program, in the appliance or on a path of the guest.
call ==
  /\ At({"host", "guest"}) /\ Go /\ errno' = FALSE
  /\ UNCHANGED <<held, stale, chroot, saved, replies, file, rooted, sized>>

\* errno is set by a failure, kept, and put back.
set_errno ==
  /\ At({"errno", "save", "restore"}) /\ Go
  /\ errno' = (CASE At({"errno"}) -> TRUE [] At({"save"}) -> errno [] At({"restore"}) -> saved)
  /\ saved' = (IF At({"save"}) THEN errno ELSE saved)
  /\ UNCHANGED <<held, stale, chroot, replies, file, rooted, sized>>

\* CHROOT_IN, CHROOT_OUT
enter_or_leave ==
  /\ At({"in", "out"}) /\ Go /\ chroot' = At({"in"})
  /\ UNCHANGED <<held, stale, errno, saved, replies, file, rooted, sized>>

\* reply_with_perror, reply_with_error; reply, after which the file is sent.
send_reply ==
  /\ At({"perror", "error", "reply"}) /\ Go /\ replies' = replies + 1 /\ errno' = FALSE
  /\ file' = (IF At({"reply"}) THEN "open" ELSE file)
  /\ UNCHANGED <<held, stale, chroot, saved, rooted, sized>>

\* The file has come or gone.
file_done ==
  /\ At({"received", "end"}) /\ Go /\ file' = "done" /\ errno' = FALSE
  /\ UNCHANGED <<held, stale, chroot, saved, replies, rooted, sized>>

\* NEED_ROOT, *size_r = ..., sysroot_path
note ==
  /\ At({"root", "size", "sysroot"}) /\ Go
  /\ rooted' = (rooted \/ At({"root"})) /\ sized' = (sized \/ At({"size"}))
  /\ UNCHANGED <<held, stale, chroot, errno, saved, replies, file>>

\* The handler returns.  The stub replies for it unless it reported a failure or sends a file.
StubReplies == (What = "ok" \/ (proc.buffer /\ sized)) /\ proc.file # "out"
return ==
  /\ At({"return"}) /\ proc' = Idle /\ todo' = <<>> /\ held' = {} /\ stale' = {} /\ errno' = FALSE /\ saved' = FALSE
  /\ replies' = 0 /\ file' = "none" /\ rooted' = FALSE /\ sized' = FALSE /\ UNCHANGED chroot

Next(Procs) ==
  \/ begin(Procs) \/ resource \/ call \/ set_errno \/ enter_or_leave \/ send_reply \/ file_done \/ note \/ return

Spec(Procs) == Init /\ [][Next(Procs)]_vars

-----------------------------------------------------------------------------
(* Properties *)

\* Every call is answered once, on every path: a handler that fails has sent its one error, and one that
\* succeeds has sent nothing unless it sends a file.  Without an answer the library waits for ever; a second
\* one is taken for the answer to the next call.
OneReply == replies <= 1 /\ (At({"return"}) => replies = IF StubReplies THEN 0 ELSE 1)

\* Whatever a handler took it has given up, or returned, when it returns.
NothingHeld == At({"return"}) => held = {}

\* Nothing is closed or freed twice, or used when it has been freed, and nothing is taken again while it is held.
InTurn ==
  /\ At({"put"}) => What \in held
  /\ At({"get"}) => What \notin held
  /\ At({"grow", "free", "dangle"}) => What \notin stale

\* Guest paths are resolved within the chroot and programs are run outside it; handlers return outside it.
ChrootRight ==
  /\ At({"guest"}) => chroot
  /\ At({"host", "perror", "error", "reply", "return"}) => ~chroot
  /\ At({"in"}) => ~chroot

\* No path of the guest is used, or named from outside, before it is known that a root filesystem is mounted.
GuestNeedsRoot == At({"guest", "sysroot"}) => rooted

\* reply_with_perror tells of the call that failed, not of what cleaning up did to errno.
ErrnoOfFailure == At({"perror"}) => errno

\* The file that comes with a call has been received or cancelled before the answer, or the rest of it would
\* be read as the next call; the file that follows an answer has been ended.
FileDone ==
  At({"perror", "error", "return"}) => file # "open"

\* Progress messages have stopped before the answer is sent.
PulseOver == At({"perror", "error", "reply", "return"}) => "pulse" \notin held
=============================================================================
