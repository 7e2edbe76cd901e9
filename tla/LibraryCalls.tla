----------------------------- MODULE LibraryCalls -----------------------------
(***************************************************************************)
(* One function of libguestfs after the other.  Fns is a table of          *)
(* functions, each with the paths it may take; any of them is taken, event *)
(* by event.                                                               *)
(***************************************************************************)
EXTENDS CallPaths

PathsReturn(Fns) == \A f \in Fns : \A path \in f.paths : Ended(path)

VARIABLES
  fn,      \* the name of the function that runs, or "none"
  todo,    \* what is left of its path
  held,    \* the resources it has
  stale,   \* the pointers it has to memory that is freed
  nulls,   \* the pointers that are NULL because a call failed, and the lists that lack the NULL at their end
  errno,   \* does errno tell of the last failure
  saved,   \* is the errno of that failure in a local variable
  told,    \* has the error of the handle been set
  shown,   \* has the caller's error handler been called
  pushed,  \* how many error handlers have been pushed
  child    \* is this the child process

vars == <<fn, todo, held, stale, nulls, errno, saved, told, shown, pushed, child>>

MaxPushed == 2

TypeOK ==
  /\ (fn # "none" => Ended(todo)) /\ {errno, saved, told, shown, child} \subseteq BOOLEAN
  /\ pushed \in 0..MaxPushed

Init ==
  /\ fn = "none" /\ todo = <<>> /\ held = {} /\ stale = {} /\ nulls = {} /\ errno = FALSE /\ saved = FALSE
  /\ told = FALSE /\ shown = FALSE /\ pushed = 0 /\ child = FALSE

begin(Fns) ==
  /\ fn = "none" /\ \E f \in Fns : fn' = f.name /\ todo' \in f.paths
  /\ UNCHANGED <<held, stale, nulls, errno, saved, told, shown, pushed, child>>

\* The next event is of one of these kinds.
At(kinds) == fn # "none" /\ Head(todo)[1] \in kinds
What == Head(todo)[2]
Go == todo' = Tail(todo) /\ UNCHANGED fn

\* A resource comes or goes; closing something may change errno, freeing memory does not.
resource ==
  /\ At({"get", "grow", "put", "free", "dangle"}) /\ Go
  /\ held' = (IF At({"get", "grow"}) THEN held \cup {What} ELSE held \ {What})
  /\ stale' = (IF At({"dangle"}) THEN stale \cup ({What} \cap held) ELSE stale)
  /\ errno' = (errno /\ ~At({"put"}))
  /\ UNCHANGED <<nulls, saved, told, shown, pushed, child>>

\* A pointer is NULL, and is used.
pointer ==
  /\ At({"null", "use"}) /\ Go /\ nulls' = (IF At({"null"}) THEN nulls \cup {What} ELSE nulls)
  /\ UNCHANGED <<held, stale, errno, saved, told, shown, pushed, child>>

\* A system call, a program or an action.
call ==
  /\ At({"host"}) /\ Go /\ errno' = FALSE
  /\ UNCHANGED <<held, stale, nulls, saved, told, shown, pushed, child>>

\* errno is set by a failure, kept, and put back.
set_errno ==
  /\ At({"errno", "save", "restore"}) /\ Go
  /\ errno' = (CASE At({"errno"}) -> TRUE [] At({"save"}) -> errno [] At({"restore"}) -> saved)
  /\ saved' = (IF At({"save"}) THEN errno ELSE saved)
  /\ UNCHANGED <<held, stale, nulls, told, shown, pushed, child>>

\* guestfs___error_errno, guestfs___perrorf: the error is set, and shown unless a null handler has been pushed.
set_error ==
  /\ At({"perror", "error"}) /\ Go /\ told' = TRUE /\ shown' = (shown \/ pushed = 0) /\ errno' = FALSE
  /\ UNCHANGED <<held, stale, nulls, saved, pushed, child>>

\* guestfs_push_error_handler, guestfs_pop_error_handler: with nothing on the stack the default handler is installed.
error_handler ==
  /\ At({"push", "pop"}) /\ Go
  /\ pushed' = (CASE At({"push"}) -> pushed + 1 [] At({"pop"}) /\ pushed > 0 -> pushed - 1 [] OTHER -> 0)
  /\ UNCHANGED <<held, stale, nulls, errno, saved, told, shown, child>>

\* The path goes on in the child.
forked ==
  /\ At({"child"}) /\ Go /\ child' = TRUE
  /\ UNCHANGED <<held, stale, nulls, errno, saved, told, shown, pushed>>

return ==
  /\ At({"return"}) /\ fn' = "none" /\ todo' = <<>> /\ held' = {} /\ stale' = {} /\ nulls' = {} /\ errno' = FALSE
  /\ saved' = FALSE /\ told' = FALSE /\ shown' = FALSE /\ pushed' = 0 /\ child' = FALSE

Next(Fns) ==
  \/ begin(Fns) \/ resource \/ pointer \/ call \/ set_errno \/ set_error \/ error_handler \/ forked \/ return

Spec(Fns) == Init /\ [][Next(Fns)]_vars

-----------------------------------------------------------------------------
(* Properties *)

Returning(value) == At({"return"}) /\ What = value

\* A function that fails has set the error of the handle: guestfs_last_error tells the caller of the library why.
ErrorSet == Returning("bad") => told

\* A function that succeeds has shown no error: failures that do not matter are kept from the user by pushing a
\* null error handler.
SuccessIsSilent == Returning("ok") => ~shown

\* Error handlers are popped on every path, or later errors would never be shown, and no more than were pushed.
HandlersPopped == (At({"return"}) => pushed = 0) /\ (At({"pop"}) => pushed > 0)

\* Whatever a function took it has given up, or returned, when it returns.
NothingHeld == At({"return"}) /\ ~child => held = {}

\* Nothing is closed or freed twice, or used when it has been freed, and nothing is taken again while it is held.
InTurn ==
  /\ At({"put"}) => What \in held
  /\ At({"get"}) => What \notin held
  /\ At({"grow", "free", "dangle"}) => What \notin stale

\* The NULL that a failing call returned is not used.
NoNullUse == At({"use"}) => What \notin nulls

\* perrorf tells of the call that failed, not of what cleaning up did to errno.
ErrnoOfFailure == At({"perror"}) => errno

\* The child ends and never returns into the caller's program, and the parent never ends it.
ChildEnds == At({"return"}) => (child <=> What = "exit")
=============================================================================
