------------------------------ MODULE CallPaths ------------------------------
(***************************************************************************)
(* The paths through a C function.                                         *)
(*                                                                         *)
(* A path is the sequence of the events of one execution: resources taken  *)
(* and given up, calls that set or spoil errno, the chroot entered and     *)
(* left, replies, and the return at its end.  A function is the set of its *)
(* paths: one for each way its calls may succeed or fail.  Values are left *)
(* out: a test of data may go either way.                                  *)
(*                                                                         *)
(* An operation that the code tests is a record: the paths on which it     *)
(* succeeds, ok, and those on which it fails, bad.                         *)
(*                                                                         *)
(* First what the library and the daemon share, then what the handlers of  *)
(* guestfsd do that matters outside one handler, then the same for the     *)
(* functions of the library.                                               *)
(***************************************************************************)
EXTENDS Integers, Sequences

\* The function that has this one path, of one event.
Ev(kind, what) == {<< <<kind, what>> >>}

Skip == {<<>>}

\* A path that has returned does not go on.
Ended(p) == p # <<>> /\ p[Len(p)][1] = "return"

\* A, then B.
A ** B == {a \in A : Ended(a)} \cup {a \o b : a \in {x \in A : ~Ended(x)}, b \in B}

Opt(A) == Skip \cup A

\* A loop, which goes round no more than twice.
Loop(A) == Skip \cup A \cup (A ** A)

\* The operation, and A or B after it as it succeeds or fails.
If(c, A, B) == (c.ok ** A) \cup (c.bad ** B)
Try(c, B) == If(c, Skip, B)

\* The operation, whatever becomes of it.
Ignore(c) == c.ok \cup c.bad

\* One operation after the other, failing when either fails.
Then(c, d) == [ok |-> c.ok ** d.ok, bad |-> c.bad \cup (c.ok ** d.bad)]

\* The operation with A before it, and with A after it whatever became of it.
After(A, c) == [ok |-> A ** c.ok, bad |-> A ** c.bad]
Before(c, A) == [ok |-> c.ok ** A, bad |-> c.bad ** A]

-----------------------------------------------------------------------------
(* Resources and errno *)

\* A resource is taken and given up, exactly in turn.
Get(r) == Ev("get", r)
Put(r) == Ev("put", r)

\* Memory behind a pointer that is NULL when there is none: it grows, and is freed, any number of times.
Grow(r) == Ev("grow", r)
Free(r) == Ev("free", r)

\* Memory is freed, and the pointer to it is kept.
Dangle(r) == Ev("dangle", r)

\* The caller owns it from now on.
Give(r) == Ev("free", r)

\* A failing call has set errno; any call outside this function may change it.
Errno == Ev("errno", "")
Host == Ev("host", "")

\* errno is kept in a local variable, and put back.
Save == Ev("save", "")
Restore == Ev("restore", "")

\* A test of data.
Test == [ok |-> Skip, bad |-> Skip]

\* A system call; malloc, strdup, asprintf; a program that is run, whose failure is no errno.
Sys == [ok |-> Host, bad |-> Host ** Errno]
Alloc == [ok |-> Skip, bad |-> Errno]
Command == [ok |-> Host, bad |-> Host]

\* An operation that yields a resource, and one that gives it up whether it fails or not.
Taking(r, c) == [ok |-> c.ok ** Get(r), bad |-> c.bad]
Growing(r, c) == [ok |-> c.ok ** Grow(r), bad |-> c.bad]
Open(r) == Taking(r, Sys)
Close(r) == Put(r)
Closing(r) == [ok |-> Put(r), bad |-> Put(r) ** Errno]

-----------------------------------------------------------------------------
(* Returning *)

Ok == Ev("return", "ok")
Bad == Ev("return", "bad")

\* A call of another function of the program, by the value it returns.
Returns(f, v) == {SubSeq(p, 1, Len(p) - 1) : p \in {q \in f : q[Len(q)][2] = v}}
Of(f) == [ok |-> Returns(f, "ok"), bad |-> Returns(f, "bad")]

\* A function that returns nothing to tell.
Run(f) == Ignore(Of(f))
-----------------------------------------------------------------------------
(* Errors *)

\* reply_with_perror, perrorf take errno; reply_with_error, error do not.
Perror == Ev("perror", "")
Error == Ev("error", "")
Fail == Perror ** Bad
FailMsg == Error ** Bad

\* A test of the arguments, or of data.
Refuse == Opt(FailMsg)

-----------------------------------------------------------------------------
(* guestfsd: the table *)

\* A handler of the table: does its stub test that a root is mounted, does it receive or send a file ("in",
\* "out", "none"), does it return a buffer with its size.  A Dev_or_Path argument makes two of one handler.
Proc(name, root, file, buffer, paths) ==
  [name |-> name, root |-> root, file |-> file, buffer |-> buffer, paths |-> paths]
OnPath(name, paths) == Proc(name, TRUE, "none", FALSE, paths)
OnDevice(name, paths) == Proc(name, FALSE, "none", FALSE, paths)

-----------------------------------------------------------------------------
(* guestfsd: the chroot *)

\* CHROOT_IN and CHROOT_OUT, neither of which changes errno.
In == Ev("in", "")
Out == Ev("out", "")

\* A system call on a path of the guest, and one that opens it.
Guest == [ok |-> Ev("guest", ""), bad |-> Ev("guest", "") ** Errno]
Chroot(c) == [ok |-> In ** c.ok ** Out, bad |-> In ** c.bad ** Out]
GuestCall == Chroot(Guest)
GuestOpen(r) == Chroot(Taking(r, Guest))

\* sysroot_path, with which a path of the guest is named from outside, and sysroot_realpath.
sysroot_path == [ok |-> Ev("sysroot", ""), bad |-> Errno]
sysroot_realpath == Then(GuestCall, sysroot_path)

-----------------------------------------------------------------------------
(* guestfsd: replies *)

FailClosing(r) == Perror ** Close(r) ** Bad

\* NEED_ROOT
NeedRoot == FailMsg \cup Ev("root", "")

\* *size_r is set: the stub of a handler that returns a buffer takes that for success.
SetSize == Ev("size", "")

\* The last call of a handler decides what it returns.
Finish(c) == Try(c, Fail) ** Ok
FinishClosing(r) == Finish(Closing(r))
FinishCommand == Try(Command, FailMsg) ** Ok

-----------------------------------------------------------------------------
(* guestfsd: lists of strings *)

\* add_string and its variants: on failure they have replied and have freed the strings.
AddString(sb) == [ok |-> Grow(sb), bad |-> Errno ** Perror ** Free(sb)]
Add(sb) == Try(AddString(sb), Bad)

\* The end of a handler that returns its strings.
EndStrings(sb) == Add(sb) ** Give(sb) ** Ok

\* split_lines, and empty_list
split_lines == Loop(Add("lines")) ** EndStrings("lines")
empty_list == EndStrings("list")

-----------------------------------------------------------------------------
(* guestfsd: programs *)

\* A program whose output the handler keeps, whether it fails or not.
CommandOut(r) == [ok |-> Host ** Grow(r), bad |-> Host ** Grow(r)]

\* With COMMAND_FLAG_CHROOT_COPY_FILE_TO_STDIN commandrvf closes the descriptor it is given.
CommandStdin(r) == Before(Command, Close(r))

\* udev_settle
udev_settle == Host

-----------------------------------------------------------------------------
(* guestfsd: files *)

\* receive_file: all has been received; writing fails, and the rest is still to come; the library cancels.
Receive(failed, cancelled) ==
  (Host ** Ev("received", "")) \cup (Host ** failed) \cup (Host ** Ev("received", "") ** cancelled)

\* cancel_receive
Cancel == Host ** Ev("received", "")

\* The errno of a failed call is kept across cancel_receive.
SaveAndCancel_lost == Cancel
SaveAndCancel == Save ** Cancel ** Restore

\* reply, called by a handler that sends a file
Reply == Ev("reply", "")

\* send_file_write, which ends the file itself when the library cancels; send_file_end.
Send == [ok |-> Host, bad |-> Ev("end", "")]
EndFile == Ev("end", "")

\* pulse_mode_start, pulse_mode_end, pulse_mode_cancel, which does not change errno
PulseStart == Grow("pulse")
PulseEnd == Host ** Free("pulse")
PulseCancel == Free("pulse")
-----------------------------------------------------------------------------
(* The library: the table *)

\* A function of the table.
Fn(name, paths) == [name |-> name, paths |-> paths]

-----------------------------------------------------------------------------
(* The library: errors *)

\* guestfs_push_error_handler (g, NULL, NULL), guestfs_pop_error_handler, and both around an operation.
Push == Ev("push", "")
Pop == Ev("pop", "")
Quietly(c) == [ok |-> Push ** c.ok ** Pop, bad |-> Push ** c.bad ** Pop]

-----------------------------------------------------------------------------
(* The library: calls.  A function that fails has set the error of the handle, and one that succeeds has *)
(* shown none: its callers rely on that, so a call of a large function stands for what it promises (Call), *)
(* and the function itself is in the table of those that must keep the promise. *)

\* An action of the API, or a function of the library that keeps the promise.
Call == [ok |-> Host, bad |-> Host ** Error]

\* It returns a pointer, which is used without a test or after one.
Yields(r, c) == [ok |-> c.ok, bad |-> c.bad ** Ev("null", r)]
Use(r) == Ev("use", r)

\* Calls in a row whose failures are ignored: one error shown is as good as more.
Checks == Ignore(Call)

\* The function fails when the call does.
Must(c) == Try(c, Bad)
MustSys(c) == Try(c, Fail)

-----------------------------------------------------------------------------
(* The library: child processes *)

\* fork: the child ends by _exit, and the parent has a child to wait for.
Exit == Ev("return", "exit")
Fork(child, failed) ==
  (Host ** Errno ** failed) \cup (Ev("child", "") ** child) \cup (Host ** Get("pid"))
Wait == Put("pid")
=============================================================================
