----------------------------- MODULE GuestfsRPC -----------------------------
(***************************************************************************)
(* The conversation between libguestfs (src/proto.c, the generated actions *)
(* of generator/c.ml) and its daemon in the appliance (daemon/proto.c,     *)
(* upload.c, tar.c, checksum.c): calls and replies, files sent in chunks   *)
(* either way, cancellation by either side, progress messages, a daemon    *)
(* that dies.  Two bounded byte streams connect the two; a message is      *)
(* written and read whole.                                                 *)
(***************************************************************************)
EXTENDS Naturals, Sequences

CONSTANTS
  Kinds,       \* the kinds of calls made: "call", "upload" (FileIn), "download" (FileOut)
  LibFaults,   \* what fails in the library: "open", "read", "write", "close"
  DaemonFaults,\* what fails in the daemon: "open", "read", "write", "close", "args", "exit"
  UserCancels, \* is guestfs_user_cancel called
  MaxCalls,    \* bound: calls
  MaxChunks,   \* bound: data chunks of a file
  MaxProgress, \* bound: progress messages of a call
  Cap          \* messages a socket holds before its writer blocks

RPCBounds == MaxCalls \in Nat /\ MaxChunks \in Nat /\ MaxProgress \in Nat /\ Cap \in Nat \ {0}
RPCKinds == Kinds \subseteq {"call", "upload", "download"} /\ UserCancels \in BOOLEAN

VARIABLES
  ready,   \* g->state = READY and g->conn # NULL
  lpc,     \* where the library is
  kind,    \* the call's kind
  serial,  \* g->msg_next_serial of the call
  out,     \* the message the library is about to write
  after,   \* where guestfs___send_file returns to after a cancellation chunk
  cancel,  \* g->user_cancel
  stopped, \* has guestfs___recv_file stopped because of user_cancel
  err,     \* g->last_errnum, as set during this call
  ret,     \* what the last call returned
  size,    \* data chunks of the file being sent
  sent,    \* of which were sent
  stored,  \* and written by the receiver
  up,      \* library to daemon
  down,    \* daemon to library
  dpc,     \* where the daemon is
  dproc,   \* the daemon's proc_nr, as the kind of call
  dser,    \* and serial
  dout,    \* the message the daemon is about to write
  ticks,   \* progress messages sent for this call
  due,     \* is the daemon writing one
  lost     \* has either side read a message it cannot make sense of

libVars == <<ready, lpc, kind, serial, out, after, cancel, stopped, err, ret>>
fileVars == <<size, sent, stored>>
daemonVars == <<dpc, dproc, dser, dout, ticks, due>>
vars == <<libVars, fileVars, up, down, daemonVars, lost>>

Request(k, s) == [t |-> "request", kind |-> k, serial |-> s]
Chunk(c) == [t |-> "chunk", c |-> c]  \* c is "data", "end" or "cancel"
Reply(st, s) == [t |-> "reply", status |-> st, serial |-> s]
CANCEL == [t |-> "cancelflag"]
PROGRESS == [t |-> "progress"]

Chunks == {Chunk(c) : c \in {"data", "end", "cancel"}}
ToDaemon == {Request(k, s) : k \in Kinds, s \in 1..MaxCalls} \cup Chunks \cup {CANCEL}
ToLibrary == {Reply(st, s) : st \in {"ok", "error"}, s \in 0..MaxCalls} \cup Chunks \cup {CANCEL, PROGRESS}

\* Every variable has a value of its kind, and no socket holds more than it can.
TypeOK ==
  /\ ready \in BOOLEAN /\ cancel \in BOOLEAN /\ stopped \in BOOLEAN /\ lost \in BOOLEAN
  /\ lpc \in {"idle", "check", "write", "file", "recv", "discard", "recvfile", "rfcancel", "rfdiscard"}
  /\ kind \in Kinds \cup {"none"} /\ dproc \in Kinds \cup {"none"} /\ serial \in 0..MaxCalls /\ dser \in 0..MaxCalls
  /\ out \in ToDaemon /\ after \in {"recv", "discard"}
  /\ err \in {"unset", "EINTR", "other"} /\ ret \in {"none", "ok", "error"}
  /\ size \in 0..MaxChunks /\ sent \in 0..size /\ stored \in 0..size
  /\ up \in Seq(ToDaemon) /\ down \in Seq(ToLibrary) /\ Len(up) <= Cap /\ Len(down) <= Cap
  /\ dpc \in {"main", "recv", "cancel", "discard", "replyok", "replyerr", "check", "write", "exited"}
  /\ dout \in Chunks /\ ticks \in 0..MaxProgress /\ due \in BOOLEAN

\* The appliance has been launched.
Init ==
  /\ ready = TRUE /\ lpc = "idle" /\ kind = "none" /\ serial = 0 /\ out = CANCEL /\ after = "recv"
  /\ cancel = FALSE /\ stopped = FALSE /\ err = "unset" /\ ret = "none"
  /\ size = 0 /\ sent = 0 /\ stored = 0 /\ up = <<>> /\ down = <<>>
  /\ dpc = "main" /\ dproc = "none" /\ dser = 0 /\ dout = Chunk("end") /\ ticks = 0 /\ due = FALSE /\ lost = FALSE

-----------------------------------------------------------------------------
(* Library *)

LibGoto(p) == lpc' = p
Return(r) == lpc' = "idle" /\ ret' = r
EOF == dpc = "exited" /\ down = <<>>

\* error (): the errno of the first error stands for all of them.
Error(e) == err' = IF err = "unset" THEN e ELSE err

\* child_cleanup: the connection is freed and the handle is in state CONFIG again.
child_cleanup == ready' = FALSE /\ Error("other")

\* A generated action up to guestfs___send, with a file of n chunks.
Call(k, n) ==
  /\ lpc = "idle" /\ serial < MaxCalls
  /\ serial' = serial + 1 /\ kind' = k /\ stopped' = FALSE
  /\ IF ready
     THEN /\ out' = Request(k, serial + 1) /\ LibGoto("check")
          /\ err' = "unset" /\ ret' = "none" /\ size' = n /\ sent' = 0 /\ stored' = 0
     ELSE ret' = "error" /\ err' = "other" /\ UNCHANGED <<lpc, out, fileVars>>
  /\ UNCHANGED <<ready, after, cancel, up, down, daemonVars, lost>>

\* guestfs___send_file gives up: the cancellation chunk goes first.
SendCancellation(then) == out' = Chunk("cancel") /\ after' = then /\ LibGoto("check")

\* Mutant: the library reads the reply without ending the file first.
Cancelled_silent ==
  LibGoto(IF out.t = "request" THEN "write" ELSE "recv") /\ UNCHANGED <<out, after>>

\* What check_daemon_socket's caller does when it returns -2.
Cancelled ==
  CASE out.t = "request" -> LibGoto("write") /\ UNCHANGED <<out, after>>
    [] out = Chunk("cancel") -> LibGoto(after) /\ UNCHANGED <<out, after>>
    [] OTHER -> SendCancellation("recv")

\* What the callers of check_daemon_socket and write_data do when these fail.
SendFails ==
  /\ IF out.t = "request" THEN Return("error")
     ELSE LibGoto(IF out = Chunk("cancel") THEN after ELSE "discard") /\ UNCHANGED ret
  /\ UNCHANGED <<out, after>>

\* Mutant: the library writes without looking for messages first.
check_daemon_socket_blind ==
  /\ lpc = "check" /\ LibGoto("write")
  /\ UNCHANGED <<ready, kind, serial, out, after, cancel, stopped, err, ret, fileVars, up, down, daemonVars, lost>>

\* check_daemon_socket: one round of its loop.
check_daemon_socket ==
  /\ lpc = "check"
  /\ \/ /\ EOF /\ child_cleanup /\ SendFails /\ UNCHANGED <<down, lost>>
     \/ /\ down = <<>> /\ ~EOF
        /\ LibGoto("write") /\ UNCHANGED <<ready, err, ret, out, after, down, lost>>
     \/ /\ down # <<>> /\ down' = Tail(down) /\ UNCHANGED ready
        /\ CASE Head(down) = PROGRESS -> UNCHANGED <<lpc, err, ret, out, after, lost>>
             [] Head(down) = CANCEL -> Cancelled /\ UNCHANGED <<err, ret, lost>>
             [] OTHER -> Error("other") /\ SendFails /\ lost' = TRUE
  /\ UNCHANGED <<kind, serial, cancel, stopped, fileVars, up, daemonVars>>

\* Mutant: a file that cannot be opened is cancelled without an error.
RequestWritten_mute ==
  IF kind # "upload" THEN LibGoto("recv") /\ UNCHANGED <<cancel, err, out, after>>
  ELSE cancel' = FALSE /\ UNCHANGED err
       /\ \/ LibGoto("file") /\ UNCHANGED <<out, after>>
          \/ SendCancellation("discard")

\* The request is written; an upload begins with open (), which may fail.
RequestWritten ==
  IF kind # "upload" THEN LibGoto("recv") /\ UNCHANGED <<cancel, err, out, after>>
  ELSE /\ cancel' = FALSE
       /\ \/ LibGoto("file") /\ UNCHANGED <<err, out, after>>
          \/ "open" \in LibFaults /\ Error("other") /\ SendCancellation("discard")

\* write_data of a request or a chunk; a dead daemon's socket gives EPIPE.
write_data ==
  /\ lpc = "write"
  /\ \/ /\ dpc = "exited" /\ child_cleanup /\ SendFails /\ UNCHANGED <<cancel, sent, up>>
     \/ /\ dpc # "exited" /\ Len(up) < Cap /\ up' = Append(up, out)
        /\ CASE out.t = "request" -> RequestWritten /\ UNCHANGED sent
             [] out = Chunk("data") ->
                  sent' = sent + 1 /\ LibGoto("file") /\ UNCHANGED <<cancel, err, out, after>>
             [] OTHER -> /\ LibGoto(IF out = Chunk("end") THEN "recv" ELSE after)
                         /\ UNCHANGED <<cancel, err, out, after, sent>>
        /\ UNCHANGED <<ready, ret>>
  /\ UNCHANGED <<kind, serial, stopped, size, stored, down, daemonVars, lost>>

\* guestfs___send_file: one round of the loop, or what follows it.
send_file ==
  /\ lpc = "file"
  /\ \/ cancel /\ Error("EINTR") /\ SendCancellation("discard")
     \/ /\ ~cancel
        /\ \/ "read" \in LibFaults /\ Error("other") /\ SendCancellation("discard")
           \/ /\ sent = size /\ "close" \in LibFaults
              /\ Error("other") /\ SendCancellation("discard")
           \/ /\ out' = Chunk(IF sent < size THEN "data" ELSE "end")
              /\ LibGoto("check") /\ UNCHANGED <<err, after>>
  /\ UNCHANGED <<ready, kind, serial, cancel, stopped, ret, fileVars, up, down, daemonVars, lost>>

\* guestfs___recv_from_daemon: end of file, or a message that its callers pass over or take.
RecvEOF == EOF /\ child_cleanup /\ Return("error") /\ UNCHANGED <<cancel, down, lost>>
Skip(ms) ==
  /\ down # <<>> /\ Head(down) \in ms /\ down' = Tail(down)
  /\ UNCHANGED <<ready, lpc, cancel, err, ret, lost>>
Take == down # <<>> /\ down' = Tail(down) /\ UNCHANGED ready

\* Mutant: a cancellation flag that comes instead of the reply ends the call.
guestfs_recv_flag ==
  /\ lpc = "recv" /\ Take /\ UNCHANGED <<cancel, lost>>
  /\ IF Head(down) = PROGRESS THEN UNCHANGED <<lpc, ret, err>>
     ELSE Return(IF Head(down) = Reply("ok", serial) THEN "ok" ELSE "error") /\ Error("other")
  /\ UNCHANGED <<kind, serial, out, after, stopped, fileVars, up, daemonVars>>

\* guestfs___recv and guestfs___check_reply_header; a download goes on with its file, whose open ()
\* may fail.
guestfs_recv ==
  /\ lpc = "recv"
  /\ \/ ~ready /\ Return("error") /\ Error("other") /\ UNCHANGED <<ready, cancel, down, lost>>
     \/ ready /\ RecvEOF
     \/ ready /\ Skip({PROGRESS, CANCEL})
     \/ ready /\ Take /\ Head(down) \notin {PROGRESS, CANCEL}
        /\ IF Head(down) = Reply("ok", serial)
           THEN IF kind # "download" THEN Return("ok") /\ UNCHANGED <<cancel, err, lost>>
                ELSE /\ cancel' = FALSE /\ UNCHANGED <<ret, lost>>
                     /\ \/ LibGoto("recvfile") /\ UNCHANGED err
                        \/ "open" \in LibFaults /\ Error("other") /\ LibGoto("rfcancel")
           ELSE /\ Return("error") /\ Error("other") /\ UNCHANGED cancel
                /\ lost' = (lost \/ Head(down) # Reply("error", serial))
  /\ UNCHANGED <<kind, serial, out, after, stopped, fileVars, up, daemonVars>>

\* guestfs___recv_discard, after the library itself cancelled an upload.
guestfs_recv_discard ==
  /\ lpc = "discard"
  /\ \/ ~ready /\ Return("error") /\ Error("other") /\ UNCHANGED <<ready, cancel, down, lost>>
     \/ ready /\ RecvEOF
     \/ ready /\ Skip({PROGRESS, CANCEL})
     \/ ready /\ Take /\ Head(down) \notin {PROGRESS, CANCEL}
        /\ Return("error") /\ lost' = (lost \/ Head(down).t # "reply") /\ UNCHANGED <<cancel, err>>
  /\ UNCHANGED <<kind, serial, out, after, stopped, fileVars, up, daemonVars>>

\* Mutant: the cancel field of the last chunk is not looked at.
EndOfFile_any(m, r) == Return(r) /\ UNCHANGED <<err, lost>>

\* receive_file_data on a message that ends the transfer: r is what its caller returns at the end
\* of the file.
EndOfFile(m, r) ==
  CASE m = Chunk("end") -> Return(r) /\ UNCHANGED <<err, lost>>
    [] m = Chunk("cancel") ->
         Return("error") /\ Error(IF cancel THEN "EINTR" ELSE "other") /\ UNCHANGED lost
    [] OTHER -> Return("error") /\ Error("other") /\ lost' = TRUE

\* guestfs___recv_file: one chunk.  write () and close () may fail; user_cancel is tested after
\* every chunk.
guestfs_recv_file ==
  /\ lpc = "recvfile"
  /\ \/ RecvEOF /\ UNCHANGED <<stopped, stored>>
     \/ Skip({PROGRESS}) /\ UNCHANGED <<stopped, stored>>
     \/ /\ Take /\ Head(down) = Chunk("data") /\ UNCHANGED <<cancel, lost, ret>>
        /\ \/ "write" \in LibFaults /\ Error("other") /\ LibGoto("rfcancel") /\ UNCHANGED <<stopped, stored>>
           \/ /\ stored' = stored + 1 /\ stopped' = cancel /\ UNCHANGED err
              /\ LibGoto(IF cancel THEN "rfcancel" ELSE "recvfile")
     \/ /\ Take /\ Head(down) \notin {PROGRESS, Chunk("data")} /\ UNCHANGED <<cancel, stored, stopped>>
        /\ \/ EndOfFile(Head(down), "ok")
           \/ /\ "close" \in LibFaults /\ Head(down) = Chunk("end")
              /\ Return("error") /\ Error("other") /\ UNCHANGED lost
  /\ UNCHANGED <<kind, serial, out, after, size, sent, up, daemonVars>>

\* guestfs___recv_file at "cancel:"; a failing write is noticed by the next read.
recv_file_cancel ==
  /\ lpc = "rfcancel"
  /\ \/ dpc = "exited" /\ UNCHANGED up
     \/ dpc # "exited" /\ Len(up) < Cap /\ up' = Append(up, CANCEL)
  /\ LibGoto("rfdiscard")
  /\ UNCHANGED <<ready, kind, serial, out, after, cancel, stopped, err, ret, fileVars, down, daemonVars, lost>>

\* Mutant: the library does not wait for the daemon to end the file.
recv_file_discard_early ==
  /\ lpc = "rfdiscard" /\ Return("error") /\ Error("other")
  /\ UNCHANGED <<ready, kind, serial, out, after, cancel, stopped, fileVars, up, down, daemonVars, lost>>

\* guestfs___recv_file, throwing data away until the daemon ends the file.
recv_file_discard ==
  /\ lpc = "rfdiscard"
  /\ \/ RecvEOF
     \/ Skip({PROGRESS, Chunk("data")})
     \/ Take /\ Head(down) \notin {PROGRESS, Chunk("data")} /\ UNCHANGED cancel
        /\ EndOfFile(Head(down), "error")
  /\ UNCHANGED <<kind, serial, out, after, stopped, fileVars, up, daemonVars>>

\* guestfs_user_cancel, from another thread or a signal handler.
guestfs_user_cancel ==
  /\ UserCancels /\ ~cancel /\ lpc # "idle" /\ cancel' = TRUE
  /\ UNCHANGED <<ready, lpc, kind, serial, out, after, stopped, err, ret, fileVars, up, down, daemonVars, lost>>

Library ==
  \/ check_daemon_socket \/ write_data \/ send_file \/ guestfs_recv \/ guestfs_recv_discard
  \/ guestfs_recv_file \/ recv_file_cancel \/ recv_file_discard

-----------------------------------------------------------------------------
(* Daemon *)

Goto(p) == dpc' = p
Read == up # <<>> /\ up' = Tail(up)
Send(m) == Len(down) < Cap /\ down' = Append(down, m)

\* What the steps of the daemon have in common: none is made while a progress message is written.
dunch == ~due /\ UNCHANGED <<libVars, size>>

\* notify_progress: a message is due if enough time has passed since the last one.
notify_progress ==
  \/ due' = FALSE /\ UNCHANGED ticks
  \/ ticks < MaxProgress /\ due' = TRUE /\ ticks' = ticks + 1

\* The generated stub and the handler up to the transfer.  A stub that rejects its arguments, and a
\* handler that cannot open its file, cancel an upload first; do_tar_in (unknown compression) and
\* do_upload_offset (negative offset) do not.
dispatch_incoming_message(m) ==
  /\ dproc' = m.kind /\ dser' = m.serial /\ ticks' = 0 /\ UNCHANGED <<dout, lost>>
  /\ CASE m.kind = "upload" -> \/ Goto("recv")
                               \/ "open" \in DaemonFaults /\ Goto("cancel")
                               \/ "args" \in DaemonFaults /\ Goto("replyerr")
       [] OTHER -> \/ Goto("replyok")
                   \/ "open" \in DaemonFaults /\ Goto("replyerr")

\* main_loop: a stray cancellation is ignored.
main_loop ==
  /\ dpc = "main" /\ Read
  /\ CASE Head(up).t = "request" -> dispatch_incoming_message(Head(up))
       [] Head(up) = CANCEL -> UNCHANGED <<dpc, dproc, dser, dout, ticks, lost>>
       [] OTHER -> /\ lost' = TRUE /\ dpc' \in {"exited", "replyerr"}
                   /\ UNCHANGED <<dproc, dser, dout, ticks>>
  /\ dunch /\ UNCHANGED <<sent, stored, down, due>>

\* Mutant: a handler that gives up does not wait for the library to stop sending.
cancel_receive_no_drain ==
  /\ dpc = "cancel" /\ Send(CANCEL) /\ Goto("replyerr")
  /\ dunch /\ UNCHANGED <<sent, stored, up, dproc, dser, dout, ticks, due, lost>>

\* cancel_receive: the flag is written, then the rest is read and thrown away.
cancel_receive ==
  /\ dpc = "cancel" /\ Send(CANCEL) /\ Goto("discard")
  /\ dunch /\ UNCHANGED <<sent, stored, up, dproc, dser, dout, ticks, due, lost>>

\* Mutant: no reply to an upload that the library cancelled.
receive_file_no_reply ==
  /\ dpc \in {"recv", "discard"} /\ Read
  /\ Goto(CASE Head(up) = Chunk("cancel") -> "main"
            [] Head(up) = Chunk("end") -> IF dpc = "recv" THEN "replyok" ELSE "replyerr"
            [] OTHER -> dpc)
  /\ stored' = IF dpc = "recv" /\ Head(up) = Chunk("data") THEN stored + 1 ELSE stored
  /\ dunch /\ UNCHANGED <<sent, down, dproc, dser, dout, ticks, due, lost>>

\* receive_file: one chunk, with the callback (dpc = "recv") or without (dpc = "discard"), and what
\* upload () and do_tar_in do with its result.  The end of the file means close () or pclose ().
receive_file ==
  /\ dpc \in {"recv", "discard"} /\ Read
  /\ IF dpc = "recv" /\ Head(up) = Chunk("data")
     THEN /\ UNCHANGED lost
          /\ \/ stored' = stored + 1 /\ notify_progress /\ UNCHANGED dpc
             \/ "write" \in DaemonFaults /\ Goto("cancel") /\ UNCHANGED <<stored, ticks, due>>
     ELSE /\ UNCHANGED <<stored, ticks, due>>
          /\ CASE Head(up) \in {CANCEL, Chunk("data")} -> UNCHANGED <<dpc, lost>>
               [] Head(up) = Chunk("cancel") -> Goto("replyerr") /\ UNCHANGED lost
               [] Head(up) = Chunk("end") ->
                    /\ UNCHANGED lost
                    /\ \/ Goto(IF dpc = "recv" THEN "replyok" ELSE "replyerr")
                       \/ "close" \in DaemonFaults /\ Goto("replyerr")
               [] OTHER -> lost' = TRUE /\ Goto(IF dpc = "recv" THEN "cancel" ELSE "replyerr")
  /\ dunch /\ UNCHANGED <<sent, down, dproc, dser, dout>>

\* reply: success; then a download sends its file.
reply ==
  /\ dpc = "replyok" /\ Send(Reply("ok", dser))
  /\ Goto(IF dproc = "download" THEN "check" ELSE "main")
  /\ dunch /\ UNCHANGED <<sent, stored, up, dproc, dser, dout, ticks, due, lost>>

\* reply_with_error, by way of send_error.
send_error ==
  /\ dpc = "replyerr" /\ Send(Reply("error", dser)) /\ Goto("main")
  /\ dunch /\ UNCHANGED <<sent, stored, up, dproc, dser, dout, ticks, due, lost>>

\* check_for_library_cancellation: one word is read if there is one; a word that is not the flag is
\* reported and counts as none.  Gives the chunk to send in place of dout' = "data".
check_for_library_cancellation ==
  \/ up = <<>> /\ dout' = Chunk("data") /\ UNCHANGED <<up, lost>>
  \/ /\ Read /\ dout' = Chunk(IF Head(up) = CANCEL THEN "cancel" ELSE "data")
     /\ lost' = (lost \/ Head(up) # CANCEL)

\* The handler's loop: read () the file, then send_file_write; at its end close () and send_file_end;
\* send_file_end (1) when either fails.
send_file_write ==
  /\ dpc = "check" /\ Goto("write")
  /\ \/ sent < size /\ check_for_library_cancellation
     \/ sent = size /\ dout' = Chunk("end") /\ UNCHANGED <<up, lost>>
     \/ /\ (IF sent < size THEN "read" ELSE "close") \in DaemonFaults
        /\ dout' = Chunk("cancel") /\ UNCHANGED <<up, lost>>
  /\ dunch /\ UNCHANGED <<sent, stored, down, dproc, dser, ticks, due>>

\* send_chunk: blocks while the socket is full.
send_chunk ==
  /\ dpc = "write" /\ Send(dout)
  /\ IF dout = Chunk("data") THEN sent' = sent + 1 /\ Goto("check") /\ notify_progress
     ELSE Goto("main") /\ UNCHANGED <<sent, ticks, due>>
  /\ dunch /\ UNCHANGED <<stored, up, dproc, dser, dout, lost>>

\* A handler without a file is at work: it calls notify_progress, or the pulse signal comes.
Pulse ==
  /\ dpc = "replyok" /\ dproc = "call" /\ notify_progress
  /\ dunch /\ UNCHANGED <<sent, stored, up, down, dpc, dproc, dser, dout, lost>>

\* A handler is at work, between its messages.
Working ==
  /\ dpc \in {"recv", "check", "replyok"}
  /\ (dpc = "replyok" => dproc = "call") /\ (dpc = "check" => sent > 0) /\ (dpc = "recv" => stored > 0)

\* The message is written; the handler waits for that while the socket is full.
notify_progress_no_ratelimit ==
  /\ due /\ Working /\ Send(PROGRESS) /\ due' = FALSE
  /\ UNCHANGED <<libVars, fileVars, up, dpc, dproc, dser, dout, ticks, lost>>

\* exit (EXIT_FAILURE), or the appliance dies.
Exit ==
  /\ "exit" \in DaemonFaults /\ dpc # "exited" /\ Goto("exited") /\ due' = FALSE
  /\ UNCHANGED <<libVars, fileVars, up, down, dproc, dser, dout, ticks, lost>>

Daemon ==
  \/ main_loop \/ cancel_receive \/ receive_file \/ reply \/ send_error \/ send_file_write \/ send_chunk
  \/ notify_progress_no_ratelimit

-----------------------------------------------------------------------------

Next ==
  \/ \E k \in Kinds, n \in 0..MaxChunks : (k = "call" => n = 0) /\ Call(k, n)
  \/ Library \/ guestfs_user_cancel \/ Daemon \/ Pulse \/ Exit

\* A process that can go on goes on; the user, the faults and the clock of the progress messages
\* owe nothing.
Fairness == WF_vars(Library) /\ WF_vars(Daemon)
Spec == Init /\ [][Next]_vars /\ Fairness

-----------------------------------------------------------------------------

\* Neither side ever reads a message that is not part of what it waits for: the two stay in step
\* over cancellations by both sides, stray flags and late progress messages
\* ("Lost protocol synchronization (bad!)", src/proto.c:201).
NeverLost == ~lost

\* A call that returns success moved the whole file: an upload is written and closed by the daemon,
\* a download by the library, with no chunk missing (guestfs___send_file, guestfs___recv_file).
OkMeansWhole == lpc = "idle" /\ ret = "ok" /\ kind # "call" => sent = size /\ stored = size

\* Between calls nothing is left in the pipe that the next call would trip over: from the daemon at
\* most one stray cancellation flag (guestfs___send passes over one), to the daemon only flags, and
\* the daemon is back in main_loop.
CleanBetweenCalls ==
  lpc = "idle" /\ ready /\ dpc # "exited" =>
    dpc = "main" /\ down \in {<<>>, <<CANCEL>>} /\ \A i \in DOMAIN up : up[i] = CANCEL

\* A call that returns an error says so: some error () was called on the way, unless guestfs___recv_file
\* stopped because the user asked it to (README.md, "Known divergences").
ErrorIsSet == lpc = "idle" /\ ret = "error" => err # "unset" \/ stopped

\* Library and daemon stay in step, unless a handler refuses the arguments of an upload and does not receive
\* its file (README.md, "Known divergences").
StaysInStep == "args" \notin DaemonFaults => TypeOK /\ NeverLost /\ CleanBetweenCalls

\* A call that returns success moved the whole file; one that fails has set the error of the handle, unless
\* it is a download that the user has cancelled.
CallResultIsTrue == "args" \notin DaemonFaults => OkMeansWhole /\ ErrorIsSet

\* Every call returns, whatever fails and whoever cancels: neither side waits for the other for ever
\* with sockets of bounded size.
EveryCallReturns == lpc # "idle" ~> lpc = "idle"

\* A daemon that has cancelled an upload hears of the library's end of it: "keep receiving chunks and
\* discarding, until library sees cancel" (daemon/proto.c:504).
DaemonCancelHeard == dpc = "discard" ~> dpc # "discard"

\* "When the daemon sees this, it cancels the whole RPC, does not send any reply, and goes back to
\* reading the next request" (src/guestfs.pod:3699, on the library's cancellation chunk).
\* The code does not have this property (README.md, "Known divergences").
CancelGetsNoReply == [][dpc = "recv" /\ receive_file /\ Head(up) = Chunk("cancel") => dpc' = "main"]_vars

\* A download that stopped because of guestfs_user_cancel returns with errno EINTR, as documented.
\* The code does not have this property (README.md, "Known divergences").
UserCancelIsEINTR == lpc = "idle" /\ stopped => err = "EINTR"

=============================================================================
