-------------------------- MODULE GuestfsRPCProofs --------------------------
(***************************************************************************)
(* Proofs about GuestfsRPC for any faults, numbers of calls and chunks and *)
(* any size of the sockets, if no handler refuses an upload's arguments:   *)
(* library and daemon stay in step, and what a call returns is true.       *)
(***************************************************************************)
EXTENDS GuestfsRPCSteps

-----------------------------------------------------------------------------
(* The steps of the library that receive *)

\* check_daemon_socket finds the socket empty.
LEMMA CheckEmptyIInv ==
  ASSUME Constants, IInv, lpc = "check", LibGoto("write"),
         UNCHANGED <<ready, kind, serial, out, after, cancel, stopped, err, ret, fileVars, up, down, daemonVars, lost>>
  PROVE  IInv'
  <1> USE DEF IInv, LibGoto, fileVars, daemonVars
  <1>a. /\ (Unsent' <=> Unsent) /\ (Sending' <=> Sending) /\ ~Waiting /\ ~Waiting' /\ ~Receiving /\ ~Receiving'
        /\ lpc' # "file" /\ lpc # "file"
    BY DEF Unsent, Sending, Waiting, Receiving
  <1>1. LibTypes' /\ FileTypes' /\ SocketTypes' /\ DaemonTypes' /\ lost' = FALSE
    BY DEF LibTypes, FileTypes, SocketTypes, DaemonTypes
  <1>2. LibInv' /\ DownInv'
    BY <1>a DEF LibInv, DownInv
  <1>3. DaemonInv'
    <2>1. MainInv => MainInv'
      BY <1>a DEF MainInv
    <2>2. (UploadInv => UploadInv') /\ (ReplyInv => ReplyInv') /\ (SendInv => SendInv')
      BY <1>a DEF UploadInv, ReplyInv, SendInv
    <2> QED BY <2>1, <2>2 DEF DaemonInv
  <1>4. FileInv'
    BY <1>a, SMTT(30) DEF FileInv
  <1>5. ErrInv'
    BY <1>a DEF ErrInv
  <1>6. OkMeansWhole' /\ ErrorIsSet'
    BY DEF OkMeansWhole, ErrorIsSet
  <1> QED BY <1>1, <1>2, <1>3, <1>4, <1>5, <1>6

\* check_daemon_socket reads a message.
LEMMA CheckReadIInv == ASSUME Constants, IInv, check_daemon_socket, down # <<>> PROVE IInv'
  <1>0. /\ lpc = "check" /\ down' = Tail(down) /\ UNCHANGED <<kind, serial, cancel, stopped, fileVars, up, daemonVars>>
        /\ Head(down) = PROGRESS => UNCHANGED <<lpc, err, ret, out, after, lost>>
        /\ Head(down) = CANCEL /\ Head(down) # PROGRESS => Cancelled /\ UNCHANGED <<err, ret, lost>>
    <2>1. lpc = "check" /\ UNCHANGED <<kind, serial, cancel, stopped, fileVars, up, daemonVars>>
      BY DEF check_daemon_socket
    <2>2. Head(down) = PROGRESS => UNCHANGED <<lpc, err, ret, out, after, lost>>
      BY Messages DEF check_daemon_socket, EOF
    <2>3. Head(down) = CANCEL /\ Head(down) # PROGRESS => Cancelled /\ UNCHANGED <<err, ret, lost>>
      BY DEF check_daemon_socket, EOF
    <2>4. down' = Tail(down)
      BY DEF check_daemon_socket, EOF
    <2> QED BY <2>1, <2>2, <2>3, <2>4
  <1>9. UNCHANGED ready
    BY DEF check_daemon_socket, EOF
  <1> USE <1>0, <1>9 DEF IInv, fileVars, daemonVars
  <1>a. ready /\ Sending /\ ~Unsent /\ ~Waiting /\ ~Receiving /\ kind = "upload" /\ ~Ended(up, Ends) /\ out \in Chunks
    <2>1. ready /\ ~Unsent
      BY DEF LibInv, DownInv, LibTypes
    <2>2. out = Request(kind, serial) \/ out \in Chunks
      BY DEF LibInv
    <2>3. out \in Chunks /\ out.t = "chunk"
      BY <2>1, <2>2, Messages DEF Unsent, Chunks
    <2>4. Sending /\ ~Waiting /\ ~Receiving
      BY <2>3, SMTT(30) DEF Sending, Waiting, Receiving
    <2> QED BY <2>1, <2>3, <2>4 DEF LibInv
  <1>b. out.t = "chunk" /\ Stream(down, Talk, {}) /\ dpc # "main"
    BY <1>a, Messages DEF Chunks, DownInv, DaemonInv, MainInv
  <1>c. (dpc # "exited" => dpc \in {"recv", "cancel", "discard"} /\ UploadInv) /\ (dpc = "recv" => Carries(up, sent - stored))
    <2>1. dpc # "exited" => dpc \in {"recv", "cancel", "discard"} /\ UploadInv
      BY <1>a, <1>b DEF DaemonInv, ReplyInv, SendInv, DaemonTypes
    <2> QED BY <2>1, <1>a DEF FileInv
  <1>d. down' = Tail(down) /\ UNCHANGED ready
    OBVIOUS
  <1>e. /\ down' \in Seq(ToLibrary) /\ Len(down') <= Cap /\ Stream(down', Talk, {}) /\ Head(down) \in Talk
        /\ Stream(down', Talk, Replies(serial)) /\ ~Ended(down', {Reply("ok", serial)})
    <2>1. down' \in Seq(ToLibrary) /\ Len(down') <= Cap /\ Stream(down', Talk, {}) /\ Head(down) \in Talk
      BY <1>b, <1>d, TakeFacts
    <2>2. Talk \cap Replies(serial) = {} /\ Talk \cap {Reply("ok", serial)} = {}
      BY Messages DEF Talk, Replies
    <2> QED BY <2>1, <2>2, StreamOpen, Zenon
  <1>f. /\ UNCHANGED <<err, ret>> /\ lost' = FALSE
        /\ \/ lpc' = "check" /\ UNCHANGED <<out, after>>
           \/ lpc' = after /\ out = Chunk("cancel") /\ UNCHANGED <<out, after>>
           \/ lpc' = "check" /\ out' = Chunk("cancel") /\ after' = "recv"
    <2>1. CASE Head(down) = PROGRESS
      BY <2>1
    <2>2. CASE Head(down) = CANCEL
      <3>1. Cancelled /\ UNCHANGED <<err, ret, lost>>
        BY <2>2, Messages
      <3> QED BY <3>1, <1>b DEF Cancelled, SendCancellation, LibGoto
    <2> QED BY <2>1, <2>2, <1>e, Zenon DEF Talk
  <1>g. \/ lpc' = "check" /\ Sending' /\ ~Waiting' /\ ~Receiving' /\ ~Unsent'
        \/ lpc' \in {"recv", "discard"} /\ ~Sending' /\ Waiting' /\ ~Receiving' /\ ~Unsent'
    BY <1>b, <1>f, Messages DEF Sending, Waiting, Receiving, Unsent, LibTypes
  <1>h. ~Ended(up, {Chunk("end")})
    BY <1>a, EndedIn DEF Ends
  <1>1. FileTypes' /\ SocketTypes' /\ DaemonTypes'
    BY <1>e DEF FileTypes, SocketTypes, DaemonTypes
  <1>2. LibTypes'
    <2>1. Chunk("cancel") \in ToDaemon
      BY Sorts DEF Ends
    <2> QED BY <2>1, <1>a, <1>f DEF LibTypes
  <1>3. LibInv' /\ DownInv'
    <2>1. Chunk("cancel") # Chunk("data") /\ Chunk("cancel") # Chunk("end") /\ Chunk("cancel") \in Chunks
      BY Messages DEF Chunks
    <2>2. LibInv'
      BY <2>1, <1>a, <1>f, <1>g DEF LibInv
    <2>3. DownInv'
      BY <1>a, <1>e, <1>g DEF DownInv
    <2> QED BY <2>2, <2>3
  <1>4. DaemonInv'
    BY <1>b, <1>c, <1>e, <1>g DEF DaemonInv, UploadInv
  <1>5. FileInv'
    BY <1>a, <1>b, <1>c, <1>e, <1>g, <1>h, SMTT(30) DEF FileInv
  <1>6. ErrInv'
    BY <1>a, <1>f DEF ErrInv, Sending, LibTypes
  <1>7. OkMeansWhole' /\ ErrorIsSet'
    BY <1>g DEF OkMeansWhole, ErrorIsSet
  <1> QED BY <1>f, <1>1, <1>2, <1>3, <1>4, <1>5, <1>6, <1>7

\* check_daemon_socket.
LEMMA CheckDaemonSocketIInv == ASSUME Constants, IInv, check_daemon_socket PROVE IInv'
  <1>1. CASE EOF /\ child_cleanup /\ SendFails /\ UNCHANGED <<down, lost>>
    <2>1. /\ lpc # "idle" /\ dpc = "exited"
          /\ UNCHANGED <<kind, serial, cancel, stopped, fileVars, up, down, daemonVars, lost>>
      BY <1>1 DEF check_daemon_socket, EOF
    <2>2. /\ lpc' \in {"idle", "recv", "discard"} /\ ret' \in {ret, "error"} /\ (lpc' = "idle" => ret' = "error")
          /\ UNCHANGED <<out, after>>
      BY <1>1 DEF SendFails, Return, LibGoto, IInv, LibTypes
    <2>3. lpc' = "discard" => kind = "upload"
      <3>1. lpc' = "discard" => out.t # "request"
        BY <1>1 DEF SendFails, Return
      <3> QED BY <3>1, Messages DEF check_daemon_socket, IInv, LibInv, Chunks, Sending
    <2> QED BY <1>1, <2>1, <2>2, <2>3, ClosedIInv
  <1>2. CASE down = <<>> /\ ~EOF
    BY <1>2, CheckEmptyIInv DEF check_daemon_socket
  <1> QED BY <1>1, <1>2, CheckReadIInv, Zenon DEF check_daemon_socket

\* The library passes over a progress message or a flag while it waits for a reply.
LEMMA SkipTalkIInv ==
  ASSUME Constants, IInv, ready, Waiting, down # <<>>, Head(down) \in Talk, down' = Tail(down),
         UNCHANGED <<libVars, fileVars, up, daemonVars, lost>>
  PROVE  IInv'
  <1> USE DEF IInv, libVars, fileVars, daemonVars
  <1>a. (Unsent' <=> Unsent) /\ (Sending' <=> Sending) /\ Waiting' /\ (Receiving' <=> Receiving)
    BY DEF Unsent, Sending, Waiting, Receiving
  <1>b. ~Unsent /\ ~Sending /\ ~Receiving /\ lpc # "idle" /\ lpc # "recvfile"
    BY DEF Unsent, Sending, Waiting, Receiving
  <1>c. Head(down) \notin Replies(serial) /\ Head(down) # Reply("ok", serial) /\ Head(down) # Reply("error", serial)
    BY Messages DEF Talk, Replies
  <1>d. kind # "download"
    <2>1. SUFFICES ASSUME kind = "download" PROVE FALSE
      OBVIOUS
    <2>2. down # <<Reply("error", serial)>>
      BY <1>c
    <2> QED BY <2>1, <2>2, <1>c DEF DownInv
  <1>e. /\ down' \in Seq(ToLibrary) /\ Len(down') <= Cap /\ Stream(down', Talk, Replies(serial))
        /\ Stream(down, Talk, {}) => Stream(down', Talk, {})
        /\ Ended(down, Replies(serial)) => Ended(down', Replies(serial))
        /\ Ended(down', {Reply("ok", serial)}) => Ended(down, {Reply("ok", serial)})
    <2>1. Stream(down, Talk, Replies(serial))
      BY <1>d DEF DownInv
    <2> QED BY <2>1, <1>c, TakeFacts
  <1>1. LibTypes' /\ FileTypes' /\ SocketTypes' /\ DaemonTypes' /\ lost' = FALSE
    BY <1>e, SMTT(30) DEF LibTypes, FileTypes, SocketTypes, DaemonTypes
  <1>2. LibInv' /\ DownInv'
    BY <1>a, <1>b, <1>d, <1>e DEF LibInv, DownInv
  <1>3. DaemonInv'
    <2>1. MainInv => MainInv'
      BY <1>a, <1>b, <1>d, <1>e DEF MainInv
    <2>2. (UploadInv => UploadInv') /\ (ReplyInv => ReplyInv') /\ ~SendInv
      BY <1>a, <1>d, <1>e DEF UploadInv, ReplyInv, SendInv
    <2> QED BY <2>1, <2>2 DEF DaemonInv
  <1>4. FileInv'
    BY <1>a, <1>b, <1>d, <1>e, SMTT(30) DEF FileInv
  <1>5. ErrInv'
    BY <1>a DEF ErrInv
  <1>6. OkMeansWhole' /\ ErrorIsSet'
    BY DEF OkMeansWhole, ErrorIsSet
  <1> QED BY <1>1, <1>2, <1>3, <1>4, <1>5, <1>6

\* What the library may find in the socket when it waits for a reply, apart from talk.
LEMMA ReplyFacts ==
  ASSUME Constants, IInv, ready, Waiting, down # <<>>, Head(down) \notin Talk, down' = Tail(down)
  PROVE  /\ Head(down) \in Replies(serial)
         /\ kind # "download" \/ Head(down) # Reply("ok", serial) =>
              /\ down' = <<>> /\ dpc \in {"main", "exited"} /\ (dpc = "main" => up = <<>>)
              /\ Ended(down, {Head(down)})
         /\ kind = "download" /\ Head(down) = Reply("ok", serial) => Stream(down', Filler, Ends)
  <1> USE DEF IInv
  <1>b. ~Unsent /\ ~Sending /\ ~Receiving /\ lpc # "idle"
    BY DEF Unsent, Sending, Waiting, Receiving
  <1>c. ~Stream(down, Talk, {})
    BY TakeFacts
  <1>d. dpc \in {"main", "check", "write", "exited"}
    BY <1>c DEF DaemonInv, UploadInv, ReplyInv, DaemonTypes
  <1>1. CASE kind # "download"
    <2>1. Stream(down, Talk, Replies(serial))
      BY <1>1 DEF DownInv
    <2>2. Head(down) \in Replies(serial) /\ down' = <<>> /\ Ended(down, {Head(down)})
      BY <2>1, TakeFacts
    <2>3. dpc \in {"main", "exited"}
      BY <1>1, <1>d DEF DaemonInv, SendInv
    <2>4. dpc = "main" => up = <<>>
      BY <1>1, <1>b DEF DaemonInv, MainInv
    <2> QED BY <1>1, <2>2, <2>3, <2>4
  <1>2. CASE kind = "download" /\ down = <<Reply("error", serial)>>
    <2>1. Head(down) = Reply("error", serial) /\ down' = <<>> /\ Head(down) # Reply("ok", serial) /\ Head(down) \in Replies(serial)
      BY <1>2, Messages DEF Replies
    <2>2. Ended(down, {Head(down)})
      BY <2>1, TakeFacts
    <2>3. dpc \in {"main", "exited"}
      BY <2>1, <1>d DEF DaemonInv, SendInv
    <2>4. dpc = "main" => up = <<>>
      BY <1>2, <1>b DEF DaemonInv, MainInv
    <2> QED BY <2>1, <2>2, <2>3, <2>4, <1>2
  <1>3. CASE kind = "download" /\ Head(down) = Reply("ok", serial) /\ Stream(Tail(down), Filler, Ends)
    BY <1>3 DEF Replies
  <1> QED BY <1>1, <1>2, <1>3, <1>b DEF DownInv

\* A reply ends the call.
LEMMA ReplyEndsIInv ==
  ASSUME Constants, IInv, ready, Waiting, down # <<>>, Head(down) \notin Talk, down' = Tail(down),
         kind # "download" \/ Head(down) # Reply("ok", serial),
         lpc' = "idle", ret' \in {"ok", "error"}, err' \in {"unset", "EINTR", "other"},
         ret' = "ok" => Head(down) = Reply("ok", serial), ret' = "error" => err' # "unset",
         UNCHANGED <<ready, kind, serial, out, after, cancel, stopped, fileVars, up, daemonVars, lost>>
  PROVE  IInv'
  <1> USE DEF IInv, fileVars, daemonVars
  <1>a. ~Unsent' /\ ~Sending' /\ ~Waiting' /\ ~Receiving' /\ lpc' \notin {"discard", "rfcancel", "rfdiscard", "recvfile"}
    BY DEF Unsent, Sending, Waiting, Receiving
  <1>b. /\ down' = <<>> /\ dpc \in {"main", "exited"} /\ (dpc = "main" => up = <<>>) /\ Ended(down, {Head(down)})
    BY ReplyFacts, Zenon
  <1>c. Stream(up, Flags, {}) \/ dpc = "exited"
    BY <1>b, Empty
  <1>1. FileTypes' /\ SocketTypes' /\ DaemonTypes' /\ lost' = FALSE
    <2>1. Len(<<>>) = 0 /\ <<>> \in Seq(ToLibrary)
      OBVIOUS
    <2> QED BY <2>1, <1>b DEF FileTypes, SocketTypes, DaemonTypes, Constants, RPCBounds
  <1>2. LibTypes'
    BY DEF LibTypes
  <1>3. LibInv' /\ DownInv'
    BY <1>a, <1>b, SMTT(30) DEF LibInv, DownInv
  <1>4. DaemonInv'
    BY <1>a, <1>b, <1>c, SMTT(30) DEF DaemonInv, MainInv
  <1>5. FileInv'
    BY <1>a, <1>b, Empty, Zenon DEF FileInv
  <1>6. ErrInv'
    BY <1>a DEF ErrInv
  <1>7. OkMeansWhole'
    <2>1. SUFFICES ASSUME ret' = "ok", kind # "call" PROVE sent = size /\ stored = size
      BY DEF OkMeansWhole
    <2>2. kind = "upload" /\ Ended(down, {Reply("ok", serial)})
      BY <2>1, <1>b, Zenon DEF LibInv, Waiting, Constants, RPCKinds
    <2>3. stored = size /\ stored <= sent
      BY <2>2 DEF FileInv
    <2> QED BY <2>3 DEF FileTypes, Constants, RPCBounds
  <1>8. ErrorIsSet'
    BY DEF ErrorIsSet
  <1> QED BY <1>1, <1>2, <1>3, <1>4, <1>5, <1>6, <1>7, <1>8

\* The reply to a download is followed by the file.
LEMMA FileFollowsIInv ==
  ASSUME Constants, IInv, ready, Waiting, down # <<>>, Head(down) = Reply("ok", serial), down' = Tail(down),
         kind = "download", lpc' \in {"recvfile", "rfcancel"}, cancel' = FALSE,
         err' \in {"unset", "EINTR", "other"}, lpc' = "rfcancel" => err' # "unset",
         UNCHANGED <<ready, kind, serial, out, after, stopped, ret, fileVars, up, daemonVars, lost>>
  PROVE  IInv'
  <1> USE DEF IInv, fileVars, daemonVars
  <1>a. ~Unsent' /\ ~Sending' /\ ~Waiting' /\ Receiving' /\ lpc' \notin {"idle", "discard", "rfdiscard"}
    BY DEF Unsent, Sending, Waiting, Receiving
  <1>b. ~Unsent /\ ~Sending /\ ~Receiving
    BY DEF Unsent, Sending, Waiting, Receiving
  <1>c. Head(down) \notin Talk /\ Head(down) \notin Ends /\ Head(down) # Chunk("data") /\ Head(down) # Reply("error", serial)
    BY Messages DEF Talk, Ends
  <1>d. /\ down' \in Seq(ToLibrary) /\ Len(down') <= Cap /\ Stream(down', Filler, Ends)
        /\ \A U : Ended(down', U) => Ended(down, U)
        /\ Ended(down, Ends) => Ended(down', Ends)
        /\ \A n : Carries(down, n) => Carries(down', n)
    <2>1. Stream(down', Filler, Ends)
      BY <1>c, ReplyFacts, Zenon
    <2> QED BY <2>1, <1>c, TakeFacts
  <1>e. dpc \in {"main", "check", "write", "exited"} /\ (dpc = "main" => up = <<>> /\ Ended(down, Ends)) /\ (dpc \in {"check", "write"} => SendInv)
    <2>0. ~Stream(down, Talk, {})
      BY <1>c, TakeFacts
    <2>1. dpc \in {"main", "check", "write", "exited"} /\ (dpc \in {"check", "write"} => SendInv)
      BY <2>0 DEF DaemonInv, UploadInv, ReplyInv, DaemonTypes
    <2>2. down # <<Reply("error", serial)>>
      BY <1>c
    <2>3. dpc = "main" => up = <<>> /\ Ended(down, Ends)
      BY <2>2 DEF DaemonInv, MainInv
    <2> QED BY <2>1, <2>3
  <1>1. FileTypes' /\ SocketTypes' /\ DaemonTypes' /\ lost' = FALSE
    BY <1>d DEF FileTypes, SocketTypes, DaemonTypes
  <1>2. LibTypes'
    <2>1. cancel' \in BOOLEAN
      BY Zenon
    <2> QED BY <2>1 DEF LibTypes
  <1>3. LibInv' /\ DownInv'
    BY <1>a, <1>d DEF LibInv, DownInv, Waiting
  <1>4. DaemonInv'
    <2>1. dpc = "main" => MainInv'
      BY <1>a, <1>d, <1>e, Empty DEF MainInv
    <2>2. dpc \in {"check", "write"} => SendInv'
      <3>1. lpc # "rfdiscard"
        BY DEF Waiting
      <3>2. dpc \in {"check", "write"} => up = <<>> /\ Stream(up, Flags, {}) /\ ~Ended(down', Ends)
        BY <3>1, <1>d, <1>e, SMTT(30) DEF SendInv
      <3> QED BY <3>2, <1>a, <1>e DEF SendInv
    <2> QED BY <1>e, <2>1, <2>2 DEF DaemonInv
  <1>5. FileInv'
    BY <1>a, <1>d, <1>e, SMTT(30) DEF FileInv
  <1>6. ErrInv'
    BY <1>a DEF ErrInv
  <1>7. OkMeansWhole' /\ ErrorIsSet'
    BY DEF OkMeansWhole, ErrorIsSet
  <1> QED BY <1>1, <1>2, <1>3, <1>4, <1>5, <1>6, <1>7

\* guestfs___recv.
LEMMA RecvIInv == ASSUME Constants, IInv, guestfs_recv PROVE IInv'
  <1>0. lpc = "recv" /\ Waiting /\ UNCHANGED <<kind, serial, out, after, stopped, fileVars, up, daemonVars>>
    BY DEF guestfs_recv, Waiting
  <1>1. CASE ~ready /\ Return("error") /\ Error("other") /\ UNCHANGED <<ready, cancel, down, lost>>
    BY <1>0, <1>1, NotReadyIInv
  <1>2. CASE ready /\ RecvEOF
    BY <1>0, <1>2, ClosedIInv DEF RecvEOF, EOF, Return
  <1>3. CASE ready /\ Skip({PROGRESS, CANCEL})
    BY <1>0, <1>3, SkipTalkIInv DEF Skip, Talk, libVars
  <1>4. CASE ready /\ Take /\ Head(down) \notin {PROGRESS, CANCEL}
    <2>1. down # <<>> /\ down' = Tail(down) /\ UNCHANGED ready /\ Head(down) \notin Talk
      BY <1>4 DEF Take, Talk
    <2>2. Head(down) \in Replies(serial)
      BY <1>0, <1>4, <2>1, ReplyFacts
    <2>3. err \in {"unset", "EINTR", "other"}
      BY DEF IInv, LibTypes
    <2>4. CASE Head(down) = Reply("ok", serial) /\ kind # "download"
      <3>1. Return("ok") /\ UNCHANGED <<cancel, err, lost>>
        BY <1>4, <2>1, <2>4 DEF guestfs_recv, RecvEOF, EOF, Skip
      <3> QED BY <3>1, <1>0, <1>4, <2>1, <2>3, <2>4, ReplyEndsIInv DEF Return
    <2>5. CASE Head(down) = Reply("ok", serial) /\ kind = "download"
      <3>1. /\ cancel' = FALSE /\ UNCHANGED <<ret, lost>>
            /\ \/ lpc' = "recvfile" /\ UNCHANGED err
               \/ Error("other") /\ lpc' = "rfcancel"
        BY <1>4, <2>1, <2>5 DEF guestfs_recv, RecvEOF, EOF, Skip, LibGoto
      <3>2. err' \in {"unset", "EINTR", "other"} /\ (lpc' = "rfcancel" => err' # "unset") /\ lpc' \in {"recvfile", "rfcancel"}
        BY <3>1, <2>3 DEF Error
      <3> QED BY <3>1, <3>2, <1>0, <1>4, <2>1, <2>5, FileFollowsIInv, Zenon
    <2>6. CASE Head(down) # Reply("ok", serial)
      <3>1. Return("error") /\ Error("other") /\ UNCHANGED cancel /\ lost' = (lost \/ Head(down) # Reply("error", serial))
        BY <1>4, <2>1, <2>6 DEF guestfs_recv, RecvEOF, EOF, Skip
      <3>2. UNCHANGED lost
        BY <3>1, <2>2, <2>6, Zenon DEF Replies, IInv
      <3>3. err' \in {"unset", "EINTR", "other"} /\ err' # "unset" /\ lpc' = "idle" /\ ret' = "error"
        BY <3>1, <2>3 DEF Error, Return
      <3> QED BY <3>1, <3>2, <3>3, <1>0, <1>4, <2>1, <2>6, ReplyEndsIInv
    <2> QED BY <2>4, <2>5, <2>6
  <1> QED BY <1>1, <1>2, <1>3, <1>4 DEF guestfs_recv

\* guestfs___recv_discard.
LEMMA RecvDiscardIInv == ASSUME Constants, IInv, guestfs_recv_discard PROVE IInv'
  <1>0. lpc = "discard" /\ Waiting /\ UNCHANGED <<kind, serial, out, after, stopped, fileVars, up, daemonVars>>
    BY DEF guestfs_recv_discard, Waiting
  <1>1. CASE ~ready /\ Return("error") /\ Error("other") /\ UNCHANGED <<ready, cancel, down, lost>>
    BY <1>0, <1>1, NotReadyIInv
  <1>2. CASE ready /\ RecvEOF
    BY <1>0, <1>2, ClosedIInv DEF RecvEOF, EOF, Return
  <1>3. CASE ready /\ Skip({PROGRESS, CANCEL})
    BY <1>0, <1>3, SkipTalkIInv DEF Skip, Talk, libVars
  <1>4. CASE /\ ready /\ Take /\ Head(down) \notin {PROGRESS, CANCEL}
             /\ Return("error") /\ lost' = (lost \/ Head(down).t # "reply") /\ UNCHANGED <<cancel, err>>
    <2>1. down # <<>> /\ down' = Tail(down) /\ UNCHANGED ready /\ Head(down) \notin Talk
      BY <1>4 DEF Take, Talk
    <2>2. Head(down) \in Replies(serial) /\ kind # "download"
      BY <1>0, <1>4, <2>1, ReplyFacts, Zenon DEF IInv, LibInv
    <2>3. err \in {"unset", "EINTR", "other"} /\ err # "unset" /\ err' = err /\ lpc' = "idle" /\ ret' = "error"
      BY <1>0, <1>4 DEF IInv, LibTypes, ErrInv, Return
    <2>4. UNCHANGED lost
      <3>1. Head(down).t = "reply"
        BY <2>2, Messages DEF Replies
      <3> QED BY <3>1, <1>4, Zenon DEF IInv
    <2> QED BY <1>0, <1>4, <2>1, <2>2, <2>3, <2>4, ReplyEndsIInv
  <1> QED BY <1>1, <1>2, <1>3, <1>4 DEF guestfs_recv_discard

\* What the library finds in the socket when it receives a file.
LEMMA FileFacts ==
  ASSUME Constants, IInv, Receiving, down # <<>>, down' = Tail(down)
  PROVE  /\ ready /\ kind = "download" /\ Head(down) \in Filler \cup Ends
         /\ down' \in Seq(ToLibrary) /\ Len(down') <= Cap /\ Stream(down', Filler, Ends)
         /\ Head(down) \notin Filler =>
              /\ down' = <<>> /\ Ended(down, {Head(down)}) /\ dpc \in {"main", "exited"}
              /\ dpc = "main" => Stream(up, Flags, {})
         /\ Head(down) \notin Ends => (Ended(down, Ends) <=> Ended(down', Ends))
         /\ \A U : Ended(down', U) => Ended(down, U)
  <1> USE DEF IInv
  <1>a. ready /\ kind = "download" /\ ~Unsent /\ ~Sending /\ ~Waiting
    BY DEF LibInv, Unsent, Sending, Waiting, Receiving
  <1>b. Stream(down, Filler, Ends)
    BY <1>a DEF DownInv
  <1>c. Filler \cap Ends = {}
    BY Messages DEF Filler, Ends
  <1>d. /\ Head(down) \in Filler \cup Ends
        /\ down' \in Seq(ToLibrary) /\ Len(down') <= Cap /\ Stream(down', Filler, Ends)
        /\ Head(down) \notin Ends => (Ended(down, Ends) <=> Ended(down', Ends))
        /\ \A U : Ended(down', U) => Ended(down, U)
        /\ Head(down) \notin Filler => down' = <<>> /\ Ended(down, {Head(down)}) /\ Ended(down, Ends)
    BY <1>b, TakeFacts
  <1>e. ASSUME Ended(down, Ends) PROVE dpc \in {"main", "exited"} /\ (dpc = "main" => Stream(up, Flags, {}))
    <2>1. ~UploadInv /\ ~ReplyInv /\ ~SendInv
      BY <1>a, <1>e DEF UploadInv, ReplyInv, SendInv
    <2>2. dpc \in {"main", "exited"}
      BY <2>1, <1>a DEF DaemonInv, DaemonTypes
    <2> QED BY <2>2, <1>a DEF DaemonInv, MainInv
  <1> QED BY <1>a, <1>d, <1>e

\* The library reads a chunk, or a progress message, in the middle of a file.
LEMMA FileGoesOnIInv ==
  ASSUME Constants, IInv, Receiving, down # <<>>, down' = Tail(down), Head(down) \in Filler,
         lpc' \in {"recvfile", "rfcancel", "rfdiscard"}, lpc' = "rfdiscard" <=> lpc = "rfdiscard",
         stored' \in {stored, stored + 1}, stored' # stored => lpc = "recvfile" /\ Head(down) = Chunk("data"),
         lpc' = "recvfile" => lpc = "recvfile" /\ (Head(down) = Chunk("data") => stored' = stored + 1),
         stopped' \in BOOLEAN, stopped' => stopped \/ cancel, err' \in {"unset", "EINTR", "other"},
         lpc' \in {"rfcancel", "rfdiscard"} => err' # "unset" \/ stopped',
         UNCHANGED <<ready, kind, serial, out, after, cancel, ret, size, sent, up, daemonVars, lost>>
  PROVE  IInv'
  <1> USE DEF daemonVars
  <1>0. LibTypes /\ FileTypes /\ SocketTypes /\ DaemonTypes /\ lost = FALSE
    BY DEF IInv
  <1>z. LibInv /\ DaemonInv /\ FileInv /\ ErrInv
    BY DEF IInv
  <1>a. ~Unsent' /\ ~Sending' /\ ~Waiting' /\ Receiving' /\ lpc' \notin {"idle", "discard", "file"}
    BY DEF Unsent, Sending, Waiting, Receiving
  <1>b. ~Unsent /\ ~Sending /\ ~Waiting
    BY DEF Unsent, Sending, Waiting, Receiving
  <1>c. Head(down) \notin Ends
    BY Messages DEF Filler, Ends
  <1>d. /\ ready /\ kind = "download" /\ down' \in Seq(ToLibrary) /\ Len(down') <= Cap /\ Stream(down', Filler, Ends)
        /\ Ended(down, Ends) <=> Ended(down', Ends)
        /\ \A U : Ended(down', U) => Ended(down, U)
    BY <1>c, FileFacts
  <1>e. /\ \A n : Carries(down, n) /\ Head(down) = Chunk("data") => n >= 1 /\ Carries(down', n - 1)
        /\ \A n : Carries(down, n) /\ Head(down) # Chunk("data") => Carries(down', n)
    BY <1>0, TakeFacts
  <1>f. size \in Nat /\ sent \in Nat /\ stored \in Nat /\ sent <= size /\ stored <= sent
    BY <1>0, <1>d, <1>z DEF FileTypes, FileInv, Constants, RPCBounds
  <1>g. lpc = "recvfile" => Carries(down, sent - stored)
    BY <1>d, <1>z DEF FileInv
  <1>h. stored' \in Nat /\ stored' <= sent /\ (lpc' = "recvfile" => Carries(down', sent - stored'))
    BY <1>e, <1>f, <1>g
  <1>i. dpc \in {"main", "check", "write", "exited"}
    BY <1>0, <1>b, <1>d, <1>z DEF DaemonInv, UploadInv, ReplyInv, DaemonTypes
  <1>1. FileTypes' /\ SocketTypes' /\ DaemonTypes' /\ lost' = FALSE
    BY <1>0, <1>d, <1>f, <1>h DEF FileTypes, SocketTypes, DaemonTypes
  <1>2. LibTypes'
    BY <1>0 DEF LibTypes
  <1>3. LibInv' /\ DownInv'
    <2>1. DownInv'
      BY <1>a, <1>d DEF DownInv
    <2> QED BY <2>1, <1>a, <1>d, <1>z DEF LibInv, Receiving
  <1>4. DaemonInv'
    <2>1. dpc = "main" => MainInv'
      BY <1>a, <1>d, <1>z, Zenon DEF DaemonInv, MainInv, Receiving
    <2>2. dpc \in {"check", "write"} => SendInv'
      BY <1>a, <1>b, <1>d, <1>z DEF DaemonInv, SendInv
    <2> QED BY <1>i, <2>1, <2>2 DEF DaemonInv
  <1>5. FileInv'
    BY <1>a, <1>d, <1>h, <1>i, <1>z DEF FileInv
  <1>6. ErrInv'
    BY <1>a, <1>d, <1>z DEF ErrInv
  <1>7. OkMeansWhole' /\ ErrorIsSet'
    BY <1>a DEF OkMeansWhole, ErrorIsSet
  <1> QED BY <1>1, <1>2, <1>3, <1>4, <1>5, <1>6, <1>7 DEF IInv

\* The last chunk ends the call.
LEMMA FileEndsIInv ==
  ASSUME Constants, IInv, Receiving, down # <<>>, down' = Tail(down), Head(down) \notin Filler,
         lpc' = "idle", ret' \in {"ok", "error"}, err' \in {"unset", "EINTR", "other"},
         ret' = "ok" => lpc = "recvfile" /\ Head(down) = Chunk("end"),
         ret' = "error" => err' # "unset" \/ stopped,
         UNCHANGED <<ready, kind, serial, out, after, cancel, stopped, fileVars, up, daemonVars, lost>>
  PROVE  IInv'
  <1> USE DEF fileVars, daemonVars
  <1>0. LibTypes /\ FileTypes /\ SocketTypes /\ DaemonTypes /\ lost = FALSE
    BY DEF IInv
  <1>z. LibInv /\ DaemonInv /\ FileInv /\ ErrInv
    BY DEF IInv
  <1>a. ~Unsent' /\ ~Sending' /\ ~Waiting' /\ ~Receiving' /\ lpc' \notin {"discard", "rfcancel", "rfdiscard", "recvfile"}
    BY DEF Unsent, Sending, Waiting, Receiving
  <1>b. /\ ready /\ kind = "download" /\ down' = <<>> /\ dpc \in {"main", "exited"}
        /\ dpc = "main" => Stream(up, Flags, {})
        /\ Ended(down, {Head(down)})
    BY FileFacts
  <1>1. FileTypes' /\ SocketTypes' /\ DaemonTypes' /\ lost' = FALSE
    <2>1. Len(<<>>) = 0 /\ <<>> \in Seq(ToLibrary)
      OBVIOUS
    <2>2. SocketTypes'
      BY <2>1, <1>0, <1>b DEF SocketTypes, Constants, RPCBounds
    <2> QED BY <2>2, <1>0 DEF FileTypes, DaemonTypes
  <1>2. LibTypes'
    BY <1>0 DEF LibTypes
  <1>3. LibInv' /\ DownInv'
    <2>1. DownInv'
      BY <1>a, <1>b DEF DownInv
    <2> QED BY <2>1, <1>a, <1>b, <1>z DEF LibInv
  <1>4. DaemonInv'
    <2>1. dpc = "main" => MainInv'
      BY <1>a, <1>b DEF MainInv
    <2> QED BY <2>1, <1>b DEF DaemonInv
  <1>5. FileInv'
    BY <1>a, <1>b, <1>z, Empty, Zenon DEF FileInv
  <1>6. ErrInv'
    BY <1>a, <1>b, <1>z DEF ErrInv
  <1>7. OkMeansWhole'
    <2>1. SUFFICES ASSUME ret' = "ok" PROVE sent = size /\ stored = size
      BY DEF OkMeansWhole
    <2>2. lpc = "recvfile" /\ Head(down) = Chunk("end") /\ Head(down) # Chunk("data")
      BY <2>1, Messages
    <2>3. sent = size /\ Carries(down, sent - stored)
      BY <2>2, <1>b, <1>z, Zenon DEF FileInv
    <2>4. sent - stored = 0
      BY <2>2, <2>3, <1>0, <1>b, Empty, TakeFacts, ZenonT(30)
    <2> QED BY <2>3, <2>4, <1>0 DEF FileTypes, Constants, RPCBounds
  <1>8. ErrorIsSet'
    BY <1>z DEF ErrorIsSet, ErrInv, LibInv, Receiving
  <1> QED BY <1>1, <1>2, <1>3, <1>4, <1>5, <1>6, <1>7, <1>8 DEF IInv

\* receive_file_data on a message that is neither data nor progress.
LEMMA EndOfFileIInv ==
  ASSUME Constants, IInv, Receiving, down # <<>>, down' = Tail(down), Head(down) \notin Filler,
         NEW r \in {"ok", "error"}, EndOfFile(Head(down), r), r = "ok" => lpc = "recvfile",
         r = "error" => err # "unset" \/ stopped,
         UNCHANGED <<ready, kind, serial, out, after, cancel, stopped, fileVars, up, daemonVars>>
  PROVE  IInv'
  <1>1. Head(down) \in Ends
    BY FileFacts
  <1>2. err \in {"unset", "EINTR", "other"}
    BY DEF IInv, LibTypes
  <1>3. Chunk("end") # Chunk("cancel")
    BY Messages
  <1>4. CASE Head(down) = Chunk("end")
    <2>1. lpc' = "idle" /\ ret' = r /\ UNCHANGED <<err, lost>>
      BY <1>3, <1>4 DEF EndOfFile, Return
    <2> QED BY <1>2, <1>4, <2>1, FileEndsIInv
  <1>5. CASE Head(down) = Chunk("cancel")
    <2>0. Return("error") /\ Error(IF cancel THEN "EINTR" ELSE "other") /\ UNCHANGED lost
      <3>1. Head(down) # Chunk("end")
        BY <1>3, <1>5
      <3> QED BY <3>1, <1>5, Zenon DEF EndOfFile
    <2>1. lpc' = "idle" /\ ret' = "error"
      BY <2>0 DEF Return
    <2>2. err' \in {"unset", "EINTR", "other"} /\ err' # "unset"
      BY <1>2, <2>0 DEF Error
    <2> QED BY <2>0, <2>1, <2>2, FileEndsIInv
  <1> QED BY <1>1, <1>4, <1>5 DEF Ends

\* guestfs___recv_file.
LEMMA RecvFileIInv == ASSUME Constants, IInv, guestfs_recv_file PROVE IInv'
  <1>0. lpc = "recvfile" /\ Receiving /\ UNCHANGED <<kind, serial, out, after, size, sent, up, daemonVars>>
    BY DEF guestfs_recv_file, Receiving
  <1>a. err \in {"unset", "EINTR", "other"} /\ stopped \in BOOLEAN /\ cancel \in BOOLEAN
    BY DEF IInv, LibTypes
  <1>1. CASE RecvEOF /\ UNCHANGED <<stopped, stored>>
    BY <1>0, <1>1, ClosedIInv DEF RecvEOF, EOF, Return, fileVars
  <1>2. CASE Skip({PROGRESS}) /\ UNCHANGED <<stopped, stored>>
    <2>1. Head(down) \in Filler /\ Head(down) # Chunk("data")
      BY <1>2, Messages DEF Skip, Filler
    <2> QED BY <1>0, <1>a, <1>2, <2>1, FileGoesOnIInv DEF Skip
  <1>3. CASE /\ Take /\ Head(down) = Chunk("data") /\ UNCHANGED <<cancel, lost, ret>>
             /\ \/ "write" \in LibFaults /\ Error("other") /\ LibGoto("rfcancel") /\ UNCHANGED <<stopped, stored>>
                \/ /\ stored' = stored + 1 /\ stopped' = cancel /\ UNCHANGED err
                   /\ LibGoto(IF cancel THEN "rfcancel" ELSE "recvfile")
    <2>1. Head(down) \in Filler /\ down # <<>> /\ down' = Tail(down) /\ UNCHANGED <<ready, cancel, lost, ret>>
      BY <1>3 DEF Filler, Take
    <2>2. CASE Error("other") /\ LibGoto("rfcancel") /\ UNCHANGED <<stopped, stored>>
      <3>1. err' \in {"unset", "EINTR", "other"} /\ err' # "unset" /\ lpc' = "rfcancel"
        BY <1>a, <2>2 DEF Error, LibGoto
      <3> QED BY <1>0, <1>a, <2>1, <2>2, <3>1, FileGoesOnIInv
    <2>3. CASE stored' = stored + 1 /\ stopped' = cancel /\ UNCHANGED err /\ LibGoto(IF cancel THEN "rfcancel" ELSE "recvfile")
      <3>1. stopped' \in BOOLEAN /\ (stopped' => cancel) /\ err' \in {"unset", "EINTR", "other"}
        BY <1>a, <2>3
      <3>2. lpc' \in {"recvfile", "rfcancel"} /\ (lpc' = "rfcancel" => stopped')
        BY <1>a, <2>3 DEF LibGoto
      <3>3. Head(down) = Chunk("data") /\ stored' = stored + 1
        BY <1>3, <2>3
      <3> QED BY <1>0, <2>1, <3>1, <3>2, <3>3, FileGoesOnIInv
    <2> QED BY <1>3, <2>2, <2>3
  <1>4. CASE /\ Take /\ Head(down) \notin {PROGRESS, Chunk("data")} /\ UNCHANGED <<cancel, stored, stopped>>
             /\ \/ EndOfFile(Head(down), "ok")
                \/ /\ "close" \in LibFaults /\ Head(down) = Chunk("end")
                   /\ Return("error") /\ Error("other") /\ UNCHANGED lost
    <2>1. Head(down) \notin Filler /\ down # <<>> /\ down' = Tail(down) /\ UNCHANGED <<ready, cancel, stopped, fileVars>>
      BY <1>0, <1>4 DEF Filler, Take, fileVars
    <2>2. CASE EndOfFile(Head(down), "ok")
      BY <1>0, <2>1, <2>2, EndOfFileIInv
    <2>3. CASE Return("error") /\ Error("other") /\ UNCHANGED lost
      <3>1. err' \in {"unset", "EINTR", "other"} /\ err' # "unset" /\ lpc' = "idle" /\ ret' = "error"
        BY <1>a, <2>3 DEF Error, Return
      <3> QED BY <1>0, <2>1, <2>3, <3>1, FileEndsIInv
    <2> QED BY <1>4, <2>2, <2>3
  <1> QED BY <1>1, <1>2, <1>3, <1>4 DEF guestfs_recv_file

\* guestfs___recv_file, after it has cancelled.
LEMMA RecvFileDiscardIInv == ASSUME Constants, IInv, recv_file_discard PROVE IInv'
  <1>0. lpc = "rfdiscard" /\ Receiving /\ UNCHANGED <<kind, serial, out, after, stopped, fileVars, up, daemonVars>>
    BY DEF recv_file_discard, Receiving
  <1>a. err \in {"unset", "EINTR", "other"} /\ stopped \in BOOLEAN /\ (err # "unset" \/ stopped)
    BY <1>0 DEF IInv, LibTypes, ErrInv
  <1>1. CASE RecvEOF
    BY <1>0, <1>1, ClosedIInv DEF RecvEOF, EOF, Return
  <1>2. CASE Skip({PROGRESS, Chunk("data")})
    BY <1>0, <1>a, <1>2, FileGoesOnIInv DEF Skip, Filler, fileVars
  <1>3. CASE /\ Take /\ Head(down) \notin {PROGRESS, Chunk("data")} /\ UNCHANGED cancel
             /\ EndOfFile(Head(down), "error")
    <2>1. Head(down) \notin Filler /\ down # <<>> /\ down' = Tail(down) /\ UNCHANGED <<ready, cancel>>
      BY <1>3 DEF Filler, Take
    <2> QED BY <1>0, <1>a, <1>3, <2>1, EndOfFileIInv
  <1> QED BY <1>1, <1>2, <1>3 DEF recv_file_discard

-----------------------------------------------------------------------------
(* All steps *)

\* The invariant holds when the appliance has been launched.
LEMMA InitIInv == ASSUME Constants, Init PROVE IInv
  <1> USE DEF Init
  <1>1. SocketTypes
    <2>1. Len(<<>>) = 0 /\ <<>> \in Seq(ToDaemon) /\ <<>> \in Seq(ToLibrary)
      OBVIOUS
    <2> QED BY <2>1 DEF SocketTypes, Constants, RPCBounds
  <1>2. LibTypes
    <2>1. ready \in BOOLEAN /\ cancel \in BOOLEAN /\ stopped \in BOOLEAN
      BY Zenon
    <2>2. out \in ToDaemon
      BY DEF ToDaemon
    <2> QED BY <2>1, <2>2 DEF LibTypes, Constants, RPCBounds
  <1>3. FileTypes /\ DaemonTypes
    <2>1. due \in BOOLEAN
      BY Zenon
    <2> QED BY <2>1 DEF FileTypes, DaemonTypes, Chunks, Constants, RPCBounds
  <1>4. ~Unsent /\ ~Sending /\ ~Waiting /\ ~Receiving
    BY DEF Unsent, Sending, Waiting, Receiving
  <1>5. lost = FALSE
    OBVIOUS
  <1>6. LibInv /\ DownInv /\ ErrInv
    BY <1>4 DEF LibInv, DownInv, ErrInv
  <1>7. DaemonInv /\ FileInv
    <2>1. DaemonInv
      BY <1>4, Empty DEF DaemonInv, MainInv
    <2>2. FileInv
      BY <1>4, Empty, SMTT(30) DEF FileInv
    <2> QED BY <2>1, <2>2
  <1>8. OkMeansWhole /\ ErrorIsSet
    BY DEF OkMeansWhole, ErrorIsSet
  <1> QED BY <1>1, <1>2, <1>3, <1>5, <1>6, <1>7, <1>8 DEF IInv

\* Steps that change nothing.
LEMMA StutterIInv == ASSUME IInv, UNCHANGED vars PROVE IInv'
  <1> USE DEF vars, libVars, fileVars, daemonVars
  <1>a. (Unsent' <=> Unsent) /\ (Sending' <=> Sending) /\ (Waiting' <=> Waiting) /\ (Receiving' <=> Receiving)
    BY DEF Unsent, Sending, Waiting, Receiving
  <1>1. (LibTypes => LibTypes') /\ (FileTypes => FileTypes') /\ (SocketTypes => SocketTypes')
    BY DEF LibTypes, FileTypes, SocketTypes
  <1>2. (DaemonTypes => DaemonTypes') /\ lost' = lost
    BY Zenon DEF DaemonTypes
  <1>3. (LibInv => LibInv') /\ (DownInv => DownInv')
    BY <1>a, Zenon DEF LibInv, DownInv
  <1>4. (MainInv => MainInv') /\ (UploadInv => UploadInv') /\ (ReplyInv => ReplyInv') /\ (SendInv => SendInv')
    BY <1>a, Zenon DEF MainInv, UploadInv, ReplyInv, SendInv
  <1>5. DaemonInv => DaemonInv'
    BY <1>4, Zenon DEF DaemonInv
  <1>6. FileInv => FileInv'
    <2>1. UNCHANGED <<ready, kind, serial, lpc, size, sent, stored, up, down, dpc, dout>>
      BY Zenon
    <2> HIDE DEF vars
    <2> QED BY <1>a, <2>1, Zenon DEF FileInv
  <1>7. ErrInv => ErrInv'
    BY <1>a DEF ErrInv
  <1>8. (OkMeansWhole => OkMeansWhole') /\ (ErrorIsSet => ErrorIsSet')
    BY DEF OkMeansWhole, ErrorIsSet
  <1> QED BY <1>1, <1>2, <1>3, <1>5, <1>6, <1>7, <1>8 DEF IInv

\* Every step keeps the invariant.
LEMMA NextIInv == ASSUME Constants, IInv, [Next]_vars PROVE IInv'
  <1>1. CASE \E k \in Kinds, n \in 0..MaxChunks : (k = "call" => n = 0) /\ Call(k, n)
    BY <1>1, CallIInv
  <1>2. CASE Library
    BY <1>2, CheckDaemonSocketIInv, WriteDataIInv, SendFileIInv, RecvIInv, RecvDiscardIInv, RecvFileIInv,
       RecvFileCancelIInv, RecvFileDiscardIInv DEF Library
  <1>3. CASE Daemon
    BY <1>3, MainLoopIInv, CancelReceiveIInv, ReceiveFileIInv, ReplyIInv, SendErrorIInv, SendFileWriteIInv,
       SendChunkIInv, NotifyProgressIInv DEF Daemon
  <1> QED BY <1>1, <1>2, <1>3, UserCancelIInv, PulseIInv, ExitIInv, StutterIInv DEF Next

\* What the invariant says between calls.
LEMMA IInvClean == ASSUME Constants, IInv PROVE TypeOK /\ NeverLost /\ CleanBetweenCalls
  <1> USE DEF IInv
  <1>1. lost \in BOOLEAN /\ NeverLost
    BY Zenon DEF NeverLost
  <1>2. TypeOK
    BY <1>1 DEF TypeOK, LibTypes, FileTypes, SocketTypes, DaemonTypes
  <1>3. SUFFICES ASSUME lpc = "idle", ready, dpc # "exited"
                 PROVE  dpc = "main" /\ down = <<>> /\ \A i \in DOMAIN up : up[i] = CANCEL
    BY <1>1, <1>2 DEF CleanBetweenCalls
  <1>4. ~Sending /\ ~Waiting /\ ~Receiving
    BY <1>3 DEF Sending, Waiting, Receiving
  <1>5. dpc = "main" /\ down = <<>>
    BY <1>3, <1>4 DEF DownInv, DaemonInv, UploadInv, ReplyInv, SendInv, DaemonTypes
  <1>6. Stream(up, Flags, {})
    BY <1>3, <1>5 DEF DaemonInv, MainInv
  <1> QED BY <1>5, <1>6 DEF Stream, Flags

-----------------------------------------------------------------------------
(* Theorems *)

\* Library and daemon stay in step (src/proto.c, daemon/proto.c): over any number of calls, with files of any
\* length and sockets of any size, whoever cancels, whatever else fails and wherever the daemon dies, neither
\* side reads a message it cannot make sense of, and between calls the daemon is back in main_loop with
\* nothing on its way to the library and nothing but stray flags on its way to the daemon.
THEOREM CallsStayInStep ==
  ASSUME RPCBounds, RPCKinds PROVE Spec => []StaysInStep
  <1>1. CASE "args" \in DaemonFaults
    <2>1. StaysInStep
      BY <1>1 DEF StaysInStep
    <2> QED BY <2>1, PTL
  <1>2. CASE "args" \notin DaemonFaults
    <2>0. Constants
      BY <1>2 DEF Constants
    <2>1. Init => IInv
      BY <2>0, InitIInv
    <2>2. IInv /\ [Next]_vars => IInv'
      BY <2>0, NextIInv
    <2>3. IInv => StaysInStep
      BY <2>0, IInvClean DEF StaysInStep
    <2> QED BY <2>1, <2>2, <2>3, PTL DEF Spec
  <1> QED BY <1>1, <1>2

\* What a call returns is true: success means that the whole file was moved and none of its chunks was lost
\* or counted twice, and a failure has set the error of the handle, unless the user has stopped a download
\* (guestfs___send_file, guestfs___recv_file, guestfs___recv, and the daemon's receive_file and send_file_write).
THEOREM CallResultsAreTrue ==
  ASSUME RPCBounds, RPCKinds PROVE Spec => []CallResultIsTrue
  <1>1. CASE "args" \in DaemonFaults
    <2>1. CallResultIsTrue
      BY <1>1 DEF CallResultIsTrue
    <2> QED BY <2>1, PTL
  <1>2. CASE "args" \notin DaemonFaults
    <2>0. Constants
      BY <1>2 DEF Constants
    <2>1. Init => IInv
      BY <2>0, InitIInv
    <2>2. IInv /\ [Next]_vars => IInv'
      BY <2>0, NextIInv
    <2>3. IInv => CallResultIsTrue
      BY DEF IInv, CallResultIsTrue
    <2> QED BY <2>1, <2>2, <2>3, PTL DEF Spec
  <1> QED BY <1>1, <1>2
=============================================================================
