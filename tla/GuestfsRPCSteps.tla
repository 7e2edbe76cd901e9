-------------------------- MODULE GuestfsRPCSteps ---------------------------
(***************************************************************************)
(* The steps of the daemon, and those of the library up to the end of what *)
(* it sends, keep the invariant of GuestfsRPC.                             *)
(***************************************************************************)
EXTENDS GuestfsRPCInvariant

-----------------------------------------------------------------------------
(* The steps of the daemon *)

\* A message that is no chunk leaves the account of the file as it is.
LEMMA FileKept ==
  ASSUME FileInv, UNCHANGED <<libVars, size, sent, stored, up, dout>>,
         ready => /\ dpc' \in {"main", "discard", "check", dpc} /\ dpc' # "write" /\ (dpc' = "main" => up = <<>>)
                  /\ kind = "download" => (\A n : Carries(down, n) => Carries(down', n)) /\ ~Ended(down', {Chunk("end")})
                  /\ kind = "upload" /\ Ended(down', {Reply("ok", serial)}) => stored = size
  PROVE  FileInv'
  <1>1. /\ UNCHANGED <<ready, lpc, kind, serial, size, sent, stored, up>>
        /\ Unsent' = Unsent /\ Sending' = Sending /\ Waiting' = Waiting
    BY DEF libVars, Unsent, Sending, Waiting
  <1>2. SUFFICES ASSUME ready PROVE FileInv'
    BY <1>1 DEF FileInv
  <1>3. /\ stored <= sent /\ (Unsent => sent = 0)
        /\ kind = "upload" /\ Waiting /\ Ended(up, {Chunk("end")}) => sent = size
    BY <1>2 DEF FileInv
  <1>4. ~(dpc' = "main" /\ Queued(up, Request(kind, serial)) /\ dpc # "main")
    BY <1>2, Empty
  <1>5. dpc' = "main" /\ (Sending \/ Waiting) /\ Queued(up, Request(kind, serial)) => stored = 0 /\ Carries(up, sent)
    BY <1>2, <1>4 DEF FileInv
  <1>6. dpc' = "recv" => Carries(up, sent - stored)
    BY <1>2 DEF FileInv
  <1>7. kind = "upload" /\ (dpc' = "replyok" \/ (Waiting /\ Ended(down', {Reply("ok", serial)}))) => stored = size
    BY <1>2 DEF FileInv
  <1>8. dpc' \in {"replyok", "replyerr"} /\ kind = "download" => sent = 0
    BY <1>2 DEF FileInv
  <1>9. kind = "download" /\ (Waiting \/ lpc = "recvfile") => Carries(down', sent - stored)
    <2>1. kind = "download" /\ (Waiting \/ lpc = "recvfile") => Carries(down, sent - stored)
      BY <1>2 DEF FileInv
    <2> QED BY <1>2, <2>1
  <1>10. /\ kind = "download" /\ Ended(down', {Chunk("end")}) => sent = size
         /\ dpc' # "write"
    BY <1>2
  <1> QED BY <1>1, <1>3, <1>5, <1>6, <1>7, <1>8, <1>9, <1>10 DEF FileInv

\* reply_with_error.
LEMMA SendErrorIInv == ASSUME Constants, IInv, send_error PROVE IInv'
  <1> USE DEF IInv, send_error, Goto, dunch, libVars
  <1>0. ready => ReplyInv
    BY DEF DaemonInv
  <1>1. LibTypes' /\ FileTypes' /\ DaemonTypes' /\ lost' = FALSE
    BY DEF LibTypes, FileTypes, DaemonTypes
  <1>a. Reply("error", dser) \in ToLibrary
    BY Sorts
  <1>2. SocketTypes'
    BY <1>a, SendFacts DEF SocketTypes
  <1>3. LibInv' /\ ErrInv'
    BY DEF LibInv, ErrInv, Sending, Receiving
  <1>4. OkMeansWhole' /\ ErrorIsSet'
    BY DEF OkMeansWhole, ErrorIsSet
  <1>5. ASSUME ready
        PROVE  /\ Waiting /\ up = <<>> /\ Stream(down', Talk, Replies(serial))
               /\ Ended(down', Replies(serial)) /\ ~Ended(down', {Reply("ok", serial)}) /\ ~Ended(down', {Chunk("end")})
               /\ kind = "download" => down' = <<Reply("error", serial)>>
               /\ \A n : Carries(down, n) => Carries(down', n)
    <2>1. Waiting /\ up = <<>> /\ dser = serial /\ Stream(down, Talk, {}) /\ (kind = "download" => down = <<>>)
      BY <1>0, <1>5 DEF ReplyInv
    <2>2. /\ Reply("error", serial) \in Replies(serial) /\ Reply("error", serial) # Chunk("data")
          /\ Reply("error", serial) # Reply("ok", serial) /\ Reply("error", serial) # Chunk("end")
      BY Messages DEF Replies
    <2>3. Send(Reply("error", serial)) /\ Reply("error", serial) \in ToLibrary
      BY <1>a, <2>1
    <2> QED BY <2>1, <2>2, <2>3, SendFacts
  <1>6. DownInv'
    BY <1>0, <1>5 DEF DownInv, Unsent, Sending, Waiting, Receiving
  <1>7. DaemonInv'
    BY <1>0, <1>5 DEF DaemonInv, MainInv, Unsent, Sending, Waiting, Receiving
  <1>8. FileInv'
    BY <1>5, FileKept
  <1> QED
    BY <1>1, <1>2, <1>3, <1>4, <1>6, <1>7, <1>8

\* reply.
LEMMA ReplyIInv == ASSUME Constants, IInv, reply PROVE IInv'
  <1> USE DEF IInv, reply, Goto, dunch, libVars
  <1>0. ready => ReplyInv
    BY DEF DaemonInv
  <1>1. LibTypes' /\ FileTypes' /\ DaemonTypes' /\ lost' = FALSE
    BY DEF LibTypes, FileTypes, DaemonTypes
  <1>a. Reply("ok", dser) \in ToLibrary
    BY Sorts
  <1>2. SocketTypes'
    BY <1>a, SendFacts DEF SocketTypes
  <1>3. LibInv' /\ ErrInv'
    BY DEF LibInv, ErrInv, Sending, Receiving
  <1>4. OkMeansWhole' /\ ErrorIsSet'
    BY DEF OkMeansWhole, ErrorIsSet
  <1>5. ASSUME ready
        PROVE  /\ Waiting /\ up = <<>> /\ Stream(down', Talk, Replies(serial)) /\ dproc = kind /\ dser = serial
               /\ Ended(down', Replies(serial)) /\ ~Ended(down', {Chunk("end")}) /\ ~Ended(down', Ends)
               /\ kind = "download" => down' # <<>> /\ Head(down') = Reply("ok", serial) /\ Tail(down') = <<>>
               /\ \A n : Carries(down, n) => Carries(down', n)
    <2>1. Waiting /\ up = <<>> /\ dproc = kind /\ dser = serial /\ Stream(down, Talk, {}) /\ (kind = "download" => down = <<>>)
      BY <1>0, <1>5 DEF ReplyInv
    <2>2. /\ Reply("ok", serial) \in Replies(serial) /\ Reply("ok", serial) # Chunk("data")
          /\ Reply("ok", serial) \notin Ends /\ Reply("ok", serial) # Chunk("end")
      BY Messages DEF Replies, Ends
    <2>3. Send(Reply("ok", serial)) /\ Reply("ok", serial) \in ToLibrary
      BY <1>a, <2>1
    <2> QED BY <2>1, <2>2, <2>3, SendFacts
  <1>6. DownInv'
    BY <1>0, <1>5, Empty, Zenon DEF DownInv, Unsent, Sending, Waiting, Receiving
  <1>7. DaemonInv'
    BY <1>0, <1>5, Empty DEF DaemonInv, MainInv, SendInv, Unsent, Sending, Waiting, Receiving
  <1>8. FileInv'
    <2>1. ready /\ kind = "upload" => stored = size
      BY DEF FileInv
    <2>2. ready /\ dproc = "download" => kind = "download"
      BY <1>5
    <2> QED BY <1>5, <2>1, <2>2, FileKept
  <1> QED
    BY <1>1, <1>2, <1>3, <1>4, <1>6, <1>7, <1>8

\* cancel_receive.
LEMMA CancelReceiveIInv == ASSUME Constants, IInv, cancel_receive PROVE IInv'
  <1> USE DEF IInv, cancel_receive, Goto, dunch, libVars
  <1>0. ready => UploadInv
    BY DEF DaemonInv
  <1>1. LibTypes' /\ FileTypes' /\ DaemonTypes' /\ lost' = FALSE
    BY DEF LibTypes, FileTypes, DaemonTypes
  <1>a. CANCEL \in ToLibrary /\ CANCEL \in Talk
    BY Sorts DEF Talk
  <1>2. SocketTypes'
    BY <1>a, SendFacts DEF SocketTypes
  <1>3. LibInv' /\ ErrInv'
    BY DEF LibInv, ErrInv, Sending, Receiving
  <1>4. OkMeansWhole' /\ ErrorIsSet'
    BY DEF OkMeansWhole, ErrorIsSet
  <1>5. ASSUME ready
        PROVE  /\ UploadInv /\ Stream(down', Talk, {}) /\ Stream(down', Talk, Replies(serial))
               /\ ~Ended(down', {Reply("ok", serial)})
    <2>1. UploadInv /\ Stream(down, Talk, {})
      BY <1>0, <1>5 DEF UploadInv
    <2>2. CANCEL \notin {Reply("ok", serial)}
      BY Messages
    <2>3. Send(CANCEL) /\ SocketTypes
      OBVIOUS
    <2> QED BY <1>a, <2>1, <2>2, <2>3, SendFacts
  <1>6. DownInv'
    BY <1>0, <1>5 DEF DownInv, UploadInv, Unsent, Sending, Waiting, Receiving
  <1>7. DaemonInv'
    BY <1>0, <1>5 DEF DaemonInv, UploadInv, Unsent, Sending, Waiting, Receiving
  <1>8. FileInv'
    <2>1. ready => kind = "upload"
      BY <1>5 DEF UploadInv
    <2> QED BY <1>5, <2>1, FileKept
  <1> QED
    BY <1>1, <1>2, <1>3, <1>4, <1>6, <1>7, <1>8

\* notify_progress counts its messages up to the bound.
LEMMA Notified ==
  ASSUME Constants, DaemonTypes, notify_progress \/ UNCHANGED <<ticks, due>>
  PROVE  ticks' \in 0..MaxProgress /\ due' \in BOOLEAN
  <1>1. ticks' \in 0..MaxProgress
    <2>1. ticks' = ticks \/ (ticks < MaxProgress /\ ticks' = ticks + 1)
      BY Zenon DEF notify_progress
    <2> QED BY <2>1 DEF DaemonTypes, Constants, RPCBounds
  <1>2. due' \in BOOLEAN
    BY Zenon DEF notify_progress, DaemonTypes
  <1> QED BY <1>1, <1>2

\* A progress message becomes due.
LEMMA PulseIInv == ASSUME Constants, IInv, Pulse PROVE IInv'
  <1> USE DEF IInv, Pulse, dunch, libVars
  <1>1. /\ ticks' \in 0..MaxProgress /\ due' \in BOOLEAN
        /\ UNCHANGED <<libVars, size, sent, stored, up, down, dpc, dproc, dser, dout, lost>>
    BY Notified
  <1>2. LibTypes' /\ FileTypes' /\ SocketTypes' /\ DaemonTypes' /\ lost' = FALSE
    BY <1>1 DEF LibTypes, FileTypes, SocketTypes, DaemonTypes
  <1>3. LibInv' /\ ErrInv' /\ DownInv'
    BY <1>1 DEF LibInv, ErrInv, DownInv, Unsent, Sending, Waiting, Receiving
  <1>4. DaemonInv' /\ FileInv'
    BY <1>1 DEF DaemonInv, MainInv, UploadInv, ReplyInv, SendInv, FileInv, Unsent, Sending, Waiting, Receiving
  <1>5. OkMeansWhole' /\ ErrorIsSet'
    BY <1>1 DEF OkMeansWhole, ErrorIsSet
  <1> QED BY <1>2, <1>3, <1>4, <1>5

\* A progress message is written.
LEMMA NotifyProgressIInv == ASSUME Constants, IInv, notify_progress_no_ratelimit PROVE IInv'
  <1> USE DEF IInv, notify_progress_no_ratelimit, Working, libVars, fileVars
  <1>0. ready => (dpc = "recv" => UploadInv) /\ (dpc = "replyok" => ReplyInv /\ kind = "call") /\ (dpc = "check" => SendInv)
    BY DEF DaemonInv, ReplyInv
  <1>a. PROGRESS \in ToLibrary /\ PROGRESS \in Talk /\ PROGRESS \in Filler /\ PROGRESS \notin Ends
    BY Sorts, Messages DEF Talk, Filler, Ends
  <1>b. PROGRESS # Chunk("data") /\ PROGRESS # Chunk("end") /\ PROGRESS \notin Replies(serial) /\ PROGRESS # Reply("ok", serial)
    BY Messages DEF Replies
  <1>1. LibTypes' /\ FileTypes' /\ lost' = FALSE
    BY DEF LibTypes, FileTypes
  <1>d. DaemonTypes'
    BY Zenon DEF DaemonTypes, Constants, RPCBounds
  <1>2. SocketTypes'
    BY <1>a, SendFacts DEF SocketTypes
  <1>3. LibInv' /\ ErrInv'
    BY DEF LibInv, ErrInv, Sending, Receiving
  <1>4. OkMeansWhole' /\ ErrorIsSet'
    BY DEF OkMeansWhole, ErrorIsSet
  <1>5. (\A n : Carries(down, n) => Carries(down', n)) /\ ~Ended(down', {Chunk("end")}) /\ ~Ended(down', {Reply("ok", serial)}) /\ ~Ended(down', Ends)
    <2>1. PROGRESS \notin {Chunk("end")} /\ PROGRESS \notin {Reply("ok", serial)}
      BY <1>b
    <2>2. Send(PROGRESS) /\ SocketTypes
      OBVIOUS
    <2> QED BY <1>a, <1>b, <2>1, <2>2, SendFacts
  <1>8. FileInv'
    <2>1. dpc' = dpc /\ dpc \in {"recv", "check", "replyok"} /\ UNCHANGED <<libVars, size, sent, stored, up, dout>>
      OBVIOUS
    <2> QED BY <1>5, <2>1, FileKept
  <1>6. CASE ready /\ dpc \in {"recv", "replyok"}
    <2>1. Stream(down, Talk, {}) /\ kind # "download"
      BY <1>0, <1>6 DEF UploadInv, ReplyInv
    <2>2. Stream(down', Talk, {}) /\ Stream(down', Talk, Replies(serial))
      BY <1>a, <2>1, SendFacts
    <2>3. DownInv'
      BY <1>0, <1>6, <2>1, <2>2 DEF DownInv, UploadInv, ReplyInv, Unsent, Sending, Waiting, Receiving
    <2>4. DaemonInv'
      BY <1>0, <1>6, <2>1, <2>2 DEF DaemonInv, UploadInv, ReplyInv, Unsent, Sending, Waiting, Receiving
    <2> QED BY <1>1, <1>2, <1>3, <1>4, <1>d, <1>8, <2>3, <2>4
  <1>7. CASE ready /\ dpc = "check"
    <2>1. /\ kind = "download" /\ ~Ended(down, Ends) /\ (Waiting \/ Receiving)
          /\ Waiting => down # <<>> /\ Head(down) = Reply("ok", serial)
      BY <1>0, <1>7 DEF SendInv
    <2>2. Waiting => Stream(Tail(down), Filler, Ends)
      BY <1>7, <2>1, Messages DEF DownInv
    <2>3. Receiving => Stream(down, Filler, Ends)
      BY <1>7 DEF DownInv
    <2>4. Waiting => down' # <<>> /\ Head(down') = Reply("ok", serial) /\ Stream(Tail(down'), Filler, Ends)
      BY <1>a, <2>1, <2>2, SendFacts
    <2>5. Receiving => Stream(down', Filler, Ends)
      BY <1>a, <2>1, <2>3, SendFacts
    <2>6. DownInv'
      BY <1>7, <2>1, <2>4, <2>5 DEF DownInv, Unsent, Sending, Waiting, Receiving
    <2>7. DaemonInv'
      BY <1>0, <1>7, <1>5, <2>1, <2>4 DEF DaemonInv, SendInv, Unsent, Sending, Waiting, Receiving
    <2> QED BY <1>1, <1>2, <1>3, <1>4, <1>d, <1>8, <2>6, <2>7
  <1>9. CASE ~ready
    BY <1>9, <1>1, <1>2, <1>3, <1>4, <1>d, <1>8 DEF LibInv
  <1> QED
    BY <1>6, <1>7, <1>9, Zenon DEF LibTypes

\* exit.
LEMMA ExitIInv == ASSUME Constants, IInv, Exit PROVE IInv'
  <1> USE DEF IInv, Exit, Goto, libVars, fileVars
  <1>1. LibTypes' /\ FileTypes' /\ SocketTypes' /\ DaemonTypes' /\ lost' = FALSE
    <2>1. LibTypes' /\ FileTypes'
      BY DEF LibTypes, FileTypes
    <2>2. SocketTypes' /\ DaemonTypes'
      BY Zenon DEF SocketTypes, DaemonTypes
    <2> QED BY <2>1, <2>2
  <1>2. LibInv' /\ ErrInv' /\ DownInv'
    BY DEF LibInv, ErrInv, DownInv, Unsent, Sending, Waiting, Receiving
  <1>3. DaemonInv' /\ FileInv'
    BY DEF DaemonInv, FileInv, Unsent, Sending, Waiting, Receiving
  <1>4. OkMeansWhole' /\ ErrorIsSet'
    BY DEF OkMeansWhole, ErrorIsSet
  <1> QED BY <1>1, <1>2, <1>3, <1>4

\* send_chunk.
LEMMA SendChunkIInv == ASSUME Constants, IInv, send_chunk PROVE IInv'
  <1> USE DEF IInv, send_chunk, Goto, dunch, libVars
  <1>0. ready /\ SendInv
    BY DEF LibInv, LibTypes, DaemonInv
  <1>a. dout \in ToLibrary /\ dout \in {Chunk("data")} \cup Ends /\ Chunk("data") \notin Ends
    BY Messages DEF DaemonTypes, Chunks, ToLibrary, Ends
  <1>b. dout \in Filler \cup Ends /\ dout # Reply("ok", serial) /\ (dout \in Ends <=> dout # Chunk("data")) /\ Chunk("data") # Chunk("end")
    BY <1>a, Messages DEF Filler, Ends
  <1>c. dout = Chunk("data") => sent < size
    BY <1>0 DEF FileInv
  <1>n. notify_progress \/ UNCHANGED <<ticks, due>>
    OBVIOUS
  <1>1. LibTypes' /\ DaemonTypes' /\ lost' = FALSE
    <2>1. ticks' \in 0..MaxProgress /\ due' \in BOOLEAN
      BY <1>n, Notified
    <2> QED BY <2>1 DEF LibTypes, DaemonTypes
  <1>d. FileTypes'
    BY <1>c DEF FileTypes, Constants, RPCBounds
  <1>2. SocketTypes'
    BY <1>a, SendFacts DEF SocketTypes
  <1>e. kind = "download" /\ ~Ended(down, Ends) /\ (Waiting \/ Receiving)
    BY <1>0 DEF SendInv
  <1>3. LibInv' /\ ErrInv'
    BY <1>0, <1>e DEF LibInv, ErrInv, Sending, Receiving, Waiting
  <1>4. OkMeansWhole' /\ ErrorIsSet'
    BY <1>e DEF OkMeansWhole, ErrorIsSet, Waiting, Receiving
  <1>5. /\ \A T : Ended(down', T) <=> dout \in T
        /\ \A n : Carries(down, n) /\ dout = Chunk("data") => n \in Nat /\ Carries(down', n + 1)
        /\ \A n : Carries(down, n) /\ dout # Chunk("data") => Carries(down', n)
    BY <1>a, SendFacts
  <1>6. Waiting => down' # <<>> /\ Head(down') = Reply("ok", serial) /\ Stream(Tail(down'), Filler, Ends)
    <2>1. Waiting => down # <<>> /\ Head(down) = Reply("ok", serial) /\ Stream(Tail(down), Filler, Ends)
      BY <1>0, <1>e, Messages DEF DownInv, SendInv
    <2> QED BY <2>1, <1>a, <1>b, <1>e, SendFacts
  <1>7. Receiving => Stream(down', Filler, Ends)
    <2>1. Receiving => Stream(down, Filler, Ends)
      BY <1>0 DEF DownInv
    <2> QED BY <2>1, <1>a, <1>b, <1>e, SendFacts
  <1>u. /\ UNCHANGED <<ready, lpc, kind, serial, size, stored, up, dout, dproc, dser>>
        /\ ~Unsent' /\ ~Sending' /\ lpc # "idle" /\ Waiting' = Waiting /\ Receiving' = Receiving
    BY <1>e DEF Unsent, Sending, Waiting, Receiving
  <1>8. DownInv'
    BY <1>e, <1>u, <1>6, <1>7 DEF DownInv
  <1>9. DaemonInv'
    <2>1. CASE dout = Chunk("data")
      <3>1. dpc' = "check" /\ ~Ended(down', Ends)
        BY <1>5, <1>b, <2>1
      <3>2. SendInv'
        BY <1>0, <1>u, <1>6, <3>1 DEF SendInv
      <3> QED BY <3>1, <3>2 DEF DaemonInv
    <2>2. CASE dout # Chunk("data")
      <3>1. dpc' = "main" /\ Ended(down', Ends)
        BY <1>5, <1>b, <2>2
      <3>2. Stream(up, Flags, {}) /\ (lpc # "rfdiscard" => up = <<>>) /\ (Waiting => lpc # "rfdiscard")
        BY <1>0 DEF SendInv, Waiting
      <3>3. MainInv'
        BY <1>e, <1>u, <3>1, <3>2 DEF MainInv
      <3> QED BY <3>1, <3>3 DEF DaemonInv
    <2> QED BY <2>1, <2>2
  <1>f. sent \in Nat /\ stored \in Nat /\ stored <= sent /\ (dout = Chunk("data") => sent' = sent + 1)
                    /\ (dout # Chunk("data") => sent' = sent)
    BY <1>0 DEF FileInv, FileTypes, Constants, RPCBounds
  <1>g. Waiting \/ lpc = "recvfile" => Carries(down', sent' - stored)
    <2>1. Waiting \/ lpc = "recvfile" => Carries(down, sent - stored)
      BY <1>0, <1>e DEF FileInv
    <2>2. (sent - stored) + 1 = (sent + 1) - stored
      BY <1>f
    <2> QED BY <1>5, <1>f, <2>1, <2>2
  <1>10. FileInv'
    <2>1. dpc' \in {"check", "main"} /\ kind' = "download" /\ stored' <= sent'
      BY <1>e, <1>f, <1>u
    <2>2. ~(dpc' = "main" /\ Waiting' /\ Queued(up', Request(kind', serial')))
      <3>1. Waiting => up = <<>>
        BY <1>0 DEF SendInv, Waiting
      <3> QED BY <1>u, <3>1, Empty
    <2>3. Ended(down', {Chunk("end")}) => sent' = size'
      <3>1. dout = Chunk("end") => sent = size
        BY <1>0 DEF FileInv
      <3>2. Ended(down', {Chunk("end")}) => dout = Chunk("end")
        BY <1>5
      <3> QED BY <1>b, <1>f, <1>u, <3>1, <3>2
    <2> QED BY <1>g, <1>u, <2>1, <2>2, <2>3, Zenon DEF FileInv
  <1> QED BY <1>1, <1>d, <1>2, <1>3, <1>4, <1>8, <1>9, <1>10

\* send_file_write.
LEMMA SendFileWriteIInv == ASSUME Constants, IInv, send_file_write PROVE IInv'
  <1> USE DEF IInv, send_file_write, check_for_library_cancellation, Goto, dunch, libVars
  <1>0. ready /\ SendInv
    BY DEF LibInv, LibTypes, DaemonInv
  <1>a. Stream(up, Flags, {}) /\ (lpc # "rfdiscard" => up = <<>>) /\ kind = "download" /\ (Waiting \/ Receiving)
    BY <1>0 DEF SendInv
  <1>b. /\ up' \in Seq(ToDaemon) /\ Len(up') <= Cap /\ Stream(up', Flags, {}) /\ (lpc # "rfdiscard" => up' = <<>>)
        /\ lost' = FALSE /\ dout' \in Chunks
        /\ (dout' = Chunk("data") => sent < size) /\ (dout' = Chunk("end") => sent = size)
    <2>1. CASE UNCHANGED <<up, lost>>
      BY <2>1, <1>a, Messages DEF SocketTypes, Chunks
    <2>2. CASE Read /\ sent < size /\ dout' = Chunk(IF Head(up) = CANCEL THEN "cancel" ELSE "data") /\ lost' = (lost \/ Head(up) # CANCEL)
      <3>1. Head(up) = CANCEL /\ up # <<>> /\ up' \in Seq(ToDaemon) /\ Len(up') <= Cap /\ Stream(up', Flags, {})
        BY <2>2, <1>a, ReadFacts, Zenon DEF Flags
      <3>2. dout' = Chunk("cancel")
        <4> HIDE DEF IInv
        <4> QED BY <2>2, <3>1
      <3>3. dout' \in Chunks /\ dout' # Chunk("data") /\ dout' # Chunk("end")
        BY <3>2, Messages DEF Chunks
      <3>4. lost' = FALSE
        BY <2>2, <3>1, Zenon
      <3> QED BY <3>1, <3>3, <3>4, <1>a
    <2> QED BY <2>1, <2>2, Zenon
  <1>1. LibTypes' /\ FileTypes'
    BY DEF LibTypes, FileTypes
  <1>2. SocketTypes' /\ DaemonTypes'
    BY <1>b DEF SocketTypes, DaemonTypes
  <1>3. LibInv' /\ ErrInv' /\ DownInv'
    BY <1>0, <1>a, Zenon DEF LibInv, ErrInv, DownInv, Unsent, Sending, Waiting, Receiving
  <1>4. DaemonInv'
    BY <1>0, <1>b, Zenon DEF DaemonInv, SendInv, Unsent, Sending, Waiting, Receiving
  <1>5. FileInv'
    <2>1. /\ UNCHANGED <<ready, lpc, kind, serial, size, sent, stored, down>> /\ dpc' = "write" /\ kind = "download"
          /\ ~Unsent' /\ Waiting' = Waiting
      BY <1>a, Zenon DEF Unsent, Waiting, Receiving
    <2>2. /\ stored <= sent /\ (Waiting \/ lpc = "recvfile" => Carries(down, sent - stored))
          /\ Ended(down, {Chunk("end")}) => sent = size
      BY <1>0, <1>a DEF FileInv
    <2> QED BY <1>b, <2>1, <2>2, Zenon DEF FileInv
  <1>6. OkMeansWhole' /\ ErrorIsSet'
    BY DEF OkMeansWhole, ErrorIsSet
  <1> QED BY <1>b, <1>1, <1>2, <1>3, <1>4, <1>5, <1>6

\* receive_file.
LEMMA ReceiveFileIInv == ASSUME Constants, IInv, receive_file PROVE IInv'
  <1> USE DEF IInv, receive_file, Goto, dunch, libVars
  <1>0. ready /\ UploadInv
    BY DEF LibInv, LibTypes, DaemonInv
  <1>a. /\ Head(up) \in {Chunk("data"), Chunk("end"), Chunk("cancel")} /\ Head(up) # CANCEL
        /\ Stream(up', {Chunk("data")}, Ends) /\ (Head(up) \in Ends => up' = <<>>)
    BY <1>0, ReadFacts, Messages DEF UploadInv, Ends
  <1>b. kind = "upload" /\ dproc = "upload" /\ dser = serial /\ (Sending \/ Waiting) /\ Stream(down, Talk, {})
    BY <1>0 DEF UploadInv
  <1>c. /\ \A U : Ended(up', U) => Ended(up, U)
        /\ \A n : Carries(up, n) /\ Head(up) = Chunk("data") => n >= 1 /\ Carries(up', n - 1)
        /\ \A n : Carries(up, n) /\ Head(up) # Chunk("data") => Carries(up', n)
        /\ up' \in Seq(ToDaemon) /\ Len(up') <= Cap
        /\ Head(up) \in Ends => Ended(up, Ends) /\ Ended(up, {Head(up)})
    BY <1>a, ReadFacts
  <1>d. Head(up) \in Ends => Waiting
    BY <1>0, <1>b, <1>c DEF LibInv
  <1>e. Chunk("data") \notin Ends /\ Chunk("end") \in Ends /\ Chunk("cancel") \in Ends /\ Chunk("end") # Chunk("cancel")
    BY Messages DEF Ends
  <1>f. lost' = FALSE
    BY <1>a
  <1>g. \/ Head(up) = Chunk("data") /\ stored' = stored /\ dpc' \in {"recv", "discard", "cancel"} /\ (dpc' = "recv" => FALSE)
        \/ Head(up) = Chunk("data") /\ dpc = "recv" /\ stored' = stored + 1 /\ dpc' = dpc
        \/ Head(up) \in Ends /\ stored' = stored /\ dpc' \in {"replyok", "replyerr"} /\ (dpc' = "replyok" => dpc = "recv" /\ Head(up) = Chunk("end"))
    BY <1>a, <1>e
  <1>n. notify_progress \/ UNCHANGED <<ticks, due>>
    OBVIOUS
  <1>1. LibTypes' /\ DaemonTypes' /\ SocketTypes'
    <2>1. ticks' \in 0..MaxProgress /\ due' \in BOOLEAN
      BY <1>n, Notified
    <2> QED BY <2>1, <1>c, <1>g DEF LibTypes, DaemonTypes, SocketTypes
  <1>2. stored' <= sent /\ FileTypes'
    <2>1. dpc = "recv" => Carries(up, sent - stored)
      BY <1>0 DEF FileInv
    <2>2. dpc = "recv" /\ Head(up) = Chunk("data") => sent - stored >= 1
      BY <1>c, <2>1
    <2>3. stored <= sent
      BY <1>0 DEF FileInv
    <2> QED BY <2>2, <2>3, <1>g DEF FileTypes, Constants, RPCBounds
  <1>3. LibInv' /\ ErrInv' /\ DownInv'
    BY <1>0, <1>b, <1>c, <1>g DEF LibInv, ErrInv, DownInv, Unsent, Sending, Waiting, Receiving
  <1>4. DaemonInv'
    BY <1>0, <1>a, <1>b, <1>d, <1>g DEF DaemonInv, UploadInv, ReplyInv, Unsent, Sending, Waiting, Receiving
  <1>5. FileInv'
    <2>1. dpc' = "recv" => Carries(up', sent - stored')
      <3> SUFFICES ASSUME dpc' = "recv" PROVE Carries(up', sent - stored')
        OBVIOUS
      <3>1. Head(up) = Chunk("data") /\ dpc = "recv" /\ stored' = stored + 1
        BY <1>g
      <3>2. Carries(up, sent - stored)
        BY <3>1, <1>0 DEF FileInv
      <3>3. sent - stored' = (sent - stored) - 1
        BY <3>1 DEF FileTypes, Constants, RPCBounds
      <3> QED BY <3>1, <3>2, <3>3, <1>c
    <2>2. Waiting /\ Ended(up', {Chunk("end")}) => sent = size
      BY <1>0, <1>b, <1>c DEF FileInv
    <2>3. dpc' = "replyok" => stored' = size
      <3> SUFFICES ASSUME dpc' = "replyok" PROVE stored = size
        BY <1>g, <1>e
      <3>1. dpc = "recv" /\ Head(up) = Chunk("end") /\ Waiting /\ up' = <<>>
        BY <1>a, <1>d, <1>e, <1>g
      <3>2. sent = size
        BY <3>1, <1>0, <1>b, <1>c, <1>e, Zenon DEF FileInv
      <3>3. Carries(up, sent - stored)
        BY <3>1, <1>0 DEF FileInv
      <3>4. sent - stored = 0
        BY <3>1, <3>3, <1>c, <1>e, Empty
      <3> QED BY <3>2, <3>4 DEF FileTypes, Constants, RPCBounds
    <2>4. ~Ended(down, {Reply("ok", serial)})
      <3>1. Talk \cap {Reply("ok", serial)} = {}
        BY Messages DEF Talk
      <3> QED BY <3>1, <1>b, StreamOpen, Zenon DEF SocketTypes
    <2> QED BY <1>0, <1>b, <1>g, <1>2, <2>1, <2>2, <2>3, <2>4 DEF FileInv, Unsent, Sending, Waiting, Receiving
  <1>6. OkMeansWhole' /\ ErrorIsSet'
    BY <1>b DEF OkMeansWhole, ErrorIsSet, Sending, Waiting
  <1> QED BY <1>f, <1>1, <1>2, <1>3, <1>4, <1>5, <1>6

\* main_loop, which finds flags of an earlier call and the request of this one.
LEMMA MainLoopIInv == ASSUME Constants, IInv, main_loop PROVE IInv'
  <1> USE DEF IInv, main_loop, Goto, dunch, libVars
  <1> DEFINE r == Request(kind, serial)
  <1>0. ready /\ MainInv /\ up \in Seq(ToDaemon)
    BY DEF LibInv, LibTypes, DaemonInv, SocketTypes
  <1>a. Read
    OBVIOUS
  <1>b. /\ up' \in Seq(ToDaemon) /\ Len(up') <= Cap /\ up # <<>> /\ up' = Tail(up)
        /\ \A U : Ended(up', U) => Ended(up, U)
        /\ \A U : up' # <<>> => (Ended(up, U) <=> Ended(up', U))
        /\ \A n : Carries(up, n) /\ Head(up) # Chunk("data") => Carries(up', n)
    BY <1>a, ReadFacts DEF Read
  <1>c. r # CANCEL /\ r \notin Ends /\ r # Chunk("data") /\ CANCEL # Chunk("data") /\ r.t = "request" /\ CANCEL.t # "request"
    BY Messages DEF Ends
  <1>d. ASSUME Queued(up, r)
        PROVE  /\ Head(up) \in {CANCEL, r} /\ (Head(up) = CANCEL => Queued(up', r))
               /\ Head(up) = r => Stream(up', {Chunk("data")}, Ends)
    BY <1>0, <1>b, <1>c, <1>d, QueuedTail, Zenon
  <1>e. ASSUME Stream(up, Flags, {}) PROVE Head(up) = CANCEL /\ Stream(up', Flags, {})
    BY <1>a, <1>e, ReadFacts DEF Flags
  <1>f. lpc \in {"idle"} \/ Unsent \/ Sending \/ Waiting \/ Receiving
    <2>1. lpc \in {"check", "write"} => out.t \in {"request", "chunk"}
      BY Messages DEF LibInv, Chunks
    <2> QED BY <2>1 DEF LibTypes, Unsent, Sending, Waiting, Receiving
  <1>g. ~(Stream(up, Flags, {})) => (Sending \/ Waiting) /\ Queued(up, r) /\ down = <<>> /\ (kind # "upload" => Waiting /\ Ended(up, {r}))
    <2>1. Sending => kind = "upload"
      BY DEF LibInv
    <2> QED BY <2>1, <1>0, <1>b, <1>f, Empty DEF MainInv
  <1>h. Head(up) \in {CANCEL, r}
    BY <1>d, <1>e, <1>g
  <1>1. LibTypes' /\ FileTypes' /\ SocketTypes'
    BY <1>b DEF LibTypes, FileTypes, SocketTypes
  <1>2. OkMeansWhole' /\ ErrorIsSet'
    BY DEF OkMeansWhole, ErrorIsSet
  <1>3. LibInv' /\ ErrInv' /\ DownInv'
    BY <1>0, <1>b DEF LibInv, ErrInv, DownInv, Unsent, Sending, Waiting, Receiving
  <1>4. CASE Head(up) = CANCEL
    <2>1. UNCHANGED <<daemonVars, lost>>
      BY <1>4, <1>c DEF daemonVars
    <2>2. DaemonTypes' /\ lost' = FALSE
      BY <2>1 DEF DaemonTypes, daemonVars
    <2>3. \A n : Carries(up, n) => Carries(up', n)
      BY <1>4, <1>b, <1>c
    <2>4. Queued(up, r) => Queued(up', r)
      BY <1>d, <1>4
    <2>5. DaemonInv'
      <3>1. Sending => Queued(up', r) /\ down = <<>>
        BY <1>0, <2>4 DEF MainInv
      <3>2. lpc = "idle" \/ Unsent \/ Receiving => Stream(up', Flags, {})
        BY <1>0, <1>e DEF MainInv
      <3>3. Receiving => Ended(down, Ends) /\ (lpc # "rfdiscard" => FALSE)
        BY <1>0, <1>b DEF MainInv
      <3>4. Waiting => Queued(up', r) /\ down = <<>> /\ (kind # "upload" => Ended(up', {r}))
        <4> SUFFICES ASSUME Waiting PROVE Queued(up', r) /\ down = <<>> /\ (kind # "upload" => Ended(up', {r}))
          OBVIOUS
        <4>1. Queued(up, r) /\ down = <<>> /\ (kind # "upload" => Ended(up, {r}))
          BY <1>0, <1>b DEF MainInv
        <4>2. up' # <<>>
          BY <4>1, <2>4, Empty
        <4> QED BY <4>1, <4>2, <2>4, <1>b
      <3> QED BY <1>0, <2>1, <3>1, <3>2, <3>3, <3>4
          DEF DaemonInv, MainInv, daemonVars, Unsent, Sending, Waiting, Receiving
    <2>6. FileInv'
      <3>1. Sending \/ Waiting => Queued(up, r)
        BY <1>0, <1>b DEF MainInv
      <3> QED BY <1>0, <1>b, <2>1, <2>3, <3>1 DEF FileInv, daemonVars, Unsent, Sending, Waiting, Receiving
    <2> QED BY <1>1, <1>2, <1>3, <2>2, <2>5, <2>6
  <1>5. CASE Head(up) = r
    <2>1. (Sending \/ Waiting) /\ Queued(up, r) /\ down = <<>> /\ (kind # "upload" => Waiting /\ Ended(up, {r}))
      BY <1>5, <1>c, <1>e, <1>g
    <2>2. Stream(up', {Chunk("data")}, Ends)
      BY <2>1, <1>d, <1>5
    <2>3. dispatch_incoming_message(r)
      BY <1>5, <1>c
    <2>4. kind \in Kinds /\ serial >= 1 /\ r.kind = kind /\ r.serial = serial
      BY <2>1, Messages DEF LibInv, Sending, Waiting
    <2>5. /\ dproc' = kind /\ dser' = serial /\ ticks' = 0 /\ UNCHANGED <<dout, lost>>
          /\ dpc' \in (IF kind = "upload" THEN {"recv", "cancel"} ELSE {"replyok", "replyerr"})
      BY <2>3, <2>4 DEF dispatch_incoming_message, Constants
    <2>6. DaemonTypes' /\ lost' = FALSE
      BY <2>4, <2>5 DEF DaemonTypes, LibTypes, Constants, RPCBounds
    <2>7. kind # "upload" => up' = <<>>
      <3> SUFFICES ASSUME kind # "upload", up' # <<>> PROVE FALSE
        OBVIOUS
      <3>1. Ended(up', {r})
        BY <2>1, <1>b
      <3>2. ({Chunk("data")} \cup Ends) \cap {r} = {}
        BY <1>c
      <3> QED BY <3>1, <3>2, <2>2, <1>b, EndedIn, Zenon
    <2>8. Stream(down, Talk, {})
      BY <2>1, Empty
    <2>9. DaemonInv'
      BY <1>0, <2>1, <2>2, <2>5, <2>7, <2>8
         DEF DaemonInv, UploadInv, ReplyInv, Unsent, Sending, Waiting, Receiving
    <2>10. stored = 0 /\ Carries(up', sent)
      BY <1>0, <1>5, <1>b, <1>c, <2>1 DEF FileInv
    <2>11. FileInv'
      <3>1. Carries(up', sent - stored)
        <4>1. sent - stored = sent
          BY <2>10 DEF FileTypes, Constants, RPCBounds
        <4> QED BY <2>10, <4>1
      <3>2. kind # "upload" => sent = 0
        BY <2>7, <2>10, Empty
      <3>3. \A T : ~Ended(down, T)
        BY <2>1, Empty
      <3>4. Waiting /\ kind = "upload" /\ Ended(up', {Chunk("end")}) => sent = size
        BY <1>0, <1>b DEF FileInv
      <3> QED BY <1>0, <2>1, <2>5, <2>10, <3>1, <3>2, <3>3, <3>4 DEF FileInv, Unsent, Sending, Waiting, Receiving
    <2> QED BY <1>1, <1>2, <1>3, <2>6, <2>9, <2>11
  <1> QED BY <1>h, <1>4, <1>5, Zenon

-----------------------------------------------------------------------------
(* The steps of the library that send *)

\* guestfs_user_cancel.
LEMMA UserCancelIInv == ASSUME Constants, IInv, guestfs_user_cancel PROVE IInv'
  <1> USE DEF guestfs_user_cancel, fileVars, daemonVars
  <1>0. LibTypes /\ FileTypes /\ SocketTypes /\ DaemonTypes /\ lost = FALSE
    BY DEF IInv
  <1>z. LibInv /\ DownInv /\ DaemonInv /\ FileInv /\ ErrInv
    BY DEF IInv
  <1>a. (Unsent' <=> Unsent) /\ (Sending' <=> Sending) /\ (Waiting' <=> Waiting) /\ (Receiving' <=> Receiving)
    BY DEF Unsent, Sending, Waiting, Receiving
  <1>1. LibTypes' /\ FileTypes' /\ SocketTypes' /\ DaemonTypes' /\ lost' = FALSE
    BY <1>0 DEF LibTypes, FileTypes, SocketTypes, DaemonTypes
  <1>2. LibInv' /\ DownInv'
    BY <1>z, <1>a, Zenon DEF LibInv, DownInv
  <1>3. DaemonInv'
    BY <1>z, <1>a, Zenon DEF DaemonInv, MainInv, UploadInv, ReplyInv, SendInv
  <1>4. FileInv'
    BY <1>z, <1>a, Zenon DEF FileInv
  <1>5. ErrInv'
    BY <1>z DEF ErrInv, Sending
  <1>6. OkMeansWhole' /\ ErrorIsSet'
    BY DEF IInv, OkMeansWhole, ErrorIsSet
  <1> QED BY <1>1, <1>2, <1>3, <1>4, <1>5, <1>6 DEF IInv

\* The library finds the connection closed and frees it; nothing is read from it any more.
LEMMA ClosedIInv ==
  ASSUME Constants, IInv, lpc # "idle", dpc = "exited", child_cleanup,
         lpc' \in {"idle", "recv", "discard"}, lpc' = "discard" => kind = "upload",
         ret' \in {ret, "error"}, lpc' = "idle" => ret' = "error",
         UNCHANGED <<kind, serial, out, after, cancel, stopped, fileVars, up, down, daemonVars, lost>>
  PROVE  IInv'
  <1> USE DEF child_cleanup, Error, fileVars, daemonVars
  <1>0. LibTypes /\ FileTypes /\ SocketTypes /\ DaemonTypes /\ lost = FALSE
    BY DEF IInv
  <1>z. LibInv /\ ErrInv
    BY DEF IInv
  <1>a. ~ready' /\ err' # "unset" /\ err' \in {"unset", "EINTR", "other"}
    BY <1>0 DEF LibTypes
  <1>1. LibTypes' /\ FileTypes' /\ SocketTypes' /\ DaemonTypes' /\ lost' = FALSE
    <2>1. LibTypes' /\ lost' = FALSE
      BY <1>0, <1>a, Zenon DEF LibTypes
    <2>2. FileTypes' /\ SocketTypes' /\ DaemonTypes'
      BY <1>0, Zenon DEF FileTypes, SocketTypes, DaemonTypes
    <2> QED BY <2>1, <2>2
  <1>2. LibInv'
    BY <1>z, <1>a, Zenon DEF LibInv, Sending, Receiving
  <1>3. DownInv' /\ DaemonInv' /\ FileInv'
    BY <1>a, Zenon DEF DownInv, DaemonInv, FileInv
  <1>4. ErrInv'
    BY <1>z, <1>a DEF ErrInv, Sending
  <1>5. OkMeansWhole' /\ ErrorIsSet'
    BY <1>a DEF IInv, OkMeansWhole, ErrorIsSet
  <1> QED BY <1>1, <1>2, <1>3, <1>4, <1>5 DEF IInv

\* A handle without a connection cannot be used.
LEMMA NotReadyIInv ==
  ASSUME Constants, IInv, ~ready, lpc \in {"recv", "discard"}, Return("error"), Error("other"),
         UNCHANGED <<ready, kind, serial, out, after, cancel, stopped, fileVars, up, down, daemonVars, lost>>
  PROVE  IInv'
  <1> USE DEF Return, Error, fileVars, daemonVars
  <1>0. LibTypes /\ FileTypes /\ SocketTypes /\ DaemonTypes /\ lost = FALSE
    BY DEF IInv
  <1>z. LibInv /\ ErrInv
    BY DEF IInv
  <1>a. ~ready' /\ err' # "unset" /\ err' \in {"unset", "EINTR", "other"}
    BY <1>0 DEF LibTypes
  <1>1. LibTypes' /\ FileTypes' /\ SocketTypes' /\ DaemonTypes' /\ lost' = FALSE
    BY <1>0, <1>a DEF LibTypes, FileTypes, SocketTypes, DaemonTypes
  <1>2. LibInv'
    BY <1>z, <1>a DEF LibInv, Sending, Receiving
  <1>3. DownInv' /\ DaemonInv' /\ FileInv'
    BY <1>a, Zenon DEF DownInv, DaemonInv, FileInv
  <1>4. ErrInv'
    BY <1>z, <1>a DEF ErrInv, Sending
  <1>5. OkMeansWhole' /\ ErrorIsSet'
    BY <1>a DEF IInv, OkMeansWhole, ErrorIsSet
  <1> QED BY <1>1, <1>2, <1>3, <1>4, <1>5 DEF IInv

\* A call begins.
LEMMA CallIInv ==
  ASSUME Constants, IInv, NEW k \in Kinds, NEW n \in 0..MaxChunks, Call(k, n) PROVE IInv'
  <1> USE DEF IInv, Call, LibGoto, daemonVars
  <1>a. serial + 1 \in 1..MaxCalls
    BY DEF LibTypes, Constants, RPCBounds
  <1>b. Request(k, serial + 1) \in ToDaemon
    BY <1>a DEF ToDaemon
  <1>1. FileTypes' /\ SocketTypes' /\ DaemonTypes' /\ lost' = FALSE
    BY DEF FileTypes, SocketTypes, DaemonTypes, fileVars, Constants, RPCBounds
  <1>2. LibTypes'
    <2>1. ready' \in BOOLEAN /\ cancel' \in BOOLEAN /\ stopped' \in BOOLEAN
      BY Zenon DEF LibTypes
    <2>2. serial' \in 0..MaxCalls /\ kind' \in Kinds \cup {"none"} /\ out' \in ToDaemon
      BY <1>a, <1>b DEF LibTypes, Constants, RPCBounds
    <2> QED BY <2>1, <2>2 DEF LibTypes
  <1>3. CASE ready
    <2>1. /\ lpc' = "check" /\ out' = Request(kind', serial') /\ kind' \in Kinds /\ serial' >= 1 /\ out'.t = "request"
          /\ ret' = "none" /\ sent' = 0 /\ stored' = 0
      BY <1>3, <1>a, Messages
    <2>a. /\ LibTypes /\ DaemonTypes /\ DownInv /\ DaemonInv /\ lpc = "idle"
          /\ UNCHANGED <<ready, up, down, dpc, dproc, dser, dout>>
      OBVIOUS
    <2>b. ~Sending /\ ~Waiting /\ ~Receiving /\ ~Sending' /\ ~Waiting' /\ ~Receiving'
      BY <2>a, <2>1 DEF Sending, Waiting, Receiving
    <2>2. dpc \in {"main", "exited"} /\ down = <<>> /\ (dpc = "main" => Stream(up, Flags, {}))
      <3> HIDE DEF IInv, Call
      <3>1. down = <<>>
        BY <1>3, <2>a DEF DownInv
      <3>2. dpc \in {"main", "exited"}
        BY <1>3, <2>a, <2>b DEF DaemonInv, UploadInv, ReplyInv, SendInv, DaemonTypes
      <3>3. dpc = "main" => Stream(up, Flags, {})
        BY <1>3, <2>a DEF DaemonInv, MainInv
      <3> QED BY <3>1, <3>2, <3>3
    <2>3. LibInv' /\ DownInv'
      <3> HIDE DEF IInv, Call
      <3>1. LibInv'
        BY <1>3, <2>1, <2>a, <2>b DEF LibInv
      <3>2. DownInv'
        BY <2>a, <2>b, <2>2 DEF DownInv
      <3> QED BY <3>1, <3>2
    <2>4. DaemonInv'
      <3> HIDE DEF IInv, Call
      <3> QED BY <2>a, <2>b, <2>2, Zenon DEF DaemonInv, MainInv
    <2>5. FileInv'
      <3>1. ~Sending' /\ ~Waiting' /\ lpc' # "recvfile" /\ down' = <<>> /\ dpc' \in {"main", "exited"}
        BY <2>1, <2>2 DEF Sending, Waiting
      <3>2. ~Ended(down', {Chunk("end")})
        BY <3>1, Empty
      <3>3. stored' = 0 /\ sent' = 0 /\ dpc' \notin {"recv", "replyok", "replyerr", "write"} /\ stored' <= sent'
        BY <2>1, <3>1
      <3> HIDE DEF IInv, Call
      <3> QED BY <3>1, <3>2, <3>3, Zenon DEF FileInv
    <2>6. ErrInv'
      BY <1>3, <2>1, Zenon DEF ErrInv, Sending
    <2>7. OkMeansWhole' /\ ErrorIsSet'
      BY <2>1 DEF OkMeansWhole, ErrorIsSet
    <2> QED BY <1>1, <1>2, <2>3, <2>4, <2>5, <2>6, <2>7
  <1>4. CASE ~ready
    <2>a. ~ready'
      BY <1>4
    <2>1. LibInv'
      BY <1>4, <2>a, Zenon DEF LibInv, Sending, Receiving
    <2>b. DownInv' /\ DaemonInv' /\ FileInv'
      <3> HIDE DEF IInv, Call
      <3> QED BY <2>a, Zenon DEF DownInv, DaemonInv, FileInv
    <2>2. ErrInv'
      BY <1>4 DEF ErrInv, Sending
    <2>3. OkMeansWhole' /\ ErrorIsSet'
      BY <1>4 DEF OkMeansWhole, ErrorIsSet
    <2> QED BY <1>1, <1>2, <2>1, <2>b, <2>2, <2>3, Zenon
  <1> QED BY <1>3, <1>4, Zenon

\* guestfs___send_file.
LEMMA SendFileIInv == ASSUME Constants, IInv, send_file PROVE IInv'
  <1> USE DEF IInv, send_file, SendCancellation, Error, LibGoto, fileVars, daemonVars
  <1>a. /\ lpc' = "check" /\ out' \in Chunks /\ out' \in ToDaemon /\ out'.t = "chunk" /\ kind = "upload"
        /\ (out' = Chunk("data") => sent < size) /\ (out' = Chunk("end") => sent = size)
    <2>1. kind = "upload"
      BY Zenon DEF LibInv, Sending
    <2>2. out' \in {Chunk("data"), Chunk("end"), Chunk("cancel")}
      OBVIOUS
    <2>3. (out' = Chunk("data") => sent < size) /\ (out' = Chunk("end") => sent = size)
      BY Messages DEF FileTypes, Constants, RPCBounds
    <2> QED BY <2>1, <2>2, <2>3, Messages DEF Chunks, ToDaemon
  <1>b. after' \in {"recv", "discard"} /\ err' \in {"unset", "EINTR", "other"}
    BY Zenon DEF LibTypes
  <1>c. out' = Chunk("cancel") => err' # "unset"
    BY Messages
  <1>1. LibTypes' /\ FileTypes' /\ SocketTypes' /\ DaemonTypes' /\ lost' = FALSE
    <2>1. LibTypes' /\ lost' = FALSE
      BY <1>a, <1>b, Zenon DEF LibTypes
    <2>2. FileTypes' /\ SocketTypes'
      BY Zenon DEF FileTypes, SocketTypes
    <2>3. DaemonTypes'
      BY Zenon DEF DaemonTypes
    <2> QED BY <2>1, <2>2, <2>3
  <1>2. Sending /\ Sending' /\ ~Unsent' /\ ~Waiting' /\ ~Receiving' /\ ~Unsent /\ ~Waiting /\ ~Receiving
    BY <1>a, Zenon DEF Sending, Unsent, Waiting, Receiving
  <1>d. /\ LibInv /\ DownInv /\ DaemonInv /\ FileInv /\ lpc = "file" /\ lpc' = "check"
        /\ UNCHANGED <<ready, kind, serial, size, sent, stored, up, down, dpc, dproc, dser, dout>>
    BY Zenon
  <1>3. LibInv' /\ DownInv'
    <2> HIDE DEF IInv, send_file
    <2> QED BY <1>a, <1>d, <1>2, Zenon DEF LibInv, DownInv
  <1>4. DaemonInv'
    <2> HIDE DEF IInv, send_file
    <2> QED BY <1>d, <1>2, Zenon DEF DaemonInv, MainInv, UploadInv, ReplyInv, SendInv
  <1>5. FileInv'
    <2> HIDE DEF IInv, send_file
    <2> QED BY <1>a, <1>d, <1>2, Zenon DEF FileInv
  <1>6. ErrInv'
    BY <1>a, <1>b, <1>c, Zenon DEF ErrInv, Sending
  <1>7. OkMeansWhole' /\ ErrorIsSet'
    BY <1>a, Zenon DEF OkMeansWhole, ErrorIsSet
  <1> QED BY <1>1, <1>3, <1>4, <1>5, <1>6, <1>7

\* guestfs___recv_file cancels the download.
LEMMA RecvFileCancelIInv == ASSUME Constants, IInv, recv_file_cancel PROVE IInv'
  <1> USE DEF IInv, recv_file_cancel, LibGoto, fileVars, daemonVars
  <1>a. ready /\ Receiving /\ Receiving' /\ ~Waiting /\ ~Waiting' /\ ~Sending /\ ~Sending' /\ ~Unsent /\ ~Unsent' /\ kind = "download"
    BY Zenon DEF LibInv, LibTypes, Receiving, Waiting, Sending, Unsent
  <1>b. dpc \in {"main", "check", "write", "exited"} /\ (dpc # "exited" => up = <<>>)
    BY <1>a, Zenon DEF DaemonInv, MainInv, UploadInv, ReplyInv, SendInv, DaemonTypes
  <1>c. CANCEL \in ToDaemon
    BY Sorts
  <1>d. up' \in Seq(ToDaemon) /\ Len(up') <= Cap /\ (dpc # "exited" => Stream(up', Flags, {}))
    <2>1. CASE UNCHANGED up
      BY <2>1, <1>b, Empty DEF SocketTypes
    <2>2. CASE dpc # "exited" /\ Len(up) < Cap /\ up' = Append(up, CANCEL)
      <3>1. up' \in Seq(ToDaemon) /\ Len(up') <= Cap
        BY <2>2, <1>c, WriteFacts, Zenon
      <3>2. Stream(up, Flags, {}) /\ ~Ended(up, {}) /\ CANCEL \in Flags
        BY <2>2, <1>b, Empty DEF Flags
      <3>3. Stream(up', Flags, {})
        BY <2>2, <3>2, <1>c, WriteFacts, Zenon
      <3> QED BY <3>1, <3>3
    <2> QED BY <2>1, <2>2
  <1>1. LibTypes' /\ FileTypes' /\ SocketTypes' /\ DaemonTypes' /\ lost' = FALSE
    BY <1>d DEF LibTypes, FileTypes, SocketTypes, DaemonTypes
  <1>e. /\ LibInv /\ DownInv /\ DaemonInv /\ FileInv /\ lpc = "rfcancel" /\ lpc' = "rfdiscard"
        /\ UNCHANGED <<ready, kind, serial, out, size, sent, stored, down, dpc, dproc, dser, dout>>
    OBVIOUS
  <1>2. LibInv' /\ DownInv'
    <2> HIDE DEF IInv, recv_file_cancel
    <2> QED BY <1>a, <1>e, Zenon DEF LibInv, DownInv
  <1>3. DaemonInv'
    <2> HIDE DEF IInv, recv_file_cancel
    <2> QED BY <1>a, <1>b, <1>d, <1>e, Zenon DEF DaemonInv, MainInv, SendInv
  <1>4. FileInv'
    <2> HIDE DEF IInv, recv_file_cancel
    <2> QED BY <1>a, <1>b, <1>e, Zenon DEF FileInv
  <1>5. ErrInv'
    BY <1>a DEF ErrInv
  <1>6. OkMeansWhole' /\ ErrorIsSet'
    BY DEF OkMeansWhole, ErrorIsSet
  <1> QED BY <1>1, <1>2, <1>3, <1>4, <1>5, <1>6, Zenon

\* write_data of a request.
LEMMA WriteRequestIInv ==
  ASSUME Constants, IInv, write_data, dpc # "exited", out.t = "request" PROVE IInv'
  <1> USE DEF IInv, write_data, daemonVars
  <1> DEFINE r == Request(kind, serial)
  <1>a. ready /\ Unsent /\ ~Sending /\ ~Waiting /\ ~Receiving
    BY DEF LibInv, LibTypes, Unsent, Sending, Waiting, Receiving
  <1>b. dpc = "main" /\ down = <<>> /\ Stream(up, Flags, {}) /\ sent = 0 /\ stored = 0 /\ kind \in Kinds /\ serial >= 1
    <2>1. dpc = "main" /\ down = <<>> /\ Stream(up, Flags, {})
      BY <1>a DEF DownInv, DaemonInv, MainInv, UploadInv, ReplyInv, SendInv, DaemonTypes
    <2>2. sent = 0 /\ stored = 0
      BY <1>a DEF FileInv, FileTypes, Constants, RPCBounds
    <2>3. kind \in Kinds /\ serial >= 1
      BY DEF LibInv
    <2> QED BY <2>1, <2>2, <2>3
  <1>c. out = r /\ r \in ToDaemon /\ r \notin Ends /\ r # Chunk("data") /\ r \in {r}
    BY <1>a, <1>b, Messages DEF LibInv, LibTypes, Chunks, Ends
  <1>d. Len(up) < Cap /\ up' = Append(up, r) /\ RequestWritten /\ UNCHANGED <<sent, ready, ret>>
    BY <1>c
  <1>e. /\ up' \in Seq(ToDaemon) /\ Len(up') <= Cap /\ Queued(up', r) /\ Carries(up', 0)
        /\ ~Ended(up', Ends) /\ ~Ended(up', {Chunk("end")}) /\ Ended(up', {r})
    <2>1. Chunk("end") \in Ends
      BY DEF Ends
    <2> QED BY <2>1, <1>b, <1>c, <1>d, WriteFacts
  <1>f. \/ /\ kind = "upload" /\ Sending' /\ ~Waiting' /\ ~Receiving' /\ ~Unsent' /\ cancel' = FALSE /\ lpc' \in {"file", "check"}
           /\ out' \in ToDaemon /\ after' \in {"recv", "discard"} /\ err' \in {"unset", "EINTR", "other"}
           /\ lpc' = "check" => out' = Chunk("cancel") /\ err' # "unset"
        \/ /\ kind # "upload" /\ lpc' = "recv" /\ ~Sending' /\ Waiting' /\ ~Receiving' /\ ~Unsent'
           /\ UNCHANGED <<cancel, err, out, after>>
    <2>1. Chunk("cancel").t = "chunk" /\ Chunk("cancel") \in ToDaemon
      BY Messages DEF ToDaemon, Chunks
    <2> QED BY <2>1, <1>d DEF RequestWritten, SendCancellation, LibGoto, Error, LibTypes, Sending, Waiting, Receiving, Unsent
  <1>1. FileTypes' /\ SocketTypes' /\ DaemonTypes' /\ lost' = FALSE
    BY <1>d, <1>e DEF FileTypes, SocketTypes, DaemonTypes
  <1>2. LibTypes'
    <2>1. ready' \in BOOLEAN /\ cancel' \in BOOLEAN /\ stopped' \in BOOLEAN
      BY <1>d, <1>f, Zenon DEF LibTypes
    <2> QED BY <2>1, <1>d, <1>f DEF LibTypes
  <1>3. LibInv' /\ DownInv'
    <2>1. Chunk("cancel") \in Chunks /\ Chunk("cancel") # Chunk("data") /\ Chunk("cancel") # Chunk("end")
      BY Messages DEF Chunks
    <2>2. Stream(down, Talk, {}) /\ Stream(down, Talk, Replies(serial))
      BY <1>b, Empty
    <2> QED BY <2>1, <2>2, <1>a, <1>b, <1>d, <1>e, <1>f DEF LibInv, DownInv
  <1>4. DaemonInv'
    BY <1>b, <1>d, <1>e, <1>f DEF DaemonInv, MainInv
  <1>5. FileInv'
    <2>1. ~Ended(down, {Chunk("end")}) /\ ~Ended(down, {Reply("ok", serial)}) /\ Carries(down, 0)
      BY <1>b, Empty
    <2>2. UNCHANGED <<ready, kind, serial, size, sent, stored, down, dpc>> /\ ~Unsent' /\ lpc' # "recvfile"
      BY <1>d, <1>f
    <2> QED BY <1>b, <1>e, <2>1, <2>2 DEF FileInv
  <1>6. ErrInv'
    BY <1>a, <1>d, <1>f DEF ErrInv
  <1>7. OkMeansWhole' /\ ErrorIsSet'
    BY <1>f DEF OkMeansWhole, ErrorIsSet
  <1> QED BY <1>1, <1>2, <1>3, <1>4, <1>5, <1>6, <1>7

\* write_data of a chunk.
LEMMA WriteChunkIInv ==
  ASSUME Constants, IInv, write_data, dpc # "exited", out.t # "request" PROVE IInv'
  <1> USE DEF IInv, write_data, daemonVars
  <1> DEFINE r == Request(kind, serial)
  <1>a. out \in Chunks /\ out \in ToDaemon /\ out \in {Chunk("data")} \cup Ends /\ out.t = "chunk"
    BY Messages DEF LibInv, LibTypes, Chunks, Ends
  <1>b. ready /\ Sending /\ ~Unsent /\ ~Waiting /\ ~Receiving /\ kind = "upload" /\ ~Ended(up, Ends)
    BY <1>a DEF LibInv, LibTypes, Unsent, Sending, Waiting, Receiving
  <1>c. dpc \in {"main", "recv", "cancel", "discard"}
    BY <1>b DEF DaemonInv, ReplyInv, SendInv, DaemonTypes
  <1>d. /\ (dpc = "main" => Queued(up, r) /\ down = <<>>) /\ (dpc # "main" => UploadInv)
        /\ dpc = "main" => stored = 0 /\ Carries(up, sent)
        /\ dpc = "recv" => Carries(up, sent - stored)
    <2>1. (dpc = "main" => Queued(up, r) /\ down = <<>>) /\ (dpc # "main" => UploadInv)
      BY <1>b, <1>c DEF DaemonInv, MainInv
    <2> QED BY <2>1, <1>b DEF FileInv
  <1>e. Chunk("data") \notin Ends /\ Chunk("end") \in Ends /\ (out \in Ends <=> out # Chunk("data")) /\ {Chunk("end")} \subseteq Ends
    BY <1>a, Messages DEF Ends
  <1>f. Len(up) < Cap /\ up' = Append(up, out) /\ UNCHANGED <<ready, ret, cancel, err, out, after>>
    BY <1>a
  <1>g. /\ up' \in Seq(ToDaemon) /\ Len(up') <= Cap
        /\ \A T : Ended(up', T) <=> out \in T
        /\ \A n : Carries(up, n) /\ out = Chunk("data") => Carries(up', n + 1)
        /\ \A n : Carries(up, n) /\ out # Chunk("data") => Carries(up', n)
        /\ dpc = "main" => Queued(up', r)
        /\ dpc # "main" => Stream(up', {Chunk("data")}, Ends)
    <2>1. dpc # "main" => Stream(up, {Chunk("data")}, Ends)
      BY <1>d DEF UploadInv
    <2> QED BY <2>1, <1>a, <1>b, <1>d, <1>f, WriteFacts
  <1>h. \/ out = Chunk("data") /\ sent' = sent + 1 /\ lpc' = "file" /\ sent < size
        \/ out \in Ends /\ sent' = sent /\ lpc' \in {"recv", "discard"} /\ (out = Chunk("end") => lpc' = "recv" /\ sent = size)
                        /\ (lpc' = "discard" => out = Chunk("cancel") /\ after = "discard")
    <2>1. (out = Chunk("data") => sent < size) /\ (out = Chunk("end") => sent = size)
      BY <1>b DEF LibInv
    <2>2. out # Chunk("data") => out = Chunk("end") \/ out = Chunk("cancel")
      BY <1>a DEF Ends
    <2> QED BY <1>a, <1>e, <2>1, <2>2 DEF LibGoto, LibTypes
  <1>i. /\ lpc' = "file" => Sending' /\ ~Waiting' /\ ~Receiving' /\ ~Unsent'
        /\ lpc' \in {"recv", "discard"} => ~Sending' /\ Waiting' /\ ~Receiving' /\ ~Unsent'
    BY DEF Sending, Waiting, Receiving, Unsent
  <1>1. SocketTypes' /\ DaemonTypes' /\ lost' = FALSE
    BY <1>f, <1>g DEF SocketTypes, DaemonTypes
  <1>j. FileTypes'
    BY <1>h DEF FileTypes, Constants, RPCBounds
  <1>2. LibTypes'
    BY <1>f, <1>h DEF LibTypes
  <1>3. LibInv' /\ DownInv'
    <2>1. Stream(down, Talk, {})
      BY <1>b DEF DownInv
    <2>2. Talk \cap Replies(serial) = {}
      BY Messages DEF Talk, Replies
    <2>3. Stream(down, Talk, Replies(serial))
      BY <2>1, <2>2, StreamOpen DEF SocketTypes
    <2>4. lpc' = "file" => ~Ended(up', Ends)
      BY <1>e, <1>g, <1>h
    <2> QED BY <2>1, <2>3, <2>4, <1>b, <1>f, <1>h, <1>i DEF LibInv, DownInv
  <1>4. DaemonInv'
    <2>1. CASE dpc = "main"
      BY <2>1, <1>b, <1>d, <1>g, <1>h, <1>i DEF DaemonInv, MainInv
    <2>2. CASE dpc # "main"
      BY <2>2, <1>b, <1>c, <1>d, <1>g, <1>h, <1>i DEF DaemonInv, UploadInv
    <2> QED BY <2>1, <2>2
  <1>5. FileInv'
    <2>a. stored \in Nat /\ sent \in Nat /\ stored <= sent
      BY <1>b DEF FileInv, FileTypes, Constants, RPCBounds
    <2>b. /\ out = Chunk("data") => sent' = sent + 1 /\ (sent - stored) + 1 = sent' - stored
          /\ out # Chunk("data") => sent' = sent
          /\ sent' >= sent /\ sent' \in Nat
      BY <1>e, <1>h, <2>a
    <2>c. stored' = stored
      OBVIOUS
    <2>1. /\ stored <= sent'
          /\ dpc = "main" => stored = 0 /\ Carries(up', sent')
          /\ dpc = "recv" => Carries(up', sent' - stored)
      <3>1. stored <= sent'
        BY <2>a, <2>b
      <3>2. dpc = "main" => stored = 0 /\ Carries(up', sent')
        BY <1>d, <1>g, <2>b
      <3>3. dpc = "recv" => Carries(up', sent' - stored)
        BY <1>d, <1>g, <2>b
      <3> QED BY <3>1, <3>2, <3>3
    <2>2. Waiting' /\ Ended(up', {Chunk("end")}) => sent' = size
      BY <1>e, <1>g, <1>h
    <2>3. ~Ended(down, {Reply("ok", serial)})
      <3>1. Talk \cap {Reply("ok", serial)} = {}
        BY Messages DEF Talk
      <3>2. Stream(down, Talk, {})
        BY <1>b DEF DownInv
      <3> QED BY <3>1, <3>2, StreamOpen, Zenon DEF SocketTypes
    <2> QED BY <2>c, <2>1, <2>2, <2>3, <1>b, <1>c, <1>i, <1>h DEF FileInv
  <1>6. ErrInv'
    BY <1>b, <1>f, <1>h DEF ErrInv, Sending
  <1>7. OkMeansWhole' /\ ErrorIsSet'
    BY <1>h DEF OkMeansWhole, ErrorIsSet
  <1> QED BY <1>1, <1>j, <1>2, <1>3, <1>4, <1>5, <1>6, <1>7

\* write_data.
LEMMA WriteDataIInv == ASSUME Constants, IInv, write_data PROVE IInv'
  <1>1. CASE dpc = "exited"
    <2>1. /\ lpc # "idle" /\ child_cleanup /\ SendFails
          /\ UNCHANGED <<kind, serial, cancel, stopped, fileVars, up, down, daemonVars, lost>>
      BY <1>1 DEF write_data, fileVars
    <2>2. /\ lpc' \in {"idle", "recv", "discard"} /\ ret' \in {ret, "error"} /\ (lpc' = "idle" => ret' = "error")
          /\ UNCHANGED <<out, after>>
      BY <2>1 DEF SendFails, Return, LibGoto, IInv, LibTypes
    <2>3. lpc' = "discard" => kind = "upload"
      <3>1. lpc' = "discard" => out.t # "request"
        BY <2>1 DEF SendFails, Return
      <3> QED BY <3>1, Messages DEF write_data, IInv, LibInv, Chunks, Sending
    <2> QED BY <1>1, <2>1, <2>2, <2>3, ClosedIInv
  <1> QED BY <1>1, WriteRequestIInv, WriteChunkIInv

=============================================================================
