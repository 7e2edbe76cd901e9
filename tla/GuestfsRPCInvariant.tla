------------------------- MODULE GuestfsRPCInvariant -------------------------
(***************************************************************************)
(* The inductive invariant of GuestfsRPC: what each socket may hold, as a  *)
(* stream that at most its last message ends, for every place where the    *)
(* two sides may be; and the lemmas about such streams.  GuestfsRPCSteps   *)
(* and GuestfsRPCProofs show that every step keeps it.                     *)
(***************************************************************************)
EXTENDS GuestfsRPC, TLAPS

Constants == RPCBounds /\ RPCKinds /\ "args" \notin DaemonFaults

Flags == {CANCEL}
Talk == {PROGRESS, CANCEL}
Filler == {PROGRESS, Chunk("data")}
Ends == {Chunk("end"), Chunk("cancel")}
Replies(n) == {Reply("ok", n), Reply("error", n)}

\* TypeOK, side by side.
LibTypes ==
  /\ ready \in BOOLEAN /\ cancel \in BOOLEAN /\ stopped \in BOOLEAN
  /\ lpc \in {"idle", "check", "write", "file", "recv", "discard", "recvfile", "rfcancel", "rfdiscard"}
  /\ kind \in Kinds \cup {"none"} /\ serial \in 0..MaxCalls /\ out \in ToDaemon /\ after \in {"recv", "discard"}
  /\ err \in {"unset", "EINTR", "other"} /\ ret \in {"none", "ok", "error"}
FileTypes == size \in 0..MaxChunks /\ sent \in 0..size /\ stored \in 0..size
SocketTypes == up \in Seq(ToDaemon) /\ down \in Seq(ToLibrary) /\ Len(up) <= Cap /\ Len(down) <= Cap
DaemonTypes ==
  /\ dpc \in {"main", "recv", "cancel", "discard", "replyok", "replyerr", "check", "write", "exited"}
  /\ dproc \in Kinds \cup {"none"} /\ dser \in 0..MaxCalls /\ dout \in Chunks /\ ticks \in 0..MaxProgress /\ due \in BOOLEAN

\* Messages of S, the last of which may be one of T instead.
Stream(s, S, T) == \A i \in DOMAIN s : s[i] \in S \/ (i = Len(s) /\ s[i] \in T)
Ended(s, T) == s # <<>> /\ s[Len(s)] \in T

\* Flags of an earlier call, the request r, and what was sent of its file.
Queued(s, r) ==
  \E p \in DOMAIN s :
    /\ s[p] = r /\ \A i \in 1..(p - 1) : s[i] = CANCEL
    /\ \A i \in (p + 1)..Len(s) : s[i] = Chunk("data") \/ (i = Len(s) /\ s[i] \in Ends)

\* There are n chunks with data in s: f lists their places in order.
Data(s) == {i \in DOMAIN s : s[i] = Chunk("data")}
Carries(s, n) ==
  /\ n \in Nat
  /\ \E f \in [1..n -> DOMAIN s] : /\ \A i, j \in 1..n : i < j => f[i] < f[j]
                                  /\ {f[i] : i \in 1..n} = Data(s)

\* Where the library is in a call.
Unsent == lpc \in {"check", "write"} /\ out.t = "request"
Sending == lpc = "file" \/ (lpc \in {"check", "write"} /\ out.t = "chunk")
Waiting == lpc \in {"recv", "discard"}
Receiving == lpc \in {"recvfile", "rfcancel", "rfdiscard"}

\* What the library is about and what it is about to write; a file that it sends is not ended.
LibInv ==
  /\ lpc # "idle" => kind \in Kinds /\ serial >= 1
  /\ lpc \in {"check", "write"} => out = Request(kind, serial) \/ out \in Chunks
  /\ Sending \/ lpc = "discard" => kind = "upload"
  /\ Receiving => kind = "download"
  /\ ~ready => lpc \in {"idle", "recv", "discard"} /\ dpc = "exited"
  /\ ready /\ Sending => ~Ended(up, Ends)
  /\ Sending /\ lpc # "file" => (out = Chunk("data") => sent < size) /\ (out = Chunk("end") => sent = size)

\* What is on its way to the library.
DownInv ==
  ready =>
    /\ lpc = "idle" \/ Unsent => down = <<>>
    /\ Sending => Stream(down, Talk, {})
    /\ Waiting /\ kind # "download" => Stream(down, Talk, Replies(serial))
    /\ Waiting /\ kind = "download" =>
         \/ down = <<>> \/ down = <<Reply("error", serial)>>
         \/ down # <<>> /\ Head(down) = Reply("ok", serial) /\ Stream(Tail(down), Filler, Ends)
    /\ Receiving => Stream(down, Filler, Ends)

\* The daemon in main_loop: it has ended the last call and not yet read the next.
MainInv ==
  /\ lpc = "idle" \/ Unsent => Stream(up, Flags, {})
  /\ Sending => Queued(up, Request(kind, serial)) /\ down = <<>>
  /\ Waiting =>
       \/ /\ Queued(up, Request(kind, serial)) /\ down = <<>>
          /\ kind # "upload" => Ended(up, {Request(kind, serial)})
       \/ up = <<>> /\ kind # "download" /\ Ended(down, Replies(serial))
       \/ up = <<>> /\ kind = "download" /\ (down = <<Reply("error", serial)>> \/ Ended(down, Ends))
  /\ Receiving => Ended(down, Ends) /\ Stream(up, Flags, {}) /\ (lpc # "rfdiscard" => up = <<>>)

\* The daemon in an upload, before a reply, and sending a file.
UploadInv ==
  /\ kind = "upload" /\ dproc = "upload" /\ dser = serial /\ (Sending \/ Waiting)
  /\ Stream(up, {Chunk("data")}, Ends) /\ Stream(down, Talk, {})
ReplyInv ==
  /\ dproc = kind /\ dser = serial /\ Waiting /\ up = <<>> /\ Stream(down, Talk, {})
  /\ kind = "download" => down = <<>>
SendInv ==
  /\ kind = "download" /\ dproc = "download" /\ dser = serial /\ (Waiting \/ Receiving)
  /\ Waiting => down # <<>> /\ Head(down) = Reply("ok", serial)
  /\ Stream(up, Flags, {}) /\ (lpc # "rfdiscard" => up = <<>>) /\ ~Ended(down, Ends)

DaemonInv ==
  ready =>
    /\ dpc = "main" => MainInv
    /\ dpc \in {"recv", "cancel", "discard"} => UploadInv
    /\ dpc \in {"replyok", "replyerr"} => ReplyInv
    /\ dpc \in {"check", "write"} => SendInv

\* Chunks are neither lost nor counted twice, and the end of a file comes when all of it was sent.
FileInv ==
  ready =>
    /\ stored <= sent
    /\ Unsent => sent = 0
    /\ dpc = "main" /\ (Sending \/ Waiting) /\ Queued(up, Request(kind, serial)) => stored = 0 /\ Carries(up, sent)
    /\ dpc = "recv" => Carries(up, sent - stored)
    /\ kind = "upload" /\ Waiting /\ Ended(up, {Chunk("end")}) => sent = size
    /\ kind = "upload" /\ (dpc = "replyok" \/ (Waiting /\ Ended(down, {Reply("ok", serial)}))) => stored = size
    /\ dpc \in {"replyok", "replyerr"} /\ kind = "download" => sent = 0
    /\ kind = "download" /\ (Waiting \/ lpc = "recvfile") => Carries(down, sent - stored)
    /\ kind = "download" /\ Ended(down, {Chunk("end")}) => sent = size
    /\ dpc = "write" => (dout = Chunk("data") => sent < size) /\ (dout = Chunk("end") => sent = size)

\* A call that will return an error has an error, or the user's wish, to show for it.
ErrInv ==
  /\ ~UserCancels => ~cancel
  /\ stopped => UserCancels /\ kind = "download"
  /\ lpc = "discard" \/ (Sending /\ lpc # "file" /\ out = Chunk("cancel") /\ after = "discard") => err # "unset"
  /\ lpc \in {"rfcancel", "rfdiscard"} => err # "unset" \/ stopped
  /\ ~ready => err # "unset"

IInv ==
  /\ LibTypes /\ FileTypes /\ SocketTypes /\ DaemonTypes /\ lost = FALSE
  /\ LibInv /\ DownInv /\ DaemonInv /\ FileInv /\ ErrInv
  /\ OkMeansWhole /\ ErrorIsSet

-----------------------------------------------------------------------------
(* Messages and streams *)

\* Messages of different kinds differ, and so do the chunks and the replies.
LEMMA Messages ==
  /\ \A c : Chunk(c).t = "chunk" /\ Chunk(c).c = c
  /\ \A st, n : Reply(st, n).t = "reply" /\ Reply(st, n).status = st /\ Reply(st, n).serial = n
  /\ \A k, n : Request(k, n).t = "request" /\ Request(k, n).kind = k /\ Request(k, n).serial = n
  /\ CANCEL.t = "cancelflag" /\ PROGRESS.t = "progress"
  BY DEF Chunk, Reply, Request, CANCEL, PROGRESS

\* The sequence of length 0.
LEMMA LenZero == ASSUME NEW X, NEW s \in Seq(X) PROVE Len(s) = 0 <=> s = <<>>
  OBVIOUS

\* A stream that is not ended can go on.
LEMMA StreamAppend ==
  ASSUME NEW X, NEW s \in Seq(X), NEW m \in X, NEW S, NEW T, Stream(s, S, T), ~Ended(s, T), m \in S \cup T
  PROVE  Stream(Append(s, m), S, T)
  <1> DEFINE a == Append(s, m)
  <1>1. Len(a) = Len(s) + 1 /\ DOMAIN a = 1..(Len(s) + 1) /\ DOMAIN s = 1..Len(s) /\ Len(s) \in Nat
    OBVIOUS
  <1>2. \A i \in DOMAIN s : a[i] = s[i] /\ s[i] \in S
    BY <1>1 DEF Stream, Ended
  <1>3. a[Len(s) + 1] = m
    OBVIOUS
  <1> HIDE DEF a
  <1>4. \A i \in DOMAIN a : a[i] \in S \/ (i = Len(a) /\ a[i] \in T)
    BY <1>1, <1>2, <1>3
  <1> QED BY <1>4 DEF Stream, a

\* What was appended is the end.
LEMMA EndedAppend ==
  ASSUME NEW X, NEW s \in Seq(X), NEW m \in X, NEW T
  PROVE  Append(s, m) # <<>> /\ (Ended(Append(s, m), T) <=> m \in T)
  <1>1. Append(s, m)[Len(Append(s, m))] = m /\ Len(Append(s, m)) = Len(s) + 1 /\ Len(s) \in Nat
    OBVIOUS
  <1>2. Append(s, m) # <<>>
    BY <1>1
  <1> QED BY <1>1, <1>2 DEF Ended

\* A stream without its first message; the message that ends a stream is its last.
LEMMA StreamTail ==
  ASSUME NEW X, NEW s \in Seq(X), s # <<>>, NEW S, NEW T, Stream(s, S, T)
  PROVE  /\ Stream(Tail(s), S, T) /\ Head(s) \in S \cup T
         /\ Head(s) \notin S => Tail(s) = <<>>
  <1> DEFINE t == Tail(s)
  <1>1. Len(s) \in Nat /\ Len(s) >= 1 /\ DOMAIN s = 1..Len(s) /\ Len(t) = Len(s) - 1 /\ DOMAIN t = 1..(Len(s) - 1)
    OBVIOUS
  <1>2. \A i \in 1..(Len(s) - 1) : t[i] = s[i + 1]
    OBVIOUS
  <1>3. Head(s) = s[1] /\ (Len(s) = 1 => t = <<>>) /\ (t = <<>> => Len(s) = 1)
    <2>1. t \in Seq(X) /\ Head(s) = s[1]
      OBVIOUS
    <2> HIDE DEF t
    <2> QED BY <1>1, <2>1, LenZero
  <1> HIDE DEF t
  <1>4. Stream(t, S, T)
    <2> SUFFICES ASSUME NEW i \in DOMAIN t PROVE t[i] \in S \/ (i = Len(t) /\ t[i] \in T)
      BY DEF Stream
    <2>1. i + 1 \in DOMAIN s /\ t[i] = s[i + 1]
      BY <1>1, <1>2
    <2> QED BY <2>1, <1>1 DEF Stream
  <1>5. Head(s) \in S \cup T /\ (Head(s) \notin S => Len(s) = 1)
    BY <1>1, <1>3 DEF Stream
  <1> QED BY <1>3, <1>4, <1>5 DEF t

\* A stream that nothing can end is not ended.
LEMMA StreamOpen ==
  ASSUME NEW X, NEW s \in Seq(X), NEW S, NEW T, Stream(s, S, {}), S \cap T = {}
  PROVE  Stream(s, S, T) /\ ~Ended(s, T)
  <1>1. s # <<>> => Len(s) \in DOMAIN s
    OBVIOUS
  <1> QED BY <1>1 DEF Stream, Ended

\* The request is put in the queue, and chunks of its file behind it.
LEMMA QueuedNew ==
  ASSUME NEW X, NEW s \in Seq(X), NEW r \in X, Stream(s, Flags, {})
  PROVE  Queued(Append(s, r), r)
  <1> DEFINE a == Append(s, r)
  <1>1. Len(a) = Len(s) + 1 /\ DOMAIN a = 1..(Len(s) + 1) /\ DOMAIN s = 1..Len(s) /\ Len(s) \in Nat
    OBVIOUS
  <1>2. a[Len(s) + 1] = r /\ \A i \in 1..Len(s) : a[i] = CANCEL
    BY <1>1 DEF Stream, Flags
  <1> HIDE DEF a
  <1>3. Queued(a, r)
    <2>1. Len(s) + 1 \in DOMAIN a /\ (Len(s) + 1) - 1 = Len(s)
      BY <1>1
    <2> QED BY <1>1, <1>2, <2>1 DEF Queued
  <1> QED BY <1>3 DEF a

LEMMA QueuedAppend ==
  ASSUME NEW X, NEW s \in Seq(X), NEW r, NEW m \in X, Queued(s, r), ~Ended(s, Ends), m \in {Chunk("data")} \cup Ends
  PROVE  Queued(Append(s, m), r)
  <1> DEFINE a == Append(s, m)
  <1>1. Len(a) = Len(s) + 1 /\ DOMAIN a = 1..(Len(s) + 1) /\ DOMAIN s = 1..Len(s) /\ Len(s) \in Nat
    OBVIOUS
  <1>2. a[Len(s) + 1] = m /\ \A i \in 1..Len(s) : a[i] = s[i]
    BY <1>1
  <1> HIDE DEF a
  <1>3. PICK p \in DOMAIN s : /\ s[p] = r /\ \A i \in 1..(p - 1) : s[i] = CANCEL
                              /\ \A i \in (p + 1)..Len(s) : s[i] = Chunk("data") \/ (i = Len(s) /\ s[i] \in Ends)
    BY DEF Queued
  <1>a. p \in 1..Len(s) /\ \A i \in 1..(p - 1) : i \in 1..Len(s)
    BY <1>1
  <1>4. p \in DOMAIN a /\ a[p] = r /\ \A i \in 1..(p - 1) : a[i] = CANCEL
    <2>0. s[p] = r /\ a[p] = s[p]
      BY <1>a, <1>2, <1>3
    <2>1. p \in DOMAIN a /\ a[p] = r
      <3>1. p \in 1..(Len(s) + 1)
        BY <1>a, <1>1
      <3> QED BY <3>1, <2>0, <1>1
    <2>2. \A i \in 1..(p - 1) : a[i] = CANCEL
      BY <1>a, <1>2, <1>3
    <2> QED BY <2>1, <2>2
  <1>5. ASSUME NEW i \in (p + 1)..Len(a) PROVE a[i] = Chunk("data") \/ (i = Len(a) /\ a[i] \in Ends)
    <2>1. CASE i = Len(a)
      BY <2>1, <1>1, <1>2
    <2>2. CASE i # Len(a)
      <3>1. i \in (p + 1)..Len(s) /\ a[i] = s[i]
        BY <2>2, <1>1, <1>2
      <3>2. s # <<>>
        OBVIOUS
      <3> QED BY <3>1, <3>2, <1>3 DEF Ended
    <2> QED BY <2>1, <2>2
  <1>6. Queued(a, r)
    BY <1>4, <1>5 DEF Queued
  <1> QED BY <1>6 DEF a

\* The daemon reads a flag and the request is still in the queue, or it reads the request.
LEMMA QueuedTail ==
  ASSUME NEW X, NEW s \in Seq(X), NEW r, Queued(s, r), r # CANCEL
  PROVE  /\ s # <<>> /\ Head(s) \in {CANCEL, r}
         /\ Head(s) = CANCEL => Queued(Tail(s), r)
         /\ Head(s) = r => Stream(Tail(s), {Chunk("data")}, Ends)
         /\ r \notin Ends => (Ended(Tail(s), Ends) <=> Ended(s, Ends))
  <1> DEFINE t == Tail(s)
  <1>3. PICK p \in DOMAIN s : /\ s[p] = r /\ \A i \in 1..(p - 1) : s[i] = CANCEL
                              /\ \A i \in (p + 1)..Len(s) : s[i] = Chunk("data") \/ (i = Len(s) /\ s[i] \in Ends)
    BY DEF Queued
  <1>0. s # <<>> /\ DOMAIN s = 1..Len(s)
    OBVIOUS
  <1>1. Len(s) \in Nat /\ Len(s) >= 1 /\ Len(t) = Len(s) - 1 /\ DOMAIN t = 1..(Len(s) - 1) /\ Head(s) = s[1]
    BY <1>0
  <1>2. \A i \in 1..(Len(s) - 1) : t[i] = s[i + 1]
    BY <1>0
  <1>9. t # <<>> <=> Len(t) >= 1
    <2>1. t \in Seq(X)
      BY <1>0
    <2> HIDE DEF t
    <2> QED BY <2>1, LenZero
  <1> HIDE DEF t
  <1>4. CASE p = 1
    <2>1. Head(s) = r
      BY <1>1, <1>3, <1>4
    <2>2. Stream(t, {Chunk("data")}, Ends)
      <3> SUFFICES ASSUME NEW i \in DOMAIN t PROVE t[i] = Chunk("data") \/ (i = Len(t) /\ t[i] \in Ends)
        BY DEF Stream
      <3>1. t[i] = s[i + 1] /\ i + 1 \in (p + 1)..Len(s) /\ (i + 1 = Len(s) => i = Len(t))
        BY <1>1, <1>2, <1>4
      <3> QED BY <3>1, <1>3
    <2>3. r \notin Ends => (Ended(t, Ends) <=> Ended(s, Ends))
      <3>1. CASE Len(s) = 1
        BY <3>1, <1>0, <1>1, <1>3, <1>4, <1>9 DEF Ended
      <3>2. CASE Len(s) # 1
        <4>1. t # <<>> /\ t[Len(t)] = s[Len(s)]
          BY <3>2, <1>1, <1>2, <1>9
        <4> QED BY <4>1, <1>0 DEF Ended
      <3> QED BY <3>1, <3>2
    <2> QED BY <2>1, <2>2, <2>3, <1>0 DEF t
  <1>5. CASE p # 1
    <2>0. p \in 2..Len(s)
      BY <1>0, <1>5
    <2>1. Head(s) = CANCEL
      BY <1>1, <1>3, <2>0
    <2>2. p - 1 \in DOMAIN t /\ t[p - 1] = r
      BY <1>1, <1>2, <1>3, <2>0
    <2>3. \A i \in 1..((p - 1) - 1) : t[i] = CANCEL
      BY <1>1, <1>2, <1>3, <2>0
    <2>4. ASSUME NEW i \in ((p - 1) + 1)..Len(t) PROVE t[i] = Chunk("data") \/ (i = Len(t) /\ t[i] \in Ends)
      <3>1. t[i] = s[i + 1] /\ i + 1 \in (p + 1)..Len(s) /\ (i + 1 = Len(s) => i = Len(t))
        BY <1>1, <1>2, <2>0
      <3> QED BY <3>1, <1>3
    <2>5. Queued(t, r)
      BY <2>2, <2>3, <2>4 DEF Queued
    <2>6. t # <<>> /\ t[Len(t)] = s[Len(s)]
      BY <1>1, <1>2, <1>9, <2>0
    <2> QED BY <2>1, <2>5, <2>6, <1>0 DEF Ended, t
  <1> QED BY <1>4, <1>5

\* Nothing is counted where there are no chunks with data.
LEMMA CarriesNone ==
  ASSUME NEW s, \A i \in DOMAIN s : s[i] # Chunk("data")
  PROVE  \A n : Carries(s, n) <=> n = 0
  <1>1. Data(s) = {}
    BY DEF Data
  <1>2. ASSUME NEW n, Carries(s, n) PROVE n = 0
    <2>1. n \in Nat /\ (\E f : {f[i] : i \in 1..n} = {})
      BY <1>1, <1>2, Zenon DEF Carries
    <2>2. 1 \notin 1..n
      BY <2>1
    <2> QED BY <2>1, <2>2
  <1>3. Carries(s, 0)
    <2> DEFINE f == [i \in 1..0 |-> i]
    <2>1. 1..0 = {}
      OBVIOUS
    <2>2. f \in [1..0 -> DOMAIN s] /\ {f[i] : i \in 1..0} = {} /\ \A i, j \in 1..0 : i < j => f[i] < f[j]
      BY <2>1
    <2> QED BY <1>1, <2>2, Zenon DEF Carries
  <1> QED BY <1>2, <1>3

\* What a message more adds to the count.
LEMMA CarriesAppend ==
  ASSUME NEW X, NEW s \in Seq(X), NEW m \in X, NEW n, Carries(s, n)
  PROVE  Carries(Append(s, m), IF m = Chunk("data") THEN n + 1 ELSE n)
  <1> DEFINE a == Append(s, m)
  <1>1. Len(s) \in Nat /\ DOMAIN s = 1..Len(s) /\ DOMAIN a = 1..(Len(s) + 1) /\ a[Len(s) + 1] = m
    OBVIOUS
  <1>2. \A i \in 1..Len(s) : a[i] = s[i]
    OBVIOUS
  <1> HIDE DEF a
  <1>3. Data(a) = IF m = Chunk("data") THEN Data(s) \cup {Len(s) + 1} ELSE Data(s)
    <2>1. \A i : i \in 1..(Len(s) + 1) <=> (i \in 1..Len(s) \/ i = Len(s) + 1)
      BY <1>1
    <2> QED BY <1>1, <1>2, <2>1 DEF Data
  <1>4. n \in Nat
    BY DEF Carries
  <1>5. PICK f \in [1..n -> DOMAIN s] : (\A i, j \in 1..n : i < j => f[i] < f[j]) /\ {f[i] : i \in 1..n} = Data(s)
    BY DEF Carries
  <1>6. \A i \in 1..n : f[i] \in Nat /\ f[i] <= Len(s) /\ f[i] \in DOMAIN a
    BY <1>1, <1>5
  <1>7. CASE m = Chunk("data")
    <2> DEFINE g == [i \in 1..(n + 1) |-> IF i = n + 1 THEN Len(s) + 1 ELSE f[i]]
    <2>1. \A i : i \in 1..(n + 1) <=> (i \in 1..n \/ i = n + 1)
      BY <1>4
    <2>2. n + 1 \notin 1..n
      BY <1>4
    <2>3. g[n + 1] = Len(s) + 1 /\ \A i \in 1..n : g[i] = f[i]
      BY <2>1, <2>2
    <2>4. g \in [1..(n + 1) -> DOMAIN a]
      BY <1>1, <1>6, <2>1
    <2> HIDE DEF g
    <2>5. \A i, j \in 1..(n + 1) : i < j => g[i] < g[j]
      <3> SUFFICES ASSUME NEW i \in 1..(n + 1), NEW j \in 1..(n + 1), i < j PROVE g[i] < g[j]
        OBVIOUS
      <3>1. i \in 1..n
        BY <1>4
      <3>2. CASE j = n + 1
        BY <1>1, <1>6, <2>3, <3>1, <3>2
      <3>3. CASE j # n + 1
        BY <1>5, <2>1, <2>3, <3>1, <3>3
      <3> QED BY <3>2, <3>3
    <2>6. {g[i] : i \in 1..(n + 1)} = Data(a)
      BY <1>3, <1>5, <1>7, <2>1, <2>3
    <2>7. n + 1 \in Nat
      BY <1>4
    <2>8. Carries(a, n + 1)
      BY <2>4, <2>5, <2>6, <2>7, Zenon DEF Carries
    <2> QED BY <1>7, <2>8 DEF a
  <1>8. CASE m # Chunk("data")
    <2>1. f \in [1..n -> DOMAIN a]
      BY <1>5, <1>6
    <2> QED BY <1>3, <1>4, <1>5, <1>8, <2>1, Zenon DEF Carries, a
  <1> QED BY <1>7, <1>8

\* What the first message takes away from it.
LEMMA CarriesTail ==
  ASSUME NEW X, NEW s \in Seq(X), s # <<>>, NEW n, Carries(s, n)
  PROVE  IF Head(s) = Chunk("data") THEN n >= 1 /\ Carries(Tail(s), n - 1) ELSE Carries(Tail(s), n)
  <1> DEFINE t == Tail(s)
  <1>1. Len(s) \in Nat /\ Len(s) >= 1 /\ DOMAIN s = 1..Len(s) /\ DOMAIN t = 1..(Len(s) - 1) /\ Head(s) = s[1]
    OBVIOUS
  <1>2. \A i \in 1..(Len(s) - 1) : t[i] = s[i + 1]
    OBVIOUS
  <1> HIDE DEF t
  <1>3. \A i \in DOMAIN s : i # 1 => i - 1 \in DOMAIN t /\ t[i - 1] = s[i]
    <2> SUFFICES ASSUME NEW i \in DOMAIN s, i # 1 PROVE i - 1 \in DOMAIN t /\ t[i - 1] = s[i]
      OBVIOUS
    <2>1. i \in Nat /\ i - 1 \in 1..(Len(s) - 1) /\ (i - 1) + 1 = i
      BY <1>1
    <2> QED BY <1>1, <1>2, <2>1
  <1>4. \A k \in DOMAIN t : k + 1 \in DOMAIN s /\ k + 1 # 1 /\ t[k] = s[k + 1] /\ (k + 1) - 1 = k
    BY <1>1, <1>2
  <1>5. n \in Nat
    BY DEF Carries
  <1>6. PICK f \in [1..n -> DOMAIN s] : (\A i, j \in 1..n : i < j => f[i] < f[j]) /\ {f[i] : i \in 1..n} = Data(s)
    BY DEF Carries
  <1>7. \A i \in 1..n : f[i] \in Nat /\ f[i] >= 1 /\ s[f[i]] = Chunk("data")
    BY <1>1, <1>6 DEF Data
  <1>8. CASE Head(s) = Chunk("data")
    <2>1. PICK k \in 1..n : f[k] = 1
      BY <1>1, <1>6, <1>8 DEF Data
    <2>2. n >= 1 /\ 1 \in 1..n /\ k = 1
      <3>1. n >= 1 /\ 1 \in 1..n
        BY <1>5, <2>1
      <3> QED BY <1>6, <1>7, <2>1, <3>1
    <2>3. \A i \in 1..(n - 1) : i + 1 \in 1..n /\ i + 1 # 1
      BY <1>5
    <2>4. \A i \in 1..(n - 1) : f[i + 1] > 1 /\ f[i + 1] \in DOMAIN s
      BY <1>6, <2>1, <2>2, <2>3
    <2> DEFINE g == [i \in 1..(n - 1) |-> f[i + 1] - 1]
    <2>5. g \in [1..(n - 1) -> DOMAIN t]
      BY <1>3, <2>4
    <2>6. \A i, j \in 1..(n - 1) : i < j => g[i] < g[j]
      <3> SUFFICES ASSUME NEW i \in 1..(n - 1), NEW j \in 1..(n - 1), i < j PROVE f[i + 1] - 1 < f[j + 1] - 1
        OBVIOUS
      <3>1. f[i + 1] < f[j + 1]
        BY <1>6, <2>3
      <3> QED BY <1>1, <2>4, <3>1
    <2>7. {g[i] : i \in 1..(n - 1)} = Data(t)
      <3>1. ASSUME NEW i \in 1..(n - 1) PROVE f[i + 1] - 1 \in Data(t)
        BY <1>3, <1>7, <2>3, <2>4 DEF Data
      <3>2. ASSUME NEW x \in Data(t) PROVE \E i \in 1..(n - 1) : x = f[i + 1] - 1
        <4>1. x + 1 \in Data(s) /\ x + 1 # 1 /\ (x + 1) - 1 = x
          BY <1>4 DEF Data
        <4>2. PICK i \in 1..n : f[i] = x + 1
          BY <1>6, <4>1
        <4>3. i # 1
          BY <2>1, <2>2, <4>1, <4>2
        <4>4. i - 1 \in 1..(n - 1) /\ (i - 1) + 1 = i
          BY <1>5, <4>3
        <4> QED BY <4>1, <4>2, <4>4
      <3> QED BY <3>1, <3>2
    <2>8. n - 1 \in Nat
      BY <1>5, <2>2
    <2> HIDE DEF g
    <2> QED BY <1>8, <2>2, <2>5, <2>6, <2>7, <2>8, Zenon DEF Carries, t
  <1>9. CASE Head(s) # Chunk("data")
    <2>1. \A i \in 1..n : f[i] \in DOMAIN s /\ f[i] # 1
      BY <1>1, <1>6, <1>7, <1>9
    <2> DEFINE g == [i \in 1..n |-> f[i] - 1]
    <2>2. g \in [1..n -> DOMAIN t]
      BY <1>3, <2>1
    <2>3. \A i, j \in 1..n : i < j => g[i] < g[j]
      BY <1>6, <1>7
    <2>4. {g[i] : i \in 1..n} = Data(t)
      <3>1. ASSUME NEW i \in 1..n PROVE f[i] - 1 \in Data(t)
        BY <1>3, <1>7, <2>1 DEF Data
      <3>2. ASSUME NEW x \in Data(t) PROVE \E i \in 1..n : x = f[i] - 1
        <4>1. x + 1 \in Data(s) /\ (x + 1) - 1 = x
          BY <1>4 DEF Data
        <4>2. PICK i \in 1..n : f[i] = x + 1
          BY <1>6, <4>1
        <4> QED BY <4>1, <4>2
      <3> QED BY <3>1, <3>2
    <2> HIDE DEF g
    <2> QED BY <1>5, <1>9, <2>2, <2>3, <2>4, Zenon DEF Carries, t
  <1> QED BY <1>8, <1>9

\* An empty socket.
LEMMA Empty ==
  /\ \A r : ~Queued(<<>>, r)
  /\ \A T : ~Ended(<<>>, T)
  /\ \A S, T : Stream(<<>>, S, T)
  /\ \A n : Carries(<<>>, n) <=> n = 0
  <1>1. DOMAIN <<>> = {}
    OBVIOUS
  <1>2. \A n : Carries(<<>>, n) <=> n = 0
    BY <1>1, CarriesNone
  <1> QED BY <1>1, <1>2 DEF Queued, Ended, Stream

\* The last message is that of the rest, unless it is the only one.
LEMMA LastOfTail ==
  ASSUME NEW X, NEW s \in Seq(X), s # <<>>
  PROVE  /\ \A U : Ended(Tail(s), U) => Ended(s, U)
         /\ \A U : Tail(s) # <<>> => (Ended(s, U) <=> Ended(Tail(s), U))
         /\ \A U : Tail(s) = <<>> => (Ended(s, U) <=> Head(s) \in U)
  <1> DEFINE t == Tail(s)
  <1>1. t \in Seq(X) /\ Len(s) \in Nat /\ Len(s) >= 1 /\ Len(t) = Len(s) - 1 /\ Head(s) = s[1]
    OBVIOUS
  <1>2. \A i \in 1..(Len(s) - 1) : t[i] = s[i + 1]
    OBVIOUS
  <1> HIDE DEF t
  <1>3. t = <<>> <=> Len(s) = 1
    BY <1>1, LenZero
  <1>4. Len(s) # 1 => t[Len(t)] = s[Len(s)]
    BY <1>1, <1>2
  <1>5. /\ \A U : Ended(t, U) => Ended(s, U)
        /\ \A U : t # <<>> => (Ended(s, U) <=> Ended(t, U))
        /\ \A U : t = <<>> => (Ended(s, U) <=> Head(s) \in U)
    BY <1>1, <1>3, <1>4 DEF Ended
  <1> QED BY <1>5 DEF t

\* Writing to a socket.
LEMMA Write ==
  ASSUME NEW X, NEW s \in Seq(X), NEW m \in X, Cap \in Nat, Len(s) < Cap
  PROVE  /\ Append(s, m) \in Seq(X) /\ Len(Append(s, m)) <= Cap /\ Append(s, m) # <<>>
         /\ \A T : Ended(Append(s, m), T) <=> m \in T
         /\ \A S, T : Stream(s, S, T) /\ ~Ended(s, T) /\ m \in S \cup T => Stream(Append(s, m), S, T)
         /\ \A n : Carries(s, n) /\ m = Chunk("data") => Carries(Append(s, m), n + 1)
         /\ \A n : Carries(s, n) /\ m # Chunk("data") => Carries(Append(s, m), n)
         /\ s = <<>> => Append(s, m) = <<m>> /\ Head(<<m>>) = m /\ Tail(<<m>>) = <<>>
         /\ s # <<>> =>
              /\ Head(Append(s, m)) = Head(s)
              /\ \A S, T : Stream(Tail(s), S, T) /\ ~Ended(s, T) /\ m \in S \cup T => Stream(Tail(Append(s, m)), S, T)
  <1>1. Append(s, m) \in Seq(X) /\ Len(Append(s, m)) <= Cap
    OBVIOUS
  <1>2. \A T : Append(s, m) # <<>> /\ (Ended(Append(s, m), T) <=> m \in T)
    BY EndedAppend
  <1>3. \A S, T : Stream(s, S, T) /\ ~Ended(s, T) /\ m \in S \cup T => Stream(Append(s, m), S, T)
    BY StreamAppend
  <1>4. \A n : Carries(s, n) => Carries(Append(s, m), IF m = Chunk("data") THEN n + 1 ELSE n)
    BY CarriesAppend
  <1>5. s = <<>> => Append(s, m) = <<m>> /\ Head(<<m>>) = m /\ Tail(<<m>>) = <<>>
    OBVIOUS
  <1>6. ASSUME s # <<>> PROVE Head(Append(s, m)) = Head(s) /\ Tail(Append(s, m)) = Append(Tail(s), m)
    <2>1. Tail(s) \in Seq(X) /\ Len(s) \in Nat /\ Len(s) >= 1 /\ Len(Tail(s)) = Len(s) - 1
      BY <1>6
    <2>2. Head(Append(s, m)) = Head(s)
      BY <1>6, <2>1
    <2>3. Tail(Append(s, m)) \in Seq(X) /\ Append(Tail(s), m) \in Seq(X)
      BY <2>1
    <2>4. Len(Tail(Append(s, m))) = Len(s) /\ Len(Append(Tail(s), m)) = Len(s)
      BY <2>1
    <2>5. ASSUME NEW i \in 1..Len(s) PROVE Tail(Append(s, m))[i] = Append(Tail(s), m)[i]
      <3>1. Tail(Append(s, m))[i] = Append(s, m)[i + 1]
        OBVIOUS
      <3>2. CASE i = Len(s)
        BY <3>1, <3>2, <2>1
      <3>3. CASE i # Len(s)
        <4>0. i + 1 \in 1..Len(s) /\ i \in 1..Len(Tail(s))
          <5>0. i \in Nat /\ i >= 1 /\ i <= Len(s) /\ Len(s) \in Nat
            OBVIOUS
          <5>1. i \in 1..(Len(s) - 1) /\ i + 1 \in 1..Len(s)
            BY <5>0, <3>3
          <5> QED BY <5>1, <2>1
        <4>1. Append(s, m)[i + 1] = s[i + 1]
          BY <4>0
        <4>a. \A t \in Seq(X) : \A k \in 1..Len(t) : Append(t, m)[k] = t[k]
          OBVIOUS
        <4>b. Append(Tail(s), m)[i] = Tail(s)[i]
          BY <4>0, <2>1, <4>a
        <4>2. Tail(s)[i] = s[i + 1]
          BY <4>0, <1>6
        <4> QED BY <3>1, <4>1, <4>b, <4>2
      <3> QED BY <3>2, <3>3
    <2>6. \A u, v \in Seq(X) : Len(u) = Len(v) /\ (\A i \in 1..Len(u) : u[i] = v[i]) => u = v
      OBVIOUS
    <2>7. \A i \in 1..Len(Tail(Append(s, m))) : Tail(Append(s, m))[i] = Append(Tail(s), m)[i]
      BY <2>4, <2>5
    <2> QED BY <2>2, <2>3, <2>4, <2>6, <2>7, Zenon
  <1>7. ASSUME s # <<>>, NEW S, NEW T, Stream(Tail(s), S, T), ~Ended(s, T), m \in S \cup T
        PROVE  Stream(Tail(Append(s, m)), S, T)
    <2>1. Tail(s) \in Seq(X)
      BY <1>7
    <2>2. ~Ended(Tail(s), T)
      BY <1>7, LastOfTail
    <2>3. Stream(Append(Tail(s), m), S, T)
      BY <1>7, <2>1, <2>2, StreamAppend, Zenon
    <2> QED BY <1>6, <1>7, <2>3, Zenon
  <1> QED BY <1>1, <1>2, <1>3, <1>4, <1>5, <1>6, <1>7

\* Reading from a socket.
LEMMA ReadFrom ==
  ASSUME NEW X, NEW s \in Seq(X), Cap \in Nat, Len(s) <= Cap, s # <<>>
  PROVE  /\ Tail(s) \in Seq(X) /\ Len(Tail(s)) <= Cap /\ Head(s) \in X
         /\ \A S, T : Stream(s, S, T) => /\ Stream(Tail(s), S, T) /\ Head(s) \in S \cup T
                                         /\ Head(s) \notin S => Tail(s) = <<>>
         /\ \A U : Ended(Tail(s), U) => Ended(s, U)
         /\ \A U : Tail(s) # <<>> => (Ended(s, U) <=> Ended(Tail(s), U))
         /\ \A U : Tail(s) = <<>> => (Ended(s, U) <=> Head(s) \in U)
         /\ \A n : Carries(s, n) /\ Head(s) = Chunk("data") => n >= 1 /\ Carries(Tail(s), n - 1)
         /\ \A n : Carries(s, n) /\ Head(s) # Chunk("data") => Carries(Tail(s), n)
         /\ \A n : Carries(s, n) => n \in Nat
  <1>1. Tail(s) \in Seq(X) /\ Len(Tail(s)) <= Cap /\ Head(s) \in X
    OBVIOUS
  <1>2. \A S, T : Stream(s, S, T) => /\ Stream(Tail(s), S, T) /\ Head(s) \in S \cup T
                                     /\ Head(s) \notin S => Tail(s) = <<>>
    BY StreamTail
  <1>3. \A n : Carries(s, n) =>
          IF Head(s) = Chunk("data") THEN n >= 1 /\ Carries(Tail(s), n - 1) ELSE Carries(Tail(s), n)
    BY CarriesTail
  <1>4. \A n : Carries(s, n) => n \in Nat
    BY DEF Carries
  <1> QED BY <1>1, <1>2, <1>3, <1>4, LastOfTail

\* What is ended so is ended by one of more messages, and a stream ends with one of its messages.
LEMMA EndedIn ==
  /\ \A s, T, U : Ended(s, T) /\ T \subseteq U => Ended(s, U)
  /\ \A X : \A s \in Seq(X) : \A S, T, U : Stream(s, S, T) /\ Ended(s, U) => (S \cup T) \cap U # {}
  <1>1. \A X : \A s \in Seq(X) : s # <<>> => Len(s) \in DOMAIN s
    OBVIOUS
  <1> QED BY <1>1 DEF Ended, Stream

-----------------------------------------------------------------------------
(* Writing to and reading from the sockets *)

\* The messages that each side may read.
LEMMA Sorts ==
  ASSUME Constants, LibTypes, DaemonTypes
  PROVE  /\ Chunk("data") \in ToDaemon /\ Ends \subseteq ToDaemon /\ CANCEL \in ToDaemon
         /\ Chunk("data") \in ToLibrary /\ Ends \subseteq ToLibrary /\ Talk \subseteq ToLibrary
         /\ \A st \in {"ok", "error"} : Reply(st, serial) \in ToLibrary /\ Reply(st, dser) \in ToLibrary
         /\ kind \in Kinds /\ serial >= 1 => Request(kind, serial) \in ToDaemon
  BY DEF Constants, RPCBounds, LibTypes, DaemonTypes, ToDaemon, ToLibrary, Chunks, Ends, Talk

\* The daemon writes a message.
LEMMA SendFacts ==
  ASSUME Constants, SocketTypes, NEW m \in ToLibrary, Send(m)
  PROVE  /\ down' \in Seq(ToLibrary) /\ Len(down') <= Cap /\ down' # <<>>
         /\ \A T : Ended(down', T) <=> m \in T
         /\ \A S, T : Stream(down, S, T) /\ ~Ended(down, T) /\ m \in S \cup T => Stream(down', S, T)
         /\ \A n : Carries(down, n) /\ m = Chunk("data") => Carries(down', n + 1)
         /\ \A n : Carries(down, n) /\ m # Chunk("data") => Carries(down', n)
         /\ down = <<>> => down' = <<m>> /\ Head(down') = m /\ Tail(down') = <<>>
         /\ down # <<>> =>
              /\ Head(down') = Head(down)
              /\ \A S, T : Stream(Tail(down), S, T) /\ ~Ended(down, T) /\ m \in S \cup T => Stream(Tail(down'), S, T)
         /\ \A n : Carries(down, n) => n \in Nat
         /\ m \in Talk /\ Stream(down, Talk, {}) => Stream(down', Talk, {}) /\ Stream(down', Talk, Replies(serial))
         /\ m \in Replies(serial) /\ Stream(down, Talk, {}) => Stream(down', Talk, Replies(serial))
  <1>1. down \in Seq(ToLibrary) /\ Len(down) < Cap /\ down' = Append(down, m) /\ Cap \in Nat
    BY DEF Send, SocketTypes, Constants, RPCBounds
  <1>2. /\ down' \in Seq(ToLibrary) /\ Len(down') <= Cap /\ down' # <<>>
        /\ \A T : Ended(down', T) <=> m \in T
        /\ \A S, T : Stream(down, S, T) /\ ~Ended(down, T) /\ m \in S \cup T => Stream(down', S, T)
        /\ \A n : Carries(down, n) /\ m = Chunk("data") => Carries(down', n + 1)
        /\ \A n : Carries(down, n) /\ m # Chunk("data") => Carries(down', n)
        /\ down = <<>> => down' = <<m>> /\ Head(down') = m /\ Tail(down') = <<>>
        /\ down # <<>> =>
             /\ Head(down') = Head(down)
             /\ \A S, T : Stream(Tail(down), S, T) /\ ~Ended(down, T) /\ m \in S \cup T => Stream(Tail(down'), S, T)
    BY <1>1, Write
  <1>3. \A n : Carries(down, n) => n \in Nat
    BY DEF Carries
  <1>4. Talk \cap Replies(serial) = {} /\ Talk \cap {} = {}
    BY Messages DEF Talk, Replies
  <1>5. ASSUME Stream(down, Talk, {}) PROVE Stream(down, Talk, Replies(serial)) /\ ~Ended(down, Replies(serial)) /\ ~Ended(down, {})
    BY <1>1, <1>4, <1>5, StreamOpen
  <1>6. ASSUME m \in Talk, Stream(down, Talk, {}) PROVE Stream(down', Talk, {}) /\ Stream(down', Talk, Replies(serial))
    BY <1>2, <1>5, <1>6
  <1>7. ASSUME m \in Replies(serial), Stream(down, Talk, {}) PROVE Stream(down', Talk, Replies(serial))
    BY <1>2, <1>5, <1>7
  <1> QED BY <1>2, <1>3, <1>6, <1>7

\* The daemon reads a message.
LEMMA ReadFacts ==
  ASSUME Constants, SocketTypes, Read
  PROVE  /\ up # <<>> /\ up' \in Seq(ToDaemon) /\ Len(up') <= Cap /\ Head(up) \in ToDaemon
         /\ \A S, T : Stream(up, S, T) => /\ Stream(up', S, T) /\ Head(up) \in S \cup T
                                          /\ Head(up) \notin S => up' = <<>>
         /\ \A U : Ended(up', U) => Ended(up, U)
         /\ \A U : up' # <<>> => (Ended(up, U) <=> Ended(up', U))
         /\ \A U : up' = <<>> => (Ended(up, U) <=> Head(up) \in U)
         /\ \A n : Carries(up, n) /\ Head(up) = Chunk("data") => n >= 1 /\ Carries(up', n - 1)
         /\ \A n : Carries(up, n) /\ Head(up) # Chunk("data") => Carries(up', n)
         /\ \A n : Carries(up, n) => n \in Nat
  <1>1. up \in Seq(ToDaemon) /\ Len(up) <= Cap /\ up # <<>> /\ up' = Tail(up) /\ Cap \in Nat
    BY DEF Read, SocketTypes, Constants, RPCBounds
  <1> QED BY <1>1, ReadFrom

\* The library writes a message.
LEMMA WriteFacts ==
  ASSUME Constants, SocketTypes, NEW m \in ToDaemon, Len(up) < Cap, up' = Append(up, m)
  PROVE  /\ up' \in Seq(ToDaemon) /\ Len(up') <= Cap /\ up' # <<>>
         /\ \A T : Ended(up', T) <=> m \in T
         /\ \A S, T : Stream(up, S, T) /\ ~Ended(up, T) /\ m \in S \cup T => Stream(up', S, T)
         /\ \A n : Carries(up, n) /\ m = Chunk("data") => Carries(up', n + 1)
         /\ \A n : Carries(up, n) /\ m # Chunk("data") => Carries(up', n)
         /\ \A n : Carries(up, n) => n \in Nat
         /\ Stream(up, Flags, {}) => Carries(up, 0) /\ Queued(up', m)
         /\ \A r : Queued(up, r) /\ ~Ended(up, Ends) /\ m \in {Chunk("data")} \cup Ends => Queued(up', r)
  <1>1. up \in Seq(ToDaemon) /\ Cap \in Nat
    BY DEF SocketTypes, Constants, RPCBounds
  <1>2. /\ up' \in Seq(ToDaemon) /\ Len(up') <= Cap /\ up' # <<>>
        /\ \A T : Ended(up', T) <=> m \in T
        /\ \A S, T : Stream(up, S, T) /\ ~Ended(up, T) /\ m \in S \cup T => Stream(up', S, T)
        /\ \A n : Carries(up, n) /\ m = Chunk("data") => Carries(up', n + 1)
        /\ \A n : Carries(up, n) /\ m # Chunk("data") => Carries(up', n)
    BY <1>1, Write
  <1>3. \A n : Carries(up, n) => n \in Nat
    BY DEF Carries
  <1>4. ASSUME Stream(up, Flags, {}) PROVE Carries(up, 0) /\ Queued(up', m)
    <2>1. \A i \in DOMAIN up : up[i] # Chunk("data")
      BY <1>4, Messages DEF Stream, Flags
    <2> QED BY <1>1, <1>4, <2>1, CarriesNone, QueuedNew
  <1>5. \A r : Queued(up, r) /\ ~Ended(up, Ends) /\ m \in {Chunk("data")} \cup Ends => Queued(up', r)
    BY <1>1, QueuedAppend
  <1> QED BY <1>2, <1>3, <1>4, <1>5

\* The library reads a message.
LEMMA TakeFacts ==
  ASSUME Constants, SocketTypes, down # <<>>, down' = Tail(down)
  PROVE  /\ down' \in Seq(ToLibrary) /\ Len(down') <= Cap /\ Head(down) \in ToLibrary
         /\ \A S, T : Stream(down, S, T) => /\ Stream(down', S, T) /\ Head(down) \in S \cup T
                                            /\ Head(down) \notin S => down' = <<>>
         /\ \A U : Ended(down', U) => Ended(down, U)
         /\ \A U : down' # <<>> => (Ended(down, U) <=> Ended(down', U))
         /\ \A U : down' = <<>> => (Ended(down, U) <=> Head(down) \in U)
         /\ \A U : Ended(down, U) /\ Head(down) \notin U => Ended(down', U)
         /\ \A n : Carries(down, n) /\ Head(down) = Chunk("data") => n >= 1 /\ Carries(down', n - 1)
         /\ \A n : Carries(down, n) /\ Head(down) # Chunk("data") => Carries(down', n)
         /\ \A n : Carries(down, n) => n \in Nat
  <1>1. down \in Seq(ToLibrary) /\ Len(down) <= Cap /\ Cap \in Nat
    BY DEF SocketTypes, Constants, RPCBounds
  <1> QED BY <1>1, ReadFrom

=============================================================================
