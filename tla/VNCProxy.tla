------------------------------ MODULE VNCProxy ------------------------------
(***************************************************************************)
(* One viewer connection of the VNC proxy (vnc_svr.py): the viewer sends a *)
(* line with a domain's uuid, the proxy looks the domain's VNC port up,    *)
(* connects to it and then copies bytes both ways.  Connections share no   *)
(* state, so one is modelled.  Twisted delivers what arrives in chunks of  *)
(* any size and calls back when a connection is made, fails or is lost.    *)
(***************************************************************************)
EXTENDS Naturals, Sequences, FiniteSets

CONSTANTS
  Domains,  \* uuids, each one byte of the stream
  Payload,  \* other bytes
  NL,       \* the newline
  Streams,  \* what a viewer may send, as sequences of bytes
  Eager,    \* of them, what a viewer sends that does not wait for the console after its line
  MaxDown,  \* bound: bytes from the consoles
  NoConn    \* None, where a backend connection is expected

Bytes == Domains \cup Payload \cup {NL}
ProxyAssumption ==
  /\ Eager \subseteq Streams /\ Streams \subseteq Seq(Bytes)
  /\ MaxDown \in Nat /\ NoConn \notin Nat \cup Domains

\* A viewer that does not wait for the console sends one line.
EagerAssumption == \A s \in Eager : \A i, j \in DOMAIN s : s[i] = NL /\ s[j] = NL => i = j

VARIABLES
  stream,  \* everything this viewer will send
  n,       \* how much of it the proxy has received
  viewer,  \* the viewer's connection: open, or closed for reading
  data,    \* VNCServerProtocol.data
  client,  \* VNCServerProtocol.client: the number of a backend connection
  conns,   \* the backend connections, in the order of connectTCP
  down     \* the bytes written to the viewer, each the number of the connection it is from

vars == <<stream, n, viewer, data, client, conns, down>>

Conn == [dom: Domains, st: {"connecting", "up", "over"}, got: Seq(Bytes)]

\* Every variable has a value of its kind.
TypeOK ==
  /\ stream \in Streams
  /\ n \in 0..Len(stream)
  /\ viewer \in {"open", "closed"}
  /\ data \in Seq(Bytes)
  /\ client \in (1..Len(conns)) \cup {NoConn}
  /\ conns \in Seq(Conn)
  /\ down \in Seq(1..Len(conns))

\* connectionMade of the server side.
Init ==
  /\ stream \in Streams /\ n = 0 /\ viewer = "open"
  /\ data = <<>> /\ client = NoConn /\ conns = <<>> /\ down = <<>>

-----------------------------------------------------------------------------

\* data.find('\n') + 1: 0 when there is no newline.
Find(s) ==
  IF \E i \in DOMAIN s : s[i] = NL
  THEN CHOOSE i \in DOMAIN s : s[i] = NL /\ \A j \in 1..(i - 1) : s[j] # NL
  ELSE 0

\* Where the first line of the stream ends.
LineEnd == Find(stream)

\* write on the transport of connection c; what is written to a lost connection is dropped.
Write(c, s) ==
  IF conns[c].st = "up" THEN [conns EXCEPT ![c].got = @ \o s] ELSE conns

\* getPort and connectTCP.  The lookup raises for a line that is no uuid, or when libvirt
\* fails, and Twisted then closes the connection; without a VNC port nothing can be connected.
Dial(s, e) ==
  LET line == SubSeq(s, 1, e - 1) IN
  \/ /\ viewer' = "closed" /\ data' = s /\ UNCHANGED conns              \* getPort raises
  \/ /\ \E d \in Domains : line = <<d>>                                 \* no graphics: None
     /\ viewer' = "closed" /\ data' = SubSeq(s, e + 1, Len(s)) /\ UNCHANGED conns
  \/ \E d \in Domains :
     /\ line = <<d>>
     /\ conns' = Append(conns, [dom |-> d, st |-> "connecting", got |-> <<>>])
     /\ data' = SubSeq(s, e + 1, Len(s)) /\ UNCHANGED viewer

\* Mutant: only the new chunk is searched for the end of the line.
serverDataReceived_chunk(chunk) ==
  IF client = NoConn
  THEN LET s == data \o chunk
           e == Find(chunk)
       IN  IF e > 1 THEN Dial(s, e) ELSE data' = s /\ UNCHANGED <<viewer, conns>>
  ELSE conns' = Write(client, chunk) /\ UNCHANGED <<viewer, data>>

\* VNCServerProtocol.dataReceived(chunk).
serverDataReceived(chunk) ==
  IF client = NoConn
  THEN LET s == data \o chunk
           e == Find(s)
       IN  IF e > 1 THEN Dial(s, e) ELSE data' = s /\ UNCHANGED <<viewer, conns>>
  ELSE conns' = Write(client, chunk) /\ UNCHANGED <<viewer, data>>

\* A chunk of any size arrives.
ViewerSends(k) ==
  /\ viewer = "open" /\ n + k <= Len(stream)
  /\ stream \in Eager \/ down # <<>> \/ LineEnd = 0 \/ n + k <= LineEnd
  /\ n' = n + k
  /\ serverDataReceived(SubSeq(stream, n + 1, n + k))
  /\ UNCHANGED <<stream, client, down>>

\* The viewer disconnects: VNCServerProtocol does not react.
ViewerLeaves ==
  /\ viewer = "open" /\ viewer' = "closed"
  /\ UNCHANGED <<stream, n, data, client, conns, down>>

\* Mutant: the buffered bytes are not sent on.
clientConnectionMade_unflushed(c) ==
  /\ conns[c].st = "connecting"
  /\ client' = c
  /\ conns' = [conns EXCEPT ![c].st = "up"]
  /\ UNCHANGED <<stream, n, viewer, data, down>>

\* VNCClientProtocol.connectionMade and vncClient.
clientConnectionMade(c) ==
  /\ conns[c].st = "connecting"
  /\ client' = c
  /\ conns' = [conns EXCEPT ![c].st = "up", ![c].got = data]
  /\ UNCHANGED <<stream, n, viewer, data, down>>

\* Mutant: a failed connection does not disconnect the viewer.
clientConnectionOver_silent(c) ==
  /\ conns[c].st \in {"connecting", "up"}
  /\ conns' = [conns EXCEPT ![c].st = "over"]
  /\ UNCHANGED <<stream, n, viewer, data, client, down>>

\* Mutant: a lost connection resets client.
clientConnectionOver_resets(c) ==
  /\ conns[c].st \in {"connecting", "up"}
  /\ conns' = [conns EXCEPT ![c].st = "over"]
  /\ viewer' = "closed" /\ client' = NoConn
  /\ UNCHANGED <<stream, n, data, down>>

\* clientConnectionFailed and clientConnectionLost.
clientConnectionOver(c) ==
  /\ conns[c].st \in {"connecting", "up"}
  /\ conns' = [conns EXCEPT ![c].st = "over"]
  /\ viewer' = "closed"
  /\ UNCHANGED <<stream, n, data, client, down>>

\* VNCClientProtocol.dataReceived.
clientDataReceived(c) ==
  /\ conns[c].st = "up" /\ Len(down) < MaxDown
  /\ down' = IF viewer = "open" THEN Append(down, c) ELSE down
  /\ UNCHANGED <<stream, n, viewer, data, client, conns>>

Answered(c) == clientConnectionMade(c) \/ clientConnectionOver(c)

Next ==
  \/ \E k \in 1..Len(stream) : ViewerSends(k)
  \/ ViewerLeaves
  \/ \E c \in 1..Len(conns) : Answered(c) \/ clientDataReceived(c)

Spec == Init /\ [][Next]_vars

\* TCP answers every connection attempt in the end.
FairSpec == Spec /\ WF_vars(\E c \in 1..Len(conns) : Answered(c))

-----------------------------------------------------------------------------
(* Properties *)

\* dataReceived calls connectTCP at most once for a viewer, for the domain its first line names,
\* however the stream is cut into chunks.
OneConsole ==
  /\ Len(conns) <= 1
  /\ \A c \in DOMAIN conns : <<conns[c].dom>> = SubSeq(stream, 1, LineEnd - 1)

\* The connected console has received exactly what the viewer sent after the line: nothing that
\* arrived while the connection was being made is lost, repeated or overtaken.
Conserved ==
  \A c \in DOMAIN conns : conns[c].st = "up" => conns[c].got = SubSeq(stream, LineEnd + 1, n)

\* A viewer is connected at most once, to the console that its first line names, and that console has
\* received exactly what the viewer sent after the line.
ConsoleIsRight == TypeOK /\ OneConsole /\ Conserved

\* The proxy implements the tunnel.
Tunnel == INSTANCE VNCTunnel WITH
  Consoles <- Domains,
  Nowhere <- NoConn,
  accepted <- IF conns = <<>> THEN <<>> ELSE SubSeq(stream, LineEnd + 1, n),
  delivered <- IF client = NoConn THEN <<>> ELSE conns[client].got,
  console <- IF client = NoConn THEN NoConn ELSE conns[client].dom,
  alive <- viewer = "open"

\* One console per viewer, chosen once; what is delivered is what was accepted, in order.
ImplementsTunnel == Tunnel!TunnelSpec

\* Once a connection is attempted the viewer is linked to it or disconnected.
DialSettles == (conns # <<>>) ~> (client # NoConn \/ viewer = "closed")

=============================================================================
